--------------------------- MODULE MCRequestClient ---------------------------
EXTENDS RequestClient

SomeFaults == {" ", "name", "Content-Length", "/", "\t", "\r", "\n", "NUL", "high", ".", "%zz"}

Header(name, line) == [name |-> name, lines |-> <<line>>]
Folded(name, l1, l2) == [name |-> name, lines |-> <<l1, l2>>]

MCHeaders == {
  <<>>,
  <<Header("name", <<"BREW", ":">>)>>,
  <<Header("Content-Length", <<"1">>)>>,
  <<Header("content-length", <<"2">>)>>,
  <<Header("name", <<"high">>), Header("content-length", <<" ", "2">>)>>,
  <<Header("Content-Length", <<"1">>), Header("content-length", <<"2">>)>>,
  <<Header("name", <<>>), Folded("Content-Length", <<>>, <<" ", "2">>)>>,
  <<Folded("name", <<"BREW">>, <<"BREW">>)>>,
  <<Header("Content-Length", <<"-", "1">>)>>,
  <<Header("Content-Length", <<"BREW">>)>> }

\* One of every kind of line, where a symbol goes wrong.
MCCareless ==
  {[method |-> "PUT", uri |-> <<"/", "name">>,
    headers |-> <<Header("Content-Length", <<"1">>), Header("name", <<"BREW">>)>>,
    body |-> <<"BREW">>],
   [method |-> "DELETE", uri |-> <<"/">>,
    headers |-> <<Header("name", <<>>)>>, body |-> <<>>]}

MCRequests ==
  MCCareless \cup
  [method : {"POST", "BREW"},
   uri : {<<"/", "name">>, <<"/", "%2F", "%zz", "+">>, <<"name">>},
   headers : MCHeaders,
   body : {<<>>, <<"BREW">>, <<"BREW", "\n">>, <<"0", "NUL">>}]

MCMessages == UNION {Sends(r) : r \in Requests}
=============================================================================
