------------------------------ MODULE MCRouter ------------------------------
EXTENDS Router, TLC

Symmetry == Permutations(RouterObj)

MCSymbol == {"/", "?", "=", "&", "a", "b", "c", "k", "l", "v", "{x}", "{y}", "NUL"}

MCPath == {<<>>, <<"/", "a">>, <<"/", "a", "/", "b">>}

MCEndpoint == {
  <<"/">>, <<"/", "b">>, <<"/", "b", "/">>,
  <<"/", "{x}">>, <<"/", "{x}", "/", "{y}">>, <<"/", "b", "/", "{y}">>,
  <<"/", "{x}", "/", "b">>, <<"/", "{x}", "/", "{x}">>, <<"/", "b", "{x}">> }

MCUri == {
  <<"/", "a", "/">>, <<"/", "b">>,
  <<"/", "a", "/", "b">>, <<"/", "a", "/", "b", "/", "c">>,
  <<"/", "b", "/", "c", "b", "?", "k", "NUL">>,
  <<"/", "a", "/", "c", "/", "b", "?", "k", "=", "v", "&", "k">>,
  <<"/", "a", "/", "b", "/", "b", "?", "k", "&", "l", "=", "v", "=">>,
  <<"/", "a", "/", "/", "b">>, <<"/", "a", "/", "b", "NUL", "c">> }

\* A URI with a long segment, and an endpoint for it.
LongUri == {<<"/", "b", "/">> \o [i \in 1 .. n |-> "c"] : n \in 1 .. 9}
=============================================================================
