---------------------------- MODULE MCJsonDocument ----------------------------
EXTENDS JsonDocument

String(s) == <<"STRING", s>>

MCKeyOrder == << <<"k">>, <<"k", Quote, "x">> >>

MCKey == ToSet(MCKeyOrder)

MCItems == {String(<<"x">>), String(<<Quote, "x">>), String(<<Backslash>>),
            <<"INTEGER", "1">>, <<"DOUBLE", "2.5">>}

MCScalars == MCItems \cup
  {String(<<>>), String(<<"x", Quote>>), String(<<"\n", Quote>>), String(<<Backslash, "n">>),
   <<"DOUBLE", "2.0">>, <<"DOUBLE", "1e20">>, <<"DOUBLE", "1234567.5">>, <<"BOOLEAN", TRUE>>}
=============================================================================
