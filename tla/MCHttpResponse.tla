--------------------------- MODULE MCHttpResponse ---------------------------
EXTENDS HttpResponse

\* Two contents of one length, one shorter, and one that is empty.
MCContent == {<<>>, <<"x">>, <<"x", "y">>, <<"y", "x">>}
MCAsked == {"CREATED", "NOT_FOUND", "PERMANENT_REDIRECT"}
=============================================================================
