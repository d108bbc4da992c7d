---------------------------- MODULE MCHttpServer ----------------------------
EXTENDS HttpServer, TLC

Symmetry == Permutations(Conn)
=============================================================================
