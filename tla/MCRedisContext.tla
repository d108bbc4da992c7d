--------------------------- MODULE MCRedisContext ---------------------------
EXTENDS RedisContext, TLC

Symmetry == Permutations(Object) \cup Permutations(Context)
=============================================================================
