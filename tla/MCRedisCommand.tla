--------------------------- MODULE MCRedisCommand ---------------------------
EXTENDS RedisCommand, TLC

CONSTANTS plain, cut

\* The second value has a NUL after the text of the first.
MCCString == plain :> plain @@ cut :> plain
=============================================================================
