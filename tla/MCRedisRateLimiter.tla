------------------------- MODULE MCRedisRateLimiter -------------------------
(* Small instances of RedisRateLimiter. *)
EXTENDS RedisRateLimiter, TLC

CONSTANTS p1, p2, p3

Processes == Permutations({p1, p2, p3})
=============================================================================
