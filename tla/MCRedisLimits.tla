---------------------------- MODULE MCRedisLimits ----------------------------
EXTENDS RedisLimitsProperties, TLC

CONSTANTS g1, g2

Symmetry == Permutations(Gateways)
=============================================================================
