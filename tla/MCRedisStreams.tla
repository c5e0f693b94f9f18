--------------------------- MODULE MCRedisStreams ---------------------------
(* Small instances of RedisStreamSlots for TLC. *)
EXTENDS RedisStreamSlots, TLC
=============================================================================
