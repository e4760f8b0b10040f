-------------------------- MODULE MCRedisConnection --------------------------
(* A small instance of RedisConnection for TLC. *)
EXTENDS RedisConnection
=============================================================================
