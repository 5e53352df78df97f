------------------------------- MODULE MCShards -------------------------------
(* Two gates that start with one shard and may grow to two; the list is lost   *)
(* once.                                                                       *)
EXTENDS Shards
===============================================================================
