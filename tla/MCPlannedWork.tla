---------------------------- MODULE MCPlannedWork ----------------------------
(***************************************************************************)
(* Instances of PlannedWork for TLC.  Three records of weight one or three *)
(* and a target of two make one, two or three shards, among them one above *)
(* the target; a prompt limit of three makes the whole scope unsendable    *)
(* unless all its records are small.  Replies of two selections can repeat *)
(* a record, invent one, leave the shard and exceed the route limits.      *)
(***************************************************************************)
EXTENDS PlannedWork
=============================================================================
