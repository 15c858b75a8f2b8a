----------------------------- MODULE MCSnowflake -----------------------------
(* Two processes, one of them with the default shard. *)
EXTENDS Snowflake

CONSTANTS p1, p2

MCShard == [p \in {p1, p2} |-> IF p = p1 THEN 0 ELSE 1026]
=============================================================================
