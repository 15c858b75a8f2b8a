------------------------------ MODULE Snowflake ------------------------------
(***************************************************************************)
(* Ids of 22 bits below a timestamp: 10 of the shard and 12 of a sequence  *)
(* that counts the ids of one millisecond (snowflake.ts, snowflake-step.ts *)
(* of o23-n3).  Every process has a clock and a counter of its own.  A     *)
(* process may end and start again: its counter is then as at first.       *)
(***************************************************************************)
EXTENDS Integers

CONSTANTS
  Processes,
  Shard,          (* snowflake.shard.id of each process                        *)
  MAX_SEQUENCE,   (* 4095 in the code                                          *)
  MaxTime         (* the bound of the clocks                                   *)

(* shardId || SHARD_ID, and the bits it has in an id *)
ShardOf(p) == (IF Shard[p] = 0 THEN 1 ELSE Shard[p]) % 1024

(* The sequence has 12 bits, and no two processes share the bits of their  *)
(* shards.                                                                 *)
ASSUME SnowflakeAssumption ==
  /\ Shard \in [Processes -> Nat]
  /\ \A p, q \in Processes : p # q => ShardOf(p) # ShardOf(q)
  /\ MAX_SEQUENCE \in 1..4096
  /\ MaxTime \in Nat

VARIABLES
  clock,           (* Date.now() of each process, which never goes back        *)
  lastTimestamp,
  sequence,
  waiting,         (* is the process in waitNextMillis?                        *)
  issued,          (* the ids generated so far                                 *)
  repeated         (* the ids generated more than once                         *)

vars == <<clock, lastTimestamp, sequence, waiting, issued, repeated>>

Init ==
  /\ clock \in [Processes -> 0..MaxTime]
  /\ lastTimestamp = [p \in Processes |-> -1]
  /\ sequence = [p \in Processes |-> 0]
  /\ waiting = [p \in Processes |-> FALSE]
  /\ issued = {} /\ repeated = {}

Id(timestamp, shard, n) == timestamp * 4194304 + shard * 4096 + n

Issue(id) ==
  /\ repeated' = repeated \union ({id} \intersect issued)
  /\ issued' = issued \union {id}

\* Mutant: a sequence that is used up starts again in the same millisecond.
GenerateWithoutWait(p) ==
  /\ ~waiting[p]
  /\ LET timestamp == clock[p]
         next == IF timestamp = lastTimestamp[p] THEN (sequence[p] + 1) % MAX_SEQUENCE ELSE 0
     IN /\ sequence' = [sequence EXCEPT ![p] = next]
        /\ lastTimestamp' = [lastTimestamp EXCEPT ![p] = timestamp]
        /\ Issue(Id(timestamp, ShardOf(p), next))
  /\ UNCHANGED <<clock, waiting>>

(* generate, called without a timestamp. *)
Generate(p) ==
  /\ ~waiting[p]
  /\ LET timestamp == clock[p]
         same == timestamp = lastTimestamp[p]
         next == IF same THEN (sequence[p] + 1) % MAX_SEQUENCE ELSE 0
     IN /\ sequence' = [sequence EXCEPT ![p] = next]
        /\ IF same /\ next = 0
           THEN waiting' = [waiting EXCEPT ![p] = TRUE]
                /\ UNCHANGED <<lastTimestamp, issued, repeated>>
           ELSE /\ lastTimestamp' = [lastTimestamp EXCEPT ![p] = timestamp]
                /\ Issue(Id(timestamp, ShardOf(p), next))
                /\ UNCHANGED waiting
  /\ UNCHANGED clock

(* waitNextMillis comes to its end, and generate goes on. *)
WaitNextMillis(p) ==
  /\ waiting[p] /\ clock[p] > lastTimestamp[p]
  /\ waiting' = [waiting EXCEPT ![p] = FALSE]
  /\ lastTimestamp' = [lastTimestamp EXCEPT ![p] = clock[p]]
  /\ Issue(Id(clock[p], ShardOf(p), sequence[p]))
  /\ UNCHANGED <<clock, sequence>>

Tick(p) ==
  /\ clock[p] < MaxTime
  /\ clock' = [clock EXCEPT ![p] = clock[p] + 1]
  /\ UNCHANGED <<lastTimestamp, sequence, waiting, issued, repeated>>

(* The process starts again; that takes a millisecond at least. *)
Restart(p) ==
  /\ clock[p] < MaxTime
  /\ clock' = [clock EXCEPT ![p] = clock[p] + 1]
  /\ lastTimestamp' = [lastTimestamp EXCEPT ![p] = -1]
  /\ sequence' = [sequence EXCEPT ![p] = 0]
  /\ waiting' = [waiting EXCEPT ![p] = FALSE]
  /\ UNCHANGED <<issued, repeated>>

(* Every process waits for a millisecond behind the bound. *)
Exhausted ==
  /\ \A p \in Processes : waiting[p] /\ clock[p] = MaxTime /\ lastTimestamp[p] = MaxTime
  /\ UNCHANGED vars

Next ==
  \/ \E p \in Processes : Generate(p) \/ WaitNextMillis(p) \/ Tick(p) \/ Restart(p)
  \/ Exhausted

Spec == Init /\ [][Next]_vars
-----------------------------------------------------------------------------
(* No id is generated twice, by any processes, across the wrap of the      *)
(* sequence and restarts, as long as no clock goes back (generate,         *)
(* waitNextMillis).                                                        *)
IdsAreUnique == repeated = {}
=============================================================================
