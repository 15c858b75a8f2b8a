--------------------------- MODULE LeafStepsProofs ---------------------------
(***************************************************************************)
(* Proofs about steps that have no steps inside and share something with   *)
(* the other requests of the process: the counter of snowflake ids, for    *)
(* any number of processes, any shards that differ in their bits, any      *)
(* length of the sequence up to 12 bits and any bound of the clocks; the   *)
(* browsers that print PDFs, for any number of prints and any limit of     *)
(* pages; the steps that load and save by SQL over one cache of templates, *)
(* for any requests, steps, templates, items and refusals of the database: *)
(* the statements they send, the rows a save has written, and what a load  *)
(* gives back of them.                                                     *)
(***************************************************************************)
EXTENDS Snowflake, BrowserPool, SavedRows, SequencesExt, FiniteSetTheorems, WellFoundedInduction, TLAPS

CONSTANT Settings                                                            (* PagePool *)
VARIABLES pages, pdfOptions

CONSTANTS Steps, Calls, CacheEnabled, Refusals                               (* SqlSteps *)
VARIABLES cache, parsed, sent, refused

Pages == INSTANCE PagePool
Sql == INSTANCE SqlSteps

-----------------------------------------------------------------------------
(* Snowflake ids. *)

Shards == 0..1023
Numbers == 0..4095

TypeOK ==
  /\ clock \in [Processes -> 0..MaxTime]
  /\ lastTimestamp \in [Processes -> -1..MaxTime]
  /\ sequence \in [Processes -> 0..(MAX_SEQUENCE - 1)]
  /\ waiting \in [Processes -> BOOLEAN]

(* The id is one that process p generated: not ahead of its clock, and in  *)
(* the millisecond the clock shows not ahead of its sequence, unless the   *)
(* sequence is used up and the process waits.                              *)
GeneratedBy(id, p, t, n) ==
  /\ id = Id(t, ShardOf(p), n)
  /\ t <= clock[p]
  /\ t = clock[p] => /\ lastTimestamp[p] = clock[p]
                     /\ ~waiting[p] => n <= sequence[p]

Behind ==
  \A id \in issued : \E p \in Processes, t \in Nat, n \in Numbers : GeneratedBy(id, p, t, n)

IInv ==
  /\ TypeOK
  /\ \A p \in Processes : lastTimestamp[p] <= clock[p]
  /\ Behind
  /\ IdsAreUnique

(* The bits of a shard are ten. *)
LEMMA ShardBits == \A p \in Processes : ShardOf(p) \in Shards
<1>1. \A n \in Nat : n % 1024 \in 0..1023
  BY SMT
<1>2. Shard \in [Processes -> Nat]
  BY SnowflakeAssumption
<1> TAKE p \in Processes
<1>3. PICK n \in Nat : n = IF Shard[p] = 0 THEN 1 ELSE Shard[p]
  BY <1>2
<1>4. ShardOf(p) = n % 1024
  BY <1>3 DEF ShardOf
<1> QED
  BY <1>1, <1>4 DEF Shards

(* The three parts of an id do not overlap. *)
LEMMA PartsOfAnId ==
  ASSUME NEW t \in Nat, NEW u \in Nat, NEW s \in Shards, NEW r \in Shards,
         NEW n \in Numbers, NEW m \in Numbers,
         Id(t, s, n) = Id(u, r, m)
  PROVE  t = u /\ s = r /\ n = m
<1>1. /\ t \in Int /\ u \in Int /\ s \in Int /\ r \in Int /\ n \in Int /\ m \in Int
      /\ 0 <= s /\ s < 1024 /\ 0 <= r /\ r < 1024
      /\ 0 <= n /\ n < 4096 /\ 0 <= m /\ m < 4096
  BY SMT DEF Shards, Numbers
<1>2. t * 4194304 + (s * 4096 + n) = u * 4194304 + (r * 4096 + m)
  BY <1>1, SMT DEF Id
<1>3. t = u /\ s * 4096 + n = r * 4096 + m
  BY <1>1, <1>2, SMT
<1> QED
  BY <1>1, <1>3, SMT

(* The sequence counts up to its end and starts again. *)
LEMMA NextSequence ==
  ASSUME NEW n \in 0..(MAX_SEQUENCE - 1)
  PROVE  /\ (n + 1) % MAX_SEQUENCE \in 0..(MAX_SEQUENCE - 1)
         /\ (n + 1) % MAX_SEQUENCE # 0 => (n + 1) % MAX_SEQUENCE = n + 1
<1>1. n \in Int /\ MAX_SEQUENCE \in Int /\ 0 <= n /\ 0 < MAX_SEQUENCE
  BY SnowflakeAssumption, SMT
<1>2. CASE n + 1 < MAX_SEQUENCE
  <2>1. (n + 1) % MAX_SEQUENCE = n + 1
    BY <1>1, <1>2, SMT
  <2> QED
    BY <1>1, <1>2, <2>1, SMT
<1>3. CASE n + 1 = MAX_SEQUENCE
  <2>1. (n + 1) % MAX_SEQUENCE = 0
    BY <1>1, <1>3, SMT
  <2> QED
    BY <1>1, <2>1, SMT
<1> QED
  BY <1>1, <1>2, <1>3, SMT

(* A sequence fits into its bits. *)
LEMMA SequenceBits == 0..(MAX_SEQUENCE - 1) \subseteq Numbers
<1>1. MAX_SEQUENCE \in Int /\ MAX_SEQUENCE - 1 <= 4095
  <2>1. MAX_SEQUENCE \in 1..4096
    BY SnowflakeAssumption
  <2> QED
    BY <2>1, SMT
<1> QED
  BY <1>1, SMT DEF Numbers

(* The types of the variables of one process. *)
LEMMA TypesOf ==
  ASSUME TypeOK, NEW p \in Processes
  PROVE  /\ clock[p] \in Nat /\ clock[p] <= MaxTime
         /\ lastTimestamp[p] \in Int /\ -1 <= lastTimestamp[p]
         /\ sequence[p] \in 0..(MAX_SEQUENCE - 1) /\ sequence[p] \in Numbers
         /\ sequence[p] \in Nat
         /\ waiting[p] \in BOOLEAN
<1>1. /\ clock[p] \in 0..MaxTime
      /\ lastTimestamp[p] \in -1..MaxTime
      /\ sequence[p] \in 0..(MAX_SEQUENCE - 1)
      /\ waiting[p] \in BOOLEAN
  BY DEF TypeOK
<1>2. MaxTime \in Nat /\ MAX_SEQUENCE \in 1..4096
  BY SnowflakeAssumption
<1>3. clock[p] \in Nat /\ clock[p] <= MaxTime
  BY <1>1, <1>2, SMT
<1>4. lastTimestamp[p] \in Int /\ -1 <= lastTimestamp[p]
  BY <1>1, <1>2, SMT
<1>5. sequence[p] \in Nat /\ sequence[p] \in Numbers
  <2>1. sequence[p] \in Nat
    BY <1>1, <1>2, SMT
  <2>2. sequence[p] \in Numbers
    BY <1>1, SequenceBits
  <2> QED
    BY <2>1, <2>2
<1> QED
  BY <1>1, <1>3, <1>4, <1>5

(* An id of the millisecond a clock shows is new when that process has     *)
(* generated none in it, or when its number is ahead of the sequence.      *)
LEMMA AheadIsNew ==
  ASSUME IInv, NEW p \in Processes, NEW n \in Numbers,
         lastTimestamp[p] < clock[p] \/ (~waiting[p] /\ sequence[p] < n)
  PROVE  Id(clock[p], ShardOf(p), n) \notin issued
<1> SUFFICES ASSUME Id(clock[p], ShardOf(p), n) \in issued
             PROVE  FALSE
  OBVIOUS
<1>1. PICK q \in Processes, t \in Nat, m \in Numbers :
        GeneratedBy(Id(clock[p], ShardOf(p), n), q, t, m)
  <2>1. Behind
    BY DEF IInv
  <2> QED
    BY <2>1 DEF Behind
<1>2. clock[p] \in Nat /\ ShardOf(p) \in Shards /\ ShardOf(q) \in Shards
  <2>1. clock[p] \in 0..MaxTime
    BY DEF IInv, TypeOK
  <2> QED
    BY <2>1, ShardBits, SnowflakeAssumption
<1>3. clock[p] = t /\ ShardOf(p) = ShardOf(q) /\ n = m
  <2>1. Id(clock[p], ShardOf(p), n) = Id(t, ShardOf(q), m)
    BY <1>1 DEF GeneratedBy
  <2> QED
    BY <1>2, <2>1, PartsOfAnId
<1>4. p = q
  BY <1>3, SnowflakeAssumption
<1>5. lastTimestamp[p] = clock[p] /\ (~waiting[p] => n <= sequence[p])
  BY <1>1, <1>3, <1>4 DEF GeneratedBy
<1>6. lastTimestamp[p] \in Int /\ clock[p] \in Int /\ sequence[p] \in Int
  BY <1>2, TypesOf DEF IInv
<1>7. CASE lastTimestamp[p] < clock[p]
  BY <1>5, <1>6, <1>7, SMT
<1>8. CASE ~waiting[p] /\ sequence[p] < n
  <2>1. n <= sequence[p] /\ n \in Int
    BY <1>5, <1>8 DEF Numbers
  <2> QED
    BY <1>6, <1>8, <2>1, SMT
<1> QED
  BY <1>7, <1>8

(* What a process has generated stays behind it when its clock, its last   *)
(* timestamp, its sequence and its waiting change as `Moves` says.         *)
Moves(p) ==
  /\ clock'[p] \in Nat /\ clock[p] \in Nat /\ clock[p] <= clock'[p]
  /\ \/ clock[p] < clock'[p]
     \/ /\ clock[p] = clock'[p]
        /\ lastTimestamp[p] = clock[p] => lastTimestamp'[p] = clock[p]
        /\ waiting[p] => lastTimestamp[p] # clock[p] \/ waiting'[p]
        /\ ~waiting'[p] => lastTimestamp[p] # clock[p] \/ sequence[p] <= sequence'[p]
        /\ sequence[p] \in Nat /\ sequence'[p] \in Nat

(* An id behind its process stays so while the process moves on.           *)
LEMMA StaysBehind ==
  ASSUME NEW id, NEW p \in Processes, NEW t \in Nat, NEW n \in Numbers,
         GeneratedBy(id, p, t, n), Moves(p)
  PROVE  GeneratedBy(id, p, t, n)'
<1>1. t <= clock'[p]
  BY SMT DEF GeneratedBy, Moves
<1>2. ASSUME t = clock'[p]
      PROVE  lastTimestamp'[p] = clock'[p] /\ (~waiting'[p] => n <= sequence'[p])
  <2>1. t = clock[p] /\ clock[p] = clock'[p]
    BY <1>2, SMT DEF GeneratedBy, Moves
  <2>2. lastTimestamp[p] = clock[p] /\ (~waiting[p] => n <= sequence[p])
    BY <2>1 DEF GeneratedBy
  <2>3. ~(clock[p] < clock'[p])
    BY <2>1, SMT DEF Moves
  <2>4. lastTimestamp'[p] = clock'[p]
    BY <2>1, <2>2, <2>3 DEF Moves
  <2>5. ASSUME ~waiting'[p]
        PROVE  n <= sequence'[p]
    <3>1. /\ ~waiting[p] /\ sequence[p] <= sequence'[p]
          /\ sequence[p] \in Nat /\ sequence'[p] \in Nat
      BY <2>2, <2>3, <2>5 DEF Moves
    <3>2. n <= sequence[p] /\ n \in Nat
      BY <2>2, <3>1 DEF Numbers
    <3> QED
      BY <3>1, <3>2, SMT
  <2> QED
    BY <2>4, <2>5
<1> QED
  BY <1>1, <1>2 DEF GeneratedBy

(* A step in which every process moves so keeps the invariant, if what it  *)
(* issues is new and of the process's own.                                 *)
LEMMA KeepsBehind ==
  ASSUME Behind, \A p \in Processes : Moves(p), UNCHANGED issued
  PROVE  Behind'
  BY StaysBehind DEF Behind

(* An id that is new and behind keeps the invariant when it is issued.     *)
LEMMA KeepsBehindIssuing ==
  ASSUME Behind, IdsAreUnique, \A p \in Processes : Moves(p),
         NEW id, Issue(id), id \notin issued,
         \E p \in Processes, t \in Nat, n \in Numbers : GeneratedBy(id, p, t, n)'
  PROVE  Behind' /\ IdsAreUnique'
<1>1. IdsAreUnique'
  BY DEF IdsAreUnique, Issue
<1>2. Behind'
  <2> SUFFICES ASSUME NEW i \in issued'
               PROVE  \E p \in Processes, t \in Nat, n \in Numbers : GeneratedBy(i, p, t, n)'
    BY DEF Behind
  <2>1. CASE i = id
    BY <2>1
  <2>2. CASE i \in issued
    <3>1. PICK p \in Processes, t \in Nat, n \in Numbers : GeneratedBy(i, p, t, n)
      BY <2>2 DEF Behind
    <3> QED
      BY <3>1, StaysBehind
  <2> QED
    BY <2>1, <2>2 DEF Issue
<1> QED
  BY <1>1, <1>2
-----------------------------------------------------------------------------
(* A process whose variables do not change moves as it may. *)
LEMMA Stays ==
  ASSUME TypeOK, NEW p \in Processes,
         clock'[p] = clock[p], lastTimestamp'[p] = lastTimestamp[p],
         sequence'[p] = sequence[p], waiting'[p] = waiting[p]
  PROVE  Moves(p)
  BY TypesOf DEF Moves

(* No id is issued at the start.                                           *)
LEMMA Initially == Init => IInv
  BY SnowflakeAssumption DEF Init, IInv, TypeOK, Behind, IdsAreUnique

(* The invariant is kept by generate, by the end of waitNextMillis and by  *)
(* what happens to a clock and a process.                                  *)
LEMMA GenerateKeeps ==
  ASSUME IInv, NEW p \in Processes, Generate(p)
  PROVE  IInv'
<1> DEFINE same == clock[p] = lastTimestamp[p]
           next == IF same THEN (sequence[p] + 1) % MAX_SEQUENCE ELSE 0
<1>1. next \in 0..(MAX_SEQUENCE - 1) /\ next \in Numbers
  <2>1. (sequence[p] + 1) % MAX_SEQUENCE \in 0..(MAX_SEQUENCE - 1)
    BY TypesOf, NextSequence DEF IInv
  <2>2. MAX_SEQUENCE \in 1..4096
    BY SnowflakeAssumption
  <2>3. 0 \in 0..(MAX_SEQUENCE - 1)
    BY <2>2, SMT
  <2> QED
    BY <2>1, <2>3, SequenceBits
<1>2. CASE same /\ next = 0
  <2>1. /\ sequence' = [sequence EXCEPT ![p] = next]
        /\ waiting' = [waiting EXCEPT ![p] = TRUE]
        /\ UNCHANGED <<clock, lastTimestamp, issued, repeated>>
    BY <1>2 DEF Generate
  <2>2. TypeOK'
    BY <1>1, <2>1 DEF IInv, TypeOK
  <2>3. \A q \in Processes : Moves(q)
    <3> TAKE q \in Processes
    <3>1. CASE q = p
      <4>1. waiting'[q] /\ sequence'[q] = 0 /\ clock'[q] = clock[q]
            /\ lastTimestamp'[q] = lastTimestamp[q]
        BY <1>2, <2>1, <3>1 DEF IInv, TypeOK
      <4> QED
        BY <4>1, TypesOf DEF Moves, IInv
    <3>2. CASE q # p
      BY <2>1, <3>2, Stays DEF IInv, TypeOK
    <3> QED
      BY <3>1, <3>2
  <2>4. Behind'
    BY <2>1, <2>3, KeepsBehind DEF IInv
  <2> QED
    BY <2>1, <2>2, <2>4 DEF IInv, IdsAreUnique
<1>3. CASE ~(same /\ next = 0)
  <2>0. PICK id, t, n : id = Id(t, ShardOf(p), n) /\ t = clock[p] /\ n = next
    OBVIOUS
  <2>1. /\ ~waiting[p]
        /\ sequence' = [sequence EXCEPT ![p] = next]
        /\ lastTimestamp' = [lastTimestamp EXCEPT ![p] = clock[p]]
        /\ Issue(id)
        /\ UNCHANGED <<clock, waiting>>
    BY <1>3, <2>0 DEF Generate
  <2>2. TypeOK'
    BY <1>1, <2>1 DEF IInv, TypeOK
  <2>3. \A q \in Processes : lastTimestamp'[q] <= clock'[q]
    BY <2>1, TypesOf DEF IInv, TypeOK
  <2>4. same => next = sequence[p] + 1
    BY <1>3, TypesOf, NextSequence DEF IInv
  <2>5. lastTimestamp[p] < clock[p] \/ (~waiting[p] /\ sequence[p] < next)
    BY <2>1, <2>4, TypesOf DEF IInv
  <2>6. id \notin issued
    BY <1>1, <2>0, <2>5, AheadIsNew
  <2>7. \A q \in Processes : Moves(q)
    <3> TAKE q \in Processes
    <3>1. CASE q = p
      <4>1. /\ clock'[q] = clock[q] /\ lastTimestamp'[q] = clock[q]
            /\ sequence'[q] = next /\ ~waiting[q] /\ ~waiting'[q]
        BY <2>1, <3>1 DEF IInv, TypeOK
      <4>2. lastTimestamp[q] = clock[q] => sequence[q] <= sequence'[q]
        BY <2>4, <3>1, <4>1, TypesOf DEF IInv
      <4>3. sequence'[q] \in Nat
        BY <1>1, <4>1
      <4> QED
        BY <4>1, <4>2, <4>3, TypesOf DEF Moves, IInv
    <3>2. CASE q # p
      BY <2>1, <3>2, Stays DEF IInv, TypeOK
    <3> QED
      BY <3>1, <3>2
  <2>8. GeneratedBy(id, p, t, n)'
    <3>1. clock'[p] = t /\ lastTimestamp'[p] = t /\ sequence'[p] = n
      BY <2>0, <2>1 DEF IInv, TypeOK
    <3>2. t \in Nat /\ n \in Nat
      BY <1>1, <2>0, TypesOf DEF IInv
    <3> QED
      BY <2>0, <3>1, <3>2 DEF GeneratedBy
  <2>9. Behind' /\ IdsAreUnique'
    <3>1. \E q \in Processes, u \in Nat, m \in Numbers : GeneratedBy(id, q, u, m)'
      BY <1>1, <2>0, <2>8, TypesOf DEF IInv
    <3> QED
      BY <2>1, <2>6, <2>7, <3>1, KeepsBehindIssuing DEF IInv
  <2> QED
    BY <2>2, <2>3, <2>9 DEF IInv
<1> QED
  BY <1>2, <1>3

(* The wait for the next millisecond keeps the invariant.                  *)
LEMMA WaitNextMillisKeeps ==
  ASSUME IInv, NEW p \in Processes, WaitNextMillis(p)
  PROVE  IInv'
<1>0. PICK id, t, n : id = Id(t, ShardOf(p), n) /\ t = clock[p] /\ n = sequence[p]
  OBVIOUS
<1>1. /\ lastTimestamp[p] < clock[p]
      /\ waiting' = [waiting EXCEPT ![p] = FALSE]
      /\ lastTimestamp' = [lastTimestamp EXCEPT ![p] = clock[p]]
      /\ Issue(id)
      /\ UNCHANGED <<clock, sequence>>
  BY <1>0, TypesOf DEF WaitNextMillis, IInv
<1>2. TypeOK'
  BY <1>1 DEF IInv, TypeOK
<1>3. \A q \in Processes : lastTimestamp'[q] <= clock'[q]
  BY <1>1, TypesOf DEF IInv, TypeOK
<1>4. id \notin issued
  BY <1>0, <1>1, TypesOf, AheadIsNew DEF IInv
<1>5. \A q \in Processes : Moves(q)
  <2> TAKE q \in Processes
  <2>1. CASE q = p
    <3>1. /\ clock'[q] = clock[q] /\ lastTimestamp[q] # clock[q]
          /\ sequence'[q] = sequence[q]
      BY <1>1, <2>1, TypesOf DEF IInv
    <3> QED
      BY <3>1, TypesOf DEF Moves, IInv
  <2>2. CASE q # p
    BY <1>1, <2>2, Stays DEF IInv, TypeOK
  <2> QED
    BY <2>1, <2>2
<1>6. GeneratedBy(id, p, t, n)'
  <2>1. clock'[p] = t /\ lastTimestamp'[p] = t /\ sequence'[p] = n
    BY <1>0, <1>1 DEF IInv, TypeOK
  <2>2. t \in Nat /\ n \in Nat
    BY <1>0, TypesOf DEF IInv
  <2> QED
    BY <1>0, <2>1, <2>2 DEF GeneratedBy
<1>7. Behind' /\ IdsAreUnique'
  <2>1. \E q \in Processes, u \in Nat, m \in Numbers : GeneratedBy(id, q, u, m)'
    BY <1>0, <1>6, TypesOf DEF IInv
  <2> QED
    BY <1>1, <1>4, <1>5, <2>1, KeepsBehindIssuing DEF IInv
<1> QED
  BY <1>2, <1>3, <1>7 DEF IInv

(* A clock that goes on keeps the invariant.                               *)
LEMMA TimePassesKeeps ==
  ASSUME IInv, NEW p \in Processes, Tick(p) \/ Restart(p)
  PROVE  IInv'
<1>1. /\ clock[p] < MaxTime
      /\ clock' = [clock EXCEPT ![p] = clock[p] + 1]
      /\ UNCHANGED <<issued, repeated>>
  BY DEF Tick, Restart
<1>2. TypeOK'
  <2>1. clock[p] + 1 \in 0..MaxTime /\ -1 \in -1..MaxTime /\ 0 \in 0..(MAX_SEQUENCE - 1)
    BY <1>1, TypesOf, SnowflakeAssumption, SMT DEF IInv
  <2>2. CASE Tick(p)
    BY <1>1, <2>1, <2>2 DEF IInv, TypeOK, Tick
  <2>3. CASE Restart(p)
    BY <1>1, <2>1, <2>3 DEF IInv, TypeOK, Restart
  <2> QED
    BY <2>2, <2>3
<1>3. \A q \in Processes : q # p => /\ clock'[q] = clock[q]
                                    /\ lastTimestamp'[q] = lastTimestamp[q]
                                    /\ sequence'[q] = sequence[q]
                                    /\ waiting'[q] = waiting[q]
  BY DEF Tick, Restart, IInv, TypeOK
<1>4. clock'[p] = clock[p] + 1 /\ lastTimestamp'[p] \in {lastTimestamp[p], -1}
  BY DEF Tick, Restart, IInv, TypeOK
<1>5. \A q \in Processes : lastTimestamp'[q] <= clock'[q]
  BY <1>3, <1>4, TypesOf DEF IInv
<1>6. \A q \in Processes : Moves(q)
  <2> TAKE q \in Processes
  <2>1. CASE q = p
    BY <1>4, <2>1, TypesOf DEF Moves, IInv
  <2>2. CASE q # p
    BY <1>3, <2>2, Stays DEF IInv
  <2> QED
    BY <2>1, <2>2
<1>7. Behind' /\ IdsAreUnique'
  BY <1>1, <1>6, KeepsBehind DEF IInv, IdsAreUnique
<1> QED
  BY <1>2, <1>5, <1>7 DEF IInv

(* Every step keeps the invariant of the ids.                              *)
LEMMA Invariance == IInv /\ [Next]_vars => IInv'
<1> SUFFICES ASSUME IInv, [Next]_vars
             PROVE  IInv'
  OBVIOUS
<1>1. ASSUME NEW p \in Processes, Generate(p)
      PROVE  IInv'
  BY <1>1, GenerateKeeps
<1>2. ASSUME NEW p \in Processes, WaitNextMillis(p)
      PROVE  IInv'
  BY <1>2, WaitNextMillisKeeps
<1>3. ASSUME NEW p \in Processes, Tick(p) \/ Restart(p)
      PROVE  IInv'
  BY <1>3, TimePassesKeeps
<1>4. CASE UNCHANGED vars
  BY <1>4 DEF vars, IInv, TypeOK, Behind, GeneratedBy, IdsAreUnique
<1> QED
  BY <1>1, <1>2, <1>3, <1>4 DEF Next, Exhausted

(* No id is generated twice, for every number of processes and every       *)
(* length of the sequence (Snowflake.generate).                            *)
THEOREM NoIdTwice == Spec => []IdsAreUnique
<1>1. Init => IInv
  BY Initially
<1>2. IInv /\ [Next]_vars => IInv'
  BY Invariance
<1>3. IInv => IdsAreUnique
  BY DEF IInv
<1> QED
  BY <1>1, <1>2, <1>3, PTL DEF Spec
-----------------------------------------------------------------------------
(* The pool of browsers. *)
Awaits == {"new", "launch", "newPage", "evaluate", "pdf", "closePage", "closeBrowser",
           "closeFailed", "printed", "failed"}
Entries == [browser : Prints, count : Int]

PoolTypeOK ==
  /\ cached \in BOOLEAN /\ keepPage \in BOOLEAN
  /\ pool \in Seq(Entries)
  /\ phase \in [Prints -> Awaits]
  /\ browser \in [Prints -> Prints \union {NoBrowser}]

(* A browser is named after a print that launched it, and is in the pool   *)
(* once.                                                                   *)
Launches ==
  /\ \A p \in Prints : phase[p] \in {"new", "launch"} => browser[p] = NoBrowser
  /\ \A p \in Prints : browser[p] # NoBrowser => browser[browser[p]] = browser[p]
  /\ \A k \in DOMAIN pool : browser[pool[k].browser] = pool[k].browser
  /\ \A j, k \in DOMAIN pool : pool[j].browser = pool[k].browser => j = k

(* What is closed behind a PDF depends on the configuration.               *)
ClosesAsConfigured ==
  \A p \in Prints :
    /\ keepPage => phase[p] \notin {"closePage", "closeBrowser"}
    /\ cached => phase[p] # "closeBrowser"

(* A browser that is not in the pool is closed, or about to be.            *)
Accounted ==
  cached /\ disturbed = {} =>
    \A p \in Prints : browser[p] # NoBrowser =>
      \/ browser[p] \in closed
      \/ \E k \in DOMAIN pool : pool[k].browser = browser[p]
      \/ \E q \in Prints : browser[q] = browser[p] /\ phase[q] = "closeFailed"

(* CountsItsPages, by place.                                               *)
Counted ==
  \A k \in DOMAIN pool :
    pool[k].count = Cardinality(Claims(pool[k].browser)) /\ pool[k].count <= MaxPages

PoolIInv == PoolTypeOK /\ Launches /\ ClosesAsConfigured /\ Accounted /\ Counted

Claiming == {"newPage", "evaluate", "pdf"}

(* A place of a set of places that is not empty has a first one.           *)
LEMMA FirstIsOne ==
  ASSUME NEW S \in SUBSET Nat, S # {}
  PROVE  Pages!First(S) \in S
<1> DEFINE Less == {ss \in Nat \X Nat : ss[1] < ss[2]}
<1>1. IsWellFoundedOn(Less, Nat)
  BY NatLessThanWellFounded DEF OpToRel
<1> HIDE DEF Less
<1>2. PICK n \in S : \A m \in S : <<m, n>> \notin Less
  BY <1>1, WFMin
<1>3. ASSUME NEW m \in S
      PROVE  n <= m
  <2>1. <<m, n>> \in Less <=> m < n
    BY DEF Less
  <2> QED
    BY <1>2, <2>1
<1> QED
  BY <1>3 DEF Pages!First

(* The claims of a browser change with the print that moves, and no other. *)
LEMMA Recount ==
  ASSUME PoolAssumption, NEW p \in Prints, NEW b,
         keepPage' = keepPage,
         \A q \in Prints \ {p} : phase'[q] = phase[q] /\ browser'[q] = browser[q]
  PROVE  /\ Cardinality(Claims(b)) \in Nat
         /\ (p \in Claims(b) <=> p \in Claims(b)') =>
              Cardinality(Claims(b)') = Cardinality(Claims(b))
         /\ p \notin Claims(b) /\ p \in Claims(b)' =>
              Cardinality(Claims(b)') = Cardinality(Claims(b)) + 1
         /\ p \in Claims(b) /\ p \notin Claims(b)' =>
              Cardinality(Claims(b)') = Cardinality(Claims(b)) - 1
<1> DEFINE C == Claims(b)
           D == Claims(b)'
<1>1. C \subseteq Prints /\ D \subseteq Prints
  BY DEF Claims
<1>2. C \ {p} = D \ {p}
  BY DEF Claims
<1>3. IsFiniteSet(Prints)
  BY DEF PoolAssumption
<1> HIDE DEF C, D
<1>4. IsFiniteSet(C) /\ IsFiniteSet(D)
  BY <1>1, <1>3, FS_Subset
<1>5. /\ Cardinality(C) \in Nat
      /\ Cardinality(D) \in Nat
  BY <1>4, FS_CardinalityType
<1>6. /\ Cardinality(C \ {p}) = IF p \in C THEN Cardinality(C) - 1 ELSE Cardinality(C)
      /\ Cardinality(D \ {p}) = IF p \in D THEN Cardinality(D) - 1 ELSE Cardinality(D)
  BY <1>4, FS_RemoveElement
<1>7. /\ (p \in C <=> p \in D) => Cardinality(D) = Cardinality(C)
      /\ p \notin C /\ p \in D => Cardinality(D) = Cardinality(C) + 1
      /\ p \in C /\ p \notin D => Cardinality(D) = Cardinality(C) - 1
  <2>1. Cardinality(C \ {p}) = Cardinality(D \ {p})
    BY <1>2
  <2> QED
    BY <1>5, <1>6, <2>1
<1> QED
  BY <1>5, <1>7 DEF C, D

(* The count of a browser follows the claims.                              *)
LEMMA CountFollows ==
  ASSUME PoolAssumption, Counted, NEW p \in Prints, NEW b,
         keepPage' = keepPage,
         \A q \in Prints \ {p} : phase'[q] = phase[q] /\ browser'[q] = browser[q],
         NEW k \in DOMAIN pool, pool[k].browser = b, NEW n,
         \/ (p \in Claims(b) <=> p \in Claims(b)') /\ n = pool[k].count
         \/ /\ p \notin Claims(b) /\ p \in Claims(b)'
            /\ pool[k].count < MaxPages /\ n = pool[k].count + 1
         \/ /\ p \in Claims(b) /\ p \notin Claims(b)'
            /\ n = pool[k].count - 1
  PROVE  n = Cardinality(Claims(b)') /\ n <= MaxPages
<1>1. pool[k].count = Cardinality(Claims(b)) /\ pool[k].count <= MaxPages
  BY DEF Counted
<1>2. MaxPages \in Nat
  BY DEF PoolAssumption
<1> DEFINE C == Claims(b)
           D == Claims(b)'
<1>3. /\ Cardinality(C) \in Nat
      /\ (p \in C <=> p \in D) => Cardinality(D) = Cardinality(C)
      /\ p \notin C /\ p \in D => Cardinality(D) = Cardinality(C) + 1
      /\ p \in C /\ p \notin D => Cardinality(D) = Cardinality(C) - 1
  BY Recount
<1> QED
  BY <1>1, <1>2, <1>3

(* An await that has ended, or failed, with the pool as it was and the     *)
(* claims as they were.                                                    *)
LEMMA QuietKeeps ==
  ASSUME PoolAssumption, PoolIInv, NEW p \in Prints, NEW to \in Awaits \ {"new"},
         UNCHANGED <<cached, keepPage, pool, browser>>,
         phase' = [phase EXCEPT ![p] = to],
         phase[p] # "printed", phase[p] \in Claiming <=> to \in Claiming,
         to = "launch" => phase[p] = "new",
         keepPage => to \notin {"printed", "closePage", "closeBrowser"},
         cached => to # "closeBrowser",
         Accounted'
  PROVE  PoolIInv'
<1> USE DEF PoolIInv, PoolTypeOK
<1>1. PoolTypeOK'
  OBVIOUS
<1>2. Launches'
  BY DEF Launches
<1>3. ClosesAsConfigured'
  BY DEF ClosesAsConfigured
<1>4. Counted'
  <2> SUFFICES ASSUME NEW k \in DOMAIN pool, NEW b, pool[k].browser = b
               PROVE  /\ pool[k].count = Cardinality(Claims(b)')
                      /\ pool[k].count <= MaxPages
    BY DEF Counted
  <2>1. p \in Claims(b) <=> p \in Claims(b)'
    BY DEF Claims, Claiming
  <2> QED
    BY <2>1, CountFollows
<1> QED
  BY <1>1, <1>2, <1>3, <1>4

(* What removing one element leaves of a sequence.                         *)
LEMMA RemovedAt ==
  ASSUME NEW S, NEW s \in Seq(S), NEW i \in DOMAIN s
  PROVE  /\ Pages!RemoveAt(s, i) \in Seq(S)
         /\ Len(Pages!RemoveAt(s, i)) = Len(s) - 1
         /\ \A k \in 1..(Len(s) - 1) :
              Pages!RemoveAt(s, i)[k] = IF k < i THEN s[k] ELSE s[k + 1]
<1> DEFINE before == SubSeq(s, 1, i - 1)
           behind == SubSeq(s, i + 1, Len(s))
<1>1. i \in 1..Len(s) /\ Len(s) \in Nat
  OBVIOUS
<1>2. /\ before \in Seq(S)
      /\ Len(before) = i - 1
      /\ \A k \in 1..(i - 1) : before[k] = s[k]
  BY <1>1
<1>3. /\ behind \in Seq(S)
      /\ Len(behind) = Len(s) - i
      /\ \A k \in 1..(Len(s) - i) : behind[k] = s[i + k]
  BY <1>1
<1>4. Pages!RemoveAt(s, i) = before \o behind
  BY DEF Pages!RemoveAt
<1> HIDE DEF before, behind
<1> QED
  BY <1>1, <1>2, <1>3, <1>4

(* A browser that is taken off the pool is no longer there; the others are *)
(* where it was found, and all but one of them where it was not.           *)
LEMMA RemovedFromPool ==
  ASSUME PoolTypeOK, Launches, NEW p \in Prints, Pages!RemoveFromPool(p)
  PROVE  /\ pool' \in Seq(Entries)
         /\ \A k \in DOMAIN pool' :
              \E j \in DOMAIN pool : pool'[k] = pool[j] /\ pool[j].browser # browser[p]
         /\ \A j, k \in DOMAIN pool' : pool'[j].browser = pool'[k].browser => j = k
         /\ (\E k \in DOMAIN pool : pool[k].browser = browser[p]) =>
              \A j \in DOMAIN pool : pool[j].browser # browser[p] =>
                \E k \in DOMAIN pool' : pool'[k] = pool[j]
<1> DEFINE found == Pages!Pooled(browser[p])
<1>1. pool \in Seq(Entries) /\ Len(pool) \in Nat /\ DOMAIN pool = 1..Len(pool)
  BY DEF PoolTypeOK
<1>2. \A j, k \in DOMAIN pool : pool[j].browser = pool[k].browser => j = k
  BY DEF Launches
<1>3. CASE found # {}
  <2> DEFINE i == Pages!First(found)
  <2>1. i \in DOMAIN pool /\ pool[i].browser = browser[p]
    <3>1. found \in SUBSET Nat
      BY <1>1 DEF Pages!Pooled
    <3> HIDE DEF found
    <3>2. i \in found
      BY <1>3, <3>1, FirstIsOne
    <3> QED
      BY <3>2 DEF found, Pages!Pooled
  <2>2. pool' = Pages!RemoveAt(pool, i)
    BY <1>3 DEF Pages!RemoveFromPool
  <2> HIDE DEF i
  <2>3. /\ pool' \in Seq(Entries)
        /\ DOMAIN pool' = 1..(Len(pool) - 1)
        /\ \A k \in 1..(Len(pool) - 1) : pool'[k] = IF k < i THEN pool[k] ELSE pool[k + 1]
    <3>1. /\ pool' \in Seq(Entries)
          /\ Len(pool') = Len(pool) - 1
          /\ \A k \in 1..(Len(pool) - 1) : pool'[k] = IF k < i THEN pool[k] ELSE pool[k + 1]
      BY <1>1, <2>1, <2>2, RemovedAt
    <3> QED
      BY <1>1, <3>1
  <2>4. ASSUME NEW k \in DOMAIN pool'
        PROVE  \E j \in DOMAIN pool : pool'[k] = pool[j] /\ pool[j].browser # browser[p]
    <3>1. CASE k < i
      <4>1. k \in DOMAIN pool /\ k # i /\ pool'[k] = pool[k]
        BY <1>1, <2>1, <2>3, <3>1
      <4> QED
        BY <1>2, <2>1, <4>1
    <3>2. CASE ~(k < i)
      <4>1. k + 1 \in DOMAIN pool /\ k + 1 # i /\ pool'[k] = pool[k + 1]
        BY <1>1, <2>1, <2>3, <3>2
      <4> QED
        BY <1>2, <2>1, <4>1
    <3> QED
      BY <3>1, <3>2
  <2>5. ASSUME NEW j \in DOMAIN pool', NEW k \in DOMAIN pool', pool'[j].browser = pool'[k].browser
        PROVE  j = k
    <3> DEFINE Was(n) == IF n < i THEN n ELSE n + 1
    <3>1. \A n \in DOMAIN pool' : Was(n) \in DOMAIN pool /\ pool'[n] = pool[Was(n)]
      BY <1>1, <2>1, <2>3
    <3>2. Was(j) = Was(k)
      BY <1>2, <2>5, <3>1
    <3> QED
      BY <1>1, <2>1, <2>3, <3>2
  <2>6. ASSUME NEW j \in DOMAIN pool, pool[j].browser # browser[p]
        PROVE  \E k \in DOMAIN pool' : pool'[k] = pool[j]
    <3>1. CASE j < i
      <4>1. j \in DOMAIN pool' /\ pool'[j] = pool[j]
        BY <1>1, <2>1, <2>3, <3>1
      <4> QED
        BY <4>1
    <3>2. CASE j > i
      <4>1. j - 1 \in DOMAIN pool' /\ ~(j - 1 < i) /\ (j - 1) + 1 = j
        BY <1>1, <2>1, <2>3, <3>2
      <4> QED
        BY <2>3, <4>1
    <3> QED
      BY <1>1, <2>1, <2>6, <3>1, <3>2
  <2> QED
    BY <2>3, <2>4, <2>5, <2>6
<1>4. CASE found = {}
  <2>1. pool' = SubSeq(pool, 1, Len(pool) - 1)
    BY <1>4 DEF Pages!RemoveFromPool, Pages!Front
  <2>2. /\ pool' \in Seq(Entries)
        /\ DOMAIN pool' \subseteq DOMAIN pool
        /\ \A k \in DOMAIN pool' : pool'[k] = pool[k]
    BY <1>1, <2>1
  <2>3. \A k \in DOMAIN pool : pool[k].browser # browser[p]
    BY <1>4 DEF Pages!Pooled
  <2> QED
    BY <1>2, <2>2, <2>3
<1> QED
  BY <1>3, <1>4

(* What stands at the places of the pool.                                  *)
LEMMA PlacesOfThePool ==
  ASSUME PoolTypeOK
  PROVE  /\ DOMAIN pool = 1..Len(pool) /\ Len(pool) \in Nat
         /\ \A k \in DOMAIN pool : /\ pool[k] \in Entries
                                   /\ pool[k].browser \in Prints
                                   /\ pool[k].count \in Int
<1>1. pool \in Seq(Entries)
  BY DEF PoolTypeOK
<1>2. \A k \in DOMAIN pool : pool[k] \in Entries
  BY <1>1
<1> QED
  BY <1>1, <1>2 DEF Entries

(* No print has begun and no browser is open at the start.                 *)
LEMMA PoolInitially == ASSUME PoolAssumption, Pages!Init PROVE PoolIInv
<1>1. /\ cached \in BOOLEAN /\ keepPage \in BOOLEAN /\ pool = <<>>
      /\ phase = [p \in Prints |-> "new"]
      /\ browser = [p \in Prints |-> NoBrowser]
  BY DEF Pages!Init, Pages!Start, NoBrowser, Pages!NoBrowser
<1>2. PoolTypeOK
  BY <1>1 DEF PoolTypeOK, Awaits
<1>3. Launches /\ ClosesAsConfigured /\ Accounted /\ Counted
  BY <1>1 DEF Launches, ClosesAsConfigured, Accounted, Counted
<1> QED
  BY <1>2, <1>3 DEF PoolIInv

(* A step to the next wait that changes no pool keeps the invariant.       *)
LEMMA WaitsKeep ==
  ASSUME PoolAssumption, PoolIInv, NEW p \in Prints,
         \/ Pages!CreateBrowser(p) \/ Pages!LaunchFails(p) \/ Pages!PageOpens(p)
         \/ Pages!Evaluated(p) \/ Pages!PageClosed(p)
  PROVE  PoolIInv'
<1>1. UNCHANGED <<cached, keepPage, pool, browser, closed, disturbed>>
  BY DEF Pages!CreateBrowser, Pages!LaunchFails, Pages!PageOpens, Pages!Evaluated, Pages!PageClosed
<1>2. PICK to \in Awaits \ {"new", "closeBrowser"} :
        /\ phase' = [phase EXCEPT ![p] = to]
        /\ phase[p] \notin {"printed", "closeFailed"}
        /\ phase[p] \in Claiming <=> to \in Claiming
        /\ to = "launch" => phase[p] = "new"
        /\ to # "closePage"
        /\ to = "printed" => phase[p] = "closePage"
  BY DEF Pages!CreateBrowser, Pages!LaunchFails, Pages!PageOpens, Pages!Evaluated,
         Pages!PageClosed, Pages!GoTo, Awaits, Claiming
<1>3. keepPage => to # "printed"
  BY <1>2 DEF PoolIInv, ClosesAsConfigured
<1>4. Accounted'
  BY <1>1, <1>2 DEF PoolIInv, PoolTypeOK, Accounted
<1> QED
  BY <1>1, <1>2, <1>3, <1>4, QuietKeeps

(* A close that fails disturbs the pool.                                   *)
LEMMA BrowserClosedKeeps ==
  ASSUME PoolAssumption, PoolIInv, NEW p \in Prints, Pages!BrowserClosed(p)
  PROVE  PoolIInv'
<1> DEFINE to == IF phase[p] = "closeBrowser" THEN "printed" ELSE "failed"
<1>1. /\ UNCHANGED <<cached, keepPage, pool, browser>>
      /\ phase' = [phase EXCEPT ![p] = to]
      /\ phase[p] \in {"closeBrowser", "closeFailed"}
      /\ \/ closed' = closed \union {browser[p]} /\ disturbed' = disturbed
         \/ disturbed' = disturbed \union {p}
  BY DEF Pages!BrowserClosed, Pages!GoTo
<1>2. keepPage => to # "printed"
  BY <1>1 DEF PoolIInv, ClosesAsConfigured
<1>3. Accounted'
  BY <1>1 DEF PoolIInv, PoolTypeOK, Accounted
<1>4. /\ to \in Awaits \ {"new"} /\ to \notin Claiming /\ phase[p] \notin Claiming
      /\ to \notin {"launch", "closePage", "closeBrowser"} /\ phase[p] # "printed"
  BY <1>1 DEF Awaits, Claiming
<1> QED
  BY <1>1, <1>2, <1>3, <1>4, QuietKeeps

(* A browser with a free page that is claimed keeps the invariant.         *)
LEMMA FindBrowserKeeps ==
  ASSUME PoolAssumption, PoolIInv, NEW p \in Prints, Pages!FindBrowser(p)
  PROVE  PoolIInv'
<1> USE DEF PoolIInv, PoolTypeOK
<1> DEFINE i == Pages!First(Pages!Free)
           b == pool[i].browser
<1>1. i \in DOMAIN pool /\ pool[i].count < MaxPages
  <2>1. Pages!Free \in SUBSET Nat /\ Pages!Free # {}
    BY DEF Pages!Free, Pages!FindBrowser
  <2>2. i \in Pages!Free
    BY <2>1, FirstIsOne
  <2> QED
    BY <2>2 DEF Pages!Free
<1>2. /\ phase[p] = "new"
      /\ pool' = [pool EXCEPT ![i].count = @ + 1]
      /\ browser' = [browser EXCEPT ![p] = b]
      /\ phase' = [phase EXCEPT ![p] = "newPage"]
      /\ UNCHANGED <<cached, keepPage, closed, disturbed>>
  BY DEF Pages!FindBrowser, Pages!GoTo
<1> HIDE DEF i
<1>3. /\ b \in Prints
      /\ browser[p] = NoBrowser
      /\ browser[b] = b
      /\ NoBrowser \notin Prints
  <2>1. b \in Prints
    BY <1>1, PlacesOfThePool
  <2> QED
    BY <1>1, <1>2, <2>1 DEF Launches, PoolAssumption
<1>4. /\ DOMAIN pool' = DOMAIN pool
      /\ pool' \in Seq(Entries)
      /\ \A k \in DOMAIN pool : /\ pool'[k].browser = pool[k].browser
                                /\ k # i => pool'[k].count = pool[k].count
                                /\ k = i => pool'[k].count = pool[k].count + 1
  <2>1. DOMAIN pool' = DOMAIN pool
    BY <1>2
  <2>2. ASSUME NEW k \in DOMAIN pool
        PROVE  /\ pool'[k] \in Entries
               /\ pool'[k].browser = pool[k].browser
               /\ k # i => pool'[k].count = pool[k].count
               /\ k = i => pool'[k].count = pool[k].count + 1
    <3>1. pool[k] \in Entries
      BY PlacesOfThePool
    <3>2. pool'[k] = IF k = i THEN [pool[k] EXCEPT !.count = @ + 1] ELSE pool[k]
      BY <1>1, <1>2
    <3> QED
      BY <3>1, <3>2 DEF Entries
  <2>3. pool' \in Seq(Entries)
    <3>1. pool' = [k \in 1..Len(pool) |-> pool'[k]]
      BY <1>2, PlacesOfThePool
    <3>2. \A k \in 1..Len(pool) : pool'[k] \in Entries
      BY <2>2, PlacesOfThePool
    <3> QED
      BY <3>1, <3>2, PlacesOfThePool
  <2> QED
    BY <2>1, <2>2, <2>3
<1>5. PoolTypeOK'
  BY <1>2, <1>3, <1>4 DEF Awaits
<1>6. Launches'
  BY <1>2, <1>3, <1>4 DEF Launches, Entries
<1>7. ClosesAsConfigured'
  BY <1>2 DEF ClosesAsConfigured
<1>8. Accounted'
  <2> SUFFICES ASSUME cached, disturbed = {}, NEW q \in Prints, browser'[q] # NoBrowser
               PROVE  \/ browser'[q] \in closed
                      \/ \E k \in DOMAIN pool : pool[k].browser = browser'[q]
                      \/ \E o \in Prints : browser'[o] = browser'[q] /\ phase'[o] = "closeFailed"
    BY <1>2, <1>4 DEF Accounted
  <2>1. CASE q = p
    BY <1>1, <1>2, <2>1
  <2>2. CASE q # p
    BY <1>2, <2>2 DEF Accounted
  <2> QED
    BY <2>1, <2>2
<1>9. Counted'
  <2> SUFFICES ASSUME NEW k \in DOMAIN pool', NEW of, pool'[k].browser = of
               PROVE  /\ pool'[k].count = Cardinality(Claims(of)')
                      /\ pool'[k].count <= MaxPages
    BY DEF Counted
  <2>1. k \in DOMAIN pool /\ pool[k].browser = of
    BY <1>4
  <2>2. p \notin Claims(of) /\ (p \in Claims(of)' <=> of = b)
    BY <1>2 DEF Claims
  <2>3. of = b <=> k = i
    BY <1>1, <2>1 DEF Launches
  <2>4. \A q \in Prints \ {p} : phase'[q] = phase[q] /\ browser'[q] = browser[q]
    BY <1>2
  <2>5. \/ (p \in Claims(of) <=> p \in Claims(of)') /\ pool'[k].count = pool[k].count
        \/ /\ p \notin Claims(of) /\ p \in Claims(of)'
           /\ pool[k].count < MaxPages /\ pool'[k].count = pool[k].count + 1
    BY <1>1, <1>4, <2>1, <2>2, <2>3
  <2> QED
    BY <1>2, <2>1, <2>4, <2>5, CountFollows
<1> QED
  BY <1>5, <1>6, <1>7, <1>8, <1>9

(* A browser just launched has the claim of its launcher alone.            *)
LEMMA LaunchedKeeps ==
  ASSUME PoolAssumption, PoolIInv, NEW p \in Prints, Pages!Launched(p)
  PROVE  PoolIInv'
<1> USE DEF PoolIInv, PoolTypeOK
<1>1. /\ phase[p] = "launch"
      /\ browser' = [browser EXCEPT ![p] = p]
      /\ phase' = [phase EXCEPT ![p] = "newPage"]
      /\ pool' = IF cached THEN Append(pool, [browser |-> p, count |-> 1]) ELSE pool
      /\ UNCHANGED <<cached, keepPage, closed, disturbed>>
  BY DEF Pages!Launched, Pages!GoTo
<1>2. /\ browser[p] = NoBrowser
      /\ NoBrowser \notin Prints
      /\ MaxPages \in Nat \ {0}
  BY <1>1 DEF Launches, PoolAssumption
<1>3. /\ \A q \in Prints : browser[q] # p
      /\ \A k \in DOMAIN pool : pool[k].browser # p /\ pool[k].browser \in Prints
  <2>1. \A k \in DOMAIN pool : pool[k].browser \in Prints
    BY PlacesOfThePool
  <2> QED
    BY <1>2, <2>1 DEF Launches
<1> DEFINE n == Len(pool) + 1
<1>4. /\ pool' \in Seq(Entries)
      /\ DOMAIN pool \subseteq DOMAIN pool'
      /\ DOMAIN pool' \subseteq DOMAIN pool \union {n}
      /\ \A k \in DOMAIN pool : pool'[k] = pool[k]
      /\ n \notin DOMAIN pool
      /\ cached => n \in DOMAIN pool'
      /\ n \in DOMAIN pool' => pool'[n] = [browser |-> p, count |-> 1]
  <2>1. DOMAIN pool = 1..Len(pool) /\ Len(pool) \in Nat
    OBVIOUS
  <2>2. CASE cached
    <3>1. [browser |-> p, count |-> 1] \in Entries
      BY DEF Entries
    <3> QED
      BY <1>1, <2>1, <2>2, <3>1
  <2>3. CASE ~cached
    BY <1>1, <2>1, <2>3
  <2> QED
    BY <2>2, <2>3
<1>5. PoolTypeOK'
  BY <1>1, <1>4 DEF Awaits
<1>6. Launches'
  <2>1. \A q \in Prints : phase'[q] \in {"new", "launch"} => browser'[q] = NoBrowser
    BY <1>1 DEF Launches
  <2>2. \A q \in Prints : browser'[q] # NoBrowser => browser'[browser'[q]] = browser'[q]
    BY <1>1, <1>3 DEF Launches
  <2>3. \A k \in DOMAIN pool' : browser'[pool'[k].browser] = pool'[k].browser
    BY <1>1, <1>3, <1>4 DEF Launches
  <2>4. \A j, k \in DOMAIN pool' : pool'[j].browser = pool'[k].browser => j = k
    BY <1>3, <1>4 DEF Launches
  <2> QED
    BY <2>1, <2>2, <2>3, <2>4 DEF Launches
<1>7. ClosesAsConfigured'
  BY <1>1 DEF ClosesAsConfigured
<1>8. Accounted'
  <2> SUFFICES ASSUME cached, disturbed = {}, NEW q \in Prints, browser'[q] # NoBrowser
               PROVE  \/ browser'[q] \in closed
                      \/ \E k \in DOMAIN pool' : pool'[k].browser = browser'[q]
                      \/ \E o \in Prints : browser'[o] = browser'[q] /\ phase'[o] = "closeFailed"
    BY <1>1 DEF Accounted
  <2>1. CASE q = p
    BY <1>1, <1>4, <2>1
  <2>2. CASE q # p
    BY <1>1, <1>4, <2>2 DEF Accounted
  <2> QED
    BY <2>1, <2>2
<1>9. Counted'
  <2>1. ASSUME NEW k \in DOMAIN pool, NEW of, pool[k].browser = of
        PROVE  pool[k].count = Cardinality(Claims(of)') /\ pool[k].count <= MaxPages
    <3>1. p \notin Claims(of) /\ p \notin Claims(of)'
      BY <1>1, <1>3, <2>1 DEF Claims
    <3> QED
      BY <1>1, <2>1, <3>1, CountFollows
  <2>2. Cardinality(Claims(p)') = 1
    <3>1. Claims(p)' = {p}
      BY <1>1, <1>3 DEF Claims
    <3> QED
      BY <3>1, FS_Singleton
  <2> QED
    BY <1>2, <1>4, <2>1, <2>2 DEF Counted
<1> QED
  BY <1>5, <1>6, <1>7, <1>8, <1>9

(* A print leaves the browser it took off the pool.                        *)
LEMMA TakenOffKeeps ==
  ASSUME PoolAssumption, PoolIInv, NEW p \in Prints, Pages!RemoveFromPool(p),
         NEW to \in {"closeBrowser", "closeFailed"},
         UNCHANGED <<cached, keepPage, closed, browser>>,
         phase' = [phase EXCEPT ![p] = to],
         phase[p] \in Claiming \union {"closePage"},
         to = "closeBrowser" => ~keepPage /\ ~cached
  PROVE  PoolIInv'
<1> USE DEF PoolIInv, PoolTypeOK
<1> DEFINE b == browser[p]
<1>1. /\ pool' \in Seq(Entries)
      /\ \A k \in DOMAIN pool' : \E j \in DOMAIN pool : pool'[k] = pool[j] /\ pool[j].browser # b
      /\ \A j, k \in DOMAIN pool' : pool'[j].browser = pool'[k].browser => j = k
      /\ (\E k \in DOMAIN pool : pool[k].browser = b) =>
           \A j \in DOMAIN pool : pool[j].browser # b => \E k \in DOMAIN pool' : pool'[k] = pool[j]
  BY RemovedFromPool
<1>2. PoolTypeOK'
  BY <1>1 DEF Awaits
<1>3. Launches'
  <2>1. \A q \in Prints : phase'[q] \in {"new", "launch"} => browser'[q] = NoBrowser
    BY DEF Launches
  <2>2. \A q \in Prints : browser'[q] # NoBrowser => browser'[browser'[q]] = browser'[q]
    BY DEF Launches
  <2>3. \A k \in DOMAIN pool' : browser'[pool'[k].browser] = pool'[k].browser
    BY <1>1 DEF Launches
  <2> QED
    BY <1>1, <2>1, <2>2, <2>3 DEF Launches
<1>4. ClosesAsConfigured'
  BY DEF ClosesAsConfigured
<1>5. Accounted'
  <2> SUFFICES ASSUME cached, disturbed' = {}, NEW q \in Prints, browser[q] # NoBrowser
               PROVE  \/ browser[q] \in closed
                      \/ \E k \in DOMAIN pool' : pool'[k].browser = browser[q]
                      \/ \E o \in Prints : browser[o] = browser[q] /\ phase'[o] = "closeFailed"
    BY DEF Accounted
  <2>1. disturbed = {} /\ \E k \in DOMAIN pool : pool[k].browser = b
    BY DEF Pages!RemoveFromPool, Pages!Pooled
  <2>2. CASE browser[q] = b
    BY <2>2
  <2>3. CASE browser[q] # b
    <3>1. \/ browser[q] \in closed
          \/ \E k \in DOMAIN pool : pool[k].browser = browser[q]
          \/ \E o \in Prints \ {p} : browser[o] = browser[q] /\ phase[o] = "closeFailed"
      BY <2>1, <2>3 DEF Accounted
    <3> QED
      BY <1>1, <2>1, <2>3, <3>1
  <2> QED
    BY <2>2, <2>3
<1>6. Counted'
  <2> SUFFICES ASSUME NEW k \in DOMAIN pool', NEW of, pool'[k].browser = of
               PROVE  /\ pool'[k].count = Cardinality(Claims(of)')
                      /\ pool'[k].count <= MaxPages
    BY DEF Counted
  <2>1. PICK j \in DOMAIN pool : pool'[k] = pool[j] /\ pool[j].browser = of /\ of # b
    BY <1>1
  <2>2. p \notin Claims(of) /\ p \notin Claims(of)'
    BY <2>1 DEF Claims
  <2>3. pool[j].count = Cardinality(Claims(of)') /\ pool[j].count <= MaxPages
    BY <2>1, <2>2, CountFollows
  <2> QED
    BY <2>1, <2>3
<1> QED
  BY <1>2, <1>3, <1>4, <1>5, <1>6

(* A print that fails keeps the invariant.                                 *)
LEMMA FailsKeeps ==
  ASSUME PoolAssumption, PoolIInv, NEW p \in Prints, Pages!Fails(p)
  PROVE  PoolIInv'
BY TakenOffKeeps DEF Pages!Fails, Pages!GoTo, Claiming

(* A page given back: the count goes down with the claim.                  *)
LEMMA GivenBackKeeps ==
  ASSUME PoolAssumption, PoolIInv, NEW p \in Prints, Pages!DecreasePageCount(browser[p]),
         UNCHANGED <<cached, keepPage, closed, browser, disturbed>>,
         phase[p] = "pdf", phase' = [phase EXCEPT ![p] = "closePage"], ~keepPage
  PROVE  PoolIInv'
<1> USE DEF PoolIInv, PoolTypeOK
<1> DEFINE b == browser[p]
<1>1. pool' = [k \in DOMAIN pool |-> IF pool[k].browser = b THEN [pool[k] EXCEPT !.count = @ - 1] ELSE pool[k]]
  BY DEF Pages!DecreasePageCount, Pages!Pooled
<1>2. DOMAIN pool' = DOMAIN pool
  BY <1>1
<1>3. ASSUME NEW k \in DOMAIN pool
      PROVE  /\ pool'[k] \in Entries
             /\ pool'[k].browser = pool[k].browser
             /\ pool[k].browser # b => pool'[k].count = pool[k].count
             /\ pool[k].browser = b => pool'[k].count = pool[k].count - 1
  <2>1. pool[k] \in Entries
    BY PlacesOfThePool
  <2> QED
    BY <1>1, <2>1 DEF Entries
<1>4. pool' \in Seq(Entries)
  <2>1. pool' = [k \in 1..Len(pool) |-> pool'[k]]
    BY <1>1, PlacesOfThePool
  <2>2. \A k \in 1..Len(pool) : pool'[k] \in Entries
    BY <1>3, PlacesOfThePool
  <2> QED
    BY <2>1, <2>2, PlacesOfThePool
<1>5. PoolTypeOK'
  BY <1>4 DEF Awaits
<1>6. Launches'
  BY <1>2, <1>3 DEF Launches
<1>7. ClosesAsConfigured'
  BY DEF ClosesAsConfigured
<1>8. Accounted'
  BY <1>2, <1>3 DEF Accounted
<1>9. Counted'
  <2> SUFFICES ASSUME NEW k \in DOMAIN pool', NEW of, pool'[k].browser = of
               PROVE  /\ pool'[k].count = Cardinality(Claims(of)')
                      /\ pool'[k].count <= MaxPages
    BY DEF Counted
  <2>1. k \in DOMAIN pool /\ pool[k].browser = of
    BY <1>2, <1>3
  <2>2. (p \in Claims(of) <=> of = b) /\ p \notin Claims(of)'
    BY DEF Claims
  <2>3. \A q \in Prints \ {p} : phase'[q] = phase[q] /\ browser'[q] = browser[q]
    OBVIOUS
  <2>4. \/ (p \in Claims(of) <=> p \in Claims(of)') /\ pool'[k].count = pool[k].count
        \/ /\ p \in Claims(of) /\ p \notin Claims(of)'
           /\ pool'[k].count = pool[k].count - 1
    BY <1>3, <2>1, <2>2
  <2> QED
    BY <2>1, <2>3, <2>4, CountFollows
<1> QED
  BY <1>5, <1>6, <1>7, <1>8, <1>9

(* A PDF that is made keeps the invariant.                                 *)
LEMMA PdfMadeKeeps ==
  ASSUME PoolAssumption, PoolIInv, NEW p \in Prints, Pages!PdfMade(p)
  PROVE  PoolIInv'
<1> USE DEF PoolIInv
<1>1. phase[p] = "pdf" /\ UNCHANGED <<cached, keepPage, closed, browser>>
  BY DEF Pages!PdfMade
<1>2. CASE keepPage
  <2>1. phase' = [phase EXCEPT ![p] = "printed"] /\ UNCHANGED <<pool, disturbed>>
    BY <1>2 DEF Pages!PdfMade, Pages!GoTo
  <2>2. PoolTypeOK' /\ Launches' /\ ClosesAsConfigured' /\ Accounted'
    BY <1>1, <2>1 DEF PoolTypeOK, Awaits, Launches, ClosesAsConfigured, Accounted
  <2>3. \A b : Claims(b)' = Claims(b)
    BY <1>1, <1>2, <2>1 DEF PoolTypeOK, Claims
  <2>4. Counted'
    BY <2>1, <2>3 DEF Counted
  <2> QED
    BY <2>2, <2>4
<1>3. CASE ~keepPage /\ cached
  BY <1>1, <1>3, GivenBackKeeps DEF Pages!PdfMade, Pages!GoTo
<1>4. CASE ~keepPage /\ ~cached
  BY <1>1, <1>4, TakenOffKeeps DEF Pages!PdfMade, Pages!GoTo, Claiming
<1> QED
  BY <1>2, <1>3, <1>4

(* Every step of a print keeps the invariant of the pool.                  *)
LEMMA PoolInvariance ==
  ASSUME PoolAssumption, PoolIInv, [Pages!Next]_Pages!vars
  PROVE  PoolIInv'
<1>1. ASSUME NEW p \in Prints, Pages!Step(p)
      PROVE  PoolIInv'
  BY <1>1, FindBrowserKeeps, LaunchedKeeps, WaitsKeep, PdfMadeKeeps, FailsKeeps,
     BrowserClosedKeeps DEF Pages!Step
<1>2. CASE UNCHANGED Pages!vars
  BY <1>2 DEF Pages!vars, PoolIInv, PoolTypeOK, Launches, ClosesAsConfigured, Accounted,
              Counted, Claims
<1> QED
  BY <1>1, <1>2 DEF Pages!Next

(* A browser of the pool counts the pages that are claimed of it, and no   *)
(* more than the limit, for any number of prints (findOrCreateBrowser,     *)
(* decreasePageCount, closeBrowser).                                       *)
THEOREM PagesAlwaysCounted ==
  ASSUME PoolAssumption
  PROVE  Pages!Spec => []CountsItsPages
<1>1. Pages!Init => PoolIInv
  BY PoolInitially
<1>2. PoolIInv /\ [Pages!Next]_Pages!vars => PoolIInv'
  BY PoolInvariance
<1>3. PoolIInv => CountsItsPages
  BY DEF PoolIInv, Counted, CountsItsPages
<1> QED
  BY <1>1, <1>2, <1>3, PTL DEF Pages!Spec

(* No cached browser is lost, unless a second print failed in one browser  *)
(* or a close failed, for any number of prints (printPdf, closeBrowser).   *)
THEOREM BrowsersAlwaysAccounted ==
  ASSUME PoolAssumption
  PROVE  Pages!Spec => []NoBrowserIsLost
<1>1. Pages!Init => PoolIInv
  BY PoolInitially
<1>2. PoolIInv /\ [Pages!Next]_Pages!vars => PoolIInv'
  BY PoolInvariance
<1>3. PoolIInv => NoBrowserIsLost
  BY DEF PoolIInv, Accounted, NoBrowserIsLost, Ended, Pooled
<1> QED
  BY <1>1, <1>2, <1>3, PTL DEF Pages!Spec

-----------------------------------------------------------------------------
(* Bulk saves. *)
DurableItems(r) == {row.item : row \in {d \in durable : d.by = r}}
PendingItems(r) == {row.item : row \in pending[r]}

CallsTyped ==
  /\ DOMAIN call = Requests
  /\ \A r \in Requests :
       /\ {"kind", "items", "trans"} \subseteq DOMAIN call[r]
       /\ call[r].kind \in {"load", "save"} /\ call[r].trans \in BOOLEAN
       /\ \E S : call[r].items \in Seq(S)

SqlTypeOK ==
  /\ CallsTyped
  /\ DOMAIN at = Requests
  /\ \A r \in Requests :
       at[r] = [pc |-> at[r].pc, item |-> at[r].item, result |-> at[r].result]
  /\ DOMAIN pending = Requests
  /\ \A r \in Requests : \A row \in pending[r] : row.by = r

(* How far a save has come, and what is written of it by then.             *)
SavedSoFar(r) ==
  LET items == Len(call[r].items)
      n == at[r].item
      results(m) == [k \in 1..m |-> <<r, k>>]
  IN /\ n \in 0..items
     /\ at[r].pc \in {"new", "sent", "failed", "returned"}
     /\ at[r].pc = "new" =>
          n = 0 /\ at[r].result = <<>> /\ DurableItems(r) = {} /\ pending[r] = {}
     /\ at[r].pc = "sent" =>
          /\ n > 0 /\ at[r].result = results(n - 1)
          /\ call[r].trans => DurableItems(r) = {} /\ PendingItems(r) = 1..(n - 1)
          /\ ~call[r].trans => DurableItems(r) = 1..(n - 1) /\ pending[r] = {}
     /\ at[r].pc = "failed" =>
          /\ call[r].trans => DurableItems(r) = {}
          /\ ~call[r].trans => DurableItems(r) = 1..(n - 1) /\ pending[r] = {}
     /\ at[r].pc = "returned" =>
          /\ at[r].result = results(items)
          /\ pending[r] = {} => DurableItems(r) = 1..items
          /\ pending[r] # {} =>
               call[r].trans /\ DurableItems(r) = {} /\ PendingItems(r) = 1..items

SqlIInv == SqlTypeOK /\ \A r \in Requests : call[r].kind = "save" => SavedSoFar(r)

(* What a step of another request leaves as it was.                        *)
CallKept(r) ==
  /\ call'[r].kind = call[r].kind /\ call'[r].trans = call[r].trans
  /\ Len(call'[r].items) = Len(call[r].items)
OthersKept(r) ==
  \A q \in Requests \ {r} :
    at'[q] = at[q] /\ pending'[q] = pending[q] /\ DurableItems(q)' = DurableItems(q)

(* A sequence with one element replaced is as long as before.              *)
LEMMA ReplacedAt ==
  ASSUME NEW S, NEW s \in Seq(S), NEW i \in DOMAIN s, NEW x
  PROVE  /\ [s EXCEPT ![i] = x] \in Seq(S \union {x})
         /\ Len([s EXCEPT ![i] = x]) = Len(s)
<1>1. [s EXCEPT ![i] = x] = [k \in 1..Len(s) |-> IF k = i THEN x ELSE s[k]]
  OBVIOUS
<1>2. \A k \in 1..Len(s) : (IF k = i THEN x ELSE s[k]) \in S \union {x}
  OBVIOUS
<1> QED
  BY <1>1, <1>2

(* getSql may push into the data of an item, and changes no call beyond.   *)
LEMMA SendKeepsCalls ==
  ASSUME CallsTyped, NEW r \in Requests, NEW i \in 1..Len(call[r].items), Sql!Send(r, i)
  PROVE  CallsTyped' /\ \A q \in Requests : CallKept(q)
<1>1. CASE UNCHANGED call
  BY <1>1 DEF CallsTyped, CallKept
<1>2. CASE call[r].items[i].are = "named"
  <2>1. PICK data : call' = [call EXCEPT ![r].items[i].data = data]
    BY <1>2 DEF Sql!Send
  <2> DEFINE x == [call[r].items[i] EXCEPT !.data = data]
             items == [call[r].items EXCEPT ![i] = x]
  <2>2. \A q \in Requests \ {r} : call'[q] = call[q]
    BY <2>1 DEF CallsTyped
  <2>3. call'[r] = [call[r] EXCEPT !.items = items]
    BY <2>1 DEF CallsTyped
  <2>4. PICK S : call[r].items \in Seq(S)
    BY DEF CallsTyped
  <2> HIDE DEF x
  <2>5. items \in Seq(S \union {x}) /\ Len(items) = Len(call[r].items)
    BY <2>4, ReplacedAt
  <2> HIDE DEF items
  <2>6. /\ DOMAIN call'[r] = DOMAIN call[r]
        /\ call'[r].kind = call[r].kind
        /\ call'[r].trans = call[r].trans
        /\ call'[r].items = items
    BY <2>3 DEF CallsTyped
  <2>7. DOMAIN call' = Requests
    BY <2>1 DEF CallsTyped
  <2> QED
    BY <2>2, <2>5, <2>6, <2>7 DEF CallsTyped, CallKept
<1> QED
  BY <1>1, <1>2 DEF Sql!Send

(* What a save has come to does not depend on the other requests.          *)
LEMMA OthersSaved ==
  ASSUME NEW r, OthersKept(r), NEW q \in Requests \ {r}, CallKept(q), SavedSoFar(q)
  PROVE  SavedSoFar(q)'
BY DEF OthersKept, CallKept, SavedSoFar, PendingItems

(* What every step of a request keeps.                                     *)
Advances(r) ==
  /\ SqlTypeOK'
  /\ \A q \in Requests : CallKept(q)
  /\ OthersKept(r)
  /\ call[r].kind = "save" => SavedSoFar(r)'

(* A step that advances its own request keeps the invariant of all.        *)
LEMMA AdvanceKeeps ==
  ASSUME SqlIInv, NEW r \in Requests, Advances(r)
  PROVE  SqlIInv'
BY OthersSaved DEF SqlIInv, Advances, CallKept

(* A request is where its step has put it, and the others where they were. *)
Moved(r, to, item, result) ==
  \/ at' = [at EXCEPT ![r].pc = to] /\ item = at[r].item /\ result = at[r].result
  \/ at' = [at EXCEPT ![r].pc = to, ![r].item = item] /\ result = at[r].result
  \/ at' = [at EXCEPT ![r].pc = to, ![r].result = result] /\ item = at[r].item
  \/ at' = [at EXCEPT ![r].item = item, ![r].result = result] /\ to = at[r].pc

(* The fields of the request that moves, and those of the others.          *)
LEMMA MovesAlone ==
  ASSUME SqlTypeOK, NEW r \in Requests, NEW to, NEW item, NEW result,
         Moved(r, to, item, result)
  PROVE  /\ at'[r] = [pc |-> to, item |-> item, result |-> result]
         /\ DOMAIN at' = Requests
         /\ \A q \in Requests \ {r} : at'[q] = at[q]
         /\ \A q \in Requests :
              at'[q] = [pc |-> at'[q].pc, item |-> at'[q].item, result |-> at'[q].result]
<1>1. DOMAIN at = Requests /\ at[r] = [pc |-> at[r].pc, item |-> at[r].item, result |-> at[r].result]
  BY DEF SqlTypeOK
<1>2. /\ at'[r] = [pc |-> to, item |-> item, result |-> result]
      /\ DOMAIN at' = Requests
      /\ \A q \in Requests \ {r} : at'[q] = at[q]
  BY <1>1 DEF Moved
<1> QED
  BY <1>2 DEF SqlTypeOK

(* The first statement, nothing to save, or no SQL.                        *)
LEMMA PerformAdvances ==
  ASSUME SqlIInv, NEW r \in Requests, Sql!Perform(r)
  PROVE  Advances(r)
<1> DEFINE items == Len(call[r].items)
<1>1. /\ SqlTypeOK /\ CallsTyped /\ at[r].pc = "new"
      /\ items \in Nat /\ (items = 0 <=> call[r].items = <<>>)
      /\ UNCHANGED <<durable, pending>>
  BY DEF SqlIInv, SqlTypeOK, CallsTyped, Sql!Perform
<1>2. PICK to \in {"sent", "failed", "returned"}, item \in {at[r].item, 1} :
        /\ \/ at' = [at EXCEPT ![r].pc = to] /\ item = at[r].item
           \/ at' = [at EXCEPT ![r].pc = to, ![r].item = item]
        /\ to = "sent" => item = 1 /\ items > 0
        /\ to # "sent" => item = at[r].item
        /\ to = "returned" => items = 0
        /\ CallsTyped' /\ \A q \in Requests : CallKept(q)
  <2>1. CASE UNCHANGED call /\ call[r].items = <<>> /\ at' = [at EXCEPT ![r].pc = "returned"]
    BY <1>1, <2>1 DEF CallsTyped, CallKept
  <2>2. CASE UNCHANGED call /\ at' = [at EXCEPT ![r].pc = "failed"]
    BY <1>1, <2>2 DEF CallsTyped, CallKept
  <2>3. CASE /\ call[r].items # <<>> /\ Sql!Send(r, 1)
             /\ at' = [at EXCEPT ![r].pc = "sent", ![r].item = 1]
    <3>1. 1 \in 1..Len(call[r].items)
      BY <1>1, <2>3
    <3>2. CallsTyped' /\ \A q \in Requests : CallKept(q)
      BY <1>1, <2>3, <3>1, SendKeepsCalls
    <3> QED
      BY <1>1, <2>3, <3>2
  <2> QED
    BY <2>1, <2>2, <2>3 DEF Sql!Perform
<1>3. /\ at'[r] = [pc |-> to, item |-> item, result |-> at[r].result]
      /\ DOMAIN at' = Requests
      /\ \A q \in Requests \ {r} : at'[q] = at[q]
      /\ \A q \in Requests :
           at'[q] = [pc |-> at'[q].pc, item |-> at'[q].item, result |-> at'[q].result]
  <2>1. Moved(r, to, item, at[r].result)
    BY <1>2 DEF Moved
  <2> QED
    BY <1>1, <2>1, MovesAlone
<1>4. SqlTypeOK'
  BY <1>1, <1>2, <1>3 DEF SqlTypeOK
<1>5. OthersKept(r)
  BY <1>1, <1>3 DEF OthersKept, DurableItems
<1>6. ASSUME call[r].kind = "save"
      PROVE  SavedSoFar(r)'
  <2>1. /\ at[r].item = 0 /\ at[r].result = <<>>
        /\ DurableItems(r) = {} /\ pending[r] = {}
    BY <1>1, <1>6 DEF SqlIInv, SavedSoFar
  <2>2. /\ DurableItems(r)' = {} /\ pending'[r] = {} /\ PendingItems(r)' = {}
        /\ Len(call'[r].items) = items
    BY <1>1, <1>2, <2>1 DEF DurableItems, PendingItems, CallKept
  <2>3. at'[r].pc = to /\ at'[r].item = item /\ at'[r].result = <<>>
    BY <1>3, <2>1
  <2>4. [k \in 1..0 |-> <<r, k>>] = <<>> /\ 1..0 = {} /\ 1..(-1) = {}
    OBVIOUS
  <2> QED
    BY <1>1, <1>2, <2>1, <2>2, <2>3, <2>4 DEF SavedSoFar
<1> QED
  BY <1>2, <1>4, <1>5, <1>6 DEF Advances

(* A statement of a save writes the row of its item, and no other.         *)
LEMMA WriteOfItem ==
  ASSUME SqlTypeOK, NEW r \in Requests, Sql!Write(r)
  PROVE  /\ DOMAIN pending' = Requests
         /\ \A q \in Requests : \A row \in pending'[q] : row.by = q
         /\ \A q \in Requests \ {r} :
              pending'[q] = pending[q] /\ DurableItems(q)' = DurableItems(q)
         /\ call[r].trans =>
              /\ pending'[r] # {}
              /\ PendingItems(r)' = PendingItems(r) \union {at[r].item}
              /\ DurableItems(r)' = DurableItems(r)
         /\ ~call[r].trans =>
              /\ pending'[r] = pending[r]
              /\ DurableItems(r)' = DurableItems(r) \union {at[r].item}
<1> DEFINE row == Sql!Row(r)
<1>1. row.by = r /\ row.item = at[r].item
  BY DEF Sql!Row
<1> HIDE DEF row
<1>2. CASE call[r].trans
  <2>1. pending' = [pending EXCEPT ![r] = @ \union {row}] /\ durable' = durable
    BY <1>2 DEF Sql!Write, row
  <2> QED
    BY <1>1, <1>2, <2>1 DEF SqlTypeOK, PendingItems, DurableItems
<1>3. CASE ~call[r].trans
  <2>1. durable' = durable \union {row} /\ pending' = pending
    BY <1>3 DEF Sql!Write, row
  <2>2. DurableItems(r)' = DurableItems(r) \union {at[r].item}
    BY <1>1, <2>1 DEF DurableItems
  <2>3. \A q \in Requests \ {r} : DurableItems(q)' = DurableItems(q)
    BY <1>1, <2>1 DEF DurableItems
  <2> QED
    BY <1>3, <2>1, <2>2, <2>3 DEF SqlTypeOK
<1> QED
  BY <1>2, <1>3

(* A statement that is answered writes the row of its item.                *)
LEMMA SavedAdvances ==
  ASSUME SqlIInv, NEW r \in Requests, Sql!Saved(r)
  PROVE  Advances(r)
<1> DEFINE items == Len(call[r].items)
           n == at[r].item
           results(m) == [k \in 1..m |-> <<r, k>>]
<1>1. /\ SqlTypeOK /\ CallsTyped /\ at[r].pc = "sent" /\ call[r].kind = "save"
      /\ items \in Nat
  BY DEF SqlIInv, SqlTypeOK, CallsTyped, Sql!Saved
<1>2. /\ n \in 1..items /\ at[r].result = results(n - 1)
      /\ call[r].trans => DurableItems(r) = {} /\ PendingItems(r) = 1..(n - 1)
      /\ ~call[r].trans => DurableItems(r) = 1..(n - 1) /\ pending[r] = {}
  <2>1. SavedSoFar(r)
    BY <1>1 DEF SqlIInv
  <2>2. n \in 0..items /\ n > 0
    BY <1>1, <2>1 DEF SavedSoFar
  <2>3. at[r].result = results(n - 1)
    BY <1>1, <2>1 DEF SavedSoFar
  <2>4. /\ call[r].trans => DurableItems(r) = {} /\ PendingItems(r) = 1..(n - 1)
        /\ ~call[r].trans => DurableItems(r) = 1..(n - 1) /\ pending[r] = {}
    BY <1>1, <2>1 DEF SavedSoFar
  <2> QED
    BY <1>1, <2>2, <2>3, <2>4
<1>3. /\ Append(results(n - 1), <<r, n>>) = results(n)
      /\ 1..n = (1..(n - 1)) \union {n}
  <2>1. n \in Nat /\ n >= 1
    BY <1>1, <1>2
  <2>2. results(n - 1) \in Seq(Requests \X Nat) /\ Len(results(n - 1)) = n - 1
    BY <2>1
  <2>3. Append(results(n - 1), <<r, n>>) = [k \in 1..n |-> IF k = n THEN <<r, n>> ELSE results(n - 1)[k]]
    BY <2>1, <2>2
  <2>4. \A k \in 1..n : (IF k = n THEN <<r, n>> ELSE results(n - 1)[k]) = <<r, k>>
    BY <2>1
  <2> QED
    BY <2>1, <2>3, <2>4
<1>4. /\ DOMAIN pending' = Requests
      /\ \A q \in Requests : \A row \in pending'[q] : row.by = q
      /\ \A q \in Requests \ {r} :
           pending'[q] = pending[q] /\ DurableItems(q)' = DurableItems(q)
      /\ call[r].trans => /\ DurableItems(r)' = {} /\ PendingItems(r)' = 1..n
                          /\ pending'[r] # {}
      /\ ~call[r].trans => DurableItems(r)' = 1..n /\ pending'[r] = {}
  <2>1. Sql!Write(r)
    BY DEF Sql!Saved
  <2> QED
    BY <1>1, <1>2, <1>3, <2>1, WriteOfItem
<1>5. PICK to \in {"sent", "returned"}, item \in {n, n + 1} :
        /\ \/ at' = [at EXCEPT ![r].pc = to, ![r].result = results(n)] /\ item = at[r].item
           \/ at' = [at EXCEPT ![r].item = item, ![r].result = results(n)] /\ to = at[r].pc
        /\ to = "sent" => item = n + 1 /\ n < items
        /\ to = "returned" => item = n /\ n = items
        /\ CallsTyped' /\ \A q \in Requests : CallKept(q)
  <2>1. CASE n < items
    <3>1. Sql!Send(r, n + 1) /\ at' = [at EXCEPT ![r].item = n + 1, ![r].result = results(n)]
      BY <1>2, <1>3, <2>1 DEF Sql!Saved, Sql!NextItem
    <3>2. n + 1 \in 1..Len(call[r].items)
      BY <1>1, <1>2, <2>1
    <3>3. CallsTyped' /\ \A q \in Requests : CallKept(q)
      BY <1>1, <3>1, <3>2, SendKeepsCalls
    <3> QED
      BY <1>1, <2>1, <3>1, <3>3
  <2>2. CASE ~(n < items)
    <3>1. UNCHANGED call /\ at' = [at EXCEPT ![r].pc = "returned", ![r].result = results(n)]
      BY <1>2, <1>3, <2>2 DEF Sql!Saved, Sql!NextItem
    <3>2. CallsTyped' /\ \A q \in Requests : CallKept(q)
      BY <1>1, <3>1 DEF CallsTyped, CallKept
    <3> QED
      BY <1>1, <1>2, <2>2, <3>1, <3>2
  <2> QED
    BY <2>1, <2>2
<1>6. /\ at'[r] = [pc |-> to, item |-> item, result |-> results(n)]
      /\ DOMAIN at' = Requests
      /\ \A q \in Requests \ {r} : at'[q] = at[q]
      /\ \A q \in Requests :
           at'[q] = [pc |-> at'[q].pc, item |-> at'[q].item, result |-> at'[q].result]
  <2>1. Moved(r, to, item, results(n))
    BY <1>5 DEF Moved
  <2> QED
    BY <1>1, <2>1, MovesAlone
<1>7. SqlTypeOK'
  BY <1>4, <1>5, <1>6 DEF SqlTypeOK
<1>8. OthersKept(r)
  BY <1>4, <1>6 DEF OthersKept
<1>9. SavedSoFar(r)'
  <2>1. /\ Len(call'[r].items) = items /\ call'[r].trans = call[r].trans
        /\ call[r].trans \in BOOLEAN
    BY <1>1, <1>5 DEF CallKept, CallsTyped
  <2>2. at'[r].pc = to /\ at'[r].item = item /\ at'[r].result = results(n)
    BY <1>6
  <2> HIDE DEF results
  <2>3. CASE to = "sent"
    <3>1. item = n + 1 /\ item - 1 = n /\ item \in 0..items /\ item > 0
      BY <1>1, <1>2, <1>5, <2>3
    <3> QED
      BY <1>4, <2>1, <2>2, <2>3, <3>1 DEF SavedSoFar, results
  <2>4. CASE to = "returned"
    <3>1. item = n /\ n = items /\ item \in 0..items
      BY <1>1, <1>2, <1>5, <2>4
    <3> QED
      BY <1>4, <2>1, <2>2, <2>4, <3>1 DEF SavedSoFar, results
  <2> QED
    BY <2>3, <2>4
<1> QED
  BY <1>5, <1>7, <1>8, <1>9 DEF Advances

(* A load writes nothing.                                                  *)
LEMMA LoadedAdvances ==
  ASSUME SqlIInv, NEW r \in Requests, Sql!Loaded(r)
  PROVE  Advances(r)
<1>1. /\ SqlTypeOK /\ call[r].kind = "load"
      /\ UNCHANGED <<call, durable, pending>>
  BY DEF SqlIInv, Sql!Loaded
<1>2. \E to, result : Moved(r, to, at[r].item, result)
  <2>1. CASE at' = [at EXCEPT ![r].pc = "returned"]
    BY <2>1 DEF Moved
  <2>2. ASSUME NEW to, NEW result, at' = [at EXCEPT ![r].pc = to, ![r].result = result]
        PROVE  \E pc, known : Moved(r, pc, at[r].item, known)
    BY <2>2 DEF Moved
  <2> QED
    BY <2>1, <2>2 DEF Sql!Loaded
<1>3. /\ DOMAIN at' = Requests
      /\ \A q \in Requests \ {r} : at'[q] = at[q]
      /\ \A q \in Requests :
           at'[q] = [pc |-> at'[q].pc, item |-> at'[q].item, result |-> at'[q].result]
  BY <1>1, <1>2, MovesAlone
<1>4. SqlTypeOK'
  BY <1>1, <1>3 DEF SqlTypeOK, CallsTyped
<1>5. OthersKept(r) /\ \A q \in Requests : CallKept(q)
  BY <1>1, <1>3 DEF OthersKept, CallKept, DurableItems
<1> QED
  BY <1>1, <1>4, <1>5 DEF Advances

(* What was sent and refused is not written.                               *)
LEMMA RejectedAdvances ==
  ASSUME SqlIInv, NEW r \in Requests, Sql!Rejected(r)
  PROVE  Advances(r)
<1>1. /\ SqlTypeOK /\ at[r].pc = "sent"
      /\ at' = [at EXCEPT ![r].pc = "failed"]
      /\ UNCHANGED <<call, durable, pending>>
  BY DEF SqlIInv, Sql!Rejected
<1>2. /\ at'[r] = [pc |-> "failed", item |-> at[r].item, result |-> at[r].result]
      /\ DOMAIN at' = Requests
      /\ \A q \in Requests \ {r} : at'[q] = at[q]
      /\ \A q \in Requests :
           at'[q] = [pc |-> at'[q].pc, item |-> at'[q].item, result |-> at'[q].result]
  <2>1. Moved(r, "failed", at[r].item, at[r].result)
    BY <1>1 DEF Moved
  <2> QED
    BY <1>1, <2>1, MovesAlone
<1>3. SqlTypeOK'
  BY <1>1, <1>2 DEF SqlTypeOK, CallsTyped
<1>4. OthersKept(r) /\ \A q \in Requests : CallKept(q)
  BY <1>1, <1>2 DEF OthersKept, CallKept, DurableItems
<1>5. ASSUME call[r].kind = "save"
      PROVE  SavedSoFar(r)'
  <2>1. SavedSoFar(r)
    BY <1>5 DEF SqlIInv
  <2>2. DurableItems(r)' = DurableItems(r)
    BY <1>1 DEF DurableItems
  <2> QED
    BY <1>1, <1>2, <2>1, <2>2 DEF SavedSoFar
<1> QED
  BY <1>3, <1>4, <1>5 DEF Advances

(* The end of the sets commits all rows of a save that has returned, and   *)
(* none of one that has failed.                                            *)
LEMMA EndOfSetsAdvances ==
  ASSUME SqlIInv, NEW r \in Requests, Sql!EndOfSets(r)
  PROVE  Advances(r)
<1>1. /\ SqlTypeOK /\ call[r].trans /\ pending[r] # {}
      /\ at[r].pc \in {"returned", "failed"}
      /\ durable' = IF at[r].pc = "returned" THEN durable \union pending[r] ELSE durable
      /\ pending' = [pending EXCEPT ![r] = {}]
      /\ UNCHANGED <<call, at>>
  BY DEF SqlIInv, Sql!EndOfSets
<1>2. SqlTypeOK'
  BY <1>1 DEF SqlTypeOK, CallsTyped
<1>3. ASSUME NEW q \in Requests \ {r}
      PROVE  DurableItems(q)' = DurableItems(q) /\ pending'[q] = pending[q]
  <2>1. \A row \in pending[r] : row.by # q
    BY <1>1 DEF SqlTypeOK
  <2> QED
    BY <1>1, <2>1 DEF SqlTypeOK, DurableItems
<1>4. OthersKept(r) /\ \A q \in Requests : CallKept(q)
  BY <1>1, <1>3 DEF OthersKept, CallKept
<1>5. ASSUME call[r].kind = "save"
      PROVE  SavedSoFar(r)'
  <2>1. SavedSoFar(r)
    BY <1>5 DEF SqlIInv
  <2>2. pending'[r] = {}
    BY <1>1 DEF SqlTypeOK
  <2>3. CASE at[r].pc = "returned"
    <3>1. DurableItems(r)' = DurableItems(r) \union PendingItems(r)
      BY <1>1, <2>3 DEF SqlTypeOK, DurableItems, PendingItems
    <3>2. DurableItems(r)' = 1..Len(call[r].items)
      BY <1>1, <2>1, <2>3, <3>1 DEF SavedSoFar
    <3> QED
      BY <1>1, <2>1, <2>2, <2>3, <3>2 DEF SavedSoFar
  <2>4. CASE at[r].pc = "failed"
    <3>1. DurableItems(r)' = DurableItems(r)
      BY <1>1, <2>4 DEF DurableItems
    <3> QED
      BY <1>1, <2>1, <2>2, <2>4, <3>1 DEF SavedSoFar
  <2> QED
    BY <1>1, <2>3, <2>4
<1> QED
  BY <1>2, <1>4, <1>5 DEF Advances

(* Nothing is sent and nothing written at the start.                       *)
LEMMA SqlInitially == ASSUME Sql!CallsAssumption, Sql!Init PROVE SqlIInv
<1>1. /\ call \in [Requests -> Calls]
      /\ at = [r \in Requests |-> [pc |-> "new", item |-> 0, result |-> <<>>]]
      /\ durable = {} /\ pending = [r \in Requests |-> {}]
  BY DEF Sql!Init
<1>2. CallsTyped
  BY <1>1 DEF CallsTyped, Sql!CallsAssumption
<1>3. SqlTypeOK
  BY <1>1, <1>2 DEF SqlTypeOK
<1>4. ASSUME NEW r \in Requests
      PROVE  SavedSoFar(r)
  <2>1. Len(call[r].items) \in Nat
    BY <1>2 DEF CallsTyped
  <2> QED
    BY <1>1, <2>1 DEF SavedSoFar, DurableItems
<1> QED
  BY <1>3, <1>4 DEF SqlIInv

(* Every step keeps what is known of the saves.                            *)
LEMMA SqlInvariance == SqlIInv /\ [Sql!Next]_Sql!vars => SqlIInv'
<1> SUFFICES ASSUME SqlIInv, [Sql!Next]_Sql!vars
             PROVE  SqlIInv'
  OBVIOUS
<1>1. ASSUME NEW r \in Requests,
             \/ Sql!Perform(r) \/ Sql!Saved(r) \/ Sql!Loaded(r)
             \/ Sql!Rejected(r) \/ Sql!EndOfSets(r)
      PROVE  SqlIInv'
  <2>1. Advances(r)
    BY <1>1, PerformAdvances, SavedAdvances, LoadedAdvances, RejectedAdvances, EndOfSetsAdvances
  <2> QED
    BY <2>1, AdvanceKeeps
<1>2. CASE UNCHANGED Sql!vars
  BY <1>2 DEF Sql!vars, SqlIInv, SqlTypeOK, CallsTyped, SavedSoFar, DurableItems, PendingItems
<1> QED
  BY <1>1, <1>2 DEF Sql!Next

(* What is known of a save makes its rows a prefix of its items.           *)
LEMMA SavedSoFarIsAPrefix == SqlIInv => BulkSavesAPrefix
<1> SUFFICES ASSUME SqlIInv, NEW r \in Requests, call[r].kind = "save"
             PROVE  LET rows == DurableItems(r)
                        count == Cardinality(rows)
                    IN  /\ rows = 1..count
                        /\ at[r].pc = "returned" =>
                             /\ at[r].result = [k \in 1..Len(call[r].items) |-> <<r, k>>]
                             /\ count = IF call[r].trans /\ pending[r] # {} THEN 0
                                        ELSE Len(call[r].items)
                        /\ at[r].pc \in {"sent", "failed"} =>
                             count = IF call[r].trans \/ at[r].item = 0 THEN 0 ELSE at[r].item - 1
  BY DEF BulkSavesAPrefix, DurableItems
<1> DEFINE items == Len(call[r].items)
           n == at[r].item
<1>1. SavedSoFar(r) /\ items \in Nat /\ n \in 0..items /\ call[r].trans \in BOOLEAN
  <2>1. SavedSoFar(r)
    BY DEF SqlIInv
  <2>2. items \in Nat /\ call[r].trans \in BOOLEAN
    BY DEF SqlIInv, SqlTypeOK, CallsTyped
  <2>3. n \in 0..items
    BY <2>1 DEF SavedSoFar
  <2> QED
    BY <2>1, <2>2, <2>3
<1>2. \A m \in Nat : Cardinality(1..m) = m
  BY FS_Interval
<1>3. {} = 1..0 /\ 1..(-1) = 1..0
  OBVIOUS
<1>4. PICK m \in Nat :
        /\ DurableItems(r) = 1..m
        /\ at[r].pc = "returned" => m = IF call[r].trans /\ pending[r] # {} THEN 0 ELSE items
        /\ at[r].pc \in {"sent", "failed"} => m = IF call[r].trans \/ n = 0 THEN 0 ELSE n - 1
  <2>1. CASE at[r].pc = "new"
    BY <1>1, <1>3, <2>1 DEF SavedSoFar
  <2>2. CASE at[r].pc = "returned"
    BY <1>1, <1>3, <2>2 DEF SavedSoFar
  <2>3. CASE at[r].pc \in {"sent", "failed"} /\ call[r].trans
    BY <1>1, <1>3, <2>3 DEF SavedSoFar
  <2>4. CASE at[r].pc \in {"sent", "failed"} /\ ~call[r].trans
    <3>1. DurableItems(r) = 1..(n - 1)
      BY <1>1, <2>4 DEF SavedSoFar
    <3>2. CASE n = 0
      BY <1>3, <2>4, <3>1, <3>2
    <3>3. CASE n # 0
      <4>1. n - 1 \in Nat
        BY <1>1, <3>3
      <4> QED
        BY <2>4, <3>1, <3>3, <4>1
    <3> QED
      BY <3>2, <3>3
  <2> QED
    BY <1>1, <2>1, <2>2, <2>3, <2>4 DEF SavedSoFar
<1>5. at[r].pc = "returned" => at[r].result = [k \in 1..items |-> <<r, k>>]
  BY <1>1 DEF SavedSoFar
<1> QED
  BY <1>2, <1>4, <1>5

(* A save reaches the database item by item, in order, and as a whole or   *)
(* not at all in a transaction, for any number of requests, any items and  *)
(* any refusals (doPerform of the bulk save, autoTrans).                   *)
THEOREM BulkAlwaysSavesAPrefix ==
  ASSUME Sql!CallsAssumption
  PROVE  Sql!Spec => []BulkSavesAPrefix
<1>1. Sql!Init => SqlIInv
  BY SqlInitially
<1>2. SqlIInv /\ [Sql!Next]_Sql!vars => SqlIInv'
  BY SqlInvariance
<1>3. SqlIInv => BulkSavesAPrefix
  BY SavedSoFarIsAPrefix
<1> QED
  BY <1>1, <1>2, <1>3, PTL DEF Sql!Spec
-----------------------------------------------------------------------------
(* Rows that are loaded as they were saved, and statements that are of     *)
(* their templates whatever the cache of templates holds.                  *)

ColumnVariable(c, n) == Sql!ColumnVariable(c.variables[n], c.columns[n])

(* The parameters are the values an item has for the columns of its call.  *)
BoundTo(c, i, params) ==
  \A n \in 1..Len(c.columns) :
    params[n] = Sql!GetBindingValue(c.items[i].data, ColumnVariable(c, n))

HasTypedRows(q) == call[q].kind = "save" /\ call[q].columns # <<>>

CallsColumned ==
  \A q \in Requests :
    /\ {"step", "sql", "columns", "variables"} \subseteq DOMAIN call[q]
    /\ HasTypedRows(q) => Sql!HasVariables(call[q]) /\ Sql!GivesColumns(call[q])

CacheOfTexts == \A sql \in DOMAIN cache : cache[sql] = Sql!ParseSql(sql)

StatementsTyped ==
  /\ DOMAIN sent = Requests
  /\ \A q \in Requests : \E S : sent[q] \in Seq(S)

SentBound(q) ==
  HasTypedRows(q) /\ at[q].pc = "sent" =>
    /\ at[q].item \in 1..Len(call[q].items)
    /\ BoundTo(call[q], at[q].item, Sql!Last(sent[q]).params)

RowBound(row) ==
  /\ row.by \in Requests /\ call[row.by].kind = "save"
  /\ row.item \in 1..Len(call[row.by].items)
  /\ call[row.by].columns # <<>> => BoundTo(call[row.by], row.item, row.bound)

(* What a column of a suffix gives back of the i-th item of a save.        *)
GivenOf(c, i, n, suffix) == GivenBack(c.items[i].data[c.variables[n]], suffix)

(* What a load has, if it found a row. *)
HasLoaded(q, by, i) ==
  /\ call[by].kind = "save" /\ call[by].columns = call[q].columns
  /\ at[q].result
       = <<<<by, i>>,
           [n \in DOMAIN call[q].columns |->
              GivenOf(call[by], i, n, call[q].columns[n])]>>
  /\ at[q].pc = IF \E n \in DOMAIN call[q].columns :
                     GivenOf(call[by], i, n, call[q].columns[n]) = Unreadable
                 THEN "failed" ELSE "returned"

(* A load that has found a row has ended; a step keeps that. *)
ResultKept(q) ==
  at'[q].result = at[q].result /\ (at[q].result = <<>> \/ at'[q].pc = at[q].pc)

LoadedOf(q) ==
  call[q].kind = "load" /\ at[q].result # <<>> =>
    \E by \in Requests : \E i \in 1..Len(call[by].items) : HasLoaded(q, by, i)

StatementsInv == CacheOfTexts /\ StatementsTyped

RowsInv ==
  /\ CallsColumned
  /\ \A q \in Requests : SentBound(q) /\ LoadedOf(q) /\ \A row \in pending[q] : RowBound(row)
  /\ \A row \in durable : RowBound(row)

(* Some number is the least. *)
LEMMA Least ==
  ASSUME NEW S \in SUBSET Nat, S # {}
  PROVE  \E n \in S : \A m \in S : n <= m
<1> DEFINE Less == {ss \in Nat \X Nat : ss[1] < ss[2]}
<1>1. IsWellFoundedOn(Less, Nat)
  BY NatLessThanWellFounded DEF OpToRel
<1> HIDE DEF Less
<1>2. PICK n \in S : \A m \in S : <<m, n>> \notin Less
  BY <1>1, WFMin
<1>3. ASSUME NEW m \in S
      PROVE  n <= m
  <2>1. <<m, n>> \in Less <=> m < n
    BY DEF Less
  <2> QED
    BY <1>2, <2>1
<1> QED
  BY <1>3

(* The reduction of getSql: what it has come to after a segment more. *)
LEMMA Composition ==
  ASSUME NEW S, NEW segments \in Seq(S), NEW data, NEW type
  PROVE  LET composed == Sql!ComposedUpTo(segments, data, type)
         IN /\ composed[0] = [sql |-> <<>>, params |-> <<>>]
            /\ \A k \in 1..Len(segments) :
                 composed[k] = Sql!Appended(composed[k - 1], segments[k], data, type)
<1> DEFINE Body(f, k) == IF k = 0 THEN [sql |-> <<>>, params |-> <<>>]
                         ELSE Sql!Appended(f[k - 1], segments[k], data, type)
           Solves(f, l) == f = [k \in 0..l |-> Body(f, k)]
           Unsolved == {l \in Nat : ~\E f : Solves(f, l)}
<1>1. Unsolved = {}
  <2> SUFFICES ASSUME Unsolved # {}
               PROVE  FALSE
    OBVIOUS
  <2>1. PICK l \in Unsolved : \A k \in Unsolved : l <= k
    BY Least
  <2>2. CASE l = 0
    <3>1. Solves([k \in 0..0 |-> [sql |-> <<>>, params |-> <<>>]], 0)
      OBVIOUS
    <3> QED
      BY <2>1, <2>2, <3>1
  <2>3. CASE l # 0
    <3>1. PICK g : Solves(g, l - 1)
      <4> HIDE DEF Solves
      <4>1. l \in Nat /\ l - 1 \in Nat /\ ~(l <= l - 1)
        BY <2>1, <2>3
      <4>2. l - 1 \notin Unsolved
        BY <2>1, <4>1
      <4> QED
        BY <4>1, <4>2
    <3> DEFINE f == [k \in 0..l |-> IF k = l THEN Body(g, l) ELSE g[k]]
    <3>2. \A k \in 0..l : f[k] = Body(f, k)
      <4> TAKE k \in 0..l
      <4>1. CASE k = l
        <5>1. l \in Nat /\ l - 1 \in 0..l /\ l - 1 # l /\ f[l] = Body(g, l)
          BY <2>1, <2>3
        <5>2. f[l - 1] = g[l - 1]
          BY <5>1
        <5> QED
          BY <4>1, <5>1, <5>2, <2>3
      <4>2. CASE k # l
        <5>1. k \in 0..(l - 1) /\ g[k] = Body(g, k)
          <6> HIDE DEF Body
          <6>1. k \in 0..(l - 1)
            BY <4>2, <2>1
          <6>2. g[k] = Body(g, k)
            BY <3>1, <6>1
          <6> QED
            BY <6>1, <6>2
        <5>2. f[k] = g[k] /\ (k # 0 => f[k - 1] = g[k - 1])
          BY <4>2, <5>1
        <5> QED
          BY <5>1, <5>2
      <4> QED
        BY <4>1, <4>2
    <3>3. Solves(f, l)
      BY <3>2
    <3> QED
      BY <2>1, <3>3
  <2> QED
    BY <2>2, <2>3
<1> DEFINE composed == Sql!ComposedUpTo(segments, data, type)
<1>2. Len(segments) \in Nat
  OBVIOUS
<1>3. \E f : Solves(f, Len(segments))
  BY <1>1, <1>2
<1>4. composed = CHOOSE f : Solves(f, Len(segments))
  BY DEF Sql!ComposedUpTo
<1>5. Solves(composed, Len(segments))
  <2> HIDE DEF Solves, composed
  <2> QED
    BY <1>3, <1>4, Zenon
<1>6. \A k \in 0..Len(segments) : composed[k] = Body(composed, k)
  <2> HIDE DEF Body, composed
  <2> QED
    BY <1>5
<1> HIDE DEF composed
<1>7. composed[0] = [sql |-> <<>>, params |-> <<>>]
  BY <1>2, <1>6
<1>8. ASSUME NEW k \in 1..Len(segments)
      PROVE  composed[k] = Sql!Appended(composed[k - 1], segments[k], data, type)
  <2>1. k \in 0..Len(segments) /\ k # 0
    BY <1>2
  <2> QED
    BY <1>6, <2>1
<1> QED
  BY <1>7, <1>8 DEF composed

(* What counts the variables of a template up to a segment. *)
VariablesUpTo(segments, k) == Cardinality({j \in 1..k : segments[j].type # "none"})

(* A segment more counts one variable more, if it is one.                  *)
LEMMA VariablesCounted ==
  ASSUME NEW segments
  PROVE  /\ VariablesUpTo(segments, 0) = 0
         /\ \A k \in Nat \ {0} :
              /\ VariablesUpTo(segments, k - 1) \in Nat
              /\ segments[k].type = "none" =>
                   VariablesUpTo(segments, k) = VariablesUpTo(segments, k - 1)
              /\ segments[k].type # "none" =>
                   VariablesUpTo(segments, k) = VariablesUpTo(segments, k - 1) + 1
<1> DEFINE V(k) == {j \in 1..k : segments[j].type # "none"}
<1>1. V(0) = {}
  OBVIOUS
<1>2. ASSUME NEW k \in Nat \ {0}
      PROVE  /\ Cardinality(V(k - 1)) \in Nat
             /\ segments[k].type = "none" => V(k) = V(k - 1)
             /\ segments[k].type # "none" => Cardinality(V(k)) = Cardinality(V(k - 1)) + 1
  <2>1. IsFiniteSet(1..(k - 1))
    BY FS_Interval
  <2>2. IsFiniteSet(V(k - 1))
    BY <2>1, FS_Subset
  <2>3. k \notin V(k - 1)
    OBVIOUS
  <2>4. 1..k = (1..(k - 1)) \union {k}
    OBVIOUS
  <2>5. /\ segments[k].type = "none" => V(k) = V(k - 1)
        /\ segments[k].type # "none" => V(k) = V(k - 1) \union {k}
    BY <2>4
  <2> HIDE DEF V
  <2> QED
    BY <2>2, <2>3, <2>5, FS_AddElement, FS_CardinalityType
<1> HIDE DEF V
<1>3. Cardinality(V(0)) = 0
  BY <1>1, FS_EmptySet
<1> QED
  BY <1>2, <1>3 DEF VariablesUpTo, V

(* The two names Cardinality has here are one operator.                    *)
LEMMA SameCardinality == ASSUME NEW S PROVE Sql!Cardinality(S) = Cardinality(S)
BY DEF Sql!Cardinality, Cardinality

(* The variable of a column is one of a single value.                      *)
LEMMA SingleVariable == \A c, n : ColumnVariable(c, n).type = "single"
BY DEF ColumnVariable, Sql!ColumnVariable

(* The reduction at a variable, and at a text. *)
LEMMA SingleAppended ==
  ASSUME NEW composed, NEW segment, NEW data, NEW type, segment.type = "single"
  PROVE  Sql!Appended(composed, segment, data, type)
           = [sql |-> Append(composed.sql, Sql!Placed(segment, Len(composed.params), type)),
              params |-> Append(composed.params, Sql!GetBindingValue(data, segment))]
BY DEF Sql!Appended

(* A text binds nothing.                                                   *)
LEMMA TextAppended ==
  ASSUME NEW composed, NEW segment, NEW data, NEW type, segment.type = "none"
  PROVE  LET appended == Sql!Appended(composed, segment, data, type)
         IN  DOMAIN appended = DOMAIN composed
             /\ ("params" \in DOMAIN composed => appended.params = composed.params)
BY DEF Sql!Appended

(* Sequences of one and of two elements, and one element more. *)
LEMMA ShortSequences ==
  \A a, b : /\ <<a>> # <<>> /\ Head(<<a>>) = a /\ Sql!Last(<<a>>) = a
            /\ <<a, b>> # <<>> /\ Head(<<a, b>>) = a /\ Sql!Last(<<a, b>>) = b
<1>1. \A a, b : Len(<<a>>) = 1 /\ Len(<<a, b>>) = 2
  OBVIOUS
<1>2. \A a, b : <<a>>[1] = a /\ <<a, b>>[1] = a /\ <<a, b>>[2] = b
  OBVIOUS
<1>3. \A a, b : <<a>> # <<>> /\ Head(<<a>>) = a /\ <<a, b>> # <<>> /\ Head(<<a, b>>) = a
  OBVIOUS
<1> QED
  BY <1>1, <1>2, <1>3 DEF Sql!Last

(* A sequence with one element more, element by element.                   *)
LEMMA AppendAt ==
  ASSUME NEW S, NEW s \in Seq(S), NEW e \in S
  PROVE  Append(s, e) = [n \in 1..(Len(s) + 1) |-> IF n = Len(s) + 1 THEN e ELSE s[n]]
<1> DEFINE t == Append(s, e)
<1>1. t \in Seq(S) /\ Len(t) = Len(s) + 1 /\ Len(s) \in Nat
  OBVIOUS
<1>2. \A n \in 1..(Len(s) + 1) : t[n] = IF n = Len(s) + 1 THEN e ELSE s[n]
  OBVIOUS
<1>3. t = [n \in 1..Len(t) |-> t[n]]
  <2> HIDE DEF t
  <2> QED
    BY <1>1
<1> HIDE DEF t
<1>4. t = [n \in 1..(Len(s) + 1) |-> IF n = Len(s) + 1 THEN e ELSE s[n]]
  BY <1>1, <1>2, <1>3
<1> QED
  BY <1>4 DEF t

(* The parameters composed of a template that has the columns are the      *)
(* values of the item for them, in their order.                            *)
LEMMA ComposedBinds ==
  ASSUME NEW c, Sql!HasVariables(c), NEW data, NEW type
  PROVE  Sql!Composed(Sql!ParseSql(Sql!SqlOf(c)), data, type).params
           = [n \in 1..Len(c.columns) |-> Sql!GetBindingValue(data, ColumnVariable(c, n))]
<1> DEFINE segments == Sql!ParseSql(Sql!SqlOf(c))
           composed == Sql!ComposedUpTo(segments, data, type)
           V(k) == VariablesUpTo(segments, k)
           value(n) == Sql!GetBindingValue(data, ColumnVariable(c, n))
           Bound(k) == /\ {"sql", "params"} \subseteq DOMAIN composed[k]
                       /\ composed[k].params = [n \in 1..V(k) |-> value(n)]
           Unbound == {k \in 0..Len(segments) : ~Bound(k)}
<1>1. /\ segments \in Seq(Sql!ToSet(segments))
      /\ V(Len(segments)) = Len(c.columns)
      /\ \A k \in 1..Len(segments) : segments[k].type # "none" =>
           segments[k] = ColumnVariable(c, V(k))
  BY SameCardinality DEF Sql!HasVariables, VariablesUpTo, ColumnVariable
<1>2. /\ composed[0] = [sql |-> <<>>, params |-> <<>>]
      /\ \A k \in 1..Len(segments) :
           composed[k] = Sql!Appended(composed[k - 1], segments[k], data, type)
  BY <1>1, Composition
<1>3. /\ V(0) = 0
      /\ \A k \in Nat \ {0} :
           /\ V(k - 1) \in Nat
           /\ segments[k].type = "none" => V(k) = V(k - 1)
           /\ segments[k].type # "none" => V(k) = V(k - 1) + 1
  BY VariablesCounted
<1>4. Len(segments) \in Nat
  BY <1>1
<1> HIDE DEF segments, composed, V, value
<1>5. Bound(0)
  <2>1. [n \in 1..0 |-> value(n)] = <<>>
    OBVIOUS
  <2> QED
    BY <1>2, <1>3, <2>1
<1>6. ASSUME NEW k \in 1..Len(segments), Bound(k - 1)
      PROVE  Bound(k)
  <2>1. k \in Nat \ {0}
    BY <1>4
  <2>2. composed[k] = Sql!Appended(composed[k - 1], segments[k], data, type)
    BY <1>2
  <2>3. CASE segments[k].type = "none"
    <3>1. /\ DOMAIN composed[k] = DOMAIN composed[k - 1]
          /\ "params" \in DOMAIN composed[k - 1] => composed[k].params = composed[k - 1].params
      BY <2>2, <2>3, TextAppended
    <3>2. V(k) = V(k - 1)
      BY <1>3, <2>1, <2>3
    <3> QED
      BY <1>6, <3>1, <3>2
  <2>4. CASE segments[k].type # "none"
    <3>1. segments[k] = ColumnVariable(c, V(k)) /\ V(k - 1) \in Nat /\ V(k) = V(k - 1) + 1
      BY <1>1, <1>3, <2>1, <2>4
    <3>2. segments[k].type = "single"
      BY <3>1, SingleVariable
    <3>3. /\ {"sql", "params"} \subseteq DOMAIN composed[k]
          /\ composed[k].params
               = Append(composed[k - 1].params, Sql!GetBindingValue(data, segments[k]))
      BY <2>2, <3>2, SingleAppended
    <3>4. Sql!GetBindingValue(data, segments[k]) = value(V(k))
      BY <3>1 DEF value
    <3> DEFINE before == [n \in 1..V(k - 1) |-> value(n)]
               S == {value(n) : n \in 1..V(k - 1)} \union {value(V(k))}
    <3>5. before \in Seq(S) /\ Len(before) = V(k - 1) /\ value(V(k)) \in S
      BY <3>1
    <3>6. Append(before, value(V(k))) = [n \in 1..V(k) |-> value(n)]
      <4>1. Append(before, value(V(k)))
              = [n \in 1..(Len(before) + 1) |-> IF n = Len(before) + 1 THEN value(V(k)) ELSE before[n]]
        <5> HIDE DEF before, S
        <5> QED
          BY <3>5, AppendAt
      <4> QED
        BY <3>1, <3>5, <4>1
    <3> QED
      BY <1>6, <3>3, <3>4, <3>6
  <2> QED
    BY <2>3, <2>4
<1>7. Unbound = {}
  <2> SUFFICES ASSUME Unbound # {}
               PROVE  FALSE
    OBVIOUS
  <2> HIDE DEF Bound
  <2>0. Unbound \in SUBSET Nat
    BY <1>4
  <2>1. PICK k \in Unbound : \A j \in Unbound : k <= j
    <3> HIDE DEF Unbound
    <3> QED
      BY <2>0, Least
  <2>2. k \in 1..Len(segments) /\ k - 1 \in 0..Len(segments) /\ ~(k <= k - 1)
    BY <1>4, <1>5, <2>1
  <2>3. Bound(k - 1)
    BY <2>1, <2>2
  <2> QED
    BY <1>6, <2>1, <2>2, <2>3
<1>8. Bound(Len(segments))
  BY <1>4, <1>7
<1> QED
  BY <1>1, <1>8 DEF Sql!Composed, composed, segments, value, V

(* What is blank, by the kind of a value.                                  *)
LEMMA BlankByKind ==
  ASSUME NEW value
  PROVE  LET nothing == {[t |-> "null"], [t |-> "text", v |-> ""]}
         IN /\ Sql!Blank(value) <=> value \in nothing
            /\ value = Sql!Null => value \in nothing
            /\ value \in nothing => value.t \in {"null", "text"}
            /\ value.t = "text" /\ value.v # "" => value \notin nothing
            /\ value \in nothing /\ value.t = "text" => value = [t |-> "text", v |-> ""]
<1> DEFINE null == [t |-> "null"]
           empty == [t |-> "text", v |-> ""]
<1>1. null.t = "null" /\ empty.t = "text" /\ empty.v = ""
  OBVIOUS
<1>2. Sql!Null = null /\ (Sql!Blank(value) <=> value = null \/ value = empty)
  BY DEF Sql!Blank, Sql!Null
<1> HIDE DEF null, empty
<1>3. /\ value = null \/ value = empty => value.t \in {"null", "text"}
      /\ value.t = "text" /\ value.v # "" => value # null /\ value # empty
      /\ (value = null \/ value = empty) /\ value.t = "text" => value = empty
  BY <1>1
<1> QED
  BY <1>2, <1>3 DEF null, empty

(* A column gives back what was bound for it, however it is delivered. *)
LEMMA ColumnGivesBack ==
  ASSUME NEW c, Sql!GivesColumns(c), NEW i \in DOMAIN c.items, NEW n \in DOMAIN c.columns,
         NEW delivered \in Sql!Delivered(c.columns[n],
                             Sql!GetBindingValue(c.items[i].data, ColumnVariable(c, n)))
  PROVE  Sql!Beautified(c.columns[n], delivered)
           = GivenBack(c.items[i].data[c.variables[n]], c.columns[n])
<1> DEFINE name == c.variables[n]
           suffix == c.columns[n]
           data == c.items[i].data
           value == data[name]
           bound == Sql!GetBindingValue(data, ColumnVariable(c, n))
<1>1. /\ c.columns \in Seq(Sql!Conversions \union {""})
      /\ name \notin Sql!Conversions /\ name \in DOMAIN data
      /\ value.t # "json" /\ (suffix = ".@json" => value.t # "bool")
      /\ value.t \in {"text", "date"} => value = [t |-> value.t, v |-> value.v]
      /\ value.t = "date" => value.v # ""
  BY DEF Sql!GivesColumns, Sql!Keeps
<1>2. suffix \in {".@json", ".@bool", ".@ts", ""}
  <2>1. \A S : c.columns \in Seq(S) => c.columns[n] \in S
    OBVIOUS
  <2> QED
    BY <1>1, <2>1 DEF Sql!Conversions
<1>3. /\ ColumnVariable(c, n).variable = IF suffix = "" THEN <<name>> ELSE <<name, suffix>>
  BY DEF ColumnVariable, Sql!ColumnVariable
<1> HIDE DEF name, suffix, data
<1>4. /\ Sql!SuffixOf(ColumnVariable(c, n).variable) = suffix
      /\ Sql!ValueOf(data, ColumnVariable(c, n).variable) = value
  <2>1. CASE suffix = ""
    BY <1>1, <1>3, <2>1, ShortSequences DEF Sql!SuffixOf, Sql!ValueOf, Sql!NameOf
  <2>2. CASE suffix # ""
    <3>1. name \in DOMAIN data /\ value = data[name]
      BY <1>1
    <3> QED
      BY <1>2, <1>3, <2>2, <3>1, ShortSequences
       DEF Sql!SuffixOf, Sql!ValueOf, Sql!NameOf, Sql!Conversions
  <2> QED
    BY <2>1, <2>2
<1> HIDE DEF value
<1>5. bound = CASE value = Sql!Null -> Sql!Null
                [] value # Sql!Null /\ suffix = ".@json" ->
                     IF value.t \in {"object", "list", "date"} THEN [t |-> "json", v |-> value]
                     ELSE value
                [] value # Sql!Null /\ suffix = ".@bool" ->
                     [t |-> "number",
                      v |-> IF value \in {[t |-> "bool", v |-> "true"], [t |-> "text", v |-> "1"]}
                              THEN "1" ELSE "0"]
                [] OTHER -> value
  BY <1>4 DEF Sql!GetBindingValue
<1> HIDE DEF bound
<1>6. delivered \in Sql!Delivered(suffix, bound)
  BY DEF bound, suffix, data
<1>7. /\ value.t # "json" /\ (suffix = ".@json" => value.t # "bool")
      /\ value.t \in {"text", "date"} => value = [t |-> value.t, v |-> value.v]
      /\ value.t = "date" => value.v # ""
  BY <1>1 DEF value
<1>8. Sql!Beautified(suffix, delivered) = GivenBack(value, suffix)
  <2>1. CASE suffix = ""
    BY <1>5, <1>6, <2>1 DEF Sql!Beautified, Sql!Delivered, GivenBack
  <2>2. CASE suffix = ".@bool"
    <3>1. CASE value = Sql!Null
      <4>1. delivered = Sql!Null /\ value = [t |-> "null"]
        BY <1>5, <1>6, <2>2, <3>1 DEF Sql!Delivered, Sql!Null
      <4>2. Sql!Blank(delivered)
        BY <4>1 DEF Sql!Blank
      <4>3. Sql!Beautified(suffix, delivered) = [t |-> "bool", v |-> "false"]
        BY <2>2, <4>2, BlankByKind DEF Sql!Beautified
      <4>4. value # [t |-> "bool", v |-> "true"] /\ value # [t |-> "text", v |-> "1"]
        BY <4>1
      <4> QED
        BY <2>2, <4>3, <4>4 DEF GivenBack
    <3>2. CASE value # Sql!Null
      <4> DEFINE b == IF value \in {[t |-> "bool", v |-> "true"], [t |-> "text", v |-> "1"]}
                      THEN "1" ELSE "0"
      <4>1. bound = [t |-> "number", v |-> b]
        BY <1>5, <2>2, <3>2
      <4>2. delivered \in {[t |-> "number", v |-> b], [t |-> "text", v |-> b]}
        BY <1>6, <2>2, <4>1 DEF Sql!Delivered
      <4>3. ~Sql!Blank(delivered)
        <5>1. b \in {"1", "0"}
          OBVIOUS
        <5> HIDE DEF b
        <5>2. delivered.t \in {"number", "text"} /\ delivered.v = b
          BY <4>2
        <5> QED
          BY <5>1, <5>2, BlankByKind
      <4> QED
        BY <2>2, <4>2, <4>3 DEF Sql!Beautified, GivenBack, Sql!Null
    <3> QED
      BY <3>1, <3>2
  <2>3. CASE suffix = ".@json"
    <3>1. CASE value = Sql!Null
      <4>1. delivered = Sql!Null
        BY <1>5, <1>6, <2>3, <3>1 DEF Sql!Delivered, Sql!Null
      <4> QED
        BY <2>3, <3>1, <4>1 DEF Sql!Beautified, Sql!Blank, GivenBack, Sql!Null
    <3>2. CASE value # Sql!Null /\ value.t = "text"
      <4>1. bound = value
        BY <1>5, <2>3, <3>2
      <4>2. delivered = value
        BY <1>6, <2>3, <3>2, <4>1 DEF Sql!Delivered
      <4>3. value = [t |-> "text", v |-> value.v]
        BY <1>7, <3>2
      <4>4. CASE value.v = ""
        <5>1. value = [t |-> "text", v |-> ""] /\ Sql!Blank(delivered)
          BY <4>2, <4>3, <4>4 DEF Sql!Blank
        <5>2. Sql!Beautified(suffix, delivered) = Sql!Null
          BY <2>3, <5>1, BlankByKind DEF Sql!Beautified
        <5>3. GivenBack(value, suffix) = [t |-> "null"]
          BY <2>3, <5>1 DEF GivenBack
        <5> QED
          BY <5>2, <5>3 DEF Sql!Null
      <4>5. CASE value.v # ""
        <5>1. ~Sql!Blank(value) /\ value \notin {[t |-> "null"], [t |-> "text", v |-> ""]}
          BY <3>2, <4>5, BlankByKind
        <5>2. Sql!Beautified(suffix, delivered) = Sql!ParseJson(value)
          BY <2>3, <3>2, <4>2, <5>1 DEF Sql!Beautified
        <5>3. Sql!ParseJson(value)
                = IF value.v \in DOMAIN JsonTexts THEN JsonTexts[value.v] ELSE Sql!Unreadable
          BY <3>2 DEF Sql!ParseJson
        <5>4. GivenBack(value, suffix)
                = IF value.v \in DOMAIN JsonTexts THEN JsonTexts[value.v] ELSE Unreadable
          BY <2>3, <3>2, <4>5, <5>1 DEF GivenBack
        <5> QED
          BY <5>2, <5>3, <5>4 DEF Sql!Unreadable, Unreadable
      <4> QED
        BY <4>4, <4>5
    <3>3. CASE value # Sql!Null /\ value.t \in {"object", "list", "date"}
      <4> DEFINE serialised == [t |-> "json", v |-> value]
      <4>1. bound = serialised
        BY <1>5, <2>3, <3>3
      <4>2. delivered = serialised \/ (delivered = value /\ value.t # "date")
        <5>1. bound.t = "json" /\ bound.v = value
          BY <4>1
        <5> QED
          BY <1>6, <2>3, <4>1, <5>1 DEF Sql!Delivered
      <4>3. GivenBack(value, suffix) = AsText(value)
        <5>1. value \notin {[t |-> "null"], [t |-> "text", v |-> ""]} /\ value.t # "text"
          BY <3>3, BlankByKind
        <5> QED
          BY <2>3, <5>1 DEF GivenBack
      <4>4. CASE delivered = serialised
        <5>1. delivered.t = "json" /\ delivered.v = value
          BY <4>4
        <5>2. ~Sql!Blank(delivered)
          BY <5>1, BlankByKind
        <5>3. Sql!Beautified(suffix, delivered) = Sql!ParseJson(delivered)
          BY <2>3, <5>1, <5>2 DEF Sql!Beautified
        <5>4. Sql!ParseJson(delivered) = Sql!AsText(value)
          BY <5>1 DEF Sql!ParseJson
        <5> QED
          BY <4>3, <5>3, <5>4 DEF AsText, Sql!AsText
      <4>5. CASE delivered = value /\ value.t # "date"
        <5>1. ~Sql!Blank(delivered)
          BY <3>3, <4>5, BlankByKind
        <5>2. Sql!Beautified(suffix, delivered) = value
          BY <2>3, <3>3, <4>5, <5>1 DEF Sql!Beautified
        <5> QED
          BY <4>3, <4>5, <5>2 DEF AsText
      <4> QED
        BY <4>2, <4>4, <4>5
    <3>4. CASE value # Sql!Null /\ value.t \notin {"text", "object", "list", "date"}
      <4>1. bound = value
        BY <1>5, <2>3, <3>4
      <4>2. delivered = value
        BY <1>6, <1>7, <2>3, <4>1 DEF Sql!Delivered
      <4>3. ~Sql!Blank(value) /\ value \notin {[t |-> "null"], [t |-> "text", v |-> ""]}
        <5>1. ~(value = [t |-> "null"])
          BY <3>4 DEF Sql!Null
        <5> QED
          BY <3>4, <5>1, BlankByKind
      <4>4. Sql!Beautified(suffix, delivered) = value
        BY <1>7, <2>3, <3>4, <4>2, <4>3 DEF Sql!Beautified
      <4>5. GivenBack(value, suffix) = AsText(value)
        BY <2>3, <3>4, <4>3 DEF GivenBack
      <4> QED
        BY <3>4, <4>4, <4>5 DEF AsText
    <3> QED
      BY <3>1, <3>2, <3>3, <3>4
  <2>4. CASE suffix = ".@ts"
    <3>1. bound = value
      BY <1>5, <2>4
    <3>2. CASE Sql!Blank(value)
      <4>1. delivered = value
        BY <1>6, <2>4, <3>1, <3>2 DEF Sql!Delivered
      <4> QED
        <5>1. value \in {[t |-> "null"], [t |-> "text", v |-> ""]}
          BY <3>2, BlankByKind
        <5>2. Sql!Beautified(suffix, delivered) = Sql!Null
          BY <2>4, <3>2, <4>1, BlankByKind DEF Sql!Beautified
        <5>3. GivenBack(value, suffix) = [t |-> "null"]
          BY <2>4, <5>1 DEF GivenBack
        <5> QED
          BY <5>2, <5>3 DEF Sql!Null
    <3>3. CASE ~Sql!Blank(value) /\ value.t \in {"text", "date"}
      <4> DEFINE text == [t |-> "text", v |-> value.v]
                 date == [t |-> "date", v |-> value.v]
      <4>1. value \in {text, date}
        BY <1>7, <3>3
      <4>2. delivered \in {text, date}
        BY <1>6, <2>4, <3>1, <3>3, <4>1 DEF Sql!Delivered
      <4>3. /\ text.t = "text" /\ text.v = value.v
            /\ date.t = "date" /\ date.v = value.v
        OBVIOUS
      <4>4. value.v # "" /\ value \notin {[t |-> "null"], [t |-> "text", v |-> ""]}
        <5>1. value.t = "text" /\ value.v = "" => value = [t |-> "text", v |-> ""]
          BY <1>7
        <5> QED
          BY <1>7, <3>3, <5>1, BlankByKind
      <4> HIDE DEF text, date
      <4>5. ~Sql!Blank(text) /\ ~Sql!Blank(date)
        BY <4>3, <4>4, BlankByKind
      <4>6. GivenBack(value, suffix) = text
        <5>1. GivenBack(value, suffix) = AsText(value)
          BY <2>4, <3>3, <4>4 DEF GivenBack
        <5> QED
          BY <1>7, <3>3, <5>1 DEF AsText, text
      <4>7. Sql!Beautified(suffix, text) = text
        BY <2>4, <4>3, <4>5 DEF Sql!Beautified
      <4>8. Sql!Beautified(suffix, date) = text
        BY <2>4, <4>3, <4>5 DEF Sql!Beautified, Sql!AsText, text
      <4> QED
        BY <4>2, <4>6, <4>7, <4>8
    <3>4. CASE ~Sql!Blank(value) /\ value.t \notin {"text", "date"}
      <4>1. delivered = value
        BY <1>6, <2>4, <3>1, <3>4 DEF Sql!Delivered
      <4>2. Sql!Beautified(suffix, delivered) = value
        BY <2>4, <3>4, <4>1 DEF Sql!Beautified
      <4>3. GivenBack(value, suffix) = AsText(value)
        <5>1. value \notin {[t |-> "null"], [t |-> "text", v |-> ""]}
          BY <3>4, BlankByKind
        <5> QED
          BY <2>4, <3>4, <5>1 DEF GivenBack
      <4> QED
        BY <3>4, <4>2, <4>3 DEF AsText
    <3> QED
      BY <3>2, <3>3, <3>4
  <2> QED
    BY <1>2, <2>1, <2>2, <2>3, <2>4
<1> QED
  BY <1>8 DEF value, name, data, suffix
-----------------------------------------------------------------------------
(* The cache of templates, and what is sent. *)

(* The statement of an item, from the template of its call.                *)
StatementOf(c, i) ==
  IF c.items[i].are = "named"
  THEN Sql!Composed(Sql!ParseSql(Sql!SqlOf(c)), c.items[i].data, Steps[c.step].type)
  ELSE [sql |-> Sql!Text(Sql!SqlOf(c)), params |-> c.items[i].data]

(* A statement that is sent is the one of its item, whatever is cached. *)
LEMMA SendsItsStatement ==
  ASSUME StatementsInv, NEW r \in Requests, NEW i, Sql!Send(r, i)
  PROVE  /\ StatementsInv'
         /\ sent' = [sent EXCEPT ![r] = Append(sent[r], StatementOf(call[r], i))]
<1> DEFINE sql == Sql!SqlOf(call[r])
           given == call[r].items[i]
           segments == Sql!SegmentsFor(sql)
<1>1. segments = Sql!ParseSql(sql)
  BY DEF Sql!SegmentsFor, StatementsInv, CacheOfTexts
<1>2. sent' = [sent EXCEPT ![r] = Append(sent[r], StatementOf(call[r], i))]
  BY <1>1 DEF Sql!Send, StatementOf
<1>3. cache' = cache \/ cache' = Sql!Remembered(sql, segments)
  BY DEF Sql!Send
<1>4. CacheOfTexts'
  <2>1. CASE cache' = cache
    BY <2>1 DEF StatementsInv, CacheOfTexts
  <2>2. CASE cache' = [known \in DOMAIN cache \union {sql} |->
                         IF known = sql THEN segments ELSE cache[known]]
    BY <1>1, <2>2 DEF StatementsInv, CacheOfTexts
  <2> QED
    BY <1>3, <2>1, <2>2 DEF Sql!Remembered
<1>5. StatementsTyped'
  <2> DEFINE statement == StatementOf(call[r], i)
  <2>1. DOMAIN sent' = Requests
    BY <1>2 DEF StatementsInv, StatementsTyped
  <2>2. PICK S : sent[r] \in Seq(S)
    BY DEF StatementsInv, StatementsTyped
  <2>3. \A q \in Requests \ {r} : sent'[q] = sent[q]
    BY <1>2 DEF StatementsInv, StatementsTyped
  <2> HIDE DEF statement
  <2>4. Append(sent[r], statement) \in Seq(S \union {statement})
    BY <2>2
  <2>5. sent'[r] = Append(sent[r], statement)
    BY <1>2 DEF StatementsInv, StatementsTyped, statement
  <2>6. \A q \in Requests : \E T : sent'[q] \in Seq(T)
    BY <2>3, <2>4, <2>5 DEF StatementsInv, StatementsTyped
  <2> QED
    BY <2>1, <2>6 DEF StatementsTyped
<1> QED
  BY <1>2, <1>4, <1>5 DEF StatementsInv

(* A step sends the statement of the item its request comes to, or none    *)
(* and then the request has no statement on its way that it had not.       *)
Sends(r) == \E i \in 1..Len(call[r].items) : Sql!Send(r, i) /\ at'[r].item = i
SendsNone(r) == UNCHANGED <<cache, call, sent>> /\ (at' = at \/ at'[r].pc # "sent")

(* Every step sends one statement or none. *)
LEMMA StepSends ==
  ASSUME SqlIInv, NEW r \in Requests,
         Sql!Perform(r) \/ Sql!Saved(r) \/ Sql!Loaded(r) \/ Sql!Rejected(r) \/ Sql!EndOfSets(r)
  PROVE  Sends(r) \/ SendsNone(r)
<1>1. SqlTypeOK /\ CallsTyped /\ Len(call[r].items) \in Nat
  BY DEF SqlIInv, SqlTypeOK, CallsTyped
<1>2. CASE Sql!Perform(r)
  <2>1. CASE /\ call[r].items # <<>> /\ Sql!Send(r, 1)
             /\ at' = [at EXCEPT ![r].pc = "sent", ![r].item = 1]
    <3>1. 1 \in 1..Len(call[r].items)
      BY <1>1, <2>1 DEF CallsTyped
    <3>2. Moved(r, "sent", 1, at[r].result)
      BY <2>1 DEF Moved
    <3>3. at'[r] = [pc |-> "sent", item |-> 1, result |-> at[r].result]
      BY <1>1, <3>2, MovesAlone
    <3> QED
      BY <2>1, <3>1, <3>3 DEF Sends
  <2>2. CASE at' = [at EXCEPT ![r].pc = "returned"] \/ at' = [at EXCEPT ![r].pc = "failed"]
    <3>1. at'[r].pc # "sent"
      BY <1>1, <2>2 DEF SqlTypeOK
    <3> QED
      BY <1>2, <2>1, <3>1 DEF Sql!Perform, SendsNone
  <2> QED
    BY <1>2, <2>1, <2>2 DEF Sql!Perform
<1>3. CASE Sql!Saved(r)
  <2> DEFINE n == at[r].item
  <2>1. CASE n < Len(call[r].items)
    <3>1. /\ Sql!Send(r, n + 1)
          /\ at' = [at EXCEPT ![r].item = n + 1, ![r].result = Append(@, <<r, n>>)]
      BY <1>3, <2>1 DEF Sql!Saved, Sql!NextItem
    <3>2. SavedSoFar(r)
      BY <1>1, <1>3 DEF SqlIInv, CallsTyped, Sql!Saved
    <3>3. n + 1 \in 1..Len(call[r].items)
      BY <1>1, <2>1, <3>2 DEF SavedSoFar
    <3>4. PICK result : Moved(r, at[r].pc, n + 1, result)
      BY <3>1 DEF Moved
    <3>5. at'[r] = [pc |-> at[r].pc, item |-> n + 1, result |-> result]
      BY <1>1, <3>4, MovesAlone
    <3> QED
      BY <3>1, <3>3, <3>5 DEF Sends
  <2>2. CASE ~(n < Len(call[r].items))
    <3>1. /\ at' = [at EXCEPT ![r].pc = "returned", ![r].result = Append(@, <<r, n>>)]
          /\ UNCHANGED <<cache, call, sent>>
      BY <1>3, <2>2 DEF Sql!Saved, Sql!NextItem
    <3>2. at'[r].pc # "sent"
      BY <1>1, <3>1 DEF SqlTypeOK
    <3> QED
      BY <3>1, <3>2 DEF SendsNone
  <2> QED
    BY <2>1, <2>2
<1>4. CASE Sql!Loaded(r) \/ Sql!Rejected(r)
  <2>1. at'[r].pc # "sent"
    <3>1. \/ at' = [at EXCEPT ![r].pc = "returned"]
          \/ \E result : at' = [at EXCEPT ![r].pc = "returned", ![r].result = result]
          \/ at' = [at EXCEPT ![r].pc = "failed"]
      BY <1>4 DEF Sql!Loaded, Sql!Rejected
    <3> QED
      BY <1>1, <3>1 DEF SqlTypeOK
  <2> QED
    BY <1>4, <2>1 DEF Sql!Loaded, Sql!Rejected, SendsNone
<1>5. CASE Sql!EndOfSets(r)
  BY <1>5 DEF Sql!EndOfSets, SendsNone
<1> QED
  BY <1>2, <1>3, <1>4, <1>5

(* The cache is empty and nothing is sent at the start.                    *)
LEMMA StatementsInitially == Sql!Init => StatementsInv
<1> SUFFICES ASSUME Sql!Init
             PROVE  StatementsInv
  OBVIOUS
<1>1. DOMAIN cache = {} /\ sent = [q \in Requests |-> <<>>]
  BY DEF Sql!Init
<1>2. <<>> \in Seq({})
  OBVIOUS
<1> QED
  BY <1>1, <1>2 DEF StatementsInv, CacheOfTexts, StatementsTyped

(* A step that sends nothing leaves the cache and the statements.          *)
LEMMA StatementsStay == StatementsInv /\ UNCHANGED <<cache, sent>> => StatementsInv'
BY DEF StatementsInv, CacheOfTexts, StatementsTyped

(* The cache holds what parsing its texts gives, at every step.            *)
LEMMA StatementsInvariance ==
  ASSUME SqlIInv, StatementsInv, [Sql!Next]_Sql!vars
  PROVE  StatementsInv'
<1>1. ASSUME NEW r \in Requests,
             Sql!Perform(r) \/ Sql!Saved(r) \/ Sql!Loaded(r) \/ Sql!Rejected(r) \/ Sql!EndOfSets(r)
      PROVE  StatementsInv'
  <2>1. CASE Sends(r)
    BY <2>1, SendsItsStatement DEF Sends
  <2>2. CASE SendsNone(r)
    BY <2>2, StatementsStay DEF SendsNone
  <2> QED
    BY <1>1, <2>1, <2>2, StepSends
<1>2. CASE UNCHANGED Sql!vars
  BY <1>2, StatementsStay DEF Sql!vars
<1> QED
  BY <1>1, <1>2 DEF Sql!Next

SendsNothingElse ==
  \A q \in Requests : sent'[q] # sent[q] =>
    sent'[q] = Append(sent[q], StatementOf(call[q], at'[q].item))

(* A statement that is sent is the one of the item its request has come    *)
(* to, composed from the template of its own call, whatever other requests *)
(* and steps have put into the cache of templates (parseSql, getSql).      *)
THEOREM EachStatementOfItsTemplate ==
  ASSUME Sql!CallsAssumption
  PROVE  Sql!Spec => [][SendsNothingElse]_Sql!vars
<1>1. Sql!Init => SqlIInv /\ StatementsInv
  BY SqlInitially, StatementsInitially
<1>2. SqlIInv /\ StatementsInv /\ [Sql!Next]_Sql!vars => (SqlIInv /\ StatementsInv)'
  BY SqlInvariance, StatementsInvariance
<1>3. ASSUME SqlIInv, StatementsInv, Sql!Next
      PROVE  SendsNothingElse
  <2>1. PICK r \in Requests :
          Sql!Perform(r) \/ Sql!Saved(r) \/ Sql!Loaded(r) \/ Sql!Rejected(r) \/ Sql!EndOfSets(r)
    BY <1>3 DEF Sql!Next
  <2>2. CASE SendsNone(r)
    BY <2>2 DEF SendsNothingElse, SendsNone
  <2>3. CASE Sends(r)
    <3>1. PICK i \in 1..Len(call[r].items) : Sql!Send(r, i) /\ at'[r].item = i
      BY <2>3 DEF Sends
    <3>2. sent' = [sent EXCEPT ![r] = Append(sent[r], StatementOf(call[r], i))]
      BY <1>3, <3>1, SendsItsStatement
    <3> QED
      BY <1>3, <3>1, <3>2 DEF SendsNothingElse, StatementsInv, StatementsTyped
  <2> QED
    BY <1>3, <2>1, <2>2, <2>3, StepSends
<1> QED
  BY <1>1, <1>2, <1>3, PTL DEF Sql!Spec
-----------------------------------------------------------------------------
(* Loaded rows.  What of a call stays as it is while getSql pushes a null  *)
(* into its empty lists: all but the values no column is named for.        *)
SameColumns(c, d) ==
  /\ {"step", "sql", "kind", "items", "columns", "variables"} \subseteq DOMAIN d
  /\ d.step = c.step /\ d.sql = c.sql /\ d.kind = c.kind
  /\ d.columns = c.columns /\ d.variables = c.variables
  /\ DOMAIN d.items = DOMAIN c.items /\ Len(d.items) = Len(c.items)
  /\ c.kind = "save" /\ c.columns # <<>> =>
       \A i \in DOMAIN c.items :
         /\ {"are", "data"} \subseteq DOMAIN d.items[i] /\ d.items[i].are = c.items[i].are
         /\ \A n \in DOMAIN c.columns :
              /\ c.variables[n] \in DOMAIN d.items[i].data
              /\ d.items[i].data[c.variables[n]] = c.items[i].data[c.variables[n]]

Columned(c) ==
  /\ {"step", "sql", "kind", "items", "columns", "variables"} \subseteq DOMAIN c
  /\ c.kind = "save" /\ c.columns # <<>> => Sql!HasVariables(c) /\ Sql!GivesColumns(c)

(* A call that is left alone keeps all its values.                         *)
LEMMA SameAsItself == ASSUME NEW c, Columned(c) PROVE SameColumns(c, c)
BY DEF SameColumns, Columned, Sql!GivesColumns

(* What its columns need of a call, they have of what becomes of it.       *)
LEMMA SameStaysColumned ==
  ASSUME NEW c, NEW d, Columned(c), SameColumns(c, d)
  PROVE  Columned(d)
<1>1. c.kind = "save" /\ c.columns # <<>> => Sql!HasVariables(d)
  BY DEF Columned, SameColumns, Sql!HasVariables, Sql!SqlOf
<1>2. ASSUME c.kind = "save", c.columns # <<>>
      PROVE  Sql!GivesColumns(d)
  <2>1. /\ d.columns = c.columns /\ d.variables = c.variables /\ DOMAIN d.items = DOMAIN c.items
        /\ \A i \in DOMAIN c.items :
             /\ {"are", "data"} \subseteq DOMAIN d.items[i] /\ d.items[i].are = c.items[i].are
             /\ \A n \in DOMAIN c.columns :
                  /\ c.variables[n] \in DOMAIN d.items[i].data
                  /\ d.items[i].data[c.variables[n]] = c.items[i].data[c.variables[n]]
    BY <1>2 DEF SameColumns
  <2>2. Sql!GivesColumns(c)
    BY <1>2 DEF Columned
  <2>3. /\ d.columns \in Seq(Sql!Conversions \union {""})
        /\ \A n \in DOMAIN d.columns : d.variables[n] \notin Sql!Conversions
    BY <2>1, <2>2 DEF Sql!GivesColumns
  <2>4. ASSUME NEW i \in DOMAIN d.items
        PROVE  /\ {"are", "data"} \subseteq DOMAIN d.items[i] /\ d.items[i].are = "named"
               /\ \A n \in DOMAIN d.columns :
                    /\ d.variables[n] \in DOMAIN d.items[i].data
                    /\ Sql!Keeps(d.columns[n], d.items[i].data[d.variables[n]])
    <3>1. i \in DOMAIN c.items
      BY <2>1
    <3>2. /\ c.items[i].are = "named"
          /\ \A n \in DOMAIN c.columns : Sql!Keeps(c.columns[n], c.items[i].data[c.variables[n]])
      BY <2>2, <3>1 DEF Sql!GivesColumns
    <3> QED
      BY <2>1, <3>1, <3>2
  <2> QED
    BY <2>3, <2>4 DEF Sql!GivesColumns
<1> QED
  BY <1>1, <1>2 DEF Columned, SameColumns

(* What is bound for a column depends on the value of its variable alone. *)
LEMMA SameBound ==
  ASSUME NEW c, NEW d, Columned(c), SameColumns(c, d), c.kind = "save", c.columns # <<>>,
         NEW i \in DOMAIN c.items, NEW params, BoundTo(c, i, params)
  PROVE  BoundTo(d, i, params)
<1> SUFFICES ASSUME NEW n \in 1..Len(c.columns)
             PROVE  Sql!GetBindingValue(d.items[i].data, ColumnVariable(d, n))
                      = Sql!GetBindingValue(c.items[i].data, ColumnVariable(c, n))
  BY DEF BoundTo, SameColumns
<1>1. /\ n \in DOMAIN c.columns /\ c.variables[n] \in DOMAIN c.items[i].data
      /\ c.variables[n] \in DOMAIN d.items[i].data
      /\ d.items[i].data[c.variables[n]] = c.items[i].data[c.variables[n]]
  <2>1. Sql!GivesColumns(c)
    BY DEF Columned
  <2>2. n \in DOMAIN c.columns
    <3>1. c.columns \in Seq(Sql!Conversions \union {""})
      BY <2>1 DEF Sql!GivesColumns
    <3>2. \A S : \A s \in Seq(S) : DOMAIN s = 1..Len(s)
      OBVIOUS
    <3> QED
      BY <3>1, <3>2, Zenon
  <2>3. c.variables[n] \in DOMAIN c.items[i].data
    BY <2>1, <2>2 DEF Sql!GivesColumns
  <2> QED
    BY <2>2, <2>3 DEF SameColumns
<1>2. ColumnVariable(d, n) = ColumnVariable(c, n)
  BY DEF ColumnVariable, SameColumns
<1> DEFINE segment == ColumnVariable(c, n)
<1>3. segment.variable # <<>> /\ Head(segment.variable) = c.variables[n]
  BY ShortSequences DEF ColumnVariable, Sql!ColumnVariable
<1> HIDE DEF segment
<1>4. Sql!ValueOf(d.items[i].data, segment.variable) = Sql!ValueOf(c.items[i].data, segment.variable)
  BY <1>1, <1>3 DEF Sql!ValueOf, Sql!NameOf
<1>5. Sql!GetBindingValue(d.items[i].data, segment) = Sql!GetBindingValue(c.items[i].data, segment)
  BY <1>4, Zenon DEF Sql!GetBindingValue
<1> QED
  BY <1>2, <1>5 DEF segment

(* The template of a save with columns has no list, and gets none.         *)
LEMMA PushedNothing ==
  ASSUME NEW c, Sql!HasVariables(c), NEW data
  PROVE  LET pushed == Sql!Pushed(Sql!ParseSql(Sql!SqlOf(c)), data)
         IN  DOMAIN pushed = DOMAIN data /\ \A name \in DOMAIN data : pushed[name] = data[name]
<1> DEFINE segments == Sql!ParseSql(Sql!SqlOf(c))
<1>1. \A k \in 1..Len(segments) : segments[k].type # "one-of"
  <2> TAKE k \in 1..Len(segments)
  <2>1. CASE segments[k].type = "none"
    BY <2>1
  <2>2. CASE segments[k].type # "none"
    <3>1. \E n : segments[k] = ColumnVariable(c, n)
      BY <2>2 DEF Sql!HasVariables, ColumnVariable
    <3> QED
      BY <3>1, SingleVariable
  <2> QED
    BY <2>1, <2>2
<1> HIDE DEF segments
<1>2. Sql!Pushed(segments, data) = [name \in DOMAIN data |-> data[name]]
  BY <1>1 DEF Sql!Pushed
<1> QED
  BY <1>2 DEF segments

(* Sending leaves every value a column is named for.                       *)
LEMMA SendKeepsColumns ==
  ASSUME SqlIInv, StatementsInv, CallsColumned, NEW r \in Requests,
         NEW i \in 1..Len(call[r].items), Sql!Send(r, i)
  PROVE  \A q \in Requests : SameColumns(call[q], call'[q])
<1>1. /\ CallsTyped /\ CallsTyped'
      /\ \A q \in Requests : Columned(call[q]) /\ CallKept(q)
  BY SendKeepsCalls DEF SqlIInv, SqlTypeOK, CallsTyped, CallsColumned, Columned, HasTypedRows
<1>2. CASE UNCHANGED call
  BY <1>1, <1>2, SameAsItself
<1>3. CASE call[r].items[i].are = "named"
  <2> DEFINE c == call[r]
             d == call'[r]
             data == c.items[i].data
             pushed == Sql!Pushed(Sql!ParseSql(Sql!SqlOf(c)), data)
  <2>1. call' = [call EXCEPT ![r].items[i].data = pushed]
    BY <1>3 DEF Sql!Send, Sql!SegmentsFor, StatementsInv, CacheOfTexts
  <2> HIDE DEF pushed
  <2>2. \A q \in Requests \ {r} : call'[q] = call[q]
    BY <1>1, <2>1 DEF CallsTyped
  <2>3. d = [c EXCEPT !.items = [c.items EXCEPT ![i] = [c.items[i] EXCEPT !.data = pushed]]]
    BY <1>1, <2>1 DEF CallsTyped
  <2>4. Columned(c) /\ Len(d.items) = Len(c.items) /\ i \in DOMAIN c.items
    BY <1>1 DEF CallKept, CallsTyped
  <2> HIDE DEF c, d
  <2>5. /\ DOMAIN d = DOMAIN c
        /\ d.step = c.step /\ d.sql = c.sql /\ d.kind = c.kind
        /\ d.columns = c.columns /\ d.variables = c.variables
        /\ d.items = [c.items EXCEPT ![i] = [c.items[i] EXCEPT !.data = pushed]]
    BY <2>3, <2>4 DEF Columned
  <2>6. ASSUME c.kind = "save", c.columns # <<>>, NEW j \in DOMAIN c.items
        PROVE  /\ {"are", "data"} \subseteq DOMAIN d.items[j] /\ d.items[j].are = c.items[j].are
               /\ \A n \in DOMAIN c.columns :
                    /\ c.variables[n] \in DOMAIN d.items[j].data
                    /\ d.items[j].data[c.variables[n]] = c.items[j].data[c.variables[n]]
    <3>1. /\ Sql!HasVariables(c)
          /\ {"are", "data"} \subseteq DOMAIN c.items[j]
          /\ \A n \in DOMAIN c.columns : c.variables[n] \in DOMAIN c.items[j].data
      BY <2>4, <2>6 DEF Columned, Sql!GivesColumns
    <3>2. CASE j # i
      BY <2>5, <3>1, <3>2
    <3>3. CASE j = i
      <4>1. d.items[j] = [c.items[j] EXCEPT !.data = pushed]
        BY <2>4, <2>5, <3>3
      <4>2. d.items[j].data = pushed /\ DOMAIN d.items[j] = DOMAIN c.items[j]
            /\ d.items[j].are = c.items[j].are
        BY <3>1, <4>1
      <4>3. DOMAIN pushed = DOMAIN c.items[j].data
            /\ \A name \in DOMAIN c.items[j].data : pushed[name] = c.items[j].data[name]
        BY <3>1, <3>3, PushedNothing DEF pushed, data
      <4> QED
        BY <3>1, <4>2, <4>3
    <3> QED
      BY <3>2, <3>3
  <2>7. SameColumns(c, d)
    BY <2>4, <2>5, <2>6 DEF SameColumns, Columned
  <2> QED
    BY <1>1, <2>2, <2>7, SameAsItself DEF c, d
<1> QED
  BY <1>2, <1>3 DEF Sql!Send

(* What of a row, a load or a statement on its way a step that leaves the  *)
(* rows, the result or the statement alone keeps.                          *)
LEMMA RowsStay ==
  ASSUME CallsColumned, SqlTypeOK, \A q \in Requests : SameColumns(call[q], call'[q])
  PROVE  /\ CallsColumned'
         /\ \A row : RowBound(row) => RowBound(row)'
         /\ \A q \in Requests : LoadedOf(q) /\ ResultKept(q) => LoadedOf(q)'
         /\ \A q \in Requests : SentBound(q) /\ at'[q] = at[q] /\ sent'[q] = sent[q]
              => SentBound(q)'
<1>1. \A q \in Requests : Columned(call[q]) /\ \E S : call[q].items \in Seq(S)
  BY DEF SqlTypeOK, CallsTyped, CallsColumned, Columned, HasTypedRows
<1>2. \A q \in Requests : Columned(call'[q])
  BY <1>1, SameStaysColumned
<1>3. CallsColumned'
  BY <1>2 DEF Columned, CallsColumned, HasTypedRows
<1>4. ASSUME NEW q \in Requests, HasTypedRows(q), NEW i \in 1..Len(call[q].items), NEW params,
             BoundTo(call[q], i, params)
      PROVE  BoundTo(call'[q], i, params)
  <2>1. i \in DOMAIN call[q].items
    BY <1>1
  <2> QED
    BY <1>1, <1>4, <2>1, SameBound DEF HasTypedRows
<1>5. ASSUME NEW row, RowBound(row)
      PROVE  RowBound(row)'
  <2>1. /\ row.by \in Requests /\ call[row.by].kind = "save"
        /\ row.item \in 1..Len(call[row.by].items)
        /\ SameColumns(call[row.by], call'[row.by])
    BY <1>5 DEF RowBound
  <2>2. /\ call'[row.by].kind = "save" /\ row.item \in 1..Len(call'[row.by].items)
        /\ call'[row.by].columns = call[row.by].columns
    BY <2>1 DEF SameColumns
  <2>3. ASSUME call[row.by].columns # <<>>
        PROVE  BoundTo(call'[row.by], row.item, row.bound)
    BY <1>4, <1>5, <2>1, <2>3 DEF RowBound, HasTypedRows
  <2> QED
    BY <2>1, <2>2, <2>3 DEF RowBound
<1>6. ASSUME NEW q \in Requests, LoadedOf(q), ResultKept(q)
      PROVE  LoadedOf(q)'
  <2>1. /\ call'[q].kind = call[q].kind /\ call'[q].columns = call[q].columns
    BY DEF SameColumns
  <2> SUFFICES ASSUME call[q].kind = "load", at[q].result # <<>>
               PROVE  \E by \in Requests : \E i \in 1..Len(call'[by].items) : HasLoaded(q, by, i)'
    BY <1>6, <2>1 DEF LoadedOf, ResultKept
  <2>2. PICK by \in Requests : \E j \in 1..Len(call[by].items) : HasLoaded(q, by, j)
    BY <1>6 DEF LoadedOf
  <2>3. PICK i \in 1..Len(call[by].items) : HasLoaded(q, by, i)
    BY <2>2
  <2>4. SameColumns(call[by], call'[by]) /\ i \in DOMAIN call[by].items
    BY <1>1
  <2>5. call[by].kind = "save" /\ call[by].columns = call[q].columns
    BY <2>3 DEF HasLoaded
  <2>6. /\ call'[by].kind = "save" /\ call'[by].columns = call'[q].columns
        /\ call'[by].variables = call[by].variables
        /\ i \in 1..Len(call'[by].items)
    BY <2>1, <2>4, <2>5 DEF SameColumns
  <2>7. \A n \in DOMAIN call[q].columns :
          call'[by].items[i].data[call[by].variables[n]] = call[by].items[i].data[call[by].variables[n]]
    <3>1. CASE call[q].columns = <<>>
      BY <3>1
    <3>2. CASE call[q].columns # <<>>
      BY <2>4, <2>5, <3>2 DEF SameColumns
    <3> QED
      BY <3>1, <3>2
  <2>8. at'[q].result = at[q].result /\ at'[q].pc = at[q].pc
    BY <1>6 DEF ResultKept
  <2>9. \A n \in DOMAIN call[q].columns :
          GivenOf(call'[by], i, n, call'[q].columns[n]) = GivenOf(call[by], i, n, call[q].columns[n])
    BY <2>1, <2>6, <2>7 DEF GivenOf
  <2>10. HasLoaded(q, by, i)'
    BY <2>3, <2>1, <2>6, <2>8, <2>9 DEF HasLoaded
  <2> QED
    BY <2>6, <2>10
<1>7. ASSUME NEW q \in Requests, SentBound(q), at'[q] = at[q], sent'[q] = sent[q]
      PROVE  SentBound(q)'
  <2> SUFFICES ASSUME HasTypedRows(q)', at[q].pc = "sent"
               PROVE  /\ at[q].item \in 1..Len(call'[q].items)
                      /\ BoundTo(call'[q], at[q].item, Sql!Last(sent[q]).params)
    <3>1. at'[q].pc = at[q].pc /\ at'[q].item = at[q].item
      BY <1>7
    <3>2. Sql!Last(sent'[q]).params = Sql!Last(sent[q]).params
      BY <1>7
    <3> QED
      BY <3>1, <3>2 DEF SentBound
  <2>1. HasTypedRows(q) /\ Len(call'[q].items) = Len(call[q].items)
    BY DEF HasTypedRows, SameColumns
  <2> QED
    BY <1>4, <1>7, <2>1 DEF SentBound
<1> QED
  BY <1>3, <1>5, <1>6, <1>7

(* A step of a request sends what is bound for its item, leaves the calls  *)
(* as far as rows are made of them, and leaves what others have.           *)
LEMMA StepBinds ==
  ASSUME SqlIInv, StatementsInv, RowsInv, NEW r \in Requests, OthersKept(r),
         Sql!Perform(r) \/ Sql!Saved(r) \/ Sql!Loaded(r) \/ Sql!Rejected(r) \/ Sql!EndOfSets(r)
  PROVE  /\ CallsColumned'
         /\ \A row : RowBound(row) => RowBound(row)'
         /\ \A q \in Requests : SentBound(q)'
         /\ \A q \in Requests : ResultKept(q) => LoadedOf(q)'
         /\ call'[r].kind = call[r].kind
<1>1. SqlTypeOK /\ CallsColumned /\ \A q \in Requests : SentBound(q) /\ LoadedOf(q)
  BY DEF SqlIInv, RowsInv
<1>2. Sends(r) \/ SendsNone(r)
  BY StepSends
<1>3. \A q \in Requests : Columned(call[q])
  BY <1>1 DEF SqlTypeOK, CallsTyped, CallsColumned, Columned, HasTypedRows
<1>4. \A q \in Requests : SameColumns(call[q], call'[q])
  <2>1. CASE Sends(r)
    BY <1>1, <2>1, SendKeepsColumns DEF Sends
  <2>2. CASE SendsNone(r)
    BY <1>3, <2>2, SameAsItself DEF SendsNone
  <2> QED
    BY <1>2, <2>1, <2>2
<1>5. /\ CallsColumned'
      /\ \A row : RowBound(row) => RowBound(row)'
      /\ \A q \in Requests : LoadedOf(q) /\ ResultKept(q) => LoadedOf(q)'
      /\ \A q \in Requests : SentBound(q) /\ at'[q] = at[q] /\ sent'[q] = sent[q]
           => SentBound(q)'
  BY <1>1, <1>4, RowsStay
<1>6. ASSUME Sends(r)
      PROVE  \A q \in Requests : SentBound(q)'
  <2>1. PICK i \in 1..Len(call[r].items) : Sql!Send(r, i) /\ at'[r].item = i
    BY <1>6 DEF Sends
  <2>2. sent' = [sent EXCEPT ![r] = Append(sent[r], StatementOf(call[r], i))]
    BY <2>1, SendsItsStatement
  <2>3. DOMAIN sent = Requests /\ \E S : sent[r] \in Seq(S)
    BY DEF StatementsInv, StatementsTyped
  <2>4. ASSUME HasTypedRows(r)
        PROVE  BoundTo(call'[r], i, Sql!Last(sent'[r]).params)
    <3>1. SameColumns(call[r], call'[r]) /\ Columned(call[r]) /\ i \in DOMAIN call[r].items
      BY <1>1, <1>3, <1>4 DEF SqlTypeOK, CallsTyped
    <3>2. Sql!HasVariables(call[r]) /\ Sql!GivesColumns(call[r])
      BY <2>4, <3>1 DEF Columned, HasTypedRows
    <3>3. call[r].items[i].are = "named"
      BY <3>1, <3>2 DEF Sql!GivesColumns
    <3> DEFINE statement == StatementOf(call[r], i)
    <3>4. Sql!Last(sent'[r]) = statement
      <4> HIDE DEF statement
      <4>1. sent'[r] = Append(sent[r], statement)
        BY <2>2, <2>3 DEF statement
      <4>2. \A S : \A s \in Seq(S) : \A e : Append(s, e)[Len(Append(s, e))] = e
        OBVIOUS
      <4> QED
        BY <2>3, <4>1, <4>2 DEF Sql!Last
    <3>5. statement.params
            = [n \in 1..Len(call[r].columns) |->
                 Sql!GetBindingValue(call[r].items[i].data, ColumnVariable(call[r], n))]
      BY <3>2, <3>3, ComposedBinds DEF StatementOf
    <3> HIDE DEF statement
    <3>6. BoundTo(call[r], i, statement.params)
      BY <3>5 DEF BoundTo
    <3> QED
      BY <2>4, <3>1, <3>4, <3>6, SameBound DEF HasTypedRows
  <2>5. SentBound(r)'
    <3>1. HasTypedRows(r)' => HasTypedRows(r)
      BY <1>4 DEF HasTypedRows, SameColumns
    <3>2. i \in 1..Len(call'[r].items)
      BY <1>4 DEF SameColumns
    <3> QED
      BY <2>1, <2>4, <3>1, <3>2 DEF SentBound
  <2>6. \A q \in Requests \ {r} : SentBound(q)'
    BY <1>1, <1>5, <2>2, <2>3 DEF OthersKept
  <2> QED
    BY <2>5, <2>6
<1>7. ASSUME SendsNone(r)
      PROVE  \A q \in Requests : SentBound(q)'
  <2>1. CASE at'[r].pc # "sent"
    BY <2>1, <1>1, <1>5, <1>7 DEF SendsNone, OthersKept, SentBound
  <2>2. CASE at' = at
    BY <2>2, <1>1, <1>5, <1>7 DEF SendsNone
  <2> QED
    BY <1>7, <2>1, <2>2 DEF SendsNone
<1> QED
  BY <1>1, <1>2, <1>4, <1>5, <1>6, <1>7 DEF SameColumns

(* The row a load finds gives back what its item was given. *)
LEMMA LoadGivesBack ==
  ASSUME SqlIInv, RowsInv, NEW r \in Requests, Sql!Loaded(r), at'[r].result # at[r].result
  PROVE  LoadedOf(r)'
<1> DEFINE Read(data) == [k \in DOMAIN data |-> Sql!Beautified(call[r].columns[k], data[k])]
           Ending(read) == IF \E k \in DOMAIN read : read[k] = Sql!Unreadable
                           THEN "failed" ELSE "returned"
<1>1. SqlTypeOK /\ CallsColumned /\ UNCHANGED call
  BY DEF SqlIInv, RowsInv, Sql!Loaded
<1>2. PICK row \in durable :
        /\ call[row.by].columns = call[r].columns
        /\ \E data : /\ DOMAIN data = DOMAIN call[r].columns
                     /\ \A k \in DOMAIN data :
                          data[k] \in Sql!Delivered(call[r].columns[k], row.bound[k])
                     /\ at' = [at EXCEPT ![r].pc = Ending(Read(data)),
                                         ![r].result = <<<<row.by, row.item>>, Read(data)>>]
  <2>1. at' # [at EXCEPT ![r].pc = "returned"]
    BY <1>1 DEF SqlTypeOK
  <2> QED
    BY <2>1 DEF Sql!Loaded
<1>3. PICK data :
        /\ DOMAIN data = DOMAIN call[r].columns
        /\ \A k \in DOMAIN data : data[k] \in Sql!Delivered(call[r].columns[k], row.bound[k])
        /\ at' = [at EXCEPT ![r].pc = Ending(Read(data)),
                            ![r].result = <<<<row.by, row.item>>, Read(data)>>]
  BY <1>2
<1> DEFINE c == call[row.by]
           values == Read(data)
           given == [n \in DOMAIN call[r].columns |->
                       GivenOf(c, row.item, n, call[r].columns[n])]
<1>4. at'[r].result = <<<<row.by, row.item>>, values>> /\ at'[r].pc = Ending(values)
  <2> HIDE DEF values
  <2>1. at' = [at EXCEPT ![r].pc = Ending(values), ![r].result = <<<<row.by, row.item>>, values>>]
    BY <1>3 DEF values
  <2> HIDE DEF Ending
  <2> QED
    BY <1>1, <2>1 DEF SqlTypeOK
<1>5. /\ row.by \in Requests /\ c.kind = "save" /\ row.item \in 1..Len(c.items)
      /\ c.columns # <<>> => BoundTo(c, row.item, row.bound)
      /\ c.columns = call[r].columns
  BY <1>2 DEF RowsInv, RowBound
<1>6. ASSUME NEW n \in DOMAIN call[r].columns
      PROVE  values[n] = given[n]
  <2>1. c.columns # <<>>
    BY <1>5, <1>6
  <2>2. Sql!GivesColumns(c) /\ row.item \in DOMAIN c.items
    BY <1>1, <1>5, <2>1 DEF CallsColumned, HasTypedRows, SqlTypeOK, CallsTyped
  <2>3. n \in DOMAIN c.columns /\ n \in 1..Len(c.columns)
    <3>1. c.columns \in Seq(Sql!Conversions \union {""})
      BY <2>2 DEF Sql!GivesColumns
    <3>2. \A S : \A s \in Seq(S) : DOMAIN s = 1..Len(s)
      OBVIOUS
    <3>3. n \in DOMAIN c.columns
      BY <1>5, <1>6
    <3> QED
      BY <3>1, <3>2, <3>3, Zenon
  <2>4. row.bound[n] = Sql!GetBindingValue(c.items[row.item].data, ColumnVariable(c, n))
    BY <1>5, <2>1, <2>3 DEF BoundTo
  <2>5. data[n] \in Sql!Delivered(c.columns[n],
                       Sql!GetBindingValue(c.items[row.item].data, ColumnVariable(c, n)))
    BY <1>3, <1>5, <2>4
  <2>6. Sql!Beautified(c.columns[n], data[n])
          = GivenBack(c.items[row.item].data[c.variables[n]], c.columns[n])
    <3> HIDE DEF c
    <3> QED
      BY <2>2, <2>3, <2>5, ColumnGivesBack
  <2> QED
    BY <1>3, <1>5, <2>6 DEF GivenOf
<1>7. values = given
  BY <1>3, <1>6
<1>8. Ending(given)
        = IF \E n \in DOMAIN call[r].columns : GivenOf(c, row.item, n, call[r].columns[n]) = Unreadable
          THEN "failed" ELSE "returned"
  BY DEF Unreadable, Sql!Unreadable
<1>9. HasLoaded(r, row.by, row.item)'
  <2> HIDE DEF Ending, Read
  <2> QED
    BY <1>1, <1>4, <1>5, <1>7, <1>8 DEF HasLoaded
<1> QED
  BY <1>1, <1>5, <1>9 DEF LoadedOf

(* What a save writes is bound for its item. *)
LEMMA SavedRowBound ==
  ASSUME SqlIInv, RowsInv, NEW r \in Requests, Sql!Saved(r)
  PROVE  RowBound(Sql!Row(r))
<1>1. /\ at[r].pc = "sent" /\ call[r].kind = "save" /\ CallsTyped
      /\ Len(call[r].items) \in Nat
  BY DEF SqlIInv, SqlTypeOK, CallsTyped, Sql!Saved
<1>2. at[r].item \in 1..Len(call[r].items)
  <2>1. SavedSoFar(r)
    BY <1>1 DEF SqlIInv
  <2>2. at[r].item \in 0..Len(call[r].items) /\ at[r].item > 0
    BY <1>1, <2>1 DEF SavedSoFar
  <2> QED
    BY <1>1, <2>2
<1>3. call[r].columns # <<>> => BoundTo(call[r], at[r].item, Sql!Last(sent[r]).params)
  BY <1>1 DEF RowsInv, SentBound, HasTypedRows
<1> DEFINE row == Sql!Row(r)
<1>4. row.by = r /\ row.item = at[r].item /\ row.bound = Sql!Last(sent[r]).params
  BY DEF Sql!Row
<1> HIDE DEF row
<1>5. RowBound(row)
  BY <1>1, <1>2, <1>3, <1>4 DEF RowBound
<1> QED
  BY <1>5 DEF row

Written(row) == row \in durable \/ \E q \in Requests : row \in pending[q]

(* Every row that is written is an old one or the row of a save. *)
LEMMA StepWrites ==
  ASSUME SqlIInv, NEW r \in Requests, OthersKept(r),
         Sql!Perform(r) \/ Sql!Saved(r) \/ Sql!Loaded(r) \/ Sql!Rejected(r) \/ Sql!EndOfSets(r)
  PROVE  \A row : Written(row)' => Written(row) \/ (Sql!Saved(r) /\ row = Sql!Row(r))
<1>1. DOMAIN pending = Requests /\ \A q \in Requests \ {r} : pending'[q] = pending[q]
  BY DEF SqlIInv, SqlTypeOK, OthersKept
<1>2. CASE Sql!Perform(r) \/ Sql!Loaded(r) \/ Sql!Rejected(r)
  BY <1>2 DEF Sql!Perform, Sql!Loaded, Sql!Rejected, Written
<1>3. CASE Sql!EndOfSets(r)
  <2>1. durable' \subseteq durable \union pending[r] /\ pending'[r] = {}
    BY <1>1, <1>3 DEF Sql!EndOfSets
  <2> QED
    BY <1>1, <2>1 DEF Written
<1>4. CASE Sql!Saved(r)
  <2> DEFINE written == Sql!Row(r)
  <2>1. \/ pending' = [pending EXCEPT ![r] = @ \union {written}] /\ durable' = durable
        \/ durable' = durable \union {written} /\ pending' = pending
    BY <1>4 DEF Sql!Saved, Sql!Write
  <2> HIDE DEF written
  <2>2. \A row : Written(row)' => Written(row) \/ row = written
    BY <1>1, <2>1 DEF Written
  <2> QED
    BY <1>4, <2>2 DEF written
<1> QED
  BY <1>2, <1>3, <1>4

(* The invariant, with the committed and the pending rows together.        *)
LEMMA RowsInvByRows ==
  RowsInv <=> /\ CallsColumned
              /\ \A q \in Requests : SentBound(q) /\ LoadedOf(q)
              /\ \A row : Written(row) => RowBound(row)
BY DEF RowsInv, Written

(* Every step keeps what is known of the rows.                             *)
LEMMA RowsInvariance ==
  ASSUME SqlIInv, StatementsInv, RowsInv, [Sql!Next]_Sql!vars
  PROVE  RowsInv'
<1>1. ASSUME NEW r \in Requests,
             Sql!Perform(r) \/ Sql!Saved(r) \/ Sql!Loaded(r) \/ Sql!Rejected(r) \/ Sql!EndOfSets(r)
      PROVE  RowsInv'
  <2>1. OthersKept(r)
    BY <1>1, PerformAdvances, SavedAdvances, LoadedAdvances, RejectedAdvances, EndOfSetsAdvances
       DEF Advances
  <2>2. /\ CallsColumned'
        /\ \A row : RowBound(row) => RowBound(row)'
        /\ \A q \in Requests : SentBound(q)'
        /\ \A q \in Requests : ResultKept(q) => LoadedOf(q)'
        /\ call'[r].kind = call[r].kind
    BY <1>1, <2>1, StepBinds
  <2>3. \A row : Written(row)' => RowBound(row)'
    BY <1>1, <2>1, <2>2, StepWrites, SavedRowBound, RowsInvByRows
  <2>4. ASSUME NEW q \in Requests
        PROVE  LoadedOf(q)'
    <3>1. CASE ResultKept(q)
      BY <2>2, <3>1
    <3>2. CASE at'[q].result # at[q].result
      <4>1. q = r
        BY <2>1, <3>2 DEF OthersKept
      <4>2. CASE Sql!Loaded(r)
        BY <3>2, <4>1, <4>2, LoadGivesBack
      <4>3. CASE Sql!Saved(r)
        <5>1. call[r].kind = "save"
          BY <4>3 DEF Sql!Saved, SqlIInv, SqlTypeOK, CallsTyped
        <5> QED
          BY <2>2, <4>1, <5>1 DEF LoadedOf
      <4>4. CASE Sql!Perform(r) \/ Sql!Rejected(r) \/ Sql!EndOfSets(r)
        <5>1. at' = at \/ (\E to : at' = [at EXCEPT ![r].pc = to])
                       \/ (\E to : at' = [at EXCEPT ![r].pc = to, ![r].item = 1])
          BY <4>4 DEF Sql!Perform, Sql!Rejected, Sql!EndOfSets
        <5>2. at'[r].result = at[r].result
          BY <5>1 DEF SqlIInv, SqlTypeOK
        <5> QED
          BY <3>2, <4>1, <5>2
      <4> QED
        BY <1>1, <4>2, <4>3, <4>4
    <3>3. CASE at'[q].result = at[q].result /\ at[q].result # <<>> /\ at'[q].pc # at[q].pc
      <4>1. q = r
        BY <2>1, <3>3 DEF OthersKept
      <4>2. call[r].kind # "load"
        <5>1. at[r].pc \in {"new", "sent"}
          BY <1>1, <3>3, <4>1
             DEF Sql!Perform, Sql!Saved, Sql!Loaded, Sql!Rejected, Sql!EndOfSets
        <5>2. call[r].kind = "load" => at[r].pc \in {"failed", "returned"}
          BY <3>3, <4>1 DEF RowsInv, LoadedOf, HasLoaded
        <5> QED
          BY <5>1, <5>2
      <4> QED
        BY <2>2, <4>1, <4>2 DEF LoadedOf
    <3> QED
      BY <3>1, <3>2, <3>3 DEF ResultKept
  <2>5. /\ CallsColumned'
        /\ \A q \in Requests : SentBound(q)' /\ LoadedOf(q)'
        /\ \A row : Written(row)' => RowBound(row)'
    BY <2>2, <2>3, <2>4
  <2> QED
    BY <2>5 DEF RowsInv, Written
<1>2. CASE UNCHANGED Sql!vars
  <2>1. UNCHANGED <<call, at, sent, pending, durable>>
    BY <1>2 DEF Sql!vars
  <2> QED
    BY <2>1 DEF RowsInv, CallsColumned, HasTypedRows, SentBound, LoadedOf, HasLoaded, GivenOf,
               RowBound, BoundTo
<1> QED
  BY <1>1, <1>2 DEF Sql!Next

(* There are no rows at the start.                                         *)
LEMMA RowsInitially == ASSUME Sql!CallsAssumption, Sql!ColumnsAssumption, Sql!Init PROVE RowsInv
<1>1. /\ call \in [Requests -> Calls] /\ durable = {}
      /\ pending = [q \in Requests |-> {}]
      /\ at = [q \in Requests |-> [pc |-> "new", item |-> 0, result |-> <<>>]]
  BY DEF Sql!Init
<1>2. CallsColumned
  BY <1>1 DEF CallsColumned, HasTypedRows, Sql!CallsAssumption, Sql!ColumnsAssumption
<1>3. \A q \in Requests : at[q].pc = "new" /\ at[q].result = <<>> /\ pending[q] = {}
  BY <1>1
<1> QED
  BY <1>1, <1>2, <1>3 DEF RowsInv, SentBound, LoadedOf

(* A load that found a row through columns named with .@json, .@bool and   *)
(* .@ts returns what the save with the same suffixes was given for it, as  *)
(* such a column gives it back, and fails exactly if a text was saved for  *)
(* .@json that is no JSON: whichever texts are JSON, whichever way the     *)
(* driver hands over booleans, timestamps and JSON, for any templates of   *)
(* the saves that have the columns in their order, any values the columns  *)
(* can keep, and any interleaving of saves, failures, commits and loads    *)
(* (getBindingValue, beautify).                                            *)
THEOREM AlwaysLoadedAsSaved ==
  ASSUME Sql!CallsAssumption, Sql!ColumnsAssumption
  PROVE  Sql!Spec => []LoadedAsSaved
<1>1. Sql!Init => SqlIInv /\ StatementsInv /\ RowsInv
  BY SqlInitially, StatementsInitially, RowsInitially
<1>2. SqlIInv /\ StatementsInv /\ RowsInv /\ [Sql!Next]_Sql!vars
        => (SqlIInv /\ StatementsInv /\ RowsInv)'
  BY SqlInvariance, StatementsInvariance, RowsInvariance
<1>3. RowsInv => LoadedAsSaved
  <2> SUFFICES ASSUME RowsInv, NEW r \in Requests, call[r].kind = "load", at[r].result # <<>>
               PROVE  LET row == at[r].result[1]
                          saved == call[row[1]]
                          given(n) == GivenOf(saved, row[2], n, call[r].columns[n])
                      IN /\ at[r].result[2] = [n \in DOMAIN call[r].columns |-> given(n)]
                         /\ at[r].pc = IF \E n \in DOMAIN call[r].columns : given(n) = Unreadable
                                         THEN "failed" ELSE "returned"
    BY DEF LoadedAsSaved, GivenOf
  <2>1. PICK by \in Requests : \E i \in 1..Len(call[by].items) : HasLoaded(r, by, i)
    BY DEF RowsInv, LoadedOf
  <2>2. PICK i \in 1..Len(call[by].items) : HasLoaded(r, by, i)
    BY <2>1
  <2> DEFINE given == [n \in DOMAIN call[r].columns |-> GivenOf(call[by], i, n, call[r].columns[n])]
  <2>3. at[r].result = <<<<by, i>>, given>>
    BY <2>2 DEF HasLoaded
  <2>4. at[r].pc = IF \E n \in DOMAIN call[r].columns :
                        GivenOf(call[by], i, n, call[r].columns[n]) = Unreadable
                    THEN "failed" ELSE "returned"
    BY <2>2 DEF HasLoaded
  <2> HIDE DEF given
  <2>5. at[r].result[1][1] = by /\ at[r].result[1][2] = i /\ at[r].result[2] = given
    BY <2>3
  <2> QED
    BY <2>4, <2>5 DEF given
<1> QED
  BY <1>1, <1>2, <1>3, PTL DEF Sql!Spec
=============================================================================
