-------------------------- MODULE SchedulerProofs --------------------------
(***************************************************************************)
(* The safety properties of Scheduler for any number of instances, codes,  *)
(* cron jobs and rounds.                                                   *)
(*                                                                         *)
(* Beside the types, the inductive invariant says that a registered job    *)
(* ticks and is registered once (Places), that a tick has a job, whose     *)
(* code no longer changes (Begun), that a tick that was let through holds  *)
(* the lock of its round (Locked), and what the log holds in each phase    *)
(* (Logged).                                                               *)
(***************************************************************************)
EXTENDS Scheduler, TLAPS

Places ==
  \A i \in Instances, c \in Codes : registry[i][c] # None =>
    cronJobs[registry[i][c]] = [state |-> "ticking", at |-> i, code |-> c]

Begun ==
  /\ \A j \in CronJobs : cronJobs[j].state # "unused" => cronJobs[j].code \in Codes
  /\ \A t \in Ticks : tick[t].phase # "idle" => cronJobs[t[1]].state # "unused"

Locked ==
  \A t \in Ticks :
    Performs(t) /\ NeedsLock(CodeOf(t)) => holder[RoundOf(t)] = t

Logged ==
  \A t \in Ticks :
    /\ tick[t].phase \in {"idle", "locking", "creating", "ignored", "rejected"} =>
         tick[t].outcome = None /\ written[t] = <<>>
    /\ tick[t].phase = "running" =>
         /\ tick[t].outcome = None
         /\ written[t] = <<>>
         /\ service.persistJobLog => t \in opened
    /\ tick[t].phase = "writing" =>
         /\ written[t] = <<>>
         /\ t \in opened
         /\ tick[t].result \in Verdicts
         /\ TrueOf(tick[t].result, tick[t].outcome)
    /\ tick[t].phase = "ended" /\ written[t] # <<>> =>
         /\ Len(written[t]) = 1
         /\ t \in opened
         /\ TrueOf(written[t][1], tick[t].outcome)

USE BoundAssumption, NoneAssumption

IInv == TypeOK /\ Places /\ Begun /\ Locked /\ Logged

(* A tick that changes its state changes no other. *)
LEMMA TickMoves ==
  ASSUME TypeOK, NEW t \in Ticks, NEW r \in TickStates, tick' = [tick EXCEPT ![t] = r]
  PROVE  /\ tick' \in [Ticks -> TickStates]
         /\ tick'[t] = r
         /\ \A u \in Ticks : u # t => tick'[u] = tick[u]
  BY DEF TypeOK

(* A tick state with another phase, and what else a step writes into it. *)
LEMMA Moved ==
  ASSUME NEW r \in TickStates, NEW p \in Phases
  PROVE  LET m == [r EXCEPT !.phase = p]
         IN  /\ m \in TickStates
             /\ m.phase = p /\ m.lock = r.lock
             /\ m.outcome = r.outcome /\ m.result = r.result
  BY DEF TickStates

(* A cron job is added. *)
LEMMA Adds ==
  ASSUME IInv, NEW i \in Instances, NEW c \in Codes, NEW j \in CronJobs, AddCronJob(i, c, j)
  PROVE  IInv'
<1>1. cronJobs[j].state = "unused"
  <2>1. (CHOOSE k \in Unused : TRUE) \in Unused
    BY DEF AddCronJob
  <2> QED
    BY <2>1 DEF AddCronJob, Unused
<1>2. TypeOK'
  BY DEF AddCronJob, IInv, TypeOK
<1>3. \A t \in Ticks : tick[t].phase # "idle" =>
        t[1] # j /\ CodeOf(t)' = CodeOf(t) /\ RoundOf(t)' = RoundOf(t)
  BY <1>1 DEF AddCronJob, IInv, TypeOK, Begun, CodeOf, RoundOf, Ticks
<1>4. Places'
  <2> SUFFICES ASSUME NEW x \in Instances, NEW y \in Codes, registry'[x][y] # None
               PROVE  cronJobs'[registry'[x][y]] = [state |-> "ticking", at |-> x, code |-> y]
    BY DEF Places
  <2>1. CASE registry[x][y] # None
    <3>1. registry'[x][y] = registry[x][y] /\ registry[x][y] \in CronJobs
      BY <2>1 DEF AddCronJob, IInv, TypeOK
    <3>2. registry[x][y] # j
      <4>1. cronJobs[registry[x][y]] = [state |-> "ticking", at |-> x, code |-> y]
        BY <2>1 DEF IInv, Places
      <4>2. cronJobs[registry[x][y]].state = "ticking"
        BY <4>1
      <4> QED
        BY <1>1, <4>2
    <3>3. cronJobs'[registry[x][y]] = cronJobs[registry[x][y]]
      BY <3>1, <3>2 DEF AddCronJob, IInv, TypeOK
    <3> QED
      BY <2>1, <3>1, <3>3 DEF IInv, Places
  <2>2. CASE registry[x][y] = None
    <3>1. registry'[x][y] = IF x = i /\ y = c THEN j ELSE None
      BY <2>2 DEF AddCronJob, IInv, TypeOK
    <3>2. x = i /\ y = c /\ registry'[x][y] = j
      BY <3>1
    <3>3. cronJobs'[j] = [state |-> "ticking", at |-> i, code |-> c]
      BY DEF AddCronJob, IInv, TypeOK
    <3> QED
      BY <3>2, <3>3
  <2> QED
    BY <2>1, <2>2
<1>5. Begun'
  BY <1>1, <1>3 DEF AddCronJob, IInv, TypeOK, Begun, Ticks
<1>6. Locked'
  BY <1>3 DEF AddCronJob, IInv, Locked, Performs, NeedsLock
<1>7. Logged'
  BY DEF AddCronJob, IInv, Logged
<1> QED
  BY <1>2, <1>4, <1>5, <1>6, <1>7 DEF IInv

(* A cron job is deleted. *)
LEMMA Deletes ==
  ASSUME IInv, NEW i \in Instances, NEW c \in Codes, DeleteCronJob(i, c)
  PROVE  IInv'
<1> DEFINE j == registry[i][c]
<1>1. j \in CronJobs /\ cronJobs[j] = [state |-> "ticking", at |-> i, code |-> c]
  BY DEF DeleteCronJob, IInv, TypeOK, Places
<1>2. TypeOK'
  BY DEF DeleteCronJob, StopRegistered, IInv, TypeOK
<1>3. \A k \in CronJobs : /\ cronJobs'[k].code = cronJobs[k].code
                          /\ cronJobs'[k].state = "unused" <=> cronJobs[k].state = "unused"
                          /\ k # j => cronJobs'[k] = cronJobs[k]
  BY <1>1 DEF DeleteCronJob, StopRegistered, IInv, TypeOK
<1>4. Places'
  <2> SUFFICES ASSUME NEW x \in Instances, NEW y \in Codes, registry'[x][y] # None
               PROVE  cronJobs'[registry'[x][y]] = [state |-> "ticking", at |-> x, code |-> y]
    BY DEF Places
  <2>1. ~(x = i /\ y = c) /\ registry'[x][y] = registry[x][y] /\ registry[x][y] \in CronJobs
    BY DEF DeleteCronJob, IInv, TypeOK
  <2>2. cronJobs[registry[x][y]] = [state |-> "ticking", at |-> x, code |-> y]
    BY <2>1 DEF IInv, Places
  <2>3. registry[x][y] # j
    BY <1>1, <2>1, <2>2
  <2> QED
    BY <1>3, <2>1, <2>2, <2>3
<1>5. Begun'
  BY <1>3 DEF DeleteCronJob, IInv, Begun, Ticks
<1>6. Locked'
  BY <1>3 DEF DeleteCronJob, IInv, Locked, Performs, NeedsLock, CodeOf, RoundOf, Ticks
<1>7. Logged'
  BY DEF DeleteCronJob, IInv, Logged
<1> QED
  BY <1>2, <1>4, <1>5, <1>6, <1>7 DEF IInv

(* What holds of every step of a tick that leaves the jobs alone: only what *)
(* the step does to its own tick has to be looked at.                      *)
LEMMA Steps ==
  ASSUME IInv, NEW t \in Ticks, NEW r \in TickStates, tick' = [tick EXCEPT ![t] = r],
         UNCHANGED <<service, cronJobs, registry>>, r.phase # "idle",
         cronJobs[t[1]].state # "unused"
  PROVE  Places' /\ Begun' /\ tick' \in [Ticks -> TickStates] /\ tick'[t] = r
         /\ \A u \in Ticks : u # t => tick'[u] = tick[u]
<1>1. /\ tick' \in [Ticks -> TickStates]
      /\ tick'[t] = r
      /\ \A u \in Ticks : u # t => tick'[u] = tick[u]
  BY TickMoves DEF IInv
<1>2. Places'
  BY DEF IInv, Places
<1>3. Begun'
  BY <1>1 DEF IInv, Begun
<1> QED
  BY <1>1, <1>2, <1>3

(* A cron job ticks. *)
LEMMA Begins ==
  ASSUME IInv, NEW t \in Ticks, Tick(t)
  PROVE  IInv'
<1> DEFINE p == IF NeedsLock(CodeOf(t)) THEN "locking" ELSE AfterLock
           r == [tick[t] EXCEPT !.phase = p]
<1>1. p \in {"locking", "creating", "running"} /\ p \in Phases
  BY DEF AfterLock, Phases
<1>2. tick[t] \in TickStates
  BY DEF IInv, TypeOK
<1>3. /\ r \in TickStates /\ r.phase = p /\ r.outcome = tick[t].outcome
      /\ tick' = [tick EXCEPT ![t] = r]
  BY <1>1, <1>2, Moved DEF Tick
<1> HIDE DEF r
<1>4. Places' /\ Begun' /\ tick' \in [Ticks -> TickStates] /\ tick'[t] = r
      /\ \A u \in Ticks : u # t => tick'[u] = tick[u]
  BY <1>1, <1>3, Steps DEF Tick
<1>5. TypeOK'
  BY <1>4 DEF Tick, IInv, TypeOK
<1>6. Locked'
  BY <1>3, <1>4 DEF Tick, IInv, Locked, Performs, NeedsLock, CodeOf, RoundOf, AfterLock
<1>7. Logged'
  BY <1>1, <1>3, <1>4 DEF Tick, IInv, Logged, AfterLock
<1> QED
  BY <1>4, <1>5, <1>6, <1>7 DEF IInv

(* The lock pipeline answers. *)
LEMMA Locks ==
  ASSUME IInv, NEW t \in Ticks, ObtainClusterExecutionLock(t)
  PROVE  IInv'
<1>1. PICK answer \in LockAnswers :
        /\ LockPipeline(t, answer)
        /\ tick' = [tick EXCEPT ![t] =
                      IF Obtained(answer) THEN [tick[t] EXCEPT !.phase = AfterLock]
                      ELSE [tick[t] EXCEPT !.phase = "ignored", !.lock = answer]]
  BY DEF ObtainClusterExecutionLock
<1> DEFINE r == IF Obtained(answer) THEN [tick[t] EXCEPT !.phase = AfterLock]
                ELSE [tick[t] EXCEPT !.phase = "ignored", !.lock = answer]
<1>2. tick[t] \in TickStates
  BY DEF IInv, TypeOK
<1>3. /\ r \in TickStates
      /\ r.phase = IF Obtained(answer) THEN AfterLock ELSE "ignored"
      /\ r.outcome = tick[t].outcome
  <2>1. CASE Obtained(answer)
    <3>1. AfterLock \in Phases
      BY DEF AfterLock, Phases
    <3> QED
      BY <1>2, <2>1, <3>1, Moved
  <2>2. CASE ~Obtained(answer)
    BY <1>2, <2>2 DEF TickStates, Phases
  <2> QED
    BY <2>1, <2>2
<1>4. tick' = [tick EXCEPT ![t] = r]
  BY <1>1
<1> HIDE DEF r
<1>5. Places' /\ Begun' /\ tick' \in [Ticks -> TickStates] /\ tick'[t] = r
      /\ \A u \in Ticks : u # t => tick'[u] = tick[u]
  BY <1>3, <1>4, Steps DEF ObtainClusterExecutionLock, AfterLock, IInv, Begun
<1>6. RoundOf(t) \in Codes \X Rounds
  BY DEF ObtainClusterExecutionLock, IInv, Begun, RoundOf, CodeOf, Ticks
<1>7. /\ holder' \in [Codes \X Rounds -> Ticks \union {NoTick}]
      /\ \A x \in Codes \X Rounds :
           holder'[x] = holder[x] \/ (x = RoundOf(t) /\ holder[x] = NoTick)
      /\ Obtained(answer) => holder'[RoundOf(t)] = t
  BY <1>1, <1>6 DEF LockPipeline, Obtained, IInv, TypeOK
<1>8. TypeOK'
  BY <1>5, <1>7 DEF ObtainClusterExecutionLock, IInv, TypeOK
<1>9. Locked'
  <2> SUFFICES ASSUME NEW u \in Ticks, Performs(u)', NeedsLock(CodeOf(u))'
               PROVE  holder'[RoundOf(u)'] = u
    BY DEF Locked
  <2>1. RoundOf(u)' = RoundOf(u)
    BY DEF ObtainClusterExecutionLock, RoundOf, CodeOf
  <2>2. CASE u = t
    BY <1>3, <1>5, <1>7, <2>1, <2>2 DEF Performs
  <2>3. CASE u # t
    <3>1. Performs(u) /\ NeedsLock(CodeOf(u))
      BY <1>5, <2>3 DEF ObtainClusterExecutionLock, Performs, NeedsLock, CodeOf
    <3>2. holder[RoundOf(u)] = u /\ RoundOf(u) \in Codes \X Rounds /\ u # NoTick
      BY <3>1 DEF IInv, Locked, Begun, Performs, RoundOf, CodeOf, Ticks, Rounds, NoTick
    <3> QED
      BY <1>7, <2>1, <3>2
  <2> QED
    BY <2>2, <2>3
<1>10. Logged'
  BY <1>3, <1>5 DEF ObtainClusterExecutionLock, AfterLock, IInv, Logged
<1> QED
  BY <1>5, <1>8, <1>9, <1>10 DEF IInv

(* The job log pipeline opens the entry, or fails. *)
LEMMA Creates ==
  ASSUME IInv, NEW t \in Ticks, CreateJob(t)
  PROVE  IInv'
<1>1. PICK p \in {"running", "rejected"} :
        /\ tick' = [tick EXCEPT ![t].phase = p]
        /\ p = "running" => opened' = opened \union {t}
        /\ opened' \in {opened, opened \union {t}}
  BY DEF CreateJob
<1> DEFINE r == [tick[t] EXCEPT !.phase = p]
<1>2. p \in Phases /\ tick[t] \in TickStates
  BY DEF Phases, IInv, TypeOK
<1>3. /\ r \in TickStates /\ r.phase = p /\ r.outcome = tick[t].outcome
      /\ tick' = [tick EXCEPT ![t] = r]
  BY <1>1, <1>2, Moved
<1> HIDE DEF r
<1>4. Places' /\ Begun' /\ tick' \in [Ticks -> TickStates] /\ tick'[t] = r
      /\ \A u \in Ticks : u # t => tick'[u] = tick[u]
  BY <1>1, <1>3, Steps DEF CreateJob, IInv, Begun
<1>5. TypeOK'
  BY <1>1, <1>4 DEF CreateJob, IInv, TypeOK
<1>6. Locked'
  BY <1>3, <1>4 DEF CreateJob, IInv, Locked, Performs, NeedsLock, CodeOf, RoundOf
<1>7. Logged'
  BY <1>1, <1>3, <1>4 DEF CreateJob, IInv, Logged
<1> QED
  BY <1>4, <1>5, <1>6, <1>7 DEF IInv

(* The pipeline of the job ends. *)
LEMMA PerformsJob ==
  ASSUME IInv, NEW t \in Ticks, PerformJob(t)
  PROVE  IInv'
<1>1. PICK outcome \in Outcomes :
        tick' = [tick EXCEPT ![t] =
          IF service.persistJobLog /\ ResultOf(outcome) # None
          THEN [tick[t] EXCEPT !.phase = "writing", !.outcome = outcome,
                               !.result = ResultOf(outcome)]
          ELSE [tick[t] EXCEPT !.phase = "ended", !.outcome = outcome]]
  BY DEF PerformJob
<1> DEFINE result == ResultOf(outcome)
           r == IF service.persistJobLog /\ result # None
                THEN [tick[t] EXCEPT !.phase = "writing", !.outcome = outcome, !.result = result]
                ELSE [tick[t] EXCEPT !.phase = "ended", !.outcome = outcome]
<1>2. tick' = [tick EXCEPT ![t] = r]
  BY <1>1
<1>3. /\ result \in Verdicts \union {None}
      /\ result # None => TrueOf(result, outcome)
  BY DEF ResultOf, TrueOf, Outcomes, Verdicts, None
<1> HIDE DEF result
<1>4. tick[t] \in TickStates
  BY DEF IInv, TypeOK
<1>5. /\ r \in TickStates
      /\ \/ /\ r.phase = "writing" /\ r.outcome = outcome /\ r.result = result
            /\ service.persistJobLog /\ result # None
         \/ r.phase = "ended"
  BY <1>3, <1>4 DEF TickStates, Phases
<1> HIDE DEF r
<1>7. Places' /\ Begun' /\ tick' \in [Ticks -> TickStates] /\ tick'[t] = r
      /\ \A u \in Ticks : u # t => tick'[u] = tick[u]
  BY <1>2, <1>5, Steps DEF PerformJob, IInv, Begun
<1>8. TypeOK'
  BY <1>7 DEF PerformJob, IInv, TypeOK
<1>9. Locked'
  BY <1>5, <1>7 DEF PerformJob, IInv, Locked, Performs, NeedsLock, CodeOf, RoundOf
<1>10. Logged'
  <2>1. /\ tick[t].phase = "running" /\ written[t] = <<>>
        /\ service.persistJobLog => t \in opened
        /\ UNCHANGED <<service, opened, written>>
    BY DEF PerformJob, IInv, Logged
  <2>2. CASE r.phase = "writing"
    <3>1. /\ t \in opened /\ r.result \in Verdicts
          /\ TrueOf(r.result, r.outcome)
      BY <1>3, <1>5, <2>1, <2>2
    <3> QED
      BY <1>7, <2>1, <2>2, <3>1 DEF IInv, Logged
  <2>3. CASE r.phase = "ended"
    BY <1>7, <2>1, <2>3 DEF IInv, Logged
  <2> QED
    BY <1>5, <2>2, <2>3
<1> QED
  BY <1>7, <1>8, <1>9, <1>10 DEF IInv

(* The job log pipeline writes the result, or fails. *)
LEMMA Writes ==
  ASSUME IInv, NEW t \in Ticks, WriteJobResult(t)
  PROVE  IInv'
<1> DEFINE r == Ended(t)
<1>1. /\ tick' = [tick EXCEPT ![t] = r]
      /\ written' \in {written, [written EXCEPT ![t] = Append(written[t], tick[t].result)]}
  BY DEF WriteJobResult, Swallowed
<1>2. tick[t] \in TickStates
  BY DEF IInv, TypeOK
<1>3. r \in TickStates /\ r.phase = "ended" /\ r.outcome = tick[t].outcome
  BY <1>2 DEF Ended, TickStates, Phases
<1>4. /\ written[t] = <<>> /\ t \in opened /\ tick[t].result \in Verdicts
      /\ TrueOf(tick[t].result, tick[t].outcome)
  BY DEF WriteJobResult, IInv, Logged
<1>5. /\ written' \in [Ticks -> Seq(Verdicts)]
      /\ written'[t] \in {<<>>, <<tick[t].result>>}
      /\ \A u \in Ticks : u # t => written'[u] = written[u]
  <2>1. Append(written[t], tick[t].result) = <<tick[t].result>>
    BY <1>4
  <2>2. <<tick[t].result>> \in Seq(Verdicts)
    BY <1>4
  <2>3. written \in [Ticks -> Seq(Verdicts)]
    BY DEF IInv, TypeOK
  <2>4. CASE written' = written
    BY <1>4, <2>3, <2>4
  <2>5. CASE written' = [written EXCEPT ![t] = <<tick[t].result>>]
    BY <2>2, <2>3, <2>5
  <2> QED
    BY <1>1, <2>1, <2>4, <2>5
<1> HIDE DEF r
<1>6. Places' /\ Begun' /\ tick' \in [Ticks -> TickStates] /\ tick'[t] = r
      /\ \A u \in Ticks : u # t => tick'[u] = tick[u]
  BY <1>1, <1>3, Steps DEF WriteJobResult, IInv, Begun
<1>7. TypeOK'
  BY <1>5, <1>6 DEF WriteJobResult, IInv, TypeOK
<1>8. Locked'
  BY <1>3, <1>6 DEF WriteJobResult, IInv, Locked, Performs, NeedsLock, CodeOf, RoundOf
<1>9. Logged'
  BY <1>3, <1>4, <1>5, <1>6 DEF WriteJobResult, IInv, Logged
<1> QED
  BY <1>6, <1>7, <1>8, <1>9 DEF IInv
-----------------------------------------------------------------------------
LEMMA Inductive == IInv /\ [Next]_vars => IInv'
<1> SUFFICES ASSUME IInv, [Next]_vars PROVE IInv'
  OBVIOUS
<1>1. CASE NextRound
  BY <1>1 DEF NextRound, IInv, TypeOK, Places, Begun, Locked, Logged, Performs, NeedsLock,
              CodeOf, RoundOf
<1>2. CASE UNCHANGED vars
  BY <1>2 DEF vars, IInv, TypeOK, Places, Begun, Locked, Logged, Performs, NeedsLock,
              CodeOf, RoundOf
<1> QED
  BY <1>1, <1>2, Adds, Deletes, Begins, Locks, Creates, PerformsJob, Writes DEF Next, OnTick

LEMMA Initial == Init => IInv
  BY DEF Init, IInv, TypeOK, Places, Begun, Locked, Logged, Performs, Ticks, Rounds, TickStates,
         NoTick, None, Phases, LockAnswers, Outcomes, Verdicts

LEMMA Invariant == Spec => []IInv
  BY Initial, Inductive, PTL DEF Spec

(* The variables keep their types (every handler of ScheduleService). *)
THEOREM Typed == Spec => []TypeOK
<1>1. IInv => TypeOK
  BY DEF IInv
<1> QED
  BY <1>1, Invariant, PTL

(* A job that needs the lock is performed once in a round, for any number  *)
(* of instances and cron jobs.                                             *)
THEOREM RunsOnce == Spec => []OneRunPerRound
<1>1. IInv => OneRunPerRound
  BY DEF IInv, Locked, OneRunPerRound, RoundOf, CodeOf
<1> QED
  BY <1>1, Invariant, PTL

(* The log has at most one result for a tick, and the right one. *)
THEOREM TellsWhatHappened == Spec => []LogTellsWhatHappened
<1>1. IInv => LogTellsWhatHappened
  <2> SUFFICES ASSUME IInv, NEW t \in Ticks, written[t] # <<>>
               PROVE  /\ Len(written[t]) = 1
                      /\ t \in opened
                      /\ TrueOf(written[t][1], tick[t].outcome)
    BY DEF LogTellsWhatHappened
  <2>1. tick[t].phase = "ended"
    BY DEF IInv, Logged, TypeOK, TickStates, Phases
  <2> QED
    BY <2>1 DEF IInv, Logged
<1> QED
  BY <1>1, Invariant, PTL

(* A registered job leaves the registry exactly when it is stopped. *)
THEOREM LeavesStopped == Spec => StopsWithItsEntry
<1>1. IInv /\ [Next]_vars =>
        [\A j \in CronJobs : Registered(j) =>
           (Registered(j)' <=> cronJobs'[j].state = "ticking")]_vars
  <2> SUFFICES ASSUME IInv, Next, NEW j \in CronJobs, Registered(j)
               PROVE  Registered(j)' <=> cronJobs'[j].state = "ticking"
    BY DEF vars
  <2>1. PICK x \in Instances, y \in Codes :
          registry[x][y] = j /\ cronJobs[j] = [state |-> "ticking", at |-> x, code |-> y]
    BY DEF IInv, Places, Registered
  <2>2. cronJobs[j].state = "ticking" /\ cronJobs[j].at = x /\ cronJobs[j].code = y
    BY <2>1
  <2>3. ASSUME NEW i \in Instances, NEW c \in Codes, NEW k \in CronJobs, AddCronJob(i, c, k)
        PROVE  Registered(j)' /\ cronJobs'[j].state = "ticking"
    <3>1. cronJobs[k].state = "unused"
      <4>1. (CHOOSE u \in Unused : TRUE) \in Unused
        BY <2>3 DEF AddCronJob
      <4> QED
        BY <2>3, <4>1 DEF AddCronJob, Unused
    <3>2. registry'[x][y] = j
      BY <2>1, <2>3 DEF AddCronJob, IInv, TypeOK
    <3> QED
      BY <2>2, <2>3, <3>1, <3>2 DEF AddCronJob, IInv, TypeOK, Registered
  <2>4. ASSUME NEW i \in Instances, NEW c \in Codes, DeleteCronJob(i, c)
        PROVE  Registered(j)' <=> cronJobs'[j].state = "ticking"
    <3>1. CASE i = x /\ c = y
      <4>1. cronJobs'[j].state = "stopped"
        BY <2>1, <2>4, <3>1 DEF DeleteCronJob, StopRegistered, IInv, TypeOK
      <4>2. ASSUME NEW v \in Instances, NEW w \in Codes, registry'[v][w] = j
            PROVE  FALSE
        <5>1. registry[v][w] = j /\ ~(v = x /\ w = y)
          BY <2>4, <3>1, <4>2 DEF DeleteCronJob, IInv, TypeOK
        <5>2. cronJobs[j] = [state |-> "ticking", at |-> v, code |-> w]
          BY <5>1 DEF IInv, Places
        <5>3. cronJobs[j].at = v /\ cronJobs[j].code = w
          BY <5>2
        <5> QED
          BY <2>2, <5>1, <5>3
      <4> QED
        BY <4>1, <4>2 DEF Registered
    <3>2. CASE ~(i = x /\ c = y)
      <4>1. registry'[x][y] = j
        BY <2>1, <2>4, <3>2 DEF DeleteCronJob, IInv, TypeOK
      <4>2. cronJobs[registry[i][c]] = [state |-> "ticking", at |-> i, code |-> c]
        BY <2>4 DEF DeleteCronJob, IInv, Places
      <4>3. registry[i][c] # j
        <5>1. cronJobs[registry[i][c]].at = i /\ cronJobs[registry[i][c]].code = c
          BY <4>2
        <5> QED
          BY <2>2, <3>2, <5>1
      <4>4. cronJobs'[j] = cronJobs[j]
        BY <2>4, <4>3 DEF DeleteCronJob, StopRegistered, IInv, TypeOK
      <4> QED
        BY <2>2, <4>1, <4>4 DEF Registered
    <3> QED
      BY <3>1, <3>2
  <2>5. ASSUME UNCHANGED <<cronJobs, registry>>
        PROVE  Registered(j)' /\ cronJobs'[j].state = "ticking"
    BY <2>2, <2>5 DEF Registered
  <2>6. CASE NextRound
    BY <2>5, <2>6 DEF NextRound
  <2>7. ASSUME NEW t \in Ticks, Tick(t) \/ OnTick(t)
        PROVE  UNCHANGED <<cronJobs, registry>>
    BY <2>7 DEF Tick, OnTick, ObtainClusterExecutionLock, CreateJob, PerformJob, WriteJobResult
  <2> QED
    BY <2>3, <2>4, <2>5, <2>6, <2>7 DEF Next
<1> QED
  BY <1>1, Invariant, PTL DEF Spec, StopsWithItsEntry
=============================================================================
