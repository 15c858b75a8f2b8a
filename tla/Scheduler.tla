----------------------------- MODULE Scheduler -----------------------------
(***************************************************************************)
(* ScheduleService on the instances of one cluster: the registry of cron   *)
(* jobs, and what every tick does: take the execution lock of the round,   *)
(* open an entry in the job log, perform the pipeline, write the result.   *)
(* The lock and the job log are pipelines of the application.              *)
(*                                                                         *)
(* An action is what runs between two awaits.  A cron job does not wait    *)
(* for its last tick: ticks of a job overlap.                              *)
(***************************************************************************)
EXTENDS Naturals, Sequences, FiniteSets

CONSTANTS
  Instances,   (* the processes of the cluster, each with a service         *)
  Codes,       (* the codes of scheduled pipelines                          *)
  CronJobs,    (* the CronJob objects that are ever created                 *)
  MaxRound,    (* bound: the rounds of the schedule                         *)
  MaxTicks     (* bound: the ticks of all jobs together                     *)

None == "none"

ASSUME BoundAssumption == MaxRound \in Nat /\ MaxTicks \in Nat
ASSUME NoneAssumption == None \notin CronJobs

Rounds == 1..MaxRound
Ticks == CronJobs \X Rounds
NoTick == <<None, 0>>

VARIABLES
  service,   (* the configuration: onCluster, persistJobLog, and the codes  *)
             (*   whose interval is longer than maxIntervalNoClusterLock    *)
  cronJobs,  (* CronJob objects: are they ticking, whose, of what code      *)
  registry,  (* SchedulerRegistry.cronJobs of every instance                *)
  round,     (* the time                                                    *)
  tick,      (* how far a tick is, the answer of the lock pipeline (kept    *)
             (*   when it was not obtained), how the pipeline ended         *)
  holder,    (* application: the tick that took the lock of a round, if any *)
  opened,    (* application: the job log entries                            *)
  written    (* application: the results written for a tick, in order       *)

vars == <<service, cronJobs, registry, round, tick, holder, opened, written>>

LockAnswers == {"true", "nothing", "false", "error"}
(* What the pipeline of a job ends with: no payload; an object or a string *)
(* that names no code, or a code of its own, which may be failed; a        *)
(* payload of another type; an error; something thrown that has no message *)
(* to read (null).                                                         *)
Outcomes == {"nothing", "unnamed", "custom", "failed", "scalar", "error", "errorless"}
Verdicts == {"success", "custom", "failed"}
Phases == {"idle", "locking", "creating", "running", "writing", "ended",
           "ignored", "rejected"}
TickStates == [phase : Phases, lock : LockAnswers \union {None},
               outcome : Outcomes \union {None}, result : Verdicts \union {None}]

Init ==
  /\ service \in [onCluster : BOOLEAN, persistJobLog : BOOLEAN, spaced : SUBSET Codes]
  /\ cronJobs = [j \in CronJobs |-> [state |-> "unused", at |-> None, code |-> None]]
  /\ registry = [i \in Instances |-> [c \in Codes |-> None]]
  /\ round = 0
  /\ tick = [t \in Ticks |-> [phase |-> "idle", lock |-> None, outcome |-> None,
                              result |-> None]]
  /\ holder = [x \in Codes \X Rounds |-> NoTick]
  /\ opened = {}
  /\ written = [t \in Ticks |-> <<>>]

CodeOf(t) == cronJobs[t[1]].code
RoundOf(t) == <<CodeOf(t), t[2]>>
-----------------------------------------------------------------------------
Unused == {j \in CronJobs : cronJobs[j].state = "unused"}

(* The CronJob starts as it is made, before the registry looks for another *)
(* of its code: when there is one addCronJob throws, and the new one runs  *)
(* on, in no registry.                                                     *)
AddCronJob(i, c, j) ==
  /\ Unused # {}
  /\ j = CHOOSE k \in Unused : TRUE
  /\ cronJobs' = [cronJobs EXCEPT ![j] = [state |-> "ticking", at |-> i, code |-> c]]
  /\ registry' = [registry EXCEPT ![i][c] = IF @ = None THEN j ELSE @]
  /\ UNCHANGED <<service, round, tick, holder, opened, written>>

(* Mutant: the job is dropped without a stop. *)
DropOnly(i, c) == UNCHANGED cronJobs

StopRegistered(i, c) ==
  cronJobs' = [cronJobs EXCEPT ![registry[i][c]].state = "stopped"]

(* Without a registered job deleteCronJob throws and changes nothing. *)
DeleteCronJob(i, c) ==
  /\ registry[i][c] # None
  /\ StopRegistered(i, c)
  /\ registry' = [registry EXCEPT ![i][c] = None]
  /\ UNCHANGED <<service, round, tick, holder, opened, written>>

NextRound ==
  /\ round < MaxRound
  /\ round' = round + 1
  /\ UNCHANGED <<service, cronJobs, registry, tick, holder, opened, written>>
-----------------------------------------------------------------------------
NeedsLock(c) == service.onCluster /\ c \in service.spaced

(* createJob is called, or there is no log and the pipeline performs. *)
AfterLock == IF service.persistJobLog THEN "creating" ELSE "running"

Tick(t) ==
  /\ Cardinality({u \in Ticks : tick[u].phase # "idle"}) < MaxTicks
  /\ t[2] = round
  /\ cronJobs[t[1]].state = "ticking"
  /\ tick[t].phase = "idle"
  /\ tick' = [tick EXCEPT ![t].phase = IF NeedsLock(CodeOf(t)) THEN "locking"
                                       ELSE AfterLock]
  /\ UNCHANGED <<service, cronJobs, registry, round, holder, opened, written>>

(* Mutant: an error of the lock pipeline does not hold the round up. *)
ObtainedOnError(answer) == answer # "false"

(* Mutant: only an explicit true is a lock. *)
ObtainedOnTrue(answer) == answer = "true"

(* "not false, treated as true"; an exception is false. *)
Obtained(answer) == answer \notin {"false", "error"}

(* The lock pipeline gives the lock of a round to one tick.  It may fail,  *)
(* before or after it took the lock, or not be found.                      *)
LockPipeline(t, answer) ==
  \/ /\ answer \in {"true", "nothing"}
     /\ holder[RoundOf(t)] = NoTick
     /\ holder' = [holder EXCEPT ![RoundOf(t)] = t]
  \/ /\ answer = "false"
     /\ holder[RoundOf(t)] # NoTick
     /\ UNCHANGED holder
  \/ /\ answer = "error"
     /\ \/ UNCHANGED holder
        \/ /\ holder[RoundOf(t)] = NoTick
           /\ holder' = [holder EXCEPT ![RoundOf(t)] = t]

ObtainClusterExecutionLock(t) ==
  /\ tick[t].phase = "locking"
  /\ \E answer \in LockAnswers :
       /\ LockPipeline(t, answer)
       /\ tick' = [tick EXCEPT ![t] =
                     IF Obtained(answer) THEN [@ EXCEPT !.phase = AfterLock]
                     ELSE [@ EXCEPT !.phase = "ignored", !.lock = answer]]
  /\ UNCHANGED <<service, cronJobs, registry, round, opened, written>>

(* The entry is opened and its id returned, or the pipeline fails, before  *)
(* or after it opened the entry: createJob throws, outside of onTick's try.*)
CreateJob(t) ==
  /\ tick[t].phase = "creating"
  /\ \/ /\ tick' = [tick EXCEPT ![t].phase = "running"]
        /\ opened' = opened \union {t}
     \/ /\ tick' = [tick EXCEPT ![t].phase = "rejected"]
        /\ opened' \in {opened, opened \union {t}}
  /\ UNCHANGED <<service, cronJobs, registry, round, holder, written>>

(* The result onTick writes.  A payload that is neither an object nor a    *)
(* string is not written, and where what was thrown has no message the     *)
(* catch of onTick throws before it writes.                                *)
ResultOf(outcome) ==
  CASE outcome \in {"nothing", "unnamed"}   -> "success"
    [] outcome = "custom"                   -> "custom"
    [] outcome \in {"failed", "error"}      -> "failed"
    [] outcome \in {"scalar", "errorless"}  -> None

PerformJob(t) ==
  /\ tick[t].phase = "running"
  /\ \E outcome \in Outcomes :
       tick' = [tick EXCEPT ![t] =
         IF service.persistJobLog /\ ResultOf(outcome) # None
         THEN [@ EXCEPT !.phase = "writing", !.outcome = outcome,
                        !.result = ResultOf(outcome)]
         ELSE [@ EXCEPT !.phase = "ended", !.outcome = outcome]]
  /\ UNCHANGED <<service, cronJobs, registry, round, holder, opened, written>>

Ended(t) == [tick[t] EXCEPT !.phase = "ended", !.result = None]

(* Mutant: writeJobResult throws, and the catch of onTick writes again. *)
CaughtAgain(t) ==
  IF tick[t].result = "failed" THEN Ended(t)
  ELSE [tick[t] EXCEPT !.result = "failed"]

Swallowed(t) == Ended(t)

(* The result is written, or the pipeline fails before or after it wrote:  *)
(* writeJobResult never throws.                                            *)
WriteJobResult(t) ==
  /\ tick[t].phase = "writing"
  /\ \/ /\ written' = [written EXCEPT ![t] = Append(@, tick[t].result)]
        /\ tick' = [tick EXCEPT ![t] = Ended(t)]
     \/ /\ \/ UNCHANGED written
           \/ written' = [written EXCEPT ![t] = Append(@, tick[t].result)]
        /\ tick' = [tick EXCEPT ![t] = Swallowed(t)]
  /\ UNCHANGED <<service, cronJobs, registry, round, holder, opened>>

OnTick(t) ==
  \/ ObtainClusterExecutionLock(t)
  \/ CreateJob(t)
  \/ PerformJob(t)
  \/ WriteJobResult(t)

Next ==
  \/ \E i \in Instances, c \in Codes, j \in CronJobs : AddCronJob(i, c, j)
  \/ \E i \in Instances, c \in Codes : DeleteCronJob(i, c)
  \/ NextRound
  \/ \E t \in Ticks : Tick(t) \/ OnTick(t)

Spec == Init /\ [][Next]_vars

(* The pipelines a tick awaits settle. *)
FairSpec == Spec /\ \A t \in Ticks : WF_vars(OnTick(t))
-----------------------------------------------------------------------------
(* The types of the variables. *)
TypeOK ==
  /\ service \in [onCluster : BOOLEAN, persistJobLog : BOOLEAN, spaced : SUBSET Codes]
  /\ cronJobs \in [CronJobs -> [state : {"unused", "ticking", "stopped"},
                               at : Instances \union {None}, code : Codes \union {None}]]
  /\ registry \in [Instances -> [Codes -> CronJobs \union {None}]]
  /\ round \in 0..MaxRound
  /\ tick \in [Ticks -> TickStates]
  /\ holder \in [Codes \X Rounds -> Ticks \union {NoTick}]
  /\ opened \subseteq Ticks
  /\ written \in [Ticks -> Seq(Verdicts)]

Performs(t) == tick[t].phase \in {"creating", "running", "writing", "ended", "rejected"}

(* A job whose interval asks for the lock is performed at most once in a   *)
(* round, whatever the instances do at the same time and however the lock  *)
(* pipeline fails (obtainClusterExecutionLock and the return it guards).   *)
OneRunPerRound ==
  \A t, u \in Ticks :
    (Performs(t) /\ Performs(u) /\ RoundOf(t) = RoundOf(u) /\ NeedsLock(CodeOf(t)))
    => t = u

(* The result r is a true account of what the pipeline of a job ended     *)
(* with: where it threw it is failed, and failed is said only of one that  *)
(* threw or calls itself so; success only of one that neither threw nor    *)
(* named another code.                                                     *)
TrueOf(r, outcome) ==
  /\ outcome \in {"error", "errorless"} => r = "failed"
  /\ r = "failed" => outcome \in {"error", "errorless", "failed"}
  /\ r = "success" => outcome \in {"nothing", "unnamed", "scalar"}

(* The log holds at most one result for a tick, it belongs to an entry that *)
(* was opened, and it is a true account of how the pipeline ended, also    *)
(* when writing fails half way (the try around writeJobResult).            *)
LogTellsWhatHappened ==
  \A t \in Ticks : written[t] # <<>> =>
    /\ Len(written[t]) = 1
    /\ t \in opened
    /\ TrueOf(written[t][1], tick[t].outcome)

Registered(j) == \E i \in Instances, c \in Codes : registry[i][c] = j

(* A registered job keeps its place as long as it ticks, and leaves the    *)
(* registry only as it is stopped: whatever was added, deleted and added   *)
(* again under one code, deleteCronJob finds the job that runs.            *)
StopsWithItsEntry ==
  [][\A j \in CronJobs : Registered(j) =>
       (Registered(j)' <=> cronJobs'[j].state = "ticking")]_vars

Of(c, r) == {t \in Ticks : RoundOf(t) = <<c, r>>}

(* A round that asked for the lock is performed by some instance, unless   *)
(* the lock pipeline or the one that opens the entry failed in it.         *)
LockedRoundRuns ==
  \A c \in Codes, r \in Rounds :
    (\E t \in Of(c, r) : tick[t].phase = "locking") ~>
    (\E t \in Of(c, r) : \/ tick[t].outcome # None
                         \/ tick[t].lock = "error"
                         \/ tick[t].phase = "rejected")
=============================================================================
