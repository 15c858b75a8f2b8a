------------------------- MODULE TransactionalSteps -------------------------
(***************************************************************************)
(* One pipeline request run through nested step sets: sequential,          *)
(* parallel, race, async and transactional ones, the error handlers of     *)
(* fragmentary steps, and the typeorm steps that write through the query   *)
(* runner found in `$trans` of the context or through one of their own.    *)
(*                                                                         *)
(* An action is what runs between two waits on the outside world; the      *)
(* database answers in any order across connections.                       *)
(***************************************************************************)
EXTENDS QueryRunner

CONSTANTS
  Plans      (* the step trees the program may be configured with          *)

None == 0    (* no step, no runner, no `$trans`; also the request's context *)

Keys(p) == {p.key[n] : n \in DOMAIN p.key}

VARIABLES
  plan,      (* the tree: steps are 1..n, 1 is the root; of a step n        *)
             (*   kind[n], kids[n], key[n] the transaction key,             *)
             (*   handler[n] the step that handles its errors, or None,     *)
             (*   owner[n] the transactional set a step is meant to run in, *)
             (*   faults: may the database and the snippets fail?           *)
  pc,        (* how far each step is                                        *)
  context,   (* the context each step was given: None is the request's,     *)
             (* another is named after the async step that cloned it        *)
  transOf,   (* context.$trans, an object named after the step that made it *)
  trans,     (* the objects: transaction key to runner                      *)
  base,      (* the `$trans` a transactional set saw before it connected    *)
  using,     (* its local variable `runner`                                 *)
  runners,   (* the query runners, named after the step that created them   *)
  committed  (* the rows that are durable                                   *)

vars == <<plan, pc, context, transOf, trans, base, using, runners, committed>>

Steps == DOMAIN plan.kind

Init ==
  /\ plan \in Plans
  /\ pc = [n \in Steps |-> IF n = 1 THEN "called" ELSE "idle"]
  /\ context = [n \in Steps |-> None]
  /\ transOf = [c \in Steps \union {None} |-> None]
  /\ trans = [o \in Steps |-> [k \in Keys(plan) |-> None]]
  /\ base = [n \in Steps |-> None]
  /\ using = [n \in Steps |-> None]
  /\ runners = [n \in Steps |-> NewRunner]
  /\ committed = {}
-----------------------------------------------------------------------------
Kind(n, kinds) == plan.kind[n] \in kinds

(* Step n goes to a phase, and the steps in `called` are given context c. *)
GoCalling(n, phase, called, c) ==
  /\ pc' = [m \in Steps |-> IF m \in called THEN "called"
                            ELSE IF m = n THEN phase ELSE pc[m]]
  /\ context' = [m \in Steps |-> IF m \in called THEN c ELSE context[m]]

Go(n, phase) == GoCalling(n, phase, {}, None)

(* performAndCatch: what doPerform throws goes to the handler, if there is *)
(* one, and the handler runs in the context the step was given.            *)
Throw(n) ==
  IF plan.handler[n] = None
  THEN Go(n, "failed")
  ELSE GoCalling(n, "handling", {plan.handler[n]}, context[n])

HandlerEnds(n) ==
  /\ pc[n] = "handling"
  /\ pc[plan.handler[n]] \in {"done", "failed"}
  /\ Go(n, pc[plan.handler[n]])
  /\ UNCHANGED <<plan, transOf, trans, base, using, runners, committed>>

(* A step that does not touch the database. *)
Snippet(n) ==
  /\ Kind(n, {"snippet"})
  /\ pc[n] = "called"
  /\ Go(n, "done") \/ (plan.faults /\ Throw(n))
  /\ UNCHANGED <<plan, transOf, trans, base, using, runners, committed>>
-----------------------------------------------------------------------------
(* Step sets: the kids of a set run in the context it was given. *)

Kids(n) == ToSet(plan.kids[n])

Enter(n) ==
  /\ Kind(n, {"sets", "parallel", "race"})
  /\ pc[n] = "called"
  /\ IF Kind(n, {"sets"})
     THEN Go(n, "running")
     ELSE GoCalling(n, "running", Kids(n), context[n])
  /\ UNCHANGED <<plan, transOf, trans, base, using, runners, committed>>

(* Mutant: the clone keeps `$trans`. *)
KeptTrans(n) == transOf[context[n]]

(* The context of an async step is a clone without `$trans`. *)
ClonedTrans(n) == None

(* super.doPerform is not awaited. *)
EnterAsync(n) ==
  /\ Kind(n, {"async"})
  /\ pc[n] = "called"
  /\ GoCalling(n, "done", Kids(n), n)
  /\ transOf' = [transOf EXCEPT ![n] = ClonedTrans(n)]
  /\ UNCHANGED <<plan, trans, base, using, runners, committed>>

(* Sequential sets: the next kid after one that is done. *)
NextStep(n) ==
  /\ Kind(n, {"sets", "trans"})
  /\ pc[n] = "running"
  /\ \E i \in DOMAIN plan.kids[n] :
       /\ pc[plan.kids[n][i]] = "idle"
       /\ \A j \in 1..(i - 1) : pc[plan.kids[n][j]] = "done"
       /\ GoCalling(n, "running", {plan.kids[n][i]}, context[n])
  /\ UNCHANGED <<plan, transOf, trans, base, using, runners, committed>>

(* Promise.all and the reduce over the steps wait for all kids or for the  *)
(* first that rejects, Promise.race for the first that settles.            *)
BodyReturns(n) ==
  /\ pc[n] = "running"
  /\ IF Kind(n, {"race"})
     THEN \E m \in Kids(n) : pc[m] = "done"
     ELSE \A m \in Kids(n) : pc[m] = "done"

BodyThrows(n) == pc[n] = "running" /\ \E m \in Kids(n) : pc[m] = "failed"

Leave(n) ==
  /\ Kind(n, {"sets", "parallel", "race"})
  /\ (BodyReturns(n) /\ Go(n, "done")) \/ (BodyThrows(n) /\ Throw(n))
  /\ UNCHANGED <<plan, transOf, trans, base, using, runners, committed>>
-----------------------------------------------------------------------------
(* Transactional step sets. *)

Key(n) == plan.key[n]

FoundRunner(n) ==
  LET o == transOf[context[n]] IN IF o = None THEN None ELSE trans[o][Key(n)]

(* A call on runner r for step n.  When the client refuses it, so does it  *)
(* refuse the rollback of the catch block; what is left is the release.    *)
Ask(n, r, call, phase) ==
  IF Refuses(runners[r], call)
  THEN runners' = [runners EXCEPT ![r] = Released(@)] /\ Throw(n)
  ELSE runners' = [runners EXCEPT ![r] = Sent(@, call, n)] /\ Go(n, phase)

(* attachMineToInternalContext: the runner under the key, or a new one. *)
AttachFound(n) ==
  /\ Kind(n, {"trans"})
  /\ pc[n] = "called"
  /\ FoundRunner(n) # None
  /\ using' = [using EXCEPT ![n] = FoundRunner(n)]
  /\ Ask(n, FoundRunner(n), "start", "beginning")
  /\ UNCHANGED <<plan, transOf, trans, base, committed>>

AttachNew(n) ==
  /\ Kind(n, {"trans"})
  /\ pc[n] = "called"
  /\ FoundRunner(n) = None
  /\ base' = [base EXCEPT ![n] = transOf[context[n]]]
  /\ Go(n, "connecting")
  /\ UNCHANGED <<plan, transOf, trans, using, runners, committed>>

(* The object that gets the new runner: the `$trans` seen before the wait, *)
(* or one that is created now and replaces whatever is there by now.       *)
PutRunner(n) ==
  IF base[n] = None
  THEN /\ trans' = [trans EXCEPT ![n][Key(n)] = n]
       /\ transOf' = [transOf EXCEPT ![context[n]] = n]
  ELSE /\ trans' = [trans EXCEPT ![base[n]][Key(n)] = n]
       /\ UNCHANGED transOf

(* connect() has resolved; getRunner reads the `$trans` of the context. *)
Connected(n) ==
  /\ Kind(n, {"trans"})
  /\ pc[n] = "connecting"
  /\ PutRunner(n)
  /\ LET r == trans'[transOf'[context[n]]][Key(n)]
         opened == [runners EXCEPT ![n] = Opened(@)]
     IN  IF r = None
         THEN using' = using /\ runners' = opened /\ Throw(n)
         ELSE /\ using' = [using EXCEPT ![n] = r]
              /\ runners' = [opened EXCEPT ![r] = Sent(@, "start", n)]
              /\ Go(n, "beginning")
  /\ UNCHANGED <<plan, base, committed>>

ConnectFails(n) ==
  /\ plan.faults
  /\ pc[n] = "connecting"
  /\ Throw(n)
  /\ UNCHANGED <<plan, transOf, trans, base, using, runners, committed>>

Commit(n) ==
  /\ Kind(n, {"trans"})
  /\ BodyReturns(n)
  /\ Ask(n, using[n], "commit", "committing")
  /\ UNCHANGED <<plan, transOf, trans, base, using, committed>>

(* Mutant: the catch block goes straight on to the release. *)
ReleaseOnThrow(n) ==
  /\ Kind(n, {"trans"})
  /\ BodyThrows(n)
  /\ runners' = [runners EXCEPT ![using[n]] = Released(@)]
  /\ Throw(n)
  /\ UNCHANGED <<plan, transOf, trans, base, using, committed>>

Rollback(n) ==
  /\ Kind(n, {"trans"})
  /\ BodyThrows(n)
  /\ Ask(n, using[n], "rollback", "rollingBack")
  /\ UNCHANGED <<plan, transOf, trans, base, using, committed>>
-----------------------------------------------------------------------------
(* isTransactional and createRunner of a typeorm step; the step throws     *)
(* when the transaction is not found or its runner is released.            *)
Query(n) ==
  /\ Kind(n, {"sql"})
  /\ pc[n] = "called"
  /\ LET r == FoundRunner(n) IN
     IF r = None \/ Refuses(runners[r], "query")
     THEN Throw(n) /\ UNCHANGED runners
     ELSE /\ runners' = [runners EXCEPT ![r] = Sent(@, "query", n)]
          /\ Go(n, "querying")
  /\ UNCHANGED <<plan, transOf, trans, base, using, committed>>

(* autoTrans of an autonomous step: a runner of its own. *)
Autonomous(n) ==
  /\ Kind(n, {"autonomous"})
  /\ pc[n] = "called"
  /\ Go(n, "connecting")
  /\ UNCHANGED <<plan, transOf, trans, base, using, runners, committed>>

AutonomousConnected(n) ==
  /\ Kind(n, {"autonomous"})
  /\ pc[n] = "connecting"
  /\ runners' = [runners EXCEPT ![n] = Sent(Opened(@), "query", n)]
  /\ Go(n, "querying")
  /\ UNCHANGED <<plan, transOf, trans, base, using, committed>>
-----------------------------------------------------------------------------
(* What step n does when its statement on runner r, which is now as r1,    *)
(* has succeeded or failed.                                                *)

(* Mutant: no release in the finally block. *)
KeepAfter(n, r, r1) ==
  runners' = [runners EXCEPT ![r] = r1]

ReleaseAfter(n, r, r1) ==
  runners' = [runners EXCEPT ![r] = Released(r1)]

AfterQuery(n, r, r1, ok) ==
  /\ pc[n] = "querying"
  /\ IF Kind(n, {"autonomous"})
     THEN ReleaseAfter(n, r, r1)
     ELSE runners' = [runners EXCEPT ![r] = r1]
  /\ IF ok THEN Go(n, "done") ELSE Throw(n)

AfterBegin(n, r, r1) ==
  /\ pc[n] = "beginning"
  /\ runners' = [runners EXCEPT ![r] = r1]
  /\ Go(n, "running")

AfterCommit(n, r, r1) ==
  /\ pc[n] = "committing"
  /\ ReleaseAfter(n, r, r1)
  /\ Go(n, "done")

(* Mutant: an error of begin or commit is only logged. *)
SwallowAfter(n, r, r1) ==
  /\ pc[n] \in {"beginning", "committing"}
  /\ ReleaseAfter(n, r, r1)
  /\ Go(n, "done")

(* The catch block rolls back after a failed begin or commit too. *)
RollbackAfter(n, r, r1) ==
  /\ pc[n] \in {"beginning", "committing"}
  /\ IF Refuses(r1, "rollback")
     THEN ReleaseAfter(n, r, r1) /\ Throw(n)
     ELSE /\ runners' = [runners EXCEPT ![r] = Sent(r1, "rollback", n)]
          /\ Go(n, "rollingBack")

(* A rollback that fails is only logged. *)
AfterRollback(n, r, r1) ==
  /\ pc[n] = "rollingBack"
  /\ ReleaseAfter(n, r, r1)
  /\ Throw(n)

(* The database executes the oldest statement of a connection. *)
Answer(r) ==
  /\ runners[r].wire # <<>>
  /\ LET n == Head(runners[r].wire).by
         r1 == Succeeded(runners[r])
     IN  AfterQuery(n, r, r1, TRUE) \/ AfterBegin(n, r, r1)
           \/ AfterCommit(n, r, r1) \/ AfterRollback(n, r, r1)
  /\ committed' = committed \union MadeDurable(runners[r])
  /\ UNCHANGED <<plan, transOf, trans, base, using>>

AnswerError(r) ==
  /\ plan.faults
  /\ runners[r].wire # <<>>
  /\ LET n == Head(runners[r].wire).by
         r1 == Failed(runners[r])
     IN  AfterQuery(n, r, r1, FALSE) \/ RollbackAfter(n, r, r1)
           \/ AfterRollback(n, r, r1)
  /\ UNCHANGED <<plan, transOf, trans, base, using, committed>>
-----------------------------------------------------------------------------
Next ==
  \/ \E n \in Steps : Snippet(n)
  \/ \E n \in Steps : HandlerEnds(n)
  \/ \E n \in Steps : Enter(n)
  \/ \E n \in Steps : EnterAsync(n)
  \/ \E n \in Steps : NextStep(n)
  \/ \E n \in Steps : Leave(n)
  \/ \E n \in Steps : AttachFound(n)
  \/ \E n \in Steps : AttachNew(n)
  \/ \E n \in Steps : Connected(n)
  \/ \E n \in Steps : ConnectFails(n)
  \/ \E n \in Steps : Commit(n)
  \/ \E n \in Steps : Rollback(n)
  \/ \E n \in Steps : Query(n)
  \/ \E n \in Steps : Autonomous(n)
  \/ \E n \in Steps : AutonomousConnected(n)
  \/ \E n \in Steps : Answer(n)
  \/ \E n \in Steps : AnswerError(n)

Spec == Init /\ [][Next]_vars

(* Promises and the event loop run what is ready, the database answers. *)
FairSpec == Spec /\ WF_vars(Next)
-----------------------------------------------------------------------------
HandlerRan(n) == plan.handler[n] # None /\ pc[plan.handler[n]] # "idle"

(* What happened to the body of a step, its error handler apart. *)
Succeeds(n) == pc[n] = "done" /\ ~HandlerRan(n)
Fails(n) == pc[n] = "failed" \/ HandlerRan(n)

SqlSteps == {n \in Steps : plan.kind[n] = "sql" /\ plan.owner[n] # None}

(* Once a transactional set has settled, every write of its steps that was *)
(* reported as done is durable, or none is: also when a step's error is    *)
(* handled, when sets are nested, and when a begin or a commit fails.      *)
AllOrNothing ==
  \A n \in SqlSteps :
     /\ Succeeds(plan.owner[n]) /\ Succeeds(n) => n \in committed
     /\ Fails(plan.owner[n]) => n \notin committed

(* The write of a transactional step becomes durable by the commit of the  *)
(* set it belongs to, never on its own and never after the set has ended.  *)
CommittedTogether ==
  [][\A n \in SqlSteps :
        n \in committed' \ committed =>
           pc[plan.owner[n]] = "committing" /\ pc'[plan.owner[n]] = "done"]_vars

(* A connection goes back to the pool with no transaction open and no      *)
(* statement on its way.                                                   *)
ReturnedClean ==
  \A r \in Steps :
     runners[r].state = "released" => runners[r].stack = <<>> /\ runners[r].wire = <<>>

(* Only the steps a transactional set was meant for use its connection: in *)
(* particular no async step carries the transaction of its caller along.   *)
OwnConnection ==
  \A r \in Steps : \A i \in 1..Len(runners[r].wire) :
     LET n == runners[r].wire[i].by IN n = r \/ plan.owner[n] = r

(* The request and everything it started ends, and every runner that was   *)
(* connected is released in the end.                                       *)
EverythingEnds ==
  <>[](/\ \A n \in Steps : pc[n] \in {"idle", "done", "failed"}
       /\ \A r \in Steps : runners[r].state # "open")
=============================================================================
