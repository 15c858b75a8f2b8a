----------------------- MODULE TransactionalStepsProofs -----------------------
(***************************************************************************)
(* Two proofs for every tree of steps, with async steps anywhere.  Nobody  *)
(* uses the connection of another's transaction, where a transactional set *)
(* that may find the runner of another one has a name of its own.  And a   *)
(* transaction is all or nothing, commits at once and gives its connection *)
(* back clean, where its writers also run one after another.               *)
(***************************************************************************)
EXTENDS StepTrees, TLAPS
-----------------------------------------------------------------------------
Ended == {"handling", "done", "failed"}
Asleep == {"idle", "called"}

(* Steps run in the context of their home, and are called once: by a step  *)
(* that has gone on, an async one included, and that has not failed yet    *)
(* when they are its handler.                                              *)
Control(home) ==
  /\ \A m \in Steps : pc[m] # "idle" => context[m] = home[m]
  /\ \A n \in Steps : \A m \in ToSet(plan.kids[n]) : pc[n] \in Asleep => pc[m] = "idle"
  /\ \A n \in Steps :
       plan.handler[n] # None /\ pc[n] \notin Ended => pc[plan.handler[n]] = "idle"
  /\ \A m \in Steps : home[m] # None /\ pc[m] # "idle" => pc[home[m]] \notin Asleep

(* The set a runner is under the name of, by the `$trans` of a home. *)
IsSetOf(r, k, h, home) ==
  r \in Steps /\ plan.kind[r] = "trans" /\ plan.key[r] = k /\ home[r] = h

(* `$trans` of a context holds runners of sets of that home, each under    *)
(* its name; once it is there, it stays.                                   *)
Registered(home) ==
  /\ transOf \in [Steps \union {None} -> Steps \union {None}]
  /\ trans \in [Steps -> [Keys(plan) -> Steps \union {None}]]
  /\ base \in [Steps -> Steps \union {None}]
  /\ DOMAIN using = Steps
  /\ \A c \in Steps \union {None} : transOf[c] # None => home[transOf[c]] = c
  /\ \A o \in Steps : \A k \in Keys(plan) :
       trans[o][k] # None => IsSetOf(trans[o][k], k, home[o], home)
  /\ \A n \in Steps :
       base[n] # None => home[base[n]] = home[n] /\ transOf[home[n]] # None
  /\ \A h \in Steps : pc[h] \in Asleep => transOf[h] = None
  /\ \A n \in Steps : using[n] \in {None, n}

MayUse(r, n) == n \in Steps /\ (n = r \/ plan.owner[n] = r)

IsSeq(s) == \E S : s \in Seq(S)

RunnerOK(r, x) ==
  /\ DOMAIN x = {"state", "active", "depth", "wire", "stack"}
  /\ IsSeq(x.wire)
  /\ \A i \in 1..Len(x.wire) : MayUse(r, x.wire[i].by)

Owned ==
  /\ DOMAIN runners = Steps
  /\ \A r \in Steps : RunnerOK(r, runners[r])

Inv(home) == Control(home) /\ Registered(home) /\ Owned
-----------------------------------------------------------------------------
(* Where the steps are. *)

StaysAsleep == \A h \in Steps : pc'[h] \in Asleep => pc[h] \in Asleep

LEMMA CallingKeeps ==
  ASSUME NEW home, WellNamed(plan, home), Control(home), plan' = plan,
         NEW n \in Steps, NEW phase, NEW called, NEW c, GoCalling(n, phase, called, c),
         pc[n] # "idle", phase \notin Asleep,
         called \subseteq Calls(plan, n),
         \A m \in called : pc[m] = "idle" /\ home[m] = c,
         called = {} \/ c = home[n] \/ c = n,
         \/ phase \in Ended
         \/ pc[n] \notin Ended /\ plan.handler[n] \notin called
  PROVE  Control(home)' /\ StaysAsleep
<1>1. Steps' = Steps
  BY DEF Steps
<1>2. /\ \A m \in called : m \in Steps /\ pc'[m] = "called" /\ context'[m] = c
      /\ pc'[n] = phase /\ context'[n] = context[n]
      /\ \A m \in Steps \ (called \union {n}) : pc'[m] = pc[m] /\ context'[m] = context[m]
  <2>1. called \subseteq Steps /\ n \notin called
    BY DEF WellNamed, IsTree, Steps
  <2> QED
    BY <2>1 DEF GoCalling
<1>3. StaysAsleep
  BY <1>2 DEF StaysAsleep, Asleep
<1>4. \A m \in Steps : pc'[m] # "idle" => context'[m] = home[m]
  BY <1>2 DEF Control
<1>5. ASSUME NEW q \in Steps, NEW m \in ToSet(plan.kids[q]), pc'[q] \in Asleep
      PROVE  pc'[m] = "idle"
  <2>1. m \in Calls(plan, q) /\ m \in Steps
    BY DEF Calls, WellNamed, IsTree, Steps
  <2>2. q # n /\ pc[q] \in Asleep
    BY <1>2, <1>3, <1>5 DEF StaysAsleep
  <2>3. pc[m] = "idle" /\ m # n
    BY <2>2 DEF Control
  <2>4. m \notin called
    BY <2>1, <2>2 DEF WellNamed, IsTree, Steps
  <2> QED
    BY <1>2, <2>1, <2>3, <2>4
<1>6. ASSUME NEW q \in Steps, plan.handler[q] # None, pc'[q] \notin Ended
      PROVE  pc'[plan.handler[q]] = "idle"
  <2> DEFINE m == plan.handler[q]
  <2>1. m \in Calls(plan, q) /\ m \in Steps
    BY <1>6 DEF Calls, WellNamed, IsTree, Steps
  <2>2. pc[q] \notin Ended
    <3>1. CASE q = n
      BY <1>2, <1>6, <3>1
    <3>2. CASE q \in called
      BY <3>2 DEF Ended
    <3>3. CASE q \notin called \union {n}
      BY <1>2, <1>6, <3>3
    <3> QED
      BY <3>1, <3>2, <3>3
  <2>3. pc[m] = "idle" /\ m # n
    BY <1>6, <2>2 DEF Control
  <2>4. m \notin called
    <3>1. CASE q = n
      BY <1>2, <1>6, <3>1
    <3>2. CASE q # n
      BY <2>1, <3>2 DEF WellNamed, IsTree, Steps
    <3> QED
      BY <3>1, <3>2
  <2> QED
    BY <1>2, <2>1, <2>3, <2>4
<1>7. ASSUME NEW m \in Steps, home[m] # None, pc'[m] # "idle"
      PROVE  pc'[home[m]] \notin Asleep
  <2>1. home[m] \in Steps
    BY <1>7 DEF WellNamed, Homes, Steps
  <2>2. CASE m \in called /\ c = n
    BY <1>2, <2>2
  <2>3. CASE m \in called /\ c = home[n]
    <3>1. home[m] = home[n]
      BY <2>3
    <3>2. pc[home[m]] \notin Asleep
      BY <1>7, <3>1 DEF Control
    <3> QED
      BY <1>3, <2>1, <3>2 DEF StaysAsleep
  <2>4. CASE m \notin called
    <3>1. pc[m] # "idle"
      BY <1>2, <1>7, <2>4
    <3>2. pc[home[m]] \notin Asleep
      BY <1>7, <3>1 DEF Control
    <3> QED
      BY <1>3, <2>1, <3>2 DEF StaysAsleep
  <2> QED
    BY <2>2, <2>3, <2>4
<1>8. Control(home)'
  BY <1>1, <1>4, <1>5, <1>6, <1>7 DEF Control
<1> QED
  BY <1>3, <1>8

LEMMA GoKeeps ==
  ASSUME NEW home, WellNamed(plan, home), Control(home), plan' = plan,
         NEW n \in Steps, NEW phase, Go(n, phase),
         pc[n] # "idle", phase \notin Asleep, phase \in Ended \/ pc[n] \notin Ended
  PROVE  Control(home)' /\ StaysAsleep
<1>1. PICK called : called = {}
  OBVIOUS
<1>2. GoCalling(n, phase, called, None)
  BY <1>1 DEF Go
<1>3. called \subseteq Calls(plan, n) /\ plan.handler[n] \notin called
  BY <1>1
<1> QED
  BY <1>1, <1>2, <1>3, CallingKeeps

LEMMA ThrowKeeps ==
  ASSUME NEW home, WellNamed(plan, home), Control(home), plan' = plan,
         NEW n \in Steps, Throw(n), pc[n] # "idle", pc[n] \notin Ended
  PROVE  Control(home)' /\ StaysAsleep
<1>1. CASE plan.handler[n] = None
  <2>1. Go(n, "failed") /\ "failed" \notin Asleep /\ "failed" \in Ended
    BY <1>1 DEF Throw, Asleep, Ended
  <2> QED
    BY <2>1, GoKeeps
<1>2. CASE plan.handler[n] # None
  <2>1. PICK m, c, called : m = plan.handler[n] /\ c = context[n] /\ called = {m}
    OBVIOUS
  <2>2. GoCalling(n, "handling", called, c)
    BY <1>2, <2>1 DEF Throw
  <2>3. called \subseteq Calls(plan, n)
    BY <1>2, <2>1 DEF Calls
  <2>4. pc[m] = "idle" /\ c = home[n] /\ home[m] = home[n]
    BY <1>2, <2>1 DEF Control, WellNamed, Homes, Steps
  <2>5. "handling" \notin Asleep /\ "handling" \in Ended
    BY DEF Asleep, Ended
  <2> QED
    BY <2>1, <2>2, <2>3, <2>4, <2>5, CallingKeeps
<1> QED
  BY <1>1, <1>2
-----------------------------------------------------------------------------
(* What is registered stays when only steps move. *)
LEMMA RegisteredStays ==
  ASSUME NEW home, Registered(home), StaysAsleep,
         UNCHANGED <<plan, transOf, trans, base, using>>
  PROVE  Registered(home)'
<1>1. Steps' = Steps /\ Keys(plan)' = Keys(plan)
  BY DEF Steps
<1>2. \A h \in Steps : pc'[h] \in Asleep => transOf'[h] = None
  BY DEF Registered, StaysAsleep
<1> QED
  BY <1>1, <1>2 DEF Registered, IsSetOf

(* The runner that a step finds under its name. *)
LEMMA FoundIsOfHome ==
  ASSUME NEW home, WellNamed(plan, home), Control(home), Registered(home),
         NEW n \in Steps, pc[n] # "idle", FoundRunner(n) # None
  PROVE  IsSetOf(FoundRunner(n), plan.key[n], home[n], home)
<1>1. PICK o : o = transOf[context[n]]
  OBVIOUS
<1>2. o # None /\ FoundRunner(n) = trans[o][plan.key[n]]
  BY <1>1 DEF FoundRunner, Key
<1>3. context[n] = home[n] /\ home[n] \in Steps \union {None}
  BY DEF Control, WellNamed, Homes, Steps
<1>4. o \in Steps /\ home[o] = home[n]
  BY <1>1, <1>2, <1>3 DEF Registered
<1>5. plan.key[n] \in Keys(plan)
  BY DEF Keys, WellNamed, IsTree, Steps
<1> QED
  BY <1>2, <1>4, <1>5 DEF Registered

LEMMA FoundByItsSet ==
  ASSUME NEW home, WellNamed(plan, home), NEW n \in Steps, plan.kind[n] = "trans",
         NEW r, IsSetOf(r, plan.key[n], home[n], home)
  PROVE  r = n
  BY DEF IsSetOf, WellNamed, NamesAreUnique, Steps

LEMMA FoundByItsWriters ==
  ASSUME NEW home, WellNamed(plan, home), NEW n \in Steps, plan.kind[n] = "sql",
         NEW r, IsSetOf(r, plan.key[n], home[n], home)
  PROVE  plan.owner[n] = r
  BY DEF IsSetOf, WellNamed, NamesAreUnique, Steps
-----------------------------------------------------------------------------
(* What is on the wires. *)

LEMMA SentOK ==
  ASSUME NEW r, NEW x, RunnerOK(r, x), NEW call, NEW n, MayUse(r, n)
  PROVE  RunnerOK(r, Sent(x, call, n))
<1>1. PICK S : x.wire \in Seq(S)
  BY DEF RunnerOK, IsSeq
<1>2. PICK e : e = [sql |-> Statement(x, call), by |-> n]
  OBVIOUS
<1>3. PICK w : w = Append(x.wire, e)
  OBVIOUS
<1>4. x.wire \in Seq(S \union {e})
  BY <1>1
<1>5. /\ w \in Seq(S \union {e}) /\ Len(w) = Len(x.wire) + 1 /\ Len(x.wire) \in Nat
      /\ w[Len(x.wire) + 1] = e /\ \A i \in 1..Len(x.wire) : w[i] = x.wire[i]
  BY <1>3, <1>4
<1>6. \A i \in 1..Len(w) : i \in 1..Len(x.wire) \/ i = Len(x.wire) + 1
  BY <1>5
<1>7. e.by = n
  BY <1>2
<1>8. \A i \in 1..Len(w) : MayUse(r, w[i].by)
  BY <1>5, <1>6, <1>7 DEF RunnerOK
<1>9. /\ DOMAIN Sent(x, call, n) = DOMAIN x
      /\ Sent(x, call, n).wire = w
  BY <1>2, <1>3 DEF Sent, RunnerOK
<1> QED
  BY <1>5, <1>8, <1>9 DEF RunnerOK, IsSeq

LEMMA AnsweredOK ==
  ASSUME NEW r, NEW x, RunnerOK(r, x), x.wire # <<>>
  PROVE  /\ RunnerOK(r, Succeeded(x)) /\ RunnerOK(r, Failed(x))
         /\ MayUse(r, Head(x.wire).by)
<1>1. PICK S : x.wire \in Seq(S)
  BY DEF RunnerOK, IsSeq
<1>2. PICK w : w = Tail(x.wire)
  OBVIOUS
<1>3. /\ w \in Seq(S) /\ Len(x.wire) \in Nat \ {0} /\ Len(w) = Len(x.wire) - 1
      /\ \A i \in 1..Len(w) : w[i] = x.wire[i + 1]
      /\ Head(x.wire) = x.wire[1]
  BY <1>1, <1>2
<1>4. \A i \in 1..Len(w) : i + 1 \in 1..Len(x.wire)
  BY <1>3
<1>5. \A i \in 1..Len(w) : MayUse(r, w[i].by)
  BY <1>3, <1>4 DEF RunnerOK
<1>6. /\ DOMAIN Succeeded(x) = DOMAIN x /\ Succeeded(x).wire = w
      /\ DOMAIN Failed(x) = DOMAIN x /\ Failed(x).wire = w
  BY <1>2 DEF Succeeded, Failed, RunnerOK
<1>7. MayUse(r, Head(x.wire).by)
  BY <1>3 DEF RunnerOK
<1> QED
  BY <1>3, <1>5, <1>6, <1>7 DEF RunnerOK, IsSeq

LEMMA OpenedOK ==
  ASSUME NEW r, NEW x, RunnerOK(r, x)
  PROVE  RunnerOK(r, Opened(x)) /\ RunnerOK(r, Released(x))
<1>1. /\ DOMAIN Opened(x) = DOMAIN x /\ Opened(x).wire = x.wire
      /\ DOMAIN Released(x) = DOMAIN x /\ Released(x).wire = x.wire
  BY DEF Opened, Released, RunnerOK
<1> QED
  BY <1>1 DEF RunnerOK

(* A runner that changes, and all others as they are. *)
LEMMA OwnedStays ==
  ASSUME Owned, plan' = plan, NEW r, NEW x, r \in Steps => RunnerOK(r, x),
         runners' = [runners EXCEPT ![r] = x]
  PROVE  Owned'
<1>1. Steps' = Steps
  BY DEF Steps
<1>2. \A q \in Steps : runners'[q] = IF q = r THEN x ELSE runners[q]
  BY DEF Owned
<1>3. \A q \in Steps : RunnerOK(q, runners'[q])
  BY <1>2 DEF Owned
<1>4. \A q \in Steps : RunnerOK(q, runners[q])'
  BY <1>1, <1>3 DEF RunnerOK, MayUse
<1> QED
  BY <1>1, <1>4 DEF Owned

LEMMA OwnedUnchanged ==
  ASSUME Owned, plan' = plan, runners' = runners
  PROVE  Owned'
  BY DEF Owned, RunnerOK, MayUse, Steps
-----------------------------------------------------------------------------
(* The steps that do not call the database. *)

(* A step goes on, and so does no other. *)
LEMMA GoesOn ==
  ASSUME NEW home, WellNamed(plan, home), Inv(home), NEW n \in Steps, NEW phase,
         Go(n, phase), pc[n] # "idle", phase \notin Asleep,
         phase \in Ended \/ pc[n] \notin Ended,
         UNCHANGED <<plan, transOf, trans, base, using>>, Owned'
  PROVE  Inv(home)'
  BY GoKeeps, RegisteredStays DEF Inv

LEMMA Throws ==
  ASSUME NEW home, WellNamed(plan, home), Inv(home), NEW n \in Steps, Throw(n),
         pc[n] # "idle", pc[n] \notin Ended,
         UNCHANGED <<plan, transOf, trans, base, using>>, Owned'
  PROVE  Inv(home)'
  BY ThrowKeeps, RegisteredStays DEF Inv

LEMMA CallsOthers ==
  ASSUME NEW home, WellNamed(plan, home), Inv(home), NEW n \in Steps,
         NEW called, called \subseteq ToSet(plan.kids[n]), plan.kind[n] # "async",
         \A m \in called : pc[m] = "idle",
         GoCalling(n, "running", called, context[n]), pc[n] # "idle", pc[n] \notin Ended,
         UNCHANGED <<plan, transOf, trans, base, using, runners>>
  PROVE  Inv(home)'
<1>1. PICK c : c = context[n]
  OBVIOUS
<1>2. c = home[n]
  BY <1>1 DEF Inv, Control
<1>3. \A m \in called : home[m] = c
  BY <1>2 DEF WellNamed, Homes, Steps
<1>4. called \subseteq Calls(plan, n) /\ plan.handler[n] \notin called
  BY DEF Calls, WellNamed, IsTree, Steps
<1>5. "running" \notin Asleep
  BY DEF Asleep
<1>6. Control(home)' /\ StaysAsleep
  BY <1>1, <1>2, <1>3, <1>4, <1>5, CallingKeeps DEF Inv
<1> QED
  BY <1>6, RegisteredStays, OwnedUnchanged DEF Inv

LEMMA SnippetKeeps ==
  ASSUME NEW home, WellNamed(plan, home), Inv(home), NEW n \in Steps, Snippet(n)
  PROVE  Inv(home)'
<1>1. /\ pc[n] = "called" /\ pc[n] # "idle" /\ pc[n] \notin Ended
      /\ UNCHANGED <<plan, transOf, trans, base, using>> /\ Owned'
  BY OwnedUnchanged DEF Snippet, Ended, Inv
<1>2. CASE Go(n, "done")
  <2>1. "done" \notin Asleep
    BY DEF Asleep
  <2> QED
    BY <1>1, <1>2, <2>1, GoesOn
<1>3. CASE Throw(n)
  BY <1>1, <1>3, Throws
<1> QED
  BY <1>2, <1>3 DEF Snippet

LEMMA HandlerEndsKeeps ==
  ASSUME NEW home, WellNamed(plan, home), Inv(home), NEW n \in Steps, HandlerEnds(n)
  PROVE  Inv(home)'
<1>1. PICK phase : phase = pc[plan.handler[n]]
  OBVIOUS
<1>2. /\ pc[n] # "idle" /\ phase \in Ended /\ phase \notin Asleep /\ Go(n, phase)
      /\ UNCHANGED <<plan, transOf, trans, base, using>> /\ Owned'
  BY <1>1, OwnedUnchanged DEF HandlerEnds, Ended, Asleep, Inv
<1> QED
  BY <1>2, GoesOn

LEMMA EnterKeeps ==
  ASSUME NEW home, WellNamed(plan, home), Inv(home), NEW n \in Steps, Enter(n)
  PROVE  Inv(home)'
<1>1. /\ pc[n] = "called" /\ pc[n] # "idle" /\ pc[n] \notin Ended /\ pc[n] \in Asleep
      /\ plan.kind[n] # "async"
      /\ UNCHANGED <<plan, transOf, trans, base, using, runners>>
  BY DEF Enter, Kind, Ended, Asleep
<1>2. CASE Kind(n, {"sets"})
  <2>1. Go(n, "running") /\ "running" \notin Asleep /\ Owned'
    BY <1>1, <1>2, OwnedUnchanged DEF Enter, Asleep, Inv
  <2> QED
    BY <1>1, <2>1, GoesOn
<1>3. CASE ~Kind(n, {"sets"})
  <2>1. PICK called : called = ToSet(plan.kids[n])
    OBVIOUS
  <2>2. GoCalling(n, "running", called, context[n])
    BY <1>3, <2>1 DEF Enter, Kids
  <2>3. \A m \in called : pc[m] = "idle"
    BY <1>1, <2>1 DEF Inv, Control
  <2> QED
    BY <1>1, <2>1, <2>2, <2>3, CallsOthers
<1> QED
  BY <1>2, <1>3

LEMMA NextStepKeeps ==
  ASSUME NEW home, WellNamed(plan, home), Inv(home), NEW n \in Steps, NextStep(n)
  PROVE  Inv(home)'
<1>1. /\ pc[n] = "running" /\ pc[n] # "idle" /\ pc[n] \notin Ended
      /\ plan.kind[n] # "async"
      /\ UNCHANGED <<plan, transOf, trans, base, using, runners>>
  BY DEF NextStep, Kind, Ended
<1>2. PICK i \in DOMAIN plan.kids[n] :
        /\ pc[plan.kids[n][i]] = "idle"
        /\ GoCalling(n, "running", {plan.kids[n][i]}, context[n])
  BY DEF NextStep
<1>3. PICK called : called = {plan.kids[n][i]}
  OBVIOUS
<1>4. called \subseteq ToSet(plan.kids[n]) /\ \A m \in called : pc[m] = "idle"
  BY <1>2, <1>3 DEF ToSet
<1> QED
  BY <1>1, <1>2, <1>3, <1>4, CallsOthers

LEMMA LeaveKeeps ==
  ASSUME NEW home, WellNamed(plan, home), Inv(home), NEW n \in Steps, Leave(n)
  PROVE  Inv(home)'
<1>1. /\ pc[n] = "running" /\ pc[n] # "idle" /\ pc[n] \notin Ended
      /\ UNCHANGED <<plan, transOf, trans, base, using>> /\ Owned'
  BY OwnedUnchanged DEF Leave, BodyReturns, BodyThrows, Ended, Inv
<1>2. CASE Go(n, "done")
  <2>1. "done" \notin Asleep
    BY DEF Asleep
  <2> QED
    BY <1>1, <1>2, <2>1, GoesOn
<1>3. CASE Throw(n)
  BY <1>1, <1>3, Throws
<1> QED
  BY <1>2, <1>3 DEF Leave

(* An async step gives its context to its kids, with nothing in it. *)
LEMMA EnterAsyncKeeps ==
  ASSUME NEW home, WellNamed(plan, home), Inv(home), NEW n \in Steps, EnterAsync(n)
  PROVE  Inv(home)'
<1>1. /\ pc[n] = "called" /\ pc[n] # "idle" /\ pc[n] \in Asleep /\ plan.kind[n] = "async"
      /\ UNCHANGED <<plan, trans, base, using, runners>>
      /\ "done" \in Ended /\ "done" \notin Asleep
  BY DEF EnterAsync, Kind, Ended, Asleep
<1>2. PICK called : called = ToSet(plan.kids[n])
  OBVIOUS
<1>3. GoCalling(n, "done", called, n)
  BY <1>2 DEF EnterAsync, Kids
<1>4. \A m \in called : pc[m] = "idle" /\ home[m] = n
  BY <1>1, <1>2 DEF Inv, Control, WellNamed, Homes, Steps
<1>5. called \subseteq Calls(plan, n)
  BY <1>2 DEF Calls
<1>6. Control(home)' /\ StaysAsleep
  BY <1>1, <1>3, <1>4, <1>5, CallingKeeps DEF Inv
<1>7. transOf' = transOf
  BY <1>1 DEF EnterAsync, ClonedTrans, Inv, Registered
<1> QED
  BY <1>1, <1>6, <1>7, RegisteredStays, OwnedUnchanged DEF Inv
-----------------------------------------------------------------------------
(* The steps that call the database. *)

LEMMA RegisteredGrows ==
  ASSUME NEW home, Registered(home), StaysAsleep, UNCHANGED <<plan, transOf, trans>>,
         base' \in [Steps -> Steps \union {None}],
         \A n \in Steps :
           base'[n] # None => home[base'[n]] = home[n] /\ transOf[home[n]] # None,
         DOMAIN using' = Steps, \A n \in Steps : using'[n] \in {None, n}
  PROVE  Registered(home)'
<1>1. Steps' = Steps /\ Keys(plan)' = Keys(plan)
  BY DEF Steps
<1>2. \A h \in Steps : pc'[h] \in Asleep => transOf'[h] = None
  BY DEF Registered, StaysAsleep
<1> QED
  BY <1>1, <1>2 DEF Registered, IsSetOf

(* A call on a runner the step may use, or its release when it refuses. *)
LEMMA AskKeeps ==
  ASSUME NEW home, WellNamed(plan, home), Inv(home), plan' = plan, NEW n \in Steps,
         NEW r, r \in Steps => MayUse(r, n), NEW call, NEW phase, Ask(n, r, call, phase),
         pc[n] # "idle", pc[n] \notin Ended, phase \notin Asleep
  PROVE  Control(home)' /\ StaysAsleep /\ Owned'
<1>1. r \in Steps => RunnerOK(r, runners[r])
  BY DEF Inv, Owned
<1>2. CASE Refuses(runners[r], call)
  <2>1. PICK x : x = Released(runners[r])
    OBVIOUS
  <2>2. runners' = [runners EXCEPT ![r] = x] /\ Throw(n)
    BY <1>2, <2>1 DEF Ask
  <2>3. r \in Steps => RunnerOK(r, x)
    <3>1. PICK y : y = runners[r]
      OBVIOUS
    <3> QED
      BY <1>1, <2>1, <3>1, OpenedOK
  <2>4. Owned'
    BY <2>2, <2>3, OwnedStays DEF Inv
  <2> QED
    BY <2>2, <2>4, ThrowKeeps DEF Inv
<1>3. CASE ~Refuses(runners[r], call)
  <2>1. PICK x : x = Sent(runners[r], call, n)
    OBVIOUS
  <2>2. runners' = [runners EXCEPT ![r] = x] /\ Go(n, phase)
    BY <1>3, <2>1 DEF Ask
  <2>3. r \in Steps => RunnerOK(r, x)
    <3>1. PICK y : y = runners[r]
      OBVIOUS
    <3> QED
      BY <1>1, <2>1, <3>1, SentOK
  <2>4. Owned'
    BY <2>2, <2>3, OwnedStays DEF Inv
  <2> QED
    BY <2>2, <2>4, GoKeeps DEF Inv
<1> QED
  BY <1>2, <1>3

LEMMA AttachFoundKeeps ==
  ASSUME NEW home, WellNamed(plan, home), Inv(home), NEW n \in Steps, AttachFound(n)
  PROVE  Inv(home)'
<1>1. /\ pc[n] # "idle" /\ pc[n] \notin Ended /\ plan.kind[n] = "trans"
      /\ FoundRunner(n) # None /\ "beginning" \notin Asleep
      /\ UNCHANGED <<plan, transOf, trans, base>>
  BY DEF AttachFound, Kind, Ended, Asleep
<1>2. PICK r : r = FoundRunner(n)
  OBVIOUS
<1>3. r = n
  <2>1. IsSetOf(r, plan.key[n], home[n], home)
    BY <1>1, <1>2, FoundIsOfHome DEF Inv
  <2> QED
    BY <1>1, <2>1, FoundByItsSet
<1>4. Ask(n, r, "start", "beginning") /\ MayUse(r, n)
  BY <1>2, <1>3 DEF AttachFound, MayUse
<1>5. Control(home)' /\ StaysAsleep /\ Owned'
  BY <1>1, <1>4, AskKeeps
<1>6. DOMAIN using' = Steps /\ \A m \in Steps : using'[m] \in {None, m}
  BY <1>2, <1>3 DEF AttachFound, Inv, Registered
<1>7. /\ base' \in [Steps -> Steps \union {None}]
      /\ \A m \in Steps :
           base'[m] # None => home[base'[m]] = home[m] /\ transOf[home[m]] # None
  BY <1>1 DEF Inv, Registered
<1>8. Registered(home)'
  BY <1>1, <1>5, <1>6, <1>7, RegisteredGrows DEF Inv
<1> QED
  BY <1>5, <1>8 DEF Inv

(* A set without a runner keeps the `$trans` it sees in mind. *)
LEMMA AttachNewKeeps ==
  ASSUME NEW home, WellNamed(plan, home), Inv(home), NEW n \in Steps, AttachNew(n)
  PROVE  Inv(home)'
<1>1. /\ pc[n] # "idle" /\ pc[n] \notin Ended /\ "connecting" \notin Asleep
      /\ Go(n, "connecting") /\ base' = [base EXCEPT ![n] = transOf[context[n]]]
      /\ UNCHANGED <<plan, transOf, trans, using, runners>>
  BY DEF AttachNew, Ended, Asleep
<1>2. Control(home)' /\ StaysAsleep
  BY <1>1, GoKeeps DEF Inv
<1>3. context[n] = home[n] /\ home[n] \in Steps \union {None}
  BY <1>1 DEF Inv, Control, WellNamed, Homes, Steps
<1>4. /\ transOf[home[n]] \in Steps \union {None}
      /\ transOf[home[n]] # None => home[transOf[home[n]]] = home[n]
  BY <1>3 DEF Inv, Registered
<1>5. /\ base' \in [Steps -> Steps \union {None}]
      /\ \A m \in Steps :
           base'[m] # None => home[base'[m]] = home[m] /\ transOf[home[m]] # None
  BY <1>1, <1>3, <1>4 DEF Inv, Registered
<1>6. DOMAIN using' = Steps /\ \A m \in Steps : using'[m] \in {None, m}
  BY <1>1 DEF Inv, Registered
<1>7. Registered(home)'
  BY <1>1, <1>2, <1>5, <1>6, RegisteredGrows DEF Inv
<1> QED
  BY <1>1, <1>2, <1>7, OwnedUnchanged DEF Inv

(* Its runner goes under its name, and is what it finds there. *)
LEMMA ConnectedKeeps ==
  ASSUME NEW home, WellNamed(plan, home), Inv(home), NEW n \in Steps, Connected(n)
  PROVE  Inv(home)'
<1>1. /\ pc[n] = "connecting" /\ pc[n] # "idle" /\ pc[n] \notin Ended
      /\ pc[n] \notin Asleep /\ plan.kind[n] = "trans" /\ "beginning" \notin Asleep
      /\ UNCHANGED <<plan, base>> /\ PutRunner(n)
  BY DEF Connected, Kind, Ended, Asleep
<1>2. Steps' = Steps /\ Keys(plan)' = Keys(plan)
  BY <1>1 DEF Steps
<1>3. PICK h, k : h = home[n] /\ k = plan.key[n]
  OBVIOUS
<1>4. /\ context[n] = h /\ h \in Steps \union {None} /\ k \in Keys(plan)
      /\ None \notin Steps /\ IsSetOf(n, k, h, home)
  BY <1>1, <1>3 DEF Inv, Control, WellNamed, IsTree, Homes, Steps, Keys, IsSetOf
<1>5. h \in Steps => pc[h] \notin Asleep
  BY <1>1, <1>3, <1>4 DEF Inv, Control
<1>6. PICK o : o = IF base[n] = None THEN n ELSE base[n]
  OBVIOUS
<1>7. o \in Steps /\ home[o] = h /\ (base[n] # None => transOf[h] # None)
  BY <1>3, <1>6 DEF Inv, Registered
<1>8. trans' = [trans EXCEPT ![o][k] = n]
  BY <1>1, <1>3, <1>6 DEF PutRunner, Key
<1>9. transOf' = IF base[n] = None THEN [transOf EXCEPT ![h] = n] ELSE transOf
  BY <1>1, <1>4, <1>6 DEF PutRunner
<1>10. /\ transOf' \in [Steps \union {None} -> Steps \union {None}]
       /\ \A c \in Steps \union {None} : transOf'[c] # None => home[transOf'[c]] = c
       /\ \A c \in Steps \union {None} :
            transOf[c] # None \/ transOf'[c] = None \/ c = h
       /\ \A c \in Steps \union {None} : transOf[c] # None => transOf'[c] # None
       /\ transOf'[h] # None
  BY <1>3, <1>4, <1>7, <1>9 DEF Inv, Registered
<1>11. /\ trans' \in [Steps -> [Keys(plan) -> Steps \union {None}]]
       /\ \A q \in Steps : \A j \in Keys(plan) :
            trans'[q][j] # None => IsSetOf(trans'[q][j], j, home[q], home)
  <2>1. \A q \in Steps : \A j \in Keys(plan) :
          trans'[q][j] = IF q = o /\ j = k THEN n ELSE trans[q][j]
    BY <1>4, <1>7, <1>8 DEF Inv, Registered
  <2>2. trans' \in [Steps -> [Keys(plan) -> Steps \union {None}]]
    BY <1>4, <1>7, <1>8 DEF Inv, Registered
  <2> QED
    BY <1>4, <1>7, <2>1, <2>2 DEF Inv, Registered
<1>12. PICK r : r = trans'[transOf'[h]][k]
  OBVIOUS
<1>13. r = None \/ r = n
  <2>1. transOf'[h] \in Steps /\ home[transOf'[h]] = h
    BY <1>4, <1>10
  <2>2. r # None => IsSetOf(r, k, h, home)
    BY <1>4, <1>11, <1>12, <2>1
  <2> QED
    BY <1>1, <1>3, <2>2, FoundByItsSet
<1>14. PICK x, y : x = Opened(runners[n]) /\ y = Sent(x, "start", n)
  OBVIOUS
<1>15. RunnerOK(n, x) /\ RunnerOK(n, y)
  <2>1. PICK z : z = runners[n]
    OBVIOUS
  <2>2. RunnerOK(n, x)
    BY <1>14, <2>1, OpenedOK DEF Inv, Owned
  <2>3. MayUse(n, n)
    BY DEF MayUse
  <2> QED
    BY <1>14, <2>2, <2>3, SentOK
<1>16. /\ Control(home)' /\ StaysAsleep /\ Owned'
       /\ DOMAIN using' = Steps /\ \A m \in Steps : using'[m] \in {None, m}
  <2>1. CASE r = None
    <3>1. using' = using /\ runners' = [runners EXCEPT ![n] = x] /\ Throw(n)
      BY <1>3, <1>4, <1>12, <1>14, <2>1 DEF Connected, Key
    <3>2. Control(home)' /\ StaysAsleep
      BY <1>1, <3>1, ThrowKeeps DEF Inv
    <3> QED
      BY <1>1, <1>15, <3>1, <3>2, OwnedStays DEF Inv, Registered
  <2>2. CASE r # None
    <3>1. /\ using' = [using EXCEPT ![n] = n]
          /\ runners' = [[runners EXCEPT ![n] = x] EXCEPT ![n] = Sent(@, "start", n)]
          /\ Go(n, "beginning")
      BY <1>3, <1>4, <1>12, <1>13, <1>14, <2>2 DEF Connected, Key
    <3>2. runners' = [runners EXCEPT ![n] = y]
      BY <1>14, <3>1 DEF Inv, Owned
    <3>3. Control(home)' /\ StaysAsleep
      BY <1>1, <3>1, GoKeeps DEF Inv
    <3> QED
      BY <1>1, <1>15, <3>1, <3>2, <3>3, OwnedStays DEF Inv, Registered
  <2> QED
    BY <2>1, <2>2
<1>17. \A q \in Steps : pc'[q] \in Asleep => transOf'[q] = None
  BY <1>5, <1>10, <1>16 DEF StaysAsleep, Inv, Registered
<1>18. \A q \in Steps :
         base'[q] # None => home[base'[q]] = home[q] /\ transOf'[home[q]] # None
  <2>1. \A q \in Steps : home[q] \in Steps \union {None}
    BY DEF WellNamed, Homes, Steps
  <2> QED
    BY <1>1, <1>10, <2>1 DEF Inv, Registered
<1>19. Registered(home)'
  BY <1>1, <1>2, <1>10, <1>11, <1>16, <1>17, <1>18 DEF Registered, Inv, IsSetOf
<1> QED
  BY <1>16, <1>19 DEF Inv

LEMMA ConnectFailsKeeps ==
  ASSUME NEW home, WellNamed(plan, home), Inv(home), NEW n \in Steps, ConnectFails(n)
  PROVE  Inv(home)'
<1>1. /\ pc[n] # "idle" /\ pc[n] \notin Ended /\ Throw(n)
      /\ UNCHANGED <<plan, transOf, trans, base, using>> /\ Owned'
  BY OwnedUnchanged DEF ConnectFails, Ended, Inv
<1> QED
  BY <1>1, Throws

LEMMA EndsKeep ==
  ASSUME NEW home, WellNamed(plan, home), Inv(home), NEW n \in Steps,
         Commit(n) \/ Rollback(n)
  PROVE  Inv(home)'
<1>1. /\ pc[n] # "idle" /\ pc[n] \notin Ended
      /\ UNCHANGED <<plan, transOf, trans, base, using>>
  BY DEF Commit, Rollback, BodyReturns, BodyThrows, Ended
<1>2. PICK r, call, phase : /\ r = using[n] /\ phase \in {"committing", "rollingBack"}
                            /\ Ask(n, r, call, phase)
  BY DEF Commit, Rollback
<1>3. r \in Steps => MayUse(r, n)
  BY <1>2 DEF Inv, Registered, MayUse, WellNamed, IsTree, Steps
<1>4. phase \notin Asleep
  BY <1>2 DEF Asleep
<1>5. Control(home)' /\ StaysAsleep /\ Owned'
  BY <1>1, <1>2, <1>3, <1>4, AskKeeps
<1> QED
  BY <1>1, <1>5, RegisteredStays DEF Inv

LEMMA QueryKeeps ==
  ASSUME NEW home, WellNamed(plan, home), Inv(home), NEW n \in Steps, Query(n)
  PROVE  Inv(home)'
<1>1. /\ pc[n] # "idle" /\ pc[n] \notin Ended /\ plan.kind[n] = "sql"
      /\ "querying" \notin Asleep
      /\ UNCHANGED <<plan, transOf, trans, base, using>>
  BY DEF Query, Kind, Ended, Asleep
<1>2. PICK r : r = FoundRunner(n)
  OBVIOUS
<1>3. CASE Throw(n) /\ UNCHANGED runners
  BY <1>1, <1>3, Throws, OwnedUnchanged DEF Inv
<1>4. CASE /\ r # None /\ Go(n, "querying")
           /\ runners' = [runners EXCEPT ![r] = Sent(@, "query", n)]
  <2>1. IsSetOf(r, plan.key[n], home[n], home)
    BY <1>1, <1>2, <1>4, FoundIsOfHome DEF Inv
  <2>2. MayUse(r, n) /\ r \in Steps
    BY <1>1, <2>1, FoundByItsWriters DEF MayUse, IsSetOf
  <2>3. PICK y, x : y = runners[r] /\ x = Sent(y, "query", n)
    OBVIOUS
  <2>4. RunnerOK(r, x)
    BY <2>2, <2>3, SentOK DEF Inv, Owned
  <2>5. runners' = [runners EXCEPT ![r] = x]
    BY <1>4, <2>2, <2>3 DEF Inv, Owned
  <2>6. Owned'
    BY <1>1, <2>4, <2>5, OwnedStays DEF Inv
  <2> QED
    BY <1>1, <1>4, <2>6, GoesOn
<1> QED
  BY <1>2, <1>3, <1>4 DEF Query

(* An autonomous step has a runner of its own. *)
LEMMA AutonomousKeeps ==
  ASSUME NEW home, WellNamed(plan, home), Inv(home), NEW n \in Steps,
         Autonomous(n) \/ AutonomousConnected(n)
  PROVE  Inv(home)'
<1>1. /\ pc[n] # "idle" /\ pc[n] \notin Ended
      /\ "connecting" \notin Asleep /\ "querying" \notin Asleep
      /\ UNCHANGED <<plan, transOf, trans, base, using>>
  BY DEF Autonomous, AutonomousConnected, Ended, Asleep
<1>2. CASE Autonomous(n)
  <2>1. Go(n, "connecting") /\ Owned'
    BY <1>2, OwnedUnchanged DEF Autonomous, Inv
  <2> QED
    BY <1>1, <2>1, GoesOn
<1>3. CASE AutonomousConnected(n)
  <2>1. PICK z, y, x : z = runners[n] /\ y = Opened(z) /\ x = Sent(y, "query", n)
    OBVIOUS
  <2>2. RunnerOK(n, y)
    BY <2>1, OpenedOK DEF Inv, Owned
  <2>3. RunnerOK(n, x)
    BY <2>1, <2>2, SentOK DEF MayUse
  <2>4. runners' = [runners EXCEPT ![n] = x] /\ Go(n, "querying")
    BY <1>3, <2>1 DEF AutonomousConnected, Inv, Owned
  <2>5. Owned'
    BY <1>1, <2>3, <2>4, OwnedStays DEF Inv
  <2> QED
    BY <1>1, <2>4, <2>5, GoesOn
<1> QED
  BY <1>2, <1>3
-----------------------------------------------------------------------------
(* The database answers, and the step that waits goes on. *)

LEMMA AnsweredKeeps ==
  ASSUME NEW home, WellNamed(plan, home), Inv(home), NEW r \in Steps,
         NEW n, MayUse(r, n), NEW x, RunnerOK(r, x),
         UNCHANGED <<plan, transOf, trans, base, using>>,
         \/ AfterQuery(n, r, x, TRUE) \/ AfterQuery(n, r, x, FALSE) \/ AfterBegin(n, r, x)
         \/ AfterCommit(n, r, x) \/ AfterRollback(n, r, x) \/ RollbackAfter(n, r, x)
  PROVE  Inv(home)'
<1>1. n \in Steps
  BY DEF MayUse
<1>2. pc[n] # "idle" /\ pc[n] \notin Ended
  BY DEF AfterQuery, AfterBegin, AfterCommit, AfterRollback, RollbackAfter, Ended
<1>3. \/ Throw(n)
      \/ Go(n, "done") \/ Go(n, "running") \/ Go(n, "rollingBack")
  BY DEF AfterQuery, AfterBegin, AfterCommit, AfterRollback, RollbackAfter
<1>4. PICK y, z : y = Released(x) /\ z = Sent(x, "rollback", n)
  OBVIOUS
<1>5. RunnerOK(r, y) /\ RunnerOK(r, z)
  BY <1>4, OpenedOK, SentOK
<1>6. PICK w : w \in {x, y, z} /\ runners' = [runners EXCEPT ![r] = w]
  BY <1>4 DEF AfterQuery, AfterBegin, AfterCommit, AfterRollback, RollbackAfter, ReleaseAfter
<1>7. Owned'
  BY <1>5, <1>6, OwnedStays DEF Inv
<1>8. CASE Throw(n)
  BY <1>1, <1>2, <1>7, <1>8, Throws
<1>9. CASE Go(n, "done") \/ Go(n, "running") \/ Go(n, "rollingBack")
  <2>1. PICK phase \in {"done", "running", "rollingBack"} : Go(n, phase)
    BY <1>9
  <2>2. phase \notin Asleep
    BY DEF Asleep
  <2> QED
    BY <1>1, <1>2, <1>7, <2>1, <2>2, GoesOn
<1> QED
  BY <1>3, <1>8, <1>9

LEMMA AnswersKeep ==
  ASSUME NEW home, WellNamed(plan, home), Inv(home), NEW r \in Steps,
         Answer(r) \/ AnswerError(r)
  PROVE  Inv(home)'
<1>1. PICK x, n : x = runners[r] /\ n = Head(x.wire).by
  OBVIOUS
<1>2. x.wire # <<>> /\ UNCHANGED <<plan, transOf, trans, base, using>>
  BY <1>1 DEF Answer, AnswerError
<1>3. RunnerOK(r, x)
  BY <1>1 DEF Inv, Owned
<1>4. PICK s, f : s = Succeeded(x) /\ f = Failed(x)
  OBVIOUS
<1>5. RunnerOK(r, s) /\ RunnerOK(r, f) /\ MayUse(r, n)
  BY <1>1, <1>2, <1>3, <1>4, AnsweredOK
<1>6. CASE Answer(r)
  <2>1. \/ AfterQuery(n, r, s, TRUE) \/ AfterBegin(n, r, s)
        \/ AfterCommit(n, r, s) \/ AfterRollback(n, r, s)
    BY <1>1, <1>4, <1>6 DEF Answer
  <2> QED
    BY <1>2, <1>5, <2>1, AnsweredKeeps
<1>7. CASE AnswerError(r)
  <2>1. \/ AfterQuery(n, r, f, FALSE) \/ RollbackAfter(n, r, f)
        \/ AfterRollback(n, r, f)
    BY <1>1, <1>4, <1>7 DEF AnswerError
  <2> QED
    BY <1>2, <1>5, <2>1, AnsweredKeeps
<1> QED
  BY <1>6, <1>7
-----------------------------------------------------------------------------
LEMMA Initially ==
  ASSUME NEW home, WellNamed(plan, home), Init
  PROVE  Inv(home)
<1>1. 1 \in Steps /\ None \notin Steps
  BY DEF WellNamed, IsTree, Steps
<1>2. Control(home)
  <2>1. home[1] = None
    BY DEF WellNamed, Homes
  <2>2. \A n \in Steps : Calls(plan, n) \subseteq Steps \ {1}
    BY DEF WellNamed, IsTree, Steps
  <2>3. \A n \in Steps : \A m \in ToSet(plan.kids[n]) : pc[m] = "idle"
    BY <2>2 DEF Init, Calls
  <2>4. \A n \in Steps : plan.handler[n] # None => pc[plan.handler[n]] = "idle"
    BY <2>2 DEF Init, Calls
  <2> QED
    BY <2>1, <2>3, <2>4 DEF Init, Control
<1>3. Registered(home)
  BY <1>1 DEF Init, Registered
<1>4. Owned
  <2>1. PICK x : x = NewRunner
    OBVIOUS
  <2>2. DOMAIN x = {"state", "active", "depth", "wire", "stack"} /\ x.wire = <<>>
    BY <2>1 DEF NewRunner
  <2>3. x.wire \in Seq({}) /\ Len(x.wire) = 0
    BY <2>2
  <2>4. \A r : RunnerOK(r, x)
    BY <2>2, <2>3 DEF RunnerOK, IsSeq
  <2> QED
    BY <2>1, <2>4 DEF Init, Owned
<1> QED
  BY <1>2, <1>3, <1>4 DEF Inv

LEMMA PlanStays ==
  ASSUME [Next]_vars
  PROVE  plan' = plan
  BY DEF Next, vars, Snippet, HandlerEnds, Enter, EnterAsync, NextStep, Leave, AttachFound,
         AttachNew, Connected, ConnectFails, Commit, Rollback, Query, Autonomous,
         AutonomousConnected, Answer, AnswerError

LEMMA StepsKeep ==
  ASSUME NEW home, WellNamed(plan, home), Inv(home), [Next]_vars
  PROVE  Inv(home)'
<1>1. ASSUME NEW n \in Steps, Snippet(n)
      PROVE  Inv(home)'
  BY <1>1, SnippetKeeps
<1>2. ASSUME NEW n \in Steps, HandlerEnds(n)
      PROVE  Inv(home)'
  BY <1>2, HandlerEndsKeeps
<1>3. ASSUME NEW n \in Steps, Enter(n) \/ EnterAsync(n)
      PROVE  Inv(home)'
  BY <1>3, EnterKeeps, EnterAsyncKeeps
<1>4. ASSUME NEW n \in Steps, NextStep(n) \/ Leave(n)
      PROVE  Inv(home)'
  BY <1>4, NextStepKeeps, LeaveKeeps
<1>5. ASSUME NEW n \in Steps, AttachFound(n) \/ AttachNew(n)
      PROVE  Inv(home)'
  BY <1>5, AttachFoundKeeps, AttachNewKeeps
<1>6. ASSUME NEW n \in Steps, Connected(n) \/ ConnectFails(n)
      PROVE  Inv(home)'
  BY <1>6, ConnectedKeeps, ConnectFailsKeeps
<1>7. ASSUME NEW n \in Steps, Commit(n) \/ Rollback(n)
      PROVE  Inv(home)'
  BY <1>7, EndsKeep
<1>8. ASSUME NEW n \in Steps, Query(n) \/ Autonomous(n) \/ AutonomousConnected(n)
      PROVE  Inv(home)'
  BY <1>8, QueryKeeps, AutonomousKeeps
<1>9. ASSUME NEW n \in Steps, Answer(n) \/ AnswerError(n)
      PROVE  Inv(home)'
  BY <1>9, AnswersKeep
<1>10. ASSUME UNCHANGED vars
       PROVE  Inv(home)'
  <2>1. StaysAsleep /\ Control(home)'
    BY <1>10 DEF vars, StaysAsleep, Inv, Control, Steps
  <2> QED
    BY <1>10, <2>1, RegisteredStays, OwnedUnchanged DEF vars, Inv
<1> QED
  BY <1>1, <1>2, <1>3, <1>4, <1>5, <1>6, <1>7, <1>8, <1>9, <1>10 DEF Next

IInv == \E home : WellNamed(plan, home) /\ Inv(home)

LEMMA Invariance == IInv /\ [Next]_vars => IInv'
<1> SUFFICES ASSUME IInv, [Next]_vars
             PROVE  IInv'
  OBVIOUS
<1>1. PICK home : WellNamed(plan, home) /\ Inv(home)
  BY DEF IInv
<1>2. WellNamed(plan, home)'
  BY <1>1, PlanStays
<1>3. Inv(home)'
  BY <1>1, StepsKeep
<1> QED
  BY <1>2, <1>3 DEF IInv

(* A connection carries only statements of the set that opened it and of   *)
(* the steps meant for it (attachMineToInternalContext, createRunner), in  *)
(* every tree of steps whose names tell the sets of a context apart: an    *)
(* async step never carries the transaction of its caller along.           *)
THEOREM OwnConnectionAlways ==
  ASSUME \A p \in Plans : \E home : WellNamed(p, home)
  PROVE  Spec => []OwnConnection
<1>1. ASSUME Init
      PROVE  IInv
  <2>1. PICK home : WellNamed(plan, home)
    BY <1>1 DEF Init
  <2> QED
    BY <1>1, <2>1, Initially DEF IInv
<1>2. IInv => OwnConnection
  BY DEF IInv, Inv, Owned, RunnerOK, MayUse, OwnConnection
<1> QED
  BY <1>1, <1>2, Invariance, PTL DEF Spec
-----------------------------------------------------------------------------
(* Transactions whose steps write one after another.                       *)

Active(m) == pc[m] \notin {"idle", "done", "failed"}

Before == {"idle", "called", "connecting"}
Unbegun == {"idle", "called", "connecting", "beginning"}
WithRunner == {"beginning", "running", "committing", "rollingBack"}
OneByOneKinds == {"sets", "trans"}

(* The kids of a set run one at a time while it runs, a handler while its  *)
(* step waits for it.                                                      *)
InTurn ==
  /\ \A q \in Steps : plan.kind[q] \in OneByOneKinds =>
       /\ \A i, j \in DOMAIN plan.kids[q] :
            i < j /\ pc[plan.kids[q][j]] # "idle" => pc[plan.kids[q][i]] = "done"
       /\ \A m \in ToSet(plan.kids[q]) :
            /\ Active(m) => pc[q] = "running"
            /\ pc[q] \in Unbegun => pc[m] = "idle"
  /\ \A q \in Steps :
       plan.handler[q] # None /\ Active(plan.handler[q]) => pc[q] = "handling"

(* Only some steps wait for the database, and for a handler. *)
Phases ==
  \A q \in Steps :
    /\ pc[q] = "handling" => plan.handler[q] # None
    /\ pc[q] \in {"beginning", "committing", "rollingBack"} => plan.kind[q] = "trans"
    /\ pc[q] = "querying" => plan.kind[q] \in {"sql", "autonomous"}

(* The runner whose connection a step writes to. *)
RunnerOf(n) == IF plan.kind[n] = "sql" THEN plan.owner[n] ELSE n

WaitsIn == [begin |-> "beginning", write |-> "querying", commit |-> "committing",
            rollback |-> "rollingBack"]

(* On the wire of a runner are the statements of the steps that wait for   *)
(* it, one of each.                                                        *)
Wired(r, wire) ==
  /\ \E S : wire \in Seq(S)
  /\ \A i \in 1..Len(wire) :
       /\ wire[i].by \in Steps /\ r = RunnerOf(wire[i].by)
       /\ wire[i].sql \in DOMAIN WaitsIn /\ pc[wire[i].by] = WaitsIn[wire[i].sql]
  /\ \A i, j \in 1..Len(wire) : wire[i].by = wire[j].by => i = j

Writers(o) == {n \in Steps : plan.kind[n] = "sql" /\ plan.owner[n] = o}

(* The session is in the transaction of set r and knows its writes. *)
InTransaction(r, x) ==
  /\ x.depth = 1
  /\ x.stack \in Seq(SUBSET Writers(r)) /\ Len(x.stack) = 1
  /\ \A n \in Writers(r) : Succeeds(n) => n \in x.stack[1]

(* The runner of a transactional set, and the session, by its phase. *)
OfSet(r, x) ==
  /\ pc[r] \in Before => x = NewRunner
  /\ pc[r] \in WithRunner => using[r] = r /\ x.state = "open" /\ x.active
  /\ pc[r] = "beginning" => x.depth = 0 /\ x.stack = <<>>
  /\ pc[r] \in {"running", "committing"} => InTransaction(r, x)
  /\ pc[r] = "rollingBack" => x.depth \in {0, 1}
  /\ pc[r] \notin Before \union WithRunner => x.stack = <<>>

OfStep(r, x) ==
  /\ Wired(r, x.wire)
  /\ plan.kind[r] = "trans" => OfSet(r, x)
  /\ plan.kind[r] = "autonomous" =>
       x.stack = <<>> /\ (x.state = "released" => pc[r] \in Ended)
  /\ plan.kind[r] \notin {"trans", "autonomous"} => x = NewRunner

Sessions == \A r \in Steps : OfStep(r, runners[r])

(* A runner is found only when it is connected. *)
FoundConnected ==
  \A o \in Steps : \A k \in Keys(plan) :
    trans[o][k] # None => pc[trans[o][k]] \notin Before

(* What is durable of a transaction, by how its set ended. *)
Durable ==
  \A n \in SqlSteps :
    LET o == plan.owner[n] IN
    /\ n \in committed => Succeeds(o)
    /\ Succeeds(o) /\ Succeeds(n) => n \in committed
-----------------------------------------------------------------------------
(* Step n goes on, and calls some of its steps. *)
Moves(n, called) ==
  /\ Active(n) /\ n \notin called
  /\ called \subseteq Calls(plan, n) /\ called \subseteq Steps
  /\ \A m \in called : pc[m] = "idle" /\ pc'[m] = "called"
  /\ \A m \in Steps \ (called \union {n}) : pc'[m] = pc[m]
  /\ pc'[n] \notin Asleep
  /\ pc'[n] \in Before => pc[n] \in Before
  /\ pc'[n] \in Unbegun => pc[n] \in Unbegun
  /\ pc[n] \in Ended => pc'[n] \in Ended

(* It keeps to the order of its kids, and waits for them. *)
KeepsTurn(n, called) ==
  /\ plan.kind[n] \in OneByOneKinds =>
       /\ \A m \in called \intersect ToSet(plan.kids[n]) :
            /\ pc'[n] = "running"
            /\ \E i \in DOMAIN plan.kids[n] :
                 /\ plan.kids[n][i] = m
                 /\ \A j \in 1..(i - 1) : pc[plan.kids[n][j]] = "done"
       /\ pc[n] = "running" /\ pc'[n] # "running" => BodyReturns(n) \/ BodyThrows(n)
  /\ plan.handler[n] \in called => pc'[n] = "handling"
  /\ pc'[n] = "handling" => plan.handler[n] # None
  /\ pc[n] = "handling" => pc[plan.handler[n]] \in {"done", "failed"}

LEMMA CalledByOne ==
  ASSUME IsTree(plan), NoCycles(plan), NEW n \in Steps, NEW m \in Calls(plan, n)
  PROVE  m \in Steps /\ m # n /\ \A q \in Steps : m \in Calls(plan, q) => q = n
<1>1. m \in Steps /\ \A q \in Steps : m \in Calls(plan, q) => q = n
  BY DEF IsTree, Steps
<1>2. n \notin Calls(plan, n)
  <2>1. PICK T : T = {n}
    OBVIOUS
  <2>2. T \in SUBSET Steps /\ T # {}
    BY <2>1
  <2>3. \E q \in T : \A p \in T : q \notin Calls(plan, p)
    BY <2>2 DEF NoCycles, Steps
  <2> QED
    BY <2>1, <2>3
<1> QED
  BY <1>1, <1>2

(* What a step calls comes in its turn. *)
LEMMA TurnKeeps ==
  ASSUME IsTree(plan), NoCycles(plan), InTurn, plan' = plan, NEW n \in Steps, NEW called,
         Moves(n, called), KeepsTurn(n, called)
  PROVE  InTurn'
<1>1. Steps' = Steps
  BY DEF Steps
<1>2. /\ \A m \in Steps : pc[m] \in {"done", "failed"} => pc'[m] = pc[m]
      /\ \A m \in Steps : pc'[m] # "idle" => pc[m] # "idle" \/ m \in called
      /\ \A m \in Steps : Active(m)' => Active(m) \/ m \in called
  BY DEF Moves, Active
<1>3. ASSUME NEW q \in Steps, plan.kind[q] \in OneByOneKinds
      PROVE  /\ \A i, j \in DOMAIN plan.kids[q] :
                  i < j /\ pc'[plan.kids[q][j]] # "idle" => pc'[plan.kids[q][i]] = "done"
             /\ \A m \in ToSet(plan.kids[q]) :
                  /\ Active(m)' => pc'[q] = "running"
                  /\ pc'[q] \in Unbegun => pc'[m] = "idle"
  <2>1. /\ plan.kids[q] \in Seq(Steps)
        /\ \A i, j \in DOMAIN plan.kids[q] : plan.kids[q][i] = plan.kids[q][j] => i = j
    BY DEF NoCycles, Steps
  <2>2. /\ \A i \in DOMAIN plan.kids[q] : plan.kids[q][i] \in ToSet(plan.kids[q])
        /\ DOMAIN plan.kids[q] \subseteq Int
    BY <2>1 DEF ToSet
  <2>3. \A m \in ToSet(plan.kids[q]) : m \in Calls(plan, q) /\ m \in Steps /\ m # q
    BY CalledByOne DEF Calls
  <2>4. \A m \in ToSet(plan.kids[q]) : m \in called => q = n
    BY <2>3, CalledByOne DEF Moves
  <2>5. ASSUME NEW i \in DOMAIN plan.kids[q], NEW j \in DOMAIN plan.kids[q], i < j,
               pc'[plan.kids[q][j]] # "idle"
        PROVE  pc'[plan.kids[q][i]] = "done"
    <3>1. CASE plan.kids[q][j] \in called
      <4>1. q = n /\ plan.kids[q][j] \in called \intersect ToSet(plan.kids[n])
        BY <2>2, <2>4, <3>1
      <4>2. \A k \in 1..(j - 1) : pc[plan.kids[q][k]] = "done"
        BY <1>3, <2>1, <4>1 DEF KeepsTurn
      <4>3. i \in 1..(j - 1)
        BY <2>1, <2>5
      <4> QED
        BY <1>2, <2>2, <2>3, <4>2, <4>3
    <3>2. CASE plan.kids[q][j] \notin called
      <4>1. pc[plan.kids[q][j]] # "idle"
        BY <1>2, <2>2, <2>3, <2>5, <3>2
      <4>2. pc[plan.kids[q][i]] = "done"
        BY <1>3, <2>5, <4>1 DEF InTurn
      <4> QED
        BY <1>2, <2>2, <2>3, <4>2
    <3> QED
      BY <3>1, <3>2
  <2>6. ASSUME NEW m \in ToSet(plan.kids[q]), Active(m)'
        PROVE  pc'[q] = "running"
    <3>1. CASE m \in called
      BY <1>3, <2>4, <3>1 DEF KeepsTurn
    <3>2. CASE m \notin called
      <4>1. Active(m) /\ pc[q] = "running"
        BY <1>2, <1>3, <2>3, <2>6, <3>2 DEF InTurn
      <4>2. CASE q # n
        BY <4>1, <4>2 DEF Moves
      <4>3. CASE q = n /\ pc'[q] # "running"
        <5>1. BodyReturns(n) \/ BodyThrows(n)
          BY <1>3, <4>1, <4>3 DEF KeepsTurn
        <5>2. ~BodyReturns(n)
          BY <1>3, <4>1, <4>3 DEF BodyReturns, Kind, Kids, OneByOneKinds, Active
        <5>3. PICK f \in ToSet(plan.kids[q]) : pc[f] = "failed"
          BY <4>3, <5>1, <5>2 DEF BodyThrows, Kids
        <5>4. PICK i, j \in DOMAIN plan.kids[q] : plan.kids[q][i] = m /\ plan.kids[q][j] = f
          BY <2>1, <5>3 DEF ToSet
        <5>5. i = j \/ i < j \/ j < i
          BY <2>2, <5>4
        <5> QED
          BY <1>3, <4>1, <5>3, <5>4, <5>5 DEF InTurn, Active
      <4> QED
        BY <4>2, <4>3
    <3> QED
      BY <3>1, <3>2
  <2>7. ASSUME NEW m \in ToSet(plan.kids[q]), pc'[q] \in Unbegun
        PROVE  pc'[m] = "idle"
    <3>1. m \notin called
      BY <1>3, <2>4, <2>7 DEF KeepsTurn, Unbegun
    <3>2. q \notin called => pc[q] \in Unbegun
      BY <2>7 DEF Moves
    <3>3. q \in called => pc[q] \in Unbegun
      BY DEF Moves, Unbegun
    <3>4. pc[m] = "idle"
      BY <1>3, <3>2, <3>3 DEF InTurn
    <3> QED
      BY <1>2, <2>3, <3>1, <3>4
  <2> QED
    BY <2>5, <2>6, <2>7
<1>4. ASSUME NEW q \in Steps, plan.handler[q] # None, Active(plan.handler[q])'
      PROVE  pc'[q] = "handling"
  <2>1. plan.handler[q] \in Calls(plan, q) /\ plan.handler[q] \in Steps
    BY <1>4, CalledByOne DEF Calls
  <2>2. CASE plan.handler[q] \in called
    <3>1. q = n
      BY <2>1, <2>2, CalledByOne DEF Moves
    <3> QED
      BY <2>2, <3>1 DEF KeepsTurn
  <2>3. CASE plan.handler[q] \notin called
    <3>1. Active(plan.handler[q]) /\ pc[q] = "handling"
      BY <1>2, <1>4, <2>1, <2>3 DEF InTurn
    <3>2. q # n
      BY <3>1 DEF KeepsTurn, Active
    <3> QED
      BY <3>1, <3>2 DEF Moves
  <2> QED
    BY <2>2, <2>3
<1>5. \A q \in Steps : Active(q)' <=> pc'[q] \notin {"idle", "done", "failed"}
  BY DEF Active
<1> QED
  BY <1>1, <1>3, <1>4, <1>5 DEF InTurn, Active

(* Nothing inside a set runs unless the set does. *)
LEMMA Quiet ==
  ASSUME NEW inside, IsTree(plan), OneByOne(plan, inside), InTurn,
         NEW o \in Steps, plan.kind[o] = "trans", pc[o] # "running",
         NEW m \in inside[o]
  PROVE  ~Active(m)
<1>1. PICK T : T = {q \in inside[o] : Active(q)}
  OBVIOUS
<1>2. inside[o] \subseteq Steps /\ None \notin Steps
  BY DEF OneByOne, IsTree, Steps
<1>3. ASSUME T # {}
      PROVE  FALSE
  <2>1. PICK w \in T : \A q \in T : w \notin Calls(plan, q)
    <3>1. T \in SUBSET Steps
      BY <1>1, <1>2
    <3> QED
      BY <1>3, <3>1 DEF OneByOne, NoCycles, Steps
  <2>2. w \in inside[o] /\ Active(w) /\ w # None
    BY <1>1, <1>2, <2>1
  <2>3. w \notin ToSet(plan.kids[o])
    BY <2>2 DEF InTurn, OneByOneKinds
  <2>4. PICK q \in inside[o] :
          \/ w = plan.handler[q]
          \/ plan.kind[q] \in OneByOneKinds /\ w \in ToSet(plan.kids[q])
    BY <2>2, <2>3 DEF OneByOne, OneByOneKinds, Steps
  <2>5. q \in Steps /\ w \in Calls(plan, q)
    BY <1>2, <2>2, <2>4 DEF Calls
  <2>6. pc[q] \in {"handling", "running"}
    BY <2>2, <2>4, <2>5 DEF InTurn
  <2>7. q \in T
    BY <1>1, <2>6 DEF Active
  <2> QED
    BY <2>1, <2>5, <2>7
<1> QED
  BY <1>1, <1>3

(* Nothing inside a set has been called before its transaction has begun. *)
LEMMA Untouched ==
  ASSUME NEW home, NEW inside, IsTree(plan), OneByOne(plan, inside), Control(home), InTurn,
         NEW o \in Steps, plan.kind[o] = "trans", pc[o] \in Unbegun,
         NEW m \in inside[o]
  PROVE  pc[m] = "idle"
<1>1. PICK T : T = {q \in inside[o] : pc[q] # "idle"}
  OBVIOUS
<1>2. inside[o] \subseteq Steps /\ None \notin Steps
  BY DEF OneByOne, IsTree, Steps
<1>3. ASSUME T # {}
      PROVE  FALSE
  <2>1. PICK w \in T : \A q \in T : w \notin Calls(plan, q)
    <3>1. T \in SUBSET Steps
      BY <1>1, <1>2
    <3> QED
      BY <1>3, <3>1 DEF OneByOne, NoCycles, Steps
  <2>2. w \in inside[o] /\ pc[w] # "idle" /\ w # None
    BY <1>1, <1>2, <2>1
  <2>3. w \notin ToSet(plan.kids[o])
    BY <2>2 DEF InTurn, OneByOneKinds
  <2>4. PICK q \in inside[o] :
          \/ w = plan.handler[q]
          \/ plan.kind[q] \in OneByOneKinds /\ w \in ToSet(plan.kids[q])
    BY <2>2, <2>3 DEF OneByOne, OneByOneKinds, Steps
  <2>5. q \in Steps /\ w \in Calls(plan, q)
    BY <1>2, <2>2, <2>4 DEF Calls
  <2>6. pc[q] # "idle"
    BY <2>2, <2>4, <2>5 DEF InTurn, Control, Ended, Unbegun
  <2>7. q \in T
    BY <1>1, <2>6
  <2> QED
    BY <2>1, <2>5, <2>7
<1> QED
  BY <1>1, <1>3

LEMMA WritersInside ==
  ASSUME NEW inside, OneByOne(plan, inside), NEW n \in SqlSteps
  PROVE  /\ plan.owner[n] \in Steps /\ plan.kind[plan.owner[n]] = "trans"
         /\ n \in inside[plan.owner[n]] /\ n \in Writers(plan.owner[n])
  BY DEF OneByOne, SqlSteps, Writers, Steps

(* A step that has ended well without its handler stays so, and only a     *)
(* step that moves to "done" gets there.                                   *)
LEMMA SucceedsStays ==
  ASSUME IsTree(plan), NoCycles(plan), plan' = plan, NEW n \in Steps, NEW called,
         Moves(n, called), NEW w \in Steps
  PROVE  /\ Succeeds(w) => Succeeds(w)'
         /\ Succeeds(w)' => Succeeds(w) \/ w = n
<1>1. plan.handler[w] # None => plan.handler[w] \in Calls(plan, w)
  BY DEF Calls
<1>2. pc[w] = "done" => w # n /\ w \notin called /\ pc'[w] = "done"
  BY DEF Moves, Active
<1>3. w # n /\ pc'[w] = "done" => pc[w] = "done"
  BY DEF Moves
<1>4. plan.handler[w] # None /\ pc[plan.handler[w]] # "idle" => pc'[plan.handler[w]] # "idle"
  BY <1>1, CalledByOne DEF Moves, Asleep
<1>5. w # n /\ plan.handler[w] # None /\ pc[plan.handler[w]] = "idle" /\ pc[w] = "done" =>
        pc'[plan.handler[w]] = "idle"
  BY <1>1, CalledByOne DEF Moves, Active
<1> QED
  BY <1>2, <1>3, <1>4, <1>5 DEF Succeeds, HandlerRan
-----------------------------------------------------------------------------
(* The runners that the move of a step leaves alone. *)

Waiting == {"beginning", "querying", "committing", "rollingBack"}

LEMMA NotOnWire ==
  ASSUME NEW r, NEW wire, Wired(r, wire), NEW n, pc[n] \notin Waiting \/ RunnerOf(n) # r
  PROVE  \A i \in 1..Len(wire) : wire[i].by # n
<1>1. \A i \in 1..Len(wire) : pc[wire[i].by] \in Waiting /\ RunnerOf(wire[i].by) = r
  BY DEF Wired, WaitsIn, Waiting
<1> QED
  BY <1>1

LEMMA WiredStays ==
  ASSUME plan' = plan, NEW n \in Steps, NEW called, Moves(n, called), NEW r,
         NEW wire, Wired(r, wire), \A i \in 1..Len(wire) : wire[i].by # n
  PROVE  Wired(r, wire)'
<1>1. ASSUME NEW i \in 1..Len(wire)
      PROVE  pc'[wire[i].by] = pc[wire[i].by]
  <2>1. pc[wire[i].by] \in Waiting /\ wire[i].by \in Steps
    BY DEF Wired, WaitsIn, Waiting
  <2>2. wire[i].by \notin called
    BY <2>1 DEF Moves, Waiting
  <2> QED
    BY <2>1, <2>2 DEF Moves
<1>2. Steps' = Steps /\ (\A w : RunnerOf(w)' = RunnerOf(w)) /\ WaitsIn' = WaitsIn
  BY DEF RunnerOf, WaitsIn, Steps
<1> QED
  BY <1>1, <1>2 DEF Wired

(* The head of the wire is answered, and its step goes on. *)
LEMMA TailWired ==
  ASSUME NEW r, NEW wire, Wired(r, wire), wire # <<>>
  PROVE  /\ Wired(r, Tail(wire))
         /\ \A i \in 1..Len(Tail(wire)) : Tail(wire)[i].by # Head(wire).by
         /\ Head(wire).by \in Steps /\ RunnerOf(Head(wire).by) = r
         /\ Head(wire).sql \in DOMAIN WaitsIn
         /\ pc[Head(wire).by] = WaitsIn[Head(wire).sql]
<1>1. PICK S : wire \in Seq(S)
  BY DEF Wired
<1>2. PICK w : w = Tail(wire)
  OBVIOUS
<1>3. /\ w \in Seq(S) /\ Len(wire) \in Nat \ {0} /\ Len(w) = Len(wire) - 1
      /\ \A i \in 1..Len(w) : w[i] = wire[i + 1]
      /\ Head(wire) = wire[1] /\ 1 \in 1..Len(wire)
  BY <1>1, <1>2
<1>4. \A i \in 1..Len(w) : i + 1 \in 1..Len(wire) /\ i + 1 # 1
  BY <1>3
<1>5. \A i \in 1..Len(w) : w[i].by # wire[1].by
  BY <1>3, <1>4 DEF Wired
<1>6. \A i \in 1..Len(w) :
        /\ w[i].by \in Steps /\ r = RunnerOf(w[i].by)
        /\ w[i].sql \in DOMAIN WaitsIn /\ pc[w[i].by] = WaitsIn[w[i].sql]
  BY <1>3, <1>4 DEF Wired
<1>7. \A i, j \in 1..Len(w) : w[i].by = w[j].by => i = j
  <2>1. ASSUME NEW i \in 1..Len(w), NEW j \in 1..Len(w), w[i].by = w[j].by
        PROVE  i = j
    <3>1. i + 1 = j + 1
      BY <1>3, <1>4, <2>1 DEF Wired
    <3> QED
      BY <1>3, <3>1
  <2> QED
    BY <2>1
<1>8. Wired(r, w)
  BY <1>3, <1>6, <1>7 DEF Wired
<1> QED
  BY <1>2, <1>3, <1>5, <1>8 DEF Wired

(* A step sends a statement, and waits for it. *)
LEMMA AppendWired ==
  ASSUME plan' = plan, NEW r, NEW wire, Wired(r, wire)', NEW n \in Steps, RunnerOf(n) = r,
         \A i \in 1..Len(wire) : wire[i].by # n,
         NEW e, e.by = n, e.sql \in DOMAIN WaitsIn, pc'[n] = WaitsIn[e.sql]
  PROVE  Wired(r, Append(wire, e))'
<1>1. PICK S : wire \in Seq(S)
  BY DEF Wired
<1>2. PICK w : w = Append(wire, e)
  OBVIOUS
<1>3. /\ w \in Seq(S \union {e}) /\ Len(w) = Len(wire) + 1 /\ Len(wire) \in Nat
      /\ w[Len(wire) + 1] = e /\ \A i \in 1..Len(wire) : w[i] = wire[i]
  <2>1. wire \in Seq(S \union {e})
    BY <1>1
  <2> QED
    BY <1>2, <2>1
<1>4. \A i \in 1..Len(w) : i \in 1..Len(wire) \/ i = Len(wire) + 1
  BY <1>3
<1>5. Steps' = Steps /\ (\A q : RunnerOf(q)' = RunnerOf(q)) /\ WaitsIn' = WaitsIn
  BY DEF RunnerOf, WaitsIn, Steps
<1>6. \A i \in 1..Len(wire) :
        /\ wire[i].by \in Steps /\ r = RunnerOf(wire[i].by)
        /\ wire[i].sql \in DOMAIN WaitsIn /\ pc'[wire[i].by] = WaitsIn[wire[i].sql]
  BY <1>5 DEF Wired
<1>7. \A i \in 1..Len(w) :
        /\ w[i].by \in Steps /\ r = RunnerOf(w[i].by)
        /\ w[i].sql \in DOMAIN WaitsIn /\ pc'[w[i].by] = WaitsIn[w[i].sql]
  BY <1>3, <1>4, <1>6
<1>8. \A i, j \in 1..Len(wire) : wire[i].by = wire[j].by => i = j
  BY DEF Wired
<1>9. \A i, j \in 1..Len(w) : w[i].by = w[j].by => i = j
  BY <1>3, <1>4, <1>8
<1>10. Wired(r, w)'
  BY <1>3, <1>5, <1>7, <1>9 DEF Wired
<1> QED
  BY <1>2, <1>10

LEMMA OthersStay ==
  ASSUME IsTree(plan), NoCycles(plan), plan' = plan, NEW n \in Steps, NEW called,
         Moves(n, called), NEW r \in Steps, r # n, NEW x, OfStep(r, x), using'[r] = using[r],
         pc[n] \notin Waiting \/ RunnerOf(n) # r,
         n \in Writers(r) => ~Succeeds(n)'
  PROVE  OfStep(r, x)'
<1>1. Steps' = Steps /\ Writers(r)' = Writers(r)
  BY DEF Steps, Writers
<1>2. Wired(r, x.wire)'
  <2>1. PICK wire : wire = x.wire
    OBVIOUS
  <2>2. Wired(r, wire)
    BY <2>1 DEF OfStep
  <2>3. \A i \in 1..Len(wire) : wire[i].by # n
    BY <2>2, NotOnWire
  <2> QED
    BY <2>1, <2>2, <2>3, WiredStays
<1>3. \A w \in Writers(r) : Succeeds(w)' => Succeeds(w)
  BY SucceedsStays DEF Writers
<1>4. CASE r \in called
  <2>1. pc[r] = "idle" /\ pc'[r] = "called"
    BY <1>4 DEF Moves
  <2>2. OfSet(r, x) => OfSet(r, x)'
    BY <2>1 DEF OfSet, Before, WithRunner, Ended
  <2>3. (plan.kind[r] = "autonomous" => x.stack = <<>> /\ x.state # "released")
    BY <2>1 DEF OfStep, Ended
  <2> QED
    BY <1>2, <2>2, <2>3 DEF OfStep
<1>5. CASE r \notin called
  <2>1. pc'[r] = pc[r]
    BY <1>5 DEF Moves
  <2>2. InTransaction(r, x) => InTransaction(r, x)'
    BY <1>1, <1>3 DEF InTransaction
  <2>3. OfSet(r, x) => OfSet(r, x)'
    BY <2>1, <2>2 DEF OfSet
  <2> QED
    BY <1>2, <2>1, <2>3 DEF OfStep
<1> QED
  BY <1>4, <1>5

LEMMA AtRunner ==
  ASSUME NEW r, NEW x, x = runners'[r], OfStep(r, x)'
  PROVE  OfStep(r, runners[r])'
  BY DEF OfStep, OfSet, InTransaction, Wired

(* A step moves, and a runner of its own or of its set changes. *)
LEMMA SessionsKeep ==
  ASSUME IsTree(plan), NoCycles(plan), plan' = plan, NEW n \in Steps, NEW called,
         Moves(n, called), Sessions, NEW r \in Steps, NEW x, OfStep(r, x)',
         \A q \in Steps : runners'[q] = IF q = r THEN x ELSE runners[q],
         r # n => plan.kind[n] = "sql",
         \A q \in Steps \ {r} : /\ using'[q] = using[q]
                                /\ pc[n] \notin Waiting \/ RunnerOf(n) # q
                                /\ n \in Writers(q) => ~Succeeds(n)'
  PROVE  Sessions'
<1>1. Steps' = Steps
  BY DEF Steps
<1>2. ASSUME NEW q \in Steps
      PROVE  OfStep(q, runners[q])'
  <2>1. PICK y : y = runners'[q]
    OBVIOUS
  <2>2. q # r => y = runners[q] /\ OfStep(q, y)
    BY <2>1 DEF Sessions
  <2>3. CASE q = r
    BY <2>1, <2>3, AtRunner
  <2>4. CASE q # r /\ q # n
    <3>1. OfStep(q, y)'
      BY <2>2, <2>4, OthersStay
    <3> QED
      BY <2>1, <3>1, AtRunner
  <2>5. CASE q # r /\ q = n
    <3>1. y = NewRunner /\ plan.kind[q] = "sql"
      BY <2>2, <2>5 DEF OfStep
    <3>2. y.wire = <<>>
      BY <3>1 DEF NewRunner
    <3>3. Wired(q, y.wire)'
      <4>1. <<>> \in Seq({}) /\ Len(<<>>) = 0
        OBVIOUS
      <4> QED
        BY <3>2, <4>1 DEF Wired
    <3>4. OfStep(q, y)'
      BY <3>1, <3>3 DEF OfStep
    <3> QED
      BY <2>1, <3>4, AtRunner
  <2> QED
    BY <2>3, <2>4, <2>5
<1> QED
  BY <1>1, <1>2 DEF Sessions

-----------------------------------------------------------------------------
(* How the actions move their step. *)

Steady(n, called) ==
  /\ Moves(n, called) /\ KeepsTurn(n, called)
  /\ pc'[n] \in {"beginning", "committing", "rollingBack"} => plan.kind[n] = "trans"
  /\ pc'[n] = "querying" => plan.kind[n] \in {"sql", "autonomous"}

LEMMA PhasesKeep ==
  ASSUME Phases, plan' = plan, NEW n \in Steps, NEW called, Steady(n, called)
  PROVE  Phases'
<1>1. Steps' = Steps
  BY DEF Steps
<1>2. \A q \in Steps : q # n => pc'[q] \in {pc[q], "called"}
  BY DEF Steady, Moves
<1> QED
  BY <1>1, <1>2 DEF Steady, KeepsTurn, Phases

LEMMA CallingMoves ==
  ASSUME IsTree(plan), NoCycles(plan), NEW n \in Steps, Active(n), NEW phase, NEW called,
         NEW c, GoCalling(n, phase, called, c), called \subseteq Calls(plan, n),
         \A m \in called : pc[m] = "idle", phase \notin Asleep,
         phase \in Before => pc[n] \in Before, phase \in Unbegun => pc[n] \in Unbegun,
         pc[n] \in Ended => phase \in Ended
  PROVE  Moves(n, called) /\ pc'[n] = phase
<1>1. called \subseteq Steps /\ n \notin called
  BY CalledByOne
<1>2. /\ \A m \in called : m \in Steps /\ pc'[m] = "called"
      /\ pc'[n] = phase
      /\ \A m \in Steps \ (called \union {n}) : pc'[m] = pc[m]
  BY <1>1 DEF GoCalling
<1> QED
  BY <1>1, <1>2 DEF Moves

LEMMA GoMoves ==
  ASSUME IsTree(plan), NoCycles(plan), NEW n \in Steps, Active(n), NEW phase, Go(n, phase),
         phase \notin Asleep, phase # "handling",
         phase \in Before => pc[n] \in Before, phase \in Unbegun => pc[n] \in Unbegun,
         pc[n] \in Ended => phase \in Ended /\ pc[plan.handler[n]] \in {"done", "failed"},
         pc[n] = "running" /\ phase # "running" => BodyReturns(n) \/ BodyThrows(n),
         phase \in {"beginning", "committing", "rollingBack"} => plan.kind[n] = "trans",
         phase = "querying" => plan.kind[n] \in {"sql", "autonomous"}
  PROVE  Steady(n, {}) /\ pc'[n] = phase
<1>1. PICK called : called = {}
  OBVIOUS
<1>2. GoCalling(n, phase, called, None)
  BY <1>1 DEF Go
<1>3. Moves(n, called) /\ pc'[n] = phase
  BY <1>1, <1>2, CallingMoves
<1>4. KeepsTurn(n, called)
  BY <1>1, <1>3 DEF KeepsTurn, Ended
<1> QED
  BY <1>1, <1>3, <1>4 DEF Steady

LEMMA ThrowMoves ==
  ASSUME IsTree(plan), NoCycles(plan), NEW home, Control(home), NEW n \in Steps,
         Active(n), pc[n] \notin Ended, Throw(n),
         pc[n] = "running" => BodyReturns(n) \/ BodyThrows(n)
  PROVE  /\ pc'[n] \in {"failed", "handling"}
         /\ plan' = plan => ~Succeeds(n)'
         /\ \E called : Steady(n, called)
<1>1. "failed" \notin Asleep \union Unbegun \union Before
  BY DEF Asleep, Unbegun, Before
<1>2. "handling" \notin Asleep \union Unbegun \union Before
  BY DEF Asleep, Unbegun, Before
<1>3. CASE plan.handler[n] = None
  <2>1. Go(n, "failed")
    BY <1>3 DEF Throw
  <2>2. Steady(n, {}) /\ pc'[n] = "failed"
    BY <1>1, <2>1, GoMoves
  <2> QED
    BY <2>2 DEF Succeeds
<1>4. CASE plan.handler[n] # None
  <2>1. PICK m, called, c : m = plan.handler[n] /\ called = {m} /\ c = context[n]
    OBVIOUS
  <2>2. GoCalling(n, "handling", called, c)
    BY <1>4, <2>1 DEF Throw
  <2>3. called \subseteq Calls(plan, n) /\ pc[m] = "idle"
    BY <1>4, <2>1 DEF Calls, Control
  <2>4. Moves(n, called) /\ pc'[n] = "handling"
    BY <1>2, <2>1, <2>2, <2>3, CallingMoves DEF Ended
  <2>5. m \notin ToSet(plan.kids[n])
    BY <2>1 DEF IsTree, Steps
  <2>6. KeepsTurn(n, called)
    BY <1>4, <2>1, <2>4, <2>5 DEF KeepsTurn, Ended
  <2> QED
    BY <2>4, <2>6 DEF Succeeds, Steady
<1> QED
  BY <1>3, <1>4
-----------------------------------------------------------------------------
(* The steps that do not call the database, and one action a lemma.        *)

OneByOneInv == InTurn /\ Phases /\ Sessions /\ FoundConnected /\ Durable

Orderly(home, inside) ==
  WellNamed(plan, home) /\ OneByOne(plan, inside) /\ Inv(home) /\ OneByOneInv

LEMMA FoundStays ==
  ASSUME NEW home, Registered(home), FoundConnected, UNCHANGED <<plan, trans>>,
         NEW n \in Steps, NEW called, Moves(n, called), None \notin Steps
  PROVE  FoundConnected'
<1>1. Steps' = Steps /\ Keys(plan)' = Keys(plan)
  BY DEF Steps
<1>2. \A m \in Steps : pc[m] \notin Before => pc'[m] \notin Before
  BY DEF Moves, Before
<1>3. \A o \in Steps : \A k \in Keys(plan) : trans[o][k] \in Steps \union {None}
  BY DEF Registered
<1> QED
  BY <1>1, <1>2, <1>3 DEF FoundConnected

(* Nothing becomes durable, and neither a set nor a writer succeeds. *)
LEMMA DurableStays ==
  ASSUME NEW inside, IsTree(plan), OneByOne(plan, inside), Durable,
         plan' = plan, \A w \in SqlSteps : w \in committed' <=> w \in committed,
         NEW n \in Steps, NEW called, Moves(n, called),
         plan.kind[n] = "trans" => ~Succeeds(n)',
         plan.kind[n] = "sql" /\ plan.owner[n] \in Steps =>
           ~Succeeds(n)' \/ ~Succeeds(plan.owner[n])'
  PROVE  Durable'
<1>1. SqlSteps' = SqlSteps /\ SqlSteps \subseteq Steps
  BY DEF SqlSteps, Steps
<1>2. NoCycles(plan)
  BY DEF OneByOne
<1>3. ASSUME NEW w \in SqlSteps
      PROVE  LET o == plan.owner[w] IN
             /\ w \in committed' => Succeeds(o)'
             /\ Succeeds(o)' /\ Succeeds(w)' => w \in committed'
  <2>1. PICK o : o = plan.owner[w]
    OBVIOUS
  <2>2. o \in Steps /\ plan.kind[o] = "trans" /\ plan.kind[w] = "sql" /\ w \in Steps
    BY <2>1, WritersInside DEF SqlSteps
  <2>3. Succeeds(o) => Succeeds(o)'
    BY <1>2, <2>2, SucceedsStays
  <2>4. Succeeds(o)' => Succeeds(o)
    BY <1>2, <2>2, SucceedsStays
  <2>5. Succeeds(w)' => Succeeds(w) \/ w = n
    BY <1>2, <2>2, SucceedsStays
  <2> QED
    BY <2>1, <2>2, <2>3, <2>4, <2>5 DEF Durable
<1> QED
  BY <1>1, <1>3 DEF Durable

LEMMA CalmKeeps ==
  ASSUME NEW home, NEW inside, Orderly(home, inside),
         UNCHANGED <<plan, trans, using, runners, committed>>,
         NEW n \in Steps, NEW called, Steady(n, called), pc[n] \notin Waiting,
         plan.kind[n] \in {"sql", "trans"} => ~Succeeds(n)',
         plan.kind[n] = "trans" =>
           \/ pc[n] \in Before /\ pc'[n] \in Before \union Ended
           \/ pc[n] = "running" /\ pc'[n] = "running"
           \/ pc[n] \in Ended /\ pc'[n] \in Ended
  PROVE  OneByOneInv'
<1>1. /\ IsTree(plan) /\ NoCycles(plan) /\ OneByOne(plan, inside) /\ None \notin Steps
      /\ Moves(n, called) /\ KeepsTurn(n, called)
      /\ InTurn /\ Phases /\ Sessions /\ FoundConnected /\ Durable /\ Owned
      /\ Registered(home)
  BY DEF Orderly, OneByOneInv, Inv, WellNamed, IsTree, OneByOne, Steady, Steps
<1>2. InTurn'
  BY <1>1, TurnKeeps
<1>3. Phases'
  BY <1>1, PhasesKeep
<1>4. FoundConnected'
  BY <1>1, FoundStays
<1>5. Durable'
  BY <1>1, DurableStays
<1>6. PICK x : x = runners[n]
  OBVIOUS
<1>7. \A q \in Steps : runners'[q] = IF q = n THEN x ELSE runners[q]
  BY <1>6
<1>8. OfStep(n, x)'
  <2>1. OfStep(n, x) /\ Steps' = Steps /\ Writers(n)' = Writers(n)
    BY <1>1, <1>6 DEF Sessions, Steps, Writers
  <2>2. Wired(n, x.wire)'
    <3>1. PICK wire : wire = x.wire
      OBVIOUS
    <3>2. Wired(n, wire)
      BY <2>1, <3>1 DEF OfStep
    <3>3. \A i \in 1..Len(wire) : wire[i].by # n
      BY <3>2, NotOnWire
    <3> QED
      BY <1>1, <3>1, <3>2, <3>3, WiredStays
  <2>3. \A w \in Writers(n) : Succeeds(w)' => Succeeds(w) \/ w = n
    BY <1>1, SucceedsStays DEF Writers
  <2>4. ASSUME plan.kind[n] = "trans"
        PROVE  OfSet(n, x)'
    <3>1. OfSet(n, x) /\ n \notin Writers(n)
      BY <2>1, <2>4 DEF OfStep, Writers
    <3>2. CASE pc[n] \in Before /\ pc'[n] \in Before \union Ended
      <4>1. x = NewRunner /\ x.stack = <<>>
        BY <3>1, <3>2 DEF OfSet, NewRunner
      <4> QED
        BY <3>2, <4>1 DEF OfSet, Before, Ended, WithRunner
    <3>3. CASE pc[n] = "running" /\ pc'[n] = "running"
      <4>1. InTransaction(n, x)
        BY <3>1, <3>3 DEF OfSet
      <4>2. InTransaction(n, x)'
        BY <2>1, <2>3, <3>1, <4>1 DEF InTransaction
      <4> QED
        BY <3>1, <3>3, <4>2 DEF OfSet, Before, Ended, WithRunner
    <3>4. CASE pc[n] \in Ended /\ pc'[n] \in Ended
      BY <3>1, <3>4 DEF OfSet, Before, Ended, WithRunner
    <3> QED
      BY <2>4, <3>2, <3>3, <3>4
  <2>5. pc[n] \in Ended => pc'[n] \in Ended
    BY <1>1 DEF Moves
  <2> QED
    BY <2>1, <2>2, <2>4, <2>5 DEF OfStep
<1>9. Sessions'
  <2>1. \A q \in Steps \ {n} : n \in Writers(q) => ~Succeeds(n)'
    BY DEF Writers
  <2> QED
    BY <1>1, <1>7, <1>8, <2>1, SessionsKeep
<1> QED
  BY <1>2, <1>3, <1>4, <1>5, <1>9 DEF OneByOneInv

(* A step throws before it has sent anything. *)
LEMMA ThrowKeepsOrder ==
  ASSUME NEW home, NEW inside, Orderly(home, inside),
         UNCHANGED <<plan, trans, using, runners, committed>>,
         NEW n \in Steps, Throw(n), Active(n), pc[n] \notin Waiting \union Ended,
         plan.kind[n] = "trans" => pc[n] \in Before,
         pc[n] = "running" => BodyReturns(n) \/ BodyThrows(n)
  PROVE  OneByOneInv'
<1>1. IsTree(plan) /\ NoCycles(plan) /\ Control(home)
  BY DEF Orderly, WellNamed, OneByOne, Inv
<1>2. pc'[n] \in {"failed", "handling"} /\ ~Succeeds(n)' /\ \E called : Steady(n, called)
  BY <1>1, ThrowMoves
<1>3. PICK called : Steady(n, called)
  BY <1>2
<1>4. pc'[n] \in Ended
  BY <1>2 DEF Ended
<1> QED
  BY <1>2, <1>3, <1>4, CalmKeeps

LEMMA SnippetKeepsOrder ==
  ASSUME NEW home, NEW inside, Orderly(home, inside), NEW n \in Steps, Snippet(n)
  PROVE  OneByOneInv'
<1>1. /\ plan.kind[n] = "snippet" /\ pc[n] = "called" /\ Active(n)
      /\ UNCHANGED <<plan, trans, using, runners, committed>>
      /\ IsTree(plan) /\ NoCycles(plan)
  BY DEF Snippet, Kind, Active, Orderly, WellNamed, OneByOne
<1>2. pc[n] \notin Waiting \union Ended
  BY <1>1 DEF Waiting, Ended
<1>3. CASE Go(n, "done")
  <2>1. Steady(n, {}) /\ pc'[n] = "done"
    BY <1>1, <1>2, <1>3, GoMoves DEF Asleep, Before, Unbegun, OneByOneKinds
  <2>2. PICK called : Steady(n, called)
    BY <2>1
  <2> QED
    BY <1>1, <1>2, <2>2, CalmKeeps
<1>4. CASE Throw(n)
  BY <1>1, <1>2, <1>4, ThrowKeepsOrder
<1> QED
  BY <1>3, <1>4 DEF Snippet

(* A step ends as its handler did, and is not one that succeeded. *)
LEMMA HandlerEndsKeepsOrder ==
  ASSUME NEW home, NEW inside, Orderly(home, inside), NEW n \in Steps, HandlerEnds(n)
  PROVE  OneByOneInv'
<1>1. PICK m, phase : m = plan.handler[n] /\ phase = pc[m]
  OBVIOUS
<1>2. /\ pc[n] = "handling" /\ phase \in {"done", "failed"} /\ Active(n) /\ Go(n, phase)
      /\ UNCHANGED <<plan, trans, using, runners, committed>>
      /\ IsTree(plan) /\ NoCycles(plan) /\ Phases
  BY <1>1 DEF HandlerEnds, Active, Orderly, OneByOneInv, WellNamed, OneByOne
<1>3. phase \in Ended /\ phase \notin Asleep \union Before \union Unbegun \union Waiting
      /\ pc[n] \in Ended /\ pc[n] \notin Waiting
  BY <1>2 DEF Ended, Asleep, Before, Unbegun, Waiting
<1>4. Steady(n, {}) /\ pc'[n] = phase
  BY <1>1, <1>2, <1>3, GoMoves DEF Waiting
<1>5. ~Succeeds(n)'
  <2>1. m # None /\ m \in Steps /\ m # n
    BY <1>1, <1>2, CalledByOne DEF Phases, Calls
  <2>2. pc'[m] # "idle"
    BY <1>1, <1>2, <1>4, <2>1 DEF Steady, Moves
  <2> QED
    BY <1>1, <1>2, <2>1, <2>2 DEF Succeeds, HandlerRan
<1>6. PICK called : Steady(n, called)
  BY <1>4
<1> QED
  BY <1>2, <1>3, <1>4, <1>5, <1>6, CalmKeeps

LEMMA EnterKeepsOrder ==
  ASSUME NEW home, NEW inside, Orderly(home, inside), NEW n \in Steps, Enter(n)
  PROVE  OneByOneInv'
<1>1. /\ pc[n] = "called" /\ Active(n) /\ plan.kind[n] \in {"sets", "parallel", "race"}
      /\ UNCHANGED <<plan, trans, using, runners, committed>>
      /\ IsTree(plan) /\ NoCycles(plan) /\ Control(home)
  BY DEF Enter, Kind, Active, Orderly, WellNamed, OneByOne, Inv
<1>2. /\ pc[n] \notin Waiting \union Ended
      /\ "running" \notin Asleep \union Before \union Unbegun
  BY <1>1 DEF Waiting, Ended, Asleep, Before, Unbegun
<1>3. \E called : Steady(n, called)
  <2>1. CASE plan.kind[n] = "sets"
    <3>1. Go(n, "running")
      BY <2>1 DEF Enter, Kind
    <3>2. Steady(n, {})
      BY <1>1, <1>2, <3>1, GoMoves
    <3> QED
      BY <3>2
  <2>2. CASE plan.kind[n] # "sets"
    <3>1. PICK c, called : c = context[n] /\ called = ToSet(plan.kids[n])
      OBVIOUS
    <3>2. GoCalling(n, "running", called, c)
      BY <2>2, <3>1 DEF Enter, Kind, Kids
    <3>3. called \subseteq Calls(plan, n) /\ plan.handler[n] \notin called
      BY <1>1, <3>1 DEF Calls, IsTree, Steps
    <3>4. \A m \in called : pc[m] = "idle"
      BY <1>1, <3>1 DEF Control, Asleep
    <3>5. Moves(n, called) /\ pc'[n] = "running"
      BY <1>1, <1>2, <3>2, <3>3, <3>4, CallingMoves
    <3>6. KeepsTurn(n, called)
      BY <1>1, <2>2, <3>3, <3>5 DEF KeepsTurn, OneByOneKinds
    <3> QED
      BY <3>5, <3>6 DEF Steady
  <2> QED
    BY <2>1, <2>2
<1>4. PICK called : Steady(n, called)
  BY <1>3
<1> QED
  BY <1>1, <1>2, <1>4, CalmKeeps

LEMMA EnterAsyncKeepsOrder ==
  ASSUME NEW home, NEW inside, Orderly(home, inside), NEW n \in Steps, EnterAsync(n)
  PROVE  OneByOneInv'
<1>1. /\ pc[n] = "called" /\ Active(n) /\ plan.kind[n] = "async"
      /\ UNCHANGED <<plan, trans, using, runners, committed>>
      /\ IsTree(plan) /\ NoCycles(plan) /\ Control(home)
  BY DEF EnterAsync, Kind, Active, Orderly, WellNamed, OneByOne, Inv
<1>2. /\ pc[n] \notin Waiting \union Ended
      /\ "done" \notin Asleep \union Before \union Unbegun
  BY <1>1 DEF Waiting, Ended, Asleep, Before, Unbegun
<1>3. PICK called : called = ToSet(plan.kids[n])
  OBVIOUS
<1>4. GoCalling(n, "done", called, n)
  BY <1>3 DEF EnterAsync, Kids
<1>5. called \subseteq Calls(plan, n) /\ plan.handler[n] \notin called
  BY <1>1, <1>3 DEF Calls, IsTree, Steps
<1>6. \A m \in called : pc[m] = "idle"
  BY <1>1, <1>3 DEF Control, Asleep
<1>7. Moves(n, called) /\ pc'[n] = "done"
  BY <1>1, <1>2, <1>4, <1>5, <1>6, CallingMoves
<1>8. Steady(n, called)
  BY <1>1, <1>5, <1>7 DEF Steady, KeepsTurn, OneByOneKinds
<1> QED
  BY <1>1, <1>2, <1>8, CalmKeeps

LEMMA NextStepKeepsOrder ==
  ASSUME NEW home, NEW inside, Orderly(home, inside), NEW n \in Steps, NextStep(n)
  PROVE  OneByOneInv'
<1>1. /\ pc[n] = "running" /\ Active(n) /\ plan.kind[n] \in {"sets", "trans"}
      /\ UNCHANGED <<plan, trans, using, runners, committed>>
      /\ IsTree(plan) /\ NoCycles(plan)
  BY DEF NextStep, Kind, Active, Orderly, WellNamed, OneByOne
<1>2. /\ pc[n] \notin Waiting \union Ended
      /\ "running" \notin Asleep \union Before \union Unbegun
  BY <1>1 DEF Waiting, Ended, Asleep, Before, Unbegun
<1>3. PICK i \in DOMAIN plan.kids[n] :
        /\ pc[plan.kids[n][i]] = "idle"
        /\ \A j \in 1..(i - 1) : pc[plan.kids[n][j]] = "done"
        /\ GoCalling(n, "running", {plan.kids[n][i]}, context[n])
  BY DEF NextStep
<1>4. PICK m, called, c : m = plan.kids[n][i] /\ called = {m} /\ c = context[n]
  OBVIOUS
<1>5. called \subseteq Calls(plan, n) /\ plan.handler[n] \notin called
  <2>1. m \in ToSet(plan.kids[n])
    BY <1>4 DEF ToSet
  <2> QED
    BY <1>1, <1>4, <2>1 DEF Calls, IsTree, Steps
<1>6. Moves(n, called) /\ pc'[n] = "running"
  BY <1>1, <1>2, <1>3, <1>4, <1>5, CallingMoves
<1>7. Steady(n, called)
  BY <1>1, <1>3, <1>4, <1>5, <1>6 DEF Steady, KeepsTurn
<1>8. ~Succeeds(n)'
  BY <1>6 DEF Succeeds
<1> QED
  BY <1>1, <1>2, <1>6, <1>7, <1>8, CalmKeeps

LEMMA LeaveKeepsOrder ==
  ASSUME NEW home, NEW inside, Orderly(home, inside), NEW n \in Steps, Leave(n)
  PROVE  OneByOneInv'
<1>1. /\ pc[n] = "running" /\ Active(n) /\ plan.kind[n] \in {"sets", "parallel", "race"}
      /\ UNCHANGED <<plan, trans, using, runners, committed>>
      /\ IsTree(plan) /\ NoCycles(plan) /\ (BodyReturns(n) \/ BodyThrows(n))
  BY DEF Leave, Kind, Active, BodyReturns, BodyThrows, Orderly, WellNamed, OneByOne
<1>2. /\ pc[n] \notin Waiting \union Ended
      /\ "done" \notin Asleep \union Before \union Unbegun
  BY <1>1 DEF Waiting, Ended, Asleep, Before, Unbegun
<1>3. CASE Go(n, "done")
  <2>1. Steady(n, {})
    BY <1>1, <1>2, <1>3, GoMoves
  <2>2. PICK called : Steady(n, called)
    BY <2>1
  <2> QED
    BY <1>1, <1>2, <2>2, CalmKeeps
<1>4. CASE Throw(n)
  BY <1>1, <1>2, <1>4, ThrowKeepsOrder
<1> QED
  BY <1>3, <1>4 DEF Leave

(* Steps on their way to a connection of their own. *)
LEMMA ConnectingKeepsOrder ==
  ASSUME NEW home, NEW inside, Orderly(home, inside), NEW n \in Steps,
         AttachNew(n) \/ Autonomous(n) \/ ConnectFails(n)
  PROVE  OneByOneInv'
<1>1. /\ pc[n] \in {"called", "connecting"} /\ Active(n)
      /\ UNCHANGED <<plan, trans, using, runners, committed>>
      /\ IsTree(plan) /\ NoCycles(plan)
  BY DEF AttachNew, Autonomous, ConnectFails, Active, Orderly, WellNamed, OneByOne
<1>2. /\ pc[n] \notin Waiting \union Ended /\ pc[n] \in Before /\ pc[n] \in Unbegun
      /\ "connecting" \notin Asleep /\ "connecting" \in Before
  BY <1>1 DEF Waiting, Ended, Asleep, Before, Unbegun
<1>3. CASE Go(n, "connecting")
  <2>1. Steady(n, {}) /\ pc'[n] = "connecting"
    BY <1>1, <1>2, <1>3, GoMoves
  <2>2. ~Succeeds(n)'
    BY <2>1 DEF Succeeds
  <2>3. PICK called : Steady(n, called)
    BY <2>1
  <2> QED
    BY <1>1, <1>2, <2>1, <2>2, <2>3, CalmKeeps
<1>4. CASE Throw(n)
  BY <1>1, <1>2, <1>4, ThrowKeepsOrder
<1> QED
  BY <1>3, <1>4 DEF AttachNew, Autonomous, ConnectFails

-----------------------------------------------------------------------------
(* The steps that send statements. *)

LEMMA SentIs ==
  ASSUME NEW r, NEW x, RunnerOK(r, x), NEW n, NEW call, NEW sql,
         \/ call = "query" /\ sql = "write"
         \/ call = "start" /\ sql = "begin" /\ x.depth = 0
         \/ call = "commit" /\ sql = "commit" /\ x.depth \in {0, 1}
         \/ call = "rollback" /\ sql = "rollback" /\ x.depth \in {0, 1}
  PROVE  /\ Sent(x, call, n).wire = Append(x.wire, [sql |-> sql, by |-> n])
         /\ Sent(x, call, n).state = x.state /\ Sent(x, call, n).depth = x.depth
         /\ Sent(x, call, n).stack = x.stack
         /\ x.active \/ call = "start" => Sent(x, call, n).active
<1>1. Statement(x, call) = sql
  BY DEF Statement
<1>2. DOMAIN x = {"state", "active", "depth", "wire", "stack"}
  BY DEF RunnerOK
<1>3. /\ Sent(x, call, n).wire = Append(x.wire, [sql |-> sql, by |-> n])
      /\ Sent(x, call, n).state = x.state /\ Sent(x, call, n).depth = x.depth
      /\ Sent(x, call, n).stack = x.stack
  BY <1>1, <1>2 DEF Sent
<1>4. Sent(x, call, n).active = (x.active \/ call = "start")
  BY <1>2 DEF Sent
<1> QED
  BY <1>3, <1>4

(* A call of a waiting step is sent on the wire of its runner. *)
LEMMA SentWired ==
  ASSUME plan' = plan, NEW n \in Steps, NEW called, Moves(n, called),
         NEW r, NEW x, OfStep(r, x), RunnerOf(n) = r, pc[n] \notin Waiting,
         NEW y, NEW sql \in DOMAIN WaitsIn, y.wire = Append(x.wire, [sql |-> sql, by |-> n]),
         pc'[n] = WaitsIn[sql]
  PROVE  Wired(r, y.wire)'
<1>1. PICK wire, e : wire = x.wire /\ e = [sql |-> sql, by |-> n]
  OBVIOUS
<1>2. Wired(r, wire)
  BY <1>1 DEF OfStep
<1>3. \A i \in 1..Len(wire) : wire[i].by # n
  BY <1>2, NotOnWire
<1>4. Wired(r, wire)'
  BY <1>2, <1>3, WiredStays
<1>5. e.by = n /\ e.sql \in DOMAIN WaitsIn /\ pc'[n] = WaitsIn[e.sql]
  BY <1>1
<1>6. Wired(r, Append(wire, e))'
  BY <1>3, <1>4, <1>5, AppendWired
<1> QED
  BY <1>1, <1>6

LEMMA OrderlyIs ==
  ASSUME NEW home, NEW inside, Orderly(home, inside)
  PROVE  /\ WellNamed(plan, home) /\ IsTree(plan) /\ NoCycles(plan)
         /\ OneByOne(plan, inside) /\ None \notin Steps
         /\ Inv(home) /\ Control(home) /\ Registered(home) /\ Owned
         /\ InTurn /\ Phases /\ Sessions /\ FoundConnected /\ Durable
  BY DEF Orderly, OneByOneInv, Inv, WellNamed, IsTree, OneByOne, Steps

(* No set finds a runner: under its name is its own or none. *)
LEMMA NeverFound ==
  ASSUME NEW home, NEW inside, Orderly(home, inside), NEW n \in Steps, AttachFound(n)
  PROVE  FALSE
<1>1. PICK r : r = FoundRunner(n)
  OBVIOUS
<1>2. pc[n] = "called" /\ plan.kind[n] = "trans" /\ r # None
  BY <1>1 DEF AttachFound, Kind
<1>3. IsSetOf(r, plan.key[n], home[n], home)
  BY <1>1, <1>2, OrderlyIs, FoundIsOfHome
<1>4. r = n
  BY <1>2, <1>3, OrderlyIs, FoundByItsSet
<1>5. \E o \in Steps : \E k \in Keys(plan) : r = trans[o][k]
  <2>1. PICK o : o = transOf[context[n]]
    OBVIOUS
  <2>2. o # None /\ r = trans[o][plan.key[n]]
    BY <1>1, <1>2, <2>1 DEF FoundRunner, Key
  <2>3. context[n] \in Steps \union {None}
    BY <1>2, OrderlyIs DEF Control, WellNamed, Homes, Steps
  <2>4. o \in Steps
    BY <2>1, <2>2, <2>3, OrderlyIs DEF Registered
  <2>5. plan.key[n] \in Keys(plan)
    BY OrderlyIs DEF Keys, IsTree, Steps
  <2> QED
    BY <2>2, <2>4, <2>5
<1> QED
  BY <1>2, <1>4, <1>5, OrderlyIs DEF FoundConnected, Before

LEMMA ConnectedFinds ==
  ASSUME NEW home, WellNamed(plan, home), Inv(home), NEW n \in Steps, Connected(n)
  PROVE  /\ \A q \in Steps : \A k \in Keys(plan) :
              trans'[q][k] = trans[q][k] \/ trans'[q][k] = n
         /\ \/ /\ using' = using /\ Throw(n)
               /\ runners' = [runners EXCEPT ![n] = Opened(@)]
            \/ /\ using' = [using EXCEPT ![n] = n] /\ Go(n, "beginning")
               /\ runners' = [runners EXCEPT ![n] = Sent(Opened(@), "start", n)]
<1>1. /\ plan.kind[n] = "trans" /\ pc[n] = "connecting" /\ plan' = plan /\ PutRunner(n)
      /\ Registered(home) /\ Control(home) /\ Owned
  BY DEF Connected, Kind, Inv
<1>2. Registered(home)' /\ Steps' = Steps /\ Keys(plan)' = Keys(plan)
  BY <1>1, ConnectedKeeps DEF Inv, Steps
<1>3. PICK h, k : h = home[n] /\ k = plan.key[n]
  OBVIOUS
<1>4. context[n] = h /\ h \in Steps \union {None} /\ k \in Keys(plan) /\ None \notin Steps
  BY <1>1, <1>3 DEF Control, WellNamed, IsTree, Homes, Steps, Keys
<1>5. PICK o : o = transOf'[h]
  OBVIOUS
<1>6. o # None
  <2>1. CASE base[n] = None
    BY <1>1, <1>4, <1>5, <2>1 DEF PutRunner, Registered
  <2>2. CASE base[n] # None
    BY <1>1, <1>3, <1>4, <1>5, <2>2 DEF PutRunner, Registered
  <2> QED
    BY <2>1, <2>2
<1>7. o \in Steps /\ home[o] = h
  BY <1>2, <1>4, <1>5, <1>6 DEF Registered
<1>8. PICK r : r = trans'[o][k]
  OBVIOUS
<1>9. r = None \/ r = n
  <2>1. r # None => IsSetOf(r, k, h, home)
    BY <1>1, <1>2, <1>4, <1>7, <1>8 DEF Registered, IsSetOf
  <2> QED
    BY <1>1, <1>3, <2>1, FoundByItsSet
<1>10. \A q \in Steps : \A j \in Keys(plan) : trans'[q][j] = trans[q][j] \/ trans'[q][j] = n
  <2>1. PICK b : b = IF base[n] = None THEN n ELSE base[n]
    OBVIOUS
  <2>2. b \in Steps
    BY <1>1, <2>1 DEF Registered
  <2>3. trans' = [trans EXCEPT ![b][k] = n]
    BY <1>1, <1>3, <2>1 DEF PutRunner, Key
  <2> QED
    BY <1>1, <1>4, <2>2, <2>3 DEF Registered
<1>11. CASE r = None
  BY <1>3, <1>4, <1>5, <1>8, <1>10, <1>11 DEF Connected, Key
<1>12. CASE r = n /\ r # None
  <2>1. /\ using' = [using EXCEPT ![n] = n] /\ Go(n, "beginning")
        /\ runners' = [[runners EXCEPT ![n] = Opened(@)] EXCEPT ![n] = Sent(@, "start", n)]
    BY <1>3, <1>4, <1>5, <1>8, <1>12 DEF Connected, Key
  <2>2. runners' = [runners EXCEPT ![n] = Sent(Opened(@), "start", n)]
    BY <1>1, <2>1 DEF Owned
  <2> QED
    BY <1>10, <2>1, <2>2
<1> QED
  BY <1>4, <1>9, <1>11, <1>12

(* A step moves without success, and one runner with it. *)
LEMMA SendingKeeps ==
  ASSUME NEW home, NEW inside, Orderly(home, inside), UNCHANGED <<plan, committed>>,
         NEW n \in Steps, NEW called, Steady(n, called), pc[n] \notin Waiting, ~Succeeds(n)',
         NEW r \in Steps, NEW x, OfStep(r, x)', r # n => plan.kind[n] = "sql",
         \A q \in Steps : runners'[q] = IF q = r THEN x ELSE runners[q],
         \A q \in Steps \ {r} : using'[q] = using[q],
         FoundConnected'
  PROVE  OneByOneInv'
<1>1. Moves(n, called) /\ KeepsTurn(n, called)
  BY DEF Steady
<1>2. InTurn' /\ Phases'
  BY <1>1, OrderlyIs, TurnKeeps, PhasesKeep
<1>3. Durable'
  BY <1>1, OrderlyIs, DurableStays
<1>4. Sessions'
  BY <1>1, OrderlyIs, SessionsKeep
<1> QED
  BY <1>2, <1>3, <1>4 DEF OneByOneInv

LEMMA NewRunnerIs ==
  /\ NewRunner.state = "none" /\ NewRunner.depth = 0 /\ NewRunner.stack = <<>>
  /\ NewRunner.wire = <<>>
  /\ DOMAIN NewRunner = {"state", "active", "depth", "wire", "stack"}
  BY DEF NewRunner

LEMMA OpenedIs ==
  ASSUME NEW x, DOMAIN x = {"state", "active", "depth", "wire", "stack"}
  PROVE  /\ Opened(x).state = "open" /\ Opened(x).depth = x.depth
         /\ Opened(x).stack = x.stack /\ Opened(x).wire = x.wire
         /\ Released(x).state = "released" /\ Released(x).depth = x.depth
         /\ Released(x).stack = x.stack /\ Released(x).wire = x.wire
  BY DEF Opened, Released

LEMMA ConnectedKeepsOrder ==
  ASSUME NEW home, NEW inside, Orderly(home, inside), NEW n \in Steps, Connected(n)
  PROVE  OneByOneInv'
<1>1. /\ plan.kind[n] = "trans" /\ pc[n] = "connecting" /\ Active(n)
      /\ UNCHANGED <<plan, committed>> /\ RunnerOf(n) = n
  BY DEF Connected, Kind, Active, RunnerOf
<1>2. /\ pc[n] \in Before /\ pc[n] \in Unbegun /\ pc[n] \notin Waiting \union Ended
      /\ "beginning" \notin Asleep \union Before /\ "beginning" \in Unbegun
  BY <1>1 DEF Waiting, Ended, Before, Unbegun, Asleep
<1>3. PICK x, y, z : x = runners[n] /\ y = Opened(x) /\ z = Sent(y, "start", n)
  OBVIOUS
<1>4. x = NewRunner /\ OfStep(n, x) /\ RunnerOK(n, x)
  BY <1>1, <1>2, <1>3, OrderlyIs DEF Sessions, OfStep, OfSet, Owned
<1>5. RunnerOK(n, y)
  BY <1>3, <1>4, OpenedOK
<1>6. y.state = "open" /\ y.depth = 0 /\ y.stack = <<>> /\ y.wire = x.wire
  BY <1>3, <1>4, NewRunnerIs, OpenedIs
<1>7. /\ z.state = "open" /\ z.depth = 0 /\ z.stack = <<>> /\ z.active
      /\ z.wire = Append(x.wire, [sql |-> "begin", by |-> n])
  BY <1>3, <1>5, <1>6, SentIs
<1>8. ASSUME pc'[n] \notin Before, NEW called, Moves(n, called)
      PROVE  FoundConnected'
  <2>1. Steps' = Steps /\ Keys(plan)' = Keys(plan)
    BY <1>1 DEF Steps
  <2>2. \A m \in Steps : pc[m] \notin Before => pc'[m] \notin Before
    BY <1>8 DEF Moves, Before
  <2>3. \A o \in Steps : \A k \in Keys(plan) : trans[o][k] \in Steps \union {None}
    BY OrderlyIs DEF Registered
  <2>4. \A o \in Steps : \A k \in Keys(plan) : trans'[o][k] = trans[o][k] \/ trans'[o][k] = n
    BY OrderlyIs, ConnectedFinds
  <2> QED
    BY <1>8, <2>1, <2>2, <2>3, <2>4, OrderlyIs DEF FoundConnected
<1>9. CASE using' = using /\ Throw(n) /\ runners' = [runners EXCEPT ![n] = y]
  <2>1. pc'[n] \in {"failed", "handling"} /\ ~Succeeds(n)' /\ \E called : Steady(n, called)
    BY <1>1, <1>2, <1>9, OrderlyIs, ThrowMoves
  <2>2. PICK called : Steady(n, called)
    BY <2>1
  <2>3. Wired(n, y.wire)'
    <3>1. PICK wire : wire = y.wire
      OBVIOUS
    <3>2. Wired(n, wire)
      BY <1>4, <1>6, <3>1 DEF OfStep
    <3>3. \A i \in 1..Len(wire) : wire[i].by # n
      BY <1>2, <3>2, NotOnWire
    <3> QED
      BY <1>1, <2>2, <3>1, <3>2, <3>3, WiredStays DEF Steady
  <2>4. OfSet(n, y)'
    BY <1>6, <2>1 DEF OfSet, Before, WithRunner
  <2>5. OfStep(n, y)'
    BY <1>1, <2>3, <2>4 DEF OfStep
  <2>6. FoundConnected'
    BY <1>8, <2>1, <2>2 DEF Steady, Before
  <2>7. \A q \in Steps : runners'[q] = IF q = n THEN y ELSE runners[q]
    BY <1>9, OrderlyIs DEF Owned
  <2> QED
    BY <1>1, <1>2, <1>9, <2>1, <2>2, <2>5, <2>6, <2>7, SendingKeeps
<1>10. CASE /\ using' = [using EXCEPT ![n] = n] /\ Go(n, "beginning")
            /\ runners' = [runners EXCEPT ![n] = z]
  <2>1. Steady(n, {}) /\ pc'[n] = "beginning"
    BY <1>1, <1>2, <1>10, OrderlyIs, GoMoves
  <2>2. PICK called : Steady(n, called)
    BY <2>1
  <2>3. Wired(n, z.wire)'
    <3>1. "begin" \in DOMAIN WaitsIn /\ pc'[n] = WaitsIn["begin"]
      BY <2>1 DEF WaitsIn
    <3> QED
      BY <1>1, <1>2, <1>4, <1>7, <2>2, <3>1, SentWired DEF Steady
  <2>4. using'[n] = n /\ \A q \in Steps \ {n} : using'[q] = using[q]
    BY <1>10, OrderlyIs DEF Registered
  <2>5. OfSet(n, z)'
    BY <1>7, <2>1, <2>4 DEF OfSet, Before, WithRunner, Ended
  <2>6. OfStep(n, z)'
    BY <1>1, <2>3, <2>5 DEF OfStep
  <2>7. FoundConnected'
    BY <1>2, <1>8, <2>1, <2>2 DEF Steady
  <2>8. \A q \in Steps : runners'[q] = IF q = n THEN z ELSE runners[q]
    BY <1>10, OrderlyIs DEF Owned
  <2>9. ~Succeeds(n)'
    BY <2>1 DEF Succeeds
  <2> QED
    BY <1>1, <1>2, <2>2, <2>4, <2>6, <2>7, <2>8, <2>9, SendingKeeps
<1>11. \/ /\ using' = using /\ Throw(n)
          /\ runners' = [runners EXCEPT ![n] = y]
       \/ /\ using' = [using EXCEPT ![n] = n] /\ Go(n, "beginning")
          /\ runners' = [runners EXCEPT ![n] = z]
  <2>1. \/ /\ using' = using /\ Throw(n)
           /\ runners' = [runners EXCEPT ![n] = Opened(@)]
        \/ /\ using' = [using EXCEPT ![n] = n] /\ Go(n, "beginning")
           /\ runners' = [runners EXCEPT ![n] = Sent(Opened(@), "start", n)]
    BY OrderlyIs, ConnectedFinds
  <2> QED
    BY <1>3, <2>1
<1> QED
  BY <1>9, <1>10, <1>11

(* A set asks for its commit or rollback in the transaction it began. *)
LEMMA EndsKeepOrder ==
  ASSUME NEW home, NEW inside, Orderly(home, inside), NEW n \in Steps,
         Commit(n) \/ Rollback(n)
  PROVE  OneByOneInv'
<1>1. /\ plan.kind[n] = "trans" /\ pc[n] = "running" /\ Active(n) /\ RunnerOf(n) = n
      /\ BodyReturns(n) \/ BodyThrows(n)
      /\ UNCHANGED <<plan, trans, using, committed>>
  BY DEF Commit, Rollback, BodyReturns, BodyThrows, Kind, Active, RunnerOf
<1>2. PICK call, phase : /\ \/ call = "commit" /\ phase = "committing"
                            \/ call = "rollback" /\ phase = "rollingBack"
                         /\ Ask(n, using[n], call, phase)
  BY DEF Commit, Rollback
<1>3. /\ phase \notin Asleep \union Before \union Unbegun /\ phase # "handling"
      /\ pc[n] \notin Waiting \union Ended
      /\ call \in DOMAIN WaitsIn /\ phase = WaitsIn[call]
  BY <1>1, <1>2 DEF Waiting, Ended, Before, Unbegun, Asleep, WaitsIn
<1>4. PICK x, y : x = runners[n] /\ y = Sent(x, call, n)
  OBVIOUS
<1>5. /\ OfStep(n, x) /\ OfSet(n, x) /\ RunnerOK(n, x) /\ using[n] = n
      /\ x.state = "open" /\ x.active /\ InTransaction(n, x)
  BY <1>1, <1>4, OrderlyIs DEF Sessions, OfStep, OfSet, Owned, WithRunner
<1>6. Go(n, phase) /\ runners' = [runners EXCEPT ![n] = y]
  <2>1. ~Refuses(x, call)
    BY <1>2, <1>5 DEF Refuses
  <2> QED
    BY <1>2, <1>4, <1>5, <2>1 DEF Ask
<1>7. /\ y.state = "open" /\ y.depth = 1 /\ y.stack = x.stack /\ y.active
      /\ y.wire = Append(x.wire, [sql |-> call, by |-> n])
  BY <1>2, <1>4, <1>5, SentIs DEF InTransaction
<1>8. Steady(n, {}) /\ pc'[n] = phase
  BY <1>1, <1>2, <1>3, <1>6, OrderlyIs, GoMoves
<1>9. PICK called : Steady(n, called) /\ Moves(n, called)
  BY <1>8 DEF Steady
<1>10. Wired(n, y.wire)'
  BY <1>1, <1>3, <1>4, <1>5, <1>7, <1>8, <1>9, SentWired
<1>11. ~Succeeds(n)'
  BY <1>2, <1>8 DEF Succeeds
<1>12. InTransaction(n, y)'
  <2>1. Writers(n)' = Writers(n) /\ \A w \in Writers(n) : w \in Steps
    BY <1>1 DEF Writers, Steps
  <2>2. \A w \in Writers(n) : Succeeds(w)' => Succeeds(w)
    BY <1>1, <1>9, <1>11, <2>1, OrderlyIs, SucceedsStays
  <2> QED
    BY <1>5, <1>7, <2>1, <2>2 DEF InTransaction
<1>13. OfSet(n, y)'
  BY <1>1, <1>2, <1>5, <1>7, <1>8, <1>12 DEF OfSet, Before, WithRunner, Ended
<1>14. OfStep(n, y)'
  BY <1>1, <1>10, <1>13 DEF OfStep
<1>15. \A q \in Steps : runners'[q] = IF q = n THEN y ELSE runners[q]
  BY <1>6, OrderlyIs DEF Owned
<1>16. FoundConnected'
  BY <1>1, <1>9, OrderlyIs, FoundStays
<1> QED
  BY <1>1, <1>3, <1>9, <1>11, <1>14, <1>15, <1>16, SendingKeeps

(* A writer sends to its set, which is running and has not released. *)
LEMMA QueryKeepsOrder ==
  ASSUME NEW home, NEW inside, Orderly(home, inside), NEW n \in Steps, Query(n)
  PROVE  OneByOneInv'
<1>1. /\ plan.kind[n] = "sql" /\ pc[n] = "called" /\ Active(n)
      /\ UNCHANGED <<plan, trans, using, committed>>
  BY DEF Query, Kind, Active
<1>2. /\ pc[n] \notin Waiting \union Ended
      /\ "querying" \notin Asleep \union Before \union Unbegun
      /\ "write" \in DOMAIN WaitsIn /\ WaitsIn["write"] = "querying"
  BY <1>1 DEF Waiting, Ended, Before, Unbegun, Asleep, WaitsIn
<1>3. PICK r : r = FoundRunner(n)
  OBVIOUS
<1>4. CASE Throw(n) /\ UNCHANGED runners
  BY <1>1, <1>2, <1>4, ThrowKeepsOrder
<1>5. CASE /\ r # None /\ Go(n, "querying")
           /\ runners' = [runners EXCEPT ![r] = Sent(@, "query", n)]
  <2>1. IsSetOf(r, plan.key[n], home[n], home)
    BY <1>1, <1>3, <1>5, OrderlyIs, FoundIsOfHome
  <2>2. /\ plan.owner[n] = r /\ r \in Steps /\ plan.kind[r] = "trans" /\ r # n
        /\ n \in SqlSteps /\ RunnerOf(n) = r
    BY <1>1, <1>5, <2>1, OrderlyIs, FoundByItsWriters DEF IsSetOf, SqlSteps, RunnerOf
  <2>3. pc[r] = "running"
    BY <1>1, <2>2, OrderlyIs, WritersInside, Quiet
  <2>4. PICK x, y : x = runners[r] /\ y = Sent(x, "query", n)
    OBVIOUS
  <2>5. /\ OfStep(r, x) /\ OfSet(r, x) /\ RunnerOK(r, x) /\ using[r] = r
        /\ x.state = "open" /\ x.active /\ InTransaction(r, x)
    BY <2>2, <2>3, <2>4, OrderlyIs DEF Sessions, OfStep, OfSet, Owned, WithRunner
  <2>6. /\ y.state = "open" /\ y.depth = 1 /\ y.stack = x.stack /\ y.active
        /\ y.wire = Append(x.wire, [sql |-> "write", by |-> n])
    BY <2>4, <2>5, SentIs DEF InTransaction
  <2>7. Steady(n, {}) /\ pc'[n] = "querying"
    BY <1>1, <1>2, <1>5, OrderlyIs, GoMoves
  <2>8. PICK called : Steady(n, called) /\ Moves(n, called) /\ called = {}
    BY <2>7 DEF Steady
  <2>9. Wired(r, y.wire)'
    BY <1>1, <1>2, <2>2, <2>4, <2>5, <2>6, <2>7, <2>8, SentWired
  <2>10. ~Succeeds(n)' /\ pc'[r] = "running"
    BY <2>2, <2>3, <2>7, <2>8 DEF Succeeds, Moves
  <2>11. InTransaction(r, y)'
    <3>1. Writers(r)' = Writers(r) /\ \A w \in Writers(r) : w \in Steps
      BY <1>1 DEF Writers, Steps
    <3>2. \A w \in Writers(r) : Succeeds(w)' => Succeeds(w)
      BY <1>1, <2>8, <2>10, <3>1, OrderlyIs, SucceedsStays
    <3> QED
      BY <2>5, <2>6, <3>1, <3>2 DEF InTransaction
  <2>12. OfSet(r, y)'
    BY <1>1, <2>5, <2>6, <2>10, <2>11 DEF OfSet, Before, WithRunner, Ended
  <2>13. OfStep(r, y)'
    BY <1>1, <2>2, <2>9, <2>12 DEF OfStep
  <2>14. \A q \in Steps : runners'[q] = IF q = r THEN y ELSE runners[q]
    BY <1>5, <2>4, OrderlyIs DEF Owned
  <2>15. FoundConnected'
    BY <1>1, <2>8, OrderlyIs, FoundStays
  <2> QED
    BY <1>1, <1>2, <2>2, <2>8, <2>10, <2>13, <2>14, <2>15, SendingKeeps
<1> QED
  BY <1>3, <1>4, <1>5 DEF Query

LEMMA AutonomousConnectedKeepsOrder ==
  ASSUME NEW home, NEW inside, Orderly(home, inside), NEW n \in Steps,
         AutonomousConnected(n)
  PROVE  OneByOneInv'
<1>1. /\ plan.kind[n] = "autonomous" /\ pc[n] = "connecting" /\ Active(n)
      /\ UNCHANGED <<plan, trans, using, committed>> /\ RunnerOf(n) = n
      /\ Go(n, "querying")
  BY DEF AutonomousConnected, Kind, Active, RunnerOf
<1>2. /\ pc[n] \notin Waiting \union Ended
      /\ "querying" \notin Asleep \union Before \union Unbegun
      /\ "write" \in DOMAIN WaitsIn /\ WaitsIn["write"] = "querying"
  BY <1>1 DEF Waiting, Ended, Before, Unbegun, Asleep, WaitsIn
<1>3. PICK x, y, z : x = runners[n] /\ y = Opened(x) /\ z = Sent(y, "query", n)
  OBVIOUS
<1>4. OfStep(n, x) /\ RunnerOK(n, x) /\ x.stack = <<>>
  BY <1>1, <1>3, OrderlyIs DEF Sessions, OfStep, Owned
<1>5. RunnerOK(n, y) /\ y.state = "open" /\ y.stack = <<>> /\ y.wire = x.wire
  BY <1>3, <1>4, OpenedOK, OpenedIs DEF RunnerOK
<1>6. /\ z.state = "open" /\ z.stack = <<>>
      /\ z.wire = Append(x.wire, [sql |-> "write", by |-> n])
  BY <1>3, <1>5, SentIs
<1>7. Steady(n, {}) /\ pc'[n] = "querying"
  BY <1>1, <1>2, OrderlyIs, GoMoves
<1>8. PICK called : Steady(n, called) /\ Moves(n, called)
  BY <1>7 DEF Steady
<1>9. Wired(n, z.wire)'
  BY <1>1, <1>2, <1>3, <1>4, <1>6, <1>7, <1>8, SentWired
<1>10. OfStep(n, z)'
  BY <1>1, <1>6, <1>9 DEF OfStep
<1>11. \A q \in Steps : runners'[q] = IF q = n THEN z ELSE runners[q]
  BY <1>3, OrderlyIs DEF AutonomousConnected, Owned
<1>12. FoundConnected'
  BY <1>1, <1>8, OrderlyIs, FoundStays
<1>13. ~Succeeds(n)'
  BY <1>7 DEF Succeeds
<1> QED
  BY <1>1, <1>2, <1>8, <1>10, <1>11, <1>12, <1>13, SendingKeeps

-----------------------------------------------------------------------------
(* The database answers. *)

LEMMA SucceededIs ==
  ASSUME NEW r, NEW x, RunnerOK(r, x)
  PROVE  /\ Succeeded(x).wire = Tail(x.wire) /\ Succeeded(x).state = x.state
         /\ Succeeded(x).stack = Stacked(x) /\ Succeeded(x).depth = Counted(x)
         /\ x.active /\ Head(x.wire).sql \notin {"commit", "rollback"} =>
              Succeeded(x).active
  BY DEF RunnerOK, Succeeded

LEMMA FailedIs ==
  ASSUME NEW r, NEW x, RunnerOK(r, x)
  PROVE  /\ Failed(x).wire = Tail(x.wire) /\ Failed(x).state = x.state
         /\ Failed(x).stack =
              (IF Head(x.wire).sql \in {"commit", "rollback"} THEN <<>> ELSE x.stack)
         /\ Failed(x).depth = x.depth /\ (x.active => Failed(x).active)
  BY DEF RunnerOK, Failed

(* The step whose statement is at the head of the wire, and its runner. *)
Answers(r, x, n) ==
  r \in Steps /\ x = runners[r] /\ x.wire # <<>> /\ n = Head(x.wire).by

LEMMA AnsweredIs ==
  ASSUME NEW home, NEW inside, Orderly(home, inside), NEW r, NEW x, NEW n, Answers(r, x, n)
  PROVE  /\ n \in Steps /\ RunnerOf(n) = r /\ r \in Steps /\ x = runners[r]
         /\ OfStep(r, x) /\ RunnerOK(r, x)
         /\ Head(x.wire).sql \in DOMAIN WaitsIn /\ pc[n] = WaitsIn[Head(x.wire).sql]
         /\ Active(n) /\ pc[n] \notin Ended /\ pc[n] \notin Before /\ pc[n] # "running"
         /\ plan.kind[n] # "sql" => n = r
<1>1. OfStep(r, x) /\ RunnerOK(r, x)
  BY OrderlyIs DEF Sessions, Owned, Answers
<1>2. PICK wire : wire = x.wire
  OBVIOUS
<1>3. Wired(r, wire) /\ wire # <<>> /\ n = Head(wire).by
  BY <1>1, <1>2 DEF OfStep, Answers
<1>4. /\ n \in Steps /\ RunnerOf(n) = r
      /\ Head(wire).sql \in DOMAIN WaitsIn /\ pc[n] = WaitsIn[Head(wire).sql]
  BY <1>3, TailWired
<1>5. pc[n] \in Waiting
  BY <1>4 DEF WaitsIn, Waiting
<1> QED
  BY <1>1, <1>2, <1>4, <1>5 DEF Answers, Waiting, Active, Ended, Before, RunnerOf

(* What stays on the wire. *)
LEMMA RestByOthers ==
  ASSUME NEW home, NEW inside, Orderly(home, inside), NEW r, NEW x, NEW n, Answers(r, x, n)
  PROVE  /\ Wired(r, Tail(x.wire))
         /\ \A i \in 1..Len(Tail(x.wire)) : Tail(x.wire)[i].by # n
<1>1. PICK wire : wire = x.wire
  OBVIOUS
<1>2. Wired(r, wire) /\ wire # <<>> /\ n = Head(wire).by
  BY <1>1, AnsweredIs DEF OfStep, Answers
<1> QED
  BY <1>1, <1>2, TailWired

LEMMA RestWired ==
  ASSUME NEW home, NEW inside, Orderly(home, inside), NEW r, NEW x, NEW n, Answers(r, x, n),
         plan' = plan, NEW called, Moves(n, called), NEW y, y.wire = Tail(x.wire)
  PROVE  Wired(r, y.wire)'
<1>1. PICK w : w = y.wire
  OBVIOUS
<1>2. n \in Steps /\ Wired(r, w) /\ \A i \in 1..Len(w) : w[i].by # n
  BY <1>1, AnsweredIs, RestByOthers
<1>3. Wired(r, w)'
  BY <1>2, WiredStays
<1> QED
  BY <1>1, <1>3

LEMMA AnsweringKeeps ==
  ASSUME NEW home, NEW inside, Orderly(home, inside), UNCHANGED <<plan, trans, using>>,
         NEW n \in Steps, NEW called, Steady(n, called),
         NEW r \in Steps, NEW x, OfStep(r, x)', RunnerOf(n) = r,
         \A q \in Steps : runners'[q] = IF q = r THEN x ELSE runners[q],
         Durable'
  PROVE  OneByOneInv'
<1>1. Moves(n, called) /\ KeepsTurn(n, called)
  BY DEF Steady
<1>2. InTurn' /\ Phases'
  BY <1>1, OrderlyIs, TurnKeeps, PhasesKeep
<1>3. FoundConnected'
  BY <1>1, OrderlyIs, FoundStays
<1>4. Sessions'
  <2>1. r # n => plan.kind[n] = "sql"
    BY DEF RunnerOf
  <2>2. \A q \in Steps \ {r} : n \notin Writers(q)
    BY DEF Writers, RunnerOf
  <2> QED
    BY <1>1, <2>1, <2>2, OrderlyIs, SessionsKeep
<1> QED
  BY <1>2, <1>3, <1>4 DEF OneByOneInv

(* A writer waits for a set that is running, in its transaction. *)
LEMMA WriterIs ==
  ASSUME NEW home, NEW inside, Orderly(home, inside), NEW r, NEW x, NEW n, Answers(r, x, n),
         plan.kind[n] = "sql"
  PROVE  /\ pc[n] = "querying" /\ plan.owner[n] = r /\ n \in SqlSteps /\ n \in Writers(r)
         /\ r # n /\ plan.kind[r] = "trans" /\ pc[r] = "running" /\ OfSet(r, x)
         /\ InTransaction(r, x) /\ using[r] = r /\ x.state = "open" /\ x.active
<1>1. /\ n \in Steps /\ RunnerOf(n) = r /\ r \in Steps /\ OfStep(r, x) /\ Active(n)
      /\ pc[n] \in Waiting
  BY AnsweredIs DEF WaitsIn, Waiting
<1>2. pc[n] = "querying"
  BY <1>1, OrderlyIs DEF Phases, Waiting
<1>3. /\ plan.owner[n] = r /\ n \in SqlSteps /\ n \in Writers(r) /\ r # n
      /\ plan.kind[r] = "trans" /\ n \in inside[r]
  <2>1. plan.owner[n] = r /\ r # None
    BY <1>1, OrderlyIs DEF RunnerOf
  <2>2. n \in SqlSteps
    BY <1>1, <2>1 DEF SqlSteps
  <2> QED
    BY <2>1, <2>2, OrderlyIs, WritersInside
<1>4. pc[r] = "running"
  BY <1>1, <1>3, OrderlyIs, Quiet
<1> QED
  BY <1>1, <1>2, <1>3, <1>4 DEF OfStep, OfSet, WithRunner

(* A write of a transaction is put on the session, or was refused. *)
LEMMA WriterAnswered ==
  ASSUME NEW home, NEW inside, Orderly(home, inside), UNCHANGED <<plan, trans, using>>,
         NEW r, NEW x, NEW n, Answers(r, x, n), plan.kind[n] = "sql",
         NEW y, y.wire = Tail(x.wire), y.state = x.state, y.depth = x.depth,
         x.active => y.active, runners' = [runners EXCEPT ![r] = y],
         \/ Go(n, "done") /\ y.stack = [x.stack EXCEPT ![1] = @ \union {n}]
         \/ Throw(n) /\ y.stack = x.stack,
         \A w \in SqlSteps : w \in committed' <=> w \in committed
  PROVE  OneByOneInv'
<1>1. /\ n \in Steps /\ RunnerOf(n) = r /\ r \in Steps
      /\ Active(n) /\ pc[n] \notin Ended /\ pc[n] # "running"
  BY AnsweredIs
<1>2. /\ plan.owner[n] = r /\ n \in Writers(r) /\ r # n
      /\ plan.kind[r] = "trans" /\ pc[r] = "running" /\ OfSet(r, x)
      /\ InTransaction(r, x) /\ using[r] = r /\ x.state = "open" /\ x.active
  BY WriterIs
<1>3. /\ \E called : Steady(n, called)
      /\ Go(n, "done") \/ ~Succeeds(n)'
  <2>1. CASE Go(n, "done")
    <3>1. "done" \notin Asleep \union Before \union Unbegun
      BY DEF Asleep, Before, Unbegun
    <3> QED
      BY <1>1, <2>1, <3>1, OrderlyIs, GoMoves
  <2>2. CASE Throw(n)
    BY <1>1, <2>2, OrderlyIs, ThrowMoves
  <2> QED
    BY <2>1, <2>2
<1>4. PICK called : Steady(n, called) /\ Moves(n, called)
  BY <1>3 DEF Steady
<1>5. Wired(r, y.wire)'
  BY <1>4, RestWired
<1>6. pc'[r] = "running"
  BY <1>1, <1>2, <1>4 DEF Moves
<1>7. /\ y.stack \in Seq(SUBSET Writers(r)) /\ Len(y.stack) = 1
      /\ x.stack[1] \subseteq y.stack[1]
      /\ Go(n, "done") /\ ~Throw(n) => n \in y.stack[1]
  <2>1. PICK s : s = x.stack
    OBVIOUS
  <2>2. s \in Seq(SUBSET Writers(r)) /\ Len(s) = 1
    BY <1>2, <2>1 DEF InTransaction
  <2>3. CASE y.stack = [x.stack EXCEPT ![1] = @ \union {n}]
    BY <1>2, <2>1, <2>2, <2>3
  <2>4. CASE Throw(n) /\ y.stack = x.stack
    BY <2>1, <2>2, <2>4
  <2> QED
    BY <2>3, <2>4
<1>8. InTransaction(r, y)'
  <2>1. Writers(r)' = Writers(r) /\ \A w \in Writers(r) : w \in Steps
    BY DEF Writers, Steps
  <2>2. \A w \in Writers(r) : Succeeds(w)' => Succeeds(w) \/ w = n
    BY <1>1, <1>4, <2>1, OrderlyIs, SucceedsStays
  <2>3. Succeeds(n)' => n \in y.stack[1]
    <3>1. Throw(n) => ~Succeeds(n)'
      BY <1>1, OrderlyIs, ThrowMoves
    <3> QED
      BY <1>3, <1>7, <3>1
  <2> QED
    BY <1>2, <1>7, <2>1, <2>2, <2>3 DEF InTransaction
<1>9. OfSet(r, y)'
  BY <1>2, <1>6, <1>8 DEF OfSet, Before, WithRunner, Ended
<1>10. OfStep(r, y)'
  BY <1>2, <1>5, <1>9 DEF OfStep
<1>11. \A q \in Steps : runners'[q] = IF q = r THEN y ELSE runners[q]
  BY OrderlyIs DEF Owned
<1>12. ~Succeeds(r)'
  BY <1>6 DEF Succeeds
<1>13. Durable'
  BY <1>1, <1>2, <1>4, <1>12, OrderlyIs, DurableStays
<1> QED
  BY <1>1, <1>4, <1>10, <1>11, <1>13, AnsweringKeeps

LEMMA AutonomousAnswered ==
  ASSUME NEW home, NEW inside, Orderly(home, inside), UNCHANGED <<plan, trans, using>>,
         NEW r, NEW x, NEW n, Answers(r, x, n), plan.kind[n] = "autonomous",
         NEW y, y.wire = Tail(x.wire), y.stack = <<>>,
         runners' = [runners EXCEPT ![r] = y], Go(n, "done") \/ Throw(n),
         \A w \in SqlSteps : w \in committed' <=> w \in committed
  PROVE  OneByOneInv'
<1>1. /\ n \in Steps /\ RunnerOf(n) = r /\ r = n /\ OfStep(r, x)
      /\ Active(n) /\ pc[n] \notin Ended /\ pc[n] # "running"
  BY AnsweredIs
<1>2. (\E called : Steady(n, called)) /\ pc'[n] \in Ended
  <2>1. CASE Go(n, "done")
    <3>1. "done" \notin Asleep \union Before \union Unbegun /\ "done" \in Ended
      BY DEF Asleep, Before, Unbegun, Ended
    <3> QED
      BY <1>1, <2>1, <3>1, OrderlyIs, GoMoves
  <2>2. CASE Throw(n)
    BY <1>1, <2>2, OrderlyIs, ThrowMoves DEF Ended
  <2> QED
    BY <2>1, <2>2
<1>3. PICK called : Steady(n, called) /\ Moves(n, called)
  BY <1>2 DEF Steady
<1>4. Wired(r, y.wire)'
  BY <1>3, RestWired
<1>5. OfStep(r, y)'
  BY <1>1, <1>2, <1>4 DEF OfStep
<1>6. \A q \in Steps : runners'[q] = IF q = r THEN y ELSE runners[q]
  BY OrderlyIs DEF Owned
<1>7. Durable'
  BY <1>1, <1>3, OrderlyIs, DurableStays
<1> QED
  BY <1>1, <1>3, <1>5, <1>6, <1>7, AnsweringKeeps

(* The transaction begins with no write reported. *)
LEMMA BeginAnswered ==
  ASSUME NEW home, NEW inside, Orderly(home, inside), UNCHANGED <<plan, trans, using>>,
         NEW r, NEW x, NEW n, Answers(r, x, n), pc[n] = "beginning",
         NEW y, y.wire = Tail(x.wire), y.state = x.state, y.depth = 1,
         x.active => y.active, y.stack = <<{}>>,
         runners' = [runners EXCEPT ![r] = y], Go(n, "running"),
         \A w \in SqlSteps : w \in committed' <=> w \in committed
  PROVE  OneByOneInv'
<1>1. /\ n \in Steps /\ RunnerOf(n) = r /\ OfStep(r, x) /\ Active(n)
      /\ pc[n] \notin Ended /\ plan.kind[n] = "trans" /\ r = n
  BY AnsweredIs, OrderlyIs DEF Phases
<1>2. "running" \notin Asleep \union Before \union Unbegun
  BY DEF Asleep, Before, Unbegun
<1>3. Steady(n, {}) /\ pc'[n] = "running"
  BY <1>1, <1>2, OrderlyIs, GoMoves
<1>4. PICK called : Steady(n, called) /\ Moves(n, called)
  BY <1>3 DEF Steady
<1>5. Wired(n, y.wire)'
  BY <1>1, <1>4, RestWired
<1>6. using[n] = n /\ x.state = "open" /\ x.active
  BY <1>1 DEF OfStep, OfSet, WithRunner
<1>7. ~Succeeds(n)'
  BY <1>3 DEF Succeeds
<1>8. InTransaction(n, y)'
  <2>1. Writers(n)' = Writers(n)
    BY DEF Writers, Steps
  <2>2. ASSUME NEW w \in Writers(n)
        PROVE  ~Succeeds(w)'
    <3>1. w \in Steps /\ w \in SqlSteps /\ plan.owner[w] = n
      BY <1>1, OrderlyIs DEF Writers, SqlSteps
    <3>2. pc[w] = "idle"
      BY <1>1, <3>1, OrderlyIs, WritersInside, Untouched DEF Unbegun
    <3> QED
      BY <1>1, <1>4, <1>7, <3>1, <3>2, OrderlyIs, SucceedsStays DEF Succeeds
  <2>3. y.stack \in Seq(SUBSET Writers(n)) /\ Len(y.stack) = 1
    OBVIOUS
  <2> QED
    BY <2>1, <2>2, <2>3 DEF InTransaction
<1>9. OfSet(n, y)'
  BY <1>3, <1>6, <1>8 DEF OfSet, Before, WithRunner, Ended
<1>10. OfStep(n, y)'
  BY <1>1, <1>5, <1>9 DEF OfStep
<1>11. \A q \in Steps : runners'[q] = IF q = n THEN y ELSE runners[q]
  BY <1>1, OrderlyIs DEF Owned
<1>12. Durable'
  BY <1>1, <1>4, <1>7, OrderlyIs, DurableStays
<1> QED
  BY <1>1, <1>4, <1>10, <1>11, <1>12, AnsweringKeeps

(* A begin or a commit that failed is rolled back. *)
LEMMA RollbackSent ==
  ASSUME NEW home, NEW inside, Orderly(home, inside),
         UNCHANGED <<plan, trans, using, committed>>,
         NEW r, NEW x, NEW n, Answers(r, x, n), NEW y, y = Failed(x), RollbackAfter(n, r, y)
  PROVE  OneByOneInv'
<1>1. /\ n \in Steps /\ RunnerOf(n) = r /\ OfStep(r, x) /\ RunnerOK(r, x) /\ Active(n)
      /\ pc[n] \notin Ended /\ plan.kind[n] = "trans" /\ r = n
      /\ pc[n] \in {"beginning", "committing"}
  BY AnsweredIs, OrderlyIs DEF Phases, RollbackAfter
<1>2. /\ "rollingBack" \notin Asleep \union Before \union Unbegun
      /\ "rollback" \in DOMAIN WaitsIn /\ WaitsIn["rollback"] = "rollingBack"
  BY DEF Asleep, Before, Unbegun, WaitsIn
<1>3. using[n] = n /\ x.state = "open" /\ x.active /\ x.depth \in {0, 1}
  BY <1>1 DEF OfStep, OfSet, WithRunner, InTransaction
<1>4. /\ y.wire = Tail(x.wire) /\ y.state = "open" /\ y.depth \in {0, 1} /\ y.active
      /\ RunnerOK(r, y)
  <2>1. y.wire = Tail(x.wire) /\ y.state = "open" /\ y.depth \in {0, 1} /\ y.active
    BY <1>1, <1>3, FailedIs
  <2>2. x.wire # <<>>
    BY DEF Answers
  <2> QED
    BY <1>1, <2>1, <2>2, AnsweredOK
<1>5. PICK z : z = Sent(y, "rollback", n)
  OBVIOUS
<1>6. Go(n, "rollingBack") /\ runners' = [runners EXCEPT ![n] = z]
  <2>1. ~Refuses(y, "rollback")
    BY <1>4 DEF Refuses
  <2> QED
    BY <1>1, <1>5, <2>1 DEF RollbackAfter
<1>7. /\ z.state = "open" /\ z.depth \in {0, 1} /\ z.active
      /\ z.wire = Append(y.wire, [sql |-> "rollback", by |-> n])
  BY <1>4, <1>5, SentIs
<1>8. Steady(n, {}) /\ pc'[n] = "rollingBack"
  BY <1>1, <1>2, <1>6, OrderlyIs, GoMoves
<1>9. PICK called : Steady(n, called) /\ Moves(n, called)
  BY <1>8 DEF Steady
<1>10. Wired(n, z.wire)'
  <2>1. PICK w, e : w = y.wire /\ e = [sql |-> "rollback", by |-> n]
    OBVIOUS
  <2>2. Wired(r, y.wire)'
    BY <1>4, <1>9, RestWired
  <2>3. \A i \in 1..Len(w) : w[i].by # n
    <3>1. PICK v : v = Tail(x.wire)
      OBVIOUS
    <3>2. \A i \in 1..Len(v) : v[i].by # n
      BY <3>1, RestByOthers
    <3>3. w = v
      BY <1>4, <2>1, <3>1
    <3> QED
      BY <3>2, <3>3
  <2>4. e.by = n /\ e.sql \in DOMAIN WaitsIn /\ pc'[n] = WaitsIn[e.sql]
    BY <1>2, <1>8, <2>1
  <2>5. Wired(n, w)' /\ \A i \in 1..Len(w) : w[i].by # n
    BY <1>1, <2>1, <2>2, <2>3 DEF Wired
  <2>6. Wired(n, Append(w, e))'
    BY <1>1, <2>4, <2>5, AppendWired
  <2> QED
    BY <1>7, <2>1, <2>6
<1>11. OfSet(n, z)'
  BY <1>3, <1>7, <1>8 DEF OfSet, Before, WithRunner, Ended
<1>12. OfStep(n, z)'
  BY <1>1, <1>10, <1>11 DEF OfStep
<1>13. \A q \in Steps : runners'[q] = IF q = n THEN z ELSE runners[q]
  BY <1>6, OrderlyIs DEF Owned
<1>14. ~Succeeds(n)'
  BY <1>8 DEF Succeeds
<1>15. Durable'
  BY <1>1, <1>9, <1>14, OrderlyIs, DurableStays
<1> QED
  BY <1>1, <1>9, <1>12, <1>13, <1>15, AnsweringKeeps

(* A set releases its connection, the session out of the transaction. *)
LEMMA SetReleased ==
  ASSUME NEW home, NEW inside, Orderly(home, inside), UNCHANGED <<plan, trans, using>>,
         NEW r, NEW x, NEW n, Answers(r, x, n), pc[n] \in {"committing", "rollingBack"},
         NEW y, y.wire = Tail(x.wire), y.stack = <<>>, RunnerOK(r, y),
         ReleaseAfter(n, r, y), Go(n, "done") \/ Throw(n),
         \A called : Steady(n, called) => Durable'
  PROVE  OneByOneInv'
<1>1. /\ n \in Steps /\ RunnerOf(n) = r /\ Active(n) /\ pc[n] \notin Ended
      /\ plan.kind[n] = "trans" /\ r = n
  BY AnsweredIs, OrderlyIs DEF Phases
<1>2. (\E called : Steady(n, called)) /\ pc'[n] \in Ended
  <2>1. CASE Go(n, "done")
    <3>1. "done" \notin Asleep \union Before \union Unbegun /\ "done" \in Ended
      BY DEF Asleep, Before, Unbegun, Ended
    <3> QED
      BY <1>1, <2>1, <3>1, OrderlyIs, GoMoves
  <2>2. CASE Throw(n)
    BY <1>1, <2>2, OrderlyIs, ThrowMoves DEF Ended
  <2> QED
    BY <2>1, <2>2
<1>3. PICK called : Steady(n, called) /\ Moves(n, called)
  BY <1>2 DEF Steady
<1>4. PICK z : z = Released(y)
  OBVIOUS
<1>5. z.stack = <<>> /\ z.wire = Tail(x.wire)
  BY <1>4, OpenedIs DEF RunnerOK
<1>6. Wired(n, z.wire)'
  BY <1>1, <1>3, <1>5, RestWired
<1>7. OfSet(n, z)'
  BY <1>2, <1>5 DEF OfSet, Before, WithRunner, Ended
<1>8. OfStep(n, z)'
  BY <1>1, <1>6, <1>7 DEF OfStep
<1>9. \A q \in Steps : runners'[q] = IF q = n THEN z ELSE runners[q]
  BY <1>1, <1>4, OrderlyIs DEF Owned, ReleaseAfter
<1> QED
  BY <1>1, <1>3, <1>8, <1>9, AnsweringKeeps

(* Only the commit of a set makes rows of its writers durable. *)
LEMMA DurableByCommit ==
  ASSUME NEW home, NEW inside, Orderly(home, inside), NEW r, NEW x, NEW n, Answers(r, x, n)
  PROVE  /\ pc[n] # "committing" => MadeDurable(x) \intersect SqlSteps = {}
         /\ pc[n] = "committing" =>
              n = r /\ InTransaction(r, x) /\ MadeDurable(x) = x.stack[1]
<1>1. PICK sql : sql = Head(x.wire).sql
  OBVIOUS
<1>2. /\ n \in Steps /\ OfStep(r, x) /\ n = Head(x.wire).by
      /\ sql \in DOMAIN WaitsIn /\ pc[n] = WaitsIn[sql]
      /\ plan.kind[n] # "sql" => n = r
  BY <1>1, AnsweredIs DEF Answers
<1>3. CASE sql = "commit"
  <2>1. pc[n] = "committing" /\ plan.kind[n] = "trans" /\ n = r
    BY <1>2, <1>3, OrderlyIs DEF WaitsIn, Phases
  <2>2. InTransaction(r, x)
    BY <1>2, <2>1 DEF OfStep, OfSet
  <2>3. PICK s : s = x.stack
    OBVIOUS
  <2>4. s \in Seq(SUBSET Writers(r)) /\ Len(s) = 1
    BY <2>2, <2>3 DEF InTransaction
  <2>5. ToSet(s) = {s[1]}
    BY <2>4 DEF ToSet
  <2>6. MadeDurable(x) = UNION ToSet(s)
    BY <1>1, <1>3, <2>3 DEF MadeDurable
  <2> QED
    BY <2>1, <2>2, <2>3, <2>5, <2>6
<1>4. CASE sql = "write"
  <2>1. pc[n] = "querying" /\ pc[n] # "committing"
    BY <1>2, <1>4 DEF WaitsIn
  <2>2. CASE plan.kind[n] = "sql"
    <3>1. InTransaction(r, x)
      BY <2>2, WriterIs
    <3>2. x.stack # <<>>
      <4>1. Len(x.stack) = 1 /\ Len(<<>>) = 0
        BY <3>1 DEF InTransaction
      <4> QED
        BY <4>1
    <3>3. MadeDurable(x) = {}
      BY <1>1, <1>4, <3>2 DEF MadeDurable
    <3> QED
      BY <2>1, <3>3
  <2>3. CASE plan.kind[n] # "sql"
    <3>1. MadeDurable(x) \subseteq {n}
      BY <1>1, <1>2, <1>4 DEF MadeDurable
    <3>2. n \notin SqlSteps
      BY <2>3 DEF SqlSteps
    <3> QED
      BY <2>1, <3>1, <3>2
  <2> QED
    BY <2>2, <2>3
<1>5. CASE sql \in {"begin", "rollback"}
  <2>1. pc[n] # "committing"
    BY <1>2, <1>5 DEF WaitsIn
  <2>2. MadeDurable(x) = {}
    BY <1>1, <1>5 DEF MadeDurable
  <2> QED
    BY <2>1, <2>2
<1> QED
  BY <1>2, <1>3, <1>4, <1>5 DEF WaitsIn

LEMMA CommitAnswered ==
  ASSUME NEW home, NEW inside, Orderly(home, inside), UNCHANGED <<plan, trans, using>>,
         NEW r, NEW x, NEW n, Answers(r, x, n), pc[n] = "committing", Go(n, "done"),
         committed' = committed \union MadeDurable(x), NEW called, Steady(n, called)
  PROVE  Durable'
<1>1. /\ n = r /\ InTransaction(n, x) /\ MadeDurable(x) = x.stack[1]
      /\ n \in Steps /\ plan.kind[n] = "trans" /\ pc[n] \notin Ended
      /\ pc[n] \notin Asleep \union Before \union Unbegun
  BY AnsweredIs, DurableByCommit, OrderlyIs DEF Phases, Asleep, Before, Unbegun
<1>2. Moves(n, called) /\ KeepsTurn(n, called) /\ pc'[n] = "done"
  <2>1. Active(n) /\ "done" \notin Asleep \union Before \union Unbegun
    BY AnsweredIs DEF Asleep, Before, Unbegun
  <2>2. pc'[n] = "done"
    BY <1>1, <2>1, OrderlyIs, GoMoves
  <2> QED
    BY <2>2 DEF Steady
<1>3. Succeeds(n)'
  <2>1. CASE plan.handler[n] = None
    BY <1>2, <2>1 DEF Succeeds, HandlerRan
  <2>2. CASE plan.handler[n] # None
    <3>1. /\ plan.handler[n] \in Steps /\ plan.handler[n] # n
          /\ pc[plan.handler[n]] = "idle" /\ plan.handler[n] \notin called
      BY <1>1, <1>2, <2>2, OrderlyIs, CalledByOne DEF Control, KeepsTurn, Calls
    <3>2. pc'[plan.handler[n]] = "idle"
      BY <1>2, <3>1 DEF Moves
    <3> QED
      BY <1>2, <3>2 DEF Succeeds, HandlerRan
  <2> QED
    BY <2>1, <2>2
<1>4. SqlSteps' = SqlSteps
  BY DEF SqlSteps, Steps
<1>5. ASSUME NEW w \in SqlSteps, NEW o, o = plan.owner[w]
      PROVE  /\ w \in committed' => Succeeds(o)'
             /\ Succeeds(o)' /\ Succeeds(w)' => w \in committed'
  <2>1. o \in Steps /\ w \in Steps /\ w # n /\ w \in Writers(o)
    BY <1>1, <1>5, OrderlyIs, WritersInside DEF SqlSteps
  <2>2. Succeeds(o) => Succeeds(o)'
    BY <1>1, <1>2, <2>1, OrderlyIs, SucceedsStays
  <2>3. Succeeds(o)' => Succeeds(o) \/ o = n
    BY <1>1, <1>2, <2>1, OrderlyIs, SucceedsStays
  <2>4. Succeeds(w)' => Succeeds(w)
    BY <1>1, <1>2, <2>1, OrderlyIs, SucceedsStays
  <2>5. w \in x.stack[1] => o = n
    <3>1. PICK s : s = x.stack
      OBVIOUS
    <3>2. s \in Seq(SUBSET Writers(n)) /\ Len(s) = 1
      BY <1>1, <3>1 DEF InTransaction
    <3>3. s[1] \in SUBSET Writers(n)
      <4>1. PICK W : W = SUBSET Writers(n)
        OBVIOUS
      <4>2. s[1] \in W
        BY <3>2, <4>1
      <4> QED
        BY <4>1, <4>2
    <3> QED
      BY <1>5, <3>1, <3>3 DEF Writers
  <2>6. o = n /\ Succeeds(w) => w \in x.stack[1]
    BY <1>1, <2>1 DEF InTransaction
  <2>7. /\ w \in committed => Succeeds(o)
        /\ Succeeds(o) /\ Succeeds(w) => w \in committed
    BY <1>5, OrderlyIs DEF Durable
  <2>8. w \in committed' <=> w \in committed \/ w \in x.stack[1]
    BY <1>1
  <2>9. o = n => Succeeds(o)'
    BY <1>3
  <2> QED
    BY <2>2, <2>3, <2>4, <2>5, <2>6, <2>7, <2>8, <2>9
<1> QED
  BY <1>4, <1>5 DEF Durable

LEMMA AnswerKeepsOrder ==
  ASSUME NEW home, NEW inside, Orderly(home, inside), NEW r \in Steps, Answer(r)
  PROVE  OneByOneInv'
<1>1. PICK x, n, y : x = runners[r] /\ n = Head(x.wire).by /\ y = Succeeded(x)
  OBVIOUS
<1>2. /\ Answers(r, x, n) /\ UNCHANGED <<plan, transOf, trans, base, using>>
      /\ committed' = committed \union MadeDurable(x)
      /\ \/ AfterQuery(n, r, y, TRUE) \/ AfterBegin(n, r, y)
         \/ AfterCommit(n, r, y) \/ AfterRollback(n, r, y)
  BY <1>1 DEF Answer, Answers
<1>3. PICK sql : sql = Head(x.wire).sql
  OBVIOUS
<1>4. /\ n \in Steps /\ RunnerOK(r, x) /\ OfStep(r, x)
      /\ sql \in DOMAIN WaitsIn /\ pc[n] = WaitsIn[sql]
      /\ plan.kind[n] # "sql" => n = r
  BY <1>2, <1>3, AnsweredIs
<1>5. /\ y.wire = Tail(x.wire) /\ y.state = x.state
      /\ y.stack = Stacked(x) /\ y.depth = Counted(x)
      /\ x.active /\ sql \notin {"commit", "rollback"} => y.active
      /\ RunnerOK(r, y)
  <2>1. x.wire # <<>>
    BY <1>2 DEF Answers
  <2>2. RunnerOK(r, y)
    BY <1>1, <1>4, <2>1, AnsweredOK
  <2> QED
    BY <1>1, <1>3, <1>4, <2>2, SucceededIs
<1>6. pc[n] # "committing" => \A w \in SqlSteps : w \in committed' <=> w \in committed
  BY <1>2, DurableByCommit
<1>7. CASE AfterQuery(n, r, y, TRUE)
  <2>1. /\ pc[n] = "querying" /\ sql = "write" /\ plan.kind[n] \in {"sql", "autonomous"}
        /\ Go(n, "done") /\ y.depth = x.depth
    BY <1>3, <1>4, <1>5, <1>7, OrderlyIs DEF AfterQuery, WaitsIn, Phases, Counted
  <2>2. CASE plan.kind[n] = "sql"
    <3>1. Len(x.stack) = 1
      BY <1>2, <2>2, WriterIs DEF InTransaction
    <3>2. y.stack = [x.stack EXCEPT ![1] = @ \union {n}]
      BY <1>1, <1>3, <1>5, <2>1, <3>1 DEF Stacked
    <3>3. runners' = [runners EXCEPT ![r] = y]
      BY <1>7, <2>2 DEF AfterQuery, Kind
    <3> QED
      BY <1>2, <1>5, <1>6, <2>1, <2>2, <3>2, <3>3, WriterAnswered
  <2>3. CASE plan.kind[n] = "autonomous"
    <3>1. x.stack = <<>> /\ n = r
      BY <1>4, <2>3 DEF OfStep
    <3>2. y.stack = <<>>
      BY <1>3, <1>5, <2>1, <3>1 DEF Stacked
    <3>3. PICK z : z = Released(y)
      OBVIOUS
    <3>4. z.stack = <<>> /\ z.wire = Tail(x.wire)
      BY <1>5, <3>2, <3>3, OpenedIs DEF RunnerOK
    <3>5. runners' = [runners EXCEPT ![r] = z]
      BY <1>7, <2>3, <3>3 DEF AfterQuery, Kind, ReleaseAfter
    <3> QED
      BY <1>2, <1>6, <2>1, <2>3, <3>4, <3>5, AutonomousAnswered
  <2> QED
    BY <2>1, <2>2, <2>3
<1>8. CASE AfterBegin(n, r, y)
  <2>1. /\ pc[n] = "beginning" /\ sql = "begin" /\ plan.kind[n] = "trans" /\ n = r
        /\ Go(n, "running") /\ runners' = [runners EXCEPT ![r] = y]
    BY <1>3, <1>4, <1>8, OrderlyIs DEF AfterBegin, WaitsIn, Phases
  <2>2. x.depth = 0
    BY <1>4, <2>1 DEF OfStep, OfSet
  <2>3. y.depth = 1 /\ y.stack = <<{}>> /\ (x.active => y.active)
    BY <1>3, <1>5, <2>1, <2>2 DEF Stacked, Counted
  <2> QED
    BY <1>2, <1>5, <1>6, <2>1, <2>3, BeginAnswered
<1>9. CASE AfterCommit(n, r, y)
  <2>1. /\ pc[n] = "committing" /\ sql = "commit"
        /\ Go(n, "done") /\ ReleaseAfter(n, r, y)
    BY <1>3, <1>4, <1>9 DEF AfterCommit, WaitsIn
  <2>2. y.stack = <<>>
    BY <1>3, <1>5, <2>1 DEF Stacked
  <2>3. \A called : Steady(n, called) => Durable'
    BY <1>2, <2>1, CommitAnswered
  <2> QED
    BY <1>2, <1>5, <2>1, <2>2, <2>3, SetReleased
<1>10. CASE AfterRollback(n, r, y)
  <2>1. /\ pc[n] = "rollingBack" /\ sql = "rollback" /\ plan.kind[n] = "trans"
        /\ Throw(n) /\ ReleaseAfter(n, r, y)
    BY <1>3, <1>4, <1>10, OrderlyIs DEF AfterRollback, WaitsIn, Phases
  <2>2. y.stack = <<>>
    BY <1>3, <1>5, <2>1 DEF Stacked
  <2>3. \A called : Steady(n, called) => Durable'
    <3>1. ~Succeeds(n)'
      BY <1>2, <1>4, <2>1, OrderlyIs, AnsweredIs, ThrowMoves
    <3> QED
      BY <1>2, <1>4, <1>6, <2>1, <3>1, OrderlyIs, DurableStays DEF Steady
  <2> QED
    BY <1>2, <1>5, <2>1, <2>2, <2>3, SetReleased
<1> QED
  BY <1>2, <1>7, <1>8, <1>9, <1>10

LEMMA AnswerErrorKeepsOrder ==
  ASSUME NEW home, NEW inside, Orderly(home, inside), NEW r \in Steps, AnswerError(r)
  PROVE  OneByOneInv'
<1>1. PICK x, n, y : x = runners[r] /\ n = Head(x.wire).by /\ y = Failed(x)
  OBVIOUS
<1>2. /\ Answers(r, x, n) /\ UNCHANGED <<plan, transOf, trans, base, using, committed>>
      /\ \/ AfterQuery(n, r, y, FALSE) \/ RollbackAfter(n, r, y)
         \/ AfterRollback(n, r, y)
  BY <1>1 DEF AnswerError, Answers
<1>3. PICK sql : sql = Head(x.wire).sql
  OBVIOUS
<1>4. /\ n \in Steps /\ RunnerOK(r, x) /\ OfStep(r, x)
      /\ sql \in DOMAIN WaitsIn /\ pc[n] = WaitsIn[sql]
      /\ plan.kind[n] # "sql" => n = r
  BY <1>2, <1>3, AnsweredIs
<1>5. /\ y.wire = Tail(x.wire) /\ y.state = x.state
      /\ y.stack = (IF sql \in {"commit", "rollback"} THEN <<>> ELSE x.stack)
      /\ y.depth = x.depth /\ (x.active => y.active)
      /\ RunnerOK(r, y)
  <2>1. x.wire # <<>>
    BY <1>2 DEF Answers
  <2>2. RunnerOK(r, y)
    BY <1>1, <1>4, <2>1, AnsweredOK
  <2> QED
    BY <1>1, <1>3, <1>4, <2>2, FailedIs
<1>6. CASE AfterQuery(n, r, y, FALSE)
  <2>1. /\ pc[n] = "querying" /\ sql = "write" /\ plan.kind[n] \in {"sql", "autonomous"}
        /\ Throw(n) /\ y.stack = x.stack
    BY <1>4, <1>5, <1>6, OrderlyIs DEF AfterQuery, WaitsIn, Phases
  <2>2. CASE plan.kind[n] = "sql"
    <3>1. runners' = [runners EXCEPT ![r] = y]
      BY <1>6, <2>2 DEF AfterQuery, Kind
    <3> QED
      BY <1>2, <1>5, <2>1, <2>2, <3>1, WriterAnswered
  <2>3. CASE plan.kind[n] = "autonomous"
    <3>1. x.stack = <<>> /\ n = r
      BY <1>4, <2>3 DEF OfStep
    <3>2. PICK z : z = Released(y)
      OBVIOUS
    <3>3. z.stack = <<>> /\ z.wire = Tail(x.wire)
      BY <1>5, <2>1, <3>1, <3>2, OpenedIs DEF RunnerOK
    <3>4. runners' = [runners EXCEPT ![r] = z]
      BY <1>6, <2>3, <3>2 DEF AfterQuery, Kind, ReleaseAfter
    <3> QED
      BY <1>2, <2>1, <2>3, <3>3, <3>4, AutonomousAnswered
  <2> QED
    BY <2>1, <2>2, <2>3
<1>7. CASE RollbackAfter(n, r, y)
  BY <1>1, <1>2, <1>7, RollbackSent
<1>8. CASE AfterRollback(n, r, y)
  <2>1. /\ pc[n] = "rollingBack" /\ sql = "rollback" /\ plan.kind[n] = "trans"
        /\ Throw(n) /\ ReleaseAfter(n, r, y) /\ y.stack = <<>>
    BY <1>4, <1>5, <1>8, OrderlyIs DEF AfterRollback, WaitsIn, Phases
  <2>2. \A called : Steady(n, called) => Durable'
    <3>1. ~Succeeds(n)'
      BY <1>2, <1>4, <2>1, OrderlyIs, AnsweredIs, ThrowMoves
    <3> QED
      BY <1>2, <1>4, <2>1, <3>1, OrderlyIs, DurableStays DEF Steady
  <2> QED
    BY <1>2, <1>5, <2>1, <2>2, SetReleased
<1> QED
  BY <1>2, <1>6, <1>7, <1>8

-----------------------------------------------------------------------------
OrderlyRun == \E home, inside : Orderly(home, inside)

LEMMA OrderlyInitially ==
  ASSUME NEW home, NEW inside, WellNamed(plan, home), OneByOne(plan, inside), Init
  PROVE  Orderly(home, inside)
<1>1. IsTree(plan) /\ None \notin Steps
  BY DEF WellNamed, IsTree, Steps
<1>2. /\ \A n \in Steps : pc[n] \in {"idle", "called"}
      /\ \A n \in Steps : n # 1 => pc[n] = "idle"
  BY DEF Init
<1>3. \A n \in Steps : Calls(plan, n) \subseteq Steps \ {1}
  BY <1>1 DEF IsTree, Steps
<1>4. InTurn
  <2>1. ASSUME NEW q \in Steps, plan.kind[q] \in OneByOneKinds
        PROVE  /\ \A i, j \in DOMAIN plan.kids[q] :
                    i < j /\ pc[plan.kids[q][j]] # "idle" => pc[plan.kids[q][i]] = "done"
               /\ \A m \in ToSet(plan.kids[q]) : pc[m] = "idle"
    <3>1. \A m \in ToSet(plan.kids[q]) : m \in Calls(plan, q)
      BY DEF Calls
    <3>2. \A m \in ToSet(plan.kids[q]) : pc[m] = "idle"
      BY <1>2, <1>3, <3>1
    <3>3. \A i \in DOMAIN plan.kids[q] : plan.kids[q][i] \in ToSet(plan.kids[q])
      BY DEF ToSet
    <3> QED
      BY <3>2, <3>3
  <2>2. ASSUME NEW q \in Steps, plan.handler[q] # None
        PROVE  pc[plan.handler[q]] = "idle"
    BY <1>2, <1>3, <2>2 DEF Calls
  <2> QED
    BY <2>1, <2>2 DEF InTurn, Active
<1>5. Phases
  BY <1>2 DEF Phases
<1>6. Sessions
  <2>1. ASSUME NEW r \in Steps
        PROVE  OfStep(r, runners[r])
    <3>1. PICK x : x = NewRunner
      OBVIOUS
    <3>2. runners[r] = x
      BY <3>1 DEF Init
    <3>3. x.wire = <<>> /\ x.stack = <<>> /\ x.state = "none"
      BY <3>1, NewRunnerIs
    <3>4. <<>> \in Seq({}) /\ Len(<<>>) = 0
      OBVIOUS
    <3>5. Wired(r, x.wire)
      BY <3>3, <3>4 DEF Wired
    <3>6. OfSet(r, x)
      BY <1>2, <3>1, <3>3 DEF OfSet, Before, WithRunner
    <3> QED
      BY <3>1, <3>2, <3>3, <3>5, <3>6 DEF OfStep
  <2> QED
    BY <2>1 DEF Sessions
<1>7. FoundConnected
  BY DEF FoundConnected, Init
<1>8. Durable
  <2>1. committed = {}
    BY DEF Init
  <2>2. \A n \in SqlSteps : ~Succeeds(plan.owner[n])
    BY <1>2, WritersInside DEF Succeeds
  <2> QED
    BY <2>1, <2>2 DEF Durable
<1> QED
  BY <1>4, <1>5, <1>6, <1>7, <1>8, Initially DEF Orderly, OneByOneInv

LEMMA OrderlyStays ==
  ASSUME NEW home, NEW inside, Orderly(home, inside), [Next]_vars
  PROVE  Orderly(home, inside)'
<1>1. plan' = plan
  BY PlanStays
<1>2. ASSUME NEW n \in Steps, Snippet(n) \/ HandlerEnds(n)
      PROVE  OneByOneInv'
  BY <1>2, SnippetKeepsOrder, HandlerEndsKeepsOrder
<1>3. ASSUME NEW n \in Steps, Enter(n) \/ EnterAsync(n)
      PROVE  OneByOneInv'
  BY <1>3, EnterKeepsOrder, EnterAsyncKeepsOrder
<1>4. ASSUME NEW n \in Steps, NextStep(n) \/ Leave(n)
      PROVE  OneByOneInv'
  BY <1>4, NextStepKeepsOrder, LeaveKeepsOrder
<1>5. ASSUME NEW n \in Steps, AttachFound(n)
      PROVE  OneByOneInv'
  BY <1>5, NeverFound
<1>6. ASSUME NEW n \in Steps, AttachNew(n) \/ Autonomous(n) \/ ConnectFails(n)
      PROVE  OneByOneInv'
  BY <1>6, ConnectingKeepsOrder
<1>7. ASSUME NEW n \in Steps, Connected(n)
      PROVE  OneByOneInv'
  BY <1>7, ConnectedKeepsOrder
<1>8. ASSUME NEW n \in Steps, Commit(n) \/ Rollback(n)
      PROVE  OneByOneInv'
  BY <1>8, EndsKeepOrder
<1>9. ASSUME NEW n \in Steps, Query(n) \/ AutonomousConnected(n)
      PROVE  OneByOneInv'
  BY <1>9, QueryKeepsOrder, AutonomousConnectedKeepsOrder
<1>10. ASSUME NEW n \in Steps, Answer(n) \/ AnswerError(n)
       PROVE  OneByOneInv'
  BY <1>10, AnswerKeepsOrder, AnswerErrorKeepsOrder
<1>11. ASSUME UNCHANGED vars
       PROVE  OneByOneInv'
  <2>1. UNCHANGED <<plan, pc, trans, using, runners, committed>>
    BY <1>11 DEF vars
  <2>2. InTurn' /\ Phases' /\ FoundConnected'
    BY <2>1, OrderlyIs DEF InTurn, Phases, FoundConnected, Active, Steps, Keys
  <2>3. Durable'
    BY <2>1, OrderlyIs DEF Durable, Succeeds, HandlerRan, SqlSteps, Steps
  <2>4. ASSUME NEW r \in Steps
        PROVE  OfStep(r, runners[r])'
    <3>1. PICK x : x = runners[r]
      OBVIOUS
    <3>2. x = runners'[r] /\ OfStep(r, x)
      BY <2>1, <3>1, OrderlyIs DEF Sessions
    <3>3. \A m \in Steps : Succeeds(m)' <=> Succeeds(m)
      BY <2>1 DEF Succeeds, HandlerRan
    <3>4. Writers(r)' = Writers(r) /\ Writers(r) \subseteq Steps
      BY <2>1 DEF Writers, Steps
    <3>5. InTransaction(r, x)' <=> InTransaction(r, x)
      BY <3>3, <3>4 DEF InTransaction
    <3>6. Wired(r, x.wire)' <=> Wired(r, x.wire)
      BY <2>1 DEF Wired, RunnerOf, WaitsIn, Steps
    <3>7. OfSet(r, x)' <=> OfSet(r, x)
      BY <2>1, <3>5 DEF OfSet
    <3>8. OfStep(r, x)'
      BY <2>1, <3>2, <3>6, <3>7 DEF OfStep
    <3> QED
      BY <3>2, <3>8, AtRunner
  <2>5. Sessions'
    BY <2>1, <2>4 DEF Sessions, Steps
  <2> QED
    BY <2>2, <2>3, <2>5 DEF OneByOneInv
<1>12. OneByOneInv'
  BY <1>2, <1>3, <1>4, <1>5, <1>6, <1>7, <1>8, <1>9, <1>10, <1>11 DEF Next
<1>13. Inv(home)'
  BY OrderlyIs, StepsKeep
<1> QED
  BY <1>1, <1>12, <1>13, OrderlyIs DEF Orderly

LEMMA OrderlyInvariance == OrderlyRun /\ [Next]_vars => OrderlyRun'
<1> SUFFICES ASSUME OrderlyRun, [Next]_vars
             PROVE  OrderlyRun'
  OBVIOUS
<1>1. PICK home, inside : Orderly(home, inside)
  BY DEF OrderlyRun
<1>2. Orderly(home, inside)'
  BY <1>1, OrderlyStays
<1> QED
  BY <1>2 DEF OrderlyRun

LEMMA OrderlyStarts ==
  ASSUME \A p \in Plans : \E home, inside : WellNamed(p, home) /\ OneByOne(p, inside), Init
  PROVE  OrderlyRun
<1>1. PICK home, inside : WellNamed(plan, home) /\ OneByOne(plan, inside)
  BY DEF Init
<1> QED
  BY <1>1, OrderlyInitially DEF OrderlyRun

(* When a set or a step has ended, what was done on its connection has     *)
(* been answered.                                                          *)
LEMMA EndedClean ==
  ASSUME NEW home, NEW inside, Orderly(home, inside)
  PROVE  ReturnedClean
<1> SUFFICES ASSUME NEW r \in Steps, runners[r].state = "released"
             PROVE  runners[r].stack = <<>> /\ runners[r].wire = <<>>
  BY DEF ReturnedClean
<1>1. PICK x : x = runners[r]
  OBVIOUS
<1>2. OfStep(r, x) /\ x.state = "released"
  BY <1>1, OrderlyIs DEF Sessions
<1>3. x # NewRunner
  BY <1>2, NewRunnerIs
<1>4. pc[r] \notin Waiting /\ pc[r] # "running" /\ x.stack = <<>>
  <2>1. CASE plan.kind[r] = "trans"
    <3>1. OfSet(r, x) /\ pc[r] \notin Before /\ pc[r] \notin WithRunner
      BY <1>2, <1>3, <2>1 DEF OfStep, OfSet
    <3>2. pc[r] # "querying"
      BY <2>1, OrderlyIs DEF Phases
    <3> QED
      BY <2>1, <3>1, <3>2 DEF OfSet, WithRunner, Waiting
  <2>2. CASE plan.kind[r] # "trans"
    BY <1>2, <1>3, <2>2 DEF OfStep, Ended, Waiting
  <2> QED
    BY <2>1, <2>2
<1>5. PICK wire : wire = x.wire
  OBVIOUS
<1>6. Wired(r, wire)
  BY <1>2, <1>5 DEF OfStep
<1>7. ASSUME NEW i \in 1..Len(wire)
      PROVE  FALSE
  <2>1. PICK n : n = wire[i].by
    OBVIOUS
  <2>2. n \in Steps /\ r = RunnerOf(n) /\ pc[n] \in Waiting
    BY <1>6, <2>1 DEF Wired, WaitsIn, Waiting
  <2>3. n # r
    BY <1>4, <2>2
  <2>4. plan.kind[n] = "sql" /\ plan.owner[n] = r /\ n \in SqlSteps
    BY <2>2, <2>3, OrderlyIs DEF RunnerOf, SqlSteps
  <2>5. plan.kind[r] = "trans" /\ n \in inside[r]
    BY <2>4, OrderlyIs, WritersInside
  <2>6. ~Active(n)
    BY <1>4, <2>5, OrderlyIs, Quiet
  <2> QED
    BY <2>2, <2>6 DEF Active, Waiting
<1>8. wire = <<>>
  <2>1. PICK S : wire \in Seq(S)
    BY <1>6 DEF Wired
  <2>2. Len(wire) \in Nat /\ ~(1 \in 1..Len(wire))
    BY <1>7, <2>1
  <2> QED
    BY <2>1, <2>2
<1> QED
  BY <1>1, <1>4, <1>5, <1>8

(* A connection goes back to the pool with no transaction open and no      *)
(* statement on its way (releaseRunner and releaseAutoTransRunner), in     *)
(* every tree whose transactional writers run one after another, with      *)
(* handlers, nested sets, and failures of any statement.                   *)
THEOREM ReturnedCleanAlways ==
  ASSUME \A p \in Plans : \E home, inside : WellNamed(p, home) /\ OneByOne(p, inside)
  PROVE  Spec => []ReturnedClean
<1>1. Init => OrderlyRun
  BY OrderlyStarts
<1>2. OrderlyRun => ReturnedClean
  BY EndedClean DEF OrderlyRun
<1> QED
  BY <1>1, <1>2, OrderlyInvariance, PTL DEF Spec

(* A transaction is all or nothing in these trees: what its writers        *)
(* reported as done is durable when the set ended well, and nothing is     *)
(* when it did not (commitTransaction, rollbackTransaction and the catch   *)
(* block between them).                                                    *)
THEOREM AllOrNothingAlways ==
  ASSUME \A p \in Plans : \E home, inside : WellNamed(p, home) /\ OneByOne(p, inside)
  PROVE  Spec => []AllOrNothing
<1>1. Init => OrderlyRun
  BY OrderlyStarts
<1>2. ASSUME NEW home, NEW inside, Orderly(home, inside)
      PROVE  AllOrNothing
  <2>1. ASSUME NEW n \in SqlSteps
        PROVE  /\ Succeeds(plan.owner[n]) /\ Succeeds(n) => n \in committed
               /\ Fails(plan.owner[n]) => n \notin committed
    <3>1. Fails(plan.owner[n]) => ~Succeeds(plan.owner[n])
      BY DEF Fails, Succeeds
    <3> QED
      BY <1>2, <3>1, OrderlyIs DEF Durable
  <2> QED
    BY <2>1 DEF AllOrNothing
<1>3. OrderlyRun => AllOrNothing
  BY <1>2 DEF OrderlyRun
<1> QED
  BY <1>1, <1>3, OrderlyInvariance, PTL DEF Spec

LEMMA TogetherStep ==
  ASSUME NEW home, NEW inside, Orderly(home, inside), Next,
         NEW w \in SqlSteps, w \in committed' \ committed
  PROVE  pc[plan.owner[w]] = "committing" /\ pc'[plan.owner[w]] = "done"
<1>1. PICK r \in Steps : Answer(r)
  BY DEF Next, Snippet, HandlerEnds, Enter, EnterAsync, NextStep, Leave, AttachFound, AttachNew,
         Connected, ConnectFails, Commit, Rollback, Query, Autonomous, AutonomousConnected,
         AnswerError
<1>2. PICK x, n, y : x = runners[r] /\ n = Head(x.wire).by /\ y = Succeeded(x)
  OBVIOUS
<1>3. /\ Answers(r, x, n) /\ w \in MadeDurable(x)
      /\ \/ AfterQuery(n, r, y, TRUE) \/ AfterBegin(n, r, y)
         \/ AfterCommit(n, r, y) \/ AfterRollback(n, r, y)
  BY <1>1, <1>2 DEF Answer, Answers
<1>4. pc[n] = "committing" /\ n = r /\ InTransaction(r, x) /\ w \in x.stack[1]
  BY <1>3, DurableByCommit
<1>5. plan.owner[w] = n
  <2>1. PICK s, W : s = x.stack /\ W = SUBSET Writers(r)
    OBVIOUS
  <2>2. s \in Seq(W) /\ Len(s) = 1
    BY <1>4, <2>1 DEF InTransaction
  <2>3. s[1] \in W
    BY <2>2
  <2> QED
    BY <1>4, <2>1, <2>3 DEF Writers
<1>6. Go(n, "done")
  BY <1>3, <1>4 DEF AfterQuery, AfterBegin, AfterCommit, AfterRollback
<1>7. pc'[n] = "done"
  <2>1. Active(n) /\ pc[n] \notin Ended /\ pc[n] # "running" /\ n \in Steps
    BY <1>3, AnsweredIs
  <2>2. "done" \notin Asleep \union Before \union Unbegun
    BY DEF Asleep, Before, Unbegun
  <2> QED
    BY <1>6, <2>1, <2>2, OrderlyIs, GoMoves
<1> QED
  BY <1>4, <1>5, <1>7

(* In these trees the writes of a transaction become durable in one step,  *)
(* the commit of their set: what LateSibling refutes for writes that run   *)
(* in parallel with a step that fails.                                     *)
THEOREM CommittedTogetherAlways ==
  ASSUME \A p \in Plans : \E home, inside : WellNamed(p, home) /\ OneByOne(p, inside)
  PROVE  Spec => CommittedTogether
<1>1. Init => OrderlyRun
  BY OrderlyStarts
<1>2. OrderlyRun /\ [Next]_vars =>
        [\A n \in SqlSteps :
           n \in committed' \ committed =>
             pc[plan.owner[n]] = "committing" /\ pc'[plan.owner[n]] = "done"]_vars
  BY TogetherStep DEF OrderlyRun
<1> QED
  BY <1>1, <1>2, OrderlyInvariance, PTL DEF Spec, CommittedTogether
=============================================================================
