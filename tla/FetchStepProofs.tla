--------------------------- MODULE FetchStepProofs ---------------------------
(***************************************************************************)
(* What is told to the handlers of fetch steps, what they may not handle,  *)
(* and where trace ids go: proofs for every plan of steps, any handlers    *)
(* and any trace ids.                                                      *)
(***************************************************************************)
EXTENDS FetchStep, TLAPS

Early == {"idle", "url", "headers", "body", "sending"}
Phases == Early \union {"reading", "status", "caught"} \union Settled
Codes == {Status, Abort, Unknown}
Ids == TraceIds \union {None}

TypeOK ==
  /\ plan \in Plans
  /\ pc \in [Steps -> Phases]
  /\ scopedTraceIds \in [Scopes -> Ids]
  /\ headers \in [Steps -> Ids]
  /\ timer \in [Steps -> {"off", "armed", "fired"}]
  /\ body \in [Steps -> {None, "coming", "arrived", "aborted"}]
  /\ got \in [Steps -> Ids]
  /\ calls \in [Steps -> Seq(Codes)]
  /\ raised \in [Steps -> Errors \union {None}]

(* A handler was called from the catch, of the error that was raised,      *)
(* after the handler of the status or as the first one.                    *)
ToldInCatch(n) == \E c \in {Abort, Unknown} :
  /\ calls[n] = <<c>> \/ calls[n] = <<Status, c>>
  /\ c = Abort => IsAbort(raised[n])
  /\ c = Unknown => raised[n] = "plain"

(* The handlers called so far, by how far the step is. *)
Called(n) ==
  /\ pc[n] \in Early \union {"reading"} => calls[n] = <<>>
  /\ pc[n] = "status" => calls[n] = <<Status>>
  /\ pc[n] = "caught" => ToldInCatch(n)
  /\ calls[n] = <<>> \/ calls[n] = <<Status>> \/ ToldInCatch(n)

(* A body is there from the answer on, and only the timer aborts. *)
Received(n) ==
  /\ pc[n] \in Early => body[n] = None /\ got[n] = None /\ raised[n] = None
  /\ body[n] = "aborted" \/ raised[n] = "abort" => timer[n] = "fired"

Passed(n) == raised[n] = "uncatchable" => pc[n] = "thrown"

Local(n) == Called(n) /\ Received(n) /\ Passed(n)

(* What the context knows of a scope came from a step of that scope, and   *)
(* it goes on knowing something once a step got an id.                     *)
Known(k) ==
  scopedTraceIds[k] # None =>
    \E m \in Steps : plan[m].level # None /\ ScopeKey(m) = k /\ got[m] = scopedTraceIds[k]

Kept(m) ==
  got[m] # None => plan[m].level # None /\ scopedTraceIds[ScopeKey(m)] # None

Sent(n) ==
  headers[n] # None => \E m \in Steps : SameScope(n, m) /\ got[m] = headers[n]

(* A step begins behind the one it follows, and sends what that one got. *)
Follows(n) ==
  plan[n].after # 0 /\ pc[n] # "idle" =>
    LET m == plan[n].after IN
    /\ pc[m] \in Settled
    /\ pc[n] \in {"body", "sending"} /\ ~plan[n].ownTrace /\ SameScope(n, m) /\ got[m] # None
         => headers[n] # None

Traced ==
  /\ \A k \in Scopes : Known(k)
  /\ \A n \in Steps : Kept(n) /\ Sent(n) /\ Follows(n)

IInv == TypeOK /\ (\A n \in Steps : Local(n)) /\ Traced
-----------------------------------------------------------------------------
(* A step of one fetch step leaves the others where they are. *)
Only(n) ==
  /\ plan' = plan
  /\ \A m \in Steps : m # n =>
       /\ pc'[m] = pc[m] /\ headers'[m] = headers[m] /\ timer'[m] = timer[m]
       /\ body'[m] = body[m] /\ got'[m] = got[m]
       /\ calls'[m] = calls[m] /\ raised'[m] = raised[m]

LEMMA LocalEverywhere ==
  ASSUME NEW n \in Steps, Only(n), Local(n)', \A m \in Steps : Local(m)
  PROVE  (\A m \in Steps : Local(m))'
<1>1. Steps' = Steps
  BY DEF Only, Steps
<1>2. ASSUME NEW m \in Steps, m # n
      PROVE  Local(m)'
  <2>1. /\ pc'[m] = pc[m] /\ timer'[m] = timer[m] /\ body'[m] = body[m]
        /\ got'[m] = got[m] /\ calls'[m] = calls[m] /\ raised'[m] = raised[m]
    BY <1>2 DEF Only
  <2>2. Called(m)' /\ Received(m)' /\ Passed(m)'
    BY <2>1 DEF Local, Called, ToldInCatch, Received, Passed
  <2> QED
    BY <2>2 DEF Local
<1> QED
  BY <1>1, <1>2

(* Two handlers in a row. *)
LEMMA AppendToOne ==
  ASSUME NEW a \in Codes, NEW b \in Codes
  PROVE  Append(<<a>>, b) = <<a, b>>
<1> DEFINE s == Append(<<a>>, b)
           t == <<a, b>>
<1>1. s \in Seq(Codes) /\ Len(s) = 2 /\ s[1] = a /\ s[2] = b
  OBVIOUS
<1>2. t = [i \in 1..2 |-> t[i]] /\ t[1] = a /\ t[2] = b
  OBVIOUS
<1> HIDE DEF s, t
<1>3. DOMAIN s = 1..2
  BY <1>1
<1>4. s = [i \in 1..2 |-> s[i]]
  BY <1>1, <1>3
<1>5. s = t
  BY <1>1, <1>2, <1>4
<1> QED
  BY <1>5 DEF s, t

(* What is called when an error is raised inside the try. *)
LEMMA RaiseEffect ==
  ASSUME TypeOK, NEW n \in Steps, NEW e \in Errors, Raise(n, e),
         calls[n] = <<>> \/ calls[n] = <<Status>>,
         e = "abort" => timer'[n] = "fired"
  PROVE  /\ pc' \in [Steps -> Phases] /\ calls' \in [Steps -> Seq(Codes)]
         /\ raised' \in [Steps -> Errors \union {None}]
         /\ \A m \in Steps : m # n => pc'[m] = pc[m] /\ calls'[m] = calls[m]
                                      /\ raised'[m] = raised[m]
         /\ pc'[n] \in {"caught", "thrown"}
         /\ Called(n)' /\ Passed(n)' /\ (raised'[n] = "abort" => timer'[n] = "fired")
<1>1. /\ raised' = [raised EXCEPT ![n] = e] /\ raised'[n] = e /\ e # None
      /\ pc \in [Steps -> Phases] /\ calls \in [Steps -> Seq(Codes)]
      /\ raised \in [Steps -> Errors \union {None}]
  BY DEF Raise, TypeOK, Errors, None
<1>2. CASE Passes(e) \/ e = "nothing"
  <2>1. calls' = calls /\ pc' = [pc EXCEPT ![n] = "thrown"]
    BY <1>2 DEF Raise, Catch, Passes, IsAbort, Go
  <2>2. pc'[n] = "thrown" /\ pc' \in [Steps -> Phases]
    BY <1>1, <2>1 DEF Phases, Settled
  <2>3. Called(n)' /\ Passed(n)'
    BY <2>1, <2>2 DEF Called, Passed, Early
  <2> QED
    BY <1>1, <2>1, <2>2, <2>3
<1>3. CASE ~(Passes(e) \/ e = "nothing")
  <2>0. PICK c \in {Abort, Unknown} : /\ Handle(n, c, "caught")
                                      /\ c = Abort => IsAbort(e)
                                      /\ c = Unknown => e = "plain"
    BY <1>3 DEF Raise, Catch, Passes, IsAbort, Errors, Abort, Unknown
  <2>1. e # "uncatchable"
    BY <1>3 DEF Passes
  <2>2. CASE c \in plan[n].handles
    <3>1. /\ calls' = [calls EXCEPT ![n] = Append(calls[n], c)]
          /\ pc' = [pc EXCEPT ![n] = "caught"]
      BY <2>0, <2>2 DEF Handle, Go
    <3>2. /\ pc'[n] = "caught" /\ pc' \in [Steps -> Phases]
          /\ calls'[n] = Append(calls[n], c)
      BY <1>1, <3>1 DEF Phases
    <3>3. calls'[n] = <<c>> \/ calls'[n] = <<Status, c>>
      <4>1. CASE calls[n] = <<>>
        <5>1. Append(<<>>, c) = <<c>>
          OBVIOUS
        <5> QED
          BY <3>2, <4>1, <5>1
      <4>2. CASE calls[n] = <<Status>>
        <5>1. Append(<<Status>>, c) = <<Status, c>>
          BY AppendToOne DEF Codes
        <5> QED
          BY <3>2, <4>2, <5>1
      <4> QED
        BY <4>1, <4>2
    <3>4. Append(calls[n], c) \in Seq(Codes)
      BY <1>1 DEF Codes
    <3>5. calls' \in [Steps -> Seq(Codes)]
      BY <1>1, <3>1, <3>4
    <3>6. ToldInCatch(n)'
      BY <1>1, <2>0, <3>3 DEF ToldInCatch
    <3>7. Called(n)' /\ Passed(n)'
      BY <1>1, <2>1, <3>2, <3>6 DEF Called, Passed, Early
    <3> QED
      BY <1>1, <3>1, <3>2, <3>5, <3>7
  <2>3. CASE c \notin plan[n].handles
    <3>1. calls' = [calls EXCEPT ![n] = calls[n]] /\ pc' = [pc EXCEPT ![n] = "thrown"]
      BY <2>0, <2>3 DEF Handle, Go
    <3>2. /\ pc'[n] = "thrown" /\ pc' \in [Steps -> Phases]
          /\ calls'[n] = calls[n] /\ calls' \in [Steps -> Seq(Codes)]
      BY <1>1, <3>1 DEF Phases, Settled
    <3>3. Called(n)' /\ Passed(n)'
      BY <1>1, <2>1, <3>2 DEF Called, Passed, Early
    <3> QED
      BY <1>1, <3>1, <3>2, <3>3
  <2> QED
    BY <2>2, <2>3
<1> QED
  BY <1>2, <1>3

(* A step goes on to another phase, and nothing is called. *)
LEMMA GoEffect ==
  ASSUME TypeOK, NEW n \in Steps, NEW phase \in Phases, Go(n, phase), UNCHANGED <<calls, raised>>
  PROVE  /\ pc' \in [Steps -> Phases] /\ pc'[n] = phase
         /\ calls' \in [Steps -> Seq(Codes)]
         /\ raised' \in [Steps -> Errors \union {None}]
         /\ \A m \in Steps : m # n => pc'[m] = pc[m] /\ calls'[m] = calls[m]
                                      /\ raised'[m] = raised[m]
         /\ calls'[n] = calls[n] /\ raised'[n] = raised[n]
  BY DEF TypeOK, Go

(* User code inside the try, awaited before a handler was called or while  *)
(* that of the status is.                                                  *)
LEMMA GoesOnEffect ==
  ASSUME TypeOK, NEW n \in Steps, Local(n), NEW phase \in {"headers", "sending", "returned"},
         pc[n] \in Early \union {"reading"} \/ (pc[n] = "status" /\ phase = "returned"),
         GoesOn(n, phase)
  PROVE  /\ pc' \in [Steps -> Phases] /\ calls' \in [Steps -> Seq(Codes)]
         /\ raised' \in [Steps -> Errors \union {None}]
         /\ \A m \in Steps : m # n => pc'[m] = pc[m] /\ calls'[m] = calls[m]
                                      /\ raised'[m] = raised[m]
         /\ pc'[n] \in {phase, "caught", "thrown"}
         /\ Called(n)' /\ Passed(n)'
         /\ \/ raised'[n] = raised[n]
            \/ raised'[n] # "abort" /\ pc'[n] \in {"caught", "thrown"}
<1>1. calls[n] = <<>> \/ (calls[n] = <<Status>> /\ phase = "returned")
  BY DEF Local, Called
<1>2. ASSUME Go(n, phase), UNCHANGED <<calls, raised>>
      PROVE  Called(n)' /\ Passed(n)' /\ pc'[n] = phase
  <2>1. phase \in Phases /\ pc'[n] = phase /\ calls'[n] = calls[n] /\ raised'[n] = raised[n]
    BY <1>2, GoEffect DEF Phases, Early, Settled
  <2>2. Called(n)'
    BY <1>1, <2>1 DEF Called, Early
  <2>3. raised[n] # "uncatchable"
    BY DEF Local, Passed, Early
  <2> QED
    BY <2>1, <2>2, <2>3 DEF Passed
<1>3. CASE Go(n, phase) /\ UNCHANGED <<calls, raised>>
  BY <1>2, <1>3, GoEffect DEF Phases, Early, Settled
<1>4. CASE \E e \in UserErrors : Raise(n, e)
  <2>1. PICK e \in UserErrors : Raise(n, e)
    BY <1>4
  <2>2. e \in Errors /\ e # "abort"
    BY DEF UserErrors
  <2>3. raised'[n] = e
    BY <2>1 DEF Raise, TypeOK
  <2> QED
    BY <1>1, <2>1, <2>2, <2>3, RaiseEffect
<1> QED
  BY <1>3, <1>4 DEF GoesOn

(* The plan is what it was, and so are its steps and its scopes. *)
LEMMA SamePlan ==
  ASSUME UNCHANGED plan
  PROVE  Steps' = Steps /\ Scopes' = Scopes
  BY DEF Steps, Scopes
-----------------------------------------------------------------------------
(* Each action keeps the types, is about one step, and keeps what holds of *)
(* it.                                                                     *)
Kind(n) == TypeOK' /\ Only(n) /\ Local(n)'

LEMMA StartIsLocal ==
  ASSUME TypeOK, NEW n \in Steps, Local(n), Start(n)
  PROVE  Kind(n)
<1>1. Go(n, "url") /\ "url" \in Phases /\ UNCHANGED <<calls, raised>>
  BY DEF Start, Phases, Early
<1>2. UNCHANGED <<plan, scopedTraceIds, headers, timer, body, got>>
  BY DEF Start
<1>3. TypeOK' /\ Only(n)
  BY <1>1, <1>2, GoEffect, SamePlan DEF TypeOK, Only
<1>4. Local(n)'
  BY <1>1, <1>2, GoEffect DEF Start, Local, Called, ToldInCatch, Received, Passed, Early
<1> QED
  BY <1>3, <1>4 DEF Kind

LEMMA GenerateUrlIsLocal ==
  ASSUME TypeOK, NEW n \in Steps, Local(n), GenerateUrl(n)
  PROVE  Kind(n)
<1>1. pc[n] = "url" /\ GoesOn(n, "headers") /\ "url" \in Early
  BY DEF GenerateUrl, Early
<1>2. UNCHANGED <<plan, scopedTraceIds, headers, timer, body, got>>
  BY DEF GenerateUrl
<1>3. TypeOK' /\ Only(n)
  BY <1>1, <1>2, GoesOnEffect, SamePlan DEF TypeOK, Only
<1>4. Received(n)'
  BY <1>1, <1>2, GoesOnEffect DEF Local, Received, Early, None
<1> QED
  BY <1>1, <1>3, <1>4, GoesOnEffect DEF Kind, Local

LEMMA GenerateHeadersIsLocal ==
  ASSUME TypeOK, NEW n \in Steps, Local(n), GenerateHeaders(n)
  PROVE  Kind(n)
<1>1. /\ pc[n] = "headers" /\ "headers" \in Early /\ calls[n] = <<>>
      /\ UNCHANGED <<plan, scopedTraceIds, timer, body, got>>
  BY DEF GenerateHeaders, Early, Local, Called
<1>2. raised'[n] = raised[n] \/ (raised'[n] # "abort" /\ pc'[n] \notin Early) => Received(n)'
  BY <1>1 DEF Local, Received, None
<1>3. CASE /\ Go(n, "body") /\ UNCHANGED <<calls, raised>>
           /\ headers' = [headers EXCEPT ![n] = TraceToSend(n)]
  <2>1. "body" \in Phases
    BY DEF Phases, Early
  <2>2. TraceToSend(n) \in Ids
    <3>1. plan \in Plans /\ n \in DOMAIN plan
      BY DEF TypeOK, Steps
    <3>2. plan[n].level \in {None, "system", "endpoint"}
      BY <3>1, FetchStepAssumption
    <3>3. ScopeKey(n) \in Scopes
      BY DEF ScopeKey, Scopes
    <3>4. None \in Ids /\ scopedTraceIds[ScopeKey(n)] \in Ids
      BY <3>3 DEF Ids, TypeOK
    <3>5. CASE plan[n].level = None \/ plan[n].ownTrace
      BY <3>4, <3>5 DEF TraceToSend
    <3>6. CASE plan[n].level # None /\ ~plan[n].ownTrace
      BY <3>4, <3>6 DEF TraceToSend
    <3> QED
      BY <3>5, <3>6
  <2>3. headers' \in [Steps -> Ids] /\ \A m \in Steps : m # n => headers'[m] = headers[m]
    BY <1>3, <2>2 DEF TypeOK
  <2>4. TypeOK' /\ Only(n)
    BY <1>1, <1>3, <2>1, <2>3, GoEffect, SamePlan DEF TypeOK, Only
  <2>5. pc'[n] = "body" /\ calls'[n] = <<>> /\ raised'[n] = raised[n]
    BY <1>1, <1>3, <2>1, GoEffect
  <2>6. Called(n)' /\ Passed(n)'
    BY <1>1, <2>5 DEF Local, Called, Passed, Early
  <2> QED
    BY <1>2, <2>4, <2>5, <2>6 DEF Kind, Local
<1>4. CASE (\E e \in UserErrors : Raise(n, e)) /\ UNCHANGED headers
  <2>1. PICK e \in UserErrors : Raise(n, e)
    BY <1>4
  <2>2. e \in Errors /\ e # "abort" /\ raised'[n] = e
    BY <2>1 DEF UserErrors, Raise, TypeOK
  <2>3. TypeOK' /\ Only(n)
    BY <1>1, <1>4, <2>1, <2>2, RaiseEffect, SamePlan DEF TypeOK, Only
  <2>4. pc'[n] \notin Early /\ Called(n)' /\ Passed(n)'
    BY <1>1, <2>1, <2>2, RaiseEffect DEF Early
  <2> QED
    BY <1>2, <2>2, <2>3, <2>4 DEF Kind, Local
<1> QED
  BY <1>3, <1>4 DEF GenerateHeaders

LEMMA GenerateBodyIsLocal ==
  ASSUME TypeOK, NEW n \in Steps, Local(n), GenerateBody(n)
  PROVE  Kind(n)
<1>1. pc[n] = "body" /\ GoesOn(n, "sending") /\ "body" \in Early
  BY DEF GenerateBody, Early
<1>2. /\ UNCHANGED <<plan, scopedTraceIds, headers, body, got>>
      /\ timer' = [timer EXCEPT ![n] = timer'[n]]
      /\ timer'[n] \in {timer[n], "armed"}
  BY DEF GenerateBody, TypeOK
<1>3. timer' \in [Steps -> {"off", "armed", "fired"}]
  BY <1>2 DEF TypeOK
<1>4. TypeOK' /\ Only(n)
  BY <1>1, <1>2, <1>3, GoesOnEffect, SamePlan DEF TypeOK, Only
<1>5. Received(n)'
  <2>1. body'[n] = None /\ got'[n] = None /\ raised[n] = None
    BY <1>1, <1>2 DEF Local, Received
  <2>2. raised'[n] # "abort" /\ (pc'[n] \in Early => raised'[n] = None)
    BY <1>1, <2>1, GoesOnEffect DEF Early, None
  <2> QED
    BY <2>1, <2>2 DEF Received, None
<1> QED
  BY <1>1, <1>4, <1>5, GoesOnEffect DEF Kind, Local

(* What Answer does to the trace ids. *)
LEMMA KeepTraceIdTypes ==
  ASSUME TypeOK, NEW n \in Steps, NEW id \in Ids, KeepTraceId(n, id)
  PROVE  /\ scopedTraceIds' \in [Scopes -> Ids] /\ got' \in [Steps -> Ids]
         /\ \A m \in Steps : m # n => got'[m] = got[m]
<1>1. ScopeKey(n) \in Scopes
  BY DEF ScopeKey, Scopes
<1> QED
  BY <1>1 DEF KeepTraceId, TypeOK

LEMMA AnswerIsLocal ==
  ASSUME TypeOK, NEW n \in Steps, Local(n), NEW id \in Ids, Answer(n, id)
  PROVE  Kind(n)
<1>1. /\ pc[n] = "sending" /\ "sending" \in Early /\ KeepTraceId(n, id)
      /\ calls[n] = <<>> /\ body[n] = None /\ raised[n] = None
      /\ UNCHANGED <<plan, headers, raised, timer>>
  BY DEF Answer, TimerKept, Early, Local, Called, Received, Passed
<1>2. /\ body' \in [Steps -> {None, "coming", "arrived", "aborted"}]
      /\ \A m \in Steps : m # n => body'[m] = body[m]
      /\ body'[n] \in {None, "coming"}
  <2>1. body \in [Steps -> {None, "coming", "arrived", "aborted"}]
    BY DEF TypeOK
  <2>2. body' \in {body, [body EXCEPT ![n] = "coming"]}
    BY DEF Answer
  <2> QED
    BY <1>1, <2>1, <2>2
<1>3. Passed(n)'
  BY <1>1 DEF Passed, None
<1>4. ASSUME Go(n, "reading"), UNCHANGED calls
      PROVE  Kind(n)
  <2>1. "reading" \in Phases
    BY DEF Phases
  <2>2. TypeOK' /\ Only(n)
    BY <1>1, <1>2, <1>4, <2>1, GoEffect, KeepTraceIdTypes, SamePlan DEF TypeOK, Only
  <2>3. pc'[n] = "reading" /\ calls'[n] = <<>>
    BY <1>1, <1>4, <2>1, GoEffect
  <2>4. Called(n)' /\ Received(n)'
    BY <1>1, <1>2, <2>3 DEF Called, Received, Early, None
  <2> QED
    BY <1>3, <2>2, <2>4 DEF Kind, Local
<1>5. ASSUME Handle(n, Status, "status")
      PROVE  Kind(n)
  <2>1. /\ pc' = [pc EXCEPT ![n] = pc'[n]] /\ pc'[n] \in {"status", "thrown"}
        /\ calls' = [calls EXCEPT ![n] = calls'[n]]
        /\ pc'[n] = "status" => calls'[n] = <<Status>>
        /\ calls'[n] = <<>> \/ calls'[n] = <<Status>>
    <3>1. Append(<<>>, Status) = <<Status>>
      OBVIOUS
    <3>2. pc \in [Steps -> Phases] /\ calls \in [Steps -> Seq(Codes)]
      BY DEF TypeOK
    <3>3. CASE Status \in plan[n].handles
      BY <1>1, <1>5, <3>1, <3>2, <3>3 DEF Handle, Go
    <3>4. CASE Status \notin plan[n].handles
      BY <1>1, <1>5, <3>2, <3>4 DEF Handle, Go
    <3> QED
      BY <3>3, <3>4
  <2>2. pc' \in [Steps -> Phases] /\ calls' \in [Steps -> Seq(Codes)]
    <3>1. <<>> \in Seq(Codes) /\ <<Status>> \in Seq(Codes)
      BY DEF Codes
    <3>2. calls'[n] \in Seq(Codes)
      BY <2>1, <3>1
    <3>3. pc'[n] \in Phases
      BY <2>1 DEF Phases, Settled
    <3>4. pc \in [Steps -> Phases] /\ calls \in [Steps -> Seq(Codes)]
      BY DEF TypeOK
    <3>5. pc' \in [Steps -> Phases]
      BY <2>1, <3>3, <3>4
    <3>6. calls' \in [Steps -> Seq(Codes)]
      BY <2>1, <3>2, <3>4
    <3> QED
      BY <3>5, <3>6
  <2>3. \A m \in Steps : m # n => pc'[m] = pc[m] /\ calls'[m] = calls[m]
    BY <2>1 DEF TypeOK
  <2>4. TypeOK' /\ Only(n)
    BY <1>1, <1>2, <2>2, <2>3, KeepTraceIdTypes, SamePlan DEF TypeOK, Only
  <2>5. Called(n)' /\ Received(n)'
    BY <1>1, <1>2, <2>1 DEF Called, Received, Early, None
  <2> QED
    BY <1>3, <2>4, <2>5 DEF Kind, Local
<1> QED
  BY <1>4, <1>5 DEF Answer

LEMMA FetchRejectsIsLocal ==
  ASSUME TypeOK, NEW n \in Steps, Local(n), FetchRejects(n)
  PROVE  Kind(n)
<1>1. /\ pc[n] = "sending" /\ "sending" \in Early /\ calls[n] = <<>>
      /\ Raise(n, "plain") /\ "plain" \in Errors
      /\ UNCHANGED <<plan, scopedTraceIds, headers, timer, body, got>>
  BY DEF FetchRejects, Early, Local, Called, Errors
<1>2. TypeOK' /\ Only(n)
  BY <1>1, RaiseEffect, SamePlan DEF TypeOK, Only
<1>3. Received(n)'
  <2>1. raised'[n] = "plain"
    BY <1>1 DEF Raise, TypeOK
  <2>2. pc'[n] \notin Early
    BY <1>1, RaiseEffect DEF Early
  <2> QED
    BY <1>1, <2>1, <2>2 DEF Local, Received, None
<1> QED
  BY <1>1, <1>2, <1>3, RaiseEffect DEF Kind, Local

LEMMA BodyArrivesIsLocal ==
  ASSUME TypeOK, NEW n \in Steps, Local(n), BodyArrives(n)
  PROVE  Kind(n)
<1>1. /\ pc[n] \notin Early
      /\ body' = [body EXCEPT ![n] = "arrived"]
      /\ UNCHANGED <<plan, pc, scopedTraceIds, headers, timer, got, calls, raised>>
  BY DEF BodyArrives, Early
<1>2. TypeOK' /\ Only(n) /\ body'[n] = "arrived"
  BY <1>1, SamePlan DEF TypeOK, Only
<1>3. Local(n)'
  BY <1>1, <1>2 DEF Local, Called, ToldInCatch, Received, Passed
<1> QED
  BY <1>2, <1>3 DEF Kind

LEMMA TimerFiresIsLocal ==
  ASSUME TypeOK, NEW n \in Steps, Local(n), TimerFires(n)
  PROVE  Kind(n)
<1>1. /\ timer' = [timer EXCEPT ![n] = "fired"]
      /\ UNCHANGED <<plan, scopedTraceIds, headers, got>>
  BY DEF TimerFires
<1>2. /\ timer' \in [Steps -> {"off", "armed", "fired"}] /\ timer'[n] = "fired"
      /\ \A m \in Steps : m # n => timer'[m] = timer[m]
  BY <1>1 DEF TypeOK
<1>3. CASE pc[n] = "sending"
  <2>1. /\ Raise(n, "abort") /\ "abort" \in Errors /\ UNCHANGED body
        /\ calls[n] = <<>> /\ pc[n] \in Early
    BY <1>3 DEF TimerFires, Errors, Local, Called, Early
  <2>2. TypeOK' /\ Only(n)
    BY <1>1, <1>2, <2>1, RaiseEffect, SamePlan DEF TypeOK, Only
  <2>3. Received(n)'
    BY <1>1, <1>2, <2>1, RaiseEffect DEF Local, Received, Early
  <2> QED
    BY <1>2, <2>1, <2>2, <2>3, RaiseEffect DEF Kind, Local
<1>4. CASE pc[n] # "sending"
  <2>1. /\ body' = [body EXCEPT ![n] = IF body[n] = "coming" THEN "aborted" ELSE body[n]]
        /\ UNCHANGED <<pc, calls, raised>>
    BY <1>4 DEF TimerFires
  <2>2. /\ body' \in [Steps -> {None, "coming", "arrived", "aborted"}]
        /\ \A m \in Steps : m # n => body'[m] = body[m]
        /\ body[n] = None => body'[n] = None
    BY <2>1 DEF TypeOK, None
  <2>3. TypeOK' /\ Only(n)
    BY <1>1, <1>2, <2>1, <2>2, SamePlan DEF TypeOK, Only
  <2>4. Local(n)'
    BY <1>1, <1>2, <2>1, <2>2 DEF Local, Called, ToldInCatch, Received, Passed
  <2> QED
    BY <2>3, <2>4 DEF Kind
<1> QED
  BY <1>3, <1>4

LEMMA RespondIsLocal ==
  ASSUME TypeOK, NEW n \in Steps, Local(n), Respond(n)
  PROVE  Kind(n)
<1>1. /\ pc[n] \in {"reading", "status"}
      /\ calls[n] = <<>> \/ calls[n] = <<Status>>
      /\ UNCHANGED <<plan, scopedTraceIds, headers, timer, body, got>>
  BY DEF Respond, Local, Called
<1>2. CASE GoesOn(n, "returned")
  <2>1. TypeOK' /\ Only(n)
    BY <1>1, <1>2, GoesOnEffect, SamePlan DEF TypeOK, Only
  <2>2. Received(n)'
    BY <1>1, <1>2, GoesOnEffect DEF Local, Received, Early
  <2> QED
    BY <1>1, <1>2, <2>1, <2>2, GoesOnEffect DEF Kind, Local
<1>3. CASE body[n] = "aborted" /\ Raise(n, "abort")
  <2>1. "abort" \in Errors /\ timer'[n] = "fired"
    BY <1>1, <1>3 DEF Errors, Local, Received
  <2>2. TypeOK' /\ Only(n)
    BY <1>1, <1>3, <2>1, RaiseEffect, SamePlan DEF TypeOK, Only
  <2>3. Received(n)'
    BY <1>1, <1>3, <2>1, RaiseEffect DEF Local, Received, Early
  <2> QED
    BY <1>1, <1>3, <2>1, <2>2, <2>3, RaiseEffect DEF Kind, Local
<1> QED
  BY <1>2, <1>3 DEF Respond

LEMMA CaughtHandledIsLocal ==
  ASSUME TypeOK, NEW n \in Steps, Local(n), CaughtHandled(n)
  PROVE  Kind(n)
<1>1. /\ pc[n] = "caught" /\ ToldInCatch(n) /\ raised[n] # "uncatchable"
      /\ UNCHANGED <<plan, scopedTraceIds, headers, timer, body, got, calls, raised>>
  BY DEF CaughtHandled, HandlerThrows, Local, Called, Passed
<1>2. pc' = [pc EXCEPT ![n] = pc'[n]] /\ pc'[n] \in Settled
  BY DEF CaughtHandled, HandlerThrows, Go, TypeOK, Settled
<1>3. TypeOK' /\ Only(n)
  <2>1. pc' \in [Steps -> Phases] /\ \A m \in Steps : m # n => pc'[m] = pc[m]
    BY <1>2 DEF TypeOK, Phases
  <2> QED
    BY <1>1, <2>1, SamePlan DEF TypeOK, Only
<1>4. ToldInCatch(n)'
  BY <1>1 DEF ToldInCatch
<1>5. Called(n)' /\ Received(n)' /\ Passed(n)'
  BY <1>1, <1>2, <1>4 DEF Local, Called, Received, Passed, Settled, Early
<1> QED
  BY <1>3, <1>5 DEF Kind, Local
-----------------------------------------------------------------------------
(* A scope has one key, and a key one scope. *)
LEMMA ScopesAndKeys ==
  ASSUME plan \in Plans, NEW n \in Steps, NEW m \in Steps,
         plan[n].level # None, plan[m].level # None
  PROVE  ScopeKey(n) = ScopeKey(m) <=> SameScope(n, m)
<1>1. /\ plan[n].level \in {"system", "endpoint"} /\ plan[m].level \in {"system", "endpoint"}
      /\ plan[n].system # plan[m].endpoint /\ plan[m].system # plan[n].endpoint
  BY FetchStepAssumption DEF Steps
<1> QED
  BY <1>1 DEF ScopeKey, SameScope

(* How far a step may come in one step: it begins behind the one it        *)
(* follows, and what has settled stays so.                                 *)
Advances(n) ==
  /\ pc[n] \in Settled => pc'[n] = pc[n]
  /\ pc[n] = "idle" => \/ pc'[n] = "idle"
                       \/ pc'[n] = "url" /\ (plan[n].after # 0 => pc[plan[n].after] \in Settled)

LEMMA BegunBehind ==
  ASSUME plan \in Plans, NEW n \in Steps, Only(n), Advances(n),
         NEW m \in Steps, Follows(m), plan[m].after # 0, pc'[m] # "idle"
  PROVE  /\ plan[m].after \in Steps
         /\ pc[plan[m].after] \in Settled
         /\ pc'[plan[m].after] = pc[plan[m].after]
<1> DEFINE a == plan[m].after
<1>1. a \in Steps
  BY FetchStepAssumption DEF Steps
<1>2. pc[a] \in Settled
  <2>1. CASE pc[m] # "idle"
    BY <2>1 DEF Follows
  <2>2. CASE pc[m] = "idle"
    <3>1. m = n
      BY <2>2 DEF Only
    <3> QED
      BY <2>2, <3>1 DEF Advances
  <2> QED
    BY <2>1, <2>2
<1>3. pc'[a] = pc[a]
  BY <1>1, <1>2 DEF Only, Advances
<1> QED
  BY <1>1, <1>2, <1>3

(* Traces stay when a step touches no trace id and does not come to where  *)
(* its headers are.                                                        *)
Quiet(n) ==
  /\ UNCHANGED <<plan, scopedTraceIds, headers, got>>
  /\ pc'[n] \in {"body", "sending"} => pc[n] \in {"body", "sending"}

LEMMA QuietKeepsTraced ==
  ASSUME TypeOK, Traced, NEW n \in Steps, Only(n), Advances(n), Quiet(n)
  PROVE  Traced'
<1>1. Steps' = Steps /\ Scopes' = Scopes /\ UNCHANGED <<plan, scopedTraceIds, headers, got>>
  BY SamePlan DEF Quiet
<1>2. ASSUME NEW k \in Scopes
      PROVE  Known(k)'
  BY <1>1 DEF Traced, Known, ScopeKey
<1>3. ASSUME NEW m \in Steps
      PROVE  Kept(m)' /\ Sent(m)'
  BY <1>1 DEF Traced, Kept, Sent, ScopeKey, SameScope
<1>4. ASSUME NEW m \in Steps
      PROVE  Follows(m)'
  <2> SUFFICES ASSUME plan[m].after # 0, pc'[m] # "idle"
               PROVE  Follows(m)'
    BY <1>1 DEF Follows
  <2>1. pc'[plan[m].after] \in Settled
    BY BegunBehind DEF Traced, TypeOK
  <2>2. pc'[m] \in {"body", "sending"} => pc[m] \in {"body", "sending"}
    BY DEF Only, Quiet
  <2> QED
    BY <1>1, <2>1, <2>2 DEF Traced, Follows, SameScope
<1> QED
  BY <1>1, <1>2, <1>3, <1>4 DEF Traced

(* What is sent is what the context knows of the scope. *)
LEMMA GenerateHeadersKeepsTraced ==
  ASSUME TypeOK, Traced, NEW n \in Steps, Only(n), pc[n] = "headers", Go(n, "body"),
         headers' = [headers EXCEPT ![n] = TraceToSend(n)],
         UNCHANGED <<plan, scopedTraceIds, got>>
  PROVE  Traced'
<1>1. Steps' = Steps /\ Scopes' = Scopes /\ plan \in Plans
  BY SamePlan DEF TypeOK
<1>2. pc'[n] = "body" /\ headers'[n] = TraceToSend(n)
  BY DEF Go, TypeOK
<1>3. \A m \in Steps : m # n => pc'[m] = pc[m] /\ headers'[m] = headers[m]
  BY DEF Only
<1>4. ASSUME plan[n].level # None, ~plan[n].ownTrace
      PROVE  TraceToSend(n) = scopedTraceIds[ScopeKey(n)]
  BY <1>4 DEF TraceToSend
<1>5. TraceToSend(n) # None => plan[n].level # None /\ ~plan[n].ownTrace
  BY DEF TraceToSend
<1>6. ASSUME NEW k \in Scopes
      PROVE  Known(k)'
  BY <1>1 DEF Traced, Known, ScopeKey
<1>7. ASSUME NEW m \in Steps
      PROVE  Kept(m)'
  BY <1>1 DEF Traced, Kept, ScopeKey
<1>8. ASSUME NEW m \in Steps
      PROVE  Sent(m)'
  <2>1. CASE m # n
    BY <1>1, <1>3, <2>1 DEF Traced, Sent, SameScope
  <2>2. CASE m = n
    <3> SUFFICES ASSUME headers'[n] # None
                 PROVE  \E w \in Steps : SameScope(n, w)' /\ got'[w] = headers'[n]
      BY <1>1, <2>2 DEF Sent
    <3>1. plan[n].level # None /\ headers'[n] = scopedTraceIds[ScopeKey(n)]
      BY <1>2, <1>4, <1>5
    <3>2. ScopeKey(n) \in Scopes
      BY DEF ScopeKey, Scopes
    <3>3. PICK w \in Steps : /\ plan[w].level # None /\ ScopeKey(w) = ScopeKey(n)
                             /\ got[w] = scopedTraceIds[ScopeKey(n)]
      BY <3>1, <3>2 DEF Traced, Known
    <3>4. SameScope(n, w)
      BY <1>1, <3>1, <3>3, ScopesAndKeys
    <3>5. SameScope(n, w)' /\ got'[w] = headers'[n]
      BY <3>1, <3>3, <3>4 DEF SameScope
    <3> QED
      BY <3>5
  <2> QED
    BY <2>1, <2>2
<1>9. ASSUME NEW m \in Steps
      PROVE  Follows(m)'
  <2>0. Advances(n)
    BY DEF Advances, Settled
  <2> DEFINE a == plan[m].after
  <2> SUFFICES ASSUME a # 0, pc'[m] # "idle"
               PROVE  /\ pc'[a] \in Settled
                      /\ pc'[m] \in {"body", "sending"} /\ ~plan[m].ownTrace
                           /\ SameScope(m, a) /\ got[a] # None => headers'[m] # None
    BY <1>1 DEF Follows, SameScope
  <2>1. a \in Steps /\ pc[a] \in Settled /\ pc'[a] = pc[a]
    BY <1>1, <2>0, BegunBehind DEF Traced
  <2>2. CASE m # n
    BY <1>3, <2>1, <2>2 DEF Traced, Follows
  <2>3. CASE m = n
    <3> SUFFICES ASSUME ~plan[n].ownTrace, SameScope(n, a), got[a] # None
                 PROVE  headers'[n] # None
      BY <2>1, <2>3
    <3>1. plan[a].level # None /\ plan[n].level # None
      BY DEF SameScope
    <3>2. scopedTraceIds[ScopeKey(a)] # None
      BY <2>1 DEF Traced, Kept
    <3>3. ScopeKey(n) = ScopeKey(a)
      BY <1>1, <2>1, <3>1, ScopesAndKeys
    <3> QED
      BY <1>2, <1>4, <3>1, <3>2, <3>3
  <2> QED
    BY <2>2, <2>3
<1> QED
  BY <1>1, <1>6, <1>7, <1>8, <1>9 DEF Traced

(* An answer makes its id the one of the scope. *)
LEMMA AnswerKeepsTraced ==
  ASSUME TypeOK, Traced, NEW n \in Steps, Local(n), Only(n), NEW id \in Ids,
         pc[n] = "sending", pc'[n] \notin {"idle", "body", "sending"},
         KeepTraceId(n, id), UNCHANGED <<plan, headers>>
  PROVE  Traced'
<1>1. Steps' = Steps /\ Scopes' = Scopes /\ plan \in Plans
  BY SamePlan DEF TypeOK
<1>2. got[n] = None
  BY DEF Local, Received, Early
<1>3. CASE ~(plan[n].level # None /\ id # None)
  <2>1. Quiet(n) /\ Advances(n)
    BY <1>3 DEF KeepTraceId, Quiet, Advances, Settled
  <2> QED
    BY <2>1, QuietKeepsTraced
<1>4. CASE plan[n].level # None /\ id # None
  <2>0. ScopeKey(n) \in Scopes
    BY DEF ScopeKey, Scopes
  <2>1. /\ scopedTraceIds'[ScopeKey(n)] = id /\ got'[n] = id
        /\ \A k \in Scopes : k # ScopeKey(n) => scopedTraceIds'[k] = scopedTraceIds[k]
        /\ \A m \in Steps : m # n => got'[m] = got[m]
    BY <1>4, <2>0 DEF KeepTraceId, TypeOK
  <2>2. \A m \in Steps : got[m] # None => got'[m] = got[m]
    BY <1>2, <2>1
  <2>3. ASSUME NEW k \in Scopes
        PROVE  Known(k)'
    <3>1. CASE k = ScopeKey(n)
      BY <1>1, <1>4, <2>1, <3>1 DEF Known, ScopeKey
    <3>2. CASE k # ScopeKey(n)
      BY <1>1, <2>1, <2>2, <3>2 DEF Traced, Known, ScopeKey
    <3> QED
      BY <3>1, <3>2
  <2>4. ASSUME NEW m \in Steps
        PROVE  Kept(m)'
    <3>1. ScopeKey(m) \in Scopes /\ ScopeKey(m)' = ScopeKey(m)
      BY DEF ScopeKey, Scopes
    <3>2. scopedTraceIds[ScopeKey(m)] # None => scopedTraceIds'[ScopeKey(m)] # None
      BY <1>4, <2>1, <3>1
    <3> QED
      BY <1>4, <2>1, <3>1, <3>2 DEF Traced, Kept
  <2>5. ASSUME NEW m \in Steps
        PROVE  Sent(m)'
    BY <1>1, <2>2 DEF Traced, Sent, SameScope
  <2>6. ASSUME NEW m \in Steps
        PROVE  Follows(m)'
    <3> DEFINE a == plan[m].after
    <3> SUFFICES ASSUME a # 0, pc'[m] # "idle"
                 PROVE  /\ pc'[a] \in Settled
                        /\ pc'[m] \in {"body", "sending"} /\ ~plan[m].ownTrace
                             /\ SameScope(m, a) /\ got'[a] # None => headers[m] # None
      BY <1>1 DEF Follows, SameScope
    <3>1. Advances(n)
      BY DEF Advances, Settled
    <3>2. a \in Steps /\ pc[a] \in Settled /\ pc'[a] = pc[a]
      BY <1>1, <3>1, BegunBehind DEF Traced
    <3>3. got'[a] = got[a]
      BY <2>1, <3>2 DEF Settled
    <3>4. pc'[m] \in {"body", "sending"} => pc[m] = pc'[m]
      BY DEF Only
    <3> QED
      BY <3>2, <3>3, <3>4 DEF Traced, Follows
  <2> QED
    BY <1>1, <2>3, <2>4, <2>5, <2>6 DEF Traced
<1> QED
  BY <1>3, <1>4
-----------------------------------------------------------------------------
(* An error that is raised takes the step to its catch or its end. *)
LEMMA RaiseGoes ==
  ASSUME TypeOK, NEW n \in Steps, NEW e, Raise(n, e)
  PROVE  pc'[n] \in {"caught", "thrown"}
<1>1. \/ pc' = [pc EXCEPT ![n] = "caught"]
      \/ pc' = [pc EXCEPT ![n] = "thrown"]
  BY DEF Raise, Catch, Handle, Go
<1> QED
  BY <1>1 DEF TypeOK

LEMMA GoGoes ==
  ASSUME TypeOK, NEW n \in Steps, NEW phase, Go(n, phase)
  PROVE  pc'[n] = phase
  BY DEF TypeOK, Go

LEMMA UserCodeKeeps ==
  ASSUME IInv, NEW n \in Steps, UserCode(n)
  PROVE  Kind(n) /\ Traced'
<1>0. TypeOK /\ Local(n) /\ Traced
  BY DEF IInv
<1>1. CASE Start(n)
  <2>1. Kind(n)
    BY <1>0, <1>1, StartIsLocal
  <2>2. Advances(n) /\ Quiet(n)
    BY <1>0, <1>1, GoGoes DEF Start, Advances, Quiet, Settled
  <2> QED
    BY <1>0, <2>1, <2>2, QuietKeepsTraced DEF Kind
<1>2. CASE GenerateUrl(n)
  <2>1. Kind(n)
    BY <1>0, <1>2, GenerateUrlIsLocal
  <2>2. pc'[n] \in {"headers", "caught", "thrown"}
    BY <1>0, <1>2, GoGoes, RaiseGoes DEF GenerateUrl, GoesOn
  <2>3. Advances(n) /\ Quiet(n)
    BY <1>2, <2>2 DEF GenerateUrl, Advances, Quiet, Settled
  <2> QED
    BY <1>0, <2>1, <2>3, QuietKeepsTraced DEF Kind
<1>3. CASE GenerateHeaders(n)
  <2>1. Kind(n)
    BY <1>0, <1>3, GenerateHeadersIsLocal
  <2>2. pc[n] = "headers" /\ UNCHANGED <<plan, scopedTraceIds, got>>
    BY <1>3 DEF GenerateHeaders
  <2>3. CASE Go(n, "body") /\ headers' = [headers EXCEPT ![n] = TraceToSend(n)]
    BY <1>0, <2>1, <2>2, <2>3, GenerateHeadersKeepsTraced DEF Kind
  <2>4. CASE (\E e \in UserErrors : Raise(n, e)) /\ UNCHANGED headers
    <3>1. pc'[n] \in {"caught", "thrown"}
      BY <1>0, <2>4, RaiseGoes
    <3>2. Advances(n) /\ Quiet(n)
      BY <2>2, <2>4, <3>1 DEF Advances, Quiet, Settled
    <3> QED
      BY <1>0, <2>1, <3>2, QuietKeepsTraced DEF Kind
  <2> QED
    BY <1>3, <2>1, <2>3, <2>4 DEF GenerateHeaders
<1>4. CASE GenerateBody(n)
  <2>1. Kind(n)
    BY <1>0, <1>4, GenerateBodyIsLocal
  <2>2. Advances(n) /\ Quiet(n)
    BY <1>4 DEF GenerateBody, Advances, Quiet, Settled
  <2> QED
    BY <1>0, <2>1, <2>2, QuietKeepsTraced DEF Kind
<1>5. CASE Respond(n)
  <2>1. Kind(n)
    BY <1>0, <1>5, RespondIsLocal
  <2>2. pc'[n] \in {"returned", "caught", "thrown"}
    BY <1>0, <1>5, GoGoes, RaiseGoes DEF Respond, GoesOn
  <2>3. Advances(n) /\ Quiet(n)
    BY <1>5, <2>2 DEF Respond, Advances, Quiet, Settled
  <2> QED
    BY <1>0, <2>1, <2>3, QuietKeepsTraced DEF Kind
<1>6. CASE CaughtHandled(n)
  <2>1. Kind(n)
    BY <1>0, <1>6, CaughtHandledIsLocal
  <2>2. pc'[n] \in {"returned", "thrown"}
    BY <1>0, <1>6, GoGoes DEF CaughtHandled, HandlerThrows
  <2>3. Advances(n) /\ Quiet(n)
    BY <1>6, <2>2 DEF CaughtHandled, Advances, Quiet, Settled
  <2> QED
    BY <1>0, <2>1, <2>3, QuietKeepsTraced DEF Kind
<1> QED
  BY <1>1, <1>2, <1>3, <1>4, <1>5, <1>6 DEF UserCode

LEMMA RemoteKeeps ==
  ASSUME IInv, NEW n \in Steps, Remote(n)
  PROVE  Kind(n) /\ Traced'
<1>0. TypeOK /\ Local(n) /\ Traced
  BY DEF IInv
<1>1. ASSUME NEW id \in Ids, Answer(n, id)
      PROVE  Kind(n) /\ Traced'
  <2>1. Kind(n)
    BY <1>0, <1>1, AnswerIsLocal
  <2>2. pc' = [pc EXCEPT ![n] = "reading"] \/ pc' = [pc EXCEPT ![n] = "status"]
        \/ pc' = [pc EXCEPT ![n] = "thrown"]
    BY <1>1 DEF Answer, Handle, Go
  <2>3. pc'[n] \in {"reading", "status", "thrown"}
    BY <1>0, <2>2 DEF TypeOK
  <2>4. pc[n] = "sending" /\ KeepTraceId(n, id) /\ UNCHANGED <<plan, headers>>
    BY <1>1 DEF Answer
  <2> QED
    BY <1>0, <2>1, <2>3, <2>4, AnswerKeepsTraced DEF Kind
<1>2. CASE FetchRejects(n)
  <2>1. Kind(n)
    BY <1>0, <1>2, FetchRejectsIsLocal
  <2>2. pc'[n] \in {"caught", "thrown"}
    BY <1>0, <1>2, RaiseGoes DEF FetchRejects
  <2>3. Advances(n) /\ Quiet(n)
    BY <1>2, <2>2 DEF FetchRejects, Advances, Quiet, Settled
  <2> QED
    BY <1>0, <2>1, <2>3, QuietKeepsTraced DEF Kind
<1>3. CASE BodyArrives(n)
  <2>1. Kind(n)
    BY <1>0, <1>3, BodyArrivesIsLocal
  <2>2. Advances(n) /\ Quiet(n)
    BY <1>3 DEF BodyArrives, Advances, Quiet, Settled
  <2> QED
    BY <1>0, <2>1, <2>2, QuietKeepsTraced DEF Kind
<1> QED
  BY <1>1, <1>2, <1>3 DEF Remote, Ids

LEMMA TimerFiresKeeps ==
  ASSUME IInv, NEW n \in Steps, TimerFires(n)
  PROVE  Kind(n) /\ Traced'
<1>0. TypeOK /\ Local(n) /\ Traced
  BY DEF IInv
<1>1. Kind(n)
  BY <1>0, TimerFiresIsLocal
<1>2. \/ pc' = pc
      \/ pc'[n] \in {"caught", "thrown"} /\ pc[n] = "sending"
  BY <1>0, RaiseGoes DEF TimerFires
<1>3. Advances(n) /\ Quiet(n)
  BY <1>2 DEF TimerFires, Advances, Quiet, Settled
<1> QED
  BY <1>0, <1>1, <1>3, QuietKeepsTraced DEF Kind
-----------------------------------------------------------------------------
LEMMA Initially == Init => IInv
<1> SUFFICES ASSUME Init
             PROVE  IInv
  OBVIOUS
<1>1. TypeOK
  <2>1. <<>> \in Seq(Codes)
    OBVIOUS
  <2> QED
    BY <2>1 DEF Init, TypeOK, Phases, Early, Ids
<1>2. ASSUME NEW n \in Steps
      PROVE  Local(n)
  BY DEF Init, Local, Called, Received, Passed, Early, None
<1>3. Traced
  BY DEF Init, Traced, Known, Kept, Sent, Follows
<1> QED
  BY <1>1, <1>2, <1>3 DEF IInv

LEMMA Invariance == IInv /\ [Next]_vars => IInv'
<1> SUFFICES ASSUME IInv, [Next]_vars
             PROVE  IInv'
  OBVIOUS
<1>1. CASE Next
  <2>1. PICK n \in Steps : UserCode(n) \/ Remote(n) \/ TimerFires(n)
    BY <1>1 DEF Next
  <2>2. Kind(n) /\ Traced'
    BY <2>1, UserCodeKeeps, RemoteKeeps, TimerFiresKeeps
  <2>3. (\A m \in Steps : Local(m))'
    BY <2>2, LocalEverywhere DEF Kind, IInv
  <2> QED
    BY <2>2, <2>3 DEF Kind, IInv
<1>2. CASE UNCHANGED vars
  <2>1. /\ plan' = plan /\ pc' = pc /\ scopedTraceIds' = scopedTraceIds
        /\ headers' = headers /\ timer' = timer /\ body' = body /\ got' = got
        /\ calls' = calls /\ raised' = raised
    BY <1>2 DEF vars
  <2>2. Steps' = Steps /\ Scopes' = Scopes
    BY <2>1, SamePlan
  <2>3. TypeOK'
    BY <2>1, <2>2 DEF IInv, TypeOK
  <2>4. (\A n \in Steps : Local(n))'
    BY <2>1, <2>2 DEF IInv, Local, Called, ToldInCatch, Received, Passed
  <2>5. (\A k \in Scopes : Known(k))'
    BY <2>1, <2>2 DEF IInv, Traced, Known, ScopeKey
  <2>6. (\A n \in Steps : Kept(n) /\ Sent(n) /\ Follows(n))'
    BY <2>1, <2>2 DEF IInv, Traced, Kept, Sent, Follows, ScopeKey, SameScope
  <2> QED
    BY <2>3, <2>4, <2>5, <2>6 DEF IInv, Traced
<1> QED
  BY <1>1, <1>2

THEOREM AlwaysIInv == Spec => []IInv
<1> QED
  BY Initially, Invariance, PTL DEF Spec

(* An uncatchable error ends its step, whichever handlers there are        *)
(* (doPerform: "thrown manually, do not handle it again").                 *)
THEOREM UncatchableAlwaysPasses == Spec => []UncatchablePasses
<1>1. IInv => UncatchablePasses
  BY DEF IInv, Local, Passed, UncatchablePasses
<1> QED
  BY <1>1, AlwaysIInv, PTL

(* What handlers are told is what happened: an abort that is an abort, or  *)
(* is taken for one, a status first, and nothing twice (sendRequest,       *)
(* doPerform).                                                             *)
THEOREM HandlersAlwaysToldTheTruth == Spec => []HandlersAreToldTheTruth
<1>1. IInv => HandlersAreToldTheTruth
  <2> SUFFICES ASSUME IInv, NEW n \in Steps
               PROVE  /\ Contains(calls[n], Abort) => IsAbort(raised[n])
                      /\ Contains(calls[n], Unknown) => raised[n] = "plain"
                      /\ Len(calls[n]) < 3
                      /\ Len(calls[n]) = 2 => calls[n][1] = Status /\ calls[n][2] # Status
    BY DEF HandlersAreToldTheTruth, IInv, Local, Received
  <2>1. CASE calls[n] = <<>>
    BY <2>1 DEF Contains
  <2>2. CASE calls[n] = <<Status>>
    BY <2>2 DEF Contains, Status, Abort, Unknown
  <2>3. CASE ToldInCatch(n)
    <3>1. PICK c \in {Abort, Unknown} : /\ calls[n] = <<c>> \/ calls[n] = <<Status, c>>
                                        /\ c = Abort => IsAbort(raised[n])
                                        /\ c = Unknown => raised[n] = "plain"
      BY <2>3 DEF ToldInCatch
    <3>2. c # Status /\ Status # Abort /\ Status # Unknown /\ Abort # Unknown
      BY DEF Status, Abort, Unknown
    <3>3. CASE calls[n] = <<c>>
      BY <3>1, <3>2, <3>3 DEF Contains
    <3>4. CASE calls[n] = <<Status, c>>
      BY <3>1, <3>2, <3>4 DEF Contains
    <3> QED
      BY <3>1, <3>3, <3>4
  <2> QED
    BY <2>1, <2>2, <2>3 DEF IInv, Local, Called
<1> QED
  BY <1>1, AlwaysIInv, PTL

(* Trace ids stay in the scope they came from, and go on to the steps that *)
(* follow in it (syncEndpointTraceId, tryToRetrieveTraceIdFromResponse).   *)
THEOREM ScopeIsAlwaysTraced == Spec => []ScopeIsTraced
<1>1. IInv => ScopeIsTraced
  BY DEF IInv, Traced, Sent, Follows, ScopeIsTraced
<1> QED
  BY <1>1, AlwaysIInv, PTL
=============================================================================
