------------------------------ MODULE FetchStep ------------------------------
(***************************************************************************)
(* The fetch steps of one request: what FetchPipelineStep does to ask a    *)
(* remote system, the timer that aborts it, the handlers of its errors,    *)
(* and the trace ids that the steps hand on through the context.           *)
(*                                                                         *)
(* An action is what runs between two awaits: on user code (the url, the   *)
(* headers, the body, the response, the error handlers) or on the remote   *)
(* system, which may answer late or never.                                 *)
(***************************************************************************)
EXTENDS Naturals, Sequences, SequencesExt

CONSTANTS
  Plans,     (* the fetch steps a request may run, see plan                 *)
  TraceIds   (* the trace ids remote systems make up                        *)

None == "none"

(* A step follows one of its plan; a trace header is configured for its    *)
(* system or its endpoint; the key of an endpoint, which is that of its    *)
(* system with a name behind it, is not that of a system.                  *)
ASSUME FetchStepAssumption ==
  \A p \in Plans : \A n \in DOMAIN p :
    /\ p[n].after \in {0} \union DOMAIN p
    /\ p[n].level \in {None, "system", "endpoint"}
    /\ \A m \in DOMAIN p : p[n].system # p[m].endpoint

VARIABLES
  plan,      (* of each step: after, the step it follows, or 0; system and  *)
             (*   endpoint; level, where its trace header is configured;    *)
             (*   ownTrace, its headers carry that header; timeout, has it  *)
             (*   one; handles, the error codes it has a handler for        *)
  pc,        (* how far each step is                                        *)
  scopedTraceIds, (* of the context: scope key to trace id                  *)
  headers,   (* the trace id a step added to the headers of its request     *)
  timer,     (* the abort timer of each step                                *)
  body,      (* the body of the response, as the code that reads it sees it *)
  got,       (* the trace id each step took from its response               *)
  calls,     (* the error codes the handlers were called with, in order     *)
  raised     (* what the catch of the step got, the last time               *)

vars == <<plan, pc, scopedTraceIds, headers, timer, body, got, calls, raised>>

Steps == DOMAIN plan

Status == "status"    (* `${status}`, of 400 and above *)
Abort == "600"        (* HttpAbortErrorCode            *)
Unknown == "000"      (* HttpUnknownErrorCode          *)

(* What is thrown inside the try: the abort of the timer; by user code     *)
(* another DOMException or an error with the name of an abort, an          *)
(* UncatchableError, null, or any other error.                             *)
Errors == {"abort", "abortLike", "uncatchable", "nothing", "plain"}
UserErrors == Errors \ {"abort"}
Settled == {"returned", "thrown"}

Scopes == UNION {{plan[n].system, plan[n].endpoint} : n \in Steps}

Init ==
  /\ plan \in Plans
  /\ pc = [n \in Steps |-> "idle"]
  /\ scopedTraceIds = [k \in Scopes |-> None]
  /\ headers = [n \in Steps |-> None]
  /\ timer = [n \in Steps |-> "off"]
  /\ body = [n \in Steps |-> None]
  /\ got = [n \in Steps |-> None]
  /\ calls = [n \in Steps |-> <<>>]
  /\ raised = [n \in Steps |-> None]

Go(n, phase) == pc' = [pc EXCEPT ![n] = phase]
-----------------------------------------------------------------------------
(* The handler for a code is called, to go on in `phase`.  For a code      *)
(* without one the default handler throws an uncatchable error.            *)
Handle(n, code, phase) ==
  /\ calls' = [calls EXCEPT ![n] = IF code \in plan[n].handles THEN Append(@, code) ELSE @]
  /\ IF code \in plan[n].handles
     THEN Go(n, phase)
     ELSE Go(n, "thrown")

(* Mutant: the error a handler throws on purpose is handled like the rest. *)
NothingPasses(e) == FALSE

Passes(e) == e = "uncatchable"

IsAbort(e) == e \in {"abort", "abortLike"}

(* The catch of doPerform; reading the name of null throws out of it. *)
Catch(n, e) ==
  \/ /\ IsAbort(e)
     /\ Handle(n, Abort, "caught")
  \/ /\ ~IsAbort(e)
     /\ Passes(e) \/ e = "nothing"
     /\ Go(n, "thrown")
     /\ UNCHANGED calls
  \/ /\ ~IsAbort(e) /\ e # "nothing"
     /\ ~Passes(e)
     /\ Handle(n, Unknown, "caught")

Raise(n, e) == raised' = [raised EXCEPT ![n] = e] /\ Catch(n, e)

(* User code that is awaited inside the try goes on or throws. *)
GoesOn(n, phase) ==
  \/ /\ Go(n, phase)
     /\ UNCHANGED <<calls, raised>>
  \/ \E e \in UserErrors : Raise(n, e)
-----------------------------------------------------------------------------
Start(n) ==
  /\ pc[n] = "idle"
  /\ plan[n].after # 0 => pc[plan[n].after] \in Settled
  /\ Go(n, "url")
  /\ UNCHANGED <<plan, scopedTraceIds, headers, timer, body, got, calls, raised>>

GenerateUrl(n) ==
  /\ pc[n] = "url"
  /\ GoesOn(n, "headers")
  /\ UNCHANGED <<plan, scopedTraceIds, headers, timer, body, got>>

(* Mutant: every endpoint is a scope of its own. *)
EndpointOnly(n) == plan[n].endpoint

ScopeKey(n) == IF plan[n].level = "system" THEN plan[n].system ELSE plan[n].endpoint

(* syncEndpointTraceId: a trace id that is in the headers is left where it *)
(* is, and only there; else the one of the scope is sent.                  *)
TraceToSend(n) ==
  CASE plan[n].level = None -> None
    [] plan[n].level # None /\ plan[n].ownTrace -> None
    [] plan[n].level # None /\ ~plan[n].ownTrace -> scopedTraceIds[ScopeKey(n)]

GenerateHeaders(n) ==
  /\ pc[n] = "headers"
  /\ \/ /\ Go(n, "body")
        /\ headers' = [headers EXCEPT ![n] = TraceToSend(n)]
        /\ UNCHANGED <<calls, raised>>
     \/ /\ \E e \in UserErrors : Raise(n, e)
        /\ UNCHANGED headers
  /\ UNCHANGED <<plan, scopedTraceIds, timer, body, got>>

NeedTimeout(n) == plan[n].timeout

(* The body is generated, fetch is called, and its timer is armed. *)
GenerateBody(n) ==
  /\ pc[n] = "body"
  /\ GoesOn(n, "sending")
  /\ timer' = [timer EXCEPT ![n] =
                 IF NeedTimeout(n) /\ pc'[n] = "sending" THEN "armed" ELSE @]
  /\ UNCHANGED <<plan, scopedTraceIds, headers, body, got>>
-----------------------------------------------------------------------------
(* tryToRetrieveTraceIdFromResponse, for a response of any status. *)
KeepTraceId(n, id) ==
  IF plan[n].level # None /\ id # None
  THEN /\ scopedTraceIds' = [scopedTraceIds EXCEPT ![ScopeKey(n)] = id]
       /\ got' = [got EXCEPT ![n] = id]
  ELSE UNCHANGED <<scopedTraceIds, got>>

(* Mutant: the timer is cleared once the response is there. *)
Cleared(n) == [timer EXCEPT ![n] = "off"]

TimerKept(n) == timer

(* The status line and the headers of the response arrive. *)
Answer(n, id) ==
  /\ pc[n] = "sending"
  /\ KeepTraceId(n, id)
  /\ \/ /\ Go(n, "reading")
        /\ body' = [body EXCEPT ![n] = "coming"]
        /\ UNCHANGED calls
     \/ /\ Handle(n, Status, "status")
        /\ body' \in {body, [body EXCEPT ![n] = "coming"]}
  /\ timer' = TimerKept(n)
  /\ UNCHANGED <<plan, headers, raised>>

(* The connection fails. *)
FetchRejects(n) ==
  /\ pc[n] = "sending"
  /\ Raise(n, "plain")
  /\ UNCHANGED <<plan, scopedTraceIds, headers, timer, body, got>>

BodyArrives(n) ==
  /\ pc[n] \in {"reading", "status"}
  /\ body[n] = "coming"
  /\ body' = [body EXCEPT ![n] = "arrived"]
  /\ UNCHANGED <<plan, pc, scopedTraceIds, headers, timer, got, calls, raised>>

(* The timer fires, whatever has become of the request meanwhile. *)
TimerFires(n) ==
  /\ timer[n] = "armed"
  /\ timer' = [timer EXCEPT ![n] = "fired"]
  /\ IF pc[n] = "sending"
     THEN Raise(n, "abort") /\ UNCHANGED body
     ELSE /\ body' = [body EXCEPT ![n] = IF @ = "coming" THEN "aborted" ELSE @]
          /\ UNCHANGED <<pc, calls, raised>>
  /\ UNCHANGED <<plan, scopedTraceIds, headers, got>>

(* The response generator and a status handler read the body, or do not.   *)
(* Both are awaited inside the try.                                        *)
Respond(n) ==
  /\ pc[n] \in {"reading", "status"}
  /\ \/ GoesOn(n, "returned")
     \/ body[n] = "aborted" /\ Raise(n, "abort")
  /\ UNCHANGED <<plan, scopedTraceIds, headers, timer, body, got>>

(* Mutant: a handler called from the catch is asked again when it fails. *)
AskedAgain(n) == Raise(n, "plain")

HandlerThrows(n) == Go(n, "thrown") /\ UNCHANGED <<calls, raised>>

(* A handler called from the catch: nothing catches its errors. *)
CaughtHandled(n) ==
  /\ pc[n] = "caught"
  /\ \/ Go(n, "returned") /\ UNCHANGED <<calls, raised>>
     \/ HandlerThrows(n)
  /\ UNCHANGED <<plan, scopedTraceIds, headers, timer, body, got>>
-----------------------------------------------------------------------------
UserCode(n) ==
  \/ Start(n)
  \/ GenerateUrl(n)
  \/ GenerateHeaders(n)
  \/ GenerateBody(n)
  \/ Respond(n)
  \/ CaughtHandled(n)

Remote(n) ==
  \/ \E id \in TraceIds \union {None} : Answer(n, id)
  \/ FetchRejects(n)
  \/ BodyArrives(n)

Next == \E n \in Steps : UserCode(n) \/ Remote(n) \/ TimerFires(n)

Spec == Init /\ [][Next]_vars

(* User code that may be waiting for the body. *)
Waits(n) == pc[n] \in {"reading", "status"} /\ body[n] = "coming"

(* Other user code settles and timers fire; nothing is asked of the remote.*)
AllSteps == UNION {DOMAIN p : p \in Plans}

FairSpec ==
  /\ Spec
  /\ \A n \in AllSteps : /\ WF_vars(n \in Steps /\ ~Waits(n) /\ UserCode(n))
                        /\ WF_vars(n \in Steps /\ TimerFires(n))
-----------------------------------------------------------------------------
(* An uncatchable error ends the step, wherever in it it is thrown, and is *)
(* handled by no other handler ("thrown manually, do not handle it again").*)
UncatchablePasses ==
  \A n \in Steps : raised[n] = "uncatchable" => pc[n] = "thrown"

(* What handlers are told is what happened.  The abort of a step is raised *)
(* only after its timer fired, and is told to no handler of another error; *)
(* the handler of the abort is called for it, or for what user code makes  *)
(* to look like it, and never for a failure of the remote system or an     *)
(* error of another name.  Of two handlers the first is that of the        *)
(* status, and the second is called only because something was thrown.     *)
HandlersAreToldTheTruth ==
  \A n \in Steps :
    /\ raised[n] = "abort" => timer[n] = "fired"
    /\ Contains(calls[n], Abort) => IsAbort(raised[n])
    /\ Contains(calls[n], Unknown) => raised[n] = "plain"
    /\ Len(calls[n]) < 3
    /\ Len(calls[n]) = 2 => calls[n][1] = Status /\ calls[n][2] # Status

SameScope(n, m) ==
  /\ plan[n].level = plan[m].level /\ plan[n].level # None
  /\ IF plan[n].level = "system" THEN plan[n].system = plan[m].system
     ELSE plan[n].endpoint = plan[m].endpoint

(* The requests of one scope hang together: a trace id is only sent to the *)
(* scope it came from, and a step that follows another of its scope sends  *)
(* one if the other got one, though parallel steps of the scope may have   *)
(* replaced it (syncEndpointTraceId, tryToRetrieveTraceIdFromResponse).    *)
ScopeIsTraced ==
  \A n \in Steps :
    /\ headers[n] # None => \E m \in Steps : SameScope(n, m) /\ got[m] = headers[n]
    /\ LET m == plan[n].after
       IN  (m # 0 /\ pc[n] = "sending" /\ ~plan[n].ownTrace)
           => (SameScope(n, m) /\ got[m] # None => headers[n] # None)

(* With a timeout a step that has begun settles, though the remote system  *)
(* may stop at any point, also in the middle of the body.                  *)
TimeoutSettles ==
  \A n \in AllSteps :
    (n \in Steps /\ plan[n].timeout /\ pc[n] = "url") ~> (n \in Steps /\ pc[n] \in Settled)
=============================================================================
