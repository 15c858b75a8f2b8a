------------------------------ MODULE StepFlow ------------------------------
(***************************************************************************)
(* What flows through the steps of a pipeline that run one after another:  *)
(* the fragment a step takes from its request, the result of its body, the *)
(* response it makes of that, and the errors, which the handlers of a step *)
(* turn into results.  Bodies are snippets, sets of steps, loops, branches *)
(* and references; AbstractFragmentaryPipelineStep is around all of them.  *)
(*                                                                         *)
(* `stack` is the chain of awaits: its last frame is the step that runs.   *)
(* What user code does (snippets, conditions, transformers, handlers) is   *)
(* chosen from sets the program gives.  A content is a tagged tuple.       *)
(***************************************************************************)
EXTENDS Naturals, Sequences, SequencesExt

CONSTANTS
  Programs   (* the pipelines the steps may be configured to: a program is  *)
             (* a sequence of steps, the first one stands for the pipeline; *)
             (* a step has the fields                                       *)
             (*   kind                                                      *)
             (*   from, does, to   the outcomes of its user code; {} where  *)
             (*                    there is none                            *)
             (*   branches         sequences of steps, one for most kinds   *)
             (*   otherwise        is the last branch one without a check?  *)
             (*   handlers         from some error kinds and "any" to       *)
             (*                    [steps, does]: steps, or a snippet       *)
             (*   merge            "no", "unbox" or "key"                   *)
             (*   awaited          is `to` given as text, not a function?   *)

(* A pipeline takes its request as it is, responds with what its steps     *)
(* made of it, and has no handlers.                                        *)
ASSUME ProgramsAssumption ==
  \A p \in Programs :
    /\ p[1].kind = "sets" /\ p[1].merge = "no"
    /\ p[1].from = {} /\ p[1].to = {} /\ DOMAIN p[1].handlers = {}

VARIABLES
  program,
  stack,     (* the frames                                                  *)
  answer,    (* what the step that ended last hands to the frame below it   *)
  symbols,   (* the number of loops that were begun: each has a semaphore   *)
  raised     (* history: the last error, and the frames at that time        *)

vars == <<program, stack, answer, symbols, raised>>

(* Contents. *)
Null == <<"null">>                     (* null or undefined                 *)
Clear == <<"clear">>                   (* PIPELINE_STEP_RETURN_NULL         *)
Payload == <<"payload">>               (* what the pipeline is called with  *)
Value(n) == <<"value", n>>             (* made by the user code of step n   *)
Array(k) == <<"array", k>>             (* k elements                        *)
Results(s) == <<"results", s>>
Merged(c, r) == <<"merged", c, r>>     (* an object: c with r put into it   *)
Promise(r) == <<"promise", r>>
Semaphore(id) == <<"semaphore", id>>
Element(c, i, id) == <<"element", c, i, id>>     (* $content, $item, $semaphore *)
Failure(k, c) == <<"failure", k, c>>   (* $code, $error, $factor, $request  *)

(* Outcomes of user code and of steps; Signal is a snippet that returns    *)
(* the $semaphore of its fragment.                                         *)
Returned(c) == <<"returned", c>>
Threw(k) == <<"threw", k>>
Signal == <<"signal">>
Pending == <<"pending">>

ErrorKinds == {"catchable", "exposed", "uncatchable", "other"}

Frame(n, request) ==
  [step |-> n, phase |-> "called", request |-> request, fragment |-> Null,
   todo |-> <<>>, content |-> Null, at |-> 1, results |-> <<>>, loop |-> 0,
   handler |-> "none"]

Init ==
  /\ program \in Programs
  /\ stack = <<Frame(1, Payload)>>
  /\ answer = Pending
  /\ symbols = 0
  /\ raised = [error |-> "none", frames |-> <<>>]
-----------------------------------------------------------------------------
Top == Last(stack)
Step == program[Top.step]

At(phases) == stack # <<>> /\ answer = Pending /\ Top.phase \in phases

Continue(frame) == stack' = Append(Front(stack), frame) /\ answer' = Pending

Return(outcome) == stack' = Front(stack) /\ answer' = outcome

(* Mutant: the error handlers are inside the try block as well. *)
GuardedThroughout(frame) == frame.phase # "replying"

(* The phases inside the try block of performAndCatch. *)
Guarded(frame) == frame.phase \in {"called", "checking", "looping", "body", "answering"}

(* Mutant: an exposed error is not taken for an uncatchable one. *)
ChosenExactly(handlers, error) ==
  IF error \in DOMAIN handlers THEN error
  ELSE IF "any" \in DOMAIN handlers THEN "any" ELSE "none"

(* handleError; an ExposedUncatchableError is an UncatchableError. *)
Chosen(handlers, error) ==
  IF error \in DOMAIN handlers THEN error
  ELSE IF error = "exposed" /\ "uncatchable" \in DOMAIN handlers THEN "uncatchable"
  ELSE IF "any" \in DOMAIN handlers THEN "any" ELSE "none"

(* An error in the running step. *)
Catch(error) ==
  LET by == Chosen(Step.handlers, error) IN
  IF Guarded(Top) /\ by # "none"
  THEN Continue([Top EXCEPT !.phase = "handling", !.handler = by,
                            !.todo = Step.handlers[by].steps,
                            !.content = Failure(error, Top.fragment)])
  ELSE Return(Threw(error))

Raise(error) ==
  /\ Catch(error)
  /\ raised' = [error |-> error, frames |-> stack]

(* One of the outcomes of user code: it goes on, or it throws. *)
Fails(outcomes) ==
  /\ \E error \in ErrorKinds : Threw(error) \in outcomes /\ Raise(error)
  /\ UNCHANGED <<program, symbols>>

(* What user code of the running step may return. *)
Made(outcomes) ==
  {o[2] : o \in {x \in outcomes : x[1] = "returned"}}
    \union {IF Top.fragment[1] = "element" THEN Semaphore(Top.fragment[4]) ELSE Null :
              o \in outcomes \intersect {Signal}}
-----------------------------------------------------------------------------
(* getFromInput: by default the content of the request. *)
Fragments == IF Step.from = {} THEN {Top.request} ELSE Made(Step.from)

Begin(fragment) ==
  CASE Step.kind \in {"snippet"} -> [Top EXCEPT !.phase = "body", !.fragment = fragment]
    [] Step.kind \in {"sets", "refPipeline", "refStep"} ->
         [Top EXCEPT !.phase = "body", !.fragment = fragment,
                     !.todo = Step.branches[1], !.content = fragment]
    [] Step.kind = "each" ->
         [Top EXCEPT !.phase = "looping", !.fragment = fragment, !.loop = symbols + 1]
    [] OTHER -> [Top EXCEPT !.phase = "checking", !.fragment = fragment]

FromRequest ==
  /\ At({"called"})
  /\ \E c \in Fragments : Continue(Begin(c))
  /\ symbols' = IF Step.kind = "each" THEN symbols + 1 ELSE symbols
  /\ UNCHANGED <<program, raised>>

FromRequestFails == At({"called"}) /\ Fails(Step.from)

(* The body is done, toResponse comes next: for doPerform inside the try   *)
(* block, for the error handler outside of it.                             *)
Result(c) ==
  Continue([Top EXCEPT !.content = c, !.todo = <<>>,
                       !.phase = IF Guarded(Top) THEN "answering" ELSE "replying"])

Snippet ==
  /\ At({"body"})
  /\ Step.kind = "snippet"
  /\ \E c \in Made(Step.does) : Result(c)
  /\ UNCHANGED <<program, symbols, raised>>

SnippetFails == At({"body"}) /\ Step.kind = "snippet" /\ Fails(Step.does)

(* A handler given as a snippet. *)
HandlerSnippet ==
  /\ At({"handling"})
  /\ \E c \in Made(Step.handlers[Top.handler].does) : Result(c)
  /\ UNCHANGED <<program, symbols, raised>>

HandlerFails == At({"handling"}) /\ Fails(Step.handlers[Top.handler].does)
-----------------------------------------------------------------------------
(* The reduce over the steps of a set, of a pipeline, of a handler. *)

CallStep ==
  /\ At({"body", "handling"})
  /\ Top.todo # <<>>
  /\ stack' = Append(Append(Front(stack), [Top EXCEPT !.todo = Tail(@)]),
                     Frame(Head(Top.todo), Top.content))
  /\ UNCHANGED <<program, answer, symbols, raised>>

(* Mutant: a step that returns nothing clears the content. *)
ReturnOrClear(request, response) == response

(* What a step made of nothing: the request goes on to the next step. *)
ReturnOrContinueOrClear(request, response) ==
  IF response = Null THEN request ELSE response

StepReturns ==
  /\ stack # <<>>
  /\ answer[1] = "returned"
  /\ Continue([Top EXCEPT !.content =
       IF Step.kind = "refStep" /\ Top.phase = "body"
       THEN answer[2]
       ELSE ReturnOrContinueOrClear(@, answer[2])])
  /\ UNCHANGED <<program, symbols, raised>>

(* The pipeline or the step that is referred to does not exist. *)
ReferenceFails ==
  /\ At({"body"})
  /\ Step.kind \in {"refPipeline", "refStep"}
  /\ Top.todo = Step.branches[1] /\ Top.content = Top.fragment
  /\ Fails(Step.does)

StepThrows ==
  /\ stack # <<>>
  /\ answer[1] = "threw"
  /\ Catch(answer[2])
  /\ UNCHANGED <<program, symbols, raised>>

BodyDone == At({"body"}) /\ Top.todo = <<>> /\ Step.kind # "snippet"

StepsDone ==
  /\ \/ BodyDone /\ Step.kind # "each"
     \/ At({"handling"}) /\ Top.todo = <<>> /\ Step.handlers[Top.handler].does = {}
  /\ Result(Top.content)
  /\ UNCHANGED <<program, symbols, raised>>
-----------------------------------------------------------------------------
(* EachPipelineStepSets. *)

Elements == IF Top.fragment[1] = "array" THEN Top.fragment[2] ELSE 0

(* Nothing to loop over: the request is the response, as it is. *)
NoElement ==
  /\ At({"looping"})
  /\ Top.fragment \in {Null, Array(0)}
  /\ Return(Returned(Top.request))
  /\ UNCHANGED <<program, symbols, raised>>

NotAnArray ==
  /\ At({"looping"})
  /\ Top.fragment # Null /\ Top.fragment[1] # "array"
  /\ Raise("uncatchable")
  /\ UNCHANGED <<program, symbols>>

MoreElements == Top.at <= Elements

NextElement ==
  /\ At({"looping"})
  /\ MoreElements
  /\ Continue([Top EXCEPT !.phase = "body", !.todo = Step.branches[1],
                          !.content = Element(Top.request, Top.at, Top.loop)])
  /\ UNCHANGED <<program, symbols, raised>>

Signalled == Top.content = Semaphore(Top.loop)

ElementDone ==
  /\ BodyDone /\ Step.kind = "each"
  /\ ~Signalled
  /\ Continue([Top EXCEPT !.phase = "looping", !.at = @ + 1,
                          !.results = Append(@, Top.content)])
  /\ UNCHANGED <<program, symbols, raised>>

AllElements == Elements > 0 /\ Top.at > Elements

LoopDone ==
  /\ \/ At({"looping"}) /\ AllElements
     \/ BodyDone /\ Step.kind = "each" /\ Signalled
  /\ Result(Results(Top.results))
  /\ UNCHANGED <<program, symbols, raised>>
-----------------------------------------------------------------------------
(* ConditionalPipelineStepSets and RoutesPipelineStepSets: the checks see  *)
(* the fragment, the steps of the branch the content of the request.       *)

Checks == Len(Step.branches) - (IF Step.otherwise THEN 1 ELSE 0)

Take(b) ==
  Continue([Top EXCEPT !.phase = "body", !.todo = Step.branches[b],
                       !.content = Top.request])

CheckHolds ==
  /\ At({"checking"})
  /\ Top.at <= Checks
  /\ Take(Top.at)
  /\ UNCHANGED <<program, symbols, raised>>

CheckIsFalse ==
  /\ At({"checking"})
  /\ Top.at <= Checks
  /\ Continue([Top EXCEPT !.at = @ + 1])
  /\ UNCHANGED <<program, symbols, raised>>

CheckFails ==
  At({"checking"}) /\ Top.at <= Checks /\ Fails(Step.does)

(* No check holds; without otherwise steps the request is the response. *)
Otherwise ==
  /\ At({"checking"})
  /\ Top.at > Checks
  /\ IF Step.otherwise THEN Take(Top.at) ELSE Return(Returned(Top.request))
  /\ UNCHANGED <<program, symbols, raised>>
-----------------------------------------------------------------------------
MergeIntoRequest(r) == IF Step.merge = "no" THEN r ELSE Merged(Top.request, r)

(* createToResponseFunc: with a merge, toResponse is awaited only where it *)
(* is a text and its result is unboxed.                                    *)
Response(r) ==
  IF Step.to # {} /\ Step.merge # "no" /\ ~(Step.awaited /\ Step.merge = "unbox")
  THEN MergeIntoRequest(Promise(r))
  ELSE MergeIntoRequest(r)

ToResponse ==
  /\ At({"answering", "replying"})
  /\ \E r \in IF Step.to = {} THEN {Top.content} ELSE Made(Step.to) :
       Return(Returned(Response(r)))
  /\ UNCHANGED <<program, symbols, raised>>

(* A promise that is not awaited throws nothing here. *)
ToResponseFails ==
  /\ At({"answering", "replying"})
  /\ Step.merge = "no" \/ (Step.awaited /\ Step.merge = "unbox")
  /\ Fails(Step.to)
-----------------------------------------------------------------------------
Next ==
  \/ FromRequest
  \/ FromRequestFails
  \/ Snippet
  \/ SnippetFails
  \/ HandlerSnippet
  \/ HandlerFails
  \/ CallStep
  \/ StepReturns
  \/ ReferenceFails
  \/ StepThrows
  \/ StepsDone
  \/ NoElement
  \/ NotAnArray
  \/ NextElement
  \/ ElementDone
  \/ LoopDone
  \/ CheckHolds
  \/ CheckIsFalse
  \/ CheckFails
  \/ Otherwise
  \/ ToResponse
  \/ ToResponseFails

Spec == Init /\ [][Next]_vars

(* Every promise that is awaited settles. *)
FairSpec == Spec /\ WF_vars(Next)
-----------------------------------------------------------------------------
(* What a handler is written for: the kind of error, or the one it extends. *)
WrittenFor(n, error) ==
  \/ error \in DOMAIN program[n].handlers
  \/ error = "exposed" /\ "uncatchable" \in DOMAIN program[n].handlers
  \/ "any" \in DOMAIN program[n].handlers

(* An error leaves a step only when no handler of it was written for it,   *)
(* or when it comes from its handlers or from what follows them: so it is  *)
(* handled by the nearest step around it that can, however deep it was     *)
(* raised and whichever transformer, check, loop or handler raised it.     *)
NearestHandlerHandles ==
  answer = Threw(raised.error) =>
     \A i \in (Len(stack) + 1)..Len(raised.frames) :
        \/ raised.frames[i].phase \in {"handling", "replying"}
        \/ ~WrittenFor(raised.frames[i].step, raised.error)

(* Steps that return nothing never lose the content: it is null within a   *)
(* set only where the set was given null, and a pipeline that is given a   *)
(* payload responds with one.                                              *)
ContentSurvives ==
  /\ \A i \in 1..Len(stack) :
       LET f == stack[i] IN
       f.phase = "body" /\ f.content = Null =>
          CASE program[f.step].kind \in {"sets", "refPipeline"} -> f.fragment = Null
            [] program[f.step].kind = "routes" -> f.request = Null
            [] program[f.step].kind = "each" -> FALSE
            [] OTHER -> TRUE
  /\ stack = <<>> => answer # Returned(Null)

(* Whatever the steps return or throw, the pipeline responds or throws. *)
EverythingReturns == <>(stack = <<>>)
=============================================================================
