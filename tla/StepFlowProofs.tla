--------------------------- MODULE StepFlowProofs ---------------------------
(***************************************************************************)
(* Errors are handled by the nearest step that can: a proof for every      *)
(* program, of any depth, with any handlers, and any user code.            *)
(***************************************************************************)
EXTENDS StepFlow, SequenceTheorems, TLAPS

InTry == {"called", "checking", "looping", "body", "answering"}
Phases == InTry \union {"handling", "replying"}

IsSeq(s) == \E S : s \in Seq(S)

FrameOK(f) == "phase" \in DOMAIN f /\ f.phase \in Phases

Frames == IsSeq(stack) /\ \A i \in 1..Len(stack) : FrameOK(stack[i])

(* A step that an error left had no handler for it, or was past them. *)
LeftBy(frame, error) ==
  frame.phase \in {"handling", "replying"} \/ ~WrittenFor(frame.step, error)

(* An error goes down the frames there were when it was raised, which are  *)
(* what they were then as far as it has not come.                          *)
Unwinding(error, frames) ==
  /\ error \in ErrorKinds
  /\ IsSeq(frames)
  /\ Len(stack) <= Len(frames)
  /\ \A i \in 1..Len(stack) : frames[i] = stack[i]
  /\ \A i \in (Len(stack) + 1)..Len(frames) : LeftBy(frames[i], error)

Unwinds ==
  answer[1] = "threw" =>
    answer = Threw(raised.error) /\ Unwinding(raised.error, raised.frames)

IInv == Frames /\ Unwinds
-----------------------------------------------------------------------------
(* The stack without its last frame, and with another one in its place. *)
LEMMA FrontOfStack ==
  ASSUME Frames, stack # <<>>
  PROVE  /\ IsSeq(Front(stack)) /\ Len(stack) \in Nat \ {0}
         /\ Len(Front(stack)) = Len(stack) - 1
         /\ \A i \in 1..(Len(stack) - 1) : Front(stack)[i] = stack[i]
         /\ Top = stack[Len(stack)] /\ FrameOK(Top)
<1>1. PICK S : stack \in Seq(S)
  BY DEF Frames, IsSeq
<1>2. Len(stack) \in Nat \ {0}
  BY <1>1
<1>3. Front(stack) \in Seq(S) /\ Len(Front(stack)) = Len(stack) - 1
  <2>1. Front(stack) = SubSeq(stack, 1, Len(stack) - 1)
    BY DEF Front
  <2>2. SubSeq(stack, 1, Len(stack) - 1) \in Seq(S)
    BY <1>1, <1>2, SubSeqProperties
  <2>3. Len(SubSeq(stack, 1, Len(stack) - 1)) = Len(stack) - 1
    BY <1>1, <1>2
  <2> QED
    BY <2>1, <2>2, <2>3
<1>4. \A i \in 1..(Len(stack) - 1) : Front(stack)[i] = stack[i]
  BY <1>1, <1>2 DEF Front
<1>5. Top = stack[Len(stack)] /\ FrameOK(Top)
  BY <1>2 DEF Top, Last, Frames
<1> QED
  BY <1>2, <1>3, <1>4, <1>5 DEF IsSeq

LEMMA AppendFrame ==
  ASSUME NEW s, IsSeq(s), \A i \in 1..Len(s) : FrameOK(s[i]), NEW f, FrameOK(f)
  PROVE  /\ IsSeq(Append(s, f))
         /\ \A i \in 1..Len(Append(s, f)) : FrameOK(Append(s, f)[i])
<1>1. PICK S : s \in Seq(S)
  BY DEF IsSeq
<1>2. s \in Seq(S \union {f})
  BY <1>1
<1>3. Append(s, f) \in Seq(S \union {f}) /\ Len(Append(s, f)) = Len(s) + 1
  BY <1>2
<1>4. \A i \in 1..Len(s) : Append(s, f)[i] = s[i]
  BY <1>1, <1>2
<1>5. Append(s, f)[Len(s) + 1] = f
  BY <1>2
<1>6. Len(s) \in Nat
  BY <1>1
<1>7. \A i \in 1..(Len(s) + 1) : i \in 1..Len(s) \/ i = Len(s) + 1
  BY <1>6
<1> QED
  BY <1>3, <1>4, <1>5, <1>7 DEF IsSeq

(* A step goes on in another phase. *)
LEMMA ContinueKeeps ==
  ASSUME IInv, stack # <<>>, NEW f, FrameOK(f), Continue(f)
  PROVE  IInv'
<1>1. /\ IsSeq(Front(stack)) /\ \A i \in 1..Len(Front(stack)) : FrameOK(Front(stack)[i])
  BY FrontOfStack DEF IInv, Frames
<1>2. Frames'
  BY <1>1, AppendFrame DEF Continue, Frames
<1>3. Unwinds'
  BY DEF Continue, Unwinds, Pending
<1> QED
  BY <1>2, <1>3 DEF IInv

(* A step ends, and the frame below it is as it was. *)
LEMMA FramesBelow ==
  ASSUME Frames, stack # <<>>, stack' = Front(stack)
  PROVE  Frames'
  BY FrontOfStack DEF Frames

LEMMA ReturnKeeps ==
  ASSUME IInv, stack # <<>>, NEW c, Return(Returned(c))
  PROVE  IInv'
  BY FramesBelow DEF IInv, Return, Returned, Unwinds
-----------------------------------------------------------------------------
(* A handler is found when there is one, and only then. *)
LEMMA ChosenOrLeft ==
  ASSUME NEW error \in ErrorKinds, NEW n, Chosen(program[n].handlers, error) = "none"
  PROVE  ~WrittenFor(n, error)
<1>1. error # "none"
  BY DEF ErrorKinds
<1> QED
  BY <1>1 DEF Chosen, WrittenFor

(* An error that unwinds to a step is handled there, or goes on. *)
LEMMA CatchKeeps ==
  ASSUME IInv, stack # <<>>, NEW error \in ErrorKinds, Catch(error), program' = program,
         NEW frames, Unwinding(error, frames), raised'.error = error, raised'.frames = frames
  PROVE  IInv'
<1> DEFINE by == Chosen(Step.handlers, error)
<1>1. FrameOK(Top) /\ Frames
  BY FrontOfStack DEF IInv
<1>2. CASE Guarded(Top) /\ by # "none"
  <2>1. PICK f : /\ f = [Top EXCEPT !.phase = "handling", !.handler = by,
                            !.todo = Step.handlers[by].steps,
                            !.content = Failure(error, Top.fragment)]
                 /\ Continue(f)
    BY <1>2 DEF Catch
  <2>2. "phase" \in DOMAIN f /\ f.phase = "handling"
    BY <1>1, <2>1 DEF FrameOK
  <2> QED
    BY <2>1, <2>2, ContinueKeeps DEF FrameOK, Phases
<1>3. CASE ~(Guarded(Top) /\ by # "none")
  <2>1. stack' = Front(stack) /\ answer' = Threw(error)
    BY <1>3 DEF Catch, Return
  <2>2. LeftBy(Top, error)
    <3>1. CASE ~Guarded(Top)
      BY <1>1, <3>1 DEF FrameOK, Guarded, Phases, InTry, LeftBy
    <3>2. CASE by = "none"
      BY <3>2, ChosenOrLeft DEF Step, LeftBy
    <3> QED
      BY <1>3, <3>1, <3>2
  <2>3. Frames'
    BY <1>1, <2>1, FramesBelow
  <2>4. Unwinding(error, frames)'
    <3>1. /\ Len(stack) \in Nat \ {0} /\ Len(stack') = Len(stack) - 1
          /\ \A i \in 1..(Len(stack) - 1) : stack'[i] = stack[i]
          /\ Top = stack[Len(stack)]
      BY <1>1, <2>1, FrontOfStack
    <3>2. /\ IsSeq(frames) /\ Len(stack) <= Len(frames)
          /\ \A i \in 1..Len(stack) : frames[i] = stack[i]
          /\ \A i \in (Len(stack) + 1)..Len(frames) : LeftBy(frames[i], error)
      BY DEF Unwinding
    <3>3. Len(frames) \in Nat
      BY <3>2 DEF IsSeq
    <3>4. frames[Len(stack)] = Top
      BY <3>1, <3>2
    <3>5. \A i \in (Len(stack') + 1)..Len(frames) :
             i = Len(stack) \/ i \in (Len(stack) + 1)..Len(frames)
      BY <3>1, <3>3
    <3>6. \A i \in (Len(stack') + 1)..Len(frames) : LeftBy(frames[i], error)
      BY <2>2, <3>2, <3>4, <3>5
    <3>7. \A i \in (Len(stack') + 1)..Len(frames) : LeftBy(frames[i], error)'
      BY <3>6 DEF LeftBy, WrittenFor
    <3>8. /\ Len(stack') <= Len(frames)
          /\ \A i \in 1..Len(stack') : frames[i] = stack'[i]
      BY <3>1, <3>2, <3>3
    <3> QED
      BY <3>2, <3>7, <3>8 DEF Unwinding
  <2>5. Unwinding(raised.error, raised.frames)'
    BY <2>4 DEF Unwinding, LeftBy, WrittenFor
  <2> QED
    BY <2>1, <2>3, <2>5 DEF IInv, Unwinds
<1> QED
  BY <1>2, <1>3

(* An error that is raised has all frames before it. *)
LEMMA RaiseKeeps ==
  ASSUME IInv, stack # <<>>, NEW error \in ErrorKinds, Raise(error), program' = program
  PROVE  IInv'
<1>1. PICK frames : frames = stack
  OBVIOUS
<1>2. Len(stack) \in Nat /\ IsSeq(frames)
  BY <1>1 DEF IInv, Frames, IsSeq
<1>3. Unwinding(error, frames)
  BY <1>1, <1>2 DEF Unwinding
<1>4. Catch(error) /\ raised'.error = error /\ raised'.frames = frames
  BY <1>1 DEF Raise
<1> QED
  BY <1>3, <1>4, CatchKeeps

LEMMA FailsKeeps ==
  ASSUME IInv, stack # <<>>, NEW outcomes, Fails(outcomes)
  PROVE  IInv'
  BY RaiseKeeps DEF Fails

(* The result of a body or of a handler is kept in the frame. *)
LEMMA ResultKeeps ==
  ASSUME IInv, stack # <<>>, NEW c, Result(c)
  PROVE  IInv'
<1>1. PICK f : /\ f = [Top EXCEPT !.content = c, !.todo = <<>>,
                          !.phase = IF Guarded(Top) THEN "answering" ELSE "replying"]
               /\ Continue(f)
  BY DEF Result
<1>2. FrameOK(Top)
  BY FrontOfStack DEF IInv
<1>3. "phase" \in DOMAIN f /\ f.phase \in {"answering", "replying"}
  BY <1>1, <1>2 DEF FrameOK
<1>4. FrameOK(f)
  BY <1>3 DEF FrameOK, Phases, InTry
<1> QED
  BY <1>1, <1>4, ContinueKeeps
-----------------------------------------------------------------------------
LEMMA FromRequestKeeps ==
  ASSUME IInv, FromRequest
  PROVE  IInv'
<1>1. stack # <<>>
  BY DEF FromRequest, At
<1>2. FrameOK(Top)
  BY <1>1, FrontOfStack DEF IInv
<1>3. PICK c, f : f = Begin(c) /\ Continue(f)
  BY DEF FromRequest
<1>4. "phase" \in DOMAIN f /\ f.phase \in {"body", "looping", "checking"}
  <2>1. CASE Step.kind \in {"snippet"}
    BY <1>2, <1>3, <2>1 DEF Begin, FrameOK
  <2>2. CASE Step.kind \in {"sets", "refPipeline", "refStep"}
    BY <1>2, <1>3, <2>2 DEF Begin, FrameOK
  <2>3. CASE Step.kind = "each"
    BY <1>2, <1>3, <2>3 DEF Begin, FrameOK
  <2>4. CASE Step.kind \notin {"snippet", "sets", "refPipeline", "refStep", "each"}
    BY <1>2, <1>3, <2>4 DEF Begin, FrameOK
  <2> QED
    BY <2>1, <2>2, <2>3, <2>4
<1>5. FrameOK(f)
  BY <1>4 DEF FrameOK, Phases, InTry
<1> QED
  BY <1>1, <1>3, <1>5, ContinueKeeps

LEMMA CallStepKeeps ==
  ASSUME IInv, CallStep
  PROVE  IInv'
<1>1. stack # <<>> /\ answer = Pending /\ answer' = answer
  BY DEF CallStep, At
<1>2. PICK f, g : /\ f = [Top EXCEPT !.todo = Tail(Top.todo)]
                  /\ g = Frame(Head(Top.todo), Top.content)
                  /\ stack' = Append(Append(Front(stack), f), g)
  BY DEF CallStep
<1>3. FrameOK(Top) /\ IsSeq(Front(stack))
      /\ \A i \in 1..Len(Front(stack)) : FrameOK(Front(stack)[i])
  BY <1>1, FrontOfStack DEF IInv, Frames
<1>4. FrameOK(f) /\ FrameOK(g)
  <2>1. "phase" \in DOMAIN f /\ f.phase = Top.phase
    BY <1>2, <1>3 DEF FrameOK
  <2>2. "phase" \in DOMAIN g /\ g.phase = "called"
    BY <1>2 DEF Frame
  <2> QED
    BY <1>3, <2>1, <2>2 DEF FrameOK, Phases, InTry
<1>5. PICK s : s = Append(Front(stack), f)
  OBVIOUS
<1>6. IsSeq(s) /\ \A i \in 1..Len(s) : FrameOK(s[i])
  BY <1>3, <1>4, <1>5, AppendFrame
<1>7. IsSeq(stack') /\ \A i \in 1..Len(stack') : FrameOK(stack'[i])
  BY <1>2, <1>4, <1>5, <1>6, AppendFrame
<1> QED
  BY <1>1, <1>7 DEF IInv, Frames, Unwinds, Pending

LEMMA StepThrowsKeeps ==
  ASSUME IInv, StepThrows
  PROVE  IInv'
<1>1. /\ stack # <<>> /\ answer[1] = "threw" /\ Catch(answer[2])
      /\ program' = program /\ raised' = raised
  BY DEF StepThrows
<1>2. answer = Threw(raised.error) /\ Unwinding(raised.error, raised.frames)
  BY <1>1 DEF IInv, Unwinds
<1>3. PICK error, frames : error = raised.error /\ frames = raised.frames
  OBVIOUS
<1>4. answer[2] = error
  BY <1>2, <1>3 DEF Threw
<1>5. error \in ErrorKinds /\ Catch(error) /\ Unwinding(error, frames)
  BY <1>1, <1>2, <1>3, <1>4 DEF Unwinding
<1>6. raised'.error = error /\ raised'.frames = frames
  BY <1>1, <1>3
<1> QED
  BY <1>1, <1>5, <1>6, CatchKeeps

(* The steps in which the running step goes on and nothing is raised. *)
LEMMA GoesOnKeeps ==
  ASSUME IInv, \/ StepReturns \/ NextElement \/ ElementDone
               \/ CheckHolds \/ CheckIsFalse
  PROVE  IInv'
<1>1. stack # <<>>
  BY DEF StepReturns, NextElement, ElementDone, BodyDone, CheckHolds, CheckIsFalse, At
<1>2. FrameOK(Top)
  BY <1>1, FrontOfStack DEF IInv
<1>3. ASSUME StepReturns
      PROVE  IInv'
  <2>1. PICK c : Continue([Top EXCEPT !.content = c])
    BY <1>3 DEF StepReturns
  <2>2. PICK f : f = [Top EXCEPT !.content = c] /\ Continue(f)
    BY <2>1
  <2>3. FrameOK(f)
    BY <1>2, <2>2 DEF FrameOK
  <2> QED
    BY <1>1, <2>2, <2>3, ContinueKeeps
<1>4. ASSUME NextElement
      PROVE  IInv'
  <2>1. PICK f : /\ f = [Top EXCEPT !.phase = "body", !.todo = Step.branches[1],
                            !.content = Element(Top.request, Top.at, Top.loop)]
                 /\ Continue(f)
    BY <1>4 DEF NextElement
  <2>2. "phase" \in DOMAIN f /\ f.phase = "body"
    BY <1>2, <2>1 DEF FrameOK
  <2>3. FrameOK(f)
    BY <2>2 DEF FrameOK, Phases, InTry
  <2> QED
    BY <1>1, <2>1, <2>3, ContinueKeeps
<1>5. ASSUME ElementDone
      PROVE  IInv'
  <2>1. PICK f : /\ f = [Top EXCEPT !.phase = "looping", !.at = Top.at + 1,
                            !.results = Append(Top.results, Top.content)]
                 /\ Continue(f)
    BY <1>5 DEF ElementDone
  <2>2. "phase" \in DOMAIN f /\ f.phase = "looping"
    BY <1>2, <2>1 DEF FrameOK
  <2>3. FrameOK(f)
    BY <2>2 DEF FrameOK, Phases, InTry
  <2> QED
    BY <1>1, <2>1, <2>3, ContinueKeeps
<1>6. ASSUME NEW b, Take(b)
      PROVE  IInv'
  <2>1. PICK f : /\ f = [Top EXCEPT !.phase = "body", !.todo = Step.branches[b],
                            !.content = Top.request]
                 /\ Continue(f)
    BY <1>6 DEF Take
  <2>2. "phase" \in DOMAIN f /\ f.phase = "body"
    BY <1>2, <2>1 DEF FrameOK
  <2>3. FrameOK(f)
    BY <2>2 DEF FrameOK, Phases, InTry
  <2> QED
    BY <1>1, <2>1, <2>3, ContinueKeeps
<1>7. ASSUME CheckIsFalse
      PROVE  IInv'
  <2>1. PICK f : f = [Top EXCEPT !.at = Top.at + 1] /\ Continue(f)
    BY <1>7 DEF CheckIsFalse
  <2>2. FrameOK(f)
    BY <1>2, <2>1 DEF FrameOK
  <2> QED
    BY <1>1, <2>1, <2>2, ContinueKeeps
<1>8. ASSUME CheckHolds
      PROVE  IInv'
  <2>1. PICK b : b = Top.at /\ Take(b)
    BY <1>8 DEF CheckHolds
  <2> QED
    BY <1>6, <2>1
<1> QED
  BY <1>3, <1>4, <1>5, <1>7, <1>8

(* No check holds: the last branch is taken, or the step is done. *)
LEMMA OtherwiseKeeps ==
  ASSUME IInv, Otherwise
  PROVE  IInv'
<1>1. stack # <<>>
  BY DEF Otherwise, At
<1>2. FrameOK(Top)
  BY <1>1, FrontOfStack DEF IInv
<1>3. CASE Step.otherwise
  <2>1. PICK f : /\ f = [Top EXCEPT !.phase = "body", !.todo = Step.branches[Top.at],
                            !.content = Top.request]
                 /\ Continue(f)
    BY <1>3 DEF Otherwise, Take
  <2>2. "phase" \in DOMAIN f /\ f.phase = "body"
    BY <1>2, <2>1 DEF FrameOK
  <2>3. FrameOK(f)
    BY <2>2 DEF FrameOK, Phases, InTry
  <2> QED
    BY <1>1, <2>1, <2>3, ContinueKeeps
<1>4. CASE ~Step.otherwise
  <2>1. PICK c : Return(Returned(c))
    BY <1>4 DEF Otherwise
  <2> QED
    BY <1>1, <2>1, ReturnKeeps
<1> QED
  BY <1>3, <1>4

(* User code throws. *)
LEMMA FailuresKeep ==
  ASSUME IInv, \/ FromRequestFails \/ SnippetFails \/ HandlerFails \/ ReferenceFails
               \/ NotAnArray \/ CheckFails \/ ToResponseFails
  PROVE  IInv'
<1>1. stack # <<>>
  BY DEF FromRequestFails, SnippetFails, HandlerFails, ReferenceFails, NotAnArray,
         CheckFails, ToResponseFails, At
<1>2. CASE NotAnArray
  <2>1. "uncatchable" \in ErrorKinds /\ Raise("uncatchable") /\ program' = program
    BY <1>2 DEF NotAnArray, ErrorKinds
  <2> QED
    BY <1>1, <2>1, RaiseKeeps
<1>3. CASE ~NotAnArray
  <2>1. PICK outcomes : Fails(outcomes)
    BY <1>3 DEF FromRequestFails, SnippetFails, HandlerFails, ReferenceFails,
                CheckFails, ToResponseFails
  <2> QED
    BY <1>1, <2>1, FailsKeeps
<1> QED
  BY <1>2, <1>3

(* A body or a handler has its result. *)
LEMMA ResultsKeep ==
  ASSUME IInv, Snippet \/ HandlerSnippet \/ StepsDone \/ LoopDone
  PROVE  IInv'
<1>1. stack # <<>>
  BY DEF Snippet, HandlerSnippet, StepsDone, LoopDone, BodyDone, At
<1>2. PICK c : Result(c)
  BY DEF Snippet, HandlerSnippet, StepsDone, LoopDone
<1> QED
  BY <1>1, <1>2, ResultKeeps

(* A step responds. *)
LEMMA ResponsesKeep ==
  ASSUME IInv, NoElement \/ ToResponse
  PROVE  IInv'
<1>1. stack # <<>>
  BY DEF NoElement, ToResponse, At
<1>2. PICK c : Return(Returned(c))
  BY DEF NoElement, ToResponse
<1> QED
  BY <1>1, <1>2, ReturnKeeps
-----------------------------------------------------------------------------
LEMMA Initially == Init => IInv
<1> SUFFICES ASSUME Init
             PROVE  IInv
  OBVIOUS
<1>1. PICK f : f = Frame(1, Payload) /\ stack = <<f>>
  BY DEF Init
<1>2. FrameOK(f)
  BY <1>1 DEF Frame, FrameOK, Phases, InTry
<1>3. <<f>> \in Seq({f}) /\ Len(<<f>>) = 1 /\ <<f>>[1] = f
  OBVIOUS
<1>4. Frames
  <2>1. IsSeq(stack)
    BY <1>1, <1>3 DEF IsSeq
  <2>2. \A i \in 1..Len(stack) : i = 1
    BY <1>1, <1>3
  <2>3. stack[1] = f
    BY <1>1, <1>3
  <2> QED
    BY <1>2, <2>1, <2>2, <2>3 DEF Frames
<1>5. Unwinds
  BY DEF Init, Unwinds, Pending
<1> QED
  BY <1>4, <1>5 DEF IInv

LEMMA Invariance == IInv /\ [Next]_vars => IInv'
<1> SUFFICES ASSUME IInv, [Next]_vars
             PROVE  IInv'
  OBVIOUS
<1>1. CASE FromRequest
  BY <1>1, FromRequestKeeps
<1>2. CASE CallStep
  BY <1>2, CallStepKeeps
<1>3. CASE StepThrows
  BY <1>3, StepThrowsKeeps
<1>4. CASE StepReturns \/ NextElement \/ ElementDone \/ CheckHolds \/ CheckIsFalse
  BY <1>4, GoesOnKeeps
<1>5. CASE Otherwise
  BY <1>5, OtherwiseKeeps
<1>6. CASE \/ FromRequestFails \/ SnippetFails \/ HandlerFails \/ ReferenceFails
           \/ NotAnArray \/ CheckFails \/ ToResponseFails
  BY <1>6, FailuresKeep
<1>7. CASE Snippet \/ HandlerSnippet \/ StepsDone \/ LoopDone
  BY <1>7, ResultsKeep
<1>8. CASE NoElement \/ ToResponse
  BY <1>8, ResponsesKeep
<1>9. CASE UNCHANGED vars
  <2>1. stack' = stack /\ answer' = answer /\ raised' = raised /\ program' = program
    BY <1>9 DEF vars
  <2> QED
    BY <2>1 DEF IInv, Frames, Unwinds, Unwinding, LeftBy, WrittenFor
<1> QED
  BY <1>1, <1>2, <1>3, <1>4, <1>5, <1>6, <1>7, <1>8, <1>9 DEF Next

(* An error leaves only steps that have no handler for it, or that are     *)
(* past them: the nearest step that can handles it (performAndCatch,       *)
(* handleError), in every program and at any depth.                        *)
THEOREM NearestAlwaysHandles == Spec => []NearestHandlerHandles
<1>1. IInv => NearestHandlerHandles
  <2> SUFFICES ASSUME IInv, answer = Threw(raised.error),
                      NEW i \in (Len(stack) + 1)..Len(raised.frames)
               PROVE  \/ raised.frames[i].phase \in {"handling", "replying"}
                      \/ ~WrittenFor(raised.frames[i].step, raised.error)
    BY DEF NearestHandlerHandles
  <2>1. answer[1] = "threw"
    BY DEF Threw
  <2> QED
    BY <2>1 DEF IInv, Unwinds, Unwinding, LeftBy
<1> QED
  BY <1>1, Initially, Invariance, PTL DEF Spec
-----------------------------------------------------------------------------
(* The content: what a frame of each kind of step may hold, and what the   *)
(* frame of the pipeline, which is the first one, does.                    *)
Fields == {"step", "phase", "request", "fragment", "todo", "content", "at", "results",
           "loop", "handler"}

KindOf(f) == program[f.step].kind

Sound(f) ==
  /\ DOMAIN f = Fields
  /\ f.phase = "looping" => KindOf(f) = "each"
  /\ f.phase = "checking" => KindOf(f) \notin {"snippet", "sets", "refPipeline", "refStep", "each"}
  /\ f.phase = "body" /\ f.content = Null =>
       /\ KindOf(f) \in {"sets", "refPipeline"} => f.fragment = Null
       /\ KindOf(f) = "routes" => f.request = Null
       /\ KindOf(f) # "each"

OfPipeline(f) ==
  /\ f.step = 1 /\ f.request = Payload
  /\ f.phase \in {"called", "body", "answering"}
  /\ f.phase # "called" => f.content # Null

Survives ==
  /\ program \in Programs
  /\ \A i \in 1..Len(stack) : Sound(stack[i])
  /\ stack # <<>> => OfPipeline(stack[1])
  /\ stack = <<>> => answer # Returned(Null)

Both == IInv /\ Survives

LEMMA TopSurvives ==
  ASSUME Both, stack # <<>>
  PROVE  /\ Sound(Top) /\ FrameOK(Top) /\ program \in Programs
         /\ Len(stack) = 1 => OfPipeline(Top)
  BY FrontOfStack DEF Both, IInv, Survives

(* The pipeline has no handler, and is of sets. *)
LEMMA PipelineStep ==
  ASSUME Both, stack # <<>>, OfPipeline(Top)
  PROVE  /\ Step.kind = "sets" /\ Step.merge = "no" /\ Step.from = {} /\ Step.to = {}
         /\ DOMAIN Step.handlers = {} /\ KindOf(Top) = "sets"
  BY TopSurvives, ProgramsAssumption DEF OfPipeline, Step, KindOf

(* A frame in the place of the last one, or none. *)
LEMMA ContinueSurvives ==
  ASSUME Both, stack # <<>>, NEW f, Sound(f), Len(stack) = 1 => OfPipeline(f),
         Continue(f), program' = program
  PROVE  Survives'
<1> DEFINE s == Front(stack)
<1>1. /\ IsSeq(s) /\ Len(stack) \in Nat \ {0} /\ Len(s) = Len(stack) - 1
      /\ \A i \in 1..(Len(stack) - 1) : s[i] = stack[i]
  BY FrontOfStack DEF Both, IInv
<1>2. PICK S : s \in Seq(S)
  BY <1>1 DEF IsSeq
<1>3. s \in Seq(S \union {f}) /\ stack' = Append(s, f)
  BY <1>2 DEF Continue
<1>4. /\ Len(stack') = Len(stack) /\ stack' # <<>> /\ stack'[Len(stack)] = f
      /\ \A i \in 1..(Len(stack) - 1) : stack'[i] = stack[i]
  <2> HIDE DEF s
  <2>1. Len(Append(s, f)) = Len(s) + 1 /\ Append(s, f)[Len(s) + 1] = f
    BY <1>3
  <2>2. \A i \in 1..Len(s) : Append(s, f)[i] = s[i]
    BY <1>3
  <2>3. Append(s, f) # <<>>
    BY <1>1, <2>1
  <2> QED
    BY <1>1, <1>3, <2>1, <2>2, <2>3
<1>5. \A i \in 1..Len(stack') : i = Len(stack) \/ i \in 1..(Len(stack) - 1)
  BY <1>1, <1>4
<1>6. \A i \in 1..Len(stack') : Sound(stack'[i])
  BY <1>4, <1>5 DEF Both, Survives
<1>7. OfPipeline(stack'[1])
  BY <1>1, <1>4 DEF Both, Survives
<1>8. (\A i \in 1..Len(stack) : Sound(stack[i]))' /\ OfPipeline(stack[1])'
  BY <1>6, <1>7 DEF Sound, KindOf, OfPipeline
<1> QED
  BY <1>4, <1>8 DEF Survives, Both

LEMMA ReturnSurvives ==
  ASSUME Both, stack # <<>>, NEW outcome, Len(stack) = 1 => outcome # Returned(Null),
         Return(outcome), program' = program
  PROVE  Survives'
<1>1. /\ Len(stack) \in Nat \ {0} /\ Len(stack') = Len(stack) - 1 /\ IsSeq(stack')
      /\ \A i \in 1..(Len(stack) - 1) : stack'[i] = stack[i]
  BY FrontOfStack DEF Both, IInv, Return
<1>2. \A i \in 1..Len(stack') : Sound(stack'[i])
  BY <1>1 DEF Both, Survives
<1>3. stack' # <<>> => 1 \in 1..(Len(stack) - 1)
  <2>1. stack' # <<>> => Len(stack') # 0
    BY <1>1 DEF IsSeq
  <2> QED
    BY <1>1, <2>1
<1>4. stack' # <<>> => OfPipeline(stack'[1])
  BY <1>1, <1>3 DEF Both, Survives
<1>5. stack' = <<>> => answer' # Returned(Null)
  <2>1. stack' = <<>> => Len(stack') = 0
    OBVIOUS
  <2> QED
    BY <1>1, <2>1 DEF Return
<1>6. (\A i \in 1..Len(stack) : Sound(stack[i]))' /\ (stack # <<>> => OfPipeline(stack[1]))'
  BY <1>2, <1>4 DEF Sound, KindOf, OfPipeline
<1> QED
  BY <1>5, <1>6 DEF Survives, Both, Returned

LEMMA CatchSurvives ==
  ASSUME Both, stack # <<>>, NEW error \in ErrorKinds, Catch(error), program' = program
  PROVE  Survives'
<1> DEFINE by == Chosen(Step.handlers, error)
<1>1. Sound(Top)
  BY TopSurvives
<1>2. CASE Guarded(Top) /\ by # "none"
  <2>1. PICK f : /\ f = [Top EXCEPT !.phase = "handling", !.handler = by,
                            !.todo = Step.handlers[by].steps,
                            !.content = Failure(error, Top.fragment)]
                 /\ Continue(f)
    BY <1>2 DEF Catch
  <2>2. DOMAIN f = Fields /\ f.phase = "handling"
    BY <1>1, <2>1 DEF Sound, Fields
  <2>3. Sound(f)
    BY <2>2 DEF Sound
  <2>4. Len(stack) # 1
    BY <1>2, TopSurvives, PipelineStep DEF Chosen
  <2> QED
    BY <2>1, <2>3, <2>4, ContinueSurvives
<1>3. CASE ~(Guarded(Top) /\ by # "none")
  <2>1. Return(Threw(error)) /\ Threw(error) # Returned(Null)
    BY <1>3 DEF Catch, Threw, Returned
  <2> QED
    BY <2>1, ReturnSurvives
<1> QED
  BY <1>2, <1>3
-----------------------------------------------------------------------------
(* A frame that is neither within its body nor looping or checking. *)
LEMMA SoundOtherwise ==
  ASSUME NEW f, DOMAIN f = Fields, f.phase \notin {"looping", "checking", "body"}
  PROVE  Sound(f)
  BY DEF Sound

LEMMA FailsSurvives ==
  ASSUME Both, stack # <<>>, NEW outcomes, Fails(outcomes)
  PROVE  Survives'
<1>1. PICK error \in ErrorKinds : Catch(error) /\ program' = program
  BY DEF Fails, Raise
<1> QED
  BY <1>1, CatchSurvives

LEMMA ResultSurvives ==
  ASSUME Both, stack # <<>>, NEW c, Result(c), Len(stack) = 1 => c # Null,
         program' = program
  PROVE  Survives'
<1>1. PICK f : /\ f = [Top EXCEPT !.content = c, !.todo = <<>>,
                          !.phase = IF Guarded(Top) THEN "answering" ELSE "replying"]
               /\ Continue(f)
  BY DEF Result
<1>2. Sound(Top)
  BY TopSurvives
<1>3. /\ DOMAIN f = Fields /\ f.phase \in {"answering", "replying"}
      /\ f.content = c /\ f.step = Top.step /\ f.request = Top.request
      /\ Guarded(Top) => f.phase = "answering"
  BY <1>1, <1>2 DEF Sound, Fields
<1>4. Sound(f)
  BY <1>3, SoundOtherwise
<1>5. ASSUME Len(stack) = 1
      PROVE  OfPipeline(f)
  BY <1>3, <1>5, TopSurvives DEF OfPipeline, Guarded
<1> QED
  BY <1>1, <1>4, <1>5, ContinueSurvives

LEMMA FromRequestSurvives ==
  ASSUME Both, FromRequest
  PROVE  Survives'
<1>1. stack # <<>> /\ program' = program
  BY DEF FromRequest, At
<1>2. PICK c, f : c \in Fragments /\ f = Begin(c) /\ Continue(f)
  BY DEF FromRequest
<1>3. Sound(Top)
  BY <1>1, TopSurvives
<1>4. DOMAIN f = Fields /\ f.step = Top.step /\ f.request = Top.request
  <2>1. CASE Step.kind \in {"snippet"}
    BY <1>2, <1>3, <2>1 DEF Begin, Sound, Fields
  <2>2. CASE Step.kind \in {"sets", "refPipeline", "refStep"}
    BY <1>2, <1>3, <2>2 DEF Begin, Sound, Fields
  <2>3. CASE Step.kind = "each"
    BY <1>2, <1>3, <2>3 DEF Begin, Sound, Fields
  <2>4. CASE Step.kind \notin {"snippet", "sets", "refPipeline", "refStep", "each"}
    BY <1>2, <1>3, <2>4 DEF Begin, Sound, Fields
  <2> QED
    BY <2>1, <2>2, <2>3, <2>4
<1>5. KindOf(f) = Step.kind
  BY <1>4 DEF KindOf, Step
<1>6. Sound(f)
  <2>1. CASE Step.kind \in {"snippet"}
    BY <1>2, <1>3, <1>4, <1>5, <2>1 DEF Begin, Sound, Fields
  <2>2. CASE Step.kind \in {"sets", "refPipeline", "refStep"}
    <3>1. f.phase = "body" /\ f.fragment = c /\ f.content = c
      BY <1>2, <1>3, <2>2 DEF Begin, Sound, Fields
    <3> QED
      BY <1>4, <1>5, <2>2, <3>1 DEF Sound
  <2>3. CASE Step.kind = "each"
    <3>1. f.phase = "looping"
      BY <1>2, <1>3, <2>3 DEF Begin, Sound, Fields
    <3> QED
      BY <1>4, <1>5, <2>3, <3>1 DEF Sound
  <2>4. CASE Step.kind \notin {"snippet", "sets", "refPipeline", "refStep", "each"}
    <3>1. f.phase = "checking"
      BY <1>2, <1>3, <2>4 DEF Begin, Sound, Fields
    <3> QED
      BY <1>4, <1>5, <2>4, <3>1 DEF Sound
  <2> QED
    BY <2>1, <2>2, <2>3, <2>4
<1>7. ASSUME Len(stack) = 1
      PROVE  OfPipeline(f)
  <2>1. OfPipeline(Top) /\ Step.kind = "sets" /\ Step.from = {}
    BY <1>1, <1>7, TopSurvives, PipelineStep
  <2>2. c = Payload
    BY <1>2, <2>1 DEF Fragments, OfPipeline
  <2>3. f.phase = "body" /\ f.content = c
    BY <1>2, <1>3, <2>1 DEF Begin, Sound, Fields
  <2>4. Payload # Null
    BY DEF Payload, Null
  <2> QED
    BY <1>4, <2>1, <2>2, <2>3, <2>4 DEF OfPipeline
<1> QED
  BY <1>1, <1>2, <1>6, <1>7, ContinueSurvives

LEMMA CallStepSurvives ==
  ASSUME Both, CallStep
  PROVE  Survives'
<1>1. /\ stack # <<>> /\ Top.phase \in {"body", "handling"}
      /\ answer' = answer /\ program' = program
  BY DEF CallStep, At
<1>2. PICK f, g : /\ f = [Top EXCEPT !.todo = Tail(Top.todo)]
                  /\ g = Frame(Head(Top.todo), Top.content)
                  /\ stack' = Append(Append(Front(stack), f), g)
  BY DEF CallStep
<1>3. Sound(Top)
  BY <1>1, TopSurvives
<1>4. /\ DOMAIN f = Fields /\ f.step = Top.step /\ f.request = Top.request
      /\ f.phase = Top.phase /\ f.content = Top.content /\ f.fragment = Top.fragment
  BY <1>2, <1>3 DEF Sound, Fields
<1>5. Sound(f)
  BY <1>3, <1>4 DEF Sound, KindOf
<1>6. Len(stack) = 1 => OfPipeline(f)
  BY <1>1, <1>4, TopSurvives DEF OfPipeline
<1>7. Sound(g)
  <2>1. DOMAIN g = Fields /\ g.phase = "called"
    BY <1>2 DEF Frame, Fields
  <2> QED
    BY <2>1, SoundOtherwise
<1>8. PICK s : s = Front(stack)
  OBVIOUS
<1>9. /\ IsSeq(s) /\ Len(stack) \in Nat \ {0} /\ Len(s) = Len(stack) - 1
      /\ \A i \in 1..(Len(stack) - 1) : s[i] = stack[i]
  BY <1>1, <1>8, FrontOfStack DEF Both, IInv
<1>10. PICK S : s \in Seq(S)
  BY <1>9 DEF IsSeq
<1>11. PICK t : t = Append(s, f)
  OBVIOUS
<1>12. s \in Seq(S \union {f, g}) /\ t \in Seq(S \union {f, g})
  BY <1>10, <1>11
<1>13. /\ Len(t) = Len(s) + 1 /\ t[Len(s) + 1] = f
       /\ \A i \in 1..Len(s) : t[i] = s[i]
  BY <1>11, <1>12
<1>14. /\ Len(stack') = Len(t) + 1 /\ stack'[Len(t) + 1] = g
       /\ \A i \in 1..Len(t) : stack'[i] = t[i]
  <2>1. stack' = Append(t, g)
    BY <1>2, <1>8, <1>11
  <2> QED
    BY <1>12, <2>1
<1>15. /\ Len(stack') = Len(stack) + 1
       /\ stack'[Len(stack) + 1] = g /\ stack'[Len(stack)] = f
       /\ \A i \in 1..(Len(stack) - 1) : stack'[i] = stack[i]
  BY <1>9, <1>13, <1>14
<1>16. \A i \in 1..Len(stack') :
          i = Len(stack) + 1 \/ i = Len(stack) \/ i \in 1..(Len(stack) - 1)
  BY <1>9, <1>15
<1>17. \A i \in 1..Len(stack') : Sound(stack'[i])
  BY <1>5, <1>7, <1>15, <1>16 DEF Both, Survives
<1>18. OfPipeline(stack'[1])
  BY <1>1, <1>6, <1>9, <1>15 DEF Both, Survives
<1>19. (\A i \in 1..Len(stack) : Sound(stack[i]))' /\ OfPipeline(stack[1])'
  BY <1>1, <1>17, <1>18 DEF Sound, KindOf, OfPipeline
<1>20. stack' # <<>>
  BY <1>9, <1>15
<1> QED
  BY <1>1, <1>19, <1>20 DEF Survives, Both

LEMMA StepReturnsSurvives ==
  ASSUME Both, StepReturns
  PROVE  Survives'
<1>1. stack # <<>> /\ program' = program
  BY DEF StepReturns
<1>2. PICK c, f : /\ c = IF Step.kind = "refStep" /\ Top.phase = "body"
                          THEN answer[2]
                          ELSE ReturnOrContinueOrClear(Top.content, answer[2])
                  /\ f = [Top EXCEPT !.content = c] /\ Continue(f)
  BY DEF StepReturns
<1>3. Sound(Top)
  BY <1>1, TopSurvives
<1>4. /\ DOMAIN f = Fields /\ f.step = Top.step /\ f.request = Top.request
      /\ f.phase = Top.phase /\ f.content = c /\ f.fragment = Top.fragment
  BY <1>2, <1>3 DEF Sound, Fields
<1>5. Step.kind # "refStep" /\ c = Null => Top.content = Null
  BY <1>2 DEF ReturnOrContinueOrClear
<1>6. KindOf(f) = Step.kind /\ KindOf(Top) = Step.kind
  BY <1>4 DEF KindOf, Step
<1>7. Sound(f)
  BY <1>3, <1>4, <1>5, <1>6 DEF Sound
<1>8. ASSUME Len(stack) = 1
      PROVE  OfPipeline(f)
  <2>1. OfPipeline(Top) /\ Step.kind = "sets"
    BY <1>1, <1>8, TopSurvives, PipelineStep
  <2> QED
    BY <1>4, <1>5, <2>1 DEF OfPipeline
<1> QED
  BY <1>1, <1>2, <1>7, <1>8, ContinueSurvives

LEMMA TakeSurvives ==
  ASSUME Both, At({"checking"}), NEW b, Take(b), program' = program
  PROVE  Survives'
<1>1. stack # <<>> /\ Top.phase = "checking"
  BY DEF At
<1>2. PICK f : /\ f = [Top EXCEPT !.phase = "body", !.todo = Step.branches[b],
                            !.content = Top.request]
               /\ Continue(f)
  BY DEF Take
<1>3. Sound(Top)
  BY <1>1, TopSurvives
<1>4. /\ DOMAIN f = Fields /\ f.step = Top.step /\ f.request = Top.request
      /\ f.phase = "body" /\ f.content = Top.request
  BY <1>2, <1>3 DEF Sound, Fields
<1>5. KindOf(f) = KindOf(Top)
  BY <1>4 DEF KindOf
<1>6. Sound(f)
  BY <1>1, <1>3, <1>4, <1>5 DEF Sound
<1>7. Len(stack) # 1
  BY <1>1, TopSurvives DEF OfPipeline
<1> QED
  BY <1>1, <1>2, <1>6, <1>7, ContinueSurvives

(* Of a loop, and of the checks of branches. *)
LEMMA LoopsAndChecksSurvive ==
  ASSUME Both, NextElement \/ ElementDone \/ CheckHolds \/ CheckIsFalse \/ Otherwise
  PROVE  Survives'
<1>1. stack # <<>> /\ program' = program
  BY DEF NextElement, ElementDone, BodyDone, CheckHolds, CheckIsFalse, Otherwise, At
<1>2. Sound(Top)
  BY <1>1, TopSurvives
<1>3. ASSUME NextElement
      PROVE  Survives'
  <2>1. PICK f : /\ f = [Top EXCEPT !.phase = "body", !.todo = Step.branches[1],
                            !.content = Element(Top.request, Top.at, Top.loop)]
                 /\ Continue(f)
    BY <1>3 DEF NextElement
  <2>2. Top.phase = "looping" /\ KindOf(Top) = "each"
    BY <1>2, <1>3 DEF NextElement, At, Sound
  <2>3. Element(Top.request, Top.at, Top.loop) # Null
    <3>1. Element(Top.request, Top.at, Top.loop)[1] = "element" /\ Null[1] = "null"
      BY DEF Element, Null
    <3> QED
      BY <3>1
  <2>4. /\ DOMAIN f = Fields /\ f.phase = "body" /\ f.step = Top.step
        /\ f.content # Null
    BY <1>2, <2>1, <2>3 DEF Sound, Fields
  <2>5. Sound(f)
    BY <2>4 DEF Sound
  <2>6. Len(stack) # 1
    BY <1>1, <2>2, TopSurvives DEF OfPipeline
  <2> QED
    BY <1>1, <2>1, <2>5, <2>6, ContinueSurvives
<1>4. ASSUME ElementDone
      PROVE  Survives'
  <2>1. PICK f : /\ f = [Top EXCEPT !.phase = "looping", !.at = Top.at + 1,
                            !.results = Append(Top.results, Top.content)]
                 /\ Continue(f)
    BY <1>4 DEF ElementDone
  <2>2. Step.kind = "each"
    BY <1>4 DEF ElementDone
  <2>3. DOMAIN f = Fields /\ f.phase = "looping" /\ f.step = Top.step
    BY <1>2, <2>1 DEF Sound, Fields
  <2>4. Sound(f)
    BY <2>2, <2>3 DEF Sound, KindOf, Step
  <2>5. Len(stack) # 1
    BY <1>1, <2>2, TopSurvives, PipelineStep
  <2> QED
    BY <1>1, <2>1, <2>4, <2>5, ContinueSurvives
<1>5. ASSUME CheckIsFalse
      PROVE  Survives'
  <2>1. PICK f : f = [Top EXCEPT !.at = Top.at + 1] /\ Continue(f)
    BY <1>5 DEF CheckIsFalse
  <2>2. Top.phase = "checking"
    BY <1>5 DEF CheckIsFalse, At
  <2>3. DOMAIN f = Fields /\ f.phase = "checking" /\ f.step = Top.step
    BY <1>2, <2>1, <2>2 DEF Sound, Fields
  <2>4. Sound(f)
    BY <1>2, <2>2, <2>3 DEF Sound, KindOf
  <2>5. Len(stack) # 1
    BY <1>1, <2>2, TopSurvives DEF OfPipeline
  <2> QED
    BY <1>1, <2>1, <2>4, <2>5, ContinueSurvives
<1>6. ASSUME CheckHolds
      PROVE  Survives'
  <2>1. PICK b : b = Top.at /\ Take(b)
    BY <1>6 DEF CheckHolds
  <2>2. At({"checking"})
    BY <1>6 DEF CheckHolds
  <2> QED
    BY <1>1, <2>1, <2>2, TakeSurvives
<1>7. ASSUME Otherwise
      PROVE  Survives'
  <2>1. At({"checking"}) /\ Top.phase = "checking"
    BY <1>7 DEF Otherwise, At
  <2>2. CASE Step.otherwise
    <3>1. PICK b : b = Top.at /\ Take(b)
      BY <1>7, <2>2 DEF Otherwise
    <3> QED
      BY <1>1, <2>1, <3>1, TakeSurvives
  <2>3. CASE ~Step.otherwise
    <3>1. Return(Returned(Top.request))
      BY <1>7, <2>3 DEF Otherwise
    <3>2. PICK outcome : outcome = Returned(Top.request) /\ Return(outcome)
      BY <3>1
    <3>3. Len(stack) # 1
      BY <1>1, <2>1, TopSurvives DEF OfPipeline
    <3> QED
      BY <1>1, <3>2, <3>3, ReturnSurvives
  <2> QED
    BY <2>2, <2>3
<1> QED
  BY <1>3, <1>4, <1>5, <1>6, <1>7

LEMMA FailuresSurvive ==
  ASSUME Both, \/ FromRequestFails \/ SnippetFails \/ HandlerFails \/ ReferenceFails
               \/ NotAnArray \/ CheckFails \/ ToResponseFails
  PROVE  Survives'
<1>1. stack # <<>>
  BY DEF FromRequestFails, SnippetFails, HandlerFails, ReferenceFails, NotAnArray,
         CheckFails, ToResponseFails, At
<1>2. CASE NotAnArray
  <2>1. "uncatchable" \in ErrorKinds /\ Catch("uncatchable") /\ program' = program
    BY <1>2 DEF NotAnArray, Raise, ErrorKinds
  <2> QED
    BY <1>1, <2>1, CatchSurvives
<1>3. CASE ~NotAnArray
  <2>1. PICK outcomes : Fails(outcomes)
    BY <1>3 DEF FromRequestFails, SnippetFails, HandlerFails, ReferenceFails,
                CheckFails, ToResponseFails
  <2> QED
    BY <1>1, <2>1, FailsSurvives
<1> QED
  BY <1>2, <1>3

LEMMA StepThrowsSurvives ==
  ASSUME Both, StepThrows
  PROVE  Survives'
<1>1. stack # <<>> /\ answer[1] = "threw" /\ Catch(answer[2]) /\ program' = program
  BY DEF StepThrows
<1>2. answer = Threw(raised.error) /\ raised.error \in ErrorKinds
  BY <1>1 DEF Both, IInv, Unwinds, Unwinding
<1>3. PICK error \in ErrorKinds : error = answer[2]
  BY <1>2 DEF Threw
<1> QED
  BY <1>1, <1>3, CatchSurvives

(* The result of the pipeline is what its steps left of the payload. *)
LEMMA ResultsSurvive ==
  ASSUME Both, Snippet \/ HandlerSnippet \/ StepsDone \/ LoopDone
  PROVE  Survives'
<1>1. stack # <<>> /\ program' = program
  BY DEF Snippet, HandlerSnippet, StepsDone, LoopDone, BodyDone, At
<1>2. ASSUME Len(stack) = 1
      PROVE  /\ Top.phase \in {"called", "body", "answering"} /\ Step.kind = "sets"
             /\ Top.phase # "called" => Top.content # Null
  BY <1>1, <1>2, TopSurvives, PipelineStep DEF OfPipeline
<1>3. CASE StepsDone
  <2>1. PICK c : c = Top.content /\ Result(c)
    BY <1>3 DEF StepsDone
  <2>2. Top.phase # "called"
    BY <1>3 DEF StepsDone, BodyDone, At
  <2> QED
    BY <1>1, <1>2, <2>1, <2>2, ResultSurvives
<1>4. CASE ~StepsDone
  <2>1. PICK c : Result(c)
    BY <1>4 DEF Snippet, HandlerSnippet, LoopDone
  <2>2. Len(stack) # 1
    BY <1>2, <1>4 DEF Snippet, HandlerSnippet, LoopDone, BodyDone, At
  <2> QED
    BY <1>1, <2>1, <2>2, ResultSurvives
<1> QED
  BY <1>3, <1>4

LEMMA ResponsesSurvive ==
  ASSUME Both, NoElement \/ ToResponse
  PROVE  Survives'
<1>1. stack # <<>> /\ program' = program
  BY DEF NoElement, ToResponse, At
<1>2. CASE NoElement
  <2>1. PICK outcome : Return(outcome)
    BY <1>2 DEF NoElement
  <2>2. Top.phase = "looping"
    BY <1>2 DEF NoElement, At
  <2>3. Len(stack) # 1
    BY <1>1, <2>2, TopSurvives DEF OfPipeline
  <2> QED
    BY <1>1, <2>1, <2>3, ReturnSurvives
<1>3. CASE ToResponse
  <2>1. PICK r, outcome : /\ r \in IF Step.to = {} THEN {Top.content} ELSE Made(Step.to)
                          /\ outcome = Returned(Response(r)) /\ Return(outcome)
    BY <1>3 DEF ToResponse
  <2>2. ASSUME Len(stack) = 1
        PROVE  outcome # Returned(Null)
    <3>1. OfPipeline(Top) /\ Step.to = {} /\ Step.merge = "no"
      BY <1>1, <2>2, TopSurvives, PipelineStep
    <3>2. Top.phase \in {"answering", "replying"}
      BY <1>3 DEF ToResponse, At
    <3>3. r = Top.content /\ Top.content # Null
      BY <2>1, <3>1, <3>2 DEF OfPipeline
    <3>4. Response(r) = r
      BY <3>1 DEF Response, MergeIntoRequest
    <3> QED
      BY <2>1, <3>3, <3>4 DEF Returned
  <2> QED
    BY <1>1, <2>1, <2>2, ReturnSurvives
<1> QED
  BY <1>2, <1>3

LEMMA SurvivesInitially == Init => Survives
<1> SUFFICES ASSUME Init
             PROVE  Survives
  OBVIOUS
<1>1. PICK f : f = Frame(1, Payload) /\ stack = <<f>>
  BY DEF Init
<1>2. /\ DOMAIN f = Fields /\ f.phase = "called" /\ f.step = 1
      /\ f.request = Payload
  BY <1>1 DEF Frame, Fields
<1>3. Sound(f) /\ OfPipeline(f)
  BY <1>2, SoundOtherwise DEF OfPipeline
<1>4. stack # <<>> /\ Len(stack) = 1 /\ stack[1] = f
  BY <1>1
<1>5. \A i \in 1..Len(stack) : i = 1
  BY <1>4
<1> QED
  BY <1>3, <1>4, <1>5 DEF Init, Survives

LEMMA BothInvariant == Both /\ [Next]_vars => Both'
<1> SUFFICES ASSUME Both, [Next]_vars
             PROVE  Survives'
  BY Invariance DEF Both
<1>1. CASE FromRequest
  BY <1>1, FromRequestSurvives
<1>2. CASE CallStep
  BY <1>2, CallStepSurvives
<1>3. CASE StepReturns
  BY <1>3, StepReturnsSurvives
<1>4. CASE StepThrows
  BY <1>4, StepThrowsSurvives
<1>5. CASE NextElement \/ ElementDone \/ CheckHolds \/ CheckIsFalse \/ Otherwise
  BY <1>5, LoopsAndChecksSurvive
<1>6. CASE \/ FromRequestFails \/ SnippetFails \/ HandlerFails \/ ReferenceFails
           \/ NotAnArray \/ CheckFails \/ ToResponseFails
  BY <1>6, FailuresSurvive
<1>7. CASE Snippet \/ HandlerSnippet \/ StepsDone \/ LoopDone
  BY <1>7, ResultsSurvive
<1>8. CASE NoElement \/ ToResponse
  BY <1>8, ResponsesSurvive
<1>9. CASE UNCHANGED vars
  <2>1. stack' = stack /\ answer' = answer /\ program' = program
    BY <1>9 DEF vars
  <2> QED
    BY <2>1 DEF Both, Survives, Sound, OfPipeline, KindOf
<1> QED
  BY <1>1, <1>2, <1>3, <1>4, <1>5, <1>6, <1>7, <1>8, <1>9 DEF Next

(* Steps that return nothing never lose the content: what a set, a branch, *)
(* a loop or a pipeline hands to its next step is null only where it was   *)
(* given null, and a pipeline that is given a payload never responds with  *)
(* nothing (returnOrContinueOrClear, doPerform of the step sets).          *)
THEOREM ContentAlwaysSurvives == Spec => []ContentSurvives
<1>1. Both => ContentSurvives
  <2> SUFFICES ASSUME Both
               PROVE  ContentSurvives
    OBVIOUS
  <2>1. \A i \in 1..Len(stack) : Sound(stack[i])
    BY DEF Both, Survives
  <2> QED
    BY <2>1 DEF Both, Survives, ContentSurvives, Sound, KindOf
<1>2. Init => Both
  BY Initially, SurvivesInitially DEF Both
<1> QED
  BY <1>1, <1>2, BothInvariant, PTL DEF Spec
=============================================================================
