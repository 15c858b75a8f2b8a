---------------------------- MODULE CursorStream ----------------------------
(***************************************************************************)
(* TypeOrmLoadManyBySQLUseCursorPipelineStep.doPerform, run through the    *)
(* autonomous branch of AbstractTypeOrmPipelineStep.autoTrans.             *)
(*                                                                         *)
(* Rows of a database stream are collected into batches; a full batch      *)
(* becomes a closure in the array `pipes`, which is run by whoever finds   *)
(* it at the head: the data handler, or the closure finished before it.    *)
(* Every await is a point where the stream's data, end and error events,   *)
(* the closures and the close() calls interleave.  An action is the code   *)
(* between two awaits.  A row is its position in the result set.           *)
(***************************************************************************)
EXTENDS Naturals, Sequences

CONSTANTS
  MaxRows,      (* bound: no more rows than this arrive                    *)
  FetchSize     (* getFetchSize(): the number of rows of a full batch      *)

ASSUME CursorAssumption == MaxRows \in Nat /\ FetchSize \in Nat \ {0}

VARIABLES
  options,      (* [pause, steps]: isPauseStreamEnabled(), any sub step?   *)
  source,       (* the readable stream                                     *)
  received,     (* how many rows the stream has emitted                    *)
  rows,         (* the rows collected since the last batch was cut         *)
  pipes,        (* the closures that are queued, as the batches they hold  *)
  active,       (* the closures that have been called and not returned     *)
  ending,       (* the on-end callback                                     *)
  erring,       (* the on-error callback                                   *)
  cursorRound,
  results,
  outcome,      (* the promise doPerform waits for                         *)
  runner,       (* the query runner autoTrans created                      *)
  handed,       (* history: the rows given to streamTo, in order           *)
  rounds        (* history: the context values given to the sub steps      *)

vars == <<options, source, received, rows, pipes, active, ending, erring,
          cursorRound, results, outcome, runner, handed, rounds>>

SourceStates == {"opening", "unopened", "flowing", "paused",
                 "ended", "errored", "destroyed"}
CallbackStates == {"no", "closing", "done"}
Phases == {"streamTo", "subSteps", "closing"}

Batch == [rows : Seq(Nat), end : BOOLEAN]
Call == [batch : Batch, phase : Phases]

Init ==
  /\ options \in [pause : BOOLEAN, steps : BOOLEAN]
  /\ source = "opening"
  /\ received = 0
  /\ rows = <<>>
  /\ pipes = <<>>
  /\ active = {}
  /\ ending = "no"
  /\ erring = "no"
  /\ cursorRound = 0
  /\ results = <<>>
  /\ outcome = "pending"
  /\ runner = "held"
  /\ handed = <<>>
  /\ rounds = <<>>
-----------------------------------------------------------------------------
(* A promise settles once: a later resolve or reject has no effect. *)
Settle(how) == outcome' = IF outcome = "pending" THEN how ELSE outcome

(* The closures of `others` keep running and the one that holds b is called: *)
(* up to its first await it only hands the batch's rows to streamTo.         *)
CallAlso(others, b) ==
  /\ active' = others \union {[batch |-> b, phase |-> "streamTo"]}
  /\ handed' = handed \o b.rows

(* destroy() stops a stream that may still emit. *)
Destroyed == IF source \in {"flowing", "paused"} THEN "destroyed" ELSE source
-----------------------------------------------------------------------------
(* runner.stream(sql, params, ...) *)
OpenStream ==
  /\ source = "opening"
  /\ source' = "flowing"
  /\ UNCHANGED <<options, received, rows, pipes, active, ending, erring,
                 cursorRound, results, outcome, runner, handed, rounds>>

(* runner.stream rejects, read() rejects with it, and nobody waits for the *)
(* promise that read() returned: neither resolve nor reject is called.     *)
OpenFails ==
  /\ source = "opening"
  /\ source' = "unopened"
  /\ UNCHANGED <<options, received, rows, pipes, active, ending, erring,
                 cursorRound, results, outcome, runner, handed, rounds>>

RowArrives == source = "flowing" /\ received < MaxRows /\ received' = received + 1

Collected == Append(rows, received + 1)

(* on('data'), the batch is not full yet; a pause is undone at once. *)
CollectRow ==
  /\ RowArrives
  /\ Len(Collected) < FetchSize
  /\ rows' = Collected
  /\ UNCHANGED <<options, source, pipes, active, ending, erring, cursorRound,
                 results, outcome, runner, handed, rounds>>

(* Mutant: the rows of a batch are not taken out of the buffer. *)
KeepRows == rows' = Collected

(* rows.length = 0 *)
ClearRows == rows' = <<>>

(* The handler that runs a batch resumes the stream only after it. *)
PausedMeanwhile == IF options.pause THEN "paused" ELSE "flowing"

(* on('data'), the batch is full: it is queued, and run when it is alone. *)
CutBatchBody(alone) ==
  /\ RowArrives
  /\ Len(Collected) >= FetchSize
  /\ ClearRows
  /\ LET b == [rows |-> Collected, end |-> FALSE] IN
     /\ pipes' = Append(pipes, b)
     /\ IF alone
        THEN /\ CallAlso(active, b)
             /\ source' = PausedMeanwhile
        ELSE UNCHANGED <<source, active, handed>>
  /\ UNCHANGED <<options, ending, erring, cursorRound, results, outcome,
                 runner, rounds>>

(* Mutant: the batch is run whether or not another one is being run. *)
CutBatchEager == CutBatchBody(TRUE)

CutBatch == CutBatchBody(Len(pipes) = 0)

(* on('end'): the stream is closed, then the callback goes on in AfterEnd. *)
EndOfRows ==
  /\ source \in {"flowing", "paused"}
  /\ source' = "ended"
  /\ ending' = "closing"
  /\ UNCHANGED <<options, received, rows, pipes, active, erring, cursorRound,
                 results, outcome, runner, handed, rounds>>

(* The remaining rows, none perhaps, are the last batch: queued behind the *)
(* batches that are not finished, or run directly and never queued.        *)
LastBatch(queue) ==
  /\ ending = "closing"
  /\ ending' = "done"
  /\ rows' = <<>>
  /\ LET b == [rows |-> rows, end |-> TRUE] IN
     IF queue
     THEN pipes' = Append(pipes, b) /\ UNCHANGED <<active, handed>>
     ELSE CallAlso(active, b) /\ UNCHANGED pipes
  /\ UNCHANGED <<options, source, received, erring, cursorRound, results,
                 outcome, runner, rounds>>

(* Mutant: the last batch does not wait for the batches in the queue. *)
AfterEndAtOnce == LastBatch(FALSE)

AfterEnd == LastBatch(pipes # <<>>)

(* on('error') *)
StreamError ==
  /\ source \in {"flowing", "paused"}
  /\ source' = "errored"
  /\ erring' = "closing"
  /\ UNCHANGED <<options, received, rows, pipes, active, ending, cursorRound,
                 results, outcome, runner, handed, rounds>>

AfterError ==
  /\ erring = "closing"
  /\ erring' = "done"
  /\ Settle("rejected")
  /\ UNCHANGED <<options, source, received, rows, pipes, active, ending,
                 cursorRound, results, runner, handed, rounds>>
-----------------------------------------------------------------------------
(* streamTo has returned, the sub steps are given the round and the end    *)
(* indicator.                                                              *)
StreamedTo(c) ==
  /\ c.phase = "streamTo"
  /\ options.steps
  /\ active' = (active \ {c}) \union {[c EXCEPT !.phase = "subSteps"]}
  /\ rounds' = Append(rounds, [round |-> cursorRound, end |-> c.batch.end])
  /\ UNCHANGED <<options, source, received, rows, pipes, ending, erring,
                 cursorRound, results, outcome, runner, handed>>

(* The content of the batch is there: from the sub steps, or from streamTo *)
(* when the step has none.                                                 *)
ContentReady(c) == c.phase = IF options.steps THEN "subSteps" ELSE "streamTo"

(* Content that is null is not added to the results. *)
Collect(c) == results' = results \/ results' = results \o c.batch.rows

NextRound == cursorRound' = cursorRound + 1

(* Mutant: the closure that finished is dropped, the one behind it not run. *)
ShiftOnly(c) ==
  /\ pipes' = Tail(pipes)
  /\ active' = active \ {c}
  /\ UNCHANGED handed

(* A closure returns: drop the finished one, run the new head if any. *)
ShiftAndRun(c) ==
  /\ pipes' = Tail(pipes)
  /\ IF Tail(pipes) # <<>>
     THEN CallAlso(active \ {c}, Head(Tail(pipes)))
     ELSE active' = active \ {c} /\ UNCHANGED handed

(* The handler that paused the stream has waited for this batch. *)
Resumed == IF source = "paused" THEN "flowing" ELSE source

BatchDone(c) ==
  /\ ContentReady(c)
  /\ ~c.batch.end
  /\ NextRound
  /\ Collect(c)
  /\ ShiftAndRun(c)
  /\ source' = Resumed
  /\ UNCHANGED <<options, received, rows, ending, erring, outcome, runner,
                 rounds>>

LastBatchDone(c) ==
  /\ ContentReady(c)
  /\ c.batch.end
  /\ NextRound
  /\ Collect(c)
  /\ active' = active \ {c}
  /\ Settle("resolved")
  /\ UNCHANGED <<options, source, received, rows, pipes, ending, erring,
                 runner, handed, rounds>>

(* streamTo or the sub steps reject: the stream is closed, and after that  *)
(* the closure returns in BatchRejected; the closure stays in the queue,   *)
(* so that no batch behind it is ever run.                                 *)
BatchFails(c) ==
  /\ c.phase \in {"streamTo", "subSteps"}
  /\ ~c.batch.end
  /\ source' = Destroyed
  /\ active' = (active \ {c}) \union {[c EXCEPT !.phase = "closing"]}
  /\ UNCHANGED <<options, received, rows, pipes, ending, erring, cursorRound,
                 results, outcome, runner, handed, rounds>>

(* Mutant: a closure that failed is dropped like one that succeeded. *)
RejectAndRun(c) ==
  /\ c.phase = "closing"
  /\ Settle("rejected")
  /\ ShiftAndRun(c)
  /\ UNCHANGED <<options, source, received, rows, ending, erring,
                 cursorRound, results, runner, rounds>>

BatchRejected(c) ==
  /\ c.phase = "closing"
  /\ Settle("rejected")
  /\ active' = active \ {c}
  /\ UNCHANGED <<options, source, received, rows, pipes, ending, erring,
                 cursorRound, results, runner, handed, rounds>>

LastBatchFails(c) ==
  /\ c.phase \in {"streamTo", "subSteps"}
  /\ c.batch.end
  /\ Settle("rejected")
  /\ active' = active \ {c}
  /\ UNCHANGED <<options, source, received, rows, pipes, ending, erring,
                 cursorRound, results, runner, handed, rounds>>

(* autoTrans, finally *)
ReleaseRunner ==
  /\ outcome # "pending"
  /\ runner = "held"
  /\ runner' = "released"
  /\ UNCHANGED <<options, source, received, rows, pipes, active, ending,
                 erring, cursorRound, results, outcome, handed, rounds>>
-----------------------------------------------------------------------------
Emits == CollectRow \/ CutBatch \/ EndOfRows \/ StreamError

Callback ==
  \/ AfterEnd
  \/ AfterError
  \/ \E c \in active : BatchRejected(c)

Batches ==
  \E c \in active :
     \/ StreamedTo(c)
     \/ BatchDone(c)
     \/ LastBatchDone(c)
     \/ BatchFails(c)
     \/ LastBatchFails(c)

Next ==
  \/ OpenStream
  \/ OpenFails
  \/ Emits
  \/ Callback
  \/ Batches
  \/ ReleaseRunner

Spec == Init /\ [][Next]_vars

(* The driver answers, a flowing stream emits a row, its end or an error   *)
(* as long as it flows, the continuations that wait for close() run, and   *)
(* streamTo and the sub steps settle.                                      *)
Fairness ==
  /\ WF_vars(OpenStream \/ OpenFails)
  /\ WF_vars(source = "flowing" /\ Emits)
  /\ WF_vars(Callback)
  /\ WF_vars(Batches)
  /\ WF_vars(ReleaseRunner)

FairSpec == Spec /\ Fairness
-----------------------------------------------------------------------------
(* The state of the cursor load: the closures and the stream they share. *)
TypeOK ==
  /\ options \in [pause : BOOLEAN, steps : BOOLEAN]
  /\ source \in SourceStates
  /\ received \in Nat
  /\ rows \in Seq(Nat)
  /\ pipes \in Seq(Batch)
  /\ active \subseteq Call
  /\ ending \in CallbackStates
  /\ erring \in CallbackStates
  /\ cursorRound \in Nat
  /\ results \in Seq(Nat)
  /\ outcome \in {"pending", "resolved", "rejected"}
  /\ runner \in {"held", "released"}
  /\ handed \in Seq(Nat)
  /\ rounds \in Seq([round : Nat, end : BOOLEAN])

(* Two batches never run at the same time, whichever of the data handler,  *)
(* the end handler and the closure before them starts them: the sub steps  *)
(* of a batch find those of the one before finished.                       *)
OneBatchAtATime == \A c, d \in active : c = d

(* The sub steps see the rounds 0, 1, 2, ... although cursorRound is read  *)
(* after an await and counted after another, and the end indicator is true *)
(* for no batch but the last one they ever see.                            *)
RoundsInOrder ==
  \A i \in 1..Len(rounds) :
     rounds[i].round = i - 1 /\ (rounds[i].end => i = Len(rounds))

(* Once doPerform has resolved, every row that arrived has been handed     *)
(* over, no batch is running or will run, and the last context the sub     *)
(* steps saw carried the end indicator.                                    *)
CompleteWhenResolved ==
  outcome = "resolved" =>
     /\ handed = [i \in 1..received |-> i]
     /\ active = {}
     /\ options.steps => rounds # <<>> /\ rounds[Len(rounds)].end

(* With pausing enabled no full batch waits behind another: what the step  *)
(* keeps in memory is one batch and the rows of the last one.              *)
BoundedWhenPausing ==
  options.pause => Len(pipes) <= 2 /\ (Len(pipes) = 2 => pipes[2].end)

(* A batch that failed stays at the head of the queue and fences off the   *)
(* batches behind it, while the stream is being closed and ever after: no  *)
(* closure is called unless the head has succeeded.                        *)
FailureFencesQueue ==
  [][(pipes # <<>> /\ \A c \in active : c.phase = "closing")
       => active' \subseteq active]_vars

(* The cursor load is an ordered delivery of the rows. *)
Delivery == INSTANCE OrderedDelivery WITH emitted <- received, delivered <- handed

DeliversInOrder == Delivery!Spec

(* Once the stream is open the promise settles: no order of the events     *)
(* leaves a batch waiting for a closure that is never called, or a paused  *)
(* stream for a resume.                                                    *)
SettlesOnceOpen ==
  (source \notin {"opening", "unopened"}) ~> (outcome # "pending")
=============================================================================
