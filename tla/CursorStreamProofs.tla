-------------------------- MODULE CursorStreamProofs --------------------------
(***************************************************************************)
(* Proofs about CursorStream for every FetchSize and every bound MaxRows.  *)
(***************************************************************************)
EXTENDS CursorStreamInv, SequenceTheorems, TLAPS

-----------------------------------------------------------------------------
(* Sequences, as the steps use them. *)

LEMMA AppendFacts ==
  ASSUME NEW S, NEW s \in Seq(S), NEW e \in S
  PROVE  /\ Append(s, e) \in Seq(S)
         /\ Len(Append(s, e)) = Len(s) + 1
         /\ \A i \in 1..Len(s) : Append(s, e)[i] = s[i]
         /\ Append(s, e)[Len(s) + 1] = e
  OBVIOUS

LEMMA TailFacts ==
  ASSUME NEW S, NEW s \in Seq(S), s # <<>>
  PROVE  /\ Head(s) \in S
         /\ Head(s) = s[1]
         /\ Tail(s) \in Seq(S)
         /\ Len(s) \in Nat \ {0}
         /\ Len(Tail(s)) = Len(s) - 1
         /\ Tail(s) # <<>> <=> Len(s) > 1
         /\ \A i \in 1..(Len(s) - 1) : Tail(s)[i] = s[i + 1]
  BY HeadTailProperties, EmptySeq

(* A closure of `active` and the batch it holds have their types. *)
LEMMA CallParts ==
  ASSUME NEW c \in Call
  PROVE  /\ c.batch \in Batch
         /\ c.batch.rows \in Seq(Nat)
         /\ c.batch.end \in BOOLEAN
         /\ c.phase \in Phases
         /\ c = [batch |-> c.batch, phase |-> c.phase]
  BY DEF Call, Batch

LEMMA NewCall ==
  ASSUME NEW b \in Batch, NEW p \in Phases
  PROVE  [batch |-> b, phase |-> p] \in Call
  BY DEF Call

LEMMA MovedCall ==
  ASSUME NEW c \in Call, NEW p \in Phases
  PROVE  /\ [c EXCEPT !.phase = p] \in Call
         /\ [c EXCEPT !.phase = p].batch = c.batch
         /\ [c EXCEPT !.phase = p].phase = p
  BY DEF Call

LEMMA BatchParts ==
  ASSUME NEW b \in Batch
  PROVE  b.rows \in Seq(Nat) /\ b.end \in BOOLEAN
  BY DEF Batch

(* The two batches the handlers build. *)
LEMMA CutBatches ==
  ASSUME TypeOK, NEW e \in BOOLEAN
  PROVE  /\ Collected \in Seq(Nat)
         /\ [rows |-> Collected, end |-> e] \in Batch
         /\ [rows |-> rows, end |-> e] \in Batch
  <1>1. Collected \in Seq(Nat)
    BY AppendFacts DEF Collected, TypeOK
  <1> QED
    BY <1>1 DEF Batch, TypeOK

(* What calling a closure does, and shifting the queue and calling the next. *)
LEMMA CallAlsoType ==
  ASSUME TypeOK, NEW others \in SUBSET Call, NEW b \in Batch, CallAlso(others, b)
  PROVE  active' \subseteq Call /\ handed' \in Seq(Nat)
  <1>1. handed \in Seq(Nat) /\ b.rows \in Seq(Nat)
    BY BatchParts DEF TypeOK
  <1>2. handed' \in Seq(Nat)
    BY <1>1, ConcatProperties DEF CallAlso
  <1>3. [batch |-> b, phase |-> "streamTo"] \in Call
    BY NewCall DEF Phases
  <1> QED
    BY <1>2, <1>3 DEF CallAlso

LEMMA ShiftAndRunType ==
  ASSUME TypeOK, pipes # <<>>, NEW c \in active, ShiftAndRun(c)
  PROVE  pipes' \in Seq(Batch) /\ active' \subseteq Call /\ handed' \in Seq(Nat)
  <1>1. pipes \in Seq(Batch) /\ active \ {c} \in SUBSET Call
    BY DEF TypeOK
  <1>2. Tail(pipes) \in Seq(Batch)
    BY <1>1, TailFacts
  <1>3. CASE Tail(pipes) # <<>>
    <2>1. Head(Tail(pipes)) \in Batch
      BY <1>2, <1>3, TailFacts
    <2>2. CallAlso(active \ {c}, Head(Tail(pipes)))
      BY <1>3 DEF ShiftAndRun
    <2> QED
      BY <1>1, <1>2, <2>1, <2>2, CallAlsoType DEF ShiftAndRun
  <1>4. CASE Tail(pipes) = <<>>
    BY <1>1, <1>2, <1>4 DEF ShiftAndRun, TypeOK
  <1> QED
    BY <1>3, <1>4

LEMMA CollectType ==
  ASSUME TypeOK, NEW c \in active, Collect(c)
  PROVE  results' \in Seq(Nat)
  <1>1. results \in Seq(Nat) /\ c.batch.rows \in Seq(Nat)
    BY CallParts DEF TypeOK
  <1> QED
    BY <1>1, ConcatProperties DEF Collect
-----------------------------------------------------------------------------
(* Types are kept; that the queue is not empty when a closure shifts it is *)
(* where the types need HeadRuns.                                          *)
LEMMA TypeStep ==
  ASSUME TypeOK, HeadRuns, [Next]_vars
  PROVE  TypeOK'
<1> USE CursorAssumption
<1>1. CASE OpenStream \/ OpenFails
  BY <1>1 DEF OpenStream, OpenFails, SourceStates, TypeOK
<1>2. CASE CollectRow
  <2>1. rows' \in Seq(Nat)
    BY <1>2, CutBatches DEF CollectRow
  <2> QED
    BY <1>2, <2>1 DEF CollectRow, RowArrives, TypeOK
<1>3. CASE CutBatch
  <2> DEFINE b == [rows |-> Collected, end |-> FALSE]
  <2>1. b \in Batch
    BY CutBatches
  <2>2. pipes' \in Seq(Batch)
    BY <1>3, <2>1, AppendFacts DEF CutBatch, CutBatchBody, TypeOK
  <2>3. source' \in SourceStates
    BY <1>3 DEF CutBatch, CutBatchBody, PausedMeanwhile, SourceStates, TypeOK
  <2>4. active' \subseteq Call /\ handed' \in Seq(Nat)
    <3>1. CASE Len(pipes) = 0
      <4>1. CallAlso(active, b)
        BY <1>3, <3>1 DEF CutBatch, CutBatchBody
      <4> QED
        BY <4>1, <2>1, CallAlsoType DEF TypeOK
    <3>2. CASE Len(pipes) # 0
      BY <1>3, <3>2 DEF CutBatch, CutBatchBody, TypeOK
    <3> QED
      BY <3>1, <3>2
  <2>5. received' \in Nat /\ rows' \in Seq(Nat)
    BY <1>3 DEF CutBatch, CutBatchBody, RowArrives, ClearRows, TypeOK
  <2> QED
    BY <1>3, <2>2, <2>3, <2>4, <2>5 DEF CutBatch, CutBatchBody, TypeOK
<1>4. CASE EndOfRows \/ StreamError
  BY <1>4 DEF EndOfRows, StreamError, SourceStates, CallbackStates, TypeOK
<1>5. CASE AfterEnd
  <2> DEFINE b == [rows |-> rows, end |-> TRUE]
  <2>1. b \in Batch
    BY CutBatches
  <2>2. CASE pipes = <<>>
    <3>1. CallAlso(active, b)
      BY <1>5, <2>2 DEF AfterEnd, LastBatch
    <3>2. active' \subseteq Call /\ handed' \in Seq(Nat)
      BY <3>1, <2>1, CallAlsoType DEF TypeOK
    <3> QED
      BY <1>5, <2>2, <3>2 DEF AfterEnd, LastBatch, CallbackStates, TypeOK
  <2>3. CASE pipes # <<>>
    <3>1. pipes' = Append(pipes, b) /\ pipes \in Seq(Batch)
      BY <1>5, <2>3 DEF AfterEnd, LastBatch, TypeOK
    <3>2. pipes' \in Seq(Batch)
      BY <3>1, <2>1, AppendFacts
    <3> QED
      BY <1>5, <2>3, <3>2 DEF AfterEnd, LastBatch, CallbackStates, TypeOK
  <2> QED
    BY <2>2, <2>3
<1>6. CASE AfterError
  BY <1>6 DEF AfterError, Settle, CallbackStates, TypeOK
<1>7. ASSUME NEW c \in active, BatchRejected(c) PROVE TypeOK'
  BY <1>7 DEF BatchRejected, Settle, TypeOK
<1>8. ASSUME NEW c \in active, StreamedTo(c) PROVE TypeOK'
  <2> DEFINE r == [round |-> cursorRound, end |-> c.batch.end]
  <2>1. c \in Call /\ c.batch.end \in BOOLEAN
    BY CallParts DEF TypeOK
  <2>2. [c EXCEPT !.phase = "subSteps"] \in Call
    BY <2>1, MovedCall DEF Phases
  <2>3. active' \subseteq Call
    BY <1>8, <2>2 DEF StreamedTo, TypeOK
  <2>4. r \in [round : Nat, end : BOOLEAN]
    BY <2>1 DEF TypeOK
  <2>5. rounds' \in Seq([round : Nat, end : BOOLEAN])
    BY <1>8, <2>4, AppendFacts DEF StreamedTo, TypeOK
  <2> QED
    BY <1>8, <2>3, <2>5 DEF StreamedTo, TypeOK
<1>9. ASSUME NEW c \in active, BatchDone(c) PROVE TypeOK'
  <2>1. pipes # <<>>
    BY <1>9 DEF BatchDone, HeadRuns
  <2>2. pipes' \in Seq(Batch) /\ active' \subseteq Call /\ handed' \in Seq(Nat)
    BY <1>9, <2>1, ShiftAndRunType DEF BatchDone
  <2>3. results' \in Seq(Nat)
    BY <1>9, CollectType DEF BatchDone
  <2>4. source' \in SourceStates /\ cursorRound' \in Nat
    BY <1>9 DEF BatchDone, Resumed, NextRound, SourceStates, TypeOK
  <2> QED
    BY <1>9, <2>2, <2>3, <2>4 DEF BatchDone, TypeOK
<1>10. ASSUME NEW c \in active, LastBatchDone(c) PROVE TypeOK'
  <2>1. results' \in Seq(Nat)
    BY <1>10, CollectType DEF LastBatchDone
  <2> QED
    BY <1>10, <2>1 DEF LastBatchDone, NextRound, Settle, TypeOK
<1>11. ASSUME NEW c \in active, BatchFails(c) PROVE TypeOK'
  <2>1. [c EXCEPT !.phase = "closing"] \in Call
    BY MovedCall DEF Phases, TypeOK
  <2> QED
    BY <1>11, <2>1 DEF BatchFails, Destroyed, SourceStates, TypeOK
<1>12. ASSUME NEW c \in active, LastBatchFails(c) PROVE TypeOK'
  BY <1>12 DEF LastBatchFails, Settle, TypeOK
<1>13. CASE ReleaseRunner
  BY <1>13 DEF ReleaseRunner, TypeOK
<1>14. CASE UNCHANGED vars
  BY <1>14 DEF vars, TypeOK
<1> QED
  BY <1>1, <1>2, <1>3, <1>4, <1>5, <1>6, <1>7, <1>8, <1>9, <1>10, <1>11, <1>12, <1>13, <1>14
     DEF Next, Emits, Callback, Batches
-----------------------------------------------------------------------------
(* What the three actions that start a closure do, given the shape. *)

(* With an empty queue and no last batch cut, no closure runs. *)
LEMMA IdleQueue ==
  ASSUME TypeOK, HeadRuns, ending # "done"
  PROVE  /\ pipes = <<>> => active = {}
         /\ \A c \in active : ~c.batch.end
  BY CallParts DEF HeadRuns, TypeOK

LEMMA CutEffect ==
  ASSUME TypeOK, Shape, CutBatch, NEW b, b = [rows |-> Collected, end |-> FALSE]
  PROVE  /\ ending = "no" /\ ending' = "no"
         /\ source = "flowing"
         /\ pipes' = Append(pipes, b)
         /\ pipes = <<>> => /\ active' = {[batch |-> b, phase |-> "streamTo"]}
                            /\ handed' = handed \o Collected
                            /\ source' = PausedMeanwhile
         /\ pipes # <<>> => UNCHANGED <<source, active, handed>>
  <1>1. ending = "no" /\ ending' = "no" /\ source = "flowing" /\ pipes' = Append(pipes, b)
    BY DEF CutBatch, CutBatchBody, RowArrives, Shape, EventShape
  <1>2. pipes \in Seq(Batch) /\ (pipes = <<>> <=> Len(pipes) = 0)
    BY EmptySeq DEF TypeOK
  <1>3. pipes = <<>> => active = {}
    BY <1>1, IdleQueue DEF Shape
  <1>4. CASE pipes = <<>>
    BY <1>1, <1>2, <1>3, <1>4 DEF CutBatch, CutBatchBody, CallAlso
  <1>5. CASE pipes # <<>>
    BY <1>1, <1>2, <1>5 DEF CutBatch, CutBatchBody
  <1> QED
    BY <1>1, <1>4, <1>5

LEMMA LastEffect ==
  ASSUME TypeOK, Shape, AfterEnd, NEW b, b = [rows |-> rows, end |-> TRUE]
  PROVE  /\ ending = "closing" /\ ending' = "done" /\ source = "ended"
         /\ pipes = <<>> => /\ active' = {[batch |-> b, phase |-> "streamTo"]}
                            /\ handed' = handed \o rows
                            /\ pipes' = <<>>
         /\ pipes # <<>> => pipes' = Append(pipes, b) /\ UNCHANGED <<active, handed>>
  <1>1. ending = "closing" /\ ending' = "done" /\ source = "ended"
    BY DEF AfterEnd, LastBatch, Shape, EventShape
  <1>2. pipes = <<>> => active = {}
    BY <1>1, IdleQueue DEF Shape
  <1> QED
    BY <1>1, <1>2 DEF AfterEnd, LastBatch, CallAlso

LEMMA ShiftEffect ==
  ASSUME TypeOK, Shape, NEW c \in active, ~c.batch.end, ShiftAndRun(c)
  PROVE  /\ pipes \in Seq(Batch) /\ pipes # <<>> /\ pipes[1] = c.batch
         /\ active = {c}
         /\ Len(pipes) \in Nat \ {0} /\ Len(pipes') = Len(pipes) - 1
         /\ \A i \in 1..(Len(pipes) - 1) : pipes'[i] = pipes[i + 1]
         /\ Len(pipes) = 1 => pipes' = <<>> /\ active' = {} /\ handed' = handed
         /\ Len(pipes) > 1 => /\ pipes' # <<>>
                              /\ pipes[2] \in Batch
                              /\ active' = {[batch |-> pipes[2], phase |-> "streamTo"]}
                              /\ handed' = handed \o pipes[2].rows
  <1>1. pipes \in Seq(Batch) /\ pipes # <<>> /\ pipes[1] = c.batch /\ active = {c}
    BY DEF Shape, HeadRuns, OneBatchAtATime, TypeOK
  <1>2. pipes' = Tail(pipes)
    BY DEF ShiftAndRun
  <1>3. /\ Len(pipes) \in Nat \ {0} /\ Len(pipes') = Len(pipes) - 1
        /\ pipes' \in Seq(Batch)
        /\ pipes' # <<>> <=> Len(pipes) > 1
        /\ \A i \in 1..(Len(pipes) - 1) : pipes'[i] = pipes[i + 1]
    BY <1>1, <1>2, TailFacts
  <1>4. CASE Len(pipes) > 1
    <2>1. pipes[2] \in Batch /\ pipes'[1] = pipes[2]
      BY <1>1, <1>3, <1>4, ElementOfSeq
    <2>2. pipes' # <<>>
      BY <1>3, <1>4
    <2>3. Head(pipes') = pipes'[1]
      BY <1>3, <2>2, TailFacts
    <2>4. CallAlso(active \ {c}, pipes[2])
      BY <1>2, <2>1, <2>2, <2>3 DEF ShiftAndRun
    <2>5. active' = {[batch |-> pipes[2], phase |-> "streamTo"]}
      BY <1>1, <2>4 DEF CallAlso
    <2>6. handed' = handed \o pipes[2].rows
      BY <2>4 DEF CallAlso
    <2> QED
      BY <1>1, <1>3, <1>4, <2>1, <2>2, <2>5, <2>6
  <1>5. CASE Len(pipes) = 1
    BY <1>1, <1>2, <1>3, <1>5 DEF ShiftAndRun
  <1> QED
    BY <1>1, <1>3, <1>4, <1>5
-----------------------------------------------------------------------------
(* The buffer stays short of a batch and holds the rows that arrived last. *)
LEMMA BufferStep ==
  ASSUME TypeOK, BufferShape, EventShape, [Next]_vars
  PROVE  BufferShape'
<1> USE CursorAssumption
<1>1. rows \in Seq(Nat) /\ Len(rows) \in Nat /\ received \in Nat
  BY LenProperties DEF TypeOK
<1>2. CASE CollectRow
  <2>1. rows' = Append(rows, received + 1) /\ received' = received + 1
    BY <1>2 DEF CollectRow, RowArrives, Collected
  <2>2. /\ Len(rows') = Len(rows) + 1
        /\ \A k \in 1..Len(rows) : rows'[k] = rows[k]
        /\ rows'[Len(rows) + 1] = received + 1
    BY <1>1, <2>1, AppendFacts
  <2>3. Len(rows') < FetchSize /\ ending' # "done"
    BY <1>2 DEF CollectRow, RowArrives, EventShape
  <2> QED
    BY <1>1, <2>1, <2>2, <2>3 DEF BufferShape
<1>3. CASE CutBatch
  <2>1. rows' = <<>> /\ received' = received + 1
    BY <1>3 DEF CutBatch, CutBatchBody, RowArrives, ClearRows
  <2> QED
    BY <1>1, <2>1 DEF BufferShape
<1>4. CASE AfterEnd
  <2>1. rows' = <<>> /\ received' = received
    BY <1>4 DEF AfterEnd, LastBatch
  <2> QED
    BY <1>1, <2>1 DEF BufferShape
<1>5. CASE EndOfRows
  BY <1>5 DEF EndOfRows, BufferShape
<1>6. UNCHANGED <<rows, received, ending>> => BufferShape'
  BY DEF BufferShape
<1>7. CASE OpenStream \/ OpenFails \/ StreamError \/ AfterError \/ ReleaseRunner \/ UNCHANGED vars
  BY <1>6, <1>7 DEF OpenStream, OpenFails, StreamError, AfterError, ReleaseRunner, vars
<1>8. CASE \E c \in active : BatchRejected(c)
  BY <1>6, <1>8 DEF BatchRejected
<1>9. CASE Batches
  BY <1>6, <1>9 DEF Batches, StreamedTo, BatchDone, LastBatchDone, BatchFails, LastBatchFails
<1> QED
  BY <1>2, <1>3, <1>4, <1>5, <1>7, <1>8, <1>9 DEF Next, Emits, Callback

(* The shape of the queue and of the running closures is kept. *)
LEMMA ShapeStep ==
  ASSUME TypeOK, Shape, [Next]_vars
  PROVE  Shape'
<1> USE CursorAssumption
<1>0. BufferShape'
  BY BufferStep DEF Shape
<1>q. /\ pipes \in Seq(Batch) /\ Len(pipes) \in Nat
      /\ \A i \in 1..Len(pipes) : pipes[i] \in Batch
      /\ pipes = <<>> <=> Len(pipes) = 0
  BY LenProperties, ElementOfSeq, EmptySeq DEF TypeOK
<1>1. CASE OpenStream \/ OpenFails
  BY <1>0, <1>1 DEF OpenStream, OpenFails, Shape, HeadRuns, OneBatchAtATime, QueueShape, EventShape
<1>2. CASE CollectRow
  BY <1>0, <1>2 DEF CollectRow, RowArrives, Shape, HeadRuns, OneBatchAtATime, QueueShape, EventShape
<1>3. CASE CutBatch
  <2> DEFINE b == [rows |-> Collected, end |-> FALSE]
  <2>1. b \in Batch /\ Len(b.rows) = FetchSize
    <3>1. Len(Collected) = Len(rows) + 1 /\ Len(rows) \in Nat
      BY AppendFacts, LenProperties DEF Collected, TypeOK
    <3>2. Len(Collected) >= FetchSize /\ Len(rows) < FetchSize
      BY <1>3 DEF CutBatch, CutBatchBody, Shape, BufferShape
    <3>3. Len(Collected) = FetchSize
      BY <3>1, <3>2
    <3> QED
      BY <3>3, CutBatches
  <2>2. /\ pipes' = Append(pipes, b) /\ pipes' # <<>>
        /\ Len(pipes') = Len(pipes) + 1
        /\ \A i \in 1..Len(pipes) : pipes'[i] = pipes[i]
        /\ pipes'[Len(pipes) + 1] = b
    BY <1>3, <1>q, <2>1, CutEffect, AppendFacts
  <2>3. ending = "no" /\ ending' = "no" /\ source = "flowing" /\ UNCHANGED <<options, erring>>
    BY <1>3, CutEffect DEF CutBatch, CutBatchBody
  <2>4. QueueShape'
    BY <1>q, <2>1, <2>2, <2>3 DEF Shape, QueueShape
  <2>5. CASE pipes = <<>>
    <3>1. active' = {[batch |-> b, phase |-> "streamTo"]} /\ source' = PausedMeanwhile
      BY <1>3, <2>5, CutEffect
    <3>2. HeadRuns' /\ OneBatchAtATime'
      BY <1>q, <2>2, <2>5, <3>1 DEF HeadRuns, OneBatchAtATime
    <3>3. EventShape'
      BY <1>q, <2>2, <2>3, <2>5, <3>1 DEF Shape, EventShape, PausedMeanwhile
    <3> QED
      BY <1>0, <2>4, <3>2, <3>3 DEF Shape
  <2>6. CASE pipes # <<>>
    <3>1. UNCHANGED <<source, active, handed>> /\ pipes'[1] = pipes[1]
      BY <1>3, <1>q, <2>2, <2>6, CutEffect
    <3>2. HeadRuns' /\ OneBatchAtATime'
      BY <2>2, <2>3, <3>1 DEF Shape, HeadRuns, OneBatchAtATime
    <3>3. EventShape'
      BY <2>2, <2>3, <2>6, <3>1 DEF Shape, EventShape
    <3> QED
      BY <1>0, <2>4, <3>2, <3>3 DEF Shape
  <2> QED
    BY <2>5, <2>6
<1>4. CASE EndOfRows \/ StreamError
  BY <1>0, <1>4 DEF EndOfRows, StreamError, Shape, HeadRuns, OneBatchAtATime, QueueShape, EventShape
<1>5. CASE AfterEnd
  <2> DEFINE b == [rows |-> rows, end |-> TRUE]
  <2>1. b \in Batch /\ b.end
    BY CutBatches
  <2>2. /\ ending = "closing" /\ ending' = "done" /\ source = "ended"
        /\ UNCHANGED <<options, source, received, erring>>
    BY <1>5, LastEffect DEF AfterEnd, LastBatch
  <2>3. CASE pipes = <<>>
    <3>1. active' = {[batch |-> b, phase |-> "streamTo"]} /\ pipes' = <<>>
      BY <1>5, <2>3, LastEffect
    <3>2. Len(pipes') = 0
      BY <3>1
    <3> QED
      BY <1>0, <2>1, <2>2, <3>1, <3>2
         DEF Shape, HeadRuns, OneBatchAtATime, QueueShape, EventShape
  <2>4. CASE pipes # <<>>
    <3>1. pipes' = Append(pipes, b) /\ active' = active
      BY <1>5, <2>4, LastEffect
    <3>2. /\ Len(pipes') = Len(pipes) + 1
          /\ \A i \in 1..Len(pipes) : pipes'[i] = pipes[i]
          /\ pipes'[Len(pipes) + 1] = b
      BY <1>q, <2>1, <3>1, AppendFacts
    <3>3. \A c \in active : ~c.batch.end
      BY <2>2, IdleQueue DEF Shape
    <3>4. HeadRuns' /\ OneBatchAtATime'
      BY <1>q, <2>2, <2>4, <3>1, <3>2, <3>3 DEF Shape, HeadRuns, OneBatchAtATime
    <3>5. QueueShape'
      BY <1>q, <2>1, <2>2, <3>2 DEF Shape, QueueShape
    <3>6. EventShape'
      BY <1>q, <2>1, <2>2, <2>4, <3>2 DEF Shape, EventShape
    <3> QED
      BY <1>0, <3>4, <3>5, <3>6 DEF Shape
  <2> QED
    BY <2>3, <2>4
<1>6. CASE AfterError
  BY <1>0, <1>6 DEF AfterError, Shape, HeadRuns, OneBatchAtATime, QueueShape, EventShape
<1>7. ASSUME NEW c \in active, BatchRejected(c) PROVE Shape'
  BY <1>0, <1>7 DEF BatchRejected, Shape, HeadRuns, OneBatchAtATime, QueueShape, EventShape
<1>8. ASSUME NEW c \in active, StreamedTo(c) PROVE Shape'
  <2>1. active' = {[c EXCEPT !.phase = "subSteps"]} /\ options.steps
    BY <1>8 DEF StreamedTo, Shape, OneBatchAtATime
  <2>2. \A d \in active' : d.batch = c.batch /\ d.phase = "subSteps"
    <3>1. c \in Call
      BY DEF TypeOK
    <3>2. /\ [c EXCEPT !.phase = "subSteps"].batch = c.batch
          /\ [c EXCEPT !.phase = "subSteps"].phase = "subSteps"
      BY <3>1 DEF Call
    <3> QED
      BY <2>1, <3>2
  <2>3. UNCHANGED <<options, source, received, pipes, ending, erring>>
    BY <1>8 DEF StreamedTo
  <2>4. HeadRuns' /\ OneBatchAtATime'
    BY <2>1, <2>2, <2>3 DEF Shape, HeadRuns, OneBatchAtATime
  <2> QED
    BY <1>0, <2>3, <2>4 DEF Shape, QueueShape, EventShape
<1>9. ASSUME NEW c \in active, BatchDone(c) PROVE Shape'
  <2>1. ~c.batch.end /\ ShiftAndRun(c) /\ source' = Resumed /\ UNCHANGED <<options, received, ending, erring>>
    BY <1>9 DEF BatchDone
  <2>2. /\ Len(pipes') = Len(pipes) - 1 /\ pipes # <<>>
        /\ \A i \in 1..(Len(pipes) - 1) : pipes'[i] = pipes[i + 1]
        /\ Len(pipes) = 1 => pipes' = <<>> /\ active' = {}
        /\ Len(pipes) > 1 => /\ pipes' # <<>>
                             /\ active' = {[batch |-> pipes[2], phase |-> "streamTo"]}
    BY <2>1, ShiftEffect
  <2>3. QueueShape'
    BY <1>q, <2>1, <2>2 DEF Shape, QueueShape
  <2>4. EventShape'
    BY <1>q, <2>1, <2>2 DEF Shape, EventShape, Resumed
  <2>5. HeadRuns' /\ OneBatchAtATime'
    <3>1. CASE Len(pipes) = 1
      BY <2>2, <3>1 DEF HeadRuns, OneBatchAtATime
    <3>2. CASE Len(pipes) > 1
      <4>1. pipes'[1] = pipes[2] /\ pipes[2] \in Batch
        BY <1>q, <2>2, <3>2
      <4>2. pipes[2].end => Len(pipes) = 2 /\ ending = "done"
        <5>1. 2 \in 1..Len(pipes)
          BY <1>q, <3>2
        <5>2. pipes[2].end => 2 = Len(pipes) /\ ending = "done"
          BY <5>1, Zenon DEF Shape, QueueShape
        <5> QED
          BY <5>2
      <4>3. pipes[2].end \in BOOLEAN
        BY <4>1, BatchParts
      <4>4. \A d \in active' : d.batch = pipes[2] /\ d.phase = "streamTo"
        BY <2>2, <3>2
      <4>5. OneBatchAtATime'
        BY <2>2, <3>2 DEF OneBatchAtATime
      <4>6. Len(pipes) = 2 => Len(pipes') <= 1
        BY <2>2
      <4>7. HeadRuns'
        BY <2>1, <2>2, <3>2, <4>1, <4>2, <4>4, <4>6 DEF HeadRuns
      <4> QED
        BY <4>5, <4>7
    <3> QED
      BY <1>q, <2>2, <3>1, <3>2
  <2> QED
    BY <1>0, <2>3, <2>4, <2>5 DEF Shape
<1>10. ASSUME NEW c \in active, LastBatchDone(c) \/ LastBatchFails(c) PROVE Shape'
  BY <1>0, <1>10
     DEF LastBatchDone, LastBatchFails, Shape, HeadRuns, OneBatchAtATime, QueueShape, EventShape
<1>11. ASSUME NEW c \in active, BatchFails(c) PROVE Shape'
  <2>1. active' = {[c EXCEPT !.phase = "closing"]} /\ ~c.batch.end
    BY <1>11 DEF BatchFails, Shape, OneBatchAtATime
  <2>2. \A d \in active' : d.batch = c.batch /\ d.phase = "closing"
    <3>1. c \in Call
      BY DEF TypeOK
    <3>2. /\ [c EXCEPT !.phase = "closing"].batch = c.batch
          /\ [c EXCEPT !.phase = "closing"].phase = "closing"
      BY <3>1 DEF Call
    <3> QED
      BY <2>1, <3>2
  <2>3. source' = Destroyed /\ UNCHANGED <<options, received, pipes, ending, erring>>
    BY <1>11 DEF BatchFails
  <2>4. HeadRuns' /\ OneBatchAtATime'
    BY <2>1, <2>2, <2>3 DEF Shape, HeadRuns, OneBatchAtATime
  <2>5. EventShape'
    BY <2>3 DEF Shape, EventShape, Destroyed
  <2> QED
    BY <1>0, <2>3, <2>4, <2>5 DEF Shape, QueueShape
<1>12. CASE ReleaseRunner
  BY <1>0, <1>12 DEF ReleaseRunner, Shape, HeadRuns, OneBatchAtATime, QueueShape, EventShape
<1>13. CASE UNCHANGED vars
  BY <1>0, <1>13 DEF vars, Shape, HeadRuns, OneBatchAtATime, QueueShape, EventShape
<1> QED
  BY <1>1, <1>2, <1>3, <1>4, <1>5, <1>6, <1>7, <1>8, <1>9, <1>10, <1>11, <1>12, <1>13
     DEF Next, Emits, Callback, Batches
-----------------------------------------------------------------------------
(* Rows that continue the ones handed over are handed over in order. *)
LEMMA HandOver ==
  ASSUME NEW h \in Seq(Nat), NEW r \in Seq(Nat), NEW g, g = h \o r,
         \A i \in 1..Len(h) : h[i] = i,
         \A k \in 1..Len(r) : r[k] = Len(h) + k
  PROVE  /\ Len(g) = Len(h) + Len(r)
         /\ \A i \in 1..Len(g) : g[i] = i
         /\ Len(r) <= Len(g)
         /\ \A k \in 1..Len(r) : r[k] = Len(g) - Len(r) + k
  <1>1. Len(h) \in Nat /\ Len(r) \in Nat
    BY LenProperties
  <1>2. /\ Len(g) = Len(h) + Len(r)
        /\ \A i \in 1..(Len(h) + Len(r)) :
              g[i] = IF i <= Len(h) THEN h[i] ELSE r[i - Len(h)]
    BY ConcatProperties
  <1>3. ASSUME NEW i \in 1..Len(g) PROVE g[i] = i
    <2>1. CASE i <= Len(h)
      BY <1>1, <1>2, <2>1
    <2>2. CASE i > Len(h)
      <3>1. i - Len(h) \in 1..Len(r)
        BY <1>1, <1>2, <2>2
      <3>2. r[i - Len(h)] = Len(h) + (i - Len(h))
        BY <3>1
      <3> QED
        BY <1>1, <1>2, <2>2, <3>2
    <2> QED
      BY <1>1, <1>2, <2>1, <2>2
  <1> QED
    BY <1>1, <1>2, <1>3

(* A batch that is cut holds the rows that arrived last. *)
LEMMA CutRows ==
  ASSUME TypeOK, BufferShape, CutBatch
  PROVE  /\ Collected \in Seq(Nat)
         /\ Len(Collected) = FetchSize /\ Len(rows) = FetchSize - 1
         /\ received' = received + 1 /\ rows' = <<>>
         /\ \A k \in 1..FetchSize : Collected[k] = received - Len(rows) + k
  <1> USE CursorAssumption
  <1>1. rows \in Seq(Nat) /\ Len(rows) \in Nat /\ received \in Nat
    BY LenProperties DEF TypeOK
  <1>2. /\ Len(Collected) = Len(rows) + 1
        /\ \A k \in 1..Len(rows) : Collected[k] = rows[k]
        /\ Collected[Len(rows) + 1] = received + 1
    BY <1>1, AppendFacts DEF Collected
  <1>3. /\ Len(Collected) >= FetchSize /\ Len(rows) < FetchSize
        /\ received' = received + 1 /\ rows' = <<>>
    BY DEF CutBatch, CutBatchBody, RowArrives, ClearRows, BufferShape
  <1>4. Len(Collected) = FetchSize /\ Len(rows) = FetchSize - 1
    BY <1>1, <1>2, <1>3
  <1>5. ASSUME NEW k \in 1..FetchSize PROVE Collected[k] = received - Len(rows) + k
    <2>1. CASE k \in 1..Len(rows)
      BY <1>1, <1>2, <2>1 DEF BufferShape
    <2>2. CASE k = Len(rows) + 1
      BY <1>1, <1>2, <2>2
    <2> QED
      BY <1>1, <1>4, <2>1, <2>2
  <1> QED
    BY <1>3, <1>4, <1>5, CutBatches

(* When a closure that is not the last one shifts the queue, its batch ends *)
(* where the rows handed over end.                                          *)
LEMMA HeadHandedOver ==
  ASSUME TypeOK, Shape, Order, NEW c \in active, ~c.batch.end
  PROVE  pipes[1].rows[FetchSize] = Len(handed)
  <1> USE CursorAssumption
  <1>0. pipes \in Seq(Batch) /\ Len(pipes) \in Nat /\ (pipes = <<>> <=> Len(pipes) = 0)
        /\ Len(handed) \in Nat
    BY LenProperties, EmptySeq DEF TypeOK
  <1>1. pipes # <<>> /\ pipes[1] = c.batch
    BY DEF Shape, HeadRuns
  <1>2. 1 \in 1..Len(pipes) /\ ~pipes[1].end
    BY <1>0, <1>1
  <1>3. Len(pipes[1].rows) = FetchSize
    BY <1>2 DEF Shape, QueueShape
  <1>4. FetchSize \in 1..Len(pipes[1].rows)
    BY <1>3
  <1>5. pipes[1].rows[FetchSize] = Len(handed) - Len(pipes[1].rows) + FetchSize
    BY <1>1, <1>4 DEF Order, HandedOrder
  <1> QED
    BY <1>0, <1>3, <1>5

(* The rows stay in order on their way through buffer, queue and closures. *)
LEMMA OrderStep ==
  ASSUME TypeOK, Shape, Order, [Next]_vars
  PROVE  Order'
<1> USE CursorAssumption
<1>q. /\ pipes \in Seq(Batch) /\ Len(pipes) \in Nat
      /\ \A i \in 1..Len(pipes) : pipes[i] \in Batch /\ pipes[i].rows \in Seq(Nat)
      /\ pipes = <<>> <=> Len(pipes) = 0
  BY LenProperties, ElementOfSeq, EmptySeq, BatchParts DEF TypeOK
<1>r. /\ rows \in Seq(Nat) /\ Len(rows) \in Nat /\ received \in Nat
      /\ handed \in Seq(Nat) /\ Len(handed) \in Nat
  BY LenProperties DEF TypeOK
<1>l. ending # "done" /\ pipes # <<>> =>
        ~pipes[Len(pipes)].end /\ pipes[Len(pipes)].rows[FetchSize] = received - Len(rows)
  <2>1. pipes # <<>> => Len(pipes) \in 1..Len(pipes)
    BY <1>q
  <2> QED
    BY <2>1 DEF Shape, QueueShape, Order, NoGap
<1>1. UNCHANGED <<handed, pipes, rows, received>> => Order'
  BY DEF Order, HandedOrder, QueueOrder, NoGap
<1>2. CASE CollectRow
  <2>1. UNCHANGED <<handed, pipes>> /\ rows' = Append(rows, received + 1) /\ received' = received + 1
    BY <1>2 DEF CollectRow, RowArrives, Collected
  <2>2. Len(rows') = Len(rows) + 1
    BY <1>r, <2>1, AppendFacts
  <2>3. ending # "done"
    BY <1>2 DEF CollectRow, RowArrives, Shape, EventShape
  <2>4. received' - Len(rows') = received - Len(rows)
    BY <1>r, <2>1, <2>2
  <2>5. NoGap'
    BY <1>l, <2>1, <2>3, <2>4 DEF Order, NoGap
  <2> QED
    BY <2>1, <2>5 DEF Order, HandedOrder, QueueOrder
<1>3. CASE CutBatch
  <2> DEFINE b == [rows |-> Collected, end |-> FALSE]
  <2>1. /\ Collected \in Seq(Nat) /\ b \in Batch
        /\ Len(Collected) = FetchSize /\ Len(rows) = FetchSize - 1
        /\ received' = received + 1 /\ rows' = <<>> /\ Len(rows') = 0
        /\ \A k \in 1..FetchSize : Collected[k] = received - Len(rows) + k
    BY <1>3, CutRows, CutBatches DEF Shape
  <2>2. ending # "done" /\ pipes' = Append(pipes, b)
    BY <1>3, CutEffect
  <2>3. /\ Len(pipes') = Len(pipes) + 1 /\ pipes' # <<>>
        /\ \A i \in 1..Len(pipes) : pipes'[i] = pipes[i]
        /\ pipes'[Len(pipes) + 1] = b
    BY <1>q, <2>1, <2>2, AppendFacts
  <2>4. Collected[FetchSize] = received' - Len(rows')
    BY <1>r, <2>1
  <2>5. NoGap'
    <3>1. pipes'[Len(pipes')] = b
      BY <2>3
    <3> QED
      BY <2>3, <2>4, <3>1 DEF NoGap
  <2>6. CASE pipes = <<>>
    <3>1. handed' = handed \o Collected
      BY <1>3, <2>6, CutEffect
    <3>2. Len(handed) = received - Len(rows) /\ \A i \in 1..Len(handed) : handed[i] = i
      BY <2>6 DEF Order, NoGap, HandedOrder
    <3>3. \A k \in 1..Len(Collected) : Collected[k] = Len(handed) + k
      BY <2>1, <3>2
    <3>4. /\ \A i \in 1..Len(handed') : handed'[i] = i
          /\ Len(Collected) <= Len(handed')
          /\ \A k \in 1..Len(Collected) : Collected[k] = Len(handed') - Len(Collected) + k
      <4>1. Collected \in Seq(Nat) /\ handed \in Seq(Nat)
        BY <1>r, <2>1
      <4>2. \A i \in 1..Len(handed) : handed[i] = i
        BY <3>2
      <4> QED
        BY <3>1, <3>3, <4>1, <4>2, HandOver
    <3>5. pipes'[1] = b /\ Len(pipes') = 1
      BY <1>q, <2>3, <2>6
    <3>6. HandedOrder'
      BY <3>4, <3>5 DEF HandedOrder
    <3>7. QueueOrder'
      <4>1. 1..(Len(pipes') - 1) = {}
        BY <3>5
      <4> QED
        BY <4>1 DEF QueueOrder
    <3> QED
      BY <2>5, <3>6, <3>7 DEF Order
  <2>7. CASE pipes # <<>>
    <3>1. handed' = handed /\ pipes'[1] = pipes[1]
      BY <1>3, <1>q, <2>3, <2>7, CutEffect
    <3>2. HandedOrder'
      BY <2>7, <3>1 DEF Order, HandedOrder
    <3>3. QueueOrder'
      <4> SUFFICES ASSUME NEW i \in 1..(Len(pipes') - 1), NEW k \in 1..Len(pipes'[i + 1].rows)
                   PROVE  pipes'[i + 1].rows[k] = pipes'[i].rows[FetchSize] + k
        BY DEF QueueOrder
      <4>1. CASE i < Len(pipes)
        <5>1. pipes'[i] = pipes[i] /\ pipes'[i + 1] = pipes[i + 1] /\ i \in 1..(Len(pipes) - 1)
          BY <1>q, <2>3, <4>1
        <5> QED
          BY <5>1 DEF Order, QueueOrder
      <4>2. CASE i = Len(pipes)
        <5>1. pipes'[i] = pipes[i] /\ pipes'[i + 1] = b /\ pipes[i].rows[FetchSize] = received - Len(rows)
          BY <1>q, <1>l, <2>2, <2>3, <2>7, <4>2
        <5>2. k \in 1..FetchSize /\ pipes'[i + 1].rows[k] = Collected[k]
          BY <2>1, <5>1
        <5> QED
          BY <2>1, <5>1, <5>2
      <4> QED
        BY <1>q, <2>3, <4>1, <4>2
    <3> QED
      BY <2>5, <3>2, <3>3 DEF Order
  <2> QED
    BY <2>6, <2>7
<1>4. CASE AfterEnd
  <2> DEFINE b == [rows |-> rows, end |-> TRUE]
  <2>1. /\ b \in Batch /\ b.rows = rows /\ b.end
        /\ ending # "done" /\ rows' = <<>> /\ Len(rows') = 0 /\ received' = received
    BY <1>4, CutBatches DEF AfterEnd, LastBatch
  <2>2. CASE pipes = <<>>
    <3>0. handed' = handed \o rows /\ pipes' = <<>>
      BY <1>4, <2>2, LastEffect
    <3>1. handed' = handed \o rows /\ pipes' = <<>> /\ Len(pipes') = 0
      BY <3>0
    <3>2. Len(handed) = received - Len(rows) /\ \A i \in 1..Len(handed) : handed[i] = i
      BY <2>2 DEF Order, NoGap, HandedOrder
    <3>3. \A k \in 1..Len(rows) : rows[k] = Len(handed) + k
      BY <3>2 DEF Shape, BufferShape
    <3>4. Len(handed') = Len(handed) + Len(rows) /\ \A i \in 1..Len(handed') : handed'[i] = i
      BY <1>r, <3>1, <3>2, <3>3, HandOver
    <3>5. Len(handed') = received' - Len(rows')
      BY <1>r, <2>1, <3>2, <3>4
    <3> QED
      BY <3>1, <3>4, <3>5 DEF Order, HandedOrder, QueueOrder, NoGap
  <2>3. CASE pipes # <<>>
    <3>1. pipes' = Append(pipes, b) /\ handed' = handed
      BY <1>4, <2>3, LastEffect
    <3>2. /\ Len(pipes') = Len(pipes) + 1 /\ pipes' # <<>>
          /\ \A i \in 1..Len(pipes) : pipes'[i] = pipes[i]
          /\ pipes'[Len(pipes) + 1] = b
      BY <1>q, <2>1, <3>1, AppendFacts
    <3>3. pipes'[1] = pipes[1] /\ Len(pipes') > 1
      BY <1>q, <2>3, <3>2
    <3>4. HandedOrder'
      BY <2>3, <3>1, <3>3 DEF Order, HandedOrder
    <3>5. pipes[Len(pipes)].rows[FetchSize] = received - Len(rows)
      BY <1>l, <2>1, <2>3
    <3>6. QueueOrder'
      <4> SUFFICES ASSUME NEW i \in 1..(Len(pipes') - 1), NEW k \in 1..Len(pipes'[i + 1].rows)
                   PROVE  pipes'[i + 1].rows[k] = pipes'[i].rows[FetchSize] + k
        BY DEF QueueOrder
      <4>1. CASE i < Len(pipes)
        <5>1. pipes'[i] = pipes[i] /\ pipes'[i + 1] = pipes[i + 1] /\ i \in 1..(Len(pipes) - 1)
          BY <1>q, <3>2, <4>1
        <5> QED
          BY <5>1 DEF Order, QueueOrder
      <4>2. CASE i = Len(pipes)
        <5>1. pipes'[i] = pipes[i] /\ pipes'[i + 1] = b
          BY <1>q, <2>3, <3>2, <4>2
        <5>2. k \in 1..Len(rows) /\ pipes'[i + 1].rows[k] = rows[k]
          BY <2>1, <5>1
        <5>3. rows[k] = received - Len(rows) + k
          BY <5>2 DEF Shape, BufferShape
        <5> QED
          BY <3>5, <4>2, <5>1, <5>2, <5>3
      <4> QED
        BY <1>q, <3>2, <4>1, <4>2
    <3>7. NoGap'
      <4>1. pipes'[Len(pipes')] = b /\ pipes'[Len(pipes') - 1] = pipes[Len(pipes)]
        BY <1>q, <2>3, <3>2
      <4>2. pipes'[Len(pipes') - 1].rows[FetchSize] + Len(pipes'[Len(pipes')].rows) = received'
        BY <1>r, <2>1, <3>5, <4>1
      <4> QED
        BY <2>1, <3>2, <3>3, <4>1, <4>2 DEF NoGap
    <3> QED
      BY <3>4, <3>6, <3>7 DEF Order
  <2> QED
    BY <2>2, <2>3
<1>5. ASSUME NEW c \in active, BatchDone(c) PROVE Order'
  <2>1. ~c.batch.end /\ ShiftAndRun(c) /\ UNCHANGED <<rows, received>>
    BY <1>5 DEF BatchDone
  <2>2. /\ pipes # <<>> /\ pipes[1] = c.batch
        /\ Len(pipes') = Len(pipes) - 1
        /\ \A i \in 1..(Len(pipes) - 1) : pipes'[i] = pipes[i + 1]
        /\ Len(pipes) = 1 => pipes' = <<>> /\ handed' = handed
        /\ Len(pipes) > 1 => pipes' # <<>> /\ handed' = handed \o pipes[2].rows
    BY <2>1, ShiftEffect
  <2>3. pipes[1].rows[FetchSize] = Len(handed)
    BY <2>1, HeadHandedOver
  <2>4. CASE Len(pipes) = 1
    <3>1. Len(handed) = received - Len(rows)
      BY <2>1, <2>2, <2>3, <2>4 DEF Order, NoGap
    <3>2. pipes' = <<>> /\ handed' = handed /\ Len(pipes') = 0
      BY <2>2, <2>4
    <3>3. HandedOrder' /\ QueueOrder'
      <4>1. 1..(Len(pipes') - 1) = {}
        BY <3>2
      <4> QED
        BY <3>2, <4>1 DEF Order, HandedOrder, QueueOrder
    <3>4. NoGap'
      BY <2>1, <2>2, <2>3, <2>4, <3>1, <3>2 DEF NoGap
    <3> QED
      BY <3>3, <3>4 DEF Order
  <2>n. Len(pipes) \in Nat
    BY <1>q
  <2>5. CASE Len(pipes) > 1
    <3>1. /\ pipes'[1] = pipes[2] /\ pipes[2].rows \in Seq(Nat) /\ pipes' # <<>>
          /\ handed' = handed \o pipes[2].rows
      BY <1>q, <2>2, <2>5
    <3>2. \A k \in 1..Len(pipes[2].rows) : pipes[2].rows[k] = Len(handed) + k
      <4>1. 1 \in 1..(Len(pipes) - 1) /\ 1 + 1 = 2
        BY <1>q, <2>5
      <4> QED
        BY <2>3, <4>1 DEF Order, QueueOrder
    <3>3. /\ Len(handed') = Len(handed) + Len(pipes[2].rows)
          /\ \A i \in 1..Len(handed') : handed'[i] = i
          /\ Len(pipes[2].rows) <= Len(handed')
          /\ \A k \in 1..Len(pipes[2].rows) :
                pipes[2].rows[k] = Len(handed') - Len(pipes[2].rows) + k
      <4>1. \A i \in 1..Len(handed) : handed[i] = i
        BY DEF Order, HandedOrder
      <4> QED
        BY <1>r, <3>1, <3>2, <4>1, HandOver
    <3>4. HandedOrder'
      BY <3>1, <3>3 DEF HandedOrder
    <3>5. QueueOrder'
      <4> SUFFICES ASSUME NEW i \in 1..(Len(pipes') - 1), NEW k \in 1..Len(pipes'[i + 1].rows)
                   PROVE  pipes'[i + 1].rows[k] = pipes'[i].rows[FetchSize] + k
        BY DEF QueueOrder
      <4>1. /\ pipes'[i] = pipes[i + 1] /\ pipes'[i + 1] = pipes[i + 1 + 1]
            /\ i + 1 \in 1..(Len(pipes) - 1)
        BY <1>q, <2>2
      <4> QED
        BY <4>1 DEF Order, QueueOrder
    <3>6. NoGap'
      <4>1. pipes'[Len(pipes')] = pipes[Len(pipes)]
        BY <1>q, <2>2, <2>5
      <4>2. ~pipes[Len(pipes)].end => pipes[Len(pipes)].rows[FetchSize] = received - Len(rows)
        BY <2>2 DEF Order, NoGap
      <4>3. pipes[Len(pipes)].end =>
               pipes[Len(pipes) - 1].rows[FetchSize] + Len(pipes[Len(pipes)].rows) = received
        BY <2>2, <2>5 DEF Order, NoGap
      <4>4. CASE Len(pipes) = 2
        <5>1. Len(pipes') = 1
          BY <2>2, <4>4
        <5>2. ~pipes'[Len(pipes')].end =>
                 pipes'[Len(pipes')].rows[FetchSize] = received' - Len(rows')
          BY <2>1, <4>1, <4>2
        <5>3. pipes'[Len(pipes')].end => Len(handed') = received'
          <6>1. pipes[Len(pipes)] = pipes[2] /\ pipes[Len(pipes) - 1] = pipes[1]
            BY <4>4
          <6> QED
            BY <2>1, <2>3, <3>3, <4>1, <4>3, <6>1
        <5> QED
          BY <3>1, <5>1, <5>2, <5>3 DEF NoGap
      <4>5. CASE Len(pipes) > 2
        <5>1. pipes'[Len(pipes') - 1] = pipes[Len(pipes) - 1] /\ Len(pipes') > 1
          BY <1>q, <2>2, <4>5
        <5> QED
          <6>1. Len(pipes') # 1
            BY <2>n, <2>2, <4>5
          <6>2. ~pipes'[Len(pipes')].end =>
                   pipes'[Len(pipes')].rows[FetchSize] = received' - Len(rows')
            BY <2>1, <4>1, <4>2
          <6>3. pipes'[Len(pipes')].end =>
                   pipes'[Len(pipes') - 1].rows[FetchSize] + Len(pipes'[Len(pipes')].rows) = received'
            BY <2>1, <4>1, <4>3, <5>1
          <6> QED
            BY <3>1, <6>1, <6>2, <6>3, Zenon DEF NoGap
      <4>6. Len(pipes) = 2 \/ Len(pipes) > 2
        <5>1. \A n \in Nat : n > 1 => n = 2 \/ n > 2
          OBVIOUS
        <5> QED
          BY <2>n, <2>5, <5>1
      <4> QED
        BY <4>4, <4>5, <4>6
    <3> QED
      BY <3>4, <3>5, <3>6 DEF Order
  <2> QED
    BY <1>q, <2>2, <2>4, <2>5
<1>6. CASE \/ OpenStream \/ OpenFails \/ EndOfRows \/ StreamError
           \/ AfterError \/ ReleaseRunner \/ UNCHANGED vars
  BY <1>1, <1>6 DEF OpenStream, OpenFails, EndOfRows, StreamError, AfterError, ReleaseRunner, vars
<1>7. ASSUME NEW c \in active,
             BatchRejected(c) \/ StreamedTo(c) \/ LastBatchDone(c) \/ BatchFails(c) \/ LastBatchFails(c)
      PROVE  Order'
  BY <1>1, <1>7 DEF BatchRejected, StreamedTo, LastBatchDone, BatchFails, LastBatchFails
<1> QED
  BY <1>2, <1>3, <1>4, <1>5, <1>6, <1>7 DEF Next, Emits, Callback, Batches

(* What is queued or handed over has arrived. *)
LEMMA ArrivedStep ==
  ASSUME TypeOK, Shape, Order, Arrived, [Next]_vars
  PROVE  Arrived'
<1> USE CursorAssumption
<1>q. /\ pipes \in Seq(Batch) /\ Len(pipes) \in Nat
      /\ \A i \in 1..Len(pipes) : pipes[i] \in Batch /\ pipes[i].rows \in Seq(Nat)
      /\ pipes = <<>> <=> Len(pipes) = 0
  BY LenProperties, ElementOfSeq, EmptySeq, BatchParts DEF TypeOK
<1>r. /\ rows \in Seq(Nat) /\ Len(rows) \in Nat /\ received \in Nat
      /\ handed \in Seq(Nat) /\ Len(handed) \in Nat
  BY LenProperties DEF TypeOK
<1>a. ASSUME NEW i \in 1..Len(pipes), NEW k \in 1..Len(pipes[i].rows)
      PROVE  pipes[i].rows[k] \in Nat /\ pipes[i].rows[k] <= received
  BY <1>q, ElementOfSeq DEF Arrived
<1>1. UNCHANGED <<handed, pipes, received>> => Arrived'
  BY DEF Arrived
<1>2. CASE CollectRow
  <2>1. UNCHANGED <<handed, pipes>> /\ received' = received + 1
    BY <1>2 DEF CollectRow, RowArrives
  <2> QED
    BY <1>r, <1>a, <2>1 DEF Arrived
<1>3. CASE CutBatch
  <2> DEFINE b == [rows |-> Collected, end |-> FALSE]
  <2>1. /\ Collected \in Seq(Nat) /\ b \in Batch
        /\ Len(Collected) = FetchSize /\ Len(rows) = FetchSize - 1
        /\ received' = received + 1
        /\ \A k \in 1..FetchSize : Collected[k] = received - Len(rows) + k
    BY <1>3, CutRows, CutBatches DEF Shape
  <2>2. pipes' = Append(pipes, b)
    BY <1>3, CutEffect
  <2>3. /\ Len(pipes') = Len(pipes) + 1
        /\ \A i \in 1..Len(pipes) : pipes'[i] = pipes[i]
        /\ pipes'[Len(pipes) + 1] = b
    BY <1>q, <2>1, <2>2, AppendFacts
  <2>4. ASSUME NEW i \in 1..Len(pipes'), NEW k \in 1..Len(pipes'[i].rows)
        PROVE  pipes'[i].rows[k] <= received'
    <3>1. CASE i \in 1..Len(pipes)
      <4>1. pipes'[i] = pipes[i]
        BY <2>3, <3>1
      <4>2. pipes[i].rows[k] \in Nat /\ pipes[i].rows[k] <= received
        BY <1>a, <3>1, <4>1
      <4> QED
        BY <1>r, <2>1, <4>1, <4>2
    <3>2. CASE i = Len(pipes) + 1
      <4>1. k \in 1..FetchSize /\ pipes'[i].rows[k] = Collected[k]
        BY <2>1, <2>3, <3>2
      <4> QED
        BY <1>r, <2>1, <4>1
    <3> QED
      BY <1>q, <2>3, <3>1, <3>2
  <2>5. Len(handed') <= received'
    <3>1. CASE pipes = <<>>
      <4>1. handed' = handed \o Collected /\ Len(handed) = received - Len(rows)
        BY <1>3, <3>1, CutEffect DEF Order, NoGap
      <4>2. Len(handed') = Len(handed) + Len(Collected)
        BY <1>r, <2>1, <4>1, ConcatProperties
      <4> QED
        BY <1>r, <2>1, <4>1, <4>2
    <3>2. CASE pipes # <<>>
      <4>1. handed' = handed
        BY <1>3, <3>2, CutEffect
      <4> QED
        BY <1>r, <2>1, <4>1 DEF Arrived
    <3> QED
      BY <3>1, <3>2
  <2> QED
    BY <2>4, <2>5 DEF Arrived
<1>4. CASE AfterEnd
  <2> DEFINE b == [rows |-> rows, end |-> TRUE]
  <2>1. b \in Batch /\ b.rows = rows /\ received' = received
    BY <1>4, CutBatches DEF AfterEnd, LastBatch
  <2>2. CASE pipes = <<>>
    <3>1. handed' = handed \o rows /\ pipes' = <<>> /\ Len(handed) = received - Len(rows)
      BY <1>4, <2>2, LastEffect DEF Order, NoGap
    <3>2. Len(handed') = Len(handed) + Len(rows)
      BY <1>r, <3>1, ConcatProperties
    <3>3. Len(handed') <= received' /\ 1..Len(pipes') = {}
      BY <1>q, <1>r, <2>1, <2>2, <3>1, <3>2
    <3> QED
      BY <3>3 DEF Arrived
  <2>3. CASE pipes # <<>>
    <3>1. pipes' = Append(pipes, b) /\ handed' = handed
      BY <1>4, <2>3, LastEffect
    <3>2. /\ Len(pipes') = Len(pipes) + 1
          /\ \A i \in 1..Len(pipes) : pipes'[i] = pipes[i]
          /\ pipes'[Len(pipes) + 1] = b
      BY <1>q, <2>1, <3>1, AppendFacts
    <3>3. ASSUME NEW i \in 1..Len(pipes'), NEW k \in 1..Len(pipes'[i].rows)
          PROVE  pipes'[i].rows[k] <= received'
      <4>1. CASE i \in 1..Len(pipes)
        BY <1>a, <2>1, <3>2, <4>1
      <4>2. CASE i = Len(pipes) + 1
        <5>1. k \in 1..Len(rows) /\ pipes'[i].rows[k] = rows[k]
          BY <2>1, <3>2, <4>2
        <5>2. rows[k] = received - Len(rows) + k
          BY <5>1 DEF Shape, BufferShape
        <5> QED
          BY <1>r, <2>1, <5>1, <5>2
      <4> QED
        BY <1>q, <3>2, <4>1, <4>2
    <3> QED
      BY <2>1, <3>1, <3>3 DEF Arrived
  <2> QED
    BY <2>2, <2>3
<1>5. ASSUME NEW c \in active, BatchDone(c) PROVE Arrived'
  <2>1. ~c.batch.end /\ ShiftAndRun(c) /\ received' = received
    BY <1>5 DEF BatchDone
  <2>2. /\ Len(pipes) \in Nat \ {0} /\ pipes # <<>>
        /\ Len(pipes') = Len(pipes) - 1
        /\ \A i \in 1..(Len(pipes) - 1) : pipes'[i] = pipes[i + 1]
        /\ Len(pipes) = 1 => handed' = handed
        /\ Len(pipes) > 1 => handed' = handed \o pipes[2].rows
    BY <2>1, ShiftEffect
  <2>3. ASSUME NEW i \in 1..Len(pipes'), NEW k \in 1..Len(pipes'[i].rows)
        PROVE  pipes'[i].rows[k] <= received'
    <3>1. pipes'[i] = pipes[i + 1] /\ i + 1 \in 1..Len(pipes)
      BY <2>2
    <3> QED
      BY <1>a, <2>1, <3>1
  <2>4. CASE Len(pipes) = 1
    BY <2>1, <2>2, <2>3, <2>4 DEF Arrived
  <2>5. CASE Len(pipes) > 1
    <3>1. pipes[2].rows \in Seq(Nat) /\ 2 \in 1..Len(pipes) /\ Len(pipes[2].rows) \in Nat
      BY <1>q, <2>2, <2>5, LenProperties
    <3>2. Len(handed') = Len(handed) + Len(pipes[2].rows)
      BY <1>r, <2>2, <2>5, <3>1, ConcatProperties
    <3>3. CASE Len(pipes[2].rows) = 0
      BY <1>r, <2>1, <2>3, <3>2, <3>3 DEF Arrived
    <3>4. CASE Len(pipes[2].rows) > 0
      <4>1. Len(pipes[2].rows) \in 1..Len(pipes[2].rows)
        BY <3>1, <3>4
      <4>2. pipes[2].rows[Len(pipes[2].rows)] <= received
        BY <1>a, <3>1, <4>1
      <4>3. pipes[2].rows[Len(pipes[2].rows)] = pipes[1].rows[FetchSize] + Len(pipes[2].rows)
        <5>1. 1 \in 1..(Len(pipes) - 1) /\ 1 + 1 = 2
          BY <2>2, <2>5
        <5> QED
          BY <4>1, <5>1 DEF Order, QueueOrder
      <4>4. pipes[1].rows[FetchSize] = Len(handed)
        BY <2>1, HeadHandedOver
      <4> QED
        BY <2>1, <2>3, <3>2, <4>2, <4>3, <4>4 DEF Arrived
    <3> QED
      BY <3>1, <3>3, <3>4
  <2> QED
    <3>1. \A n \in Nat \ {0} : n = 1 \/ n > 1
      OBVIOUS
    <3> QED
      BY <2>2, <2>4, <2>5, <3>1
<1>6. CASE \/ OpenStream \/ OpenFails \/ EndOfRows \/ StreamError
           \/ AfterError \/ ReleaseRunner \/ UNCHANGED vars
  BY <1>1, <1>6 DEF OpenStream, OpenFails, EndOfRows, StreamError, AfterError, ReleaseRunner, vars
<1>7. ASSUME NEW c \in active,
             BatchRejected(c) \/ StreamedTo(c) \/ LastBatchDone(c) \/ BatchFails(c) \/ LastBatchFails(c)
      PROVE  Arrived'
  BY <1>1, <1>7 DEF BatchRejected, StreamedTo, LastBatchDone, BatchFails, LastBatchFails
<1> QED
  BY <1>2, <1>3, <1>4, <1>5, <1>6, <1>7 DEF Next, Emits, Callback, Batches
-----------------------------------------------------------------------------
(* The counter and the rounds that were seen stay in step. *)
LEMMA RoundStep ==
  ASSUME TypeOK, Shape, RoundCount, [Next]_vars
  PROVE  RoundCount'
<1>t. /\ rounds \in Seq([round : Nat, end : BOOLEAN]) /\ Len(rounds) \in Nat
      /\ cursorRound \in Nat
  BY LenProperties DEF TypeOK
<1>1. UNCHANGED <<options, active, cursorRound, pipes, rounds, ending>> => RoundCount'
  BY DEF RoundCount
<1>2. CASE CutBatch
  <2> DEFINE b == [rows |-> Collected, end |-> FALSE]
  <2>1. ending = "no" /\ ending' = "no" /\ UNCHANGED <<options, cursorRound, rounds>>
    BY <1>2, CutEffect DEF CutBatch, CutBatchBody
  <2>2. CASE pipes = <<>>
    <3>1. active' = {[batch |-> b, phase |-> "streamTo"]} /\ active = {}
      BY <1>2, <2>1, <2>2, CutEffect, IdleQueue DEF Shape
    <3> QED
      BY <2>1, <2>2, <3>1 DEF RoundCount
  <2>3. CASE pipes # <<>>
    <3>1. active' = active /\ pipes' = Append(pipes, b) /\ b \in Batch
      BY <1>2, <2>3, CutEffect, CutBatches
    <3>2. pipes' # <<>>
      BY <3>1 DEF TypeOK
    <3> QED
      BY <2>1, <3>1, <3>2 DEF RoundCount
  <2> QED
    BY <2>2, <2>3
<1>3. CASE AfterEnd
  <2> DEFINE b == [rows |-> rows, end |-> TRUE]
  <2>1. ending = "closing" /\ ending' = "done" /\ UNCHANGED <<options, cursorRound, rounds>>
    BY <1>3, LastEffect DEF AfterEnd, LastBatch
  <2>2. CASE pipes = <<>>
    <3>1. active' = {[batch |-> b, phase |-> "streamTo"]} /\ active = {}
      BY <1>3, <2>1, <2>2, LastEffect, IdleQueue DEF Shape
    <3> QED
      BY <2>1, <2>2, <3>1 DEF RoundCount
  <2>3. CASE pipes # <<>>
    <3>1. active' = active
      BY <1>3, <2>3, LastEffect
    <3> QED
      BY <2>1, <2>3, <3>1 DEF RoundCount
  <2> QED
    BY <2>2, <2>3
<1>4. ASSUME NEW c \in active, StreamedTo(c) PROVE RoundCount'
  <2> DEFINE r == [round |-> cursorRound, end |-> c.batch.end]
  <2>1. /\ active = {c} /\ c.phase = "streamTo" /\ options.steps
        /\ rounds' = Append(rounds, r)
        /\ UNCHANGED <<options, cursorRound, pipes, ending>>
    BY <1>4 DEF StreamedTo, Shape, OneBatchAtATime
  <2>2. c \in Call /\ c.batch.end \in BOOLEAN
    BY CallParts DEF TypeOK
  <2>3. /\ [c EXCEPT !.phase = "subSteps"].batch = c.batch
        /\ [c EXCEPT !.phase = "subSteps"].phase = "subSteps"
    BY <2>2 DEF Call
  <2>4. \A d \in active' : d.batch = c.batch /\ d.phase = "subSteps"
    BY <1>4, <2>1, <2>3 DEF StreamedTo
  <2>5. active' # {}
    BY <1>4 DEF StreamedTo
  <2>6. Len(rounds) = cursorRound
    BY <2>1 DEF RoundCount
  <2>7. r \in [round : Nat, end : BOOLEAN]
    BY <1>t, <2>2
  <2>8. /\ Len(rounds') = Len(rounds) + 1 /\ rounds' # <<>>
        /\ \A i \in 1..Len(rounds) : rounds'[i] = rounds[i]
        /\ rounds'[Len(rounds')] = r
    BY <1>t, <2>1, <2>7, AppendFacts
  <2>9. \A i \in 1..Len(rounds) : ~rounds[i].end
    <3> SUFFICES ASSUME NEW i \in 1..Len(rounds), rounds[i].end PROVE FALSE
      OBVIOUS
    <3>1. i = Len(rounds) /\ rounds # <<>>
      BY <1>t DEF RoundCount
    <3> QED
      BY <2>1, <3>1 DEF RoundCount
  <2>10. ASSUME NEW i \in 1..Len(rounds')
         PROVE  rounds'[i].round = i - 1 /\ (rounds'[i].end => i = Len(rounds'))
    <3>1. CASE i \in 1..Len(rounds)
      BY <2>8, <2>9, <3>1 DEF RoundCount
    <3>2. CASE i = Len(rounds')
      BY <1>t, <2>6, <2>8, <3>2
    <3> QED
      BY <1>t, <2>8, <3>1, <3>2
  <2>11. c.batch.end => ending = "done"
    BY DEF Shape, HeadRuns
  <2> QED
    BY <2>1, <2>4, <2>5, <2>6, <2>8, <2>10, <2>11 DEF RoundCount
<1>5. ASSUME NEW c \in active, BatchDone(c) PROVE RoundCount'
  <2>1. /\ ~c.batch.end /\ ShiftAndRun(c) /\ ContentReady(c) /\ active = {c}
        /\ cursorRound' = cursorRound + 1 /\ UNCHANGED <<options, ending, rounds>>
    BY <1>5 DEF BatchDone, NextRound, Shape, OneBatchAtATime
  <2>2. \A d \in active' : d.phase = "streamTo"
    <3>1. Len(pipes) \in Nat \ {0}
      BY <2>1, ShiftEffect
    <3>2. Len(pipes) = 1 => active' = {}
      BY <2>1, ShiftEffect
    <3>3. Len(pipes) > 1 => active' = {[batch |-> pipes[2], phase |-> "streamTo"]}
      BY <2>1, ShiftEffect
    <3>4. Len(pipes) = 1 \/ Len(pipes) > 1
      <4>1. \A n \in Nat \ {0} : n = 1 \/ n > 1
        OBVIOUS
      <4> QED
        BY <3>1, <4>1
    <3> QED
      BY <3>2, <3>3, <3>4
  <2>3. options.steps => Len(rounds) = cursorRound' /\ ~rounds[Len(rounds)].end
    BY <2>1 DEF RoundCount, ContentReady
  <2> QED
    BY <2>1, <2>2, <2>3 DEF RoundCount
<1>6. ASSUME NEW c \in active, LastBatchDone(c) \/ LastBatchFails(c) PROVE RoundCount'
  <2>1. c.batch.end /\ active' = active \ {c} /\ UNCHANGED <<options, pipes, rounds, ending>>
    BY <1>6 DEF LastBatchDone, LastBatchFails
  <2>2. active' = {} /\ ending = "done"
    BY <2>1 DEF Shape, OneBatchAtATime, HeadRuns
  <2> QED
    BY <2>1, <2>2 DEF RoundCount
<1>7. ASSUME NEW c \in active, BatchFails(c) PROVE RoundCount'
  <2>1. /\ ~c.batch.end /\ active' = {[c EXCEPT !.phase = "closing"]}
        /\ UNCHANGED <<options, cursorRound, pipes, rounds, ending>>
    BY <1>7 DEF BatchFails, Shape, OneBatchAtATime
  <2>2. c \in Call
    BY DEF TypeOK
  <2>3. [c EXCEPT !.phase = "closing"].phase = "closing"
    BY <2>2 DEF Call
  <2>4. options.steps => ~(rounds # <<>> /\ rounds[Len(rounds)].end)
    BY <2>1 DEF RoundCount
  <2> QED
    BY <2>1, <2>3, <2>4 DEF RoundCount
<1>8. ASSUME NEW c \in active, BatchRejected(c) PROVE RoundCount'
  <2>1. /\ c.phase = "closing" /\ active' = active \ {c}
        /\ UNCHANGED <<options, cursorRound, pipes, rounds, ending>>
    BY <1>8 DEF BatchRejected
  <2>2. pipes # <<>>
    BY <2>1 DEF Shape, HeadRuns
  <2> QED
    BY <2>1, <2>2 DEF RoundCount
<1>9. CASE \/ OpenStream \/ OpenFails \/ CollectRow \/ StreamError
           \/ AfterError \/ ReleaseRunner \/ UNCHANGED vars
  BY <1>1, <1>9
     DEF OpenStream, OpenFails, CollectRow, StreamError, AfterError, ReleaseRunner, vars
<1>10. CASE EndOfRows
  <2>1. ending # "done" /\ ending' # "done"
    BY <1>10 DEF EndOfRows, Shape, EventShape
  <2> QED
    BY <1>10, <2>1 DEF EndOfRows, RoundCount
<1> QED
  BY <1>2, <1>3, <1>4, <1>5, <1>6, <1>7, <1>8, <1>9, <1>10 DEF Next, Emits, Callback, Batches

(* When the promise resolves, everything has been handed over. *)
LEMMA ResolutionStep ==
  ASSUME TypeOK, Shape, Order, RoundCount, Resolution, [Next]_vars
  PROVE  Resolution'
<1>1. CASE outcome = "resolved"
  <2>1. ending = "done" /\ active = {} /\ source = "ended" /\ erring = "no"
    BY <1>1 DEF Resolution, Shape, EventShape
  <2>2. UNCHANGED <<ending, active, handed, received, options, rounds>> => Resolution'
    BY <1>1 DEF Resolution
  <2>3. OpenStream \/ OpenFails \/ AfterError \/ ReleaseRunner \/ UNCHANGED vars
    BY <2>1 DEF Next, Emits, CollectRow, CutBatch, CutBatchBody, RowArrives, EndOfRows, StreamError,
                Callback, AfterEnd, LastBatch, Batches
  <2> QED
    BY <2>2, <2>3 DEF OpenStream, OpenFails, AfterError, ReleaseRunner, vars
<1>2. CASE outcome # "resolved" /\ outcome' = "resolved"
  <2>1. PICK c \in active : LastBatchDone(c)
    BY <1>2 DEF Next, Emits, Callback, Batches, Settle, vars,
                OpenStream, OpenFails, CollectRow, CutBatch, CutBatchBody, EndOfRows, StreamError,
                AfterEnd, LastBatch, AfterError, BatchRejected, StreamedTo, BatchDone,
                BatchFails, LastBatchFails, ReleaseRunner
  <2>2. /\ c.batch.end /\ ContentReady(c)
        /\ UNCHANGED <<options, ending, handed, received, rounds>>
    BY <2>1 DEF LastBatchDone
  <2>3. active' = {} /\ ending' = "done"
    BY <2>1 DEF LastBatchDone, Shape, OneBatchAtATime, HeadRuns
  <2>4. Len(handed) = received
    <3>1. pipes \in Seq(Batch) /\ Len(pipes) \in Nat /\ (pipes # <<>> => Len(pipes) # 0)
      BY LenProperties, EmptySeq DEF TypeOK
    <3>2. CASE pipes = <<>>
      <4>1. rows = <<>> /\ received \in Nat
        BY <2>2, <2>3 DEF Shape, BufferShape, TypeOK
      <4>2. Len(rows) = 0
        BY <4>1
      <4> QED
        BY <3>2, <4>1, <4>2 DEF Order, NoGap
    <3>3. CASE pipes # <<>>
      <4>1. Len(pipes) = 1 /\ pipes[1] = c.batch
        <5>1. Len(pipes) <= 1 /\ pipes[1] = c.batch
          BY <2>2, <3>3 DEF Shape, HeadRuns
        <5>2. \A n \in Nat : n <= 1 /\ n # 0 => n = 1
          OBVIOUS
        <5> QED
          BY <3>1, <3>3, <5>1, <5>2
      <4> QED
        BY <2>2, <3>3, <4>1 DEF Order, NoGap
    <3> QED
      BY <3>2, <3>3
  <2>5. options.steps => rounds # <<>> /\ rounds[Len(rounds)].end
    <3> SUFFICES ASSUME options.steps PROVE rounds # <<>> /\ rounds[Len(rounds)].end
      OBVIOUS
    <3>1. Len(rounds) = cursorRound + 1 /\ rounds[Len(rounds)].end
      BY <2>2 DEF ContentReady, RoundCount
    <3>2. cursorRound \in Nat
      BY DEF TypeOK
    <3>3. Len(rounds) # 0
      BY <3>1, <3>2
    <3> QED
      BY <3>1, <3>3
  <2> QED
    BY <2>2, <2>3, <2>4, <2>5 DEF Resolution
<1> QED
  BY <1>1, <1>2 DEF Resolution

-----------------------------------------------------------------------------
LEMMA InitHolds == Init => IInv
  <1> USE CursorAssumption
  <1> SUFFICES ASSUME Init PROVE IInv
    OBVIOUS
  <1>1. TypeOK
    BY DEF Init, TypeOK, SourceStates, CallbackStates
  <1>2. Shape
    BY DEF Init, Shape, HeadRuns, OneBatchAtATime, QueueShape, EventShape, BufferShape
  <1>3. Order /\ Arrived
    <2>1. Len(handed) = 0 /\ Len(rows) = 0 /\ Len(pipes) = 0 /\ pipes = <<>> /\ received = 0
      BY DEF Init
    <2>2. 1..Len(handed) = {} /\ 1..Len(pipes) = {} /\ 1..(Len(pipes) - 1) = {}
      BY <2>1
    <2> QED
      BY <2>1, <2>2 DEF Order, HandedOrder, QueueOrder, NoGap, Arrived
  <1>4. RoundCount /\ Resolution
    BY DEF Init, RoundCount, Resolution
  <1> QED
    BY <1>1, <1>2, <1>3, <1>4 DEF IInv

LEMMA StepHolds == IInv /\ [Next]_vars => IInv'
  <1> SUFFICES ASSUME IInv, [Next]_vars PROVE IInv'
    OBVIOUS
  <1>1. TypeOK /\ Shape /\ Order /\ Arrived /\ RoundCount /\ Resolution /\ HeadRuns
    BY DEF IInv, Shape
  <1>2. TypeOK' /\ Shape'
    BY <1>1, TypeStep, ShapeStep
  <1>3. Order' /\ RoundCount' /\ Arrived'
    BY <1>1, OrderStep, RoundStep, ArrivedStep
  <1>4. Resolution'
    BY <1>1, ResolutionStep
  <1> QED
    BY <1>2, <1>3, <1>4 DEF IInv

(* The inductive invariant holds in every reachable state. *)
THEOREM Invariance == Spec => []IInv
  BY InitHolds, StepHolds, PTL DEF Spec

(* Every variable of the cursor load keeps its type. *)
THEOREM TypeCorrect == Spec => []TypeOK
  <1>1. IInv => TypeOK
    BY DEF IInv
  <1> QED
    BY <1>1, Invariance, PTL

(* Whatever order the stream's events, the closures and the close() calls  *)
(* come in, two batches never run at the same time.                        *)
THEOREM OneAtATime == Spec => []OneBatchAtATime
  <1>1. IInv => OneBatchAtATime
    BY DEF IInv, Shape
  <1> QED
    BY <1>1, Invariance, PTL

(* The sub steps see the rounds 0, 1, 2, ... and the end indicator last. *)
THEOREM RoundsCorrect == Spec => []RoundsInOrder
  <1>1. IInv => RoundsInOrder
    BY DEF IInv, RoundCount, RoundsInOrder
  <1> QED
    BY <1>1, Invariance, PTL

(* Nothing is lost between the stream and a load that resolves. *)
THEOREM Complete == Spec => []CompleteWhenResolved
  <1>1. ASSUME IInv PROVE CompleteWhenResolved
    <2> SUFFICES ASSUME outcome = "resolved"
                 PROVE  /\ handed = [i \in 1..received |-> i]
                        /\ active = {}
                        /\ options.steps => rounds # <<>> /\ rounds[Len(rounds)].end
      BY DEF CompleteWhenResolved
    <2>1. handed \in Seq(Nat) /\ Len(handed) = received /\ received \in Nat
      BY <1>1 DEF IInv, Resolution, TypeOK
    <2>2. \A i \in 1..received : handed[i] = i
      BY <1>1, <2>1 DEF IInv, Order, HandedOrder
    <2>3. handed = [i \in 1..received |-> i]
      BY <2>1, <2>2
    <2> QED
      BY <1>1, <2>3 DEF IInv, Resolution
  <1> QED
    BY <1>1, Invariance, PTL

(* With pausing enabled the queue holds one full batch at most. *)
THEOREM Bounded == Spec => []BoundedWhenPausing
  <1>1. IInv => BoundedWhenPausing
    BY DEF IInv, Shape, EventShape, BoundedWhenPausing
  <1> QED
    BY <1>1, Invariance, PTL

(* After a failure no batch behind the failed one is started. *)
THEOREM FailureFences == Spec => FailureFencesQueue
  <1>1. ASSUME IInv, [Next]_vars, pipes # <<>>, \A c \in active : c.phase = "closing"
        PROVE  active' \subseteq active
    <2>1. Len(pipes) # 0
      BY <1>1, EmptySeq DEF IInv, TypeOK
    <2>2. \A c \in active : ~ContentReady(c) /\ c.phase \notin {"streamTo", "subSteps"}
      BY <1>1 DEF ContentReady
    <2>3. ~Batches
      BY <2>2 DEF Batches, StreamedTo, BatchDone, LastBatchDone, BatchFails, LastBatchFails
    <2>4. CASE Callback
      BY <1>1, <2>4 DEF Callback, AfterEnd, LastBatch, AfterError, BatchRejected
    <2>5. CASE Emits
      BY <1>1, <2>1, <2>5
         DEF Emits, CollectRow, CutBatch, CutBatchBody, EndOfRows, StreamError
    <2> QED
      BY <1>1, <2>3, <2>4, <2>5 DEF Next, vars, OpenStream, OpenFails, ReleaseRunner
  <1>2. IInv /\ [Next]_vars
          => [(pipes # <<>> /\ \A c \in active : c.phase = "closing")
                => active' \subseteq active]_vars
    BY <1>1
  <1> QED
    BY <1>2, Invariance, PTL DEF Spec, FailureFencesQueue

-----------------------------------------------------------------------------
(* What a step can do to the three variables the abstraction sees. *)
LEMMA OutcomeSettles ==
  ASSUME TypeOK, [Next]_vars, outcome' # outcome
  PROVE  /\ outcome = "pending" /\ outcome' \in {"resolved", "rejected"}
         /\ UNCHANGED <<received, handed>>
  BY DEF Next, Emits, Callback, Batches, Settle, vars, TypeOK,
         OpenStream, OpenFails, CollectRow, CutBatch, CutBatchBody, EndOfRows, StreamError,
         AfterEnd, LastBatch, AfterError, BatchRejected, StreamedTo, BatchDone,
         LastBatchDone, BatchFails, LastBatchFails, ReleaseRunner

LEMMA ResolvedStops ==
  ASSUME TypeOK, Shape, Resolution, outcome = "resolved", [Next]_vars
  PROVE  UNCHANGED <<received, handed, outcome>>
  <1>1. ending = "done" /\ active = {} /\ source = "ended"
    BY DEF Resolution, Shape, EventShape
  <1>2. OpenStream \/ OpenFails \/ AfterError \/ ReleaseRunner \/ UNCHANGED vars
    BY <1>1 DEF Next, Emits, CollectRow, CutBatch, CutBatchBody, RowArrives, EndOfRows, StreamError,
                Callback, AfterEnd, LastBatch, Batches
  <1> QED
    BY <1>2 DEF OpenStream, OpenFails, AfterError, ReleaseRunner, Settle, vars

LEMMA HandedGrows ==
  ASSUME TypeOK, Shape, [Next]_vars
  PROVE  received' \in {received, received + 1} /\ Len(handed) <= Len(handed')
<1>r. handed \in Seq(Nat) /\ Len(handed) \in Nat /\ rows \in Seq(Nat) /\ pipes \in Seq(Batch)
  BY LenProperties DEF TypeOK
<1>1. ASSUME NEW r \in Seq(Nat), handed' = handed \o r PROVE Len(handed) <= Len(handed')
  <2>1. Len(handed') = Len(handed) + Len(r) /\ Len(r) \in Nat
    BY <1>r, <1>1, ConcatProperties, LenProperties
  <2> QED
    BY <1>r, <2>1
<1>2. handed' = handed => Len(handed) <= Len(handed')
  BY <1>r
<1>3. CASE CutBatch
  <2>1. received' = received + 1 /\ Collected \in Seq(Nat)
    BY <1>3, CutBatches DEF CutBatch, CutBatchBody, RowArrives
  <2>2. handed' = handed \/ handed' = handed \o Collected
    BY <1>3, CutEffect
  <2> QED
    BY <1>1, <1>2, <2>1, <2>2
<1>4. CASE AfterEnd
  <2>1. received' = received
    BY <1>4 DEF AfterEnd, LastBatch
  <2>2. handed' = handed \/ handed' = handed \o rows
    BY <1>4, LastEffect
  <2> QED
    BY <1>r, <1>1, <1>2, <2>1, <2>2
<1>5. ASSUME NEW c \in active, BatchDone(c)
      PROVE  received' \in {received, received + 1} /\ Len(handed) <= Len(handed')
  <2>1. received' = received /\ ~c.batch.end /\ ShiftAndRun(c)
    BY <1>5 DEF BatchDone
  <2>2. CASE Len(pipes) > 1
    <3>1. pipes[2].rows \in Seq(Nat) /\ handed' = handed \o pipes[2].rows
      BY <2>1, <2>2, ShiftEffect, BatchParts
    <3> QED
      BY <1>1, <2>1, <3>1
  <2>3. CASE Len(pipes) = 1
    BY <1>2, <2>1, <2>3, ShiftEffect
  <2> QED
    <3>1. \A n \in Nat \ {0} : n = 1 \/ n > 1
      OBVIOUS
    <3>2. Len(pipes) \in Nat \ {0}
      BY <2>1, ShiftEffect
    <3> QED
      BY <2>2, <2>3, <3>1, <3>2
<1>6. CASE CollectRow
  BY <1>2, <1>6 DEF CollectRow, RowArrives
<1>7. CASE \/ OpenStream \/ OpenFails \/ EndOfRows \/ StreamError
           \/ AfterError \/ ReleaseRunner \/ UNCHANGED vars
  BY <1>2, <1>7 DEF OpenStream, OpenFails, EndOfRows, StreamError, AfterError, ReleaseRunner, vars
<1>8. ASSUME NEW c \in active,
             BatchRejected(c) \/ StreamedTo(c) \/ LastBatchDone(c) \/ BatchFails(c) \/ LastBatchFails(c)
      PROVE  received' \in {received, received + 1} /\ Len(handed) <= Len(handed')
  BY <1>2, <1>8 DEF BatchRejected, StreamedTo, LastBatchDone, BatchFails, LastBatchFails
<1> QED
  BY <1>3, <1>4, <1>5, <1>6, <1>7, <1>8 DEF Next, Emits, Callback, Batches

(* The cursor load implements the ordered delivery of OrderedDelivery. *)
THEOREM Refinement == Spec => DeliversInOrder
  <1> USE DEF Delivery!FirstRows
  <1>1. Init => Delivery!Init
    BY DEF Init, Delivery!Init
  <1>2. ASSUME IInv, IInv', [Next]_vars
        PROVE  [Delivery!Next]_<<received, handed, outcome>>
    <2>1. /\ received \in Nat /\ handed = [i \in 1..Len(handed) |-> i]
          /\ Len(handed) \in Nat /\ Len(handed) <= received
      <3>1. received \in Nat /\ handed \in Seq(Nat)
        BY <1>2 DEF IInv, TypeOK
      <3>2. \A i \in 1..Len(handed) : handed[i] = i
        BY <1>2 DEF IInv, Order, HandedOrder
      <3> QED
        BY <1>2, <3>1, <3>2, LenProperties DEF IInv, Arrived
    <2>2. /\ received' \in Nat /\ handed' = [i \in 1..Len(handed') |-> i]
          /\ Len(handed') \in Nat /\ Len(handed') <= received'
      <3>1. received' \in Nat /\ handed' \in Seq(Nat)
        BY <1>2 DEF IInv, TypeOK
      <3>2. \A i \in 1..Len(handed') : handed'[i] = i
        BY <1>2 DEF IInv, Order, HandedOrder
      <3> QED
        BY <1>2, <3>1, <3>2, LenProperties DEF IInv, Arrived
    <2>3. CASE outcome = "resolved"
      BY <1>2, <2>3, ResolvedStops DEF IInv
    <2>4. CASE outcome # "resolved" /\ outcome' = outcome
      <3>1. received' \in {received, received + 1} /\ Len(handed) <= Len(handed')
        BY <1>2, HandedGrows DEF IInv
      <3>2. Len(handed') \in Len(handed)..received'
        BY <2>1, <2>2, <3>1
      <3> QED
        BY <2>2, <2>4, <3>1, <3>2 DEF Delivery!Next, Delivery!Progress
    <2>5. CASE outcome # "resolved" /\ outcome' # outcome
      <3>1. /\ outcome = "pending" /\ outcome' \in {"resolved", "rejected"}
            /\ UNCHANGED <<received, handed>>
        BY <1>2, <2>5, OutcomeSettles DEF IInv
      <3>2. CASE outcome' = "rejected"
        BY <3>1, <3>2 DEF Delivery!Next, Delivery!Reject
      <3>3. CASE outcome' = "resolved"
        <4>1. Len(handed') = received'
          BY <1>2, <3>3 DEF IInv, Resolution
        <4>2. handed = [i \in 1..received |-> i]
          BY <2>1, <3>1, <4>1
        <4> QED
          BY <3>1, <3>3, <4>2 DEF Delivery!Next, Delivery!Resolve
      <3> QED
        BY <3>1, <3>2, <3>3
    <2> QED
      BY <2>3, <2>4, <2>5
  <1> QED
    BY <1>1, <1>2, Invariance, PTL DEF Spec, DeliversInOrder, Delivery!Spec
=============================================================================
