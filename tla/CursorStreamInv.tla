--------------------------- MODULE CursorStreamInv ---------------------------
(***************************************************************************)
(* The inductive invariant behind the safety properties of CursorStream.   *)
(***************************************************************************)
EXTENDS CursorStream

(* A closure that runs is the head of the queue; the last batch may run    *)
(* without having been queued, and then the queue is empty.                *)
HeadRuns ==
  \A c \in active :
     /\ c.batch.end => /\ ending = "done"
                       /\ c.phase # "closing"
                       /\ Len(pipes) <= 1
                       /\ pipes # <<>> => pipes[1] = c.batch
     /\ ~c.batch.end => pipes # <<>> /\ pipes[1] = c.batch
     /\ ~options.steps => c.phase # "subSteps"

(* Batches are full but for the last one, which is queued behind the rest. *)
QueueShape ==
  \A i \in 1..Len(pipes) :
     IF pipes[i].end
     THEN i = Len(pipes) /\ ending = "done"
     ELSE Len(pipes[i].rows) = FetchSize

(* The stream's events: nothing before it opens, one end or one error. *)
EventShape ==
  /\ source \in {"opening", "unopened"} => pipes = <<>> /\ received = 0
  /\ ending # "no" => source = "ended"
  /\ erring # "no" => source = "errored"
  /\ options.pause => /\ source = "flowing" => pipes = <<>>
                      /\ ending # "done" => Len(pipes) <= 1
                      /\ Len(pipes) <= 2
                      /\ Len(pipes) = 2 => pipes[2].end

(* The buffer holds the rows that arrived last. *)
BufferShape ==
  /\ Len(rows) < FetchSize
  /\ Len(rows) <= received
  /\ \A k \in 1..Len(rows) : rows[k] = received - Len(rows) + k
  /\ ending = "done" => rows = <<>>

(* What was handed over are the first rows; a batch at the head has been   *)
(* handed over, and its rows are the last ones handed over.                *)
HandedOrder ==
  /\ \A i \in 1..Len(handed) : handed[i] = i
  /\ pipes # <<>> =>
        /\ Len(pipes[1].rows) <= Len(handed)
        /\ \A k \in 1..Len(pipes[1].rows) :
              pipes[1].rows[k] = Len(handed) - Len(pipes[1].rows) + k

(* Each batch continues where the one before it ends, *)
QueueOrder ==
  \A i \in 1..(Len(pipes) - 1) :
     \A k \in 1..Len(pipes[i + 1].rows) :
        pipes[i + 1].rows[k] = pipes[i].rows[FetchSize] + k

(* ... and the buffer where the queue ends. *)
NoGap ==
  /\ pipes = <<>> => Len(handed) = received - Len(rows)
  /\ pipes # <<>> /\ ~pipes[Len(pipes)].end =>
        pipes[Len(pipes)].rows[FetchSize] = received - Len(rows)
  /\ pipes # <<>> /\ pipes[Len(pipes)].end =>
        /\ Len(pipes) = 1 => Len(handed) = received
        /\ Len(pipes) > 1 =>
              pipes[Len(pipes) - 1].rows[FetchSize] + Len(pipes[Len(pipes)].rows)
                = received

(* Only rows that arrived are queued or handed over. *)
Arrived ==
  /\ Len(handed) <= received
  /\ \A i \in 1..Len(pipes) :
        \A k \in 1..Len(pipes[i].rows) : pipes[i].rows[k] <= received

(* The rounds seen so far, against the counter a closure is about to read. *)
RoundCount ==
  /\ \A i \in 1..Len(rounds) :
        rounds[i].round = i - 1 /\ (rounds[i].end => i = Len(rounds))
  /\ options.steps =>
        /\ \A c \in active :
              /\ c.phase = "streamTo" => Len(rounds) = cursorRound
              /\ c.phase = "subSteps" => /\ Len(rounds) = cursorRound + 1
                                         /\ rounds[Len(rounds)].end = c.batch.end
        /\ active = {} /\ pipes = <<>> /\ ending # "done" =>
              Len(rounds) = cursorRound
        /\ rounds # <<>> /\ rounds[Len(rounds)].end =>
              /\ ending = "done"
              /\ \A c \in active : c.batch.end /\ c.phase = "subSteps"
  /\ ~options.steps => rounds = <<>>

(* Only the last batch resolves, and nothing is left behind it. *)
Resolution ==
  outcome = "resolved" =>
     /\ ending = "done"
     /\ active = {}
     /\ Len(handed) = received
     /\ options.steps => rounds # <<>> /\ rounds[Len(rounds)].end

Shape == HeadRuns /\ OneBatchAtATime /\ QueueShape /\ EventShape /\ BufferShape
Order == HandedOrder /\ QueueOrder /\ NoGap

IInv == TypeOK /\ Shape /\ Order /\ Arrived /\ RoundCount /\ Resolution
=============================================================================
