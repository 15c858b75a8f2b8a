----------------------------- MODULE QueryRunner -----------------------------
(***************************************************************************)
(* External: the QueryRunner of typeorm 0.3 over a pooled connection, as   *)
(* the steps use it (connect, startTransaction, commitTransaction,         *)
(* rollbackTransaction, query, release), and the database session behind   *)
(* it.  A runner is a record:                                              *)
(*   state          "none", "open", "released"                             *)
(*   active, depth  the client's isTransactionActive, transactionDepth     *)
(*   wire           statements sent and not answered, in their order       *)
(*   stack          the session: rows written at each savepoint level of   *)
(*                  the open transaction, <<>> in autocommit mode          *)
(* A row is named after the step that writes it.                           *)
(***************************************************************************)
EXTENDS Integers, Sequences, SequencesExt

NewRunner == [state |-> "none", active |-> FALSE, depth |-> 0,
              wire |-> <<>>, stack |-> <<>>]

Opened(r) == [r EXCEPT !.state = "open"]

(* release() does not look at the transaction. *)
Released(r) == [r EXCEPT !.state = "released"]

(* What the client sends for a call, by the depth it has counted. *)
Statement(r, call) ==
  CASE call = "start" -> IF r.depth = 0 THEN "begin" ELSE "savepoint"
    [] call = "commit" -> IF r.depth > 1 THEN "releaseSavepoint" ELSE "commit"
    [] call = "rollback" -> IF r.depth > 1 THEN "rollbackTo" ELSE "rollback"
    [] call = "query" -> "write"

(* A released runner refuses every statement, one without a transaction    *)
(* has nothing to commit or to roll back.                                  *)
Refuses(r, call) ==
  \/ r.state = "released"
  \/ call \in {"commit", "rollback"} /\ ~r.active

Sent(r, call, step) ==
  [r EXCEPT !.wire = Append(@, [sql |-> Statement(r, call), by |-> step]),
            !.active = @ \/ call = "start"]

(* The session after the statement at the head of the wire. *)
Stacked(r) ==
  LET top == Len(r.stack) IN
  CASE Head(r.wire).sql = "begin" -> <<{}>>
    [] Head(r.wire).sql = "savepoint" -> Append(r.stack, {})
    [] Head(r.wire).sql = "write" ->
         IF top = 0 THEN <<>>
         ELSE [r.stack EXCEPT ![top] = @ \union {Head(r.wire).by}]
    [] Head(r.wire).sql = "releaseSavepoint" ->
         [Front(r.stack) EXCEPT ![top - 1] = @ \union r.stack[top]]
    [] Head(r.wire).sql = "rollbackTo" -> Front(r.stack)
    [] Head(r.wire).sql \in {"commit", "rollback"} -> <<>>

(* The rows it makes durable. *)
MadeDurable(r) ==
  CASE Head(r.wire).sql = "commit" -> UNION ToSet(r.stack)
    [] Head(r.wire).sql = "write" /\ r.stack = <<>> -> {Head(r.wire).by}
    [] OTHER -> {}

(* transactionDepth; -1 after the rollback that follows a failed begin. *)
Counted(r) ==
  CASE Head(r.wire).sql \in {"begin", "savepoint"} -> r.depth + 1
    [] Head(r.wire).sql = "write" -> r.depth
    [] OTHER -> r.depth - 1

Succeeded(r) ==
  [r EXCEPT !.wire = Tail(@), !.stack = Stacked(r), !.depth = Counted(r),
            !.active = @ /\ Head(r.wire).sql \notin {"commit", "rollback"}]

(* A statement that fails changes nothing; after a failed commit or        *)
(* rollback the database has discarded the transaction.                    *)
Failed(r) ==
  [r EXCEPT !.wire = Tail(@),
            !.stack = IF Head(r.wire).sql \in {"commit", "rollback"} THEN <<>> ELSE @]
=============================================================================
