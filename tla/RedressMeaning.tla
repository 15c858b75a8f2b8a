---------------------------- MODULE RedressMeaning ----------------------------
(***************************************************************************)
(* Where a step runs by the documentation: with the default data source if *)
(* it names none; in the transaction it names if a set around it, across   *)
(* layers, opened it; on a connection of its own if it says so, or if it   *)
(* names no transaction and none of its data source is open; otherwise it  *)
(* fails.  The transaction context is not passed to the steps of an async  *)
(* set.                                                                    *)
(***************************************************************************)
EXTENDS Redress

Loose(env) == ~env.strict

DataSourceMeant(env, given) ==
  IF Loose(env) /\ env.redressDataSource /\ given.datasource = Blank
  THEN DefaultDataSource ELSE given.datasource

KeyMeant(env, given) == <<DataSourceMeant(env, given), TransactionOf(given)>>

MeantToRunIn(env, step, open) ==
  LET datasource == DataSourceMeant(env, step)
      unopened == ~\E o \in open : o[1] = datasource
  IN IF step.autonomous
          \/ /\ Loose(env) /\ env.redressTransaction /\ datasource # Blank
             /\ step.transaction = Blank /\ unopened
     THEN <<"its own connection", datasource>>
     ELSE IF KeyMeant(env, step) \in open THEN <<"transaction">> \o KeyMeant(env, step)
     ELSE Fails

(* The steps in and of an object, with the transactions open around it. *)
RECURSIVE MeantInside(_, _, _)
MeantInside(env, given, open) ==
  LET around == CASE given.use = "transactional" -> open \union {KeyMeant(env, given)}
                  [] given.use = "async" -> {}
                  [] OTHER -> open
  IN (IF IsStatement(given) THEN <<MeantToRunIn(env, given, open)>> ELSE <<>>)
       \o FlattenSeq([k \in 1..Len(given.inside) |-> MeantInside(env, given.inside[k], around)])

MeantToRun(env, given) == MeantInside(env, given, {})
=============================================================================
