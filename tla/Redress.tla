------------------------------- MODULE Redress -------------------------------
(***************************************************************************)
(* What the reader of definitions adds to typeorm steps outside of strict  *)
(* mode (config.ts of o23-n90): the default data source, and the           *)
(* transaction a step belongs to.  A definition is a tree of objects:      *)
(*   use          "transactional"; "cursor", the typeorm step with steps   *)
(*                of its own; "typeorm", any other one; "async", the async *)
(*                sets; or "other"                                         *)
(*   datasource, transaction   as they are written, or Blank               *)
(*   autonomous   declared TRUE or not                                     *)
(*   inside       the objects in it, in the order of their keys            *)
(* The objects of the reader's own (arrays, the pipeline) are "other".  A  *)
(* definition that can go several ways is one of these trees for each way. *)
(***************************************************************************)
EXTENDS Sequences, SequencesExt

Blank == ""
DefaultDataSource == "env:app.datasource.default"
DefaultTransaction == "$default"

IsStatement(given) == given.use \in {"typeorm", "cursor"}
IsTypeOrm(given) == given.use = "transactional" \/ IsStatement(given)

(* given.transaction || DEFAULT_TRANSACTION_NAME *)
TransactionOf(given) ==
  IF given.transaction = Blank THEN DefaultTransaction ELSE given.transaction

InstallDataSource(env, given) ==
  IF env.redressDataSource /\ IsTypeOrm(given) /\ given.datasource = Blank
  THEN [given EXCEPT !.datasource = DefaultDataSource]
  ELSE given

(* A transactional set puts its transaction into the context and takes it  *)
(* out again; the context is the set of the <<data source, transaction>>   *)
(* declared up to here.                                                    *)
Declared(env, given) ==
  IF env.redressTransaction /\ given.use = "transactional" /\ given.datasource # Blank
  THEN {<<given.datasource, TransactionOf(given)>>}
  ELSE {}

InstallTransaction(env, given, context) ==
  LET transactions == {c[2] : c \in {d \in context : d[1] = given.datasource}}
      own == TransactionOf(given)
  IN CASE \/ ~env.redressTransaction
          \/ ~IsStatement(given)
          \/ given.datasource = Blank
          \/ given.autonomous -> given
       [] OTHER ->
            IF transactions = {own} THEN [given EXCEPT !.transaction = own]
            ELSE IF transactions = {} /\ given.transaction = Blank
            THEN [given EXCEPT !.autonomous = TRUE]
            ELSE given

(***************************************************************************)
(* redress: the installs, the values in the order of their keys, and the   *)
(* uninstalls.                                                             *)
(***************************************************************************)
RECURSIVE Redress(_, _, _)
Redress(env, written, context) ==
  LET given == InstallDataSource(env, written)
      declared == Declared(env, given)
      children ==
        FoldLeft(LAMBDA done, child :
                   LET r == Redress(env, child, done.context)
                   IN [inside |-> Append(done.inside, r.given), context |-> r.context],
                 [inside |-> <<>>, context |-> context \union declared], given.inside)
  IN [given |-> [InstallTransaction(env, given, context) EXCEPT !.inside = children.inside],
      context |-> children.context \ declared]

(* redressDef of a definition under the switches of the environment. *)
Redressed(env, given) ==
  IF env.strict THEN given ELSE Redress(env, given, {}).given
-----------------------------------------------------------------------------
(***************************************************************************)
(* What the steps do when they are performed in their order, each after    *)
(* those before it ended well.  Of the transactions in the context, `trans`*)
(* has those whose sets are under way, and those whose set has ended and   *)
(* left its released runner.                                               *)
(***************************************************************************)
NoTrans == [open |-> {}, ended |-> {}]
TransactionKey(given) == <<given.datasource, TransactionOf(given)>>

Fails == <<"fails">>

(* isTransactional, and the statement on the runner there is. *)
RunsIn(step, trans) ==
  IF step.autonomous THEN <<"its own connection", step.datasource>>
  ELSE IF TransactionKey(step) \in trans.open THEN <<"transaction">> \o TransactionKey(step)
  ELSE Fails

(* The clone of an async set has no $trans; the temporary context of a     *)
(* cursor's steps has of its parent only the authorization and trace ids.  *)
HasClone(given) == given.use = "async"
HasTemporaryContext(given) == given.use = "cursor"
IsCutOff(given) == HasClone(given) \/ HasTemporaryContext(given)

(* A set finds the runner that one of its name has released. *)
CannotStart(given, trans) ==
  given.use = "transactional" /\ TransactionKey(given) \in trans.ended

Inherited(given, trans) ==
  IF IsCutOff(given) THEN NoTrans
  ELSE IF given.use = "transactional"
  THEN [trans EXCEPT !.open = @ \union {TransactionKey(given)}]
  ELSE trans

(* Commit or rollback, and release, also of the runner of a set around it. *)
LeftBy(given, trans, after) ==
  IF IsCutOff(given) \/ CannotStart(given, trans) THEN trans
  ELSE IF given.use = "transactional"
  THEN [open |-> after.open \ {TransactionKey(given)},
        ended |-> after.ended \union {TransactionKey(given)}]
  ELSE after

RECURSIVE Performed(_, _)
Performed(given, trans) ==
  LET inside ==
        FoldLeft(LAMBDA done, child :
                   LET p == Performed(child, done.trans)
                   IN [runs |-> done.runs \o p.runs, trans |-> p.trans],
                 [runs |-> <<>>, trans |-> Inherited(given, trans)], given.inside)
      own == IF IsStatement(given) THEN <<RunsIn(given, trans)>> ELSE <<>>
  IN [runs |-> own \o [k \in DOMAIN inside.runs |->
                         IF CannotStart(given, trans) THEN Fails ELSE inside.runs[k]],
      trans |-> LeftBy(given, trans, inside.trans)]

(* Where the steps of a definition run. *)
Runs(given) == Performed(given, NoTrans).runs
=============================================================================
