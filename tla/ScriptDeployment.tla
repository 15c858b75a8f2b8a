-------------------------- MODULE ScriptDeployment --------------------------
(***************************************************************************)
(* The deployment of database scripts: the prebuilt pipeline every start   *)
(* of the script entry runs, by several deployers at the same time against *)
(* one database.  It makes its two tables, takes the row that is its lock, *)
(* runs the script files of its release that are not in the log, and gives *)
(* the lock back.                                                          *)
(*                                                                         *)
(* A step is a statement the database answers.  A statement may fail before*)
(* or after it took effect, and a deployer may crash at any of them; a     *)
(* transaction that is not committed is then discarded.                    *)
(***************************************************************************)
EXTENDS Naturals, Sequences

CONSTANTS
  Deployers,       (* the processes that deploy                             *)
  NumFiles,        (* the script files there ever were, by their order      *)
  Ddl,             (* those of them named *.ddl.sql                         *)
  Contents,        (* what a file may contain, told apart by its md5        *)
  Releases,        (* the directories that are deployed                     *)
  MaxDeployments   (* bound: how often a deployment is started              *)

None == "none"
Files == 1..NumFiles
NoRelease == [f \in Files |-> None]

ASSUME FilesAssumption == NumFiles \in Nat /\ Ddl \subseteq Files
ASSUME ReleasesAssumption ==
  None \notin Contents /\ Releases \subseteq [Files -> Contents \union {None}]
ASSUME DeploymentsAssumption == MaxDeployments \in Nat

VARIABLES
  lockTable, logTable,  (* do T_O23_DB_CHANGE_LOCK and ..._LOG exist        *)
  lock,                 (* the row of the lock table                        *)
  log,                  (* the contents in the log table, of each file      *)
  applied,              (* what the scripts of a file did to the database   *)
  pc,                   (* the statement a deployer waits for               *)
  release, at,          (* the scripts it loaded, and the one it is at      *)
  abandoned,            (* history: the one who took the lock ended with it *)
  deployments           (* how many were started                            *)

db == <<lockTable, logTable, lock, log, applied>>
vars == <<db, pc, release, at, abandoned, deployments>>

InTry == {"run", "record", "commit"}
Critical(d) == pc[d] \in {"load", "lookup", "unlock"} \union InTry
Creating == {"create lock", "create log", "create row"}
Statements ==
  {"check", "update lock", "insert lock", "load", "lookup", "unlock"} \union InTry \union Creating

Init ==
  /\ lockTable = FALSE
  /\ logTable = FALSE
  /\ lock = "absent"
  /\ log = [f \in Files |-> <<>>]
  /\ applied = [f \in Files |-> <<>>]
  /\ pc = [d \in Deployers |-> "idle"]
  /\ release = [d \in Deployers |-> NoRelease]
  /\ at = [d \in Deployers |-> 0]
  /\ abandoned = FALSE
  /\ deployments = 0
-----------------------------------------------------------------------------
(* Mutant: the lock is taken whoever has it. *)
RowThere == lock # "absent"

(* WHERE ID = 1 AND LOCKED != 1 *)
Unlocked == lock = "free"

(* Mutant: the script does not wait for its log entry. *)
AtOnce(f) == TRUE

(* A script the database keeps without a commit. *)
OutsideTransaction(f) == f \in Ddl

(* The statement d waits for takes effect in the database. *)
Effect(d) ==
  LET f == at[d] IN
  \/ /\ pc[d] = "create lock" /\ ~lockTable
     /\ lockTable' = TRUE
     /\ UNCHANGED <<logTable, lock, log, applied>>
  \/ /\ pc[d] = "create log" /\ ~logTable
     /\ logTable' = TRUE
     /\ UNCHANGED <<lockTable, lock, log, applied>>
  \/ /\ \/ pc[d] = "create row" /\ lock = "absent" /\ lock' = "free"
        \/ pc[d] = "update lock" /\ Unlocked /\ lock' = "held"
        \/ pc[d] = "insert lock" /\ lock = "absent" /\ lock' = "held"
        \/ pc[d] = "unlock" /\ lock # "absent" /\ lock' = "free"
     /\ UNCHANGED <<lockTable, logTable, log, applied>>
  \/ /\ pc[d] = "run" /\ OutsideTransaction(f)
     /\ applied' = [applied EXCEPT ![f] = Append(@, release[d][f])]
     /\ UNCHANGED <<lockTable, logTable, lock, log>>
  \/ /\ pc[d] = "record" /\ OutsideTransaction(f)
     /\ log' = [log EXCEPT ![f] = Append(@, release[d][f])]
     /\ UNCHANGED <<lockTable, logTable, lock, applied>>
  \/ /\ pc[d] = "commit"
     /\ log' = [log EXCEPT ![f] = Append(@, release[d][f])]
     /\ applied' = [applied EXCEPT ![f] = Append(@, release[d][f])]
     /\ UNCHANGED <<lockTable, logTable, lock>>

Goes(d, p) ==
  /\ pc' = [pc EXCEPT ![d] = p]
  /\ UNCHANGED <<release, at, abandoned>>

Ends(d) ==
  /\ pc' = [pc EXCEPT ![d] = "idle"]
  /\ release' = [release EXCEPT ![d] = NoRelease]
  /\ at' = [at EXCEPT ![d] = 0]

Start(d) ==
  /\ pc[d] = "idle"
  /\ deployments < MaxDeployments
  /\ deployments' = deployments + 1
  /\ Goes(d, "check")
  /\ UNCHANGED db

CheckExisting(d) ==
  /\ pc[d] = "check"
  /\ Goes(d, IF lockTable THEN "update lock" ELSE "create lock")
  /\ UNCHANGED <<db, deployments>>

CreateIfNotExists(d) ==
  /\ pc[d] \in Creating
  /\ Effect(d)
  /\ Goes(d, CASE pc[d] = "create lock" -> "create log"
               [] pc[d] = "create log" -> "create row"
               [] OTHER -> "update lock")
  /\ UNCHANGED deployments

TryToLock(d) ==
  /\ \/ pc[d] \in {"update lock", "insert lock"} /\ Effect(d) /\ Goes(d, "load")
     \/ pc[d] = "update lock" /\ ~Unlocked /\ Goes(d, "insert lock") /\ UNCHANGED db
  /\ UNCHANGED deployments
-----------------------------------------------------------------------------
(* Mutant: the files that are not this one are left. *)
Others(r, f) == {g \in Files : g # f /\ r[g] # None}

Rest(r, f) == {g \in Files : g > f /\ r[g] # None}

(* The each goes on with the script after f, or the step after it unlocks. *)
GoOn(d, r, f) ==
  /\ \/ /\ Rest(r, f) = {}
        /\ pc' = [pc EXCEPT ![d] = "unlock"]
        /\ UNCHANGED at
     \/ \E g \in Rest(r, f) :
          /\ \A h \in Rest(r, f) : g <= h
          /\ pc' = [pc EXCEPT ![d] = "lookup"]
          /\ at' = [at EXCEPT ![d] = g]
  /\ UNCHANGED <<abandoned, deployments>>

(* Mutant: the semaphore ends the steps around the each as well. *)
Break(d) == Ends(d) /\ UNCHANGED abandoned

(* The semaphore ends the each, and the step after it unlocks. *)
Semaphore(d) == Goes(d, "unlock")

LoadScripts(d) ==
  /\ pc[d] = "load"
  /\ \E r \in Releases :
       /\ release' = [release EXCEPT ![d] = r]
       /\ GoOn(d, r, 0)
  /\ UNCHANGED db

(* Mutant: the md5 of the log is not compared. *)
AnyMd5(d) == TRUE

SameMd5(d) == log[at[d]][1] = release[d][at[d]]

NotFound(d) == log[at[d]] = <<>>

SelectMd5(d) ==
  /\ pc[d] = "lookup"
  /\ logTable
  /\ \/ NotFound(d) /\ Goes(d, "run") /\ UNCHANGED deployments
     \/ ~NotFound(d) /\ ~SameMd5(d) /\ Semaphore(d) /\ UNCHANGED deployments
     \/ ~NotFound(d) /\ SameMd5(d) /\ GoOn(d, release[d], at[d]) /\ UNCHANGED release
  /\ UNCHANGED db

(* Of a script that is no DDL the first statement opens a transaction. *)
Execute(d) ==
  /\ pc[d] = "run"
  /\ Effect(d) \/ (~OutsideTransaction(at[d]) /\ UNCHANGED db)
  /\ Goes(d, "record")
  /\ UNCHANGED deployments

Record(d) ==
  /\ pc[d] = "record"
  /\ \/ OutsideTransaction(at[d]) /\ Effect(d) /\ GoOn(d, release[d], at[d]) /\ UNCHANGED release
     \/ ~OutsideTransaction(at[d]) /\ Goes(d, "commit") /\ UNCHANGED <<db, deployments>>

Commit(d) ==
  /\ pc[d] = "commit"
  /\ Effect(d)
  /\ GoOn(d, release[d], at[d])
  /\ UNCHANGED release

Unlock(d) ==
  /\ pc[d] = "unlock"
  /\ Effect(d)
  /\ Ends(d)
  /\ UNCHANGED <<abandoned, deployments>>
-----------------------------------------------------------------------------
(* The one who took the lock, or takes it with this statement, ends with it. *)
EndsWithLock(d) == lock' = "held" /\ (Critical(d) \/ lock # "held")

Abandons(d) ==
  /\ Ends(d)
  /\ abandoned' = (abandoned \/ EndsWithLock(d))

(* The statement of d fails, before or after it took effect: Check Existing *)
(* and the script itself catch it, the other steps throw.                  *)
Fails(d) ==
  /\ Effect(d) \/ UNCHANGED db
  /\ \/ pc[d] = "check" /\ Goes(d, "create lock")
     \/ pc[d] \in InTry /\ Semaphore(d)
     \/ pc[d] \in Statements \ ({"check"} \union InTry) /\ Abandons(d)
  /\ UNCHANGED deployments

Crash(d) ==
  /\ pc[d] \in Statements
  /\ Effect(d) \/ UNCHANGED db
  /\ Abandons(d)
  /\ UNCHANGED deployments

(* Nothing in the code frees a lock whose deployer is gone: an operator    *)
(* does, when no deployment works under it.                                *)
OperatorUnlocks ==
  /\ lock = "held"
  /\ \A d \in Deployers : ~Critical(d)
  /\ lock' = "free"
  /\ abandoned' = FALSE
  /\ UNCHANGED <<lockTable, logTable, log, applied, pc, release, at, deployments>>

Deploy(d) ==
  \/ CheckExisting(d)
  \/ CreateIfNotExists(d)
  \/ TryToLock(d)
  \/ LoadScripts(d)
  \/ SelectMd5(d)
  \/ Execute(d)
  \/ Record(d)
  \/ Commit(d)
  \/ Unlock(d)
  \/ Fails(d)

Next ==
  \/ \E d \in Deployers : Start(d) \/ Deploy(d) \/ Crash(d)
  \/ OperatorUnlocks

Spec == Init /\ [][Next]_vars

(* The database answers every statement. *)
FairSpec == Spec /\ \A d \in Deployers : WF_vars(Deploy(d))
-----------------------------------------------------------------------------
(* The types of the variables. *)
TypeOK ==
  /\ lockTable \in BOOLEAN
  /\ logTable \in BOOLEAN
  /\ lock \in {"absent", "free", "held"}
  /\ log \in [Files -> Seq(Contents)]
  /\ applied \in [Files -> Seq(Contents)]
  /\ pc \in [Deployers -> {"idle"} \union Statements]
  /\ release \in [Deployers -> [Files -> Contents \union {None}]]
  /\ at \in [Deployers -> 0..NumFiles]
  /\ abandoned \in BOOLEAN
  /\ deployments \in 0..MaxDeployments

(* At most one deployer works under the lock, while the row is marked:     *)
(* also when both find a database without tables, and after the crash of   *)
(* one (the UPDATE and the INSERT of Try to Lock).                         *)
OneDeployer ==
  \A d \in Deployers : Critical(d) =>
    /\ lock = "held"
    /\ \A e \in Deployers : Critical(e) => e = d

(* The log tells what ran: a file is in it once, with what was executed    *)
(* last, and a DML script had its effect exactly when it is, whichever     *)
(* statement failed or crashed (the transaction around script and entry).  *)
LogTellsWhatRan ==
  \A f \in Files :
    /\ Len(log[f]) <= 1
    /\ f \notin Ddl => applied[f] = log[f]
    /\ log[f] # <<>> => applied[f] # <<>> /\ applied[f][Len(applied[f])] = log[f][1]

(* What is in the log is final: no deployment, of this release or another, *)
(* executes a script of that file again.                                   *)
RecordedIsFinal ==
  [][\A f \in Files : log[f] # <<>> => applied'[f] = applied[f] /\ log'[f] = log[f]]_vars

(* A script has its effect only after every script its release lists before *)
(* it is in the log, with the content the release has (a script that fails,*)
(* or was changed, holds up the ones behind it).                           *)
InReleaseOrder ==
  [][\A f \in Files : applied'[f] # applied[f] =>
       \E d \in Deployers :
         /\ at[d] = f
         /\ \A g \in 1..(f - 1) : release[d][g] # None => log[g] = <<release[d][g]>>]_vars

(* The lock is given back: it is held by a deployer at work, or by one that *)
(* crashed or met an error outside of the script's try; never by one whose *)
(* script failed or was changed.                                           *)
LockIsGivenBack ==
  lock = "held" => abandoned \/ \E d \in Deployers : Critical(d)

(* A deployment that was started ends. *)
DeploymentEnds ==
  \A d \in Deployers : (pc[d] # "idle") ~> (pc[d] = "idle")
=============================================================================
