------------------------------ MODULE StepTrees ------------------------------
(***************************************************************************)
(* Which trees of steps the theorems about TransactionalSteps are about.   *)
(***************************************************************************)
EXTENDS TransactionalSteps

(* The steps that step n calls. *)
Calls(p, n) == ToSet(p.kids[n]) \union ({p.handler[n]} \ {None})

(* A step is called by one other, and its errors are handled by one apart. *)
IsTree(p) ==
  LET S == DOMAIN p.kind IN
  /\ None \notin S /\ 1 \in S /\ DOMAIN p.key = S
  /\ \A n \in S : Calls(p, n) \subseteq S \ {1} /\ p.handler[n] \notin ToSet(p.kids[n])
  /\ \A n, m \in S : n # m => Calls(p, n) \intersect Calls(p, m) = {}

(* The home of a step is the async step whose context it is to run in, or  *)
(* None for the context of the request.                                    *)
Homes(p, home) ==
  LET S == DOMAIN p.kind IN
  /\ home \in [S -> S \union {None}]
  /\ home[1] = None
  /\ \A n \in S :
       /\ \A m \in ToSet(p.kids[n]) : home[m] = IF p.kind[n] = "async" THEN n ELSE home[n]
       /\ p.handler[n] # None => home[p.handler[n]] = home[n]

(* Within a home a name stands for one transactional set, and what writes  *)
(* under the name is meant to run in it.                                   *)
NamesAreUnique(p, home) ==
  LET S == DOMAIN p.kind IN
  \A r, n \in S :
    p.kind[r] = "trans" /\ home[n] = home[r] /\ p.key[n] = p.key[r] =>
      /\ p.kind[n] = "trans" => n = r
      /\ p.kind[n] = "sql" => p.owner[n] = r

WellNamed(p, home) == IsTree(p) /\ Homes(p, home) /\ NamesAreUnique(p, home)

(* A step is a kid once, and none is below itself. *)
NoCycles(p) ==
  LET S == DOMAIN p.kind IN
  /\ \A n \in S :
       /\ p.kids[n] \in Seq(S)
       /\ \A i, j \in DOMAIN p.kids[n] : p.kids[n][i] = p.kids[n][j] => i = j
  /\ \A T \in SUBSET S : T # {} => \E m \in T : \A q \in T : m \notin Calls(p, q)

(* inside[o] holds steps that run one at a time while set o runs: its      *)
(* kids, and kids of sets and handlers inside; with them all its writers.  *)
OneByOne(p, inside) ==
  LET S == DOMAIN p.kind IN
  /\ NoCycles(p)
  /\ inside \in [S -> SUBSET S]
  /\ \A o \in S : \A m \in inside[o] :
       \/ m \in ToSet(p.kids[o])
       \/ \E q \in inside[o] :
            \/ m = p.handler[q]
            \/ p.kind[q] \in {"sets", "trans"} /\ m \in ToSet(p.kids[q])
  /\ \A n \in S :
       p.kind[n] = "sql" /\ p.owner[n] # None =>
         p.owner[n] \in S /\ p.kind[p.owner[n]] = "trans" /\ n \in inside[p.owner[n]]
=============================================================================
