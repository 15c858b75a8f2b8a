------------------------ MODULE MCTransactionalSteps ------------------------
(***************************************************************************)
(* The step trees TransactionalSteps is checked on, with and without      *)
(* faults.  "a" and "b" are transaction keys, "" is the key of a step that *)
(* has none.                                                               *)
(***************************************************************************)
EXTENDS StepTrees

Step(kind, kids, key, handler, owner) ==
  [kind |-> kind, kids |-> kids, key |-> key, handler |-> handler, owner |-> owner]

Plain(kind, kids) == Step(kind, kids, "", None, None)
Trans(key, kids) == Step("trans", kids, key, None, None)
Sql(key, owner) == Step("sql", <<>>, key, None, owner)
Catching(step, h) == [step EXCEPT !.handler = h]
Leaf(kind) == Plain(kind, <<>>)

Tree(steps, mayFail) ==
  [kind |-> [n \in DOMAIN steps |-> steps[n].kind],
   kids |-> [n \in DOMAIN steps |-> steps[n].kids],
   key |-> [n \in DOMAIN steps |-> steps[n].key],
   handler |-> [n \in DOMAIN steps |-> steps[n].handler],
   owner |-> [n \in DOMAIN steps |-> steps[n].owner],
   faults |-> mayFail]

(* Two transactions with names of their own, one inside the other. *)
Nested ==
  <<Trans("a", <<2, 3, 4>>), Sql("a", 1), Catching(Trans("b", <<5>>), 6),
    Sql("a", 1), Sql("b", 3), Leaf("snippet")>>

(* A write whose error is handled, between two others. *)
Handled ==
  <<Trans("a", <<2, 3, 4>>), Sql("a", 1), Catching(Sql("a", 1), 5), Sql("a", 1),
    Leaf("autonomous")>>

(* A transaction in the request and one of the same name started async.    *)
(* The writes in parallel are kept to the tree without faults: with them   *)
(* they are what LateSibling shows.                                        *)
Detached(body) ==
  <<Plain("sets", <<2, 3>>), Plain("async", <<4>>), Trans("a", <<5, 6>>),
    Trans("a", <<7>>), Plain(body, <<8, 9>>), Leaf("snippet"), Sql("a", 4),
    Sql("a", 3), Sql("a", 3)>>

(* An async step inside a transaction writes with the name of its caller.  *)
AsyncInside ==
  <<Trans("a", <<2, 3>>), Plain("async", <<4>>), Sql("a", 1), Sql("a", None)>>

(* Autonomous writes that race, beside a set that fails or not. *)
Racing ==
  <<Plain("parallel", <<2, 3>>), Plain("race", <<4, 5>>), Trans("a", <<6, 7>>),
    Leaf("autonomous"), Leaf("autonomous"), Sql("a", 3), Leaf("snippet")>>

(* Two sets with one name, one behind the other: the second one finds the  *)
(* runner that the first has released.                                     *)
Siblings ==
  <<Plain("sets", <<2, 3>>), Trans("a", <<4>>), Catching(Trans("a", <<5>>), 6),
    Sql("a", 2), Sql("a", 3), Leaf("autonomous")>>

MCPlans ==
  {Tree(steps, f) : steps \in {Nested, Handled, Detached("sets"), Racing},
                    f \in BOOLEAN}
    \union {Tree(Detached("parallel"), FALSE),
            Tree(AsyncInside, TRUE), Tree(Siblings, TRUE)}

(* Two steps of one transaction in parallel: one fails, and the other gets *)
(* to its write while the rollback is on its way.                          *)
LateSibling ==
  {Tree(<<Trans("a", <<2>>), Plain("parallel", <<3, 4>>), Leaf("snippet"),
          Plain("sets", <<5, 6>>), Leaf("autonomous"), Sql("a", 1)>>, TRUE)}

(* The home of each step, and the steps that run one by one inside it. *)
CallerOf(p, m) == CHOOSE n \in DOMAIN p.kind : m \in Calls(p, n)

HomeOf(p) ==
  LET home[m \in DOMAIN p.kind] ==
        IF m = 1 THEN None
        ELSE LET n == CallerOf(p, m) IN IF p.kind[n] = "async" THEN n ELSE home[n]
  IN  home

InsideOf(p) ==
  LET in(o) ==
        LET below[m \in DOMAIN p.kind] ==
              /\ m # 1
              /\ LET n == CallerOf(p, m) IN
                 \/ n = o /\ m \in ToSet(p.kids[o])
                 \/ (m = p.handler[n] \/ p.kind[n] \in {"sets", "trans"}) /\ below[n]
        IN  {m \in DOMAIN p.kind : below[m]}
  IN  [o \in DOMAIN p.kind |-> in(o)]

(* Both assumptions of the theorems hold of every tree here but two:       *)
(* Siblings has no names that tell its sets apart, and the detached        *)
(* parallel set, like LateSibling, has names but no order of its writers.  *)
ASSUME Covered ==
  LET parallel == Tree(Detached("parallel"), FALSE)
      others == MCPlans \ {Tree(Siblings, TRUE), parallel}
  IN  /\ \A p \in others \union {parallel} : WellNamed(p, HomeOf(p))
      /\ \A p \in others : OneByOne(p, InsideOf(p))
      /\ \A p \in LateSibling : WellNamed(p, HomeOf(p)) /\ ~OneByOne(p, InsideOf(p))
=============================================================================
