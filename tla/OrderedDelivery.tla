--------------------------- MODULE OrderedDelivery ---------------------------
(***************************************************************************)
(* What a cursor load promises to the steps behind it: the rows of the     *)
(* result set are handed over in their order, each once; when the promise  *)
(* resolves every row has been handed over, and nothing follows.  A        *)
(* rejected load may still hand over rows that had been emitted.           *)
(***************************************************************************)
EXTENDS Naturals, Sequences

VARIABLES
  emitted,      (* the number of rows the database has emitted             *)
  delivered,    (* the rows handed over, in the order of the hand-over     *)
  outcome

FirstRows(n) == [i \in 1..n |-> i]

Init == emitted = 0 /\ delivered = <<>> /\ outcome = "pending"

Progress ==
  /\ outcome # "resolved"
  /\ emitted' \in {emitted, emitted + 1}
  /\ \E n \in Len(delivered)..emitted' : delivered' = FirstRows(n)
  /\ UNCHANGED outcome

Resolve ==
  /\ outcome = "pending"
  /\ delivered = FirstRows(emitted)
  /\ outcome' = "resolved"
  /\ UNCHANGED <<emitted, delivered>>

Reject ==
  /\ outcome = "pending"
  /\ outcome' = "rejected"
  /\ UNCHANGED <<emitted, delivered>>

Next == Progress \/ Resolve \/ Reject

Spec == Init /\ [][Next]_<<emitted, delivered, outcome>>
=============================================================================
