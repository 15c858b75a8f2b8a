---------------------------- MODULE MCFetchStep ----------------------------
(***************************************************************************)
(* Two fetch steps, one after the other or at the same time, to one        *)
(* endpoint or to two; and three of which two follow each other and the    *)
(* third runs beside them.                                                 *)
(***************************************************************************)
EXTENDS FetchStep

Fetch(after, endpoint, level, ownTrace, timeout, handles) ==
  [after |-> after, system |-> "order", endpoint |-> endpoint, level |-> level,
   ownTrace |-> ownTrace, timeout |-> timeout, handles |-> handles]

AllCodes == {Status, Abort, Unknown}

Chained ==
  <<Fetch(0, "order.purchase", "system", FALSE, TRUE, AllCodes),
    Fetch(1, "order.payment", "system", FALSE, TRUE, {Status, Abort})>>

Together ==
  <<Fetch(0, "order.purchase", "endpoint", FALSE, TRUE, {Abort, Unknown}),
    Fetch(0, "order.payment", "system", TRUE, FALSE, {Status, Unknown})>>

Repeated ==
  <<Fetch(0, "order.purchase", "endpoint", FALSE, TRUE, {}),
    Fetch(1, "order.purchase", "endpoint", FALSE, TRUE, {Status})>>

Beside ==
  <<Fetch(0, "order.purchase", "system", FALSE, FALSE, {}),
    Fetch(1, "order.payment", "system", FALSE, FALSE, {}),
    Fetch(0, "order.refund", "system", FALSE, FALSE, {})>>

MCPlans == {Chained, Together, Repeated, Beside}
=============================================================================
