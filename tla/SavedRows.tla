------------------------------ MODULE SavedRows ------------------------------
(***************************************************************************)
(* What the steps that load and save by SQL have of their requests, the    *)
(* rows that are in the database by then, and what a save promises of      *)
(* them.  SqlSteps says how the steps execute their statements.            *)
(***************************************************************************)
EXTENDS Naturals, Sequences, FiniteSets

CONSTANTS
  Requests,  \* the requests in flight
  JsonTexts  \* what the texts that are JSON say; any other text is none

VARIABLES
  call,      \* request -> the call: [step, sql, kind, items, trans, columns,
             \* variables]
  at,        \* request -> [pc, item, result]; of a load the row it found with
             \* what it read of it
  durable,   \* the rows committed
  pending    \* request -> rows written in the transaction around it

(* A save reaches the database item by item, in order: an autonomous one   *)
(* that failed has committed exactly the items before the failure, one     *)
(* that returned has committed all and has a result for each; one in a     *)
(* transaction is committed as a whole or not at all, never after failing. *)
BulkSavesAPrefix ==
  \A r \in Requests :
    LET rows == {row.item : row \in {d \in durable : d.by = r}}
        count == Cardinality(rows)
    IN call[r].kind = "save" =>
         /\ rows = 1..count
         /\ at[r].pc = "returned" =>
              /\ at[r].result = [k \in 1..Len(call[r].items) |-> <<r, k>>]
              /\ count = IF call[r].trans /\ pending[r] # {} THEN 0 ELSE Len(call[r].items)
         /\ at[r].pc \in {"sent", "failed"} =>
              count = IF call[r].trans \/ at[r].item = 0 THEN 0 ELSE at[r].item - 1

(***************************************************************************)
(* What a column named with a suffix gives back for the value a save with  *)
(* the same suffix was given.  A boolean is TRUE for true and "1".  A text *)
(* for ".@json" is read as JSON although the save did not serialise it: it *)
(* gives back what it says, and the load fails if it says nothing.  A date *)
(* comes back as a text; nothing, and for ".@json" and ".@ts" an empty     *)
(* text, as null.                                                          *)
(***************************************************************************)
Unreadable == [t |-> "unreadable"]

AsText(value) == IF value.t = "date" THEN [t |-> "text", v |-> value.v] ELSE value

GivenBack(value, suffix) ==
  CASE suffix = "" -> value
    [] suffix = ".@bool" ->
         [t |-> "bool",
          v |-> IF value \in {[t |-> "bool", v |-> "true"], [t |-> "text", v |-> "1"]}
                  THEN "true" ELSE "false"]
    [] suffix \in {".@json", ".@ts"} /\ value \in {[t |-> "null"], [t |-> "text", v |-> ""]} ->
         [t |-> "null"]
    [] suffix = ".@json" /\ value.t = "text" /\ value.v # "" ->
         IF value.v \in DOMAIN JsonTexts THEN JsonTexts[value.v] ELSE Unreadable
    [] OTHER -> AsText(value)

(* A load that found a row through columns named with .@json, .@bool and   *)
(* .@ts returns what the save of that row was given for them, as a column  *)
(* of the suffix gives it back, whichever way the driver hands over        *)
(* booleans, timestamps and JSON; it fails exactly if a text was saved for *)
(* .@json that is no JSON.                                                 *)
LoadedAsSaved ==
  \A r \in Requests :
    call[r].kind = "load" /\ at[r].result # <<>> =>
      LET row == at[r].result[1]
          saved == call[row[1]]
          data == saved.items[row[2]].data
          given(n) == GivenBack(data[saved.variables[n]], call[r].columns[n])
      IN /\ at[r].result[2] = [n \in DOMAIN call[r].columns |-> given(n)]
         /\ at[r].pc = IF \E n \in DOMAIN call[r].columns : given(n) = Unreadable
                         THEN "failed" ELSE "returned"
=============================================================================
