------------------------------- MODULE SqlSteps -------------------------------
(***************************************************************************)
(* The steps that execute such a template: load one or many, save, bulk    *)
(* save (typeorm-step/*-by-sql-step.ts), several requests at a time, over  *)
(* the process-wide cache of parsed templates, each either autonomous (its *)
(* own runner, every statement is committed by itself) or in the           *)
(* transaction of transactional step sets, which commit when the step has  *)
(* returned and roll back when it fails.  The database is external: it     *)
(* answers a statement or refuses it (at most Refusals times), and keeps a *)
(* row per saved item, named <<request, number of the item>>, with the     *)
(* parameters bound for it.                                                *)
(***************************************************************************)
EXTENDS SqlTemplate, SavedRows

CONSTANTS
  Steps,        \* step -> [sql, type]: its template (<<>> if none), its dialect
  Calls,        \* the calls a request may be
  CacheEnabled, \* typeorm.sql.cache.enabled
  Refusals      \* bound on the refusals of the database

(* What is assumed of the calls; the modules that give them values assume  *)
(* it.                                                                     *)
CallsAssumption ==
  \A c \in Calls :
    /\ {"step", "sql", "kind", "items", "trans"} \subseteq DOMAIN c
    /\ c.kind \in {"load", "save"} /\ c.trans \in BOOLEAN
    /\ c.items \in Seq(ToSet(c.items))

(* The template of a call: sql of the in fragment, or else of the step, for *)
(* the dialect.                                                            *)
SqlOf(c) ==
  LET step == Steps[c.step]
      sql == IF c.sql # <<>> THEN c.sql ELSE step.sql
  IN ReplaceSqlPagination(sql, step.type)

(* The variable a save has for a column of this suffix.                    *)
ColumnVariable(name, suffix) ==
  [type |-> "single", variable |-> IF suffix = "" THEN <<name>> ELSE <<name, suffix>>]

(* The template of a save with columns has its variables, once each and in *)
(* the order of the columns.                                               *)
HasVariables(c) ==
  LET segments == ParseSql(SqlOf(c))
      variables(k) == Cardinality({j \in 1..k : segments[j].type # "none"})
  IN /\ segments \in Seq(ToSet(segments))
     /\ variables(Len(segments)) = Len(c.columns)
     /\ \A k \in 1..Len(segments) : segments[k].type # "none" =>
          segments[k] = ColumnVariable(c.variables[variables(k)], c.columns[variables(k)])

(* A column of this suffix can keep the value; a text for ".@ts" is a      *)
(* point in time, its format is left out.                                  *)
Keeps(suffix, value) ==
  /\ value.t # "json" /\ (suffix = ".@json" => value.t # "bool")
  /\ value.t \in {"text", "date"} => value = [t |-> value.t, v |-> value.v]
  /\ value.t = "date" => value.v # ""

(* The items of a save with columns have values its columns can keep.      *)
GivesColumns(c) ==
  /\ c.columns \in Seq(Conversions \union {""})
  /\ \A n \in DOMAIN c.columns : c.variables[n] \notin Conversions
  /\ \A i \in DOMAIN c.items :
       /\ {"are", "data"} \subseteq DOMAIN c.items[i] /\ c.items[i].are = "named"
       /\ \A n \in DOMAIN c.columns :
            /\ c.variables[n] \in DOMAIN c.items[i].data
            /\ Keeps(c.columns[n], c.items[i].data[c.variables[n]])

ColumnsAssumption ==
  \A c \in Calls :
    /\ {"columns", "variables"} \subseteq DOMAIN c
    /\ c.kind = "save" /\ c.columns # <<>> => HasVariables(c) /\ GivesColumns(c)

VARIABLES
  cache,     \* PARSED_SQL_CACHE, a function of the texts it holds
  parsed,    \* step -> _parsedSqlSegments
  sent,      \* request -> the statements sent so far
  refused    \* how often the database refused

vars == <<cache, parsed, call, at, sent, durable, pending, refused>>

Init ==
  /\ cache = [sql \in {} |-> <<>>]
  /\ parsed = [s \in DOMAIN Steps |-> <<>>]
  /\ call \in [Requests -> Calls]
  /\ at = [r \in Requests |-> [pc |-> "new", item |-> 0, result |-> <<>>]]
  /\ sent = [r \in Requests |-> <<>>]
  /\ durable = {}
  /\ pending = [r \in Requests |-> {}]
  /\ refused = 0

(* parseSql with the cache in front. *)
SegmentsFor(sql) ==
  IF CacheEnabled /\ sql \in DOMAIN cache THEN cache[sql] ELSE ParseSql(sql)

Remembered(sql, segments) ==
  IF HasOneOf(segments) THEN cache
  ELSE [known \in DOMAIN cache \union {sql} |->
          IF known = sql THEN segments ELSE cache[known]]

(***************************************************************************)
(* getSql for an item of a request, and runner.query with what it returns. *)
(* Parameters that are an array, or none, leave the template as it is.     *)
(***************************************************************************)
Send(r, item) ==
  LET sql == SqlOf(call[r])
      given == call[r].items[item]
      segments == SegmentsFor(sql)
  IN IF given.are = "named"
       THEN /\ parsed' = [parsed EXCEPT ![call[r].step] = segments]
            /\ cache' = Remembered(sql, segments)
            /\ call' = [call EXCEPT ![r].items[item].data = Pushed(segments, @)]
            /\ sent' = [sent EXCEPT ![r] = Append(@,
                 Composed(segments, given.data, Steps[call[r].step].type))]
       ELSE /\ sent' = [sent EXCEPT ![r] =
                 Append(@, [sql |-> Text(sql), params |-> given.data])]
            /\ UNCHANGED <<parsed, cache, call>>

HasSql(r) == call[r].sql # <<>> \/ Steps[call[r].step].sql # <<>>

(* doPerform: nothing to save returns at once, no SQL is an error. *)
Perform(r) ==
  /\ at[r].pc = "new"
  /\ \/ /\ call[r].items = <<>>
        /\ at' = [at EXCEPT ![r].pc = "returned"]
        /\ UNCHANGED <<cache, parsed, call, sent>>
     \/ /\ call[r].items # <<>> /\ ~HasSql(r)
        /\ at' = [at EXCEPT ![r].pc = "failed"]
        /\ UNCHANGED <<cache, parsed, call, sent>>
     \/ /\ call[r].items # <<>> /\ HasSql(r)
        /\ Send(r, 1)
        /\ at' = [at EXCEPT ![r].pc = "sent", ![r].item = 1]
  /\ UNCHANGED <<durable, pending, refused>>

Row(r) == [by |-> r, item |-> at[r].item, bound |-> Last(sent[r]).params]

(* What one statement makes of the rows: a save in a transaction is seen   *)
(* by no other runner before the commit.                                   *)
Write(r) ==
  IF call[r].trans
    THEN pending' = [pending EXCEPT ![r] = @ \union {Row(r)}] /\ UNCHANGED durable
    ELSE durable' = durable \union {Row(r)} /\ UNCHANGED pending

(* Mutant: the loop of the bulk save ends with the first result. *)
NextItemStopsAtFirst(r) ==
  /\ at' = [at EXCEPT ![r].pc = "returned", ![r].result = Append(@, <<r, at[r].item>>)]
  /\ UNCHANGED <<cache, parsed, call, sent>>

(* The loop of the bulk save goes on with the next item. *)
NextItem(r) ==
  LET item == at[r].item IN
  IF item < Len(call[r].items)
    THEN /\ Send(r, item + 1)
         /\ at' = [at EXCEPT ![r].item = item + 1, ![r].result = Append(@, <<r, item>>)]
    ELSE /\ at' = [at EXCEPT ![r].pc = "returned", ![r].result = Append(@, <<r, item>>)]
         /\ UNCHANGED <<cache, parsed, call, sent>>

Saved(r) ==
  /\ at[r].pc = "sent" /\ call[r].kind # "load"
  /\ Write(r)
  /\ NextItem(r)
  /\ UNCHANGED refused

(***************************************************************************)
(* beautify: a column of a loaded row named with a suffix.  A text for     *)
(* ".@json" is parsed, and one that is no JSON throws.                     *)
(***************************************************************************)
Blank(value) == value \in {Null, [t |-> "text", v |-> ""]}

ParseJson(value) ==
  CASE value.t = "json" -> AsText(value.v)
    [] value.t # "json" /\ value.v \in DOMAIN JsonTexts -> JsonTexts[value.v]
    [] OTHER -> Unreadable

(* Mutant: a number is not looked at for a boolean column. *)
BeautifiedNumberKept(suffix, value) ==
  CASE suffix = "" -> value
    [] suffix # "" /\ Blank(value) ->
         IF suffix = ".@bool" THEN [t |-> "bool", v |-> "false"] ELSE Null
    [] suffix # "" /\ value.t = "date" -> AsText(value)
    [] suffix = ".@bool" /\ value.t = "text" /\ ~Blank(value) ->
         [t |-> "bool", v |-> IF value.v = "1" THEN "true" ELSE "false"]
    [] suffix = ".@json" /\ value.t \in {"text", "json"} /\ ~Blank(value) -> ParseJson(value)
    [] OTHER -> value

Beautified(suffix, value) ==
  CASE suffix = "" -> value
    [] suffix # "" /\ Blank(value) ->
         IF suffix = ".@bool" THEN [t |-> "bool", v |-> "false"] ELSE Null
    [] suffix # "" /\ value.t = "date" -> AsText(value)
    [] suffix = ".@bool" /\ value.t \in {"text", "number"} /\ ~Blank(value) ->
         [t |-> "bool", v |-> IF value.v = "1" THEN "true" ELSE "false"]
    [] suffix = ".@json" /\ value.t \in {"text", "json"} /\ ~Blank(value) -> ParseJson(value)
    [] OTHER -> value

(***************************************************************************)
(* A load finds one of the rows committed by a save of the loaded columns, *)
(* or none.  A column keeps what was bound for it; the driver hands a      *)
(* boolean over as a number or a text, a timestamp as a text or a date,    *)
(* JSON as a text or as the object it says.  A column that throws fails    *)
(* the step.                                                               *)
(***************************************************************************)
Delivered(suffix, value) ==
  CASE suffix = ".@bool" /\ value.t = "number" -> {value, [value EXCEPT !.t = "text"]}
    [] suffix = ".@ts" /\ value.t \in {"text", "date"} /\ ~Blank(value) ->
         {[value EXCEPT !.t = "text"], [value EXCEPT !.t = "date"]}
    [] suffix = ".@json" /\ value.t = "json" ->
         {value} \union (IF value.v.t = "date" THEN {} ELSE {value.v})
    [] OTHER -> {value}

Loaded(r) ==
  /\ at[r].pc = "sent" /\ call[r].kind = "load"
  /\ \/ at' = [at EXCEPT ![r].pc = "returned"]
     \/ \E row \in durable :
          /\ call[row.by].columns = call[r].columns
          /\ \E data \in [DOMAIN call[r].columns ->
                            UNION {Delivered(call[r].columns[k], row.bound[k]) :
                                     k \in DOMAIN call[r].columns}] :
               /\ \A k \in DOMAIN data :
                    data[k] \in Delivered(call[r].columns[k], row.bound[k])
               /\ LET read == [k \in DOMAIN data |->
                                 Beautified(call[r].columns[k], data[k])]
                      throws == \E k \in DOMAIN read : read[k] = Unreadable
                  IN at' = [at EXCEPT ![r].pc = IF throws THEN "failed" ELSE "returned",
                                      ![r].result = <<<<row.by, row.item>>, read>>]
  /\ UNCHANGED <<cache, parsed, call, sent, durable, pending, refused>>

(* The query rejects: the step fails with the items behind it unsent.      *)
Rejected(r) ==
  /\ at[r].pc = "sent" /\ refused < Refusals
  /\ refused' = refused + 1
  /\ at' = [at EXCEPT ![r].pc = "failed"]
  /\ UNCHANGED <<cache, parsed, call, sent, durable, pending>>

(* The transactional step sets around the step end. *)
EndOfSets(r) ==
  /\ call[r].trans /\ at[r].pc \in {"returned", "failed"} /\ pending[r] # {}
  /\ durable' = IF at[r].pc = "returned" THEN durable \union pending[r] ELSE durable
  /\ pending' = [pending EXCEPT ![r] = {}]
  /\ UNCHANGED <<cache, parsed, call, at, sent, refused>>

Next ==
  \E r \in Requests :
    Perform(r) \/ Saved(r) \/ Loaded(r) \/ Rejected(r) \/ EndOfSets(r)

Spec == Init /\ [][Next]_vars
=============================================================================
