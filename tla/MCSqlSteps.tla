------------------------------ MODULE MCSqlSteps ------------------------------
(***************************************************************************)
(* Templates of every style for four dialects, with what they mean given   *)
(* element by element, and the properties of the steps that execute them.  *)
(***************************************************************************)
EXTENDS SqlSteps

CONSTANTS r1, r2

txt(tokens) == [is |-> "text", tokens |-> tokens]
var(style, name, suffix) ==
  [is |-> "var", style |-> style, name |-> name, suffix |-> suffix]
limit(offset, count) == [is |-> "limit", offset |-> offset, count |-> count]

Insert ==
  <<txt(<<"INSERT", " ">>), var("single", "a", ".@json"), txt(<<",", " ">>),
    var("single", "b", ".@bool"), txt(<<",">>), var("single", "c", ".@ts"),
    txt(<<")">>)>>
Select ==
  <<txt(<<"SELECT", " ">>), var("contains", "x", ""), txt(<<" ", "AND", " ">>),
    var("starts-with", "y", ""), txt(<<",">>), var("ends-with", "x", ""),
    txt(<<")", "\n">>), var("one-of", "list", ""), txt(<<")">>),
    txt(<<"\n">>), limit("o", "n")>>
Paged ==
  <<txt(<<"SELECT", " ">>), var("single", "x", ""), txt(<<" ", "ORDER BY", " ", "1", "\n">>),
    limit("o", "n"), txt(<<"\n", "FOR UPDATE">>)>>

(* How an element is written. *)
Written(e) ==
  CASE e.is = "text" -> e.tokens
    [] e.is = "limit" -> <<"$", ".limit(", "$", e.offset, ",", " ", "$", e.count, ")">>
    [] e.is = "var" ->
         <<"$">> \o (IF e.style \in {"contains", "ends-with"} THEN <<"%">> ELSE <<>>)
           \o (IF e.style = "one-of" THEN <<"...">> ELSE <<>>)
           \o <<e.name>> \o (IF e.suffix = "" THEN <<>> ELSE <<e.suffix>>)
           \o (IF e.style \in {"contains", "starts-with"} THEN <<"%">> ELSE <<>>)

Sql(template) == FlattenSeq([k \in 1..Len(template) |-> Written(template[k])])

t(v) == [t |-> "text", v |-> v]
list(items) == [t |-> "list", items |-> items]
bool(v) == [t |-> "bool", v |-> v]
object(v) == [t |-> "object", v |-> v]

named(data) == [are |-> "named", data |-> data]
Item1 == named([a |-> object("p"), b |-> bool("true"), c |-> t("noon")])
Item2 == named([a |-> Null, b |-> t("1"), c |-> Null])
Item3 == named([a |-> object("q"), b |-> bool("false"), c |-> t("noon"), z |-> t("1")])
Item4 == named([a |-> t("12"), b |-> t("0"), c |-> [t |-> "date", v |-> "noon"]])
Item5 == named([a |-> t("word"), b |-> t(""), c |-> t("")])
Item6 == named([a |-> t(""), b |-> Null, c |-> t("noon")])
Item7 == named([a |-> [t |-> "date", v |-> "noon"], b |-> t("1"), c |-> Null])
Search(x, items) ==
  named([x |-> x, y |-> t("y"), list |-> items, o |-> t("5"), n |-> t("10")])

MCJsonTexts == "12" :> [t |-> "number", v |-> "12"] @@ "null" :> Null

MCSteps ==
  [pg |-> [sql |-> Sql(Insert), type |-> "postgres"],
   ora |-> [sql |-> Sql(Insert), type |-> "oracle"],
   ms |-> [sql |-> Sql(Select), type |-> "mssql"],
   my |-> [sql |-> <<>>, type |-> "mysql"]]

Typed == <<".@json", ".@bool", ".@ts">>
Untyped == <<>>
Symmetry == Permutations(Requests)

Saving(step, template, items, trans) ==
  [step |-> step, sql |-> IF MCSteps[step].sql = Sql(template) THEN <<>> ELSE Sql(template),
   template |-> template, kind |-> "save", items |-> items, trans |-> trans,
   columns |-> IF template = Insert THEN Typed ELSE Untyped,
   variables |-> IF template = Insert THEN <<"a", "b", "c">> ELSE <<>>]
Loading(step, template, item, columns) ==
  [step |-> step, sql |-> IF MCSteps[step].sql = Sql(template) THEN <<>> ELSE Sql(template),
   template |-> template, kind |-> "load", items |-> <<item>>, trans |-> FALSE,
   columns |-> columns, variables |-> <<>>]

MCCalls ==
  {Saving("pg", Insert, <<Item1, Item2, Item3>>, trans) : trans \in BOOLEAN}
  \union {Saving("my", Insert, <<Item2, Item1>>, FALSE),
          Saving("ora", Insert, <<Item3>>, TRUE),
          Saving("my", Insert, <<Item4, Item5>>, FALSE),
          Saving("pg", Insert, <<Item6, Item7>>, FALSE),
          Saving("ms", Insert, <<>>, FALSE),
          Saving("my", <<txt(<<"UPDATE", " ", "?">>)>>,
                 <<[are |-> "array", data |-> <<t("u")>>]>>, FALSE)}
  \union {Loading(step, Select, Search(t("x"), items), Typed) :
            step \in {"pg", "ora", "ms", "my"},
            items \in {list(<<>>), list(<<t("u"), t("v")>>), t("w")}}
  \union {Loading(step, Paged, Search(Null, Null), Typed) :
            step \in {"pg", "ora", "ms", "my"}}
  \union {Loading("my", <<>>, Item1, Typed)}

ASSUME CallsAssumption /\ ColumnsAssumption

-------------------------------------------------------------------------------
(***************************************************************************)
(* The meaning of a template: what the database is to be told, with the    *)
(* value of each variable in the place of the variable.                    *)
(***************************************************************************)
Value(data, name) == IF name \in DOMAIN data THEN data[name] ELSE Null

Stored(value, suffix) ==
  CASE suffix = ".@json" /\ value.t \in {"object", "date"} -> [t |-> "json", v |-> value]
    [] suffix = ".@bool" /\ value \in {bool("true"), t("1")} -> [t |-> "number", v |-> "1"]
    [] suffix = ".@bool" /\ value \in {bool("false"), t("0"), t("")} ->
         [t |-> "number", v |-> "0"]
    [] OTHER -> value

Told(value, before, after, stamp) ==
  [bound |-> value, before |-> before, after |-> after, stamp |-> stamp]

Joined(values) ==
  FlattenSeq([k \in 1..Len(values) |->
    (IF k = 1 THEN <<>> ELSE Text(<<",">>)) \o <<Told(values[k], FALSE, FALSE, FALSE)>>])

Members(value) ==
  IF value.t = "list" THEN IF value.items = <<>> THEN <<Null>> ELSE value.items
  ELSE <<value>>

Page(e, data, type, ordered) ==
  LET offset == <<Told(Value(data, e.offset), FALSE, FALSE, FALSE)>>
      count == <<Told(Value(data, e.count), FALSE, FALSE, FALSE)>>
  IN CASE type = "mysql" -> Text(<<"LIMIT", " ">>) \o offset \o Text(<<",", " ">>) \o count
       [] type = "postgres" -> Text(<<"OFFSET", " ">>) \o offset
                                 \o Text(<<" ", "LIMIT", " ">>) \o count
       [] OTHER -> (IF type = "mssql" /\ ~ordered
                      THEN Text(<<"ORDER BY", " ", "1", " ">>) ELSE <<>>)
                     \o Text(<<"OFFSET", " ">>) \o offset
                     \o Text(<<" ", "ROWS FETCH NEXT", " ">>) \o count
                     \o Text(<<" ", "ROWS ONLY">>)

Meaning(template, data, type) ==
  LET ordered == \E k \in 1..Len(template) :
                   template[k].is = "text" /\ "ORDER BY" \in ToSet(template[k].tokens)
      of(e) ==
        CASE e.is = "text" -> Text(e.tokens)
          [] e.is = "limit" -> Page(e, data, type, ordered)
          [] e.is = "var" ->
               IF e.style = "one-of" THEN Joined(Members(Value(data, e.name)))
               ELSE <<Told(Stored(Value(data, e.name), e.suffix),
                           e.style \in {"contains", "ends-with"},
                           e.style \in {"contains", "starts-with"},
                           type = "oracle" /\ e.style = "single" /\ e.suffix = ".@ts")>>
  IN FlattenSeq([k \in 1..Len(template) |-> of(template[k])])

(* How the database reads a statement: $n and ? count from 1, @n and :n    *)
(* from 0; a ? takes the next parameter.                                   *)
Reading(statement) ==
  LET sql == statement.sql
      isPlace(k) == "place" \in DOMAIN sql[k]
      order(k) == Cardinality({i \in 1..k : isPlace(i)})
      index(k) == CASE sql[k].place.sign = "?" -> order(k)
                    [] sql[k].place.sign = "$" -> sql[k].place.n
                    [] OTHER -> sql[k].place.n + 1
  IN [k \in 1..Len(sql) |->
        IF isPlace(k)
          THEN Told(statement.params[index(k)], sql[k].before, sql[k].after,
                    sql[k].place.stamp)
          ELSE sql[k]]

-------------------------------------------------------------------------------
(* Each statement sent to a database says what its template says, in the   *)
(* dialect, with the value of each variable where the variable stands: for *)
(* variables used twice, lists of any length, pagination, from the cache   *)
(* or parsed, and whoever else executes the same step or the same text.    *)
StatementsMeanTheirTemplates ==
  \A r \in Requests : \A k \in 1..Len(sent[r]) :
    LET item == call[r].items[k] IN
    item.are = "named" =>
      Reading(sent[r][k])
        = Meaning(call[r].template, item.data, Steps[call[r].step].type)
===============================================================================
