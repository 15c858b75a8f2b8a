----------------------------- MODULE SqlTemplate -----------------------------
(***************************************************************************)
(* The SQL of the typeorm steps (abstract-typeorm-by-sql-step.ts): how a   *)
(* template with named variables becomes a statement with placeholders and *)
(* the parameters bound to them.                                           *)
(* A template is a sequence of tokens: "$", "%", "...", a suffix such as   *)
(* ".@json", ".limit(", the characters that end a name, a line break, and  *)
(* any other word, a name among them.  A "$" is always followed by a name. *)
(* A value is a record with a field t ("null", "text", "object", "number", *)
(* "bool", "date", "list", and "json", a value that was serialised).       *)
(***************************************************************************)
EXTENDS Integers, Sequences, FiniteSets, SequencesExt, FiniteSetsExt

Dialects == {"postgres", "mssql", "oracle", "mysql"}

Null == [t |-> "null"]

(***************************************************************************)
(* replaceSqlPagination: $.limit(offset, limit) in one line.  The regular  *)
(* expression is greedy: the last $.limit of the line is replaced, up to   *)
(* the last ")" of the line, and the last "," inside of it divides.        *)
(***************************************************************************)
Positions(s, tokens) == {i \in 1..Len(s) : s[i] \in tokens}

Clause(type, ordered, offset, limit, rest) ==
  CASE type = "postgres" ->
         <<"OFFSET", " ">> \o offset \o <<" ", "LIMIT", " ">> \o limit \o rest
    [] type \in {"mssql", "oracle"} ->
         (IF type = "oracle" \/ ordered THEN <<>> ELSE <<"ORDER BY", " ", "1", " ">>)
           \o <<"OFFSET", " ">> \o offset \o <<" ", "ROWS FETCH NEXT", " ">>
           \o limit \o rest \o <<" ", "ROWS ONLY">>
    [] OTHER -> <<"LIMIT", " ">> \o offset \o <<",", " ">> \o limit \o rest

LineOfLimit(line, type, ordered) ==
  LET at == Max(Positions(line, {".limit("}))
      close == Max(Positions(line, {")"}))
      comma == Max({i \in Positions(line, {","}) : i < close})
      behind == IF line[comma + 1] = " " THEN comma + 2 ELSE comma + 1
  IN SubSeq(line, 1, at - 2)
       \o Clause(type, ordered, SubSeq(line, at + 1, comma - 1),
                 SubSeq(line, behind, close - 1),
                 SubSeq(line, close + 1, Len(line)))

(* Positions in their order. *)
Ascending(S) ==
  [k \in 1..Cardinality(S) |-> CHOOSE i \in S : Cardinality({j \in S : j <= i}) = k]

LinesOf(sql) ==
  LET breaks == Ascending({0} \union Positions(sql, {"\n"}) \union {Len(sql) + 1})
  IN [k \in 1..(Len(breaks) - 1) |->
        SubSeq(sql, IF k = 1 THEN 1 ELSE breaks[k], breaks[k + 1] - 1)]

ReplaceSqlPagination(sql, type) ==
  IF Positions(sql, {".limit("}) = {} THEN sql
  ELSE LET ordered == Positions(sql, {"ORDER BY"}) # {}
           lines == LinesOf(sql)
       IN FlattenSeq([k \in 1..Len(lines) |->
            IF Positions(lines[k], {".limit("}) = {} THEN lines[k]
            ELSE LineOfLimit(lines[k], type, ordered)])

(***************************************************************************)
(* parseSql: the pieces between the "$"; after one of them a variable up   *)
(* to the first character that ends a name, "%" being part of it.          *)
(***************************************************************************)
EndOfName == {" ", "\n", ",", ")", "+", "-", "*", "/", "%"}

Plain(tokens) == [type |-> "none", statement |-> tokens]

VariableSegment(marked, variable) ==
  LET like == variable # <<>> /\ Last(variable) = "%"
      many == variable # <<>> /\ Head(variable) = "..."
  IN CASE like /\ marked -> [type |-> "contains", variable |-> Front(variable)]
       [] like /\ ~marked -> [type |-> "starts-with", variable |-> Front(variable)]
       [] ~like /\ marked -> [type |-> "ends-with", variable |-> variable]
       [] ~like /\ ~marked /\ many -> [type |-> "one-of", variable |-> Tail(variable)]
       [] OTHER -> [type |-> "single", variable |-> variable]

(* Mutant: "%" behind a name ends the name like any other character. *)
AfterDollarShort(piece) ==
  LET marked == Head(piece) = "%"
      s == IF marked THEN Tail(piece) ELSE piece
      ends == Positions(s, EndOfName)
      first == Min(ends)
      cut == IF ends = {} THEN Len(s) ELSE first - 1
  IN <<VariableSegment(marked, SubSeq(s, 1, cut))>>
       \o (IF ends = {} THEN <<>> ELSE <<Plain(SubSeq(s, cut + 1, Len(s)))>>)

AfterDollar(piece) ==
  LET marked == Head(piece) = "%"
      s == IF marked THEN Tail(piece) ELSE piece
      ends == Positions(s, EndOfName)
      first == Min(ends)
      cut == IF ends = {} THEN Len(s) ELSE IF s[first] = "%" THEN first ELSE first - 1
  IN <<VariableSegment(marked, SubSeq(s, 1, cut))>>
       \o (IF ends = {} THEN <<>> ELSE <<Plain(SubSeq(s, cut + 1, Len(s)))>>)

ParseSql(sql) ==
  LET starts == Ascending({1} \union Positions(sql, {"$"}))
      piece(k) == SubSeq(sql, starts[k],
                         IF k = Len(starts) THEN Len(sql) ELSE starts[k + 1] - 1)
  IN FlattenSeq([k \in 1..Len(starts) |->
       IF Head(piece(k)) = "$" THEN AfterDollar(Tail(piece(k)))
       ELSE <<Plain(piece(k))>>])

HasOneOf(segments) == \E k \in 1..Len(segments) : segments[k].type = "one-of"

(***************************************************************************)
(* getBindingValue: the suffix of the variable converts the value.         *)
(***************************************************************************)
Conversions == {".@json", ".@bool", ".@ts"}

SuffixOf(variable) ==
  IF variable # <<>> /\ Last(variable) \in Conversions THEN Last(variable) ELSE ""

NameOf(variable) ==
  Head(variable)

ValueOf(data, variable) ==
  IF variable # <<>> /\ NameOf(variable) \in DOMAIN data
    THEN data[NameOf(variable)] ELSE Null

GetBindingValue(data, segment) ==
  LET value == ValueOf(data, segment.variable)
      suffix == SuffixOf(segment.variable)
  IN CASE value = Null -> Null
       [] value # Null /\ suffix = ".@json" ->
            IF value.t \in {"object", "list", "date"} THEN [t |-> "json", v |-> value]
            ELSE value
       [] value # Null /\ suffix = ".@bool" ->
            [t |-> "number",
             v |-> IF value \in {[t |-> "bool", v |-> "true"], [t |-> "text", v |-> "1"]}
                     THEN "1" ELSE "0"]
       [] OTHER -> value

(***************************************************************************)
(* computeSqlPlaceholder and the pieces of a statement: a token of text,   *)
(* or a placeholder with what is concatenated before and behind it and     *)
(* whether TO_TIMESTAMP stands around it.                                  *)
(***************************************************************************)
Text(tokens) == [k \in 1..Len(tokens) |-> [text |-> tokens[k]]]

ComputeSqlPlaceholder(segment, index, type) ==
  [sign |-> CASE type = "postgres" -> "$" [] type = "mssql" -> "@"
              [] type = "oracle" -> ":" [] OTHER -> "?",
   n |-> CASE type = "postgres" -> index + 1
           [] type \in {"mssql", "oracle"} -> index [] OTHER -> 0,
   stamp |-> type = "oracle" /\ segment.type = "single"
               /\ SuffixOf(segment.variable) = ".@ts"]

Placed(segment, index, type) ==
  [place |-> ComputeSqlPlaceholder(segment, index, type),
   before |-> segment.type \in {"contains", "ends-with"},
   after |-> segment.type \in {"contains", "starts-with"}]

(* ", " between the placeholders of a list. *)
Listed(segment, index, type, count) ==
  FlattenSeq([k \in 1..count |->
    (IF k = 1 THEN <<>> ELSE Text(<<",">>)) \o <<Placed(segment, index + k - 1, type)>>])

OneOfValues(data, segment) ==
  LET value == GetBindingValue(data, segment)
  IN IF value.t # "list" THEN <<value>>
     ELSE IF value.items = <<>> THEN <<Null>> ELSE value.items

Appended(parsed, segment, data, type) ==
  LET index == Len(parsed.params)
      values == OneOfValues(data, segment)
  IN CASE segment.type = "none" -> [parsed EXCEPT !.sql = @ \o Text(segment.statement)]
       [] segment.type = "one-of" ->
            [sql |-> parsed.sql \o Listed(segment, index, type, Len(values)),
             params |-> parsed.params \o values]
       [] OTHER ->
            [sql |-> Append(parsed.sql, Placed(segment, index, type)),
             params |-> Append(parsed.params, GetBindingValue(data, segment))]

(* The reduction of getSql over the parsed segments, and what it has come  *)
(* to after each of them.                                                  *)
ComposedUpTo(segments, data, type) ==
  LET composed[k \in 0..Len(segments)] ==
        IF k = 0 THEN [sql |-> <<>>, params |-> <<>>]
        ELSE Appended(composed[k - 1], segments[k], data, type)
  IN composed

Composed(segments, data, type) == ComposedUpTo(segments, data, type)[Len(segments)]

(* An empty list of the caller gets a null pushed into it. *)
Pushed(segments, data) ==
  [name \in DOMAIN data |->
     IF /\ data[name] = [t |-> "list", items |-> <<>>]
        /\ \E k \in 1..Len(segments) :
             /\ segments[k].type = "one-of"
             /\ segments[k].variable = <<name>>
       THEN [t |-> "list", items |-> <<Null>>] ELSE data[name]]
=============================================================================
