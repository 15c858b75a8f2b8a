------------------------------- MODULE PrintCsv -------------------------------
(* PrintCsvPipelineStep (o23-n6): a template is read row by row into a tree of rows and loops,
   the tree is walked with the data, and the printed lines are collected in memory or, in
   portions, in a temporary file. Loops may run over a cursor, whose elements come in
   batches between which the print waits. The cursor is CursorStream, of which OrderedDelivery
   promises here what is used: the elements in order, each once. *)
EXTENDS Integers, Sequences, SequencesExt, FiniteSetsExt

CONSTANTS Data,        \* what each element has under each variable
          Root,        \* the data of the request
          LinesFresh,  \* lines collected before they are written to the temporary file
          FetchSize    \* elements in a batch of a cursor

\* What is assumed of the constants; the modules that give them values assume it.
SizesAssumption == LinesFresh \in Nat \ {0} /\ FetchSize \in Nat \ {0}

VARIABLES template,    \* the rows of the template
          inFile,      \* whether a temporary file is used
          ast,         \* rows parsed, each with the loop it is in (0: the sheet)
          walk,        \* the loops under way, innermost last
          tempLines,   \* lines in memory
          file,        \* lines in the temporary file; it exists once it has one
          outcome
vars == <<template, inFile, ast, walk, tempLines, file, outcome>>

Meaning == INSTANCE TemplateMeaning

-------------------------------------------------------------------------------
(* Parsing. A row of the template is [op, var, cells]; a cell is the sequence of its tokens. *)

RowsIn(loop) == {k \in DOMAIN ast : ast[k].in = loop}

\* The innermost loop that is open in a loop (0: the sheet): its last row, if that is an open loop.
RECURSIVE LastLoopRows(_)
LastLoopRows(loop) ==
    IF RowsIn(loop) = {} THEN loop
    ELSE LET last == Max(RowsIn(loop))
         IN  IF ast[last].type = "loop" /\ ~ast[last].end THEN LastLoopRows(last) ELSE loop

ParseCell(value) ==
    IF value = <<"$", ".", "$">> THEN [variable |-> TRUE, value |-> <<>>]
    ELSE IF value # <<>> /\ Head(value) = "$" THEN [variable |-> TRUE, value |-> Tail(value)]
    ELSE [variable |-> FALSE, value |-> value]

PushIntoAst(type, row) ==
    ast' = Append(ast, [type |-> type, in |-> LastLoopRows(0), var |-> row.var,
                        cells |-> [c \in DOMAIN row.cells |-> ParseCell(row.cells[c])], end |-> FALSE])

\* Row Parsed+1 is what parseAst refuses.
Refused(row) ==
    LET last == LastLoopRows(0)
    IN  \/ row.op \in {"start", "end"} /\ Len(row.cells) > 1
        \/ row.op = "start" /\ last # 0 /\ row.var \in {"", ast[last].var}
        \/ row.op = "end" /\ (last = 0 \/ row.var # ast[last].var)

\* Ends close no row of their own: the rows parsed so far are those pushed and those closed.
Parsed == Len(ast) + Cardinality({k \in DOMAIN ast : ast[k].end})

ParseRow ==
    /\ outcome = "parsing" /\ Parsed < Len(template)
    /\ LET row == template[Parsed + 1]
       IN  IF Refused(row) THEN outcome' = "refused" /\ ast' = ast
           ELSE /\ outcome' = outcome
                /\ CASE row.op = "start" -> PushIntoAst("loop", row)
                     [] row.op = "end" -> ast' = [ast EXCEPT ![LastLoopRows(0)].end = TRUE]
                     [] OTHER -> PushIntoAst(row.op, row)
    /\ UNCHANGED <<template, inFile, walk, tempLines, file>>

-------------------------------------------------------------------------------
(* Printing. *)

\* An iterator and the way through the rows of its loop: how many elements have arrived,
\* the one whose rows are printed, and how many of these are printed.
Iterate(loop, items, arrived) ==
    [loop |-> loop, items |-> items, arrived |-> arrived, index |-> 1, printed |-> 0]

CreateIterator(loop, e, v) ==
    IF v # "" /\ Data[e][v].kind = "cursor" THEN Iterate(loop, Data[e][v].items, 0)
    ELSE LET items == Meaning!Elements(e, v) IN Iterate(loop, items, Len(items))

StartPrint ==
    /\ outcome = "parsing" /\ Parsed = Len(template)
    /\ outcome' = "printing"
    /\ walk' = <<Iterate(0, <<Root>>, 1)>>
    /\ UNCHANGED <<template, inFile, ast, tempLines, file>>

Here == Last(walk)
Element == Here.items[Here.index]
RowsLeft == {k \in RowsIn(Here.loop) : Cardinality({r \in RowsIn(Here.loop) : r < k}) >= Here.printed}
ElementUnderWay == outcome = "printing" /\ Here.index <= Here.arrived

PrintCell(cell) ==
    IF cell.variable THEN [of |-> Element, path |-> cell.value] ELSE [text |-> cell.value]

\* Lines go to the temporary file as soon as there are enough of them.
Push(line) ==
    LET lines == Append(tempLines, line)
    IN  IF inFile /\ Len(lines) >= LinesFresh THEN file' = file \o lines /\ tempLines' = <<>>
        ELSE tempLines' = lines /\ file' = file

Passed(frames) == [frames EXCEPT ![Len(frames)].printed = @ + 1]

PrintRow ==
    /\ ElementUnderWay /\ RowsLeft # {}
    /\ LET row == ast[Min(RowsLeft)]
       IN  /\ row.type # "loop"
           /\ Push(IF row.type = "empty" THEN <<>> ELSE [c \in DOMAIN row.cells |-> PrintCell(row.cells[c])])
    /\ walk' = Passed(walk)
    /\ UNCHANGED <<template, inFile, ast, outcome>>

PrintLoopRows ==
    /\ ElementUnderWay /\ RowsLeft # {}
    /\ LET loop == Min(RowsLeft)
       IN  /\ ast[loop].type = "loop"
           /\ walk' = Append(Passed(walk), CreateIterator(loop, Element, ast[loop].var))
    /\ UNCHANGED <<template, inFile, ast, tempLines, file, outcome>>

NextItem ==
    /\ ElementUnderWay /\ RowsLeft = {}
    /\ walk' = [walk EXCEPT ![Len(walk)].index = @ + 1, ![Len(walk)].printed = 0]
    /\ UNCHANGED <<template, inFile, ast, tempLines, file, outcome>>

AllApplied == outcome = "printing" /\ Here.index > Here.arrived

\* streamTo of the cursor applies a batch; the next one is handed over when it has resolved.
BatchArrives ==
    /\ AllApplied /\ Here.arrived < Len(Here.items)
    /\ walk' = [walk EXCEPT ![Len(walk)].arrived = Min({@ + FetchSize, Len(Here.items)})]
    /\ UNCHANGED <<template, inFile, ast, tempLines, file, outcome>>

CursorFails ==
    /\ AllApplied /\ Here.arrived < Len(Here.items)
    /\ outcome' = "failed"
    /\ UNCHANGED <<template, inFile, ast, walk, tempLines, file>>

LoopDone ==
    /\ AllApplied /\ Here.arrived = Len(Here.items) /\ Len(walk) > 1
    /\ walk' = Front(walk)
    /\ UNCHANGED <<template, inFile, ast, tempLines, file, outcome>>

\* The file is read whether or not a line was ever written to it.
Csv ==
    /\ AllApplied /\ Len(walk) = 1
    /\ outcome' = IF inFile /\ file = <<>> THEN "noFile" ELSE "printed"
    /\ tempLines' = file \o tempLines
    /\ UNCHANGED <<template, inFile, ast, walk, file>>

-------------------------------------------------------------------------------
Requested(t, f) ==
    /\ template = t /\ inFile = f
    /\ ast = <<>> /\ walk = <<>> /\ tempLines = <<>> /\ file = <<>>
    /\ outcome = "parsing"

Next == ParseRow \/ StartPrint \/ PrintRow \/ PrintLoopRows \/ NextItem
            \/ BatchArrives \/ CursorFails \/ LoopDone \/ Csv

-------------------------------------------------------------------------------
Marks == [k \in DOMAIN template |->
            CASE template[k].op = "start" -> [op |-> "start", of |-> template[k].var]
              [] template[k].op = "end" -> [op |-> "end", of |-> template[k].var]
              [] OTHER -> [op |-> "row", row |-> template[k]]]

\* The cells of a row of the template for an element, by the words of the documentation.
Filled(written) ==
    [c \in DOMAIN written.row.cells |->
        LET cell == written.row.cells[c]
        IN  CASE cell = <<"$", ".", "$">> -> [of |-> written.of, path |-> <<>>]
              [] cell # <<"$", ".", "$">> /\ Head(cell) = "$" -> [of |-> written.of, path |-> Tail(cell)]
              [] OTHER -> [text |-> cell]]

\* A CSV print writes the rows of its template, each loop once per element and in order, however
\* the loops are nested, the elements arrive and the lines are split between memory and
\* file; it refuses a template if and only if the template is not sound; and it fails for want of a
\* temporary file if and only if one is used and there were too few lines for the first portion.
CsvFollowsTheTemplate ==
    LET sheet == Meaning!Written(Marks, Root)
        single == \A k \in DOMAIN template : template[k].op \in {"start", "end"} => Len(template[k].cells) <= 1
    IN  /\ outcome = "printed" => tempLines = [k \in DOMAIN sheet |-> Filled(sheet[k])]
        /\ outcome \in {"refused", "printed"} => (outcome = "printed" <=> Meaning!Sound(Marks) /\ single)
        /\ outcome \in {"printed", "noFile"} =>
            (outcome = "noFile" <=> inFile /\ Len(sheet) < LinesFresh)
=============================================================================
