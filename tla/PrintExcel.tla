------------------------------ MODULE PrintExcel ------------------------------
(* PrintExcelPipelineStep (o23-n6): each sheet of a template is read into a tree of rows and loops,
   whose marks are in the note of the first cell of a row; a sheet is written once for each element
   of its loop; cells are filled, and cells that are merged in the template are merged again where
   they are written. A row is committed, and then gone, as soon as no merge can reach it.

   A cell of the template is [value, merge, note, of, means]: the tokens of its text, SINGLE, MASTER
   or SLAVE, its note, and, read by the properties only, the merge it is part of and what its text
   means; loop and named say it of the name of a sheet. *)
EXTENDS Integers, Sequences, SequencesExt, FiniteSetsExt

CONSTANTS Data, Root,
          FetchSize,          \* elements in a batch of a cursor
          MultipleVariables   \* whether a cell may have text and several variables

\* What is assumed of the constants; the modules that give them values assume it.
BatchAssumption == FetchSize \in Nat \ {0}

VARIABLES book,       \* the sheets of the template: [names, rows], a row is [notes, cells]
          asts,       \* for each sheet that was begun: its rows, each with the loop it is in
          at,         \* <<sheet, row>> of the template that is read next; the sheet that is printed
          items,      \* the loop over the elements the sheet is printed for
          walk,       \* the loops under way, innermost last
          rows,       \* the rows of the worksheet: what was printed and how it is merged
          waiting,    \* rowsToMerge: how many of the last rows wait for the end of a merge
          merged,     \* the regions merged in the worksheet: <<top, left, bottom, right>>
          worksheets, \* the worksheets that were committed
          outcome
vars == <<book, asts, at, items, walk, rows, waiting, merged, worksheets, outcome>>

Meaning == INSTANCE TemplateMeaning

-------------------------------------------------------------------------------
(* Cells. *)

Segment(variable, value) == [variable |-> variable, value |-> value]
Closed(chars) == IF chars = <<>> THEN <<>> ELSE <<Segment(FALSE, chars)>>

\* The segments of a text from its token k on, with the tokens held back since the last segment.
\* "$\{" and "\}" are the escaped forms, the latter only inside of a variable.
RECURSIVE Segments(_, _, _, _)
Segments(value, k, inside, chars) ==
    LET Is(d, token) == k + d <= Len(value) /\ value[k + d] = token
        Go(d, in, held) == Segments(value, k + d, in, held)
    IN  CASE k > Len(value) -> Closed(chars)
          [] Is(0, "$") /\ ~inside /\ Is(1, "{") -> Closed(chars) \o Go(2, TRUE, <<"$", "{">>)
          [] Is(0, "$") /\ ~inside /\ Is(1, "\\") /\ Is(2, "{") -> Go(3, FALSE, chars \o <<"$", "{">>)
          [] Is(0, "\\") /\ inside /\ Is(1, "}") -> Go(2, TRUE, Append(chars, "}"))
          [] Is(0, "}") /\ inside -> <<Segment(TRUE, chars)>> \o Go(1, FALSE, <<>>)
          [] OTHER -> Go(1, inside, Append(chars, value[k]))

\* A variable loses its "${", and "${.num." which makes it a number.
IsNumber(value) == IsPrefix(<<"$", "{", ".", "num", ".">>, value)

ParseCellVariables(value) ==
    LET parts == Segments(value, 1, FALSE, <<>>)
        From(part) == IF ~part.variable THEN 1 ELSE IF IsNumber(part.value) THEN 6 ELSE 3
    IN  [p \in DOMAIN parts |->
            [variable |-> parts[p].variable, num |-> parts[p].variable /\ IsNumber(parts[p].value),
             value |-> SubSeq(parts[p].value, From(parts[p]), Len(parts[p].value))]]

\* The parts a cell consists of.
ParseCell(value) ==
    LET all(num, from) == <<[variable |-> TRUE, num |-> num, value |-> SubSeq(value, from, Len(value))]>>
        text(shown) == <<[variable |-> FALSE, num |-> FALSE, value |-> shown]>>
        parts == ParseCellVariables(value)
    IN  CASE value = <<"$", ".", "$", "del">> -> text(<<>>)
          [] value = <<"$", ".", "$">> -> all(FALSE, 4)
          [] IsPrefix(<<"$", ".", "num", ".">>, value) -> all(TRUE, 5)
          [] OTHER -> IF MultipleVariables /\ \E p \in DOMAIN parts : parts[p].variable THEN parts
                      ELSE IF IsPrefix(<<"$">>, value) THEN all(FALSE, 2) ELSE text(value)

\* A note that is one mark goes; a text in several parts goes whatever it says, since the test for
\* a line of its own, trim() = "\n", never holds and nothing is collected.
RedressCellNote(note) == IF note \in {"none", "mark", "parts"} THEN "none" ELSE note

-------------------------------------------------------------------------------
(* Reading the template. *)

RowsIn(ast, loop) == {k \in DOMAIN ast : ast[k].in = loop}

RECURSIVE LastLoopRows(_, _)
LastLoopRows(ast, loop) ==
    IF RowsIn(ast, loop) = {} THEN loop
    ELSE LET last == Max(RowsIn(ast, loop))
         IN  IF ast[last].type = "loop" /\ ~ast[last].end THEN LastLoopRows(ast, last) ELSE loop

PushIntoAst(ast, type, var, cells) ==
    Append(ast, [type |-> type, in |-> LastLoopRows(ast, 0), var |-> var, cells |-> cells, end |-> FALSE])

\* parseEmptyRow, parseStandardRow
ParseCells(ast, type, row) ==
    PushIntoAst(ast, type, "", [c \in DOMAIN row.cells |->
        [parts |-> ParseCell(row.cells[c].value), merge |-> row.cells[c].merge, note |-> row.cells[c].note]])

\* Mutant: the row of an end is put behind the loop.
ConsumeNoteBehind(row, s, note) ==
    LET last == LastLoopRows(s.ast, 0)
    IN  IF s.refused THEN s
        ELSE IF note.op = "start" THEN [s EXCEPT !.ast = PushIntoAst(@, "loop", note.var, <<>>)]
        ELSE IF last = 0 \/ note.var # s.ast[last].var THEN [s EXCEPT !.refused = TRUE]
        ELSE [s EXCEPT !.ast = [s.ast EXCEPT ![last].end = TRUE]]

\* The marks of a note one by one: a start opens a loop; the first end puts the row into the loop
\* before it closes it, and no start may follow it. The result is a state of the reduction.
ConsumeNote(row, s, note) ==
    LET last == LastLoopRows(s.ast, 0)
    IN  IF s.refused THEN s
        ELSE IF note.op = "start"
        THEN IF s.consumed \/ (last # 0 /\ note.var \in {"", s.ast[last].var})
             THEN [s EXCEPT !.refused = TRUE]
             ELSE [s EXCEPT !.ast = PushIntoAst(@, "loop", note.var, <<>>)]
        ELSE IF last = 0 \/ note.var # s.ast[last].var THEN [s EXCEPT !.refused = TRUE]
        ELSE LET with == IF s.consumed THEN s.ast ELSE ParseCells(s.ast, "row", row)
             IN  [s EXCEPT !.ast = [with EXCEPT ![last].end = TRUE], !.consumed = TRUE]

ConsumeRowWithNote(ast, row) ==
    FoldLeft(LAMBDA s, note : ConsumeNote(row, s, note),
             [ast |-> ast, consumed |-> FALSE, refused |-> FALSE], row.notes)

ParseRow ==
    /\ outcome = "parsing" /\ at[1] <= Len(book) /\ at[2] <= Len(book[at[1]].rows)
    /\ LET row == book[at[1]].rows[at[2]]
           noted == ConsumeRowWithNote(asts[at[1]], row)
           ast == CASE row.cells = <<>> -> ParseCells(asts[at[1]], "empty", row)
                    [] row.cells # <<>> /\ noted.consumed -> noted.ast
                    [] OTHER -> ParseCells(noted.ast, "row", row)
       IN  IF row.cells # <<>> /\ noted.refused
           THEN outcome' = "refused" /\ UNCHANGED <<asts, at>>
           ELSE /\ asts' = [asts EXCEPT ![at[1]] = ast]
                /\ at' = <<at[1], at[2] + 1>>
                /\ outcome' = outcome
    /\ UNCHANGED <<book, items, walk, rows, waiting, merged, worksheets>>

NextAst ==
    /\ outcome = "parsing" /\ at[1] <= Len(book) /\ at[2] > Len(book[at[1]].rows)
    /\ asts' = Append(asts, <<>>)
    /\ at' = <<at[1] + 1, 1>>
    /\ UNCHANGED <<book, items, walk, rows, waiting, merged, worksheets, outcome>>

-------------------------------------------------------------------------------
(* Printing. *)

Iterate(loop, of, arrived) == [loop |-> loop, items |-> of, arrived |-> arrived, index |-> 1, printed |-> 0]

CreateIterator(loop, e, v) ==
    IF v # "" /\ Data[e][v].kind = "cursor" THEN Iterate(loop, Data[e][v].items, 0)
    ELSE LET of == Meaning!Elements(e, v) IN Iterate(loop, of, Len(of))

\* "$loop,name" makes a sheet for each element; its name is a text or a variable of the element.
Looped(names) == Len(names) = 2 /\ IsPrefix(<<"$">>, names[1])
LoopVariable(names) == IF Looped(names) /\ Len(names[1]) = 2 THEN names[1][2] ELSE ""
GetSheetName(names, e) ==
    CASE ~Looped(names) -> [text |-> names]
      [] Looped(names) /\ IsPrefix(<<"$">>, names[2]) -> [of |-> e, path |-> Tail(names[2])]
      [] OTHER -> [text |-> names[2]]

\* All elements that have arrived are done: the loop waits for a batch of its cursor, or it ends.
Applied(iterator) == iterator.index > iterator.arrived
Waits(iterator) == Applied(iterator) /\ iterator.arrived < Len(iterator.items)
Ends(iterator) == Applied(iterator) /\ iterator.arrived = Len(iterator.items)
Refilled(iterator) == [iterator EXCEPT !.arrived = Min({@ + FetchSize, Len(iterator.items)})]

\* The loop of a sheet, over the data of the request.
PrintSheet ==
    /\ \/ outcome = "parsing" /\ at[1] > Len(book) /\ book # <<>>
       \/ outcome = "sheetDone" /\ Ends(items) /\ at[1] < Len(book)
    /\ LET sheet == IF outcome = "parsing" THEN 1 ELSE at[1] + 1
       IN  /\ at' = <<sheet, 0>>
           /\ items' = CreateIterator(0, Root, LoopVariable(book[sheet].names))
    /\ outcome' = "sheetDone"
    /\ UNCHANGED <<book, asts, walk, rows, waiting, merged, worksheets>>

AddWorksheet ==
    /\ outcome = "sheetDone" /\ ~Applied(items)
    /\ walk' = <<Iterate(0, <<items.items[items.index]>>, 1)>>
    /\ rows' = <<>> /\ waiting' = 0 /\ merged' = {}
    /\ outcome' = "printing"
    /\ UNCHANGED <<book, asts, at, items, worksheets>>

Ast == asts[at[1]]
Here == Last(walk)
Element == Here.items[Here.index]
RowsLeft == {k \in RowsIn(Ast, Here.loop) : Cardinality({r \in RowsIn(Ast, Here.loop) : r < k}) >= Here.printed}
ElementUnderWay == outcome = "printing" /\ ~Applied(Here)
Passed(frames) == [frames EXCEPT ![Len(frames)].printed = @ + 1]

PrintPart(part) ==
    IF part.variable THEN [of |-> Element, path |-> part.value, num |-> part.num] ELSE [text |-> part.value]

\* A slave shows what its master shows, and is printed empty.
PrintCell(cell) ==
    IF cell.merge = "SLAVE" THEN [value |-> <<>>, note |-> "none", merge |-> cell.merge]
    ELSE [value |-> [p \in DOMAIN cell.parts |-> PrintPart(cell.parts[p])],
          note |-> RedressCellNote(cell.note), merge |-> cell.merge]

Single(row) == \A c \in DOMAIN row : row[c].merge = "SINGLE"
Is(row, c, merge) == c \in DOMAIN row /\ row[c].merge = merge

\* The regions of the waiting rows of a sheet: to the right and down from each master as long as there
\* are slaves, in the row and in the column of the master.
Regions(sheet, first) ==
    LET Run(S, from) == Max({k \in S \cup {from} : \A j \in from..k : j = from \/ j \in S})
        Masters == {<<r, c>> \in (first..Len(sheet)) \X (1..Max({Len(sheet[r]) : r \in DOMAIN sheet})) :
                        Is(sheet[r], c, "MASTER")}
    IN  {<<m[1], m[2], Run({r \in m[1]..Len(sheet) : Is(sheet[r], m[2], "SLAVE")}, m[1]),
           Run({c \in m[2]..Len(sheet[m[1]]) : Is(sheet[m[1]], c, "SLAVE")}, m[2])>> : m \in Masters}

\* mergeCells of exceljs throws on a region that overlaps another one.
Overlap(regions) ==
    \E a, b \in regions : a # b /\ a[1] <= b[3] /\ b[1] <= a[3] /\ a[2] <= b[4] /\ b[2] <= a[4]

\* What becomes of a sheet whose last row has made these regions.
Merging(regions) ==
    /\ waiting' = 0
    /\ merged' = merged \cup regions
    /\ outcome' = IF Overlap(merged \cup regions) THEN "overlapping" ELSE outcome

\* Mutant: the first of the waiting rows is forgotten.
AddRowForgotten(cells) ==
    LET sheet == Append(rows, cells)
    IN  /\ rows' = sheet
        /\ IF Single(cells)
           THEN Merging(IF waiting = 0 THEN {} ELSE Regions(sheet, Len(sheet) - waiting + 1))
           ELSE waiting' = waiting + 1 /\ UNCHANGED <<merged, outcome>>

\* tryToMergeRowsOrCells: nothing happens as long as the last row is part of a merge.
AddRow(cells) ==
    LET sheet == Append(rows, cells)
    IN  /\ rows' = sheet
        /\ IF Single(cells)
           THEN Merging(IF waiting = 0 THEN {} ELSE Regions(sheet, Len(sheet) - waiting))
           ELSE waiting' = waiting + 1 /\ UNCHANGED <<merged, outcome>>

\* printEmptyRow, printStandardRow
PrintRow ==
    /\ ElementUnderWay /\ RowsLeft # {}
    /\ LET row == Ast[Min(RowsLeft)]
       IN  row.type # "loop" /\ AddRow([c \in DOMAIN row.cells |-> PrintCell(row.cells[c])])
    /\ walk' = Passed(walk)
    /\ UNCHANGED <<book, asts, at, items, worksheets>>

PrintLoopRows ==
    /\ ElementUnderWay /\ RowsLeft # {}
    /\ LET loop == Min(RowsLeft)
       IN  /\ Ast[loop].type = "loop"
           /\ walk' = Append(Passed(walk), CreateIterator(loop, Element, Ast[loop].var))
    /\ UNCHANGED <<book, asts, at, items, rows, waiting, merged, worksheets, outcome>>

NextItem ==
    /\ ElementUnderWay /\ RowsLeft = {}
    /\ walk' = [walk EXCEPT ![Len(walk)].index = @ + 1, ![Len(walk)].printed = 0]
    /\ UNCHANGED <<book, asts, at, items, rows, waiting, merged, worksheets, outcome>>

BatchArrives ==
    /\ \/ /\ outcome = "printing" /\ Waits(Here)
          /\ walk' = [walk EXCEPT ![Len(walk)] = Refilled(@)] /\ items' = items
       \/ /\ outcome = "sheetDone" /\ Waits(items)
          /\ items' = Refilled(items) /\ walk' = walk
    /\ UNCHANGED <<book, asts, at, rows, waiting, merged, worksheets, outcome>>

CursorFails ==
    /\ \/ outcome = "printing" /\ Waits(Here)
       \/ outcome = "sheetDone" /\ Waits(items)
    /\ outcome' = "failed"
    /\ UNCHANGED <<book, asts, at, items, walk, rows, waiting, merged, worksheets>>

LoopDone ==
    /\ outcome = "printing" /\ Ends(Here) /\ Len(walk) > 1
    /\ walk' = Front(walk)
    /\ UNCHANGED <<book, asts, at, items, rows, waiting, merged, worksheets, outcome>>

\* Rows that still wait are committed with the sheet, and never merged.
CommitWorksheet ==
    /\ outcome = "printing" /\ Ends(Here) /\ Len(walk) = 1
    /\ LET of == items.items[items.index]
       IN  worksheets' = Append(worksheets, [name |-> GetSheetName(book[at[1]].names, of),
                                             rows |-> rows, merged |-> merged])
    /\ items' = [items EXCEPT !.index = @ + 1]
    /\ outcome' = "sheetDone"
    /\ UNCHANGED <<book, asts, at, walk, rows, waiting, merged>>

CommitWorkbook ==
    /\ outcome = "sheetDone" /\ Ends(items) /\ at[1] = Len(book)
    /\ outcome' = "printed"
    /\ UNCHANGED <<book, asts, at, items, walk, rows, waiting, merged, worksheets>>

-------------------------------------------------------------------------------
Requested(b) ==
    /\ book = b
    /\ asts = <<(<<>>)>> /\ at = <<1, 1>>
    /\ items = Iterate(0, <<>>, 0) /\ walk = <<>> /\ rows = <<>> /\ waiting = 0 /\ merged = {} /\ worksheets = <<>>
    /\ outcome = "parsing"

Next == ParseRow \/ NextAst \/ PrintSheet \/ AddWorksheet \/ PrintRow \/ PrintLoopRows \/ NextItem
            \/ BatchArrives \/ CursorFails \/ LoopDone \/ CommitWorksheet \/ CommitWorkbook

-------------------------------------------------------------------------------
\* The marks of a sheet, row by row: what a note starts, the row, what it ends.
Marks(sheet) ==
    FlattenSeq([r \in DOMAIN sheet.rows |->
        LET row == sheet.rows[r]
            Noted(op) == LET notes == SelectSeq(row.notes, LAMBDA note : note.op = op)
                         IN  [k \in DOMAIN notes |-> [op |-> op, of |-> notes[k].var]]
        IN  Noted("start") \o <<[op |-> "row", row |-> row]>> \o Noted("end")])

\* The starts of a note are in front of its ends.
Ordered(sheet) ==
    \A r \in DOMAIN sheet.rows : \A j, k \in DOMAIN sheet.rows[r].notes :
        sheet.rows[r].notes[j].op = "end" /\ sheet.rows[r].notes[k].op = "start" => k < j

\* The sheets of the workbook, each template of a sheet once for each element of its loop.
Expected ==
    FlattenSeq([s \in DOMAIN book |->
        LET of == Meaning!Elements(Root, book[s].loop)
        IN  [k \in DOMAIN of |-> [sheet |-> book[s], of |-> of[k], lines |-> Meaning!Written(Marks(book[s]), of[k])]]])

\* An Excel print writes a sheet for each element of the sheet's loop and in it the rows of the
\* template, each loop once per element and in order, wherever its marks stand in a note; each cell
\* shows the parts its text says; a template is refused if and only if a sheet is not sound.
ExcelFollowsTheTemplate ==
    /\ outcome = "printed" =>
        /\ Len(worksheets) = Len(Expected)
        /\ \A s \in DOMAIN worksheets :
            LET lines == Expected[s].lines
                Shows(cell, of) == IF cell.merge = "SLAVE" THEN <<>>
                                   ELSE [p \in DOMAIN cell.means |->
                                            IF "path" \in DOMAIN cell.means[p]
                                            THEN [of |-> of, path |-> cell.means[p].path, num |-> cell.means[p].num]
                                            ELSE cell.means[p]]
                named == Expected[s].sheet.named
            IN  /\ worksheets[s].name = (IF "path" \in DOMAIN named
                                         THEN [of |-> Expected[s].of, path |-> named.path] ELSE named)
                /\ [l \in DOMAIN worksheets[s].rows |->
                        [c \in DOMAIN worksheets[s].rows[l] |-> worksheets[s].rows[l][c].value]]
                    = [l \in DOMAIN lines |->
                        [c \in DOMAIN lines[l].row.cells |-> Shows(lines[l].row.cells[c], lines[l].of)]]
    /\ outcome \in {"refused", "printed"} =>
        (outcome = "printed" <=> \A s \in DOMAIN book : Meaning!Sound(Marks(book[s])) /\ Ordered(book[s]))

-------------------------------------------------------------------------------
(* The merges of the lines that are written. *)

CellAt(lines, l, c) ==
    IF l \in DOMAIN lines /\ c \in DOMAIN lines[l].row.cells THEN lines[l].row.cells[c]
    ELSE [merge |-> "SINGLE", of |-> ""]
MastersOf(lines) == {<<l, c>> \in (1..Len(lines)) \X (1..3) : CellAt(lines, l, c).merge = "MASTER"}

\* What is written of a merge from its master on: loops repeat the rows of it that are in them.
RegionOf(lines, m) ==
    LET Of(l, c) == CellAt(lines, l, c).merge = "SLAVE" /\ CellAt(lines, l, c).of = CellAt(lines, m[1], m[2]).of
    IN  <<m[1], m[2],
          Max({l \in m[1]..Len(lines) : \A r \in (m[1] + 1)..l : Of(r, m[2])}),
          Max({c \in m[2]..3 : \A k \in (m[2] + 1)..c : Of(m[1], k)})>>

\* Every slave is written with its master, and no loop takes it away.
Whole(lines) ==
    \A l \in DOMAIN lines : \A c \in DOMAIN lines[l].row.cells :
        CellAt(lines, l, c).merge = "SLAVE" =>
            \E m \in MastersOf(lines) :
                LET region == RegionOf(lines, m)
                IN  l \in region[1]..region[3] /\ c \in region[2]..region[4]

\* A merge ends at a slave of another one, to its right beside its master or below it.
Staggered(lines, m) ==
    LET region == RegionOf(lines, m)
    IN  \/ CellAt(lines, m[1], region[4] + 1).merge = "SLAVE"
        \/ CellAt(lines, region[3] + 1, m[2]).merge = "SLAVE"

\* The masters in front of the last row that is part of no merge.
MastersMerged(lines) ==
    {m \in MastersOf(lines) : \E l \in (m[1] + 1)..Len(lines) :
        \A c \in DOMAIN lines[l].row.cells : lines[l].row.cells[c].merge = "SINGLE"}

\* Row by row, although they are held back, a worksheet gets the merges of its template, over all
\* the lines that are written of each, those in loops once for each time; but no merge behind the
\* last row that is part of none; and the print fails in merging if and only if two of those merges
\* are staggered. (Where each slave is written with its master.)
MergesOfWrittenRows ==
    /\ \A s \in DOMAIN worksheets :
        LET lines == Expected[s].lines
        IN  Whole(lines) =>
                /\ worksheets[s].merged = {RegionOf(lines, m) : m \in MastersMerged(lines)}
                /\ \A m \in MastersMerged(lines) : ~Staggered(lines, m)
    /\ outcome = "overlapping" =>
        LET lines == Expected[Len(worksheets) + 1].lines
        IN  Whole(lines) => \E m \in MastersMerged(lines) : Staggered(lines, m)
=============================================================================
