------------------------------ MODULE MCPrinting ------------------------------
(* The three printers on small templates. A behaviour is one printer's: the others wait. *)
EXTENDS BrowserPool, Integers, Sequences, SequencesExt, TLC

VARIABLES printer
VARIABLES template, inFile, ast, walk, tempLines, file, outcome                      \* PrintCsv
VARIABLES book, asts, at, items, frames, rows, waiting, merged, worksheets, result   \* PrintExcel
VARIABLES pages, pdfOptions                                                          \* PagePool

csvVars == <<template, inFile, ast, walk, tempLines, file, outcome>>
excelVars == <<book, asts, at, items, frames, rows, waiting, merged, worksheets, result>>
pdfVars == <<cached, keepPage, pool, closed, phase, browser, pages, pdfOptions, disturbed>>

Of(kind, elements) == [kind |-> kind, items |-> elements]
Nothing == Of("null", <<>>)
Leaf == [a |-> Nothing, b |-> Nothing]

\* Two elements under a, of which one has three under b that a cursor loads and the other a single
\* one; the request has under b a cursor without elements, and under c one with three.
MCData ==
    [root |-> [a |-> Of("array", <<"a1", "a2">>), b |-> Of("cursor", <<>>),
               c |-> Of("cursor", <<"a1", "b1", "a2">>)],
     a1 |-> [a |-> Nothing, b |-> Of("cursor", <<"b1", "b2", "b3">>)],
     a2 |-> [a |-> Of("single", <<"b1">>), b |-> Of("single", <<"b2">>)],
     b1 |-> Leaf, b2 |-> Leaf, b3 |-> Leaf]
MCRoot == "root"
MCFetchSize == 2
MCLinesFresh == 2

-------------------------------------------------------------------------------
(* CSV: every template of up to four rows of these, and two that are longer. *)

Row(op, var, cells) == [op |-> op, var |-> var, cells |-> cells]
Start(v) == Row("start", v, <<(<<v, "start">>)>>)
End(v) == Row("end", v, <<(<<v, "end">>)>>)
Std == Row("row", "", <<(<<"text">>), (<<"$", "x">>), (<<"$", ".", "$">>)>>)
Blank == Row("empty", "", <<>>)
TwoCells == Row("start", "a", <<(<<"a", "start">>), (<<"text">>)>>)

CsvRows == {Start("a"), Start("b"), Start(""), End("a"), End("b"), Std, TwoCells}
CsvTemplates ==
    UNION {[1..n -> CsvRows] : n \in 1..4}
        \cup {<<Start("a"), Std, Start("b"), Std, Blank, End("b"), Std, End("a"), Std>>,
              <<Start("a"), Start("b"), Std, End("b"), Start("b"), Std, End("b"), End("a"), Blank>>}

-------------------------------------------------------------------------------
(* Excel: marks in every place of a note, cells of every kind, merges of every shape. *)

CellOf(value, means) == [value |-> value, merge |-> "SINGLE", note |-> "none", of |-> "", means |-> means]
Path(p) == [path |-> p, num |-> FALSE]
Number(p) == [path |-> p, num |-> TRUE]
Text(t) == [text |-> t]
Plain == CellOf(<<"$", "x">>, <<Path(<<"x">>)>>)
Master(of) == [Plain EXCEPT !.merge = "MASTER", !.of = of]
Slave(of) == [Plain EXCEPT !.merge = "SLAVE", !.of = of]

ExcelRow(notes, cells) == [notes |-> notes, cells |-> cells]
Note(op, v) == [op |-> op, var |-> v]
sA == Note("start", "a")
sB == Note("start", "b")
eA == Note("end", "a")
eB == Note("end", "b")
Notes == {<<>>, <<sA>>, <<eA>>, <<sB>>, <<eB>>, <<sA, eA>>, <<sA, sB>>, <<eB, eA>>, <<sA, sB, eB, eA>>, <<eA, sB>>}

OneSheet(of) == [names |-> <<(<<"sheet">>)>>, named |-> Text(<<(<<"sheet">>)>>), loop |-> "", rows |-> of]
Noted == {<<OneSheet(<<ExcelRow(x, <<Plain>>), ExcelRow(y, <<Plain>>), ExcelRow(z, <<Plain>>)>>)>> :
              x \in Notes, y \in Notes, z \in Notes}

Texts ==
    {CellOf(<<"text">>, <<Text(<<"text">>)>>),
     CellOf(<<"$", ".", "$", "del">>, <<Text(<<>>)>>),
     CellOf(<<"$", ".", "$">>, <<Path(<<>>)>>),
     CellOf(<<"$", ".", "num", ".", "x">>, <<Number(<<"x">>)>>),
     CellOf(<<"$", "{", "x", "}">>, <<Path(<<"x">>)>>),
     CellOf(<<"no", "$", "{", ".", "num", ".", "x", "}", "$", "{", "y", "}", "$">>,
            <<Text(<<"no">>), Number(<<"x">>), Path(<<"y">>), Text(<<"$">>)>>),
     CellOf(<<"no", "$", "\\", "{", "x", "}", "$", "{", "y", "\\", "}", "}">>,
            <<Text(<<"no", "$", "{", "x", "}">>), Path(<<"y", "}">>)>>),
     CellOf(<<"no", "$", "{", "x">>, <<Text(<<"no", "$", "{", "x">>)>>)}
Filled == {<<OneSheet(<<ExcelRow(<<sA, sB, eB, eA>>, <<cell, [cell EXCEPT !.note = "plain"]>>),
                        ExcelRow(<<>>, <<>>)>>)>> : cell \in Texts}

\* Merges in a loop in a loop, beside each other, across rows and columns, and at the end of a sheet.
Line(of) == ExcelRow(<<>>, of)
Across == ExcelRow(<<sA, eA>>, <<Master("m"), Slave("m"), Plain>>)
Down(first, second) ==
    <<ExcelRow(first, <<Master("m"), Master("n"), Slave("n")>>), Line(<<Slave("m"), Plain, Plain>>),
      ExcelRow(second, <<Plain, Plain, Plain>>)>>
Square ==
    <<ExcelRow(<<sA>>, <<Plain, Master("m"), Slave("m")>>), ExcelRow(<<eA>>, <<Plain, Slave("m"), Slave("m")>>)>>
PlainLine == Line(<<Plain>>)

\* Merges side by side and staggered, to the right and below, also where nothing is merged any more.
Beside == <<Line(<<Master("m"), Master("n"), Plain>>), Line(<<Slave("m"), Slave("n"), Plain>>)>>
Steps == <<Line(<<Master("m"), Plain, Plain>>), Line(<<Slave("m"), Master("n"), Slave("n")>>)>>
Right == <<Line(<<Plain, Master("m")>>), Line(<<Master("n"), Slave("m")>>), Line(<<Slave("n"), Plain>>)>>
Below == <<Line(<<Plain, Master("m"), Slave("m")>>), Line(<<Master("n"), Slave("n"), Plain>>)>>

\* Merges of which a loop repeats a row, has it written for no element, or takes the master.
Stretched(mark, end) == <<Line(<<Master("m"), Plain>>), ExcelRow(<<mark, end>>, <<Slave("m"), Plain>>), PlainLine>>
Cut(mark, end) ==
    <<ExcelRow(<<mark, end>>, <<Plain, Master("m")>>), Line(<<Master("n"), Slave("m")>>), Line(<<Slave("n"), Plain>>), PlainLine>>

Merging == {<<OneSheet(of)>> : of \in {
                <<Across, Across, Line(<<>>)>>, <<Across, PlainLine, Across>>,
                Down(<<sA, sB>>, <<eB, eA>>), Down(<<>>, <<>>), Square, Append(Square, PlainLine),
                Append(Beside, PlainLine), Append(Steps, PlainLine),
                Append(Right, PlainLine), Right, Append(Below, PlainLine), Below,
                <<PlainLine>> \o Square \o Append(Below, PlainLine),
                Stretched(sA, eA), Stretched(sB, eB), Cut(sB, eB)}}

Looping ==
    {<<[names |-> <<(<<"$", "a">>), (<<"$", "x">>)>>, named |-> Path(<<"x">>), loop |-> "a",
        rows |-> <<ExcelRow(<<sB, eB>>, <<Plain>>)>>],
       [names |-> <<(<<"$", "a">>), (<<"name">>)>>, named |-> Text(<<"name">>), loop |-> "a", rows |-> <<>>],
       OneSheet(Down(<<>>, <<>>))>>,
     <<[names |-> <<(<<"$", "c">>), (<<"$", "x">>)>>, named |-> Path(<<"x">>), loop |-> "c",
        rows |-> <<ExcelRow(<<sB, eB>>, <<Plain>>), Line(<<Master("m"), Slave("m")>>), PlainLine>>],
       [names |-> <<(<<"$", "b">>), (<<"name">>)>>, named |-> Text(<<"name">>), loop |-> "b",
        rows |-> <<PlainLine>>]>>}

Books == Noted \cup Filled \cup Merging \cup Looping

-------------------------------------------------------------------------------
(* PDF: three prints, two pages per browser. *)

Node(kind, value, kids) == [kind |-> kind, value |-> value, kids |-> kids]
Field(path) == Node("field", path, <<>>)
Words(text) == Node("text", text, <<>>)
Sub(code) == Node("template", code, <<>>)

MCSubTemplates == [row |-> <<Field("x"), Sub("words")>>, words |-> <<Words("words")>>]
MCHtml ==
    [p1 |-> <<Sub("row"), Node("loop", "a", <<Field(""), Node("loop", "b", <<Sub("row")>>)>>)>>,
     p2 |-> <<Node("box", "", <<Words("head"), Node("loop", "a", <<Field("x")>>), Node("loop", "b", <<Field("y")>>)>>),
              Sub(""), Node("box", "", <<Node("loop", "b", <<Field("x")>>)>>)>>,
     p3 |-> <<>>]
MCSettings == [p1 |-> {"margin"}, p2 |-> {"format"}, p3 |-> {}]

Csv == INSTANCE PrintCsv WITH Data <- MCData, Root <- MCRoot, LinesFresh <- MCLinesFresh, FetchSize <- MCFetchSize
Excel == INSTANCE PrintExcel WITH Data <- MCData, Root <- MCRoot, FetchSize <- MCFetchSize,
             MultipleVariables <- TRUE, walk <- frames, outcome <- result
Pdf == INSTANCE PrintPdf WITH Data <- MCData, Root <- MCRoot, Html <- MCHtml,
             SubTemplates <- MCSubTemplates, Settings <- MCSettings

ASSUME PrintersAssumption == Csv!SizesAssumption /\ Excel!BatchAssumption /\ PoolAssumption

vars == <<printer, csvVars, excelVars, pdfVars>>
Init ==
    /\ printer \in {"csv", "excel", "pdf"}
    /\ IF printer = "csv" THEN \E t \in CsvTemplates, f \in BOOLEAN : Csv!Requested(t, f) ELSE Csv!Requested(<<>>, FALSE)
    /\ IF printer = "excel" THEN \E b \in Books : Excel!Requested(b) ELSE Excel!Requested(<<>>)
    /\ IF printer = "pdf" THEN Pdf!Init ELSE Pdf!Start /\ cached = TRUE /\ keepPage = FALSE

Next ==
    \/ printer = "csv" /\ Csv!Next /\ UNCHANGED <<printer, excelVars, pdfVars>>
    \/ printer = "excel" /\ Excel!Next /\ UNCHANGED <<printer, csvVars, pdfVars>>
    \/ printer = "pdf" /\ Pdf!Next /\ UNCHANGED <<printer, csvVars, excelVars>>

\* What Puppeteer is asked is answered, well or not.
Spec == Init /\ [][Next]_vars /\ WF_vars(printer = "pdf" /\ Pdf!Next /\ UNCHANGED <<printer, csvVars, excelVars>>)

\* Every printer writes what its template says: each row once per element of its loops, in order,
\* with paths relative to the element; and refuses templates that say nothing sound.
FollowsTheTemplate ==
    Csv!CsvFollowsTheTemplate /\ Excel!ExcelFollowsTheTemplate /\ Pdf!PdfFollowsTheTemplate

\* A worksheet has the merges of its template, over all lines written of each, up to the last row
\* that is part of none; staggered ones fail the print.
MergesOfWrittenRows == Excel!MergesOfWrittenRows

\* Every PDF is made or fails, if the calls of the browser do, also when the browser is closed by
\* another print's failure.
EveryPrintEnds == <>(printer = "pdf" => \A p \in Prints : Ended(p))
=============================================================================
