------------------------------- MODULE PrintPdf -------------------------------
(* What a print of PrintPdfPipelineStep (o23-n5) makes of its document in the page: sub templates in
   their place, fields and loops filled with the data of the request. *)
EXTENDS PagePool

CONSTANTS Data, Root,    \* what each element has under each variable; the data of the requests
          Html,          \* the nodes of the document of each print
          SubTemplates   \* the nodes of each sub template

Meaning == INSTANCE TemplateMeaning

-------------------------------------------------------------------------------
(* The function that fills the page. A node is [kind, value, kids]. *)

\* Sub templates are replaced until there are none; one without a code is removed.
RECURSIVE ReplaceTemplates(_)
ReplaceTemplates(kids) ==
    FlattenSeq([k \in DOMAIN kids |->
        IF kids[k].kind # "template" THEN <<[kids[k] EXCEPT !.kids = ReplaceTemplates(@)]>>
        ELSE IF kids[k].value = "" THEN <<>> ELSE ReplaceTemplates(SubTemplates[kids[k].value])])

\* The fields outside of loops are filled from e, a loop is taken out, and a copy of it for each of
\* its elements, filled the same way, is appended to the parent. Shown as the texts in their order.
RECURSIVE ReplaceFieldsAndLoops(_, _)
ReplaceFieldsAndLoops(kids, e) ==
    LET Loops == SelectSeq(kids, LAMBDA node : node.kind = "loop")
        Stay == SelectSeq(kids, LAMBDA node : node.kind # "loop")
        Fill(node) == CASE node.kind = "field" -> <<[of |-> e, path |-> node.value]>>
                        [] node.kind = "text" -> <<[text |-> node.value]>>
                        [] OTHER -> ReplaceFieldsAndLoops(node.kids, e)
        Copies(loop) == LET items == Meaning!Elements(e, loop.value)
                        IN  FlattenSeq([k \in DOMAIN items |-> ReplaceFieldsAndLoops(loop.kids, items[k])])
    IN  FlattenSeq([k \in DOMAIN Stay |-> Fill(Stay[k])]) \o FlattenSeq([k \in DOMAIN Loops |-> Copies(Loops[k])])

PageEvalFunction(p) == ReplaceFieldsAndLoops(ReplaceTemplates(Html[p]), Root)

-------------------------------------------------------------------------------
\* The marks of a document with its sub templates in place.
RECURSIVE Marks(_)
Marks(kids) ==
    FlattenSeq([k \in DOMAIN kids |->
        CASE kids[k].kind = "loop" -> <<[op |-> "start", of |-> kids[k].value]>> \o Marks(kids[k].kids)
                                          \o <<[op |-> "end", of |-> kids[k].value]>>
          [] kids[k].kind = "template" -> IF kids[k].value = "" THEN <<>> ELSE Marks(SubTemplates[kids[k].value])
          [] kids[k].kind = "box" -> Marks(kids[k].kids)
          [] OTHER -> <<[op |-> "row", row |-> kids[k]]>>])

\* A PDF shows what its template says, loops once per element, sub templates in their place, with
\* paths relative to the element (for documents whose loops are the last ones of their parents).
PdfFollowsTheTemplate ==
    \A p \in Prints : phase[p] \in {"pdf", "closePage", "closeBrowser", "printed"} =>
        LET written == Meaning!Written(Marks(Html[p]), Root)
        IN  PageEvalFunction(p) = [w \in DOMAIN written |->
                IF written[w].row.kind = "text" THEN [text |-> written[w].row.value]
                ELSE [of |-> written[w].of, path |-> written[w].row.value]]
=============================================================================
