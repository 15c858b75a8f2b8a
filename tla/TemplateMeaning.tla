--------------------------- MODULE TemplateMeaning ---------------------------
(* What a print template says, apart from how the printers of o23-n5 and o23-n6 read it: rows
   between a start and its end are written once for each element of the loop, and
   inside a loop every path is relative to the element (o23-n6/README.md:85-93, 179-189).

   A template is a sequence of marks [op |-> "row", row |-> r], [op |-> "start", of |-> v] and
   [op |-> "end", of |-> v]. Data are elements; Data[e][v] is what element e has under v:
   nothing, one element, an array of them, or a cursor that will load them. *)
EXTENDS Naturals, Sequences, SequencesExt

CONSTANT Data

\* The elements of a loop over v in e; v = "" is e itself.
Elements(e, v) == IF v = "" THEN <<e>> ELSE Data[e][v].items

\* How deep the loops are between the marks.
Depth(marks, first, last) ==
    Len(SelectSeq(SubSeq(marks, first, last), LAMBDA m : m.op = "start"))
        - Len(SelectSeq(SubSeq(marks, first, last), LAMBDA m : m.op = "end"))

\* The end of the loop that starts at first: the first mark at which its depth is back to none;
\* a loop that nobody ends goes to the end of the template.
EndOf(marks, first) ==
    LET Ends == {k \in first..Len(marks) : Depth(marks, first, k) = 0}
    IN  IF Ends = {} THEN Len(marks) + 1
        ELSE CHOOSE k \in Ends : \A other \in Ends : k <= other

\* The rows that a template writes for e, each with the element it is filled from.
RECURSIVE Written(_, _)
Written(marks, e) ==
    IF marks = <<>> THEN <<>>
    ELSE IF Head(marks).op = "row" THEN <<[row |-> Head(marks).row, of |-> e]>> \o Written(Tail(marks), e)
    ELSE LET end == EndOf(marks, 1)
             body == SubSeq(marks, 2, end - 1)
             each == [k \in DOMAIN Elements(e, Head(marks).of) |->
                         Written(body, Elements(e, Head(marks).of)[k])]
         IN  FlattenSeq(each) \o Written(SubSeq(marks, end + 1, Len(marks)), e)

\* The loops that are open in front of mark k, outermost first.
RECURSIVE OpenLoops(_, _)
OpenLoops(marks, k) ==
    IF k = 1 THEN <<>>
    ELSE LET open == OpenLoops(marks, k - 1)
             mark == marks[k - 1]
         IN  CASE mark.op = "start" -> Append(open, mark.of)
               [] mark.op = "end" /\ open # <<>> -> Front(open)
               [] OTHER -> open

\* A template is sound when each end closes the innermost loop by its name, and no loop
\* runs over what the loop around it runs over.
Sound(marks) ==
    \A k \in DOMAIN marks :
        LET open == OpenLoops(marks, k)
        IN  /\ marks[k].op = "end" => open # <<>> /\ Last(open) = marks[k].of
            /\ marks[k].op = "start" /\ open # <<>> => marks[k].of \notin {"", Last(open)}
=============================================================================
