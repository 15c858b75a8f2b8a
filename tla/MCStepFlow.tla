----------------------------- MODULE MCStepFlow -----------------------------
(***************************************************************************)
(* Small pipelines for StepFlow.                                           *)
(***************************************************************************)
EXTENDS StepFlow

NoHandler == <<>>
ForAny(h) == [k \in {"any"} |-> h]
BySteps(steps) == [steps |-> steps, does |-> {}]
BySnippet(outcomes) == [steps |-> <<>>, does |-> outcomes]

A(kind, branches, outcomes) ==
  [kind |-> kind, branches |-> branches, does |-> outcomes, from |-> {}, to |-> {},
   otherwise |-> FALSE, handlers |-> NoHandler, merge |-> "no", awaited |-> TRUE]

Pipeline(steps) == A("sets", <<steps>>, {})
Snip(outcomes) == A("snippet", <<>>, outcomes)
Catching(step, handlers) == [step EXCEPT !.handlers = handlers]

Ok(n) == {Returned(Value(n))}
Errors == {Threw(k) : k \in ErrorKinds}

(* Errors of every kind, from every place, under handlers of every kind. *)
Handlers(inner, outer) ==
  <<Pipeline(<<2>>),
    Catching(A("sets", <<<<3, 4>>>>, {}), outer),
    Catching([Snip(Ok(3) \union Errors) EXCEPT !.from = {Returned(Null), Threw("catchable")},
                                               !.to = {Returned(Value(3)), Threw("other")}],
             inner),
    Snip({Returned(Null), Returned(Clear), Threw("exposed")}),
    Snip({Returned(Null), Returned(Value(5)), Threw("uncatchable")}),
    Snip({Returned(Null), Returned(Value(6))})>>

InnerHandlers ==
  {NoHandler,
   ForAny(BySteps(<<5, 6>>)),
   [k \in {"exposed", "any"} |-> BySnippet({Returned(Null), Threw("exposed")})]}

OuterHandlers ==
  {NoHandler,
   [k \in {"catchable", "uncatchable"} |-> BySteps(<<6>>)],
   ForAny(BySnippet({Returned(Value(2)), Threw("other")}))}

(* A loop in a loop, ended early or not, with a handler or without. *)
Loops(handlers) ==
  <<Pipeline(<<2, 6>>),
    Catching([A("each", <<<<3>>>>, {}) EXCEPT
                !.from = {Returned(Array(2)), Returned(Array(0)), Returned(Value(2))}],
             handlers),
    A("sets", <<<<4, 5>>>>, {}),
    [A("each", <<<<7>>>>, {}) EXCEPT !.from = {Returned(Array(2)), Returned(Null)},
                                     !.merge = "key"],
    Snip({Returned(Null), Signal, Threw("catchable")}),
    Snip({Returned(Null), Returned(Value(6))}),
    Snip({Returned(Null), Signal})>>

(* Branches, references and transformers. *)
Branches(last, merging, text) ==
  <<Pipeline(<<2, 5>>),
    [A("routes", <<<<3>>, <<>>, <<4>>>>, {Threw("catchable")}) EXCEPT
       !.otherwise = last, !.merge = merging],
    [A("refPipeline", <<<<4, 6>>>>, {Threw("uncatchable")}) EXCEPT
       !.handlers = ForAny(BySteps(<<>>))],
    [A("refStep", <<<<6>>>>, {}) EXCEPT !.to = {Returned(Value(4)), Threw("other")},
       !.merge = merging, !.awaited = text],
    A("refStep", <<<<6>>>>, {Threw("uncatchable")}),
    Snip({Returned(Null), Returned(Value(6))})>>

MCPrograms ==
  {Handlers(i, o) : i \in InnerHandlers, o \in OuterHandlers}
    \union {Loops(h) : h \in {NoHandler, ForAny(BySteps(<<6>>))}}
    \union {Branches(l, m, t) : l \in BOOLEAN, m \in {"no", "unbox", "key"}, t \in BOOLEAN}
=============================================================================
