------------------------------- MODULE PagePool -------------------------------
(* PrintPdfPipelineStep (o23-n5): prints of one step share a pool of browsers and open a page each.
   A print finds a browser with room or launches one, fills its page, makes the PDF, and gives the
   page back; a failure closes the browser, with the pages of the others. Puppeteer is external:
   each of its calls is an await that may fail, and fails if the browser has been closed. *)
EXTENDS BrowserPool, SequencesExt

CONSTANT Settings   \* for each print, the names its template sets in pdfOptions

VARIABLES pages,      \* the prints whose page is open
          pdfOptions  \* the options of the step: for each name, whose template set it
vars == <<cached, keepPage, pool, closed, phase, browser, pages, pdfOptions, disturbed>>

-------------------------------------------------------------------------------
(* The pool. *)

Free == {k \in DOMAIN pool : pool[k].count < MaxPages}
First(places) == CHOOSE k \in places : \A j \in places : k <= j

GoTo(p, to) == phase' = [phase EXCEPT ![p] = to]

\* Mutant: the browser is taken without looking for room.
FindBrowserFull(p) ==
    /\ phase[p] = "new" /\ pool # <<>>
    /\ pool' = [pool EXCEPT ![1].count = @ + 1]
    /\ browser' = [browser EXCEPT ![p] = pool[1].browser]
    /\ GoTo(p, "newPage")
    /\ UNCHANGED <<cached, keepPage, closed, pages, pdfOptions, disturbed>>

\* findOrCreateBrowser: the count goes up in the same step in which it was compared.
FindBrowser(p) ==
    /\ phase[p] = "new" /\ Free # {}
    /\ pool' = [pool EXCEPT ![First(Free)].count = @ + 1]
    /\ browser' = [browser EXCEPT ![p] = pool[First(Free)].browser]
    /\ GoTo(p, "newPage")
    /\ UNCHANGED <<cached, keepPage, closed, pages, pdfOptions, disturbed>>

CreateBrowser(p) ==
    /\ phase[p] = "new" /\ Free = {}
    /\ GoTo(p, "launch")
    /\ UNCHANGED <<cached, keepPage, pool, closed, browser, pages, pdfOptions, disturbed>>

Launched(p) ==
    /\ phase[p] = "launch"
    /\ browser' = [browser EXCEPT ![p] = p]
    /\ pool' = IF cached THEN Append(pool, [browser |-> p, count |-> 1]) ELSE pool
    /\ GoTo(p, "newPage")
    /\ UNCHANGED <<cached, keepPage, closed, pages, pdfOptions, disturbed>>

LaunchFails(p) ==
    /\ phase[p] = "launch"
    /\ GoTo(p, "failed")
    /\ UNCHANGED <<cached, keepPage, pool, closed, browser, pages, pdfOptions, disturbed>>

Alive(p) == browser[p] \notin closed

PageOpens(p) ==
    /\ phase[p] = "newPage" /\ Alive(p)
    /\ pages' = pages \cup {p}
    /\ GoTo(p, "evaluate")
    /\ UNCHANGED <<cached, keepPage, pool, closed, browser, pdfOptions, disturbed>>

\* setContent to evaluate, in the page (PrintPdf says what it then shows); the options it
\* returns are copied into those of the step.
Evaluated(p) ==
    /\ phase[p] = "evaluate" /\ Alive(p)
    /\ pdfOptions' = [name \in DOMAIN pdfOptions |-> IF name \in Settings[p] THEN p ELSE pdfOptions[name]]
    /\ GoTo(p, "pdf")
    /\ UNCHANGED <<cached, keepPage, pool, closed, browser, pages, disturbed>>

\* The page is no longer counted when it begins to close.
DecreasePageCount(b) == pool' = [k \in DOMAIN pool |-> IF k \in Pooled(b) THEN [pool[k] EXCEPT !.count = @ - 1] ELSE pool[k]]

\* closeBrowser: the index of a browser that is not found is -1, and the last one is taken off.
RemoveFromPool(p) ==
    LET at == Pooled(browser[p])
    IN  /\ pool' = IF at # {} THEN RemoveAt(pool, First(at)) ELSE Front(pool)
        /\ disturbed' = IF cached /\ at = {} THEN disturbed \cup {p} ELSE disturbed

PdfMade(p) ==
    /\ phase[p] = "pdf" /\ Alive(p)
    /\ IF keepPage THEN GoTo(p, "printed") /\ UNCHANGED <<pool, disturbed>>
       ELSE IF cached THEN GoTo(p, "closePage") /\ DecreasePageCount(browser[p]) /\ disturbed' = disturbed
       ELSE GoTo(p, "closeBrowser") /\ RemoveFromPool(p)
    /\ UNCHANGED <<cached, keepPage, closed, browser, pages, pdfOptions>>

PageClosed(p) ==
    /\ phase[p] = "closePage" /\ Alive(p)
    /\ pages' = pages \ {p}
    /\ GoTo(p, "printed")
    /\ UNCHANGED <<cached, keepPage, pool, closed, browser, pdfOptions, disturbed>>

\* Mutant: a browser in which something failed is taken off the pool, and not closed.
FailsOpen(p) ==
    /\ phase[p] \in {"newPage", "evaluate", "pdf", "closePage"}
    /\ RemoveFromPool(p)
    /\ GoTo(p, "failed")
    /\ UNCHANGED <<cached, keepPage, closed, browser, pages, pdfOptions>>

\* Mutant: that a browser has been closed is not an error for those who wait for it.
FailsAlive(p) ==
    /\ phase[p] \in {"newPage", "evaluate", "pdf", "closePage"} /\ Alive(p)
    /\ RemoveFromPool(p)
    /\ GoTo(p, "closeFailed")
    /\ UNCHANGED <<cached, keepPage, closed, browser, pages, pdfOptions>>

\* Whatever fails once there is a browser closes it.
Fails(p) ==
    /\ phase[p] \in {"newPage", "evaluate", "pdf", "closePage"}
    /\ RemoveFromPool(p)
    /\ GoTo(p, "closeFailed")
    /\ UNCHANGED <<cached, keepPage, closed, browser, pages, pdfOptions>>

\* An error of close is logged and forgotten, and the browser may still be there.
BrowserClosed(p) ==
    /\ phase[p] \in {"closeBrowser", "closeFailed"}
    /\ \/ /\ closed' = closed \cup {browser[p]}
          /\ pages' = {q \in pages : browser[q] # browser[p]}
          /\ disturbed' = disturbed
       \/ UNCHANGED <<closed, pages>> /\ disturbed' = disturbed \cup {p}
    /\ GoTo(p, IF phase[p] = "closeBrowser" THEN "printed" ELSE "failed")
    /\ UNCHANGED <<cached, keepPage, pool, browser, pdfOptions>>

-------------------------------------------------------------------------------
Start ==
    /\ pool = <<>> /\ closed = {} /\ pages = {} /\ disturbed = {}
    /\ phase = [p \in Prints |-> "new"]
    /\ browser = [p \in Prints |-> NoBrowser]
    /\ pdfOptions = [name \in UNION {Settings[p] : p \in Prints} |-> NoBrowser]
Init == cached \in BOOLEAN /\ keepPage \in BOOLEAN /\ Start

Step(p) ==
    \/ FindBrowser(p) \/ CreateBrowser(p) \/ Launched(p) \/ LaunchFails(p) \/ PageOpens(p) \/ Evaluated(p)
    \/ PdfMade(p) \/ PageClosed(p) \/ Fails(p) \/ BrowserClosed(p)
Next == \E p \in Prints : Step(p)
Spec == Init /\ [][Next]_vars
=============================================================================
