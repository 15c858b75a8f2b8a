----------------------------- MODULE BrowserPool -----------------------------
(* The pool of browsers that the prints of one PrintPdfPipelineStep (o23-n5) share, and what the
   prints rely on: each browser counts the pages it has to show, and none is left running. PagePool
   says how the prints find, launch and close them. *)
EXTENDS Naturals, Sequences, FiniteSets

CONSTANTS Prints,        \* the prints, as model values or names; a browser is named after its launcher
          MaxPages       \* puppeteer.max.pages

NoBrowser == "no browser"

\* What is assumed of the constants; the modules that give them values assume it.
PoolAssumption == MaxPages \in Nat \ {0} /\ IsFiniteSet(Prints) /\ NoBrowser \notin Prints

VARIABLES cached,     \* puppeteer.browser.cache
          keepPage,   \* puppeteer.page.keep
          pool,       \* the browsers of the cache, with the pages counted for each
          closed,     \* the browsers that are no more
          phase,      \* the await each print is at
          browser,    \* the browser of each print
          disturbed   \* prints whose failure found its browser taken off the pool, or could not close it

Pooled(b) == {k \in DOMAIN pool : pool[k].browser = b}
Ended(p) == phase[p] \in {"printed", "failed"}

Claims(b) ==
    {p \in Prints : /\ browser[p] = b
                    /\ phase[p] \in {"newPage", "evaluate", "pdf"} \/ (keepPage /\ phase[p] = "printed")}

\* A browser of the pool counts exactly the prints that have claimed a page of it and not given it
\* back, and never more than the limit, whatever other prints do or fail at meanwhile
\* (puppeteer.max.pages, o23-n5/README.md:20).
CountsItsPages ==
    \A k \in DOMAIN pool :
        pool[k].count = Cardinality(Claims(pool[k].browser)) /\ pool[k].count <= MaxPages

\* When all prints have ended, a cached browser is in the pool or closed, with all of its pages; one is
\* lost, and runs on, only where a second print failed in one browser or a close failed.
NoBrowserIsLost ==
    (\A p \in Prints : Ended(p)) /\ cached =>
        \A b \in {browser[p] : p \in Prints} \ {NoBrowser} :
            b \in closed \/ Pooled(b) # {} \/ disturbed # {}
=============================================================================
