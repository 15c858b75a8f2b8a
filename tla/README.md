# Verification of rainbow-o23

rainbow-o23 is a pipeline engine for Node.js: steps, written as YAML definitions and small
snippets, read and write databases, call remote systems, print documents, and are served as
a REST API or run by a scheduler. This directory holds TLA+ models of the parts of it whose
correctness depends on *when* things happen (streams, transactions, timers, browsers, several
processes on one database), on *how errors travel*, or on *what a definition or a template means*
(SQL, print templates, declared APIs, the redress of transactions); the TLC configurations that
check them on small instances; and proofs, checked by TLAPS, for all instances.

Paths are those of the repository; `o23-n3` and so on are its modules.

    tlc -workers 2 -config MCCursorStream.cfg MCCursorStream      # a run
    tlapm CursorStreamProofs.tla                                  # the proofs

Contents: [the system](#the-system), [the models](#the-models), [the runs](#the-runs),
[disagreements](#where-the-code-and-its-documentation-disagree), [the proofs](#the-proofs),
[what is left out](#what-is-left-out), [the plan](#the-plan).

## The system

A pipeline is a list of steps. `perform` of a pipeline (`o23-n1`) hands the content of the
request through them: what one step answers is the request of the next. Steps are nested:
a *set* is a step whose body is a list of steps. Around most steps is
`AbstractFragmentaryPipelineStep` (`o23-n3`): it takes a fragment from the request, runs the
body in a try block, sends errors to the handler written for their kind, and makes a response.
The context (`PipelineExecutionContext`) goes along: authentication, trace id, and an internal
part where steps share state under keys such as `$trans` and the scoped trace ids of remote
calls. Everything runs in one event loop per process; concurrency is that of promises between
two awaits (parallel, race and async sets, stream events, timers, requests), and that of
processes which share a database.

### Inventory

| Part | State it keeps | Operations | What is hard | What makes it correct | Model |
| --- | --- | --- | --- | --- | --- |
| Cursor load (`o23-n3`, `typeorm-load-many-by-sql-use-cursor-step.ts`) | rows collected, queue of batches, round, one promise, its query runner | open stream; data, end, error events; run a batch; close; settle | three handlers start batches; state is read before an await and changed after it | batches one at a time, in order, complete; settles; runner released | `CursorStream` |
| Transactions (`typeorm-transactional-step-sets.ts`, `abstract-typeorm-step.ts`) | `$trans`: transaction name to query runner; the runner's client and session state | attach, begin, run steps, commit, rollback, release; autonomous runner | parallel and async steps on one connection; a failure at each statement | atomic; connection returned clean; nobody uses another's transaction | `TransactionalSteps`, `QueryRunner` |
| Step sets (`step-sets.ts`, `parallel-`, `race-`, `async-`, `each-`, `conditional-`, `routes-step-sets.ts`) | the steps in progress | call steps one by one, all at once, without waiting, per element, per branch | who waits for whom, which error wins | each element once; contents not lost | `StepFlow`, `TransactionalSteps` |
| Pipeline and fragmentary steps (`o23-n1` `pipeline-execution.ts`, `o23-n3` `abstract-fragmentary-pipeline-step.ts`) | request, fragment, result | from input, body, error handlers, to response, merge | errors of every part, handlers that throw | the nearest handler written for an error gets it, once | `StepFlow` |
| Scheduler (`o23-n2`, `abstract-scheduler.ts`) | registry of cron jobs; in the application the round locks and the job log | add, delete, tick: lock, create job, perform, write result | several instances in one round; every pipeline may fail half way | a locked round runs once; log tells the truth; a job can be stopped | `Scheduler` |
| Fetch step (`o23-n3`, `http/fetch-step.ts`) | abort timer, response, scoped trace ids | url, headers, body, send, status or answer, error handlers | timer against answer, body and handlers; parallel steps on one context | handlers told the truth; traces stay in their scope; timeout ends the step | `FetchStep` |
| Script deployment (`o23-n90`, `init/scripts/*.yaml`) | lock table, log table, the database | create tables, lock, load, compare md5, run, log, unlock | several deployers on an empty database; crashes; DDL outside of transactions | one deployer; DML exactly once, in order; lock given back | `ScriptDeployment` |
| Execution context (`o23-n1`) | authentication, trace id, internal keys | clone, shallow clone | what a clone shares and what it drops | async steps get no transaction of their caller | partly, in the models above |
| REST requests (`o23-n2`, `dynamic-module/`, `exception-handling.ts`) | none between requests | declare parameters, check files, authorize, perform, answer, error filter | failures behind the pipeline; forms of declaration | performed only for whom it admits, with the declared payload; the caller and the log are told | `RequestDeclaration`, `ServerRequest`, `RequestMeaning` |
| Definitions and start (`o23-n90` `config.ts`, `init/`; readers of `o23-n4`; repository of `o23-n1`) | maps of steps and pipelines, startup pipelines, the redress's context | read, redress, register, perform startup pipelines, serve | order, duplicates, sets inside each other | a step runs in the transaction it was written for; nothing served early, or twice under a code | `Redress`, `RedressMeaning`, `ServedDefinitions`, `Definitions` |
| Trigger step (`o23-n90`, `trigger-pipeline-step.ts`) | cache of parsed contents | find by code or content, parse, keep, perform | the cache across an await | what is performed is what was given | `ServedDefinitions`, `Definitions` |
| SQL steps and templates (`o23-n3`, `*-by-sql-step.ts`) | cache of parsed templates | compile, bind, load, save, bulk save | dialects, lists, one cache for all; items behind a failed one | the statement means its template; a prefix is saved; loaded as saved | `SqlTemplate`, `SavedRows`, `SqlSteps` |
| CSV, Excel and PDF printing (`o23-n6`, `o23-n5`) | tree of the template, iterators, temporary file; rows held back for merges; pool of browsers | parse, print rows and loops, write; find or launch a browser, open a page, fill, print, close | loops over cursors, merges, portions; prints that share a browser | follows the template; merges over the written lines; browsers counted and closed | `TemplateMeaning`, `PrintCsv`, `PrintExcel`, `PrintPdf`, `BrowserPool`, `PagePool` |
| Snowflake ids (`o23-n3`, `snowflake.ts`) | last timestamp, sequence | next id | wrap-around, restart, shards | unique ids | `Snowflake` |
| Data sources (`o23-n3`, `typeorm/`) | map of pools | find or create | check and create across an await | one pool per name | not modelled |
| Print tasks and the other prebuilt pipelines (`o23-n90`) | rows in a database | submit, print, finish | print after the answer | a task ends in the state it deserves | not modelled |
| Word, AWS, plugins, server bootstrap, configuration, samples, project generator, release scripts | none of interest | one call each, or start-up | - | - | not modelled |

How they meet: a request (`ServerRequest`) performs a pipeline the start registered (`Definitions`),
whose steps (`StepFlow`) open transactions (`TransactionalSteps`), send statements (`SqlSteps`), load
by cursors (`CursorStream`), call other systems (`FetchStep`) and print (`PrintCsv`, `PrintExcel`,
`PrintPdf`, whose loops may run over a cursor and use of it what `OrderedDelivery` promises). Where a
module stands on another it uses the promise the other is shown to keep: the definitions' redress is
what makes the SQL steps of `ScriptDeployment` run where that model says.

`PROJECT.json` lists every component with its status and every hazard with its line.

## The models

An action is always the code between two awaits, or one statement that a database answers.
Comments beginning with *Mutant:* mark a definition that replaces the one after it in a plausible
wrong version of the code; each property the runs check is known to reject one of them.

### CursorStream, OrderedDelivery

`CursorStream` is `doPerform` of the cursor step run by the autonomous branch of `autoTrans`.
`source` is the readable stream; `rows`, `pipes`, `cursorRound` and `results` are the variables
of `doPerform`; `active` holds the closures that were called and have not returned (a phase per
await); `ending` and `erring` are the two event callbacks that wait for `close()`; `outcome`
is the promise; `runner` is what `autoTrans` has to release. `handed` and `rounds` are history.

| Code | Actions |
| --- | --- |
| `runner.stream` in `read()` | `OpenStream`, `OpenFails` |
| `on('data')` | `CollectRow`, `CutBatch` |
| `on('end')`, `on('error')` | `EndOfRows`, `AfterEnd`, `StreamError`, `AfterError` |
| the closure of a batch | `StreamedTo`, `BatchDone`, `LastBatchDone`, `BatchFails`, `BatchRejected`, `LastBatchFails` |
| `finally` of `autoTrans` | `ReleaseRunner` |

A row is its position in the result set; results keep the rows they were made from. A stream
never emits its end after `destroy()`, but may end while it is paused: that is more than Node
does, and harmless. Only the autonomous branch is modelled: inside a transaction the runner belongs
to the transactional set, and the step neither makes nor releases it.

`OrderedDelivery` says what a load promises to the steps behind it: rows in order, each once,
all of them when it resolves. `DeliversInOrder` is the refinement (`emitted <- received`,
`delivered <- handed`).

### QueryRunner, TransactionalSteps

`QueryRunner` is external: typeorm's query runner on a pooled connection, as the steps use it
(`isTransactionActive`, `transactionDepth`, savepoints for nested begins, a queue of statements
per connection, and the session's stack of written rows). A released runner refuses every
statement. A statement that fails changes nothing; a failed commit or rollback means that the
database has discarded the transaction.

`TransactionalSteps` runs a tree of steps (`plan`): `sets`, `parallel`, `race`, `async`, `trans`
(transactional sets), `sql` (a write through the runner in `$trans`), `autonomous` (a write
through a runner of its own) and `snippet`. A step may have a handler. `trans` and `transOf` are
the `$trans` objects and which context refers to which: an object that is replaced while another
step still works with it is how the code loses a transaction.

| Code | Actions |
| --- | --- |
| `performAndCatch` of any step | `Throw`, `HandlerEnds` |
| sets, parallel, race | `Enter`, `NextStep`, `Leave` |
| async set: clone of the context without `$trans` | `EnterAsync` |
| `attachMineToInternalContext` | `AttachFound`, `AttachNew`, `Connected`, `ConnectFails` |
| commit, catch and rollback, finally and release | `Commit`, `Rollback`, `AfterCommit`, `RollbackAfter`, `AfterRollback` |
| `isTransactional`, `createRunner`, `autoTrans` | `Query`, `Autonomous`, `AutonomousConnected`, `AfterQuery` |
| the database | `Answer`, `AnswerError` |

A typeorm step looks for its transaction twice before it uses it, without a wait on the outside
between: one action. A race takes any step that has settled, where the code takes the first one.
The steps of an async set are called in the cloned context; what Node does with a rejection
nobody waits for depends on how it is started, and is left out. Better-sqlite3 has one connection
and a release that does nothing: the model is that of the pooled drivers (MySQL, PostgreSQL, ...).
`StepTrees` names the kinds of trees the theorems are about.

### StepFlow

The chain of awaits of one pipeline is `stack`; its last frame is the step that runs, with the
request it was given, its fragment, the content of its body and where it is in it. `answer` is
what the step that ended last hands down. Snippets, conditions, transformers and handlers are
user code: a program gives, for each, the set of what it may return or throw. Error kinds are
`catchable`, `exposed` (which extends `uncatchable`), `uncatchable` and `other`; `any` is the
handler for the rest.

| Code | Actions |
| --- | --- |
| `getFromInput` | `FromRequest`, `FromRequestFails` |
| `doPerform` of a snippet, of sets, of a pipeline and of references | `Snippet`, `SnippetFails`, `CallStep`, `StepReturns`, `StepThrows`, `StepsDone`, `ReferenceFails` |
| `handleError` | `Catch`, `HandlerSnippet`, `HandlerFails` |
| `EachPipelineStepSets` | `NoElement`, `NotAnArray`, `NextElement`, `ElementDone`, `LoopDone` |
| routes, and conditional as routes with one branch | `CheckHolds`, `CheckIsFalse`, `CheckFails`, `Otherwise` |
| `toResponse`, `mergeRequest` | `ToResponse`, `ToResponseFails` |

Contents are tagged tuples, enough to tell nothing (`null`), a deliberate nothing
(`PIPELINE_STEP_RETURN_NULL`), a value of a step, an array, the results of a loop, a merged
object, a promise nobody awaited, a semaphore and the arguments of an element or a handler.
A merge is one pair of the request and what was merged into it, whether it is spread or put under a
key, and whatever its type. A snippet ends a loop by returning the semaphore it finds in its own fragment.
Parallel sets are in `TransactionalSteps`.

### Scheduler

An enabled `ScheduleService` on each instance. A tick is a cron job in a round. The phases are
the awaits of `onTick`: `ObtainClusterExecutionLock`, `CreateJob`, `PerformJob`, `WriteJobResult`;
the registry is changed by `AddCronJob` and `DeleteCronJob`. The three pipelines are the
application's: the lock pipeline grants a round to one tick and may answer true, nothing, false
or an error, and any of them may fail before or after it took effect. A cron job does not wait for
its last tick, may miss a round, and may be stopped while a tick is under way. The pipeline of the job
ends with any of `Outcomes`, a code of its own among them, which may be `failed` as well.

### FetchStep

The phases of a step are its awaits (`url`, `headers`, `body`, `sending`, `reading`, `status`,
`caught`). node-fetch and the remote system are external: an answer, a failed connection, a body
that arrives in whole or never, trace ids it makes up. The timer is never cleared by the code, so
`TimerFires` may come at any later point; an aborted body makes whoever reads it throw an abort
error. A handler for a status and the response snippet may read the body or not. Default handlers throw an
uncatchable error. User code may throw anything: an error the catch takes for an abort, an uncatchable
one, null, any other; `raised` is what the catch of the step got. Steps of a request share `scopedTraceIds` of the context.

### ScriptDeployment

The prebuilt pipeline of the script entry (`00001-...` creates the tables, `00002-...` runs the
files), for several deployers on one database. The four dialects are one procedure; lines refer
to the MySQL one. A step is one statement, which may take effect and still be reported as failed,
and at which its deployer may crash. The transaction of a script is opened with its first
statement; what is not committed is discarded when it fails. `log` is the log table; `applied`
what the scripts of a file did; a content stands for a file's text and its md5.

The pipeline relies on the definitions' redress, which makes its SQL steps autonomous or puts
them in the transaction around them. A script that fails, or was changed, ends the loop by its
semaphore, and the step behind the loop unlocks; an error anywhere else ends the pipeline with
the lock held, until an operator frees it (`OperatorUnlocks`, only when no deployer works under
it). A statement which the database still runs after its deployer crashed is not modelled.

### TemplateMeaning, PrintCsv, PrintExcel, PrintPdf, BrowserPool, PagePool

`TemplateMeaning` says what a template means apart from how it is read: the rows between a start and
its end are written once for each element of the loop, and paths in them are relative to the element
(`Written`); a template is sound when each end closes the innermost loop by its name (`Sound`). The
three printers are checked against it.

`PrintCsv` and `PrintExcel` read a template row by row into a tree (`ParseRow`): a row of the
tree knows the loop it is in. Printing walks the tree; `walk` is the stack of iterators. A loop runs
over nothing, one element, an array, or a cursor whose elements arrive in batches (`BatchArrives`,
`CursorFails`) with the rows of the loops around printed between. A cell is a sequence of tokens:
what a variable is, how braces are escaped and which part is a number is decided by the operators
translated from the code, and compared with what the template's author says the cell means.

| Code | `PrintCsv` | `PrintExcel` |
| --- | --- | --- |
| `parseAst` | `ParseRow` | `ParseRow` (with every mark of a note), `NextAst` |
| `printLoopRows`, iterators | `PrintRow`, `PrintLoopRows`, `NextItem`, `BatchArrives`, `CursorFails`, `LoopDone` | the same, and `PrintSheet` for each element of a sheet's loop |
| temporary file; worksheets | `Push`, `Csv` | `AddWorksheet`, `AddRow` (rows held back, regions merged), `CommitWorksheet`, `CommitWorkbook` |

In `PrintExcel` rows that are part of a merge are held back (`waiting`) until one follows that is part of
none; then the regions of the rows that wait are found by walking from each master over slaves, whose ever
they are, and merged (`Merging`). Where a walk takes over slaves of another merge, exceljs refuses the
overlapping regions and the print fails (outcome `overlapping`). `MergesOfWrittenRows` says what that
comes to: with no staggered merges, each region is what was written of its merge, stretched over the rows a
loop repeated; the print fails only, and always, for two staggered ones. A sheet that loops, over a cursor
too, is written once per element. Styles, heights and images are left out.

In `PagePool` the prints of a PDF step share the pool of browsers of the process; a browser is named
after the print that launched it. `BrowserPool` has the state of the pool and what is promised of it
(`CountsItsPages`, `NoBrowserIsLost`). Every call of Puppeteer is a wait that may fail, and does when another
print's failure has closed the browser. What the page shows is an operator of `PrintPdf`
(`PageEvalFunction`): sub templates are put in until there are none, and each loop is taken out and a
copy per element is appended to its parent.

| Code | Actions |
| --- | --- |
| `findOrCreateBrowser` | `FindBrowser`, `CreateBrowser`, `Launched`, `LaunchFails` |
| `printPdf`: new page, content, options, PDF | `PageOpens`, `Evaluated`, `PdfMade` |
| page and browser given back | `PageClosed`, `BrowserClosed` |
| `catch` of `printPdf`, `closeBrowser` | `Fails`, `BrowserClosed` |

### SqlTemplate, SavedRows, SqlSteps

`SqlTemplate` holds the algorithms of `abstract-typeorm-by-sql-step.ts` as operators on sequences of
tokens: the pagination of a dialect in each line, the search for variables, wildcards and lists, the
placeholders of four dialects, and the values that are bound.
`SqlSteps` are the steps that use them over the process-wide cache: `Perform` (compile and send the
first item), `Saved` and `Loaded` (an answer, and the next item of a bulk save), `Rejected`, and
`EndOfSets`, the transactional sets around. The template of a call (`SqlOf`) is the one of the `in`
fragment or else of the step. `SavedRows` says what is in the database of a save by then
(`BulkSavesAPrefix`) and what a load gives back of it (`LoadedAsSaved`). For that a call names its
`columns` by their suffixes (`.@json`, `.@bool`, `.@ts` or none) and, if it saves, the `variables` whose
values go there. How the driver delivers a column is external (`Delivered`); `Beautified` is what the
step makes of it. A text for `.@json` is not serialised by a save, yet parsed by a load: `JsonTexts` says
which texts are JSON and what they say, `GivenBack` that any other fails the load
and an empty one is null. `MCSqlSteps` gives each template a second time, as a list of
elements with a meaning of their own (a text, a variable of a style, a pagination), and compares the
statement and the values bound to it with that.

### RequestDeclaration, ServerRequest, RequestMeaning

`RequestDeclaration` is what a definition declares: parameters in their order, the payload made of the
arguments, interceptors, checks of files (`multer` and `ParseFilePipe` are external), and the roles
that may call. `ServerRequest` is a request through it: `Invoke` (arguments, files, and the
authentication pipeline or the pipeline itself), `Authenticated`, `Performed`, each with the path
through `handleException` and the error filter. An error carries the mark by which the code knows
that it was logged; what is thrown may also be no Error: an object, a text, which takes no mark, or null.
The pipelines return any of the results, or throw. `RequestMeaning` says, apart from how parameters,
interceptors and validators are made, which uploads a declaration takes and with what payload the pipeline
is performed (`PayloadAsDeclared`), and for which declarations. Where the documentation says otherwise of
files and limits it says what the code does, and [disagreements](#where-the-code-and-its-documentation-disagree)
tells of it.

### Redress, RedressMeaning, ServedDefinitions, Definitions

A definition is a tree of objects with what the redress reads of them. `Redress` is `config.ts`: the
installs, the values in the order of their keys, the uninstalls. `Performed` is what the steps
then do at run time (`Runs`): with the transactions of the context, those whose sets are under way and
those whose set has ended and left its released runner in `$trans`; the steps of an async set get a clone
without them, those of a cursor a temporary context without them. A step runs on a connection of its own,
in an open transaction, or fails (`RunsIn`). `MeantToRun` of `RedressMeaning` says what they should do by
the documentation of typeorm steps, transactional sets and the loose mode (`o23-n99/README.md:1073-1093`,
`1342-1375`; for async sets the comment at `async-step-sets.ts:7-8`), without a context that is passed along.
Alternatives (routes, branches, error handles) are a definition for each way through them.

`Definitions` is the start: `ReadDef` (one definition: load, then `parseDef`), `ExecuteInitPipelines`,
`PerformInitPipeline` (a startup pipeline registers what its snippets read), `RegisterMyself`; and then
trigger steps: `FindPipeline` up to the wait for the reader, `ReadContent` behind it. `read` counts the
sources read, where the code goes through arrays. What is registered at once (`putStep`,
`DynamicModulePipelines.create`) is a map in which the last definition of a code stays (`Registered`).
`ServedDefinitions` is what the two promise: the state one sees of them, and the three properties.

For the start a definition is its type, code and switches, and something given which the reader
redresses. What the redress does to it, where its steps then run and where they are meant to run
are parameters (`RedressedIn`, `RunsAt`, `MeantAt`); the run `definitions` puts `Redress` and
`RedressMeaning` in their places. So the start and the triggers are proved for any redress that is
right about the definitions there are, and TLC checks that the code's is, of those of the run.

### Snowflake

Several processes with a clock each: `Generate`, `WaitNextMillis` (the busy wait, during which nothing
else of its process runs), `Tick`, `Restart`. A clock does not go back and a process needs a millisecond
at least to start again; callers give no timestamp.

## The runs

Passing runs check safety with all interleavings, and liveness under the fairness given.

| Run | Instance | States | What it shows |
| --- | --- | --- | --- |
| `cursor` | 7 rows, batches of 2, with or without pausing and sub steps | 4,024 | batches run alone, in order, completely; nothing runs behind a failure; once open, the promise settles |
| `transactions` | 11 trees of 4 to 9 steps | 4,752 | transactions are atomic, also nested, handled, beside a race and beside an async one; connections go back clean; everything ends and is released |
| `trans_late_sibling` | one tree of 6 steps | violated | see [disagreements](#where-the-code-and-its-documentation-disagree) |
| `steps` | 23 pipelines of up to 7 steps | 6,602 | errors go to the nearest handler, contents survive, every pipeline returns |
| `scheduler` | 2 instances, 2 jobs of one code, 2 rounds, 2 ticks | 237,280 | a locked round runs once, and runs unless a pipeline failed; the log tells how the pipeline ended; a job leaves the registry as it stops |
| `fetch` | 4 plans of 2 or 3 steps, 2 trace ids | 463,397 | uncatchable errors pass, handlers are told the truth, traces stay in scope, a timeout ends the step |
| `script_deployment` | 3 deployers, 4 deployments, 3 files (one DDL), 5 releases, 2 contents | 76,947 | one deployer at a time, DML exactly once, in order, the lock is given back, deployments end |
| `printing` | every CSV template of up to 4 rows of 7 kinds, 1,000 notes of Excel rows, texts and merges of every shape, 3 PDF prints with 2 pages per browser | 82,964 | what is printed is what the template says, merges cover what was written of them or fail the print, browsers are counted, closed and not lost, every PDF ends |
| `sql` | 4 steps, 25 calls of every kind, 2 requests, 1 refusal | 6,995 | statements and bound values mean their templates in every dialect, a bulk save leaves a prefix, rows are loaded as they were saved, or fail to be if a text for `.@json` is none |
| `server` | 15 controllers, 10 uploads, with and without a token, 26 authentications, 15 results, 4 settings | 82,700 | a pipeline is performed only for whom and with what its definition admits, with the declared payload; a request is refused for its files if and only if they are not as declared; answer and log tell the outcome |
| `definitions` | 10 orders of sources, 5 modes, 2 triggers with one cache key, 10 kinds of request | 24,750 | triggers perform what they were given, each step where it was meant to run, also beside async sets and cursors; nothing is served early or under two definitions |
| `snowflake` | 2 processes, 3 numbers per millisecond, 3 milliseconds | 16,641 | no id is generated twice |

### Bounds, and why they are enough

- `cursor`: seven rows are three full batches and one row more. With fewer rows arriving the result
  is empty, an exact multiple of the fetch size, or leaves a rest; none to three batches are queued
  as the end, an error or a failing batch comes in. The safety properties are proved for every
  number of rows and every fetch size.
- `transactions`: a plan per way in which sets meet: inside each other (`Nested`), around a handled
  failure (`Handled`), beside an async set of the same name (`Detached`), beside a race (`Racing`),
  an async step inside (`AsyncInside`), one name used again where that is handled (`Siblings`).
  Three connections at most are under way. `OwnConnection` is proved for every tree of which names tell
  the sets apart. The plan in which the code loses a write has a run of its own
  (`LateSibling`) and is kept out of the passing one.
- `steps`: three families, `Handlers` (three by three handler tables around steps that throw every
  kind from every place), `Loops` (a loop in a loop, none, two or no array of elements, ended early
  at either level), `Branches` (routes, references, every merge). Two levels of nesting are what a
  rule about *the nearest* handler, or *its own* semaphore, needs to be wrong. Both safety properties are
  proved without the bounds.
- `scheduler`: ticks in different rounds or of different codes share no state but the registry; two
  ticks are the pair that can collide, in one round or one job in two. `OneRunPerRound`,
  `LogTellsWhatHappened` and `StopsWithItsEntry` are proved without the bounds.
- `fetch`: two steps meet through the context, a third one comes between a step and its successor. The
  safety properties are proved without the bounds.
- `script_deployment`: three deployers, since two may collide in creating the tables while a third
  comes later; a fourth deployment starts after a crash of another. The releases have a file added
  in front, added behind, changed, and missing. The safety properties are proved without the bounds.
- `printing`: four rows hold a loop in a loop with a row, or every way to open and close two loops
  wrongly; two longer templates have rows around both. The data have none, one and several elements
  under a name, as an array, a single one and a cursor, whose three elements come in batches of two; the
  temporary file is written every two lines. Three notes that may each hold up to four marks are what
  the order of marks within a note and between rows needs. Merges go across, down and both, in a loop in
  a loop, with a row that a loop repeats or cuts off, beside and below each other in every stagger, and at
  the end of a sheet. Three prints with two pages per browser make the
  second browser and let two prints share one while it fails; that browsers are counted and accounted for
  is proved without the bounds.
- `sql`: two requests suffice to meet in the cache; items with values of every type, lists of
  none, one and two elements, templates in which a variable follows a variable, with paginations in and
  behind a line. `BulkSavesAPrefix` is proved without the bounds.
- `server`: requests share nothing, one at a time is enough; the declarations cover every form (none,
  all, names) of every kind of parameter, files of every form within and beyond the limits, limits in every
  unit, none, negative and unreadable, and every kind of value that can be thrown. All three
  properties are proved without the bounds.
- `definitions`: the orders of sources contain every pair that can be duplicate, with one of it
  disabled, a step and a pipeline that a startup pipeline registers, and startup pipelines that fail or
  read something malformed. Two triggers are the pair that meets in the cache; the contents
  have a step in, between, behind and inside of transactional sets, of one and of two data sources, and
  async sets and cursors in, around and beside them, as far as the redress is right about them. All
  three properties are proved without the bounds, of definitions the redress is right about.
- `snowflake`: three numbers wrap within a millisecond. Proved without the bounds.

### Fairness

- `CursorStream`: the driver answers, a flowing stream emits as long as it flows (a paused one need
  not), the continuations behind `close()` run, batches settle. The code has no other scheduler than
  Node's event loop, which runs what is ready; that a batch settles is the user's pipeline's part,
  and without it the load could not settle either.
- `TransactionalSteps`, `StepFlow`: weak fairness of `Next`: some promise that is ready is continued.
- `Scheduler`: the pipelines of a tick settle. Nothing is assumed of ticks, rounds or additions.
- `FetchStep`: user code settles, unless it may be waiting for the rest of a body; timers fire. Nothing
  at all is asked of the remote system.
- `ScriptDeployment`: the database answers each deployer. Crashes are never forced or excluded.
- `PagePool`: what Puppeteer is asked is answered, well or not (weak fairness of the prints' next step);
  a call that never comes back would keep its print waiting, for which the code has no timer.

Deadlock checking is off where the modelled program ends (a load that settled, a request that was
answered, a pipeline that responded, a print, the calls of the SQL steps) or reaches the bound of rounds
or deployments; that nothing stops *early* is what the liveness properties say.

## Where the code and its documentation disagree

One run checks a property that the repository states, and TLC shows an execution of the code in which
it does not hold.

| Run | Property | What happens |
| --- | --- | --- |
| `trans_late_sibling` | `CommittedTogether` | The first rejection ends `Promise.all` while a sibling goes on; its write queues up behind the ROLLBACK on the same connection and is executed in autocommit mode, though "all the sub-steps inside a transactional step set can be executed within a single transaction" (`o23-n3/README.md:574-575`). |

Also met, in the models or while reading, and without a run of their own. Transactions, steps, scheduler, deployment:

- `read()` of the cursor step is not awaited (`typeorm-load-many-by-sql-use-cursor-step.ts:190`). When
  `runner.stream` rejects (`OpenFails`), nobody resolves or rejects the promise of `doPerform`, and
  `autoTrans` never gets to "release runner" (`abstract-typeorm-step.ts:194-196`).
- A transactional set leaves its released runner in `$trans` (`typeorm-transactional-step-sets.ts:75`). A
  second set of that name, behind it or inside it, or its own next turn in a loop, uses it and fails, though "if given transaction is
  open (transaction key exists), will use it" (line 20). `Siblings` shows it, with the error handled.
- Two transactional sets in parallel, with different names as line 21 asks for, both create a `$trans`;
  the second one replaces the first (line 81), whose steps find no transaction.
- `performAndCatch` is around the whole loop of For Each (`each-step-sets.ts:43`): the first error ends it,
  though error handles are to be "used for each iteration" (`o23-n3/README.md:175-176`).
- A DDL script and its log entry are two statements without a transaction
  (`00002-execute-scripts-mysql.yaml:96`); between them a failure leaves the script executed and not
  recorded, and it is executed again, though "it will be skipped" (`o23-n90/README.md:133`).
- An error of an async set has nobody who waits for it (`async-step-sets.ts:20`); what Node does then
  depends on how it was started.
- `toResponse` together with a merge key is not awaited, nor is a function with unboxing
  (`abstract-fragmentary-pipeline-step.ts:233, 241, 246`): the response holds a promise (`Promise` in
  `StepFlow`) and an error in it reaches no handler.
- A scheduled pipeline whose `createJob` fails is not performed: the comment says "ignore it"
  (`abstract-scheduler.ts:184`), line 186 throws. A second job of one code starts to tick before it is
  refused (line 273), and no call stops it. A payload that is a number or a boolean writes no result,
  nor does a pipeline that throws null (line 268 reads its message). A pipeline that answers the code `failed`
  leaves in the log what one that throws does; its message tells them apart, if it has one.
- The handler for `600` is documented for "an error occurred due to a timeout" and the one for `000` for
  "any exceptions ... not caused by a remote call" (`o23-n99/README.md:768-770`). The catch takes every
  `DOMException`, and every error with the name `AbortError`, for the timeout, whoever threw it
  (`fetch-step.ts:466`), and an error thrown as null reaches no handler.
- A trace id that is found in the headers of a fetch step is never put into the context
  (`fetch-step.ts:319`, comment at 326), and the headers to omit are documented as case-insensitive but
  deleted by their exact name (line 376).
- `$runner` is said to "automatically start a transaction" (`o23-n3/README.md:569-570`); an autonomous
  step starts none (`typeorm-by-snippet-step.ts:51`).
- The sub steps of a cursor find the round under `$typeOrmCursorRound`; the documentation calls it
  `$$typeOrmCursorRound` (`o23-n3/README.md:523`). `$trans` is not visible to them.
- A deployer that finds the lock table but no log table yet, since another one is creating them, takes
  the lock, fails at its first `SELECT` and leaves the lock held; tables that were half created do the
  same to every later deployment. The script entry ends with code 0 also when it did not get the lock.

Printing:

- The options of the PDF step are changed by each template and kept for the next print
  (`print-pdf-step.ts:342`), while `o23-n5/README.md:169` describes them as options of the template.
- `closeBrowser` looks for its browser's index and takes what `splice(-1)` takes when there is none
  (`print-pdf-step.ts:292`): the second print that fails in one browser drops another one off the pool,
  which is never closed. `NoBrowserIsLost` holds except for that and for a close that fails (`disturbed`).
- The copies of a PDF loop are appended to the end of their parent; the documents of the model have their
  loops last. A sub template that contains itself is put in without end, one without a definition shows
  "undefined".
- The temporary CSV file is read though fewer lines than a portion were printed and it was never written,
  and it is never deleted (`print-csv-step.ts:321-323`; `o23-n6/README.md:22`): outcome `noFile`.
- Notes of Excel cells that are rich text are always dropped (`print-excel-step.ts:681-696`), and a plain note
  of several lines is printed with its marks. Merges in the last rows of a sheet are never made (the
  last rows that wait). A loop that repeats a row of a merge stretches the merge over all of them.
- A merge is found by walking over slaves without asking whose they are (`print-excel-step.ts:621-640`):
  a master whose neighbour on the right, or below, is a slave of another merge is stretched over it, the
  regions overlap, and `mergeCells` throws. A slave whose own master stands in a loop without elements is
  taken by its neighbour in the same way (`MergesOfWrittenRows` leaves such lines out, `Whole`).
- `$.num.` is a part of paths for Excel only; in a CSV template `$.num.x` asks for `.num.x`
  (`print-csv-step.ts:188-199`), though the section on CSV templates tells of it (`o23-n6/README.md:95-98`).

SQL, requests, definitions, ids:

- `$.limit` is replaced by a greedy expression, with `ROWS ONLY` at the end of the line
  (`abstract-typeorm-by-sql-step.ts:208-231`): what stands behind it in the line comes before. An empty list
  gets a null pushed into the caller's own array (402). `PARSED_SQL_CACHE` is never cleared. A boolean that
  is null is read back as false.
- A text for `.@json` is bound as it is (283-286) and parsed when it is loaded (470-477): one that is no JSON
  makes every load of its row throw, `12` comes back as a number, an empty one as null (460). The
  documentation (`o23-n3/README.md:439-442`) does not say that a text has to be JSON already.
- Files under several names with a check are refused unless one of the names is `size`
  (`request-file.ts:28-41`; `o23-n99/README.md:254-264`); a limit that is a text without a unit loses its last
  digit (271), and one that is negative or no number is no limit at all (276-280); the parameter of checked
  files without a name is called "undefined" (303; `o23-n99/README.md:245-246`).
- `multiple: true` "only works when name is not specified" (`o23-n99/README.md:247`): it works only with one
  (`request-file.ts:179-188`), since files without a name always come as an array. A name "and only one file"
  gives a "file object" (271): with `multiple`, or with several names, it is an array of one file (184, 196).
- What is thrown and is no Error is logged by nobody when the authentication pipeline throws it
  (`exception-handling.ts:38`). A text thrown by a pipeline is logged, cannot be marked (11), and the
  TypeError of the attempt is logged as well and takes its place, as it does for null (7). An HttpException
  keeps the code of its response, if that is an object which has one (61-67); other HttpExceptions have none.
- A controller without declared parameters gets the response of express as its payload
  (`controllers.ts:94-96`). An authentication attribute or exposed header that is a number fails the
  request with status 500 after its pipeline was performed (231; `o23-n99/README.md:299`), as does an
  authentication pipeline that answers null, before it.
- The redress (`o23-n99/README.md:1081-1093`): a set inside a set of the same data source and transaction
  removes the outer one's entry as it ends (`config.ts:74-76`), and the steps behind it become autonomous.
  Data sources are compared as they are written, before values of the environment are put in. A step
  that names no transaction, in the only one, which has a name of its own, is not put into it, though
  the comments of `config.ts:88-93` say so. The redress changes objects in place that YAML aliases share.
  Steps of a triggered content do not see the transactions around the trigger step.
- The redress knows neither async sets nor cursors. A step in an async set inside of a transactional set is
  put into the transaction around it, or left without `autonomous`, and fails with "Transaction not found"
  (`async-step-sets.ts:15`, `abstract-typeorm-step.ts:65-66`), though it "is not in a transaction"
  (`o23-n99/README.md:1092`); the documentation forbids such a set (935), nothing checks it. So does a step
  of a cursor that is inside of a transactional set, though a transaction "can be used across layers, not
  limited to direct sub steps only" (1343): a temporary context is not "everything same as parent context"
  (`pipeline-execution-context.ts:104`), it has neither `$trans` nor what other steps put there (150-155).
- A disabled pipeline occupies its code (`abstract-pipeline-initializer.ts:85`), a disabled step does not. A
  pipeline registered by a startup pipeline replaces one of its code silently, and both have their routes.
- Two first uses of a data source at the same time make two pools (`datasource-manager.ts:63`).
- Snowflake ids repeat when a caller gives timestamps or a clock goes back (`snowflake.ts:39`).

## The proofs

TLAPS checks every theorem below to its leaves. The assumptions are those the modules name: sizes
are natural numbers, `None` is not a value; the code of no endpoint is that of a system
(`FetchStepAssumption`); an authentication pipeline answers something, null or an error
(`AuthenticationsAssumption`); what a pipeline throws nobody has logged (`ResultsAssumption`), and files
come in requests of several parts (`UploadsAssumption`); a pipeline takes its request as it is and has no
handler of its own (`ProgramsAssumption`); definitions have their fields, and what the sources and the
snippets name are definitions (`DefinitionsAssumption`). `RedressAssumption` is a premise about the
definitions themselves: the steps of each run, redressed, where they are meant to. It does not hold of
definitions with a set inside of, or behind, a set of its own data source and transaction, nor of those with a
step that relies on the transaction around its async set or its cursor (see
[disagreements](#where-the-code-and-its-documentation-disagree)), and nothing is proved about these. Of the
theorems it is used by `AlwaysTriggeredAsWritten` and `AlwaysServedAsDefined`. Three modules have premises in the statements of their theorems
besides: `TransactionalStepsProofs` about the trees (`StepTrees` defines them), `PayloadAlwaysAsDeclared`
about the declarations, and `LeafStepsProofs` the assumptions of `BrowserPool` and `SqlSteps`
(`PoolAssumption`, `CallsAssumption`, `ColumnsAssumption`). TLC evaluates
each of them for the instances of the runs.

### CursorStreamProofs: any `MaxRows`, any `FetchSize` above zero

The safety properties are not inductive: that a batch may be handed over when a closure returns needs
to know that its rows begin where the ones before ended, which needs to know what is in the queue,
which needs to know that only its head ever runs. `CursorStreamInv` states this as

    IInv == TypeOK /\ Shape /\ Order /\ Arrived /\ RoundCount /\ Resolution

`Shape`: the queue holds full batches and at most one last one at its end, the closure that runs is
the head (or the last batch, run directly while the queue is empty), and which events can still come.
`Order`: what was handed over, the queue and the buffer are the rows 1, 2, 3, ... without a gap or an
overlap. `Arrived` bounds them by what the stream emitted, `RoundCount` ties the rounds seen to the
counter and the phase of the closure that is about to read it, `Resolution` says that nothing is left.
The module has a lemma per action and per part it can disturb. From `Invariance == Spec => []IInv`
follow `TypeCorrect`, `OneAtATime`, `RoundsCorrect`, `Complete`, `Bounded`, `FailureFences`, and
`Refinement`: each step of the load is a step of `OrderedDelivery` or leaves its variables alone.

### SchedulerProofs: any instances, codes, jobs, rounds and ticks

`IInv` has, besides `TypeOK`: `Places` (a registered job ticks, and is at the place it says), `Begun`
(a tick that has begun has a job with a code), `Locked` (a tick of a code that needs the lock and went
past it is the holder of its round) and `Logged` (what was written for a tick by the phase it is in).
`OneRunPerRound` follows from `Locked` since a round has one holder; `LogTellsWhatHappened` from
`Logged`. `StopsWithItsEntry` is an action property, proved from `Places`.

### ServerStartProofs: any definitions, sources, triggers, requests, deployers, files and releases

The start of a server and its triggers (`Definitions`). `ServedAfterInit` and `ServedAsDefined` speak of what is
served at the end, and the invariant has to say what leads there, from the first definition read on:

    DefinitionsInv == StartInv /\ Kept

`ReadOnce`: the pipelines read so far have codes of their own, those of `pipelineMap`. `Performed`: while
definitions are read, the startup pipelines to perform are, without the disabled ones, those the filter makes
of the sources read so far; afterwards those performed and those still to perform are, one behind the
other, all of them. `ToServe`: the pipelines to serve are first those of the sources that were read and then
those which the startup pipelines performed so far registered; which is which decides whom a code is served
by when a snippet registers it again. `Served`: nothing is served before all of this, and then the last of each
code. `Kept`: what is in the cache, and what a trigger performed of a text, is what the text says, so that no
order of triggers that wait for the reader can mix two contents up.

The filter is a recursive function, and what it does for every sequence is induction over data. As it takes
no operator as a parameter, its lemmas (`Loop`, `LoopStep`, `SameSoFar`, `Elements`) can be proved from the least number
for which they would fail (`Least`, from the library's theorem about well-founded relations). `ServedHolds`
takes a code that is served, the last pipeline of it, and asks on which side of `ToServe` that is: behind, a
snippet registered it; before, no snippet did and `ReadOnce` makes it the only one of its code.

The deployment of database scripts (`ScriptDeployment`).

`IInv` is `TypeOK`, `OneDeployer`, `LogTellsWhatRan`, `LockIsGivenBack` and two more: `Behind`, the
files in front of the one a deployer is at are recorded as its release has them, and `Here`, the file
a deployer works at is not in the log, and what it has done of it so far. The lemma `Effects` is about
any statement of the pipeline, whether or not it took effect; `Preserved`, `Stays` and `GoesOn` turn it
into the invariant for a deployer that goes on, and there is one lemma per group of actions. `Final` and
`Ordered` are the action properties; they hold because only the deployer under the lock changes a file.

### LeafStepsProofs: ids of any processes, any prints that share browsers, any saves and loads by SQL

The ids: any processes whose shards differ in ten bits, any `MAX_SEQUENCE` up to 4096.
That no id is repeated is not inductive: it needs to know what a process has issued in the millisecond
its clock shows. `IInv` is `TypeOK`, that no last timestamp is ahead of its clock, `Behind` and
`IdsAreUnique`. `Behind`: every id was generated by some process and is not ahead of its clock, and one of
the clock's millisecond makes that the last timestamp and, unless the process waits, has a number up to
the sequence. `PartsOfAnId` is the arithmetic: equal ids have equal timestamps, shards and numbers.
`AheadIsNew` puts them together: an id of the clock's millisecond is new when the process has issued none
in it, or when its number is ahead of the sequence. `KeepsBehind` and `KeepsBehindIssuing` turn any step in
which each process moves as `Moves` says into the invariant, and there is a lemma per action.
`NoIdTwice == Spec => []IdsAreUnique` follows.

The browsers: any prints, any limit of pages, with or without the cache and kept pages. That a browser
counts the prints which claim a page of it is inductive only together with who launched what
(`Launches`): a browser is named after its launcher, is in the pool once, and a print that has not
launched or found one has none; otherwise a count could go up for a browser that is there twice, or a new
one could find claims. Which ways of closing the configuration leaves is `ClosesAsConfigured`. `Accounted`
adds the browser on its way out: one that is in no pool is closed or has a print about to close it. The work
is in taking an entry off a sequence (`RemovedAt`, `RemovedFromPool`: what is left is what was there, each
still once) and in counting (`Recount`, `CountFollows`: a step moves one print into the claims of its
browser, or out of them). `FirstIsOne` is where `find` is shown to answer one of those that qualify.
`PagesAlwaysCounted` and `BrowsersAlwaysAccounted` follow; both have `PoolAssumption` as their premise (the
limit is above zero, the prints are finitely many and none is called `NoBrowser`), which the run evaluates.

The saves: any requests, steps, calls, items, cache, and refusals of the database.
`BulkAlwaysSavesAPrefix == Spec => []BulkSavesAPrefix`. The strengthening, `SavedSoFar`, says for each place
of a save what is durable, what is pending in the transaction around it, and which results it has: the
property says nothing of what is pending, which is what the end of the sets makes durable. Each request has
only rows of its own, so a step of another leaves them (`OthersSaved`), and `Advances` says what a step has
to keep, with a lemma per action. `getSql` may push a value into the data of an item it is given;
`SendKeepsCalls` says it changes nothing else of the call. The premise is `CallsAssumption`, the form of a
call, which the run evaluates as well.

The statements and the loaded rows: any templates as well, of any dialect, with the cache or without.
`StatementsInv` is that the cache holds for each text what parsing it gives, whoever parsed it; so what `Send`
sends is composed of the template of its own call (`SendsItsStatement`), and
`EachStatementOfItsTemplate` says that no step sends anything else. For the rows, `RowsInv` follows a value on
its way: the last statement of a save that waits has the values of its item bound to it (`SentBound`), so has
every row, pending or committed (`RowBound`), and what a load has is made of the values of an item
(`LoadedOf`). `ComposedBinds` is the lemma about the reduction of `getSql`: of a template that
has the variables of the columns in their order, it makes their values in that order. It is an
induction over the segments, in the form of a segment that would be the first to fail (`Least`);
`Composition` shows before that the recursive function of the reduction exists. `ColumnGivesBack` goes
through the suffixes: what `beautify` makes of whatever the driver delivers for what
`getBindingValue` has bound is what the column gives back of the value (`GivenBack`), for any `JsonTexts`. `getSql` may push a null into an empty list of a caller's data
while others wait or load: `SameColumns` is what it leaves of a call, since a template with the columns has
no lists (`PushedNothing`). `AlwaysLoadedAsSaved == Spec => []LoadedAsSaved` follows, with
`ColumnsAssumption` as a premise: the template of a save with columns has their variables, once each and in their
order, and its items have values these columns can keep (a `.@json` column is not given a bare
boolean, no column what is serialised already). That the SQL around the variables is what its
template means is not part of it.

### FetchStepProofs: any plan of steps, any handlers, any trace ids

`IInv` is `TypeOK`, a part about each step on its own (`Local`) and one about the context they share
(`Traced`). `Local` has three: `Called`, which handlers a step may have called in its phase; `Received`,
what it knows of an answer or an abort, and that an abort is raised only behind its timer; `Passed`, that
an uncatchable error ended it. `Traced` has four: what ids a step has seen (`Known`), what the context keeps
for a scope (`Kept`), what was sent (`Sent`) and what a step behind another one in its scope sends
(`Follows`). Each action changes one step, so it has a lemma for `Local`; only making the headers and the
answer touch the context, so all others are `QuietKeepsTraced`. From it follow `UncatchableAlwaysPasses`,
`HandlersAlwaysToldTheTruth` and `ScopeIsAlwaysTraced`.

### ServerRequestProofs: any declarations, settings, uploads, authentications and results

One invariant, with a part for each of the three properties.

`OnlyTheAdmitted == Spec => []PerformedOnlyIfPermitted`. The strengthening (`Guarded`) says of a request on
its way what has been decided about it: behind the authentication its user is one that `Admitted` accepts.
`AuthorizeIsRight` is the lemma about the code: the roles it keeps and compares decide as the declaration
reads.

`OutcomeIsTold == Spec => []ToldTheOutcome`. `Told` says by the place of a request what the log, the
loggers and the answer have been told. All ways to fail end in one lemma, `FailureIsTold`: whatever is
caught is a value nobody has logged, one that was logged once and marked, or what stands in for a text or
null that could not be marked (`IsCaught`, `StandsIn`), and `CatchTells` makes its entry (`LogsOf`), the
status and the body of it. `RefusalIsCaught` and `HandledIsCaught` are
what leads there.

`PayloadAlwaysAsDeclared == Spec => []PayloadAsDeclared` has a premise, `WellDeclared`: the parts of a
declaration have names of their own, and checked files without a name, which the code calls "undefined",
are the only part. With two parts of one name the code keeps one of them. The run evaluates the premise for
its declarations (`Covered`). `Made` is the invariant; the rest is about the operators, over sequences of
any length: `AskedIsDeclared`, the parameters stand for the parts the declaration names; `CreatedAsDeclared`,
what createRequest makes of their arguments holds each part under its name; `TakenIffAcceptable`, interceptor
and validators let an upload pass if and only if it is of the form declared and within the limits
(`InterceptedInForm`, `LimitIsRead`, `ValidIffWithin`), and what they leave is the file, the array or the arrays
by name. That a request was refused for its files, and for nothing else, is told by its answer together with
what the pipelines have given: `Told` carries it.

### StepFlowProofs: any program, of any depth, with any handlers and user code

Two theorems with an invariant each. For `NearestAlwaysHandles` it is `Frames` and `Unwinds`: while an error
travels, the frames still on the stack are those of the moment it was raised, and each frame it has left
had no handler written for it or was past its try block. `ChosenOrLeft` is the lemma about `handleError`,
`CatchKeeps` the step of the argument. For `ContentAlwaysSurvives` it is `Survives`: what each frame may
hold by its kind and phase (`Sound`), and that the frame of the pipeline, the first one, keeps a content
(`OfPipeline`). A step puts one frame in the place of another, takes one off or adds one, each with a lemma
(`ContinueSurvives`, `ReturnSurvives`, `CallStepSurvives`).

### TransactionalStepsProofs: any tree whose sets have names, and whose writers take turns

`OwnConnectionAlways` needs to know whose runner a step finds under a name. The *home* of a step is the
async step around it whose context it is given, or none; `WellNamed` says of a tree that each step is
called from one place and that, within a home, a name stands for one transactional set, in which the steps
that write under the name are meant to run. It is the premise of the theorem; the same name may be used
in another home. `IInv` is `Control` (a step runs in the context of its home; it is called once, by a step
that has gone on), `Registered` (`$trans` of a context holds only runners of its home, each under its name,
and is never emptied again) and `Owned` (what is on each wire). That the clone of an async step has no
`$trans` is what makes `Registered` hold; that the context is never emptied is what `Connected` needs,
since it looks the runner up again after the wait.

`ReturnedCleanAlways`, `AllOrNothingAlways` and `CommittedTogetherAlways` have a second premise,
`OneByOne`: no step is below itself, and the writers of a transactional set are among steps that run one
at a time while it does, its kids, the kids of sets and transactional sets among them, and their handlers.
Async and parallel sets may be anywhere else, with autonomous writers and transactional sets of their own
in them. A parallel set around two writers is what the premise leaves out, and the theorems do not hold
for it: the set rolls back while a writer of it still works, which is `trans_late_sibling`. The
invariant, `Orderly`, has five parts on top of `IInv`:

- `InTurn`: of the kids of a set all in front of one that was called are done, one is active only while
  the set runs its body, and a handler only while its step handles. `Quiet` draws the conclusion: when a set
  has left its body, none of its writers is active. This is where the order of the tree is used, by
  taking the steps inside the set that are active and asking who called them.
- `Phases`: which kinds of steps wait for the database at all, and in which phase.
- `Sessions`: for each runner, what is on its wire (`Wired`: one statement of each step that waits for it,
  the one its phase says) and what the session is in. A set's runner is new before it begins, open with no
  transaction while it waits for BEGIN, has a transaction with every write that succeeded in it until the
  commit is answered (`InTransaction`), and none when it has ended (`OfSet`).
- `FoundConnected`: whatever is under a name in `$trans` is connected, so no step connects a runner twice.
- `Durable`: a writer's row is durable exactly when it and its set succeeded.

An action moves its step and at most calls others (`Moves`), in their turn (`KeepsTurn`): `TurnKeeps`,
`PhasesKeep`, `SessionsKeep` and `DurableStays` turn this into the parts above, and each action has a lemma
that says what it does to its runner. An answered ROLLBACK releases the runner: that it is clean then needs
that nothing but the rollback was on its wire, which is `Quiet` again.

Both premises hold of the trees of the run `transactions` but two (`Covered`, evaluated by it and by
`trans_late_sibling`): `Siblings` uses a name twice in a context, and no theorem is about it; the detached
parallel set has its names, so `OwnConnectionAlways` is about it, but no order of its writers.

### Model-checked only

- Liveness and everything about fairness, which the prover does not reach.
- `PrintCsv`, `PrintExcel` and the filling of a page in `PrintPdf` (through `TemplateMeaning`), the pagination,
  parsing and placeholders of `SqlTemplate` (`StatementsMeanTheirTemplates`), and that the
  redress is right (`RedressAssumption` of `Redress` and `RedressMeaning`): their properties compare an algorithm over trees and token
  sequences with its meaning, which is induction over data, and `TemplateMeaning`, the printers and
  `Redress` use RECURSIVE operators, with which the prover loses its arithmetic. They are checked for
  every template, note, call and definition of the instances above.
- What the premises about trees leave out: every property of `TransactionalSteps` on `Siblings`, and
  `AllOrNothing` and `ReturnedClean` on the detached parallel set.

## What is left out

- Formatting, the text of log lines and their diagnostic context, styles, heights and images of Excel:
  data, no property is about them. md5 is taken to tell contents apart.
- What libraries do inside: typeorm, cron, node-fetch, multer, Puppeteer, ExcelJS and the database are
  modelled by how the code uses them, and are marked external.
- The compilation of snippets: a snippet is what it may return or throw. `trans()` of the abstract
  typeorm step has no caller.
- Of what is modelled: given timestamps and clocks that go back (`Snowflake`); sets of one data source
  and transaction inside each other, spellings of keys, values of the environment, the scan of
  directories and the builder of each kind of step (`Redress`, `Definitions`).
- Data sources: the map of pools and the options of five drivers. Two first uses that meet make two
  pools, as told above; nothing else depends on their order.
- Print tasks and the other prebuilt pipelines: YAML over the steps modelled here, with the states of a
  task in a table. The cache of `Config`, which keeps its entries under the name alone.
- AWS steps, Word printing, server bootstrap, plugins, the sample application, the project generator and
  the release workflow (whose vendored code is most of the repository): a single call, or a sequence at
  start, without state of their own.

## The plan

Done: `CursorStream` with `OrderedDelivery`; `TransactionalSteps` on `QueryRunner`; `StepFlow`;
`Scheduler`; `FetchStep`; `ScriptDeployment`; `ServerRequest`; `Definitions`; `Snowflake`; `PagePool`; `SqlSteps`,
all of them with proofs; `SqlTemplate`; `Redress`; `PrintCsv`, `PrintExcel` and `PrintPdf`.

Left, in this order:

1. `DataSources`: find or create across an await, by several requests; one pool for a name.
2. `PrintTask`: the states of a print task, printed in the request or after its answer, with crashes.
3. The cache of `Config`.
