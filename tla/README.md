# Branch Fiction: a verification of its book import and its extension tasks

Branch Fiction turns a book into a world one can read, look up and play in. Its
largest piece of logic of its own is the *import*: a pipeline of 25 steps, most of
them calls to language models, that runs for hours in a worker process, stops twice
to ask the user, survives failures, restarts and changes of mind, and in the end
publishes what it extracted. These modules model that import: the runner inside the
worker, the retry loop around every step, the handlers of the steps and what they leave
in the database, the selection the user makes at the second stop, and the host that
starts, stops and cleans up after workers. A second part is modelled as well: the
*tasks* of extensions, which run in child processes and stream their events to a page.
TLC checks all of it on small instances; TLAPS proves the most important properties for
every instance.

## The system

### Parts and their state

| part | code | state it keeps | operations |
|---|---|---|---|
| Pipeline runner | `packages/pipeline-worker/src/pipeline/`, `main.ts` | step rows and fan-out item rows in the import's own database; the walk's locals `inFlight`, `dispatched`, `resolved`; a queue of ten slots | seed, pick a phase, walk its dependency graph, gate, finalize |
| Step retry loop | `.../workflow/handler.ts` | attempt number, last error, count of identical errors | run a handler, pause, run it again, give up and report |
| Step handlers | `.../workflow/**` | rows of the import's database; a checkpoint row; maps in memory while a model calls tools | one per step: read rows, ask a model, write rows, often in several statements |
| Worker host | `src-tauri/src/pipeline_worker.rs`, `keepawake.rs`, `lib.rs` | the map of kill senders (its keys are the running imports), the wake lock, one task per worker | start, recheck, cancel, serve a worker, clean up, quit |
| Import database files | `src-tauri/src/import_db.rs` | `book-imports/<id>.db`; the main database | prepare, delete, sync to main, rebuild from main, update the selection |
| Pipeline bridge | `src-tauri/src/pipeline_bridge.rs`, `.../lib/bridge.ts` | tokens; the import and book rows of the main database | loopback HTTP requests of the worker |
| Import windows | `src/new-book/*`, `src/book/page.tsx`, `src/lib/pipeline.ts` | the import row's status; `selectionDirtyRef` of one window; its cached copy of the entities | upload, resume, confirm projection, change, recheck and confirm the selection, reopen it, cancel |
| Step projection | `.../lib/step-projection.ts` | none | estimates of cost and time |
| LLM access, prompts | `.../lib/llm`, `.../lib/prompts` | none across calls | model calls |
| Literary algorithms | `.../lib/lit` | none | pure functions on text, names, graphs |
| Extension runtime | `src-tauri/src/extension_{runtime,ports,task_sse,slots}.rs` | processes, ports, task streams | start, stop, proxy, stream |
| Extension installation | `extension_{installer,fetcher,signature}.rs`, `src/extensions/install.ts` | directories, registry rows | fetch, verify, swap, remove |
| Extension data access | `extension_{db,data_proxy,auth,proxy,assets,dev,sdk}.rs` | tokens, per-extension databases | requests |
| SDK and host library | `packages/extension-sdk`, `packages/extension-host` | open tasks of a client | task calls |
| cyoa, avatar, world | `packages/bundled-extensions/*` | chat and interactive sessions, segments | turns, branches, predictions |
| Backups, archives | `app_backup.rs`, `cloud_*.rs`, `book_archive.rs`, `book_seeds.rs` | archive files, cloud state | export, upload, restore |
| Providers, sharing, shell | `provider_*.rs`, `http_server.rs`, `phone_share.rs`, `iroh_share.rs`, `window_commands.rs`, ... | configuration | forms and plumbing |

### How they interact

A window calls the host's `start_book_import`; the host makes the import's database
file, spawns a worker, and hands it the path. The worker's runner reads and writes
step rows in that file directly and the *import row* in the main database through the
bridge. When a phase is done it writes a gate status and answers; the host kills the
worker on the answer. The user goes on in a window, which writes the next status and
calls the host again. After the last phase the worker has the host copy the import's
tables to the main database, marks the import and the book complete, and the host's
task deletes the file. "Update selection" on a finished book rebuilds the file and
goes back to the second gate.

The page of an extension starts a task with one HTTP request to the host and reads the
task's events from the response. Behind the response a *pump* (a task of the host)
spawns a child process, passes it the work over its stdin, and turns the lines it
prints into events, which reach the response's stream over a channel of 64. Stream,
pump and child end independently: a guard that is dropped with the stream, a cancel
request of the page, and the end of the child each start the same cleaning up.

### What is hard about it

* Two databases and three parties write the statuses everybody decides from: the
  runner, a handler's `onFailure`, and the windows.
* `advance()` is called again by every step that returns, and awaits an HTTP read
  before it looks at the rows: calls overlap, and a late one sees newer rows.
* A worker can disappear between any two awaits; the next one must carry on from rows
  that say `running`, without repeating finished items and without skipping any.
* The map of kill senders is read and written by commands, by the tasks of workers and
  by the exit handler, each for an instant, with awaits in between.
* Whether arc steps are to be redone is *inferred* (status and rows), not recorded.
* Handlers write in several statements with model calls in between, no table has a key
  that would refuse a row written twice, and a repeated handler finds out by reading what
  was done before, or does not.
* A model works through tools, in any order and as often as it likes; what one tool call
  is allowed to do has to keep trees acyclic and identifiers unique as a whole.
* The selection is edited on a cached copy, by calls that overlap with reads and with a
  worker that rechecks a character in the same file.
* A task of an extension has four parties (page, stream, pump, child), any of which may
  be gone first, and a full channel keeps the pump from looking at anything else.

The rows of `PROJECT.json` under `hazards` name each such place at its line.

### What makes each part correct

* Runner: dependencies first; one dispatch per run; nothing runnable left behind; a
  failure ends up visible; finished items are kept; gates are asked, and asked only
  when their phase is done; "completed" means done *and* published.
* Retry loop: it retries exactly while there is hope, for a bounded time, and reports
  once, last, the right error.
* Host: one worker per import, always stoppable; commands answered; the machine awake
  only for work; nobody loses rows that are neither published nor cancelled.
* Handlers: a step that completed has done all of its work, whatever was interrupted
  before, and nothing twice; the exceptions are known and have a known cause.
* Entities: what a finished round read is never lost; identifiers are unique.
* Places: their tree has no cycles, so every walk over it ends; places one can pick do
  not share anything below them, so their arcs can be written side by side.
* Selection: what the window shows is what is saved; minors are never primary.
* Extension tasks: one stream per claimed key, and the key free again afterwards; events
  in order, with exactly one answer at their end; no child that outlives its page.

## The modules

| module | what it is |
|---|---|
| `StepBoard` | abstract: what the parent rows of a pipeline may do |
| `PipelineRunner` | `runner.ts`, `seed.ts`, `main.ts`, with the user, the queue, failures, crashes |
| `PipelineDefinition` | the shipped graph of 25 steps (`definition.ts`), and that it is a pipeline as assumed |
| `HandlerJob` | abstract: what the runner expects of one handler call |
| `StepRetry` | `handler.ts`, the retry loop |
| `WorkerHost` | `pipeline_worker.rs`, `import_db.rs`, `keepawake.rs`, the exit handler |
| `PlaceHierarchy` | `extract-hierarchy.ts`, `lib/lit/hierarchy.ts`: the tree of places |
| `EntitySelection` | `determine-minors.ts`, `calculate-significance.ts`, `entity-selection.tsx`, the selection in `import_db.rs`; extends `PlaceHierarchy` |
| `ArcSteps` | the eight steps of the arc phase (`post-process-book/*arc*.ts`, appearances, tags, `isolate-arcs.ts`); extends `PipelineDefinition` |
| `EntityExtraction` | `extract-entities.ts`, `categorize-entities.ts`, `remove-ambiguous-entity-names.ts` |
| `BookRows` | `import-book.ts`, `extract-scenes.ts` and the other handlers of the first phases that insert rows; extends `PipelineDefinition` |
| `ExtensionTasks` | `extension_task_sse.rs`, the tasks of `extension_runtime.rs`, `spawnWorker` of the SDK, the worker side of `extension-host` |
| `PipelineRunnerProofs`, `StepRetryProofs`, `WorkerHostProofs`, `ExtensionTasksProofs`, `EntitySelectionProofs`, `ArcStepsProofs`, `EntityExtractionProofs`, `BookRowsProofs` | theorems |
| `MC*` | values of the constants for TLC, one module for each model |

`PipelineRunner` implements `StepBoard` (property `BoardSpec`, theorem
`ImplementsBoard`); `StepRetry` implements `HandlerJob` (`JobSpec`, `ImplementsJob`).
The job states of `HandlerJob` (running, reporting, ok, bad) are the ones
`PipelineRunner` gives its jobs, so that the retry loop is what lies behind `JobSucceeds`,
`JobFails` and `ReportFailure` there. `WorkerHost` shortens what a worker does to
"seeds, pauses, or syncs and completes", which is what `PipelineRunner` says of a run.
The modules of the handlers take from `PipelineDefinition` which step
waits for which; a job of theirs (a step and an item) is what lies behind a job of the
runner, with the same retries and the same loss of everything in memory. Two of them are
tied by what one gives the other: `ArcSteps` assumes that selectable places share no
place below them, which `EntitySelection` shows (`PickableDisjoint`).
A definition whose comment begins with "Variant" is a plausible mistake in the
definition that follows it; nothing uses it, it serves to show that a property can fail.

### PipelineRunner

State: `imp`, `bookDone`, `autoConfirm`, `synced` are the main database; `parent`,
`child`, `selected` the import's; `dirty` and `confirmed` the window; `runPc` and
`phase` where `runImport` is; `inFlight`, `dispatched`, `resolved` the locals of
`runDag`, and `adv` counts the calls of `advance()` that are before their HTTP read
(`read`) or past it (`go`, `halt`); `stepPc`, `job`, `queue` the running steps.

Where the code can be interrupted decides what is one action. The worker's SQLite
driver runs in the process and answers synchronously; only bridge requests and
handlers let other activities in for long. So the read of the step rows and the
dispatch that follows are one action (`AdvanceDispatch`), the HTTP read before it is
another (`AdvanceReadImport`), and the update of the step row and of the import row
after a failure are two (`SettleStep`, `ReportStep`). Several calls of `advance()` in
the same place are interchangeable, so they are counted, not named.

`Start` covers the resume of a failed, stalled or freshly confirmed import, with
`retryFailed` false only for an import that has no rows yet. The user may change the
selection while the gate is open, close the window, confirm, or keep it. With
`ReselectAnytime` FALSE a reselection only begins when the import is complete and its
worker gone; with TRUE it may begin at any moment the book page is there, which is
what the code allows.

Bounds: `MaxFailures` (handlers that fail for good), `MaxFaults` (bridge calls that
reject), `MaxCrashes`, `MaxReselects`: how often each may happen in a behaviour, all
through `Spend`. They bound the environment, never the program.

### StepRetry

An error is an element of `Errors`; its class (name) gives the limit, and whether its
message looks transient is a set. Everything of an attempt that can throw is
`AttemptThrows`. The narrative line in the `catch` block can fail as well, and then
leaves the loop without `onFailure`: `NoteRetry`. `history` and `waited` record
what happened; `Hopeless` is the reference decision on the whole history.
The side effects an attempt queues (usage, traces) are only logged when they fail and
are left out.

### WorkerHost

A call (`start_book_import`, `recheck_book_entity_minor`) goes through `callPc`, the
task it spawns through `taskPc`, its process through `proc`. `children[i]` is whose
kill sender the key of import `i` holds; a sender that is sent on (`Sent`) *or dropped*
because it is replaced or removed (`Dropped`) resolves the `kill_rx` of its worker, and
the set `told` has those workers. Acquisitions of the map's lock are separate actions
(the check and the insert in `spawn_worker`, with the spawning of the process between
them; the removal and the `is_empty` in `finalize_worker`). A preparation of the file
may fail before or after the file is there. `db[i]` is the file of an
import: none, bare (schema only) or with rows; `attached` the workers that have that
very file open, since deleting a file does not stop a process that has it open.
`Overlapping` says whether calls of one import may overlap.

### PlaceHierarchy and EntitySelection

`tier` and `under` are the map a model fills in one session through the tool
`classify_location`; `level` and `parent` are the rows saved from it. `Classify` is one
call of the tool with its checks (`Accepts`): a model may classify any place again, with
another tier or another parent. `SaveRows` writes levels, turns realms into hubs where a
book has none, and gives places of unknown tier no parent. A session may be lost and
begun again, `MaxSessions` times.

`EntitySelection` continues with the columns `sig` (`significanceTier`) and `minor`.
`stage` is which step runs: the age check, the calculation (`ClearTiers`,
`RankEntities`, then `SaveTier` for one entity after the other, as the code does, with a
crash in between), the gate with its window, the arc phase. The window is `view` (the
copy that is shown), `fetch` (a read that is asked for or has been answered), `held`
(what a drag started from) and `writes` (calls on their way, committed in any order).
`EndDrag` computes what changed against the zones as they were when the drag *began* and
against the copy as it is *now*, as `entity-selection.tsx` does, and puts the list of the
drag in place of the one that is shown (`listed`); a drop may cross the divider or stay
in its zone, and `moved` are members whose rank alone changed. A call may fail
(`WriteFails`): nothing is written then, and the rows are read again. A read always
succeeds in the end. Rankings and answers about age are any.

### ArcSteps

A job is a step and an item (a character, an anchor place, or the book). `arcs` holds of
each arc type the groups that have arcs, `isolated` those with `_ISOLATED` arcs. A
handler reads what is left to do (`Todo`, one definition for each handler), asks,
inserts the arcs of what the model answered in one transaction (`InsertArcs` and the
variants of the single handlers) and then isolates group by group (`Isolate`).
`character_arc` and `place_arc` call two handlers one after the other. The related step
asks about its sources by batches, writes and isolates the arcs of one batch, and logs
the error of a batch and goes on (`InsertRelated`, `AfterBatch`, `SwallowError`).
`doubled` and `lost` are history: groups written twice, and groups whose handler ended
between writing and isolating.

Who has work is taken from the filters of the handlers. A *source* of related arcs is
anything with attributes that is not selected and no place, so a character that is not
selected as well (`Sources`), unless it has such arcs from any side. Appellations are
between characters with a tier, PRIMARY or SECONDARY (`ranked`), of which the selected
are some. A character's arcs need attributes (`Described`), its appearance physical or
magical ones (`Visible`), a place's appearance any. `Linked` is what the text of the book
relates, any groups of entities. Scoring, clusters and the threshold that a source must
pass among all of them only choose among it, and the choice is any: what the model has
to do is the most the code may have to do.

### EntityExtraction

An entity is its names and its identifier, a row that is not categorized yet has the
identifier `Pending`. `session` and `next` are the map a model edits through tools,
`complete` the chapters that count as read, `checkpoint` the row a round leaves. Chapters are
counted as the model's tool calls name them, so some may be counted that the book does
not have (`Strays`); a run goes on reading until the count is reached (`at` is then
`read`), a later run of the step until every chapter of the book is there.
The tool calls are `AddEntity`, `UpdateEntity`, `MergeEntities`, `Categorize`,
`MergeCategorized`, with the refusals of the code; a round ends with `EndRound`, the
step with `CommitEntities` (one transaction) and `DeleteCheckpoint` (another).
`FindRow` is how the code recognizes a row again: by friendly id, else by its names.
A first attempt takes up the rows of an earlier book in any order
(`StartingEntities`): the query sorts by name, the rows are numbered as inserted.
`learned`, `heard` and `excused` are history: names recorded in rounds that ended, names
recorded since, and names that the two places named in the comment lose.

### BookRows

A row is a book, a kind and a key; `doubled` are rows written a second time, `broken`
rows of handlers that ended before they returned. `Stages` gives the writes of each
handler in their order; the handlers go through them with `Write`, may fail or be lost
between any two, and are run again. `imported_book` makes a new book every time and
hands it over last; `tails` are its two calls about traits, of which one may go on when
the other has failed. The scene steps share `scan`: scenes found in the rows, known
scenes, chapters done, rounds without progress. The steps that only update rows or read
them have no stages.

### ExtensionTasks

A member of `Tasks` is one start of a task, and `KeyOf` gives its `singletonKey`. `page`
is the promise `spawnWorker` returned, `stream` the request's handler and then the
response, `pump` the task `run_extension_task_internal`, `child` the process and `out`
its stdout. Claiming a key, registering the id and spawning the pump happen without an
await and are one action (`StartAccepted`). The pump waits in two places: in its biased
`select!`, where a cancel comes before any line, and in `event_tx.send`, where it sees
nothing but room in the channel or the receiver's end (`pending` says what it does
next). `cancelled` are the tasks whose cancel sender was sent on or dropped, which is
the same to the pump. `DropStream` is what the guard's `drop` does in either of its
branches; the page's own `cancel()` is `PageAborts` and `CancelArrives`.
Of an event only its kind matters and a number: logs are numbered by the child, and an
answer carries the number of logs before it, so that `EventsInOrder` can tell a lost or
late event. The child may die at any moment and may go on logging after its answer.
`KeyOf` is per extension and book in the code (`ClaimKey`); keys of other pairs are other
keys here.

## Runs

The runs finish in a few seconds to three minutes with two workers.

| run | instance | distinct states | what it shows |
|---|---|---|---|
| `pipeline_recovery` | six steps (below), 2 keys, 1 failure, 1 fault, 1 crash, 1 reselection | 351,596 | `PhaseCompletes`, `CompletedMeansDone`, `CompletedIsPublished` |
| `pipeline_reselect` | 1 failure, 1 crash, 2 reselections at any moment | 553,894 | `HandlersAfterDependencies`, `GatesAfterPhases`, `BoardSpec`, `CompletedItemsKept` |
| `pipeline_failures` | 3 failures, fairness | 90,756 | `RetryRunIsQuiet`, `NoStepLeftBehind`, `FailureIsVisible`, `GatesAreAsked`, `RunEnds` |
| `step_retry` | 5 errors, each class, up to 11 attempts | 186,427 | `RetriesWhileHopeful`, `JobSpec` |
| `host_overlap` | two starts of one import that overlap, 1 stop, fairness | 164,271 | `NoOrphanWorker`, `AwakeForWork`, `StartsAnswered`, `ToldWorkersDie` |
| `host_serial` | 3 calls and 2 rebuilds, one at a time, 2 stops | 358,867 | `CompletedIsSynced`, `RowsKept` |
| `host_quit` | 1 exit | | violates `ResumableAfterQuit` |
| `place_selection` | 3 places, 2 characters, tiers unknown, hub and locale, 2 drags or rechecks, 1 crash, 1 lost session | 1,683,948 | `WalksEnd`, `PickableDisjoint`, `MinorsNeverPrimary`, `ShownIsSaved` |
| `arc_steps` | 3 characters, 1 other, 2 anchors over 3 places, 2 handlers at a time, 1 failure, 1 crash, 1 reselection | 884,016 | `NoArcTwice`, `ChosenAreCovered`, `GapsHaveACause` |
| `entity_extraction` | 2 names, 2 identifiers, 2 chapters and a number of none, 3 tool calls a session, 1 restart; a first and a continued book; fairness | 596,268 | `NothingReadIsLost`, `RedoInsertsNothing`, `IdentifiersUnique`, `NamesStayPut`, `ExtractionEnds` |
| `import_rows` | 2 chapters, the first of 2 scenes, 2 handlers at a time, 1 failure, 1 crash; with and without an earlier book | 687,649 | `DoubledHasACause`, `HandedOverWhole`, `GroupsCover` |
| `extension_tasks` | 2 tasks with one key, a channel of 1, 2 logs of one and none of the other, fairness | 169,641 | `ClaimsFollowStreams`, `EventsInOrder`, `NeverCutOff`, `NoLeakedChild`, `DeathIsReported` |

**Bounds.** The small graph of `MCPipelineRunner` has six steps with the shapes of the
real one: a step both first phases list, a preview that may be skipped, two branches
that fail independently, a fan-out over all groups and one over the selection. Two keys
let one item of a fan-out finish while the other fails; two slots let two handlers run
at once and keep a third waiting. One failure, fault and crash each reach every
combination of *which* step fails and *when* the worker is lost; three failures allow
two in one run and one in the retry. Every bound is reached: each variant of
`PROJECT.json` makes its property fail within them. Keys are interchangeable, so
the runs without liveness use their symmetry. The shipped graph is too wide for TLC to
walk with failures; `PipelineDefinition` states, as an assumption that TLC evaluates in
every run of the modules that extend it, that it is a pipeline of the kind the model and
the proofs are about: each phase has a step of its own, the preview is one job, and the
steps can be done one after the other (`StepsIn`), so none wait for each other in a
circle. `host_overlap` has two starts of one import. Both can pass the check for a
running worker before either enters its key; the second to enter drops the sender of the
first, and each task removes the key of its import at its end, also when it is the
other's: two initialised workers of one import, a replaced sender and a key removed by
another's task are all reached. The theorems of `WorkerHostProofs` cover any number of
calls. In `host_serial`, which has the recheck, a third start and a second rebuild let
an import be completed, reopened and completed again.
In `extension_tasks` a channel of one event is full after the first, so that the pump is
caught in its send by every other event; two logs and an answer are as many as it takes
to lose, double or swap one; two tasks with one key meet at every point of each other's
life. The theorems of `ExtensionTasksProofs` cover any capacity and number.
In `place_selection` three places are a hub, a locale in it and a place beside them, in
every order of classification, and as many as a cycle through a place classified again
needs; two characters make a list with an order. `RecheckStale` is FALSE: see below.
In `arc_steps` two characters that share a link, one selected and the other a source of
related arcs, change places with the second selection, which also has an anchor more;
one of them is described without anything to see; one anchor has a place below it; there
are two workloads, because characters and places have no arcs in common. In `entity_extraction` two names
are as many as it takes to overlap, to be moved and to be split; two chapters with one
per round give two rounds with a checkpoint between them, or one when a number out of
range is counted; three calls let a session add, update and merge. Rounds without
progress do not occur, because the preloaded chapters count: that is `ExtractionEnds`. In `import_rows` a chapter of two scenes can be half
known when the preview ends, and the second group has nobody in it.

**Deadlock.** Checked for the runner and the retry loop, whose `Rest` steps name the
only states they may stop in. In the host's runs a call is made once and the host is at
rest when all have been made; the same is true of the tasks of extensions, each of which
is started once, and whose page may hang on a child that neither answers nor dies. The
handlers' modules come to an end of their own: the phase is done, or a step has failed
for good and the bounds on failures are used up. So there deadlock is not checked; that
extraction ends is a liveness property.

**Fairness.** `PipelineRunner`: weak fairness of the worker as a whole: an event
loop turns as long as the process lives, loopback requests are answered and handlers
return (the retry loop gives each a bounded number of attempts). Nothing is owed by the
user or by crashes. `EntityExtraction`: weak fairness of `Proceed`, what the handler does
by itself. A session of tool calls is a bounded number of prompts, and each ends: the
agent is aborted when it reads too much and a request that hangs times out. The model
owes no tool call. The other modules state no fairness. `WorkerHost`: for
each call, fairness of its command once begun, of its worker and of its task, as the
runtime polls each task by itself; a call need not be made, a process need not die.
`ExtensionTasks`: for each task, fairness of its request's handler, of its pump, and of
its stream with the page that reads it (`for await` of the SDK). Nothing is owed by the
child: it may never print or die, and the page need not abort.

## What the runs found

**`host_quit`** `pipeline_worker.rs:430`. "Quitting now will cancel it. You can resume
it later." (`lib.rs:222`) Quitting uses the kill channel, and a worker that is told
through it has its database deleted; if its task gets there before the process ends,
there is nothing to resume from. This is the one run that expects a violation.

The models contain the code as it is, so other deviations are behaviours of theirs; the
properties are stated so that they allow these and nothing more:

* *Arc phase reset without a reselection* (`runner.ts:83`). "On reopen for re-selection"
  is decided by "status is `arc` and all arc steps are complete", which also holds when a
  worker is lost, or the sync is rejected, just before a first import is marked complete.
* *A reselection forgotten by a new window* (`import.tsx:410`). "Reopened a finished book
  to re-select but nothing changed" is a flag of one window: after a reselection whose
  arc run has not finished, a fresh window marks the import complete. `CompletedMeansDone`
  is checked for reselections that are seen through (`ReselectAnytime` FALSE). The same
  reopening puts the import's row to `awaiting_selection` under the run that is still at
  work, which then stops short (`NoStepLeftBehind`, `PhaseCompletes`) or has its failure
  overwritten (`FailureIsVisible`), and the import can be marked complete without the
  arcs of the new selection (`CompletedIsPublished`). With `ReselectAnytime` TRUE TLC
  finds each of these five violated.
* *A question skipped after a lost worker.* A worker that is lost, or whose bridge call
  is rejected, just before it would ask leaves a finished phase, and the next run walks on
  to the following phase without the question. `GatesAreAsked` is checked and proved
  without crashes and faults.
* *Two workers for one import* (`pipeline_worker.rs:80`). The check and the entry of the
  key are separated by awaits; the second start drops the first one's sender, whose task
  deletes the file both have open. `NoOrphanWorker` holds all the same.
* *A key freed before its child is dead* (`extension_task_sse.rs:186`, against "at most
  one task with this key [...] runs at a time", line 33). `ClaimsFollowStreams` says what
  the code does promise: keys follow streams.
* *A bare database file after a stop* (`import_db.rs:73`). "Don't leave a half-built db
  behind" (line 88) holds for a copy that fails, not for one that is cut off.
* *Isolated arcs never made* (`extract-place-arc.ts:301` and its like). Arcs are committed
  before they are isolated, and the retry takes them for done. Readers of `_ISOLATED`
  arcs (the story and world extensions) then lack them for good. `GapsHaveACause`.
* *Rows doubled by a retry* (`handlers.ts:48`). The handlers over scene groups and
  `extract_styles` insert without looking; a failure in a later part repeats the earlier.
  `DoubledHasACause` says that nothing else is doubled, and nothing without such a cause.
* *A second book* (`import-book.ts:191`). Every attempt of `import_book` makes one, also
  one that failed after handing its book over.
* *An insert of no scenes* (`extract-scenes.ts:454`). When all scenes are in the rows but
  the step was not marked, the insert has no values, is not SQL and fails, in every
  retry; `refused` records it.
* *Chapters left unread* (`extract-entities.ts:868`). Chapter numbers are counted as the
  model's tool calls name them; one that the book does not have can end the reading with
  a chapter unread. `EntityExtraction` has this behaviour, and no property excludes it.
* *Names lost to a shared row* (`extract-entities.ts:143`). Two entities with equal names
  find the same row, and the last one wins; and `merge` in categorization accepts an
  entity with itself and deletes it. `NothingReadIsLost` excuses these names.
* *A minor in the primary zone* (`entity-selection.tsx:389`). If the user presses
  Recheck a second time while the list still shows the character as a minor, and drags it
  once it can be dragged, the second answer leaves a minor primary. With `RecheckStale` TRUE `place_selection` finds
  it; `MinorsStaySecondary` proves that this is the only way.
* *Continue does not wait* (`import.tsx:408`) for the calls that write the last drags; the
  arc phase may read the selection before them.
* *Relationship arcs left out* (`extract-relationship-arc.ts`). A later selection makes
  only arcs with a character that has none yet, so two characters that each have some get
  none of their own; `ChosenAreCovered` therefore speaks of characters, not of pairs.
* Read, not modelled: after an item of a fan-out is completed its progress is written in
  the same `try` (`runner.ts:384`); if that write to the import's own database failed,
  the finished item would be marked failed and repeated. In `PipelineRunner` calls of the
  bridge may be rejected, writes to the import's own database succeed.
* Read, not modelled: `finalize-scenes.ts:250` leaves the loop over batches after fifteen
  without carrying the rest forward, so a book of more than fifteen hundred scenes fails
  at the lookup that follows.

## Proofs

All eight proof modules hold for arbitrary constants under the named assumptions of the
modules they extend; TLC evaluates those assumptions in every run, and the same ones
for the shipped graph.

* `StepsAssumption`, `DependsAssumption`, `SizesAssumption`: the phases cover the steps,
  projection steps wait for projection steps only, nothing outside the arc phase waits
  for it, the keys are finitely many.
* `PhasesAssumption`: the extract and arc phases have steps of their own, the preview is
  one job, selections are made for arc steps, no steps wait for each other in a circle.
* `ErrorsAssumption`: no error has two names, and "no error" is none.
* `CallsAssumption`: a recheck is a call, a rebuild is not; each is about one import.
* `TasksAssumption`: a task has one key or none, and the channel takes at least one event.
* `PlacesAssumption`, `TiersAssumption`, `CharactersAssumption`, `CopiesAssumption`: the
  places are finitely many, characters are no places, "no copy" is no copy.
* `ArcAssumption`: characters, places and others are different entities; anchors share no
  place; related and relationship links are between entities, appellations between
  characters; who has something to see has attributes. Which links a handler takes up is
  a definition of the module, not an assumption.
* `ExtractionAssumption`: an earlier book's identifiers are unique, as this module shows
  of every book it makes; the numbers out of range that are counted are finitely many.
* `RowsAssumption`: there is a chapter, every chapter has scenes, no scene lies in two.

**PipelineRunner.** `HandlersAfterDependencies` is not inductive: that a handler runs
after its dependencies depends on its step having been dispatched when they were done
and on nobody resetting them since. `IInv` adds where everything stands:
`IdleBetweenRuns` (nothing is left of a run before the next picks its phase, which makes
`Seed` and `ResetArc` harmless), `StepsOwnRows` and `JobsOwnRows` (from dispatch to
settlement, a step's rows are its own, with its dependencies done) and `PhasesInOrder`
(what is complete at each point of a run). The key lemmas are `RowsChange` (five
actions write parent rows), `DoneKept` (of these only `ResetArc` undoes a finished
step) and `CompleteKept`. From `Inductive` follow `HandlersWait`, `GatesHold`,
`ItemsKept`, `ImplementsBoard`, and `CompletedHolds`, the last for reselections that
are seen through (`~ReselectAnytime`), see above.

What a run has done by the time it answers needs more than who owns which row. `WInv`
describes the walk itself: `RowsSeeded` and `PhaseReached` (what the phase a run has
picked presupposes), `JobsHaveSteps` (jobs belong to steps that wait for them), `Walk`
(what `inFlight`, `dispatched` and `resolved` mean at each point of the run, and when
calls of `advance` may outlive the walk), `Halting` (a first walk sees the import failed
only when one of its own steps did) and `Returned` (a step that is back is done or
failed). `RetryIsQuiet` follows without any hypothesis. `AInv` adds, while a reselection
is seen through, that the import stays the run's own (`OpenRuns`), that a walk that
stops has gone through all that was ready (`Walked`), and where failures are seen
(`NothingFailed`, `Visible`). `NothingLeft` is then immediate; `PhasesComplete` needs
that steps do not wait in a circle: among the unfinished steps of the phase one waits
for none of the others, and the walk would not have passed it by. `FailuresShow` follows
from `Visible`. Two further invariants carry what crosses several runs. `Gates`, on top
of `Await` (while the import's row waits for the user, no run is in the middle of a
walk), says which question is still to be asked and by whom; hence `GatesAsked`, with as
many failures, retries and reselections as one likes but no lost worker. `Cover` says
that a finished fan-out step has run for every item there is now, unless the selection
has changed under it; `Published` and `FinishedIsPublished` follow, crashes and rejected
syncs included.

**StepRetry.** The loop decides from two counters. `CountsTheRun` says what they stand
for (the length of the run of equal errors at the end of the history), the lemma
`CountersSuffice` that they decide as the reference on the whole history; `Hopeful`,
`Reports` and `Patient` follow, and `ImplementsJob` is the refinement. `TypeCorrect`
includes that there are at most eleven attempts, `Patient` that a call never pauses for
more than 490 seconds in all.

**WorkerHost.** `NoOrphans` rests on one fact about every write to the map
(`SendersKept`: the worker whose sender is replaced or removed has been told) and one
about processes (`Spawned`: one that lives was entered in the map, or is about to be). `SleepsWhenIdle` needs `KeysAreTended`: a key in the map is
that of a worker whose task has yet to remove it, so a task that is not the last knows
of one that comes after it. `SyncedWhenCompleted` and `OpenRowsKept` are about one call
at a time on an import (`~Overlapping`, what one window issues and `host_serial` runs):
`TurnInv` says that of an import only one call or rebuild is then busy (`OneAtATime`),
what a worker at each stage finds in the rows (`WorkersInTurn`), what the status says of
them (`StatusFits`), and that nothing is stopped without a cancel or a quit
(`StopsHaveCause`).

**ExtensionTasks.** Nothing in the properties says where an event is on its way, so
`IInv` follows it: `OutAt` (what the child has printed and nobody read, counted from the
events before it), `FlowAt` (the events sent, those in the channel, the one the pump
holds and the child's output are one sequence in which each event is in its place), and
`AnswerComing` (a pump that is over has left a terminal event where the page will find
it). These speak of sequences, not of tasks; the lemmas `OutRead` to `EndTail` say what
one queue operation does to them, and `OwnRequest`, `OwnPump`, `OwnChild`, `OwnStream`
apply them to the actions. A step of one task leaves the others alone (`OthersSame`),
except for the claims, which have an argument of their own (`ClaimsNext`, with
`ClaimsAreOwn`). From the invariant follow `TypeCorrect`, `ClaimsCorrect`,
`AlwaysAnswered` and `InOrder`.

**EntitySelection.** That no walk loops is not a fact about one call of the tool but about
all that can follow it. `HierarchyInv` says what the tool keeps: a classified place is
under a classified one whose tier is above its own, unless one of the two is unknown
(`ClassifiedInv`); unknown places are saved without a row, so levels fall strictly along
saved parents (`SavedInv`). `LevelsEndWalks` and `LevelsDoNotOverlap` draw the two
conclusions: a set closed under parents would have no member of least level, and two
places of one level have disjoint territories, as who is below both leads up two ways.
`Levelled` carries the second through the calculation and the window: every place that
has a tier, will get one, or is shown, held or being written with one, is an anchor of
one level. `Minors` and `Fresh` do the same for characters under age and for the copy
that is shown. From them `SelectionTypeCorrect`, `WalksAlwaysEnd`,
`PickableAlwaysDisjoint`, `MinorsStaySecondary`, `ShownAlwaysSaved`.

**ArcSteps.** `NoArcTwice` needs to know what running handlers are about to write.
`TodoHasNoArcs` says that what a handler has yet to ask about has no arcs, `TodoIsOwn`
that handlers which share a type work on disjoint sets (`OwnDisjoint`, which is where the
disjointness of places comes in). `TodoIsNew` establishes both for what a handler reads:
the step for related entities writes only what contains an entity without such arcs, so a
group it has written is not written again when, after another selection, its source and
its selected character have changed places. For that type disjointness is that the
import has one job of the step. A step either writes nothing (`QuietStep`) or a part of what
one handler has to do (`WritingStep`); the lemmas for single actions reduce to these two. Hence `ArcsOnce`.
`GapsAreAccounted` rests on `Accounted`: an arc is isolated, held by a handler that runs,
or was lost with one; `OnlyWork`, that a step without work has no handler running, is
needed because a new selection waits only for the steps that have work. `ChosenAlwaysCovered`
rests on `CoverInv`: how far a character is, by the part its job is in and where in it the
job stands: `Narrated` (who is described has `CHARACTER` arcs) and `Shown` (who has
something visible has `APPEARANCE` arcs). Other handlers do not disturb this, as arcs only grow
(`ArcsGrow`), and a retry leaves a job in its part or puts it back to the first.
`ArcTypeCorrect` needs that what a handler has to ask is of its type, and that what it
has to isolate has arcs (`FitInv`).

**EntityExtraction.** `CatUnique` and `RowsUnique` say that no identifier is given twice
in memory and in the rows; `RowsNamed` that after categorization all have one;
`FriendlyIdsUnique` follows. With it the row that the last step finds by friendly id is
the row it read (`OneRow`), and `NamesAlwaysStayPut` follows for every step of it.
`NamesInv` adds what the session and the checkpoint have to do with the rows while the
book is read (`Reading`: what was learned of an earlier book's row is among the names in
memory), that the checkpoint has the session once the book is read (`Ready`), and
that what was learned is in memory if it is in no row (`Remembered`). The insert is one
transaction over all entities, so the proof follows what it does to one row when several
entities find it; this is where the names two entities share are excused. `NothingLost`
and `RedoFindsRows` follow. `ExtractionTypeCorrect` is the shape of the state in three
parts (`Places`, `Counts`, `Contents`); while the book is read the third follows from
`NamesInv`.

**BookRows.** The properties speak of rows when everything is over, the invariant of who
is about to write them. `RowsInv` consists of `Shape` (the handlers' stages), `InOrder`
and `Begins` (what waits for the book begins after it, the full scene step after the
preview), `Making` (how far the book of the first handler is, by its stage: this is
`HandedOverWhole` before it is handed over, calls left behind included), `Fresh` (what
this handler has yet to write is not there), `Scanned` (the scene step's picture of the
rows is the rows, and groups are made only when all scenes are there) and `Accounted`
(each inserted row is that of a completed handler, of one at work, or broken). Most of
the proof is bookkeeping. The lemmas named `...Go` say once what each statement writes
and where it leaves its handler, `ItGrows` that rows are only added, `InsertsDiffer`
that two handlers never write the same row. From the invariant follow
`DoubledOnlyBroken`, `HandedOverIsWhole`, `GroupsAlwaysCover`; `RowsTypeCorrect` needs
an invariant of its own for the rounds without progress (`Stalls`).

**Only model-checked.** Liveness (`RunEnds`, `StartsAnswered`, `ToldWorkersDie`,
`NoLeakedChild`, `DeathIsReported`, `ExtractionEnds`) is outside what the prover does.
Every safety property that a passing run checks is a theorem. Some theorems have a
hypothesis that is also the configuration of the run, and without which TLC finds the
property violated, see the deviations above: `CompletedMeansDone`, `CompletedIsPublished`,
`NoStepLeftBehind`, `PhaseCompletes` and `FailureIsVisible` assume that reselections are
seen through (`~ReselectAnytime`), `GatesAreAsked` that no worker was lost and no bridge
call rejected so far, `CompletedIsSynced` and `RowsKept` one call at a time
(`~Overlapping`), `MinorsNeverPrimary` no recheck on an outdated list (`~RecheckStale`).
The other way round, type correctness of `PipelineRunner`, `StepRetry`, `WorkerHost`,
`ExtensionTasks`, `EntitySelection`, `EntityExtraction`, `ArcSteps` and `BookRows`, and
what `Patient` and `Reports` say, are proved and therefore in no run.
Nothing is proved of recursive definitions; there are none.

## What is not modelled

The models cover about a tenth of the implementation's lines: what decides about a
user's data, in the import and in the tasks of extensions. Most of the rest has no state
machine to check:

* Prompts, tool descriptions, tracing and the access to model providers. What a model
  answers is any answer that the checks of the code let pass.
* `finalize_scenes`, `summarize_appellations` and `estimate_significance`: they update
  columns of rows that exist and are harmless when repeated.
* Pure functions of `lib/lit` on text, scores and relationship graphs: their results are
  any result. The tree of places and the isolation of arcs are modelled.
* The narrative, progress numbers, usage, cost projections: display.
* The bridge's tokens and HTTP layer: its calls appear as steps that may be rejected.
* The queue of side effects of one attempt, whose failures are logged and dropped.
* The columns that the two syncs copy between the databases; each is one transaction.
* Of extension tasks: a page that stops reading without going away (the channel fills
  and holds the pump, and with it a cancelled child); the server's own stop; requests
  for files and rows; the development server.
* The story extension (`cyoa`): its chat, interactive sessions and generators are an
  application of their own behind the task interface. Avatar and world extensions are
  forms around image generation on the same interface.
* Pools of ports and slots, installation and data access of extensions, backups and
  archives, providers, sharing: separate components with little state, named in
  `PROJECT.json`.
* Windows, menus, settings, forms, consent and upload dialogs: user interface.

## Plan

The order is by importance to a user's data. Done: 1 to 8, 9 but for the ports.

1. `StepBoard`, `PipelineRunner`, `PipelineDefinition`, and their proofs.
2. `HandlerJob`, `StepRetry`, and their proofs.
3. `WorkerHost` with the import's database file.
4. `WorkerHostProofs`: type, `NoOrphanWorker`, `AwakeForWork`.
5. `PipelineRunner`: what a run has done when it answers (`RetryIsQuiet`, `NothingLeft`,
   `PhasesComplete`, `FailuresShow`), `GatesAsked`, `FinishedIsPublished`.
6. `WorkerHost` for calls one at a time: `SyncedWhenCompleted`, `OpenRowsKept`.
7. The handlers over their rows: `EntityExtraction`, `BookRows`, `ArcSteps`, with their
   proofs.
8. `PlaceHierarchy` and `EntitySelection`, with their proofs.
9. `ExtensionTasks` and `ExtensionTasksProofs`: claims, pump, channel and stream.
   Left: `ExtensionPorts`, the pool of ports and the least recently used port that is
   given to another extension.
10. `ExtensionInstall`: fetch, verify and swap with stops in between.
11. `CloudBackup`: upload, manifest and restore with stops and retries.
12. `Interactive`: the state machines of the story extension and its segment orchestrator.
13. Pure algorithms of `lib/lit` against reference definitions on bounded inputs.
