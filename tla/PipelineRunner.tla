--------------------------- MODULE PipelineRunner ---------------------------
(***************************************************************************)
(* One book import as the pipeline worker runs it                          *)
(* (packages/pipeline-worker/src/pipeline/runner.ts, seed.ts, main.ts).    *)
(*                                                                         *)
(* The worker picks the first phase that has unfinished steps, walks that  *)
(* phase's dependency graph with up to Concurrency handlers at a time, and *)
(* stops at a gate (the user confirms the projection, the user selects the *)
(* entities) or when the import is complete.  Every await of the code that *)
(* another activity can slip into is a boundary between two actions here.  *)
(* The import row lives in the main database, behind an HTTP bridge; the   *)
(* step rows live in the import's own database, which survives the worker. *)
(***************************************************************************)
EXTENDS Naturals, FiniteSets, Sequences

CONSTANTS
  Steps, Depends,             \* the step ids, and what each waits for
  Projection, Extract, Arc,   \* the steps of the three phases
  Preview,                    \* preliminary_scenes_preview
  FanOut,                     \* steps that run once per enumerated item
  Selectable,                 \* fan-out steps over the user's primary entities
  Reporting,                  \* steps whose handler has an onFailure hook
  Keys,                       \* fan-out keys: scene groups and entities
  Selections,                 \* the sets of keys the user may select
  NoKey,                      \* the key of the one job of a simple step
  Concurrency,                \* STEP_CONCURRENCY
  ReselectAnytime,            \* the user reselects while a reselection is unfinished
  MaxFailures, MaxFaults, MaxCrashes, MaxReselects   \* bounds, see Spend

DoneStatuses == {"completed", "skipped"}

PhaseSteps(p) ==
  CASE p = "projection" -> Projection
    [] p = "extract"    -> Extract
    [] OTHER            -> Arc

ASSUME StepsAssumption ==
  /\ Projection \cup Extract \cup Arc = Steps
  /\ Preview \in Projection
  /\ Selectable \subseteq FanOut /\ FanOut \subseteq Steps
  /\ Reporting \subseteq Steps

\* The projection can be finished on its own, and nothing outside the arc
\* phase belongs to it or waits for it.
ASSUME DependsAssumption ==
  /\ Depends \in [Steps -> SUBSET Steps]
  /\ Arc \cap (Projection \cup Extract) = {}
  /\ \A s \in Steps \ Arc : Depends[s] \cap Arc = {}
  /\ \A s \in Projection : Depends[s] \subseteq Projection

\* Every phase has a step of its own, the preview is one job, a selection is
\* made for steps of the arc phase, and no steps wait for each other in a circle.
ASSUME PhasesAssumption ==
  /\ Extract \ Projection # {} /\ Arc # {}
  /\ Preview \notin FanOut /\ Selectable \subseteq Arc
  /\ \A S \in SUBSET Steps : S # {} => \E s \in S : Depends[s] \cap S = {}

ASSUME SizesAssumption ==
  /\ NoKey \notin Keys /\ IsFiniteSet(Keys)
  /\ Selections \subseteq SUBSET Keys
  /\ Concurrency \in Nat \ {0} /\ ReselectAnytime \in BOOLEAN
  /\ {MaxFailures, MaxFaults, MaxCrashes, MaxReselects} \subseteq Nat

Items == FanOut \X Keys
Jobs  == Steps \X (Keys \cup {NoKey})

VARIABLES
  imp,          \* bookImports.status, in the main database
  bookDone,     \* books.status = 'completed', in the main database
  synced,       \* the jobs whose output has reached the main database
  autoConfirm,  \* bookImports.autoConfirmProjection
  parent,       \* status of each step's own row, in the import database
  child,        \* status of each fan-out item's row, in the import database
  selected,     \* the entities of tier PRIMARY, in the import database
  dirty,        \* selectionDirtyRef of the open import window
  confirmed,    \* history: the gates the user has been through
  runPc,        \* where runImport and finalizeBookImportStatus are
  phase,        \* the phase runDag is walking
  retryFailed,  \* the run retries steps that failed in an earlier run
  inFlight, dispatched, resolved,   \* the locals of runDag
  adv,          \* advance() calls: before the HTTP read, and after it
  stepPc,       \* where each step's runStep is
  job,          \* where each job given to the queue is
  queue,        \* jobs waiting for one of the queue's slots, oldest first
  spent         \* how much of each bound is used up

mainVars == <<imp, bookDone, synced, autoConfirm>>
userVars == <<selected, dirty, confirmed>>
rowVars  == <<parent, child, userVars>>
runVars  == <<runPc, phase, retryFailed>>
dagVars  == <<inFlight, dispatched, resolved, adv>>
jobVars  == <<stepPc, job, queue>>
vars     == <<mainVars, rowVars, runVars, dagVars, jobVars, spent>>

ImportStatuses ==
  {"pending", "projection", "awaiting_projection", "extract",
   "awaiting_selection", "arc", "completed", "failed"}
RowStatuses == {"absent", "pending", "running", "completed", "failed", "skipped"}
RunPcs ==
  {"off", "seed", "reset", "pick", "enter", "dag", "after", "gate",
   "finRows", "finSync", "finStatus", "finBook", "respond"}
StepPcs == {"idle", "start", "wait", "report", "return"}
JobPcs  == {"none", "queued", "running", "reporting", "ok", "bad"}
AdvancePcs == {"read", "go", "halt"}
Bounds == {"failures", "faults", "crashes", "reselects"}
NoAdvance == [a \in AdvancePcs |-> 0]

\* The state has the shape the code gives it: statuses the schema allows, and
\* no more calls of advance than were made.
TypeOK ==
  /\ imp \in ImportStatuses
  /\ bookDone \in BOOLEAN
  /\ synced \subseteq Jobs
  /\ autoConfirm \in BOOLEAN
  /\ parent \in [Steps -> RowStatuses]
  /\ child \in [Items -> RowStatuses]
  /\ selected \subseteq Keys
  /\ dirty \in BOOLEAN
  /\ confirmed \subseteq {"projection", "selection"}
  /\ runPc \in RunPcs
  /\ phase \in {"projection", "extract", "arc"}
  /\ retryFailed \in BOOLEAN
  /\ inFlight \subseteq Steps
  /\ dispatched \subseteq Steps
  /\ resolved \in BOOLEAN
  /\ adv \in [AdvancePcs -> Nat]
  /\ stepPc \in [Steps -> StepPcs]
  /\ job \in [Jobs -> JobPcs]
  /\ queue \in Seq(Jobs)
  /\ spent \in [Bounds -> Nat]

-----------------------------------------------------------------------------
Done(s) == parent[s] \in DoneStatuses

\* allParentsComplete(steps, rows)
AllParentsComplete(S) == \A s \in S : Done(s)

\* Variant: a failed dependency counts as settled.
DepsSettled(s) == \A d \in Depends[s] : parent[d] \in DoneStatuses \cup {"failed"}

\* depsSatisfied
DepsDone(s) == \A d \in Depends[s] : Done(d)

\* The items an enumerator returns: scene groups, or the primary entities.
Enumerate(s) == IF s \in Selectable THEN selected ELSE Keys

JobsOf(s) == {j \in Jobs : j[1] = s /\ job[j] # "none"}
Active    == {j \in Jobs : job[j] \in {"running", "reporting"}}

\* What the handlers have produced so far, and what a complete import holds.
Outputs ==
  {<<s, NoKey>> : s \in {t \in Steps \ FanOut : parent[t] = "completed"}}
    \cup {j \in Items : child[j] = "completed"}
Required ==
  {<<s, NoKey>> : s \in {t \in Steps \ FanOut : parent[t] # "skipped"}}
    \cup {j \in Items : j[2] \in Enumerate(j[1])}

\* Every order the enumerator may return a set of items in.
Orders(S) ==
  {q \in [1..Cardinality(S) -> S] : \A a, b \in DOMAIN q : q[a] = q[b] => a = b}

\* Failing handlers, bridge calls that reject, lost workers and reselections
\* are unbounded in the code; a model may use each this often.
Spend(what, max) ==
  /\ spent[what] < max
  /\ spent' = [spent EXCEPT ![what] = @ + 1]

Init ==
  /\ imp = "pending" /\ bookDone = FALSE /\ synced = {}
  /\ autoConfirm \in BOOLEAN
  /\ parent = [s \in Steps |-> "absent"]
  /\ child = [i \in Items |-> "absent"]
  /\ selected \in Selections      \* the tiers calculate_significance will set
  /\ dirty = FALSE /\ confirmed = {}
  /\ runPc = "off" /\ phase = "projection" /\ retryFailed = FALSE
  /\ inFlight = {} /\ dispatched = {} /\ resolved = FALSE
  /\ adv = NoAdvance
  /\ stepPc = [s \in Steps |-> "idle"]
  /\ job = [j \in Jobs |-> "none"]
  /\ queue = <<>>
  /\ spent = [b \in Bounds |-> 0]

-----------------------------------------------------------------------------
\* The user, in the import window and on the book page.

\* start_book_import: advanceImport right after the upload, resumeImport
\* (which retries failed steps) for a failed or stalled import.
Start ==
  /\ runPc = "off"
  /\ imp \in {"pending", "projection", "extract", "arc", "failed"}
  /\ runPc' = "seed"
  /\ retryFailed' \in IF \A s \in Steps : parent[s] = "absent" THEN BOOLEAN ELSE {TRUE}
  /\ UNCHANGED <<mainVars, rowVars, phase, dagVars, jobVars, spent>>

\* handleConfirmCalibration; the resume that follows is Start.
ConfirmProjection ==
  /\ imp = "awaiting_projection"
  /\ imp' = "extract"
  /\ confirmed' = confirmed \cup {"projection"}
  /\ UNCHANGED <<bookDone, synced, autoConfirm, parent, child, selected, dirty,
                 runVars, dagVars, jobVars, spent>>

\* The user drags entities in and out of PRIMARY: each drop is written to the
\* import database at once, and only this window remembers that one happened.
ChangeSelection ==
  /\ imp = "awaiting_selection"
  /\ selected' \in Selections
  /\ dirty' = TRUE
  /\ UNCHANGED <<mainVars, parent, child, confirmed, runVars, dagVars, jobVars, spent>>

\* The window goes away in the middle of a selection; it may be opened again.
CloseWindow ==
  /\ ReselectAnytime /\ dirty
  /\ dirty' = FALSE
  /\ UNCHANGED <<mainVars, parent, child, selected, confirmed,
                 runVars, dagVars, jobVars, spent>>

\* handleContinueAfterPlaces; the resume that follows is Start.
ConfirmSelection ==
  /\ imp = "awaiting_selection"
  /\ bookDone => dirty
  /\ imp' = "arc"
  /\ confirmed' = confirmed \cup {"selection"}
  /\ UNCHANGED <<bookDone, synced, autoConfirm, parent, child, selected, dirty,
                 runVars, dagVars, jobVars, spent>>

\* handleContinueAfterPlaces on a finished book, in a window that saw no change;
\* it closes the window.
KeepSelection ==
  /\ imp = "awaiting_selection"
  /\ bookDone /\ ~dirty
  /\ imp' = "completed"
  /\ UNCHANGED <<bookDone, synced, autoConfirm, rowVars, runVars, dagVars, jobVars, spent>>

\* handleUpdateSelection on the page of a finished book opens an import window,
\* or shows the one that is open.
Reselect ==
  /\ bookDone
  /\ ReselectAnytime \/ (imp = "completed" /\ runPc = "off")
  /\ Spend("reselects", MaxReselects)
  /\ imp' = "awaiting_selection"
  /\ dirty' \in {FALSE, dirty}
  /\ UNCHANGED <<bookDone, synced, autoConfirm, parent, child, selected, confirmed,
                 runVars, dagVars, jobVars>>

-----------------------------------------------------------------------------
\* runImport

\* seedPipelineSteps
Seed ==
  /\ runPc = "seed"
  /\ runPc' = "reset"
  /\ parent' = IF \A s \in Steps : parent[s] = "absent"
               THEN [s \in Steps |->
                       IF autoConfirm /\ s = Preview THEN "skipped" ELSE "pending"]
               ELSE parent
  /\ UNCHANGED <<mainVars, child, userVars, phase, retryFailed, dagVars, jobVars, spent>>

\* Variants: a reselection resets nothing; every start of the arc phase resets.
NeverReopened == FALSE
AlwaysReopened == imp = "arc"

ArcReopened == imp = "arc" /\ AllParentsComplete(Arc)

\* maybeResetArcForReselection
ResetArc ==
  /\ runPc = "reset"
  /\ runPc' = "pick"
  /\ parent' = IF ArcReopened
               THEN [s \in Steps |-> IF s \in Arc THEN "pending" ELSE parent[s]]
               ELSE parent
  /\ UNCHANGED <<mainVars, child, userVars, phase, retryFailed, dagVars, jobVars, spent>>

FirstUnfinished ==
  IF ~AllParentsComplete(Projection) THEN "projection"
  ELSE IF ~AllParentsComplete(Extract) THEN "extract" ELSE "arc"

\* pickPhase.  A new runDag has locals of its own; whatever calls of advance
\* the one before left behind find a finished phase and do nothing, so they
\* are dropped here.
PickPhase ==
  /\ runPc = "pick"
  /\ IF imp \in {"completed", "awaiting_projection", "awaiting_selection"}
          \/ AllParentsComplete(Steps)
     THEN /\ runPc' = "finRows"
          /\ UNCHANGED phase
     ELSE /\ runPc' = "enter"
          /\ phase' = FirstUnfinished
  /\ inFlight' = {} /\ dispatched' = {} /\ resolved' = FALSE /\ adv' = NoAdvance
  /\ UNCHANGED <<mainVars, rowVars, retryFailed, jobVars, spent>>

PhaseStatus == phase

\* The import row is brought in line with the phase, and runDag begins.
EnterPhase ==
  /\ runPc = "enter"
  /\ runPc' = "dag"
  /\ imp' = PhaseStatus
  /\ adv' = [adv EXCEPT !["read"] = 1]
  /\ UNCHANGED <<bookDone, synced, autoConfirm, rowVars, phase, retryFailed,
                 inFlight, dispatched, resolved, jobVars, spent>>

\* Variant: a confirmed projection confirms the selection too.
NextAutomatic ==
  IF phase = "arc" THEN "finRows" ELSE IF autoConfirm THEN "pick" ELSE "gate"

NextAfterDone ==
  IF phase = "arc" THEN "finRows"
  ELSE IF phase = "projection" /\ autoConfirm THEN "pick" ELSE "gate"

\* Variants: the rows are not looked at again; an unfinished phase is picked
\* again instead of ending the run.
NextUnchecked == NextAfterDone
NextAgain == IF AllParentsComplete(PhaseSteps(phase)) THEN NextAfterDone ELSE "pick"

NextAfterDag ==
  IF AllParentsComplete(PhaseSteps(phase)) THEN NextAfterDone ELSE "finRows"

\* The promise of runDag is resolved: is the phase done, is there a gate?
AfterDag ==
  /\ runPc = "dag" /\ resolved
  /\ runPc' = NextAfterDag
  /\ UNCHANGED <<mainVars, rowVars, phase, retryFailed, dagVars, jobVars, spent>>

OpenGate ==
  /\ runPc = "gate"
  /\ runPc' = "finRows"
  /\ imp' = IF phase = "projection" THEN "awaiting_projection" ELSE "awaiting_selection"
  /\ UNCHANGED <<bookDone, synced, autoConfirm, rowVars, phase, retryFailed,
                 dagVars, jobVars, spent>>

-----------------------------------------------------------------------------
\* runDag: advance() reads the import row over HTTP, then the step rows.

\* Variant: rows left 'running' by a dead worker are not candidates.
CandidatesPending == {"pending"} \cup IF retryFailed THEN {"failed"} ELSE {}

CandidateStatuses == {"pending", "running"} \cup IF retryFailed THEN {"failed"} ELSE {}

\* snapshot().readyIds
ReadySteps == {s \in PhaseSteps(phase) : parent[s] \in CandidateStatuses /\ DepsDone(s)}

Fresh == ReadySteps \ (inFlight \cup dispatched)

\* Variant: a retrying run halts on a failure too.
HaltsAlways == imp = "failed"

Halts == imp = "failed" /\ ~retryFailed

\* Variant: the walk is over as soon as there is nothing to dispatch.
WalkHasty == Fresh = {}

WalkOver == Fresh = {} /\ inFlight = {}

AdvanceReadImport ==
  /\ adv["read"] > 0
  /\ LET seen == IF Halts THEN "halt" ELSE "go"
     IN  adv' = [adv EXCEPT !["read"] = @ - 1, ![seen] = @ + 1]
  /\ UNCHANGED <<mainVars, rowVars, runVars, inFlight, dispatched, resolved, jobVars, spent>>

\* The import was seen failed, and this run does not retry.
AdvanceHalt ==
  /\ adv["halt"] > 0
  /\ adv' = [adv EXCEPT !["halt"] = @ - 1]
  /\ resolved' = (resolved \/ inFlight = {})
  /\ UNCHANGED <<mainVars, rowVars, runVars, inFlight, dispatched, jobVars, spent>>

AdvanceDispatch ==
  /\ adv["go"] > 0
  /\ adv' = [adv EXCEPT !["go"] = @ - 1]
  /\ inFlight' = inFlight \cup Fresh
  /\ dispatched' = dispatched \cup Fresh
  /\ stepPc' = [s \in Steps |-> IF s \in Fresh THEN "start" ELSE stepPc[s]]
  /\ resolved' = (resolved \/ WalkOver)
  /\ UNCHANGED <<mainVars, rowVars, runVars, job, queue, spent>>

-----------------------------------------------------------------------------
\* runStep, runSimpleStep and runFanOutStep, up to the queue.

BeginSimple(s) ==
  /\ stepPc[s] = "start" /\ s \notin FanOut
  /\ IF parent[s] = "completed"
     THEN /\ stepPc' = [stepPc EXCEPT ![s] = "return"]
          /\ UNCHANGED <<parent, job, queue>>
     ELSE /\ stepPc' = [stepPc EXCEPT ![s] = "wait"]
          /\ parent' = [parent EXCEPT ![s] = "running"]
          /\ job' = [job EXCEPT ![<<s, NoKey>>] = "queued"]
          /\ queue' = Append(queue, <<s, NoKey>>)
  /\ UNCHANGED <<mainVars, child, userVars, runVars, dagVars, spent>>

\* Rows of items enumerated before are kept, rows for new items are added,
\* and every enumerated item is handed to the queue.
BeginFanOut(s) ==
  LET items == {<<s, k>> : k \in Enumerate(s)} IN
  /\ stepPc[s] = "start" /\ s \in FanOut
  /\ IF items = {} \/ parent[s] = "completed"
     THEN /\ stepPc' = [stepPc EXCEPT ![s] = "return"]
          /\ parent' = [parent EXCEPT ![s] = "completed"]
          /\ UNCHANGED <<child, job, queue>>
     ELSE /\ stepPc' = [stepPc EXCEPT ![s] = "wait"]
          /\ parent' = [parent EXCEPT ![s] = "running"]
          /\ child' = [i \in Items |->
                         IF i \in items /\ child[i] = "absent" THEN "pending" ELSE child[i]]
          /\ job' = [j \in Jobs |-> IF j \in items THEN "queued" ELSE job[j]]
          /\ \E order \in Orders(items) : queue' = queue \o order
  /\ UNCHANGED <<mainVars, userVars, runVars, dagVars, spent>>

\* runStep throws before it touches a row: the import row cannot be read, or
\* the enumerator fails.
BeginThrows(s) ==
  /\ stepPc[s] = "start"
  /\ Spend("faults", MaxFaults)
  /\ stepPc' = [stepPc EXCEPT ![s] = "return"]
  /\ UNCHANGED <<mainVars, rowVars, runVars, dagVars, job, queue>>

-----------------------------------------------------------------------------
\* The queue and the handlers.

\* Variant: items that completed in an earlier run are run again.
NeverSkipped(j) == FALSE

Skipped(j) == j \in Items /\ child[j] = "completed"

\* A slot is free for the oldest job; an item that completed in an earlier
\* run gives it back at once.
StartJob ==
  /\ queue # <<>> /\ Cardinality(Active) < Concurrency
  /\ queue' = Tail(queue)
  /\ LET j == Head(queue) IN
     /\ job[j] = "queued"
     /\ IF Skipped(j)
        THEN /\ job' = [job EXCEPT ![j] = "ok"]
             /\ UNCHANGED child
        ELSE /\ job' = [job EXCEPT ![j] = "running"]
             /\ child' = [i \in Items |-> IF i = j THEN "running" ELSE child[i]]
  /\ UNCHANGED <<mainVars, parent, userVars, runVars, dagVars, stepPc, spent>>

JobSucceeds(j) ==
  /\ job[j] = "running"
  /\ job' = [job EXCEPT ![j] = "ok"]
  /\ child' = [i \in Items |-> IF i = j THEN "completed" ELSE child[i]]
  /\ UNCHANGED <<mainVars, parent, userVars, runVars, dagVars, stepPc, queue, spent>>

\* The handler has used up its retries (StepRetry).
JobFails(j) ==
  /\ job[j] = "running"
  /\ Spend("failures", MaxFailures)
  /\ IF j[1] \in Reporting
     THEN /\ job' = [job EXCEPT ![j] = "reporting"]
          /\ UNCHANGED child
     ELSE /\ job' = [job EXCEPT ![j] = "bad"]
          /\ child' = [i \in Items |-> IF i = j THEN "failed" ELSE child[i]]
  /\ UNCHANGED <<mainVars, parent, userVars, runVars, dagVars, stepPc, queue>>

\* onFailure sets the import to 'failed' for an UnrecoverableError and back
\* to 'pending' for any other; then the error reaches the runner.
ReportFailure(j) ==
  /\ job[j] = "reporting"
  /\ imp' \in {"pending", "failed"}
  /\ job' = [job EXCEPT ![j] = "bad"]
  /\ child' = [i \in Items |-> IF i = j THEN "failed" ELSE child[i]]
  /\ UNCHANGED <<bookDone, synced, autoConfirm, parent, userVars, runVars, dagVars,
                 stepPc, queue, spent>>

-----------------------------------------------------------------------------
\* runSimpleStep and runFanOutStep, once every job of the step has settled.

SettleStep(s) ==
  /\ stepPc[s] = "wait"
  /\ \A j \in JobsOf(s) : job[j] \in {"ok", "bad"}
  /\ LET failed == \E j \in JobsOf(s) : job[j] = "bad" IN
     /\ parent' = [parent EXCEPT ![s] = IF failed THEN "failed" ELSE "completed"]
     /\ stepPc' = [stepPc EXCEPT ![s] = IF failed THEN "report" ELSE "return"]
  /\ UNCHANGED <<mainVars, child, userVars, runVars, dagVars, job, queue, spent>>

\* Variant: the import row is left to the handler's onFailure.
StatusAfterHandler == imp

StatusAfterFailure == "failed"

\* The import row follows the step row.
ReportStep(s) ==
  /\ stepPc[s] = "report"
  /\ imp' = StatusAfterFailure
  /\ stepPc' = [stepPc EXCEPT ![s] = "return"]
  /\ UNCHANGED <<bookDone, synced, autoConfirm, rowVars, runVars, dagVars, job, queue, spent>>

\* The bridge rejects that update, and runStep throws instead.
ReportStepThrows(s) ==
  /\ stepPc[s] = "report"
  /\ Spend("faults", MaxFaults)
  /\ stepPc' = [stepPc EXCEPT ![s] = "return"]
  /\ UNCHANGED <<mainVars, rowVars, runVars, dagVars, job, queue>>

\* runStepAndChain: the step leaves inFlight and advance is called again.
ReturnStep(s) ==
  /\ stepPc[s] = "return"
  /\ stepPc' = [stepPc EXCEPT ![s] = "idle"]
  /\ job' = [j \in Jobs |-> IF j[1] = s THEN "none" ELSE job[j]]
  /\ inFlight' = inFlight \ {s}
  /\ adv' = [adv EXCEPT !["read"] = @ + 1]
  /\ UNCHANGED <<mainVars, rowVars, runVars, dispatched, resolved, queue, spent>>

-----------------------------------------------------------------------------
\* finalizeBookImportStatus, and the end of the run.

\* Variant: only the phase of this run is looked at.
PhaseFinished == AllParentsComplete(PhaseSteps(phase)) /\ imp # "completed"

ImportFinished == AllParentsComplete(Steps) /\ imp # "completed"

FinalizeRows ==
  /\ runPc = "finRows"
  /\ runPc' = IF ImportFinished THEN "finSync" ELSE "respond"
  /\ UNCHANGED <<mainVars, rowVars, phase, retryFailed, dagVars, jobVars, spent>>

\* bridgeSyncImport: one transaction copies every shared table to main.
FinalizeSync ==
  /\ runPc = "finSync"
  /\ runPc' = "finStatus"
  /\ synced' = synced \cup Outputs
  /\ UNCHANGED <<imp, bookDone, autoConfirm, rowVars, phase, retryFailed,
                 dagVars, jobVars, spent>>

FinalizeStatus ==
  /\ runPc = "finStatus"
  /\ runPc' = "finBook"
  /\ imp' = "completed"
  /\ UNCHANGED <<bookDone, synced, autoConfirm, rowVars, phase, retryFailed,
                 dagVars, jobVars, spent>>

FinalizeBook ==
  /\ runPc = "finBook"
  /\ runPc' = "respond"
  /\ bookDone' = TRUE
  /\ UNCHANGED <<imp, synced, autoConfirm, rowVars, phase, retryFailed,
                 dagVars, jobVars, spent>>

\* A bridge call of runImport or of the finalization rejects: the run ends
\* with an error response.
RunThrows ==
  /\ runPc \in {"seed", "reset", "pick", "enter", "gate",
                "finRows", "finSync", "finStatus", "finBook"}
  /\ Spend("faults", MaxFaults)
  /\ runPc' = "respond"
  /\ UNCHANGED <<mainVars, rowVars, phase, retryFailed, dagVars, jobVars>>

\* What dies with the worker process.
ForgetRun ==
  /\ runPc' = "off"
  /\ inFlight' = {} /\ dispatched' = {} /\ resolved' = FALSE /\ adv' = NoAdvance
  /\ stepPc' = [s \in Steps |-> "idle"]
  /\ job' = [j \in Jobs |-> "none"]
  /\ queue' = <<>>
  /\ UNCHANGED <<mainVars, rowVars, phase, retryFailed>>

\* The host kills the worker when it reads the response.
HostKills ==
  /\ runPc = "respond"
  /\ ForgetRun
  /\ UNCHANGED spent

\* The worker dies at any other time: the application or the machine stops,
\* or a rejection nobody handles (a bridge read in advance) ends the process.
Crash ==
  /\ runPc \notin {"off", "respond"}
  /\ Spend("crashes", MaxCrashes)
  /\ ForgetRun

-----------------------------------------------------------------------------
User ==
  \/ Start
  \/ ConfirmProjection
  \/ ChangeSelection \/ CloseWindow \/ ConfirmSelection \/ KeepSelection
  \/ Reselect

StepRuns(s) ==
  \/ BeginSimple(s) \/ BeginFanOut(s) \/ BeginThrows(s)
  \/ SettleStep(s) \/ ReportStep(s) \/ ReportStepThrows(s) \/ ReturnStep(s)

JobRuns(j) == JobSucceeds(j) \/ JobFails(j) \/ ReportFailure(j)

Worker ==
  \/ Seed \/ ResetArc \/ PickPhase \/ EnterPhase \/ AfterDag \/ OpenGate
  \/ AdvanceReadImport \/ AdvanceHalt \/ AdvanceDispatch
  \/ \E s \in Steps : StepRuns(s)
  \/ StartJob
  \/ \E j \in Jobs : JobRuns(j)
  \/ FinalizeRows \/ FinalizeSync \/ FinalizeStatus \/ FinalizeBook
  \/ RunThrows \/ HostKills

\* An import may stop at the end, and only there.
Rest ==
  /\ imp = "completed" /\ runPc = "off"
  /\ UNCHANGED vars

Next == User \/ Worker \/ Crash \/ Rest

Spec == Init /\ [][Next]_vars

\* The event loop and the queue run on as long as the process lives, loopback
\* requests are answered and handlers return; the user and crashes owe nothing.
FairSpec == Spec /\ WF_vars(Worker)

-----------------------------------------------------------------------------
(* What should be true of it.                                              *)

\* The parent rows are a step board: dependencies first, and a finished step
\* stays finished until the whole arc phase is reopened.
Board == INSTANCE StepBoard WITH board <- parent
BoardSpec == Board!Spec

\* A handler at work belongs to a step whose dependencies are done, whatever
\* the interleaving of advance calls, failures and restarts.
HandlersAfterDependencies ==
  \A j \in Active : \A d \in Depends[j[1]] : Done(d)

\* The output of an item that completed is never produced a second time, not
\* by a retry, a restart or a reselection.
CompletedItemsKept ==
  [][\A i \in Items : child[i] = "completed" => child'[i] = "completed"]_vars

\* A retrying run answers only when nothing is at work any more.
RetryRunIsQuiet ==
  retryFailed /\ runPc \notin {"off", "dag"} => inFlight = {}

\* When a retrying run whose bridge calls all succeeded answers, every step of
\* its phase is done, failed, or waits for one that is neither: no step that
\* could have been run is left behind.
NoStepLeftBehind ==
  retryFailed /\ runPc = "respond" /\ spent["faults"] = 0 =>
    \A s \in PhaseSteps(phase) : Done(s) \/ parent[s] = "failed" \/ ~DepsDone(s)

\* A run in which nothing fails finishes the phase it is in, also when it
\* takes over from a worker that died in the middle of its steps.
PhaseCompletes ==
  runPc = "respond" /\ spent["failures"] = 0 /\ spent["faults"] = 0 =>
    AllParentsComplete(PhaseSteps(phase))

\* A run that answers with all its steps returned, one of them failed, leaves
\* the import 'failed', although a handler's onFailure hook may have set it
\* back to 'pending' in between.
FailureIsVisible ==
  runPc = "respond" /\ inFlight = {} /\ spent["faults"] = 0 =>
    ((\E s \in dispatched : parent[s] = "failed") => imp = "failed")

\* The user is only asked to confirm what is there: while an import waits at a
\* gate, the phase before the gate is done.
GatesAfterPhases ==
  /\ imp = "awaiting_projection" => AllParentsComplete(Projection)
  /\ imp = "awaiting_selection" => AllParentsComplete(Projection \cup Extract)

\* The user is asked: no phase is walked before the gate in front of it was
\* passed, however often the import failed and was resumed.
GatesAreAsked ==
  /\ runPc = "dag" /\ phase = "extract" => autoConfirm \/ "projection" \in confirmed
  /\ runPc = "dag" /\ phase = "arc" => "selection" \in confirmed

\* An import that says it is complete has every step done, also after the user
\* reopened the selection and left without a change ("Reopened a finished book
\* to re-select but nothing changed", handleContinueAfterPlaces).
CompletedMeansDone ==
  imp = "completed" => AllParentsComplete(Steps)

\* A complete import has the output of every step, and of every entity that
\* is selected, in the main database.
CompletedIsPublished ==
  imp = "completed" => Required \subseteq synced

\* Every run comes to an end: the worker answers, or dies.
RunEnds == runPc # "off" ~> runPc = "off"

-----------------------------------------------------------------------------
(* The inductive invariant behind the theorems of PipelineRunnerProofs.    *)

\* Nothing is left of a run before the next one picks its phase.
IdleBetweenRuns ==
  runPc \in {"off", "seed", "reset"} =>
    /\ \A s \in Steps : stepPc[s] = "idle"
    /\ \A j \in Jobs : job[j] = "none"
    /\ adv = NoAdvance

\* What runStep relies on: a step that was dispatched may run, and nobody else
\* touches its row until it has settled.
StepsOwnRows ==
  \A s \in Steps :
    /\ stepPc[s] \in {"start", "wait"} => \A d \in Depends[s] : Done(d)
    /\ stepPc[s] = "start" => parent[s] \in {"pending", "running", "failed"}
    /\ stepPc[s] = "wait" => parent[s] = "running"

\* What the handlers rely on.
JobsOwnRows ==
  \A j \in Jobs :
    /\ job[j] \in {"queued", "running", "reporting"} => \A d \in Depends[j[1]] : Done(d)
    /\ job[j] \in {"running", "reporting"} /\ j \in Items => child[j] = "running"

\* How far the import is where the run is.
PhasesInOrder ==
  /\ runPc \in {"enter", "dag", "gate"} /\ phase # "projection" =>
       AllParentsComplete(Projection)
  /\ runPc = "gate" => phase # "arc" /\ AllParentsComplete(PhaseSteps(phase))
  /\ runPc \in {"finSync", "finStatus", "finBook"} => AllParentsComplete(Steps)
  /\ bookDone => AllParentsComplete(Projection \cup Extract)
  /\ bookDone /\ runPc \in {"enter", "dag", "gate"} => phase = "arc"
  /\ ~ReselectAnytime /\ bookDone /\ imp = "awaiting_selection" => AllParentsComplete(Steps)
  /\ ~ReselectAnytime => CompletedMeansDone

IInv ==
  /\ TypeOK
  /\ IdleBetweenRuns
  /\ StepsOwnRows
  /\ JobsOwnRows
  /\ PhasesInOrder
  /\ GatesAfterPhases

=============================================================================
