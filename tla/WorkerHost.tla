----------------------------- MODULE WorkerHost -----------------------------
(***************************************************************************)
(* The host side of an import (src-tauri/src/pipeline_worker.rs,           *)
(* import_db.rs, keepawake.rs and the exit handler of lib.rs): who may     *)
(* start a worker process, who kills it, what becomes of the import's own  *)
(* database file, and when the machine may sleep again.                    *)
(*                                                                         *)
(* Commands and worker tasks run on the threads of one runtime.  A step    *)
(* here is what one of them does between two awaits, or between two        *)
(* acquisitions of a lock.  What a worker does inside its process is       *)
(* PipelineRunner's business; here it seeds, pauses, or syncs and          *)
(* completes.                                                              *)
(***************************************************************************)
EXTENDS Naturals

CONSTANTS
  Imports,
  Calls,          \* start_book_import and recheck_book_entity_minor calls
  Rechecks,       \* the calls that are rechecks
  Ensures,        \* ensure_import_db calls
  ImportOf,       \* the import a call is about
  NoCall,
  Overlapping,    \* a call may begin while another of its import is not over
  MaxExits        \* how often the application stops

ASSUME CallsAssumption ==
  /\ Rechecks \subseteq Calls /\ Calls \cap Ensures = {}
  /\ ImportOf \in [Calls \cup Ensures -> Imports]
  /\ NoCall \notin Calls
  /\ Overlapping \in BOOLEAN /\ MaxExits \in Nat

VARIABLES
  status,      \* bookImports.status: is the import completed, or gone
  published,   \* the main database has what the import produced
  db,          \* the file of the import's own database
  attached,    \* the calls whose worker has that very file open
  children,    \* PipelineWorkerState: whose kill sender an import's key holds
  told,        \* the calls whose kill_rx resolves: sent to, or sender dropped
  awake,       \* KeepawakeState
  callPc,      \* where a command is
  runAnswer,   \* run_done
  taskPc,      \* where the task of its worker is
  cancelled,   \* the task's local of that name
  proc,        \* the worker process
  ensurePc,    \* where an ensure_import_db call is
  app,         \* the application
  exits        \* how often it stopped

mainVars == <<status, published>>
fileVars == <<db, attached>>
hostVars == <<children, told, awake>>
callVars == <<callPc, runAnswer>>
taskVars == <<taskPc, cancelled>>
appVars  == <<app, exits>>
vars == <<mainVars, fileVars, hostVars, callVars, taskVars, proc, ensurePc, appVars>>

ProcStates == {"none", "boot", "ready", "steps", "synced", "finished", "dead"}
CallPcs == {"idle", "prepare", "spawn", "enter", "lock", "init", "initOk", "initErr",
            "run", "ok", "err", "gone"}
TaskPcs == {"none", "new", "serve", "work", "end", "status", "delete",
            "remove", "empty", "sleep", "done"}
EnsurePcs == {"idle", "prepare", "sync", "ok", "err", "done", "gone"}

\* The state has the shape the code gives it.
TypeOK ==
  /\ status \in [Imports -> {"open", "completed", "deleted"}]
  /\ published \in [Imports -> BOOLEAN]
  /\ db \in [Imports -> {"none", "bare", "rows"}]
  /\ attached \subseteq Calls
  /\ children \in [Imports -> Calls \cup {NoCall}]
  /\ told \subseteq Calls
  /\ awake \in BOOLEAN
  /\ callPc \in [Calls -> CallPcs]
  /\ runAnswer \in [Calls -> {"none", "ok", "err"}]
  /\ taskPc \in [Calls -> TaskPcs]
  /\ cancelled \subseteq Calls
  /\ proc \in [Calls -> ProcStates]
  /\ ensurePc \in [Ensures -> EnsurePcs]
  /\ app \in {"up", "quitting"}
  /\ exits \in 0..MaxExits

Live(c) == proc[c] \notin {"none", "dead"}

CallsOf(i) == {c \in Calls : ImportOf[c] = i}

\* Nobody is still busy with an import.
Settled(i) ==
  /\ \A c \in CallsOf(i) : /\ callPc[c] \in {"idle", "ok", "err", "gone"}
                           /\ taskPc[c] \in {"none", "done"}
  /\ \A e \in Ensures : ImportOf[e] = i => ensurePc[e] \in {"idle", "err", "done", "gone"}

Init ==
  /\ status = [i \in Imports |-> "open"]
  /\ published = [i \in Imports |-> FALSE]
  /\ db = [i \in Imports |-> "none"]
  /\ attached = {}
  /\ children = [i \in Imports |-> NoCall]
  /\ told = {}
  /\ awake = FALSE
  /\ callPc = [c \in Calls |-> "idle"]
  /\ runAnswer = [c \in Calls |-> "none"]
  /\ taskPc = [c \in Calls |-> "none"]
  /\ cancelled = {}
  /\ proc = [c \in Calls |-> "none"]
  /\ ensurePc = [e \in Ensures |-> "idle"]
  /\ app = "up"
  /\ exits = 0

\* Cancel and quit take the sender out of the map and send on it.
Sent(i) == {children[i]} \ {NoCall}

\* Variant: only a message resolves kill_rx.
NeverDropped(i) == {}

\* A sender replaced in the map, or removed from it, is dropped: that resolves
\* its kill_rx as well.
Dropped(i) == {children[i]} \ {NoCall}

-----------------------------------------------------------------------------
\* spawn_worker

Admitted(i) == children[i] = NoCall

CallCheck(c) ==
  /\ callPc[c] = "idle" /\ app = "up"
  /\ status[ImportOf[c]] = "open"
  /\ Overlapping \/ Settled(ImportOf[c])
  /\ c \in Rechecks => db[ImportOf[c]] = "rows"
  /\ callPc' = [callPc EXCEPT ![c] = IF Admitted(ImportOf[c]) THEN "prepare" ELSE "err"]
  /\ UNCHANGED <<mainVars, fileVars, hostVars, runAnswer, taskVars, proc, ensurePc, appVars>>

\* prepare_import_db creates the file, with its schema, if there is none.
Prepared(i) == [db EXCEPT ![i] = IF @ = "none" THEN "bare" ELSE @]

CallPrepare(c) ==
  /\ callPc[c] = "prepare"
  /\ callPc' = [callPc EXCEPT ![c] = "spawn"]
  /\ db' = Prepared(ImportOf[c])
  /\ UNCHANGED <<mainVars, attached, hostVars, runAnswer, taskVars, proc, ensurePc, appVars>>

\* It may fail after the file was made.
CallPrepareFails(c) ==
  /\ callPc[c] = "prepare"
  /\ callPc' = [callPc EXCEPT ![c] = "err"]
  /\ db' \in {db, Prepared(ImportOf[c])}
  /\ UNCHANGED <<mainVars, attached, hostVars, runAnswer, taskVars, proc, ensurePc, appVars>>

CallSpawn(c) ==
  /\ callPc[c] = "spawn"
  /\ callPc' = [callPc EXCEPT ![c] = "enter"]
  /\ proc' = [proc EXCEPT ![c] = "boot"]
  /\ UNCHANGED <<mainVars, fileVars, hostVars, runAnswer, taskVars, ensurePc, appVars>>

CallSpawnFails(c) ==
  /\ callPc[c] = "spawn"
  /\ callPc' = [callPc EXCEPT ![c] = "err"]
  /\ UNCHANGED <<mainVars, fileVars, hostVars, runAnswer, taskVars, proc, ensurePc, appVars>>

\* The kill sender replaces any that is in the map.
CallEnters(c) ==
  LET i == ImportOf[c] IN
  /\ callPc[c] = "enter"
  /\ callPc' = [callPc EXCEPT ![c] = "lock"]
  /\ children' = [children EXCEPT ![i] = c]
  /\ told' = told \cup Dropped(i)
  /\ UNCHANGED <<mainVars, fileVars, awake, runAnswer, taskVars, proc, ensurePc, appVars>>

\* prevent_sleep, and the worker task begins.
CallLock(c) ==
  /\ callPc[c] = "lock"
  /\ callPc' = [callPc EXCEPT ![c] = "init"]
  /\ awake' = TRUE
  /\ taskPc' = [taskPc EXCEPT ![c] = "new"]
  /\ UNCHANGED <<mainVars, fileVars, children, told, runAnswer, cancelled, proc,
                 ensurePc, appVars>>

CallInitOk(c) ==
  /\ callPc[c] = "initOk"
  /\ callPc' = [callPc EXCEPT ![c] = IF c \in Rechecks THEN "run" ELSE "ok"]
  /\ UNCHANGED <<mainVars, fileVars, hostVars, runAnswer, taskVars, proc, ensurePc, appVars>>

\* The key is removed, whoever's sender it holds by now.
CallInitErr(c) ==
  LET i == ImportOf[c] IN
  /\ callPc[c] = "initErr"
  /\ callPc' = [callPc EXCEPT ![c] = "err"]
  /\ children' = [children EXCEPT ![i] = NoCall]
  /\ told' = told \cup Dropped(i)
  /\ UNCHANGED <<mainVars, fileVars, awake, runAnswer, taskVars, proc, ensurePc, appVars>>

CallRunDone(c) ==
  /\ callPc[c] = "run" /\ runAnswer[c] # "none"
  /\ callPc' = [callPc EXCEPT ![c] = runAnswer[c]]
  /\ UNCHANGED <<mainVars, fileVars, hostVars, runAnswer, taskVars, proc, ensurePc, appVars>>

-----------------------------------------------------------------------------
\* The worker process.

\* A started import has its rows seeded; a recheck does its work in one go.
ProcWorks(c) ==
  LET i == ImportOf[c] IN
  /\ proc[c] = "ready"
  /\ IF c \in Rechecks
     THEN /\ proc' = [proc EXCEPT ![c] = "finished"]
          /\ UNCHANGED <<published, db>>
     ELSE /\ proc' = [proc EXCEPT ![c] = "steps"]
          /\ db' = [db EXCEPT ![i] = IF c \in attached THEN "rows" ELSE @]
          /\ published' = [published EXCEPT ![i] = FALSE]
  /\ UNCHANGED <<status, attached, hostVars, callVars, taskVars, ensurePc, appVars>>

\* The run stops at a gate or at a failed step, or throws before it has begun.
ProcPauses(c) ==
  /\ proc[c] \in {"ready", "steps"}
  /\ proc' = [proc EXCEPT ![c] = "finished"]
  /\ UNCHANGED <<mainVars, fileVars, hostVars, callVars, taskVars, ensurePc, appVars>>

\* Variant: the copy does not happen.
SyncedNothing(c) == published

\* sync_import_to_main copies the file at the import's path.  That there is
\* none, or that it is not the worker's, is not an error.
SyncedOutput(c) ==
  [published EXCEPT ![ImportOf[c]] = @ \/ c \in attached]

ProcSyncs(c) ==
  /\ proc[c] = "steps"
  /\ proc' = [proc EXCEPT ![c] = "synced"]
  /\ published' = SyncedOutput(c)
  /\ UNCHANGED <<status, fileVars, hostVars, callVars, taskVars, ensurePc, appVars>>

ProcCompletes(c) ==
  LET i == ImportOf[c] IN
  /\ proc[c] = "synced"
  /\ proc' = [proc EXCEPT ![c] = "finished"]
  /\ status' = [status EXCEPT ![i] = IF @ = "open" THEN "completed" ELSE @]
  /\ UNCHANGED <<published, fileVars, hostVars, callVars, taskVars, ensurePc, appVars>>

\* The process ends by itself.
ProcDies(c) ==
  /\ Live(c)
  /\ proc' = [proc EXCEPT ![c] = "dead"]
  /\ UNCHANGED <<mainVars, fileVars, hostVars, callVars, taskVars, ensurePc, appVars>>

-----------------------------------------------------------------------------
\* run_worker_task

\* The init request is written.
TaskBegins(c) ==
  /\ taskPc[c] = "new" /\ Live(c)
  /\ taskPc' = [taskPc EXCEPT ![c] = "serve"]
  /\ UNCHANGED <<mainVars, fileVars, hostVars, callVars, cancelled, proc, ensurePc, appVars>>

\* It cannot be written: an error answer, and straight to finalize_worker.
TaskInitUnwritten(c) ==
  /\ taskPc[c] = "new" /\ ~Live(c)
  /\ taskPc' = [taskPc EXCEPT ![c] = "remove"]
  /\ callPc' = [callPc EXCEPT ![c] = "initErr"]
  /\ UNCHANGED <<mainVars, fileVars, hostVars, runAnswer, cancelled, proc, ensurePc, appVars>>

\* The init answer (the worker has opened the file at the path, or made one);
\* the run request is written.
TaskInitOk(c) ==
  /\ taskPc[c] = "serve" /\ proc[c] = "boot" /\ c \notin told
  /\ taskPc' = [taskPc EXCEPT ![c] = "work"]
  /\ callPc' = [callPc EXCEPT ![c] = "initOk"]
  /\ proc' = [proc EXCEPT ![c] = "ready"]
  /\ db' = Prepared(ImportOf[c])
  /\ attached' = attached \cup {c}
  /\ UNCHANGED <<mainVars, hostVars, runAnswer, cancelled, ensurePc, appVars>>

TaskInitErr(c) ==
  /\ taskPc[c] = "serve" /\ proc[c] = "boot" /\ c \notin told
  /\ taskPc' = [taskPc EXCEPT ![c] = "end"]
  /\ callPc' = [callPc EXCEPT ![c] = "initErr"]
  /\ proc' = [proc EXCEPT ![c] = "dead"]
  /\ UNCHANGED <<mainVars, fileVars, hostVars, runAnswer, cancelled, ensurePc, appVars>>

\* Variant: the kill channel is looked at until the worker is initialised.
KillSeenAtFirst(c) == c \in told /\ taskPc[c] = "serve"

KillSeen(c) == c \in told

\* The kill channel is looked at first.
TaskKilled(c) ==
  /\ taskPc[c] \in {"serve", "work"} /\ KillSeen(c)
  /\ taskPc' = [taskPc EXCEPT ![c] = "end"]
  /\ cancelled' = cancelled \cup {c}
  /\ proc' = [proc EXCEPT ![c] = "dead"]
  /\ UNCHANGED <<mainVars, fileVars, hostVars, callVars, ensurePc, appVars>>

\* run_done is there for rechecks only, and taken by the first answer.
RunDone(c, answer) ==
  [runAnswer EXCEPT ![c] = IF c \in Rechecks /\ @ = "none" THEN answer ELSE @]

TaskRunAnswer(c) ==
  /\ taskPc[c] = "work" /\ proc[c] = "finished" /\ c \notin told
  /\ taskPc' = [taskPc EXCEPT ![c] = "end"]
  /\ \E answer \in {"ok", "err"} : runAnswer' = RunDone(c, answer)
  /\ proc' = [proc EXCEPT ![c] = "dead"]
  /\ UNCHANGED <<mainVars, fileVars, hostVars, callPc, cancelled, ensurePc, appVars>>

\* Variant: the end of the process is only logged.
ExitIgnored(c) == c \in told

ExitSeen(c) == proc[c] = "dead" /\ c \notin told

TaskSeesExit(c) ==
  /\ taskPc[c] \in {"serve", "work"}
  /\ ExitSeen(c)
  /\ taskPc' = [taskPc EXCEPT ![c] = "end"]
  /\ UNCHANGED <<mainVars, fileVars, hostVars, callVars, cancelled, proc, ensurePc, appVars>>

\* Whoever still waits for an answer gets an error.
TaskEnds(c) ==
  /\ taskPc[c] = "end"
  /\ taskPc' = [taskPc EXCEPT ![c] = IF c \in cancelled THEN "delete" ELSE "status"]
  /\ callPc' = [callPc EXCEPT ![c] = IF @ = "init" THEN "initErr" ELSE @]
  /\ runAnswer' = RunDone(c, "err")
  /\ UNCHANGED <<mainVars, fileVars, hostVars, cancelled, proc, ensurePc, appVars>>

\* Variant: a worker that ended, for whatever reason, is taken for complete.
AlwaysCompleted(c) == TRUE

\* book_import_completed
Completed(c) == status[ImportOf[c]] = "completed"

TaskReadsStatus(c) ==
  /\ taskPc[c] = "status"
  /\ taskPc' = [taskPc EXCEPT ![c] = IF Completed(c) THEN "delete" ELSE "remove"]
  /\ UNCHANGED <<mainVars, fileVars, hostVars, callVars, cancelled, proc, ensurePc, appVars>>

\* delete_import_db.  A worker that has the file open goes on with a file that
\* nobody else sees.
TaskDeletes(c) ==
  LET i == ImportOf[c] IN
  /\ taskPc[c] = "delete"
  /\ taskPc' = [taskPc EXCEPT ![c] = "remove"]
  /\ db' = [db EXCEPT ![i] = "none"]
  /\ attached' = attached \ CallsOf(i)
  /\ UNCHANGED <<mainVars, hostVars, callVars, cancelled, proc, ensurePc, appVars>>

\* finalize_worker removes the key, whoever's sender it holds by now.
TaskRemoves(c) ==
  LET i == ImportOf[c] IN
  /\ taskPc[c] = "remove"
  /\ taskPc' = [taskPc EXCEPT ![c] = "empty"]
  /\ children' = [children EXCEPT ![i] = NoCall]
  /\ told' = told \cup Dropped(i)
  /\ UNCHANGED <<mainVars, fileVars, awake, callVars, cancelled, proc, ensurePc, appVars>>

\* Variant: the worker's own key is counted as if it were still there.
OnlyOneRuns == \E i \in Imports : /\ children[i] # NoCall
                                  /\ \A k \in Imports \ {i} : children[k] = NoCall

NobodyRuns == \A i \in Imports : children[i] = NoCall

TaskChecksEmpty(c) ==
  /\ taskPc[c] = "empty"
  /\ taskPc' = [taskPc EXCEPT ![c] = IF NobodyRuns THEN "sleep" ELSE "done"]
  /\ UNCHANGED <<mainVars, fileVars, hostVars, callVars, cancelled, proc, ensurePc, appVars>>

TaskAllowsSleep(c) ==
  /\ taskPc[c] = "sleep"
  /\ taskPc' = [taskPc EXCEPT ![c] = "done"]
  /\ awake' = FALSE
  /\ UNCHANGED <<mainVars, fileVars, children, told, callVars, cancelled, proc,
                 ensurePc, appVars>>

-----------------------------------------------------------------------------
\* ensure_import_db: the page of a finished book asks for the import's file.

EnsureCheck(e) ==
  LET i == ImportOf[e] IN
  /\ ensurePc[e] = "idle" /\ app = "up"
  /\ status[i] = "completed"
  /\ Overlapping \/ Settled(i)
  /\ ensurePc' = [ensurePc EXCEPT ![e] =
       IF db[i] # "none" THEN "ok" ELSE IF children[i] # NoCall THEN "err" ELSE "prepare"]
  /\ UNCHANGED <<mainVars, fileVars, hostVars, callVars, taskVars, proc, appVars>>

EnsurePrepare(e) ==
  /\ ensurePc[e] = "prepare"
  /\ ensurePc' = [ensurePc EXCEPT ![e] = "sync"]
  /\ db' = Prepared(ImportOf[e])
  /\ UNCHANGED <<mainVars, attached, hostVars, callVars, taskVars, proc, appVars>>

\* The error is returned at once; a file that was made stays.
EnsurePrepareFails(e) ==
  /\ ensurePc[e] = "prepare"
  /\ ensurePc' = [ensurePc EXCEPT ![e] = "err"]
  /\ db' \in {db, Prepared(ImportOf[e])}
  /\ UNCHANGED <<mainVars, attached, hostVars, callVars, taskVars, proc, appVars>>

\* sync_main_to_import, in one transaction.
EnsureSync(e) ==
  /\ ensurePc[e] = "sync" /\ db[ImportOf[e]] # "none"
  /\ ensurePc' = [ensurePc EXCEPT ![e] = "ok"]
  /\ db' = [db EXCEPT ![ImportOf[e]] = "rows"]
  /\ UNCHANGED <<mainVars, attached, hostVars, callVars, taskVars, proc, appVars>>

Cleared(i) == [db EXCEPT ![i] = "none"]

EnsureSyncFails(e) ==
  LET i == ImportOf[e] IN
  /\ ensurePc[e] = "sync"
  /\ ensurePc' = [ensurePc EXCEPT ![e] = "err"]
  /\ db' = Cleared(i)
  /\ attached' = attached \ CallsOf(i)
  /\ UNCHANGED <<mainVars, hostVars, callVars, taskVars, proc, appVars>>

\* handleUpdateSelection opens the selection, on the strength of the Ok.
EnsureReopens(e) ==
  /\ ensurePc[e] = "ok"
  /\ ensurePc' = [ensurePc EXCEPT ![e] = "done"]
  /\ status' = [status EXCEPT ![ImportOf[e]] = IF @ = "completed" THEN "open" ELSE @]
  /\ UNCHANGED <<published, fileVars, hostVars, callVars, taskVars, proc, appVars>>

-----------------------------------------------------------------------------
\* handleCancel: cancel_book_import, then the rows of the import are deleted.
CancelImport(i) ==
  /\ status[i] = "open" /\ app = "up"
  /\ status' = [status EXCEPT ![i] = "deleted"]
  /\ children' = [children EXCEPT ![i] = NoCall]
  /\ told' = told \cup Sent(i)
  /\ UNCHANGED <<published, fileVars, awake, callVars, taskVars, proc, ensurePc, appVars>>

\* "Quit Anyway" in the exit dialog: every worker is told, then app.exit.
QuitAnyway ==
  /\ app = "up" /\ ~NobodyRuns /\ exits < MaxExits
  /\ app' = "quitting"
  /\ children' = [i \in Imports |-> NoCall]
  /\ told' = told \cup UNION {Sent(i) : i \in Imports}
  /\ UNCHANGED <<mainVars, fileVars, awake, callVars, taskVars, proc, ensurePc, exits>>

\* The application stops, after that or without it, and is opened again.
AppStops ==
  /\ exits < MaxExits
  /\ exits' = exits + 1 /\ app' = "up"
  /\ children' = [i \in Imports |-> NoCall]
  /\ told' = {} /\ awake' = FALSE /\ attached' = {} /\ cancelled' = {}
  /\ callPc' = [c \in Calls |-> IF callPc[c] = "idle" THEN "idle" ELSE "gone"]
  /\ runAnswer' = [c \in Calls |-> "none"]
  /\ taskPc' = [c \in Calls |-> IF taskPc[c] = "none" THEN "none" ELSE "done"]
  /\ proc' = [c \in Calls |-> IF proc[c] = "none" THEN "none" ELSE "dead"]
  /\ ensurePc' = [e \in Ensures |-> IF ensurePc[e] = "idle" THEN "idle" ELSE "gone"]
  /\ UNCHANGED <<mainVars, db>>

-----------------------------------------------------------------------------
CallSteps(c) ==
  \/ CallCheck(c) \/ CallPrepare(c) \/ CallPrepareFails(c)
  \/ CallSpawn(c) \/ CallSpawnFails(c) \/ CallEnters(c) \/ CallLock(c)
  \/ CallInitOk(c) \/ CallInitErr(c) \/ CallRunDone(c)

ProcSteps(c) == ProcWorks(c) \/ ProcPauses(c) \/ ProcSyncs(c) \/ ProcCompletes(c)

TaskSteps(c) ==
  \/ TaskBegins(c) \/ TaskInitUnwritten(c) \/ TaskInitOk(c) \/ TaskInitErr(c)
  \/ TaskKilled(c) \/ TaskRunAnswer(c) \/ TaskSeesExit(c) \/ TaskEnds(c)
  \/ TaskReadsStatus(c) \/ TaskDeletes(c) \/ TaskRemoves(c)
  \/ TaskChecksEmpty(c) \/ TaskAllowsSleep(c)

EnsureSteps(e) ==
  \/ EnsureCheck(e) \/ EnsurePrepare(e) \/ EnsurePrepareFails(e)
  \/ EnsureSync(e) \/ EnsureSyncFails(e) \/ EnsureReopens(e)

Next ==
  \/ \E c \in Calls : CallSteps(c) \/ ProcSteps(c) \/ ProcDies(c) \/ TaskSteps(c)
  \/ \E e \in Ensures : EnsureSteps(e)
  \/ \E i \in Imports : CancelImport(i)
  \/ QuitAnyway
  \/ AppStops

Spec == Init /\ [][Next]_vars

\* The runtime runs its tasks, and a worker that lives gets on with its work
\* (PipelineRunner's RunEnds).
FairSpec ==
  /\ Spec
  /\ \A c \in Calls :
       /\ WF_vars(CallSteps(c) /\ callPc[c] # "idle")
       /\ WF_vars(ProcSteps(c))
       /\ WF_vars(TaskSteps(c))

-----------------------------------------------------------------------------
(* What should be true of it.                                              *)

\* A worker process can always be stopped once its spawning is over: its kill
\* sender is in the map, or the worker has been told to stop already, however
\* starts, failed initialisations and cleanups of the same import overlap and
\* take each other's key.
NoOrphanWorker ==
  \A c \in Calls :
    Live(c) /\ callPc[c] # "enter" => children[ImportOf[c]] = c \/ c \in told

\* The machine is kept awake for work only: there is a worker task that will
\* yet look whether it was the last one, or a worker whose task is to begin.
AwakeForWork ==
  awake => \E c \in Calls : callPc[c] = "lock" \/ taskPc[c] \notin {"none", "done"}

\* Completed imports are fully synced to main (the comment in
\* run_worker_task), before their file is dropped.
CompletedIsSynced ==
  \A i \in Imports : status[i] = "completed" => published[i]

\* The rows of an import that is neither completed nor cancelled are not lost,
\* short of quitting while it runs.
RowsKept ==
  [][\A i \in Imports :
       status[i] = "open" /\ db[i] = "rows" /\ db'[i] # "rows" => app = "quitting"]_vars

\* "Quitting now will cancel it. You can resume it later." (the exit dialog)
ResumableAfterQuit ==
  [][\A i \in Imports :
       app = "quitting" /\ status[i] = "open" /\ db[i] = "rows" => db'[i] = "rows"]_vars

\* A start is answered, with Ok or an error, whatever happens to its worker.
StartsAnswered ==
  \A c \in Calls : callPc[c] = "prepare" ~> callPc[c] \in {"ok", "err", "gone"}

\* A worker that was told to stop does not live on.
ToldWorkersDie ==
  \A c \in Calls : c \in told /\ Live(c) ~> ~Live(c)
=============================================================================
