-------------------------- MODULE WorkerHostProofs --------------------------
(***************************************************************************)
(* Theorems about WorkerHost, for any number of imports, calls, rebuilds   *)
(* and stops of the application.  Those about workers hold however the     *)
(* calls overlap, those about an import's rows for one call at a time, as  *)
(* the windows issue them.                                                 *)
(***************************************************************************)
EXTENDS WorkerHost, TLAPS

USE CallsAssumption
USE DEF mainVars, fileVars, hostVars, callVars, taskVars, appVars

-----------------------------------------------------------------------------
(* The state keeps its shape.                                              *)

LEMMA TypeInit == Init => TypeOK
<1> SUFFICES ASSUME Init PROVE TypeOK OBVIOUS
<1>1. published \in [Imports -> BOOLEAN]
  BY Zenon DEF Init
<1>2. /\ callPc \in [Calls -> CallPcs] /\ runAnswer \in [Calls -> {"none", "ok", "err"}]
      /\ taskPc \in [Calls -> TaskPcs] /\ proc \in [Calls -> ProcStates]
      /\ ensurePc \in [Ensures -> EnsurePcs]
  BY DEF Init, CallPcs, TaskPcs, EnsurePcs, ProcStates
<1>3. /\ status \in [Imports -> {"open", "completed", "deleted"}]
      /\ db \in [Imports -> {"none", "bare", "rows"}]
      /\ children \in [Imports -> Calls \cup {NoCall}]
      /\ exits \in 0..MaxExits
  BY DEF Init
<1>4. QED BY <1>1, <1>2, <1>3 DEF Init, TypeOK

LEMMA TypeCalls ==
  ASSUME TypeOK, NEW c \in Calls, CallSteps(c)
  PROVE  TypeOK'
<1>0. ImportOf[c] \in Imports OBVIOUS
<1>1. CASE CallCheck(c)
  BY <1>1 DEF CallCheck, TypeOK, CallPcs
<1>2. CASE CallPrepare(c) \/ CallPrepareFails(c)
  BY <1>0, <1>2 DEF CallPrepare, CallPrepareFails, Prepared, TypeOK, CallPcs
<1>3. CASE CallSpawn(c)
  BY <1>3 DEF CallSpawn, TypeOK, CallPcs, ProcStates
<1>10. CASE CallEnters(c)
  BY <1>0, <1>10 DEF CallEnters, Dropped, TypeOK, CallPcs
<1>4. CASE CallSpawnFails(c)
  BY <1>4 DEF CallSpawnFails, TypeOK, CallPcs
<1>5. CASE CallLock(c)
  BY <1>5 DEF CallLock, TypeOK, CallPcs, TaskPcs
<1>6. CASE CallInitOk(c)
  BY <1>6 DEF CallInitOk, TypeOK, CallPcs
<1>7. CASE CallInitErr(c)
  BY <1>0, <1>7 DEF CallInitErr, Dropped, TypeOK, CallPcs
<1>8. CASE CallRunDone(c)
  <2>1. runAnswer[c] \in CallPcs
    BY <1>8 DEF CallRunDone, TypeOK, CallPcs
  <2>2. QED BY <1>8, <2>1 DEF CallRunDone, TypeOK
<1>9. QED
  BY <1>1, <1>2, <1>3, <1>4, <1>5, <1>6, <1>7, <1>8, <1>10 DEF CallSteps

LEMMA TypeProcs ==
  ASSUME TypeOK, NEW c \in Calls, ProcSteps(c) \/ ProcDies(c)
  PROVE  TypeOK'
<1>0. ImportOf[c] \in Imports OBVIOUS
<1>1. CASE ProcWorks(c)
  <2>1. published' \in [Imports -> BOOLEAN]
    BY <1>0, <1>1, Zenon DEF ProcWorks, TypeOK
  <2>2. proc' \in [Calls -> ProcStates] /\ db' \in [Imports -> {"none", "bare", "rows"}]
    BY <1>0, <1>1 DEF ProcWorks, TypeOK, ProcStates
  <2>3. QED BY <1>1, <2>1, <2>2 DEF ProcWorks, TypeOK
<1>2. CASE ProcPauses(c)
  BY <1>2 DEF ProcPauses, TypeOK, ProcStates
<1>3. CASE ProcSyncs(c)
  <2>1. published' \in [Imports -> BOOLEAN]
    <3>1. (published[ImportOf[c]] \/ c \in attached) \in BOOLEAN
      BY Zenon
    <3>2. QED BY <1>0, <1>3, <3>1, Zenon DEF ProcSyncs, SyncedOutput, TypeOK
  <2>2. QED BY <1>3, <2>1 DEF ProcSyncs, TypeOK, ProcStates
<1>4. CASE ProcCompletes(c)
  BY <1>0, <1>4 DEF ProcCompletes, TypeOK, ProcStates
<1>5. CASE ProcDies(c)
  BY <1>5 DEF ProcDies, TypeOK, ProcStates
<1>6. QED BY <1>1, <1>2, <1>3, <1>4, <1>5 DEF ProcSteps

LEMMA TypeTasks ==
  ASSUME TypeOK, NEW c \in Calls, TaskSteps(c)
  PROVE  TypeOK'
<1>0. ImportOf[c] \in Imports OBVIOUS
<1>1. CASE TaskBegins(c)
  BY <1>1 DEF TaskBegins, TypeOK, TaskPcs
<1>2. CASE TaskInitUnwritten(c)
  BY <1>2 DEF TaskInitUnwritten, TypeOK, TaskPcs, CallPcs
<1>3. CASE TaskInitOk(c)
  BY <1>0, <1>3 DEF TaskInitOk, Prepared, TypeOK, TaskPcs, CallPcs, ProcStates
<1>4. CASE TaskInitErr(c)
  BY <1>4 DEF TaskInitErr, TypeOK, TaskPcs, CallPcs, ProcStates
<1>5. CASE TaskKilled(c)
  BY <1>5 DEF TaskKilled, TypeOK, TaskPcs, ProcStates
<1>6. CASE TaskRunAnswer(c)
  BY <1>6 DEF TaskRunAnswer, RunDone, TypeOK, TaskPcs, ProcStates
<1>7. CASE TaskSeesExit(c)
  BY <1>7 DEF TaskSeesExit, TypeOK, TaskPcs
<1>8. CASE TaskEnds(c)
  BY <1>8 DEF TaskEnds, RunDone, TypeOK, TaskPcs, CallPcs
<1>9. CASE TaskReadsStatus(c)
  BY <1>9 DEF TaskReadsStatus, TypeOK, TaskPcs
<1>10. CASE TaskDeletes(c)
  BY <1>0, <1>10 DEF TaskDeletes, TypeOK, TaskPcs
<1>11. CASE TaskRemoves(c)
  BY <1>0, <1>11 DEF TaskRemoves, Dropped, TypeOK, TaskPcs
<1>12. CASE TaskChecksEmpty(c)
  BY <1>12 DEF TaskChecksEmpty, TypeOK, TaskPcs
<1>13. CASE TaskAllowsSleep(c)
  BY <1>13 DEF TaskAllowsSleep, TypeOK, TaskPcs
<1>14. QED
  BY <1>1, <1>2, <1>3, <1>4, <1>5, <1>6, <1>7, <1>8, <1>9, <1>10, <1>11, <1>12, <1>13
  DEF TaskSteps

LEMMA TypeEnsures ==
  ASSUME TypeOK, NEW e \in Ensures, EnsureSteps(e)
  PROVE  TypeOK'
<1>0. ImportOf[e] \in Imports OBVIOUS
<1>1. CASE EnsureCheck(e)
  BY <1>1 DEF EnsureCheck, TypeOK, EnsurePcs
<1>2. CASE EnsurePrepare(e) \/ EnsurePrepareFails(e)
  BY <1>0, <1>2 DEF EnsurePrepare, EnsurePrepareFails, Prepared, TypeOK, EnsurePcs
<1>3. CASE EnsureSync(e)
  BY <1>0, <1>3 DEF EnsureSync, TypeOK, EnsurePcs
<1>4. CASE EnsureSyncFails(e)
  BY <1>0, <1>4 DEF EnsureSyncFails, Cleared, TypeOK, EnsurePcs
<1>5. CASE EnsureReopens(e)
  BY <1>0, <1>5 DEF EnsureReopens, TypeOK, EnsurePcs
<1>6. QED BY <1>1, <1>2, <1>3, <1>4, <1>5 DEF EnsureSteps

LEMMA TypeApp ==
  ASSUME TypeOK, (\E i \in Imports : CancelImport(i)) \/ QuitAnyway \/ AppStops
  PROVE  TypeOK'
<1>1. ASSUME NEW i \in Imports, CancelImport(i) PROVE TypeOK'
  BY <1>1 DEF CancelImport, Sent, TypeOK
<1>2. CASE QuitAnyway
  BY <1>2 DEF QuitAnyway, Sent, TypeOK
<1>3. CASE AppStops
  <2>1. /\ callPc' \in [Calls -> CallPcs] /\ runAnswer' \in [Calls -> {"none", "ok", "err"}]
        /\ taskPc' \in [Calls -> TaskPcs] /\ proc' \in [Calls -> ProcStates]
        /\ ensurePc' \in [Ensures -> EnsurePcs]
    BY <1>3 DEF AppStops, TypeOK, CallPcs, TaskPcs, EnsurePcs, ProcStates
  <2>2. children' \in [Imports -> Calls \cup {NoCall}] /\ exits' \in 0..MaxExits
    BY <1>3 DEF AppStops, TypeOK
  <2>3. QED BY <1>3, <2>1, <2>2 DEF AppStops, TypeOK
<1>4. QED BY <1>1, <1>2, <1>3

\* The host's state keeps its shape.
THEOREM TypeCorrect == Spec => []TypeOK
<1>1. TypeOK /\ [Next]_vars => TypeOK'
  <2>1. TypeOK /\ UNCHANGED vars => TypeOK'
    BY DEF vars, TypeOK
  <2>2. QED
    BY <2>1, TypeCalls, TypeProcs, TypeTasks, TypeEnsures, TypeApp DEF Next
<1>2. QED BY <1>1, TypeInit, PTL DEF Spec

-----------------------------------------------------------------------------
(* The wake lock.                                                          *)

\* A worker task begins when its call is past the lock.
TasksFollowCalls ==
  \A c \in Calls :
    callPc[c] \in {"idle", "prepare", "spawn", "enter", "lock"} => taskPc[c] = "none"

\* The task of a worker has yet to remove its import's key.
Tended(c) ==
  \/ callPc[c] = "lock"
  \/ taskPc[c] \in {"new", "serve", "work", "end", "status", "delete", "remove"}

\* A key in the map is that of a worker whose task has yet to remove it.
KeysAreTended ==
  \A i \in Imports : children[i] # NoCall => ImportOf[children[i]] = i /\ Tended(children[i])

WakeInv == TypeOK /\ TasksFollowCalls /\ KeysAreTended /\ AwakeForWork

LEMMA WakeInit == Init => TasksFollowCalls /\ KeysAreTended /\ AwakeForWork
  BY DEF Init, TasksFollowCalls, KeysAreTended, AwakeForWork

LEMMA WakeCalls ==
  ASSUME WakeInv, NEW c \in Calls, CallSteps(c)
  PROVE  TasksFollowCalls' /\ KeysAreTended' /\ AwakeForWork'
<1> USE DEF WakeInv
<1>0. ImportOf[c] \in Imports /\ c # NoCall
  OBVIOUS
<1>1. TasksFollowCalls'
  BY DEF TypeOK, TasksFollowCalls, CallSteps, CallCheck, CallPrepare, CallPrepareFails,
         CallSpawn, CallSpawnFails, CallEnters, CallLock, CallInitOk, CallInitErr, CallRunDone
<1>2. KeysAreTended'
  <2>1. CASE CallEnters(c)
    BY <1>0, <2>1 DEF CallEnters, TypeOK, KeysAreTended, Tended
  <2>2. CASE CallInitErr(c)
    BY <1>0, <2>2 DEF CallInitErr, TypeOK, KeysAreTended, Tended
  <2>3. CASE CallLock(c)
    BY <1>0, <2>3 DEF CallLock, TypeOK, KeysAreTended, Tended
  <2>4. QED
    BY <2>1, <2>2, <2>3
    DEF TypeOK, KeysAreTended, Tended, CallSteps, CallCheck, CallPrepare, CallPrepareFails,
        CallSpawn, CallSpawnFails, CallInitOk, CallRunDone
<1>3. AwakeForWork'
  <2>1. CASE CallLock(c)
    BY <2>1 DEF CallLock, TypeOK, AwakeForWork
  <2>2. QED
    BY <2>1
    DEF TypeOK, AwakeForWork, CallSteps, CallCheck, CallPrepare, CallPrepareFails, CallSpawn,
        CallSpawnFails, CallEnters, CallInitOk, CallInitErr, CallRunDone
<1>4. QED BY <1>1, <1>2, <1>3

LEMMA WakeTasks ==
  ASSUME WakeInv, NEW c \in Calls, TaskSteps(c)
  PROVE  TasksFollowCalls' /\ KeysAreTended' /\ AwakeForWork'
<1> USE DEF WakeInv
<1>0. ImportOf[c] \in Imports /\ c # NoCall
  OBVIOUS
<1>1. callPc[c] \notin {"idle", "prepare", "spawn", "enter", "lock"}
  BY DEF TasksFollowCalls, TaskSteps, TaskBegins, TaskInitUnwritten, TaskInitOk, TaskInitErr,
         TaskKilled, TaskRunAnswer, TaskSeesExit, TaskEnds, TaskReadsStatus, TaskDeletes,
         TaskRemoves, TaskChecksEmpty, TaskAllowsSleep
<1>2. /\ \A d \in Calls \ {c} : callPc'[d] = callPc[d] /\ taskPc'[d] = taskPc[d]
      /\ callPc'[c] \notin {"idle", "prepare", "spawn", "enter", "lock"}
  BY <1>1
  DEF TypeOK, TaskSteps, TaskBegins, TaskInitUnwritten, TaskInitOk, TaskInitErr,
      TaskKilled, TaskRunAnswer, TaskSeesExit, TaskEnds, TaskReadsStatus, TaskDeletes,
      TaskRemoves, TaskChecksEmpty, TaskAllowsSleep
<1>3. TasksFollowCalls'
  BY <1>2 DEF TasksFollowCalls
<1>4. CASE TaskRemoves(c)
  <2>1. KeysAreTended'
    BY <1>0, <1>4 DEF TaskRemoves, TypeOK, KeysAreTended, Tended
  <2>2. AwakeForWork'
    BY <1>4 DEF TaskRemoves, TypeOK, AwakeForWork
  <2>3. QED BY <1>3, <2>1, <2>2
<1>5. CASE TaskChecksEmpty(c)
  <2>1. KeysAreTended'
    BY <1>0, <1>1, <1>5 DEF TaskChecksEmpty, TypeOK, KeysAreTended, Tended
  <2>2. CASE NobodyRuns
    <3>1. taskPc' = [taskPc EXCEPT ![c] = "sleep"]
      BY <1>5, <2>2 DEF TaskChecksEmpty
    <3>2. taskPc'[c] = "sleep"
      BY <3>1 DEF TypeOK
    <3>3. QED BY <1>3, <2>1, <3>2 DEF AwakeForWork
  <2>3. CASE ~NobodyRuns
    <3>1. PICK i \in Imports : children[i] # NoCall
      BY <2>3 DEF NobodyRuns
    <3>2. children[i] \in Calls \ {c} /\ Tended(children[i])
      BY <1>1, <1>5, <3>1 DEF TypeOK, KeysAreTended, Tended, TaskChecksEmpty
    <3>3. QED BY <1>2, <1>3, <2>1, <3>2 DEF Tended, AwakeForWork
  <2>4. QED BY <1>3, <2>1, <2>2, <2>3
<1>6. CASE TaskAllowsSleep(c)
  BY <1>0, <1>1, <1>3, <1>6 DEF TaskAllowsSleep, TypeOK, KeysAreTended, Tended, AwakeForWork
<1>7. CASE /\ UNCHANGED <<children, awake>>
           /\ taskPc[c] \in {"new", "serve", "work", "end", "status", "delete"}
           /\ taskPc'[c] \in {"serve", "work", "end", "status", "delete", "remove"}
  BY <1>1, <1>2, <1>3, <1>7 DEF TypeOK, KeysAreTended, Tended, AwakeForWork
<1>8. QED
  BY <1>4, <1>5, <1>6, <1>7
  DEF TypeOK, TaskSteps, TaskBegins, TaskInitUnwritten, TaskInitOk, TaskInitErr,
      TaskKilled, TaskRunAnswer, TaskSeesExit, TaskEnds, TaskReadsStatus, TaskDeletes

LEMMA WakeRest ==
  ASSUME WakeInv,
         \/ \E c \in Calls : ProcSteps(c) \/ ProcDies(c)
         \/ \E e \in Ensures : EnsureSteps(e)
         \/ \E i \in Imports : CancelImport(i)
         \/ QuitAnyway \/ AppStops \/ UNCHANGED vars
  PROVE  TasksFollowCalls' /\ KeysAreTended' /\ AwakeForWork'
<1> USE DEF WakeInv, TasksFollowCalls, KeysAreTended, Tended, AwakeForWork
<1>1. CASE UNCHANGED <<children, awake, callPc, taskPc>>
  BY <1>1
<1>2. ASSUME NEW c \in Calls, ProcSteps(c) \/ ProcDies(c)
      PROVE  UNCHANGED <<children, awake, callPc, taskPc>>
  BY <1>2 DEF ProcSteps, ProcWorks, ProcPauses, ProcSyncs, ProcCompletes, ProcDies
<1>3. ASSUME NEW e \in Ensures, EnsureSteps(e)
      PROVE  UNCHANGED <<children, awake, callPc, taskPc>>
  BY <1>3 DEF EnsureSteps, EnsureCheck, EnsurePrepare, EnsurePrepareFails, EnsureSync,
              EnsureSyncFails, EnsureReopens
<1>4. ASSUME NEW i \in Imports, CancelImport(i)
      PROVE  TasksFollowCalls' /\ KeysAreTended' /\ AwakeForWork'
  BY <1>4 DEF CancelImport, TypeOK
<1>5. CASE QuitAnyway
  BY <1>5 DEF QuitAnyway
<1>6. CASE AppStops
  BY <1>6 DEF AppStops
<1>7. CASE UNCHANGED vars
  BY <1>1, <1>7 DEF vars
<1>8. QED BY <1>1, <1>2, <1>3, <1>4, <1>5, <1>6, <1>7

LEMMA KeysTended == Spec => [](TasksFollowCalls /\ KeysAreTended /\ AwakeForWork)
<1>1. WakeInv /\ [Next]_vars => TasksFollowCalls' /\ KeysAreTended' /\ AwakeForWork'
  BY WakeCalls, WakeTasks, WakeRest DEF Next
<1>2. QED BY <1>1, WakeInit, TypeCorrect, PTL DEF Spec, WakeInv

\* finalize_worker lets the machine sleep only after the last worker, and the
\* last worker's task always gets there.
THEOREM SleepsWhenIdle == Spec => []AwakeForWork
BY KeysTended, PTL

-----------------------------------------------------------------------------
(* No worker without a way to stop it.                                     *)

\* Every write to the map of kill senders tells the worker whose sender it
\* replaces or removes.
LEMMA SendersKept ==
  ASSUME TypeOK, [Next]_vars, ~AppStops,
         NEW c \in Calls, children[ImportOf[c]] = c \/ c \in told
  PROVE  (children[ImportOf[c]] = c \/ c \in told)'
<1>0. c # NoCall /\ ImportOf[c] \in Imports
  OBVIOUS
<1>1. CASE UNCHANGED <<children, told>>
  BY <1>1
<1>2. ASSUME NEW i \in Imports, NEW x, children' = [children EXCEPT ![i] = x],
             told' = told \cup Dropped(i)
      PROVE  (children[ImportOf[c]] = c \/ c \in told)'
  BY <1>0, <1>2 DEF TypeOK, Dropped
<1>3. CASE QuitAnyway
  BY <1>0, <1>3 DEF QuitAnyway, Sent
<1>4. ASSUME NEW d \in Calls, CallSteps(d)
      PROVE  (children[ImportOf[c]] = c \/ c \in told)'
  <2>1. CASE CallEnters(d)
    BY <1>2, <2>1 DEF CallEnters
  <2>2. CASE CallInitErr(d)
    BY <1>2, <2>2 DEF CallInitErr
  <2>3. CASE UNCHANGED <<children, told>>
    BY <1>1, <2>3
  <2>4. QED
    BY <1>4, <2>1, <2>2, <2>3
    DEF CallSteps, CallCheck, CallPrepare, CallPrepareFails, CallSpawn, CallSpawnFails,
        CallLock, CallInitOk, CallRunDone
<1>5. ASSUME NEW d \in Calls, TaskSteps(d)
      PROVE  (children[ImportOf[c]] = c \/ c \in told)'
  <2>1. CASE TaskRemoves(d)
    BY <1>2, <2>1 DEF TaskRemoves
  <2>2. CASE UNCHANGED <<children, told>>
    BY <1>1, <2>2
  <2>3. QED
    BY <1>5, <2>1, <2>2
    DEF TaskSteps, TaskBegins, TaskInitUnwritten, TaskInitOk, TaskInitErr, TaskKilled,
        TaskRunAnswer, TaskSeesExit, TaskEnds, TaskReadsStatus, TaskDeletes,
        TaskChecksEmpty, TaskAllowsSleep
<1>6. ASSUME NEW d \in Calls, ProcSteps(d) \/ ProcDies(d)
      PROVE  UNCHANGED <<children, told>>
  BY <1>6 DEF ProcSteps, ProcWorks, ProcPauses, ProcSyncs, ProcCompletes, ProcDies
<1>7. ASSUME NEW e \in Ensures, EnsureSteps(e)
      PROVE  UNCHANGED <<children, told>>
  BY <1>7 DEF EnsureSteps, EnsureCheck, EnsurePrepare, EnsurePrepareFails, EnsureSync,
              EnsureSyncFails, EnsureReopens
<1>8. ASSUME NEW i \in Imports, CancelImport(i)
      PROVE  (children[ImportOf[c]] = c \/ c \in told)'
  BY <1>2, <1>8 DEF CancelImport, Sent, Dropped
<1>9. CASE UNCHANGED vars
  BY <1>1, <1>9 DEF vars
<1>10. QED
  BY <1>1, <1>3, <1>4, <1>5, <1>6, <1>7, <1>8, <1>9 DEF Next

Entered(c) == Live(c) /\ callPc[c] # "enter"

\* A process comes to life in CallSpawn and is entered in CallEnters.
LEMMA Spawned ==
  ASSUME TypeOK, TasksFollowCalls, [Next]_vars, NEW c \in Calls, Entered(c)'
  PROVE  Entered(c) \/ CallEnters(c)
<1>1. ASSUME NEW d \in Calls, CallSteps(d) PROVE Entered(c) \/ CallEnters(c)
  BY <1>1
  DEF TypeOK, Entered, Live, CallSteps, CallCheck, CallPrepare, CallPrepareFails, CallSpawn,
      CallSpawnFails, CallEnters, CallLock, CallInitOk, CallInitErr, CallRunDone
<1>2. ASSUME NEW d \in Calls, ProcSteps(d) \/ ProcDies(d) PROVE Entered(c)
  BY <1>2
  DEF TypeOK, Entered, Live, ProcSteps, ProcWorks, ProcPauses, ProcSyncs, ProcCompletes, ProcDies
<1>3. ASSUME NEW d \in Calls, TaskSteps(d) PROVE Entered(c)
  BY <1>3
  DEF TypeOK, TasksFollowCalls, Entered, Live, TaskSteps, TaskBegins, TaskInitUnwritten,
      TaskInitOk, TaskInitErr, TaskKilled, TaskRunAnswer, TaskSeesExit, TaskEnds,
      TaskReadsStatus, TaskDeletes, TaskRemoves, TaskChecksEmpty, TaskAllowsSleep
<1>4. ASSUME NEW e \in Ensures, EnsureSteps(e) PROVE Entered(c)
  BY <1>4 DEF Entered, Live, EnsureSteps, EnsureCheck, EnsurePrepare, EnsurePrepareFails,
              EnsureSync, EnsureSyncFails, EnsureReopens
<1>5. CASE (\E i \in Imports : CancelImport(i)) \/ QuitAnyway \/ UNCHANGED vars
  BY <1>5 DEF Entered, Live, CancelImport, QuitAnyway, vars
<1>6. CASE AppStops
  BY <1>6 DEF Entered, Live, AppStops
<1>7. QED BY <1>1, <1>2, <1>3, <1>4, <1>5, <1>6 DEF Next

\* Every worker process can be stopped, or has been told to.
THEOREM NoOrphans == Spec => []NoOrphanWorker
<1>1. Init => NoOrphanWorker
  BY DEF Init, NoOrphanWorker, Live
<1>2. ASSUME TypeOK, TasksFollowCalls, NoOrphanWorker, [Next]_vars PROVE NoOrphanWorker'
  <2>1. SUFFICES ASSUME NEW c \in Calls, Entered(c)'
                 PROVE  (children[ImportOf[c]] = c \/ c \in told)'
    BY DEF NoOrphanWorker, Entered, Live
  <2>2. ImportOf[c] \in Imports
    OBVIOUS
  <2>3. CASE CallEnters(c)
    <3>1. children' = [children EXCEPT ![ImportOf[c]] = c]
      BY <2>3 DEF CallEnters
    <3>2. QED BY <1>2, <2>2, <3>1 DEF TypeOK
  <2>4. CASE Entered(c)
    <3>1. ~AppStops
      BY <2>1 DEF AppStops, Entered, Live
    <3>2. QED BY <1>2, <2>4, <3>1, SendersKept DEF NoOrphanWorker, Entered
  <2>5. QED BY <1>2, <2>1, <2>3, <2>4, Spawned
<1>3. QED BY <1>1, <1>2, TypeCorrect, KeysTended, PTL DEF Spec

-----------------------------------------------------------------------------
(* One thing at a time: what is kept, and what is published.               *)

CallBusy(c) == callPc[c] \notin {"idle", "ok", "err", "gone"} \/ taskPc[c] \notin {"none", "done"}
EnsureBusy(e) == ensurePc[e] \in {"prepare", "sync", "ok"}

\* An import is one call's or one rebuild's at a time.
OneAtATime ==
  /\ \A c, d \in Calls : ImportOf[c] = ImportOf[d] /\ CallBusy(c) /\ CallBusy(d) => c = d
  /\ \A c \in Calls, e \in Ensures : ~(ImportOf[c] = ImportOf[e] /\ CallBusy(c) /\ EnsureBusy(e))
  /\ \A e, f \in Ensures : ImportOf[e] = ImportOf[f] /\ EnsureBusy(e) /\ EnsureBusy(f) => e = f

\* A worker lives between its spawning and the end of its task's service, and
\* its import stays its own from the init answer on.
WorkersInTurn ==
  \A c \in Calls :
    /\ callPc[c] \in {"idle", "prepare", "spawn"} => proc[c] = "none"
    /\ callPc[c] = "initErr" => taskPc[c] \notin {"none", "new", "serve", "work"}
    /\ proc[c] = "boot" => callPc[c] \in {"enter", "lock"} \/ taskPc[c] \in {"new", "serve"}
    /\ proc[c] \in {"ready", "steps", "synced", "finished"} => taskPc[c] = "work"
    /\ proc[c] \in {"ready", "steps", "synced"} => c \in attached
    /\ proc[c] = "synced" => published[ImportOf[c]]

\* Who works on an import works on one that is not complete; who rebuilds its
\* file, on one that is.
StatusFits ==
  /\ \A c \in Calls :
       callPc[c] \in {"prepare", "spawn", "enter", "lock"} \/ proc[c] \in {"boot", "ready", "steps", "synced"}
         => status[ImportOf[c]] # "completed"
  /\ \A e \in Ensures : EnsureBusy(e) => status[ImportOf[e]] = "completed"

GivenUp(c) == app = "quitting" \/ status[ImportOf[c]] = "deleted"

\* A worker is told to stop, and its file deleted, for a reason.
StopsHaveCause ==
  \A c \in Calls :
    /\ c \in told => callPc[c] \notin {"idle", "prepare", "spawn", "enter"}
    /\ c \in told /\ (callPc[c] = "lock" \/ taskPc[c] \in {"new", "serve", "work"}) => GivenUp(c)
    /\ c \in cancelled => taskPc[c] \notin {"none", "new", "serve", "work"}
    /\ c \in cancelled /\ taskPc[c] = "end" => GivenUp(c)
    /\ taskPc[c] = "delete" => GivenUp(c) \/ status[ImportOf[c]] = "completed"

\* Where the calls and rebuilds of every import stand, when they take turns.
TurnInv ==
  /\ TypeOK /\ TasksFollowCalls /\ KeysAreTended
  /\ OneAtATime /\ WorkersInTurn /\ StatusFits /\ StopsHaveCause /\ CompletedIsSynced

TurnKept == OneAtATime' /\ WorkersInTurn' /\ StatusFits' /\ StopsHaveCause' /\ CompletedIsSynced'

LEMMA TurnCalls ==
  ASSUME ~Overlapping, TurnInv, NEW c \in Calls, CallSteps(c)
  PROVE  TurnKept
<1> USE DEF TurnInv, TurnKept, TypeOK
<1>0. ImportOf[c] \in Imports /\ c # NoCall
  OBVIOUS
<1>1. OneAtATime'
  BY <1>0
  DEF OneAtATime, CallBusy, EnsureBusy, CallSteps, CallCheck, CallPrepare, CallPrepareFails,
      CallSpawn, CallSpawnFails, CallEnters, CallLock, CallInitOk, CallInitErr, CallRunDone,
      CallsOf, Settled
<1>2. WorkersInTurn'
  BY DEF WorkersInTurn, TasksFollowCalls, CallSteps, CallCheck, CallPrepare, CallPrepareFails,
         CallSpawn, CallSpawnFails, CallEnters, CallLock, CallInitOk, CallInitErr, CallRunDone
<1>3. StatusFits'
  BY <1>0
  DEF StatusFits, EnsureBusy, WorkersInTurn, TasksFollowCalls, CallSteps, CallCheck, CallPrepare,
      CallPrepareFails, CallSpawn, CallSpawnFails, CallEnters, CallLock, CallInitOk, CallInitErr,
      CallRunDone
<1>4. StopsHaveCause'
  <2> USE DEF StopsHaveCause, TasksFollowCalls, GivenUp
  <2>1. CASE CallEnters(c)
    BY <1>0, <2>1 DEF CallEnters, Dropped, KeysAreTended, Tended, OneAtATime, CallBusy
  <2>2. CASE CallInitErr(c)
    BY <1>0, <2>2
    DEF CallInitErr, Dropped, KeysAreTended, Tended, OneAtATime, CallBusy, WorkersInTurn
  <2>3. QED
    BY <2>1, <2>2
    DEF CallSteps, CallCheck, CallPrepare, CallPrepareFails, CallSpawn, CallSpawnFails,
        CallLock, CallInitOk, CallRunDone
<1>5. CompletedIsSynced'
  BY DEF CompletedIsSynced, CallSteps, CallCheck, CallPrepare, CallPrepareFails, CallSpawn,
         CallSpawnFails, CallEnters, CallLock, CallInitOk, CallInitErr, CallRunDone
<1>6. QED BY <1>1, <1>2, <1>3, <1>4, <1>5

LEMMA TurnProcs ==
  ASSUME ~Overlapping, TurnInv, NEW c \in Calls, ProcSteps(c) \/ ProcDies(c)
  PROVE  TurnKept
<1> USE DEF TurnInv, TurnKept, TypeOK
<1>0. ImportOf[c] \in Imports /\ c # NoCall
  OBVIOUS
<1>1. OneAtATime'
  BY DEF OneAtATime, CallBusy, EnsureBusy, ProcSteps, ProcWorks, ProcPauses, ProcSyncs,
         ProcCompletes, ProcDies
<1>2. WorkersInTurn'
  <2>1. CASE ProcWorks(c)
    BY <1>0, <2>1 DEF WorkersInTurn, OneAtATime, CallBusy, ProcWorks
  <2>2. CASE ProcSyncs(c)
    BY <1>0, <2>2 DEF WorkersInTurn, ProcSyncs, SyncedOutput
  <2>3. QED
    BY <2>1, <2>2 DEF WorkersInTurn, Live, ProcSteps, ProcPauses, ProcCompletes, ProcDies
<1>3. StatusFits'
  BY <1>0
  DEF OneAtATime, CallBusy, EnsureBusy, StatusFits, WorkersInTurn, TasksFollowCalls,
      ProcSteps, ProcWorks, ProcPauses, ProcSyncs, ProcCompletes, ProcDies, SyncedOutput
<1>4. StopsHaveCause'
  BY <1>0
  DEF StopsHaveCause, GivenUp, ProcSteps, ProcWorks, ProcPauses, ProcSyncs,
      ProcCompletes, ProcDies
<1>5. CompletedIsSynced'
  BY <1>0
  DEF CompletedIsSynced, WorkersInTurn, StatusFits, ProcSteps, ProcWorks, ProcPauses,
      ProcSyncs, ProcCompletes, ProcDies, SyncedOutput
<1>6. QED BY <1>1, <1>2, <1>3, <1>4, <1>5

LEMMA TurnTasks ==
  ASSUME ~Overlapping, TurnInv, NEW c \in Calls, TaskSteps(c)
  PROVE  TurnKept
<1> USE DEF TurnInv, TurnKept, TypeOK
<1>0. ImportOf[c] \in Imports /\ c # NoCall
  OBVIOUS
<1>1. OneAtATime'
  BY <1>0
  DEF OneAtATime, CallBusy, EnsureBusy, TaskSteps, TaskBegins, TaskInitUnwritten,
      TaskInitOk, TaskInitErr, TaskKilled, TaskRunAnswer, TaskSeesExit, TaskEnds,
      TaskReadsStatus, TaskDeletes, TaskRemoves, TaskChecksEmpty, TaskAllowsSleep
<1>2. WorkersInTurn'
  BY <1>0
  DEF OneAtATime, CallBusy, WorkersInTurn, TasksFollowCalls, Live, TaskSteps,
      TaskBegins, TaskInitUnwritten, TaskInitOk, TaskInitErr, TaskKilled, TaskRunAnswer,
      TaskSeesExit, TaskEnds, TaskReadsStatus, TaskDeletes, TaskRemoves,
      TaskChecksEmpty, TaskAllowsSleep, CallsOf, ExitSeen
<1>3. StatusFits'
  BY <1>0
  DEF StatusFits, EnsureBusy, WorkersInTurn, TasksFollowCalls, TaskSteps, TaskBegins, TaskInitUnwritten, TaskInitOk,
      TaskInitErr, TaskKilled, TaskRunAnswer, TaskSeesExit, TaskEnds, TaskReadsStatus,
      TaskDeletes, TaskRemoves, TaskChecksEmpty, TaskAllowsSleep
<1>4. StopsHaveCause'
  BY <1>0
  DEF StopsHaveCause, OneAtATime, CallBusy, KeysAreTended, Tended, TasksFollowCalls,
      GivenUp, TaskSteps, TaskBegins, TaskInitUnwritten, TaskInitOk, TaskInitErr,
      TaskKilled, TaskRunAnswer, TaskSeesExit, TaskEnds, TaskReadsStatus, TaskDeletes,
      TaskRemoves, TaskChecksEmpty, TaskAllowsSleep, Completed, Dropped, KillSeen
<1>5. CompletedIsSynced'
  BY <1>0
  DEF CompletedIsSynced, TaskSteps, TaskBegins, TaskInitUnwritten, TaskInitOk,
      TaskInitErr, TaskKilled, TaskRunAnswer, TaskSeesExit, TaskEnds, TaskReadsStatus,
      TaskDeletes, TaskRemoves, TaskChecksEmpty, TaskAllowsSleep
<1>6. QED BY <1>1, <1>2, <1>3, <1>4, <1>5

LEMMA TurnEnsures ==
  ASSUME ~Overlapping, TurnInv, NEW e \in Ensures, EnsureSteps(e)
  PROVE  TurnKept
<1> USE DEF TurnInv, TurnKept, TypeOK
<1>0. ImportOf[e] \in Imports
  OBVIOUS
<1>1. OneAtATime'
  BY <1>0
  DEF OneAtATime, CallBusy, EnsureBusy, EnsureSteps, EnsureCheck, EnsurePrepare, EnsurePrepareFails,
      EnsureSync, EnsureSyncFails, EnsureReopens, Cleared, CallsOf, Settled
<1>2. WorkersInTurn'
  BY <1>0
  DEF OneAtATime, CallBusy, EnsureBusy, WorkersInTurn, EnsureSteps, EnsureCheck,
      EnsurePrepare, EnsurePrepareFails, EnsureSync, EnsureSyncFails, EnsureReopens, CallsOf
<1>3. StatusFits'
  BY <1>0
  DEF OneAtATime, EnsureBusy, StatusFits, EnsureSteps, EnsureCheck, EnsurePrepare,
      EnsurePrepareFails, EnsureSync, EnsureSyncFails, EnsureReopens
<1>4. StopsHaveCause'
  BY <1>0
  DEF StopsHaveCause, OneAtATime, CallBusy, EnsureBusy, GivenUp, EnsureSteps,
      EnsureCheck, EnsurePrepare, EnsurePrepareFails, EnsureSync, EnsureSyncFails, EnsureReopens
<1>5. CompletedIsSynced'
  BY <1>0
  DEF CompletedIsSynced, EnsureSteps, EnsureCheck, EnsurePrepare, EnsurePrepareFails, EnsureSync,
      EnsureSyncFails, EnsureReopens
<1>6. QED BY <1>1, <1>2, <1>3, <1>4, <1>5

LEMMA TurnApp ==
  ASSUME TurnInv, (\E i \in Imports : CancelImport(i)) \/ QuitAnyway \/ AppStops
  PROVE  TurnKept
<1> USE DEF TurnInv, TurnKept, TypeOK, OneAtATime, CallBusy, EnsureBusy, WorkersInTurn,
        StatusFits, StopsHaveCause, GivenUp, CompletedIsSynced
<1>1. ASSUME NEW i \in Imports, CancelImport(i) PROVE TurnKept
  <2>1. OneAtATime' /\ WorkersInTurn' /\ StatusFits' /\ CompletedIsSynced'
    BY <1>1 DEF CancelImport
  <2>2. StopsHaveCause'
    BY <1>1 DEF CancelImport, Sent, KeysAreTended, Tended, TasksFollowCalls
  <2>3. QED BY <2>1, <2>2
<1>2. CASE QuitAnyway
  <2>1. OneAtATime' /\ WorkersInTurn' /\ StatusFits' /\ CompletedIsSynced'
    BY <1>2 DEF QuitAnyway
  <2>2. StopsHaveCause'
    <3>1. \A c \in told' \ told : callPc[c] \notin {"idle", "prepare", "spawn", "enter"}
      BY <1>2 DEF QuitAnyway, Sent, KeysAreTended, Tended, TasksFollowCalls
    <3>2. app' = "quitting" /\ UNCHANGED <<callPc, taskPc, cancelled, status>>
      BY <1>2 DEF QuitAnyway
    <3>3. QED BY <3>1, <3>2
  <2>3. QED BY <2>1, <2>2
<1>3. CASE AppStops
  BY <1>3 DEF AppStops
<1>4. QED BY <1>1, <1>2, <1>3

LEMMA TurnsKept ==
  ASSUME ~Overlapping
  PROVE  Spec => []TurnInv
<1>1. Init => OneAtATime /\ WorkersInTurn /\ StatusFits /\ StopsHaveCause /\ CompletedIsSynced
  BY DEF Init, OneAtATime, CallBusy, EnsureBusy, WorkersInTurn, StatusFits, StopsHaveCause,
         CompletedIsSynced
<1>2. TurnInv /\ UNCHANGED vars => TurnKept
  BY DEF TurnInv, TurnKept, TypeOK, vars, OneAtATime, CallBusy, EnsureBusy, WorkersInTurn,
         StatusFits, StopsHaveCause, GivenUp, CompletedIsSynced
<1>3. TurnInv /\ [Next]_vars => TurnKept
  BY <1>2, TurnCalls, TurnProcs, TurnTasks, TurnEnsures, TurnApp DEF Next
<1>4. Spec => [](TypeOK /\ TasksFollowCalls /\ KeysAreTended)
  BY TypeCorrect, KeysTended, PTL
<1>5. QED BY <1>1, <1>3, <1>4, PTL DEF Spec, TurnInv, TurnKept

\* While an import is one call's at a time, it is complete only when what it
\* produced is in the main database, so that its file may go.
THEOREM SyncedWhenCompleted ==
  ASSUME ~Overlapping
  PROVE  Spec => []CompletedIsSynced
BY TurnsKept, PTL DEF TurnInv

\* While an import is one call's at a time, its rows go only when it is
\* complete or given up, or the application is quitting.
THEOREM OpenRowsKept ==
  ASSUME ~Overlapping
  PROVE  Spec => RowsKept
<1> DEFINE kept == \A i \in Imports : status[i] = "open" /\ db[i] = "rows" /\ db'[i] # "rows"
                                        => app = "quitting"
<1>1. ASSUME TurnInv, [Next]_vars PROVE kept
  <2>1. SUFFICES ASSUME NEW i \in Imports, status[i] = "open", db[i] = "rows", db'[i] # "rows"
                 PROVE  app = "quitting"
    OBVIOUS
  <2> USE <1>1 DEF TurnInv, TypeOK
  <2>2. ASSUME NEW c \in Calls, CallSteps(c) PROVE db'[i] = "rows"
    BY <2>1, <2>2
    DEF CallSteps, CallCheck, CallPrepare, CallPrepareFails, Prepared, CallSpawn, CallSpawnFails,
        CallEnters, CallLock, CallInitOk, CallInitErr, CallRunDone
  <2>3. ASSUME NEW c \in Calls, ProcSteps(c) \/ ProcDies(c) PROVE db'[i] = "rows"
    BY <2>1, <2>3 DEF ProcSteps, ProcWorks, ProcPauses, ProcSyncs, ProcCompletes, ProcDies
  <2>4. ASSUME NEW c \in Calls, TaskSteps(c) PROVE app = "quitting"
    <3>1. CASE TaskDeletes(c)
      BY <2>1, <3>1 DEF TaskDeletes, StopsHaveCause, GivenUp
    <3>2. CASE ~TaskDeletes(c)
      BY <2>1, <2>4, <3>2
      DEF TaskSteps, TaskBegins, TaskInitUnwritten, TaskInitOk, TaskInitErr, TaskKilled,
          TaskRunAnswer, TaskSeesExit, TaskEnds, TaskReadsStatus, TaskRemoves,
          TaskChecksEmpty, TaskAllowsSleep, Prepared
    <3>3. QED BY <3>1, <3>2
  <2>5. ASSUME NEW e \in Ensures, EnsureSteps(e) PROVE app = "quitting"
    <3>1. CASE EnsureSyncFails(e)
      BY <2>1, <3>1 DEF EnsureSyncFails, Cleared, StatusFits, EnsureBusy
    <3>2. CASE ~EnsureSyncFails(e)
      BY <2>1, <2>5, <3>2
      DEF EnsureSteps, EnsureCheck, EnsurePrepare, EnsurePrepareFails, Prepared, EnsureSync,
          EnsureReopens
    <3>3. QED BY <3>1, <3>2
  <2>6. CASE (\E k \in Imports : CancelImport(k)) \/ QuitAnyway \/ AppStops \/ UNCHANGED vars
    BY <2>1, <2>6 DEF CancelImport, QuitAnyway, AppStops, vars
  <2>7. QED BY <2>1, <2>2, <2>3, <2>4, <2>5, <2>6 DEF Next
<1>2. QED BY <1>1, TurnsKept, PTL DEF Spec, RowsKept
=============================================================================
