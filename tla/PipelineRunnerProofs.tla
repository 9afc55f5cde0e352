------------------------ MODULE PipelineRunnerProofs ------------------------
(***************************************************************************)
(* Theorems about PipelineRunner, for every pipeline, every set of keys    *)
(* and every number of failures, faults, crashes and reselections.  In     *)
(* order: its type, who owns which row (IInv), where a run stands (WInv),  *)
(* what follows for finished phases and imports when reselections are seen *)
(* through (AInv, Published), and the gates of a run without faults.       *)
(***************************************************************************)
EXTENDS PipelineRunner, FiniteSetTheorems, SequenceTheorems, TLAPS

-----------------------------------------------------------------------------
(* The state keeps its shape.                                              *)

\* Whatever order the enumerator returns the items of a step in, it is a
\* sequence of jobs.
LEMMA OrdersAreSequences ==
  ASSUME NEW s \in FanOut, selected \subseteq Keys,
         NEW order \in Orders({<<s, k>> : k \in Enumerate(s)})
  PROVE  order \in Seq(Jobs)
<1> DEFINE items == {<<s, k>> : k \in Enumerate(s)}
<1>1. Enumerate(s) \subseteq Keys
  BY DEF Enumerate
<1>2. IsFiniteSet(Enumerate(s))
  BY <1>1, SizesAssumption, FS_Subset
<1>3. IsFiniteSet(items)
  <2> DEFINE pair == [k \in Enumerate(s) |-> <<s, k>>]
  <2>1. pair \in Surjection(Enumerate(s), items)
    BY DEF Surjection
  <2> HIDE DEF pair, items
  <2> QED BY <1>2, <2>1, FS_Surjection
<1>4. Cardinality(items) \in Nat
  BY <1>3, FS_CardinalityType
<1>5. items \subseteq Jobs
  BY <1>1, StepsAssumption DEF Jobs
<1>6. order \in [1..Cardinality(items) -> items]
  BY DEF Orders
<1> HIDE DEF items
<1> QED BY <1>4, <1>5, <1>6

USE DEF mainVars, userVars, rowVars, runVars, dagVars, jobVars

LEMMA NoAdvanceType == NoAdvance \in [AdvancePcs -> Nat]
  BY DEF NoAdvance

LEMMA SpendType ==
  ASSUME TypeOK, NEW b \in Bounds, NEW n \in Nat, Spend(b, n)
  PROVE  spent' \in [Bounds -> Nat]
  BY DEF TypeOK, Spend

LEMMA InitTypeOK == Init => TypeOK
<1> SUFFICES ASSUME Init PROVE TypeOK
  OBVIOUS
<1>1. adv \in [AdvancePcs -> Nat] /\ spent \in [Bounds -> Nat]
  BY NoAdvanceType DEF Init
<1>2. imp \in ImportStatuses /\ runPc \in RunPcs
  BY DEF Init, ImportStatuses, RunPcs
<1>3. parent \in [Steps -> RowStatuses] /\ child \in [Items -> RowStatuses]
  BY DEF Init, RowStatuses
<1>5. selected \subseteq Keys
  BY SizesAssumption DEF Init
<1>4. stepPc \in [Steps -> StepPcs] /\ job \in [Jobs -> JobPcs] /\ queue \in Seq(Jobs)
  BY DEF Init, StepPcs, JobPcs
<1> QED BY <1>1, <1>2, <1>3, <1>4, <1>5 DEF Init, TypeOK

LEMMA UserTypeOK == TypeOK /\ User => TypeOK'
<1> SUFFICES ASSUME TypeOK, User PROVE TypeOK'
  OBVIOUS
<1>1. CASE Start
  <2>1. retryFailed' \in BOOLEAN /\ runPc' \in RunPcs
    BY <1>1 DEF Start, RunPcs
  <2> QED BY <1>1, <2>1 DEF TypeOK, Start
<1>2. CASE ConfirmProjection \/ KeepSelection
  BY <1>2 DEF TypeOK, ConfirmProjection, KeepSelection, ImportStatuses
<1>3. CASE ChangeSelection \/ CloseWindow \/ ConfirmSelection
  BY <1>3, SizesAssumption
     DEF TypeOK, ChangeSelection, CloseWindow, ConfirmSelection, ImportStatuses
<1>4. CASE Reselect
  <2>1. spent' \in [Bounds -> Nat]
    BY <1>4, SpendType, SizesAssumption DEF Reselect, Bounds
  <2> QED BY <1>4, <2>1 DEF TypeOK, Reselect, ImportStatuses
<1> QED BY <1>1, <1>2, <1>3, <1>4 DEF User

\* The steps of runImport and of the finalization.
LEMMA RunTypeOK ==
  ASSUME TypeOK
  PROVE  /\ Seed \/ ResetArc \/ PickPhase \/ EnterPhase \/ AfterDag \/ OpenGate => TypeOK'
         /\ FinalizeRows \/ FinalizeSync \/ FinalizeStatus \/ FinalizeBook => TypeOK'
         /\ RunThrows => TypeOK'
         /\ ForgetRun /\ (UNCHANGED spent \/ Spend("crashes", MaxCrashes)) => TypeOK'
<1>1. Seed => TypeOK'
  BY DEF TypeOK, Seed, RunPcs, RowStatuses
<1>2. ResetArc => TypeOK'
  BY DEF TypeOK, ResetArc, RunPcs, RowStatuses
<1>3. ASSUME PickPhase PROVE TypeOK'
  <2>1. adv' \in [AdvancePcs -> Nat]
    BY <1>3, NoAdvanceType DEF PickPhase
  <2>2. phase' \in {"projection", "extract", "arc"} /\ runPc' \in RunPcs
    BY <1>3 DEF TypeOK, PickPhase, FirstUnfinished, RunPcs
  <2> QED BY <1>3, <2>1, <2>2 DEF TypeOK, PickPhase
<1>4. EnterPhase => TypeOK'
  BY DEF TypeOK, EnterPhase, PhaseStatus, RunPcs, ImportStatuses, AdvancePcs
<1>5. AfterDag => TypeOK'
  BY DEF TypeOK, AfterDag, NextAfterDag, NextAfterDone, RunPcs
<1>6. OpenGate => TypeOK'
  BY DEF TypeOK, OpenGate, RunPcs, ImportStatuses
<1>7. FinalizeRows \/ FinalizeStatus \/ FinalizeBook => TypeOK'
  BY DEF TypeOK, FinalizeRows, FinalizeStatus, FinalizeBook, RunPcs, ImportStatuses
<1>8. FinalizeSync => TypeOK'
  <2>1. Outputs \subseteq Jobs
    BY StepsAssumption DEF Outputs, Jobs, Items
  <2> QED BY <2>1 DEF TypeOK, FinalizeSync, RunPcs
<1>9. RunThrows => TypeOK'
  <2> SUFFICES ASSUME RunThrows PROVE TypeOK'
    OBVIOUS
  <2>1. spent' \in [Bounds -> Nat]
    BY SpendType, SizesAssumption DEF RunThrows, Bounds
  <2> QED BY <2>1 DEF TypeOK, RunThrows, RunPcs
<1>10. ASSUME ForgetRun, UNCHANGED spent \/ Spend("crashes", MaxCrashes)
       PROVE  TypeOK'
  <2>1. adv' \in [AdvancePcs -> Nat] /\ spent' \in [Bounds -> Nat]
    BY <1>10, NoAdvanceType, SpendType, SizesAssumption DEF TypeOK, ForgetRun, Bounds
  <2>2. /\ stepPc' \in [Steps -> StepPcs] /\ job' \in [Jobs -> JobPcs]
        /\ queue' \in Seq(Jobs)
    BY <1>10 DEF ForgetRun, StepPcs, JobPcs
  <2> QED BY <1>10, <2>1, <2>2 DEF TypeOK, ForgetRun, RunPcs
<1> QED
  BY <1>1, <1>2, <1>3, <1>4, <1>5, <1>6, <1>7, <1>8, <1>9, <1>10

LEMMA AdvanceTypeOK ==
  TypeOK /\ (AdvanceReadImport \/ AdvanceHalt \/ AdvanceDispatch) => TypeOK'
<1>1. TypeOK /\ AdvanceReadImport => TypeOK'
  BY DEF TypeOK, AdvanceReadImport, AdvancePcs
<1>2. TypeOK /\ AdvanceHalt => TypeOK'
  BY DEF TypeOK, AdvanceHalt, AdvancePcs
<1>3. TypeOK /\ AdvanceDispatch => TypeOK'
  <2>1. Fresh \subseteq Steps
    BY StepsAssumption DEF Fresh, ReadySteps, PhaseSteps
  <2> QED BY <2>1 DEF TypeOK, AdvanceDispatch, StepPcs, AdvancePcs
<1> QED BY <1>1, <1>2, <1>3

LEMMA StepTypeOK ==
  ASSUME TypeOK, NEW s \in Steps, StepRuns(s)
  PROVE  TypeOK'
<1>1. CASE BeginSimple(s)
  <2>1. <<s, NoKey>> \in Jobs
    BY DEF Jobs
  <2>2. queue' \in Seq(Jobs) /\ job' \in [Jobs -> JobPcs]
    <3>1. Append(queue, <<s, NoKey>>) \in Seq(Jobs)
      BY <2>1, AppendProperties DEF TypeOK
    <3>2. queue' \in Seq(Jobs)
      BY <1>1, <3>1 DEF TypeOK, BeginSimple
    <3>3. job' \in [Jobs -> JobPcs]
      BY <1>1, <2>1 DEF TypeOK, BeginSimple, JobPcs
    <3> QED BY <3>2, <3>3
  <2>3. /\ stepPc' \in [Steps -> StepPcs]
        /\ parent' \in [Steps -> RowStatuses]
    BY <1>1 DEF TypeOK, BeginSimple, StepPcs, RowStatuses
  <2> QED BY <1>1, <2>2, <2>3 DEF TypeOK, BeginSimple
<1>2. CASE BeginFanOut(s)
  <2> DEFINE items == {<<s, k>> : k \in Enumerate(s)}
  <2>1. queue' \in Seq(Jobs)
    <3>1. CASE UNCHANGED queue
      BY <3>1 DEF TypeOK
    <3>2. CASE \E order \in Orders(items) : queue' = queue \o order
      <4>1. PICK order \in Orders(items) : queue' = queue \o order
        BY <3>2
      <4>2. order \in Seq(Jobs)
        BY <1>2, OrdersAreSequences DEF TypeOK, BeginFanOut
      <4> QED BY <4>1, <4>2 DEF TypeOK
    <3> QED BY <1>2, <3>1, <3>2 DEF BeginFanOut
  <2>2. stepPc' \in [Steps -> StepPcs] /\ parent' \in [Steps -> RowStatuses]
    BY <1>2 DEF TypeOK, BeginFanOut, StepPcs, RowStatuses
  <2>3. child' \in [Items -> RowStatuses]
    BY <1>2 DEF TypeOK, BeginFanOut, RowStatuses
  <2>4. job' \in [Jobs -> JobPcs]
    BY <1>2 DEF TypeOK, BeginFanOut, JobPcs
  <2> QED BY <1>2, <2>1, <2>2, <2>3, <2>4 DEF TypeOK, BeginFanOut
<1>3. CASE BeginThrows(s) \/ ReportStepThrows(s)
  <2>1. spent' \in [Bounds -> Nat]
    BY <1>3, SpendType, SizesAssumption DEF BeginThrows, ReportStepThrows, Bounds
  <2> QED BY <1>3, <2>1 DEF TypeOK, BeginThrows, ReportStepThrows, StepPcs
<1>4. CASE SettleStep(s)
  BY <1>4 DEF TypeOK, SettleStep, StepPcs, RowStatuses
<1>5. CASE ReportStep(s)
  BY <1>5 DEF TypeOK, ReportStep, StatusAfterFailure, StepPcs, ImportStatuses
<1>6. CASE ReturnStep(s)
  BY <1>6 DEF TypeOK, ReturnStep, StepPcs, JobPcs, AdvancePcs
<1> QED BY <1>1, <1>2, <1>3, <1>4, <1>5, <1>6 DEF StepRuns

LEMMA JobTypeOK ==
  TypeOK /\ (StartJob \/ \E j \in Jobs : JobRuns(j)) => TypeOK'
<1>1. TypeOK /\ StartJob => TypeOK'
  <2> SUFFICES ASSUME TypeOK, StartJob PROVE TypeOK'
    OBVIOUS
  <2>1. Tail(queue) \in Seq(Jobs) /\ Head(queue) \in Jobs
    BY HeadTailProperties DEF TypeOK, StartJob
  <2> QED BY <2>1 DEF TypeOK, StartJob, JobPcs, RowStatuses
<1>2. ASSUME TypeOK, NEW j \in Jobs, JobRuns(j) PROVE TypeOK'
  <2>1. CASE JobSucceeds(j)
    BY <1>2, <2>1 DEF TypeOK, JobSucceeds, JobPcs, RowStatuses
  <2>2. CASE JobFails(j)
    <3>1. spent' \in [Bounds -> Nat]
      BY <1>2, <2>2, SpendType, SizesAssumption DEF JobFails, Bounds
    <3> QED BY <1>2, <2>2, <3>1 DEF TypeOK, JobFails, JobPcs, RowStatuses
  <2>3. CASE ReportFailure(j)
    BY <1>2, <2>3 DEF TypeOK, ReportFailure, JobPcs, RowStatuses, ImportStatuses
  <2> QED BY <1>2, <2>1, <2>2, <2>3 DEF JobRuns
<1> QED BY <1>1, <1>2

LEMMA NextTypeOK == TypeOK /\ [Next]_vars => TypeOK'
<1> SUFFICES ASSUME TypeOK, [Next]_vars PROVE TypeOK'
  OBVIOUS
<1>1. CASE User
  BY <1>1, UserTypeOK
<1>2. CASE Worker
  BY <1>2, RunTypeOK, AdvanceTypeOK, StepTypeOK, JobTypeOK DEF Worker, HostKills
<1>3. CASE Crash
  BY <1>3, RunTypeOK, SizesAssumption DEF Crash
<1>4. CASE Rest \/ UNCHANGED vars
  BY <1>4 DEF Rest, vars, TypeOK
<1> QED BY <1>1, <1>2, <1>3, <1>4 DEF Next

\* The state has its shape in every state of every import.
THEOREM TypeCorrect == Spec => []TypeOK
BY InitTypeOK, NextTypeOK, PTL DEF Spec

-----------------------------------------------------------------------------
(* The inductive invariant, and what follows from it.                      *)

\* The step rows change in Seed, ResetArc and the three actions of a step's own
\* runStep, and nowhere else.
LEMMA RowsChange ==
  ASSUME [Next]_vars
  PROVE  \/ UNCHANGED parent \/ Seed \/ ResetArc
         \/ \E t \in Steps : BeginSimple(t) \/ BeginFanOut(t) \/ SettleStep(t)
<1>1. CASE User
  BY <1>1 DEF User, Start, ConfirmProjection, ChangeSelection, CloseWindow,
         ConfirmSelection, KeepSelection, Reselect
<1>2. CASE Worker
  <2>1. CASE \E t \in Steps : StepRuns(t)
    BY <2>1 DEF StepRuns, BeginThrows, ReportStep, ReportStepThrows, ReturnStep
  <2>2. CASE StartJob \/ \E j \in Jobs : JobRuns(j)
    BY <2>2 DEF StartJob, JobRuns, JobSucceeds, JobFails, ReportFailure
  <2>3. CASE AdvanceReadImport \/ AdvanceHalt \/ AdvanceDispatch
    BY <2>3 DEF AdvanceReadImport, AdvanceHalt, AdvanceDispatch
  <2>4. CASE PickPhase \/ EnterPhase \/ AfterDag \/ OpenGate
    BY <2>4 DEF PickPhase, EnterPhase, AfterDag, OpenGate
  <2>5. CASE FinalizeRows \/ FinalizeSync \/ FinalizeStatus \/ FinalizeBook
    BY <2>5 DEF FinalizeRows, FinalizeSync, FinalizeStatus, FinalizeBook
  <2>6. CASE RunThrows \/ HostKills
    BY <2>6 DEF RunThrows, HostKills, ForgetRun
  <2> QED BY <1>2, <2>1, <2>2, <2>3, <2>4, <2>5, <2>6 DEF Worker
<1>3. CASE Crash \/ Rest \/ UNCHANGED vars
  BY <1>3 DEF Crash, ForgetRun, Rest, vars
<1> QED BY <1>1, <1>2, <1>3 DEF Next

\* What is done stays done, unless the arc phase is reopened: runStep never
\* touches the row of a finished step.
LEMMA DoneKept ==
  ASSUME IInv, [Next]_vars, ~ResetArc, NEW s \in Steps, Done(s)
  PROVE  Done(s)'
<1>1. CASE UNCHANGED parent
  BY <1>1 DEF Done
<1>2. CASE Seed
  BY <1>2 DEF Seed, Done, DoneStatuses
<1>3. ASSUME NEW t \in Steps, BeginSimple(t) \/ BeginFanOut(t) \/ SettleStep(t)
      PROVE  Done(s)'
  <2>1. parent[t] \notin DoneStatuses \/ UNCHANGED parent
    BY <1>3 DEF IInv, StepsOwnRows, BeginSimple, BeginFanOut, SettleStep, DoneStatuses
  <2>2. \A u \in Steps \ {t} : parent'[u] = parent[u]
    BY <1>3 DEF IInv, TypeOK, BeginSimple, BeginFanOut, SettleStep
  <2> QED BY <2>1, <2>2 DEF Done
<1> QED BY <1>1, <1>2, <1>3, RowsChange

\* A set of steps that is complete stays complete; one outside the arc phase
\* also when the arc phase is reopened.
LEMMA CompleteKept ==
  ASSUME IInv, [Next]_vars, NEW S \in SUBSET Steps, AllParentsComplete(S),
         ~ResetArc \/ S \cap Arc = {} \/ ~ArcReopened
  PROVE  AllParentsComplete(S)'
<1>1. CASE ~ResetArc
  BY <1>1, DoneKept DEF AllParentsComplete
<1>2. CASE ResetArc
  BY <1>2 DEF ResetArc, AllParentsComplete, Done
<1> QED BY <1>1, <1>2

LEMMA DepsKept ==
  ASSUME IInv, [Next]_vars, ~ResetArc, NEW s \in Steps, DepsDone(s)
  PROVE  DepsDone(s)'
BY DoneKept, DependsAssumption DEF DepsDone

-----------------------------------------------------------------------------
(* The parts of the invariant.                                             *)

LEMMA IdleKept ==
  ASSUME IInv, [Next]_vars
  PROVE  IdleBetweenRuns'
<1>1. CASE User \/ Seed
  BY <1>1 DEF IInv, IdleBetweenRuns, NoAdvance, Seed,
     User, Start, ConfirmProjection, ChangeSelection, CloseWindow,
         ConfirmSelection, KeepSelection, Reselect
<1>2. CASE ResetArc \/ PickPhase \/ EnterPhase \/ OpenGate
  BY <1>2 DEF IdleBetweenRuns, ResetArc, PickPhase, EnterPhase, OpenGate
<1>3. CASE AfterDag
  BY <1>3 DEF IdleBetweenRuns, AfterDag, NextAfterDag, NextAfterDone
<1>4. CASE AdvanceReadImport \/ AdvanceHalt \/ AdvanceDispatch
  <2>1. \E a \in AdvancePcs : adv[a] # 0
    BY <1>4 DEF AdvanceReadImport, AdvanceHalt, AdvanceDispatch, AdvancePcs
  <2>2. adv # NoAdvance
    BY <2>1 DEF NoAdvance
  <2>3. runPc' = runPc
    BY <1>4 DEF AdvanceReadImport, AdvanceHalt, AdvanceDispatch
  <2> QED BY <2>2, <2>3 DEF IInv, IdleBetweenRuns
<1>5. ASSUME NEW t \in Steps, StepRuns(t) PROVE IdleBetweenRuns'
  <2>1. stepPc[t] # "idle" /\ runPc' = runPc
    BY <1>5 DEF StepRuns, BeginSimple, BeginFanOut, BeginThrows,
       SettleStep, ReportStep, ReportStepThrows, ReturnStep
  <2> QED BY <2>1 DEF IInv, IdleBetweenRuns
<1>6. CASE StartJob \/ \E j \in Jobs : JobRuns(j)
  <2>1. \E j \in Jobs : job[j] # "none"
    BY <1>6, HeadTailProperties
       DEF IInv, TypeOK, StartJob, JobRuns, JobSucceeds, JobFails, ReportFailure
  <2>2. runPc' = runPc
    BY <1>6 DEF StartJob, JobRuns, JobSucceeds, JobFails, ReportFailure
  <2> QED BY <2>1, <2>2 DEF IInv, IdleBetweenRuns
<1>7. CASE FinalizeRows \/ FinalizeSync \/ FinalizeStatus \/ FinalizeBook \/ RunThrows
  BY <1>7 DEF IdleBetweenRuns, FinalizeRows, FinalizeSync, FinalizeStatus, FinalizeBook,
     RunThrows
<1>8. CASE HostKills \/ Crash
  BY <1>8 DEF IdleBetweenRuns, HostKills, Crash, ForgetRun
<1>9. CASE Rest \/ UNCHANGED vars
  BY <1>9 DEF IInv, IdleBetweenRuns, NoAdvance, Rest, vars
<1> QED
  BY <1>1, <1>2, <1>3, <1>4, <1>5, <1>6, <1>7, <1>8, <1>9 DEF Next, Worker

LEMMA StepsKept ==
  ASSUME IInv, [Next]_vars
  PROVE  StepsOwnRows'
<1> SUFFICES ASSUME NEW s \in Steps
             PROVE  /\ stepPc'[s] \in {"start", "wait"} => DepsDone(s)'
                    /\ stepPc'[s] = "start" => parent'[s] \in {"pending", "running", "failed"}
                    /\ stepPc'[s] = "wait" => parent'[s] = "running"
  BY DEF StepsOwnRows, DepsDone
<1>1. /\ stepPc[s] \in {"start", "wait"} => DepsDone(s)
      /\ stepPc[s] = "start" => parent[s] \in {"pending", "running", "failed"}
      /\ stepPc[s] = "wait" => parent[s] = "running"
  BY DEF IInv, StepsOwnRows, DepsDone
<1>2. CASE Seed \/ ResetArc \/ HostKills \/ Crash
  <2>1. stepPc'[s] = "idle"
    BY <1>2 DEF IInv, IdleBetweenRuns, Seed, ResetArc, HostKills, Crash, ForgetRun
  <2> QED BY <2>1
<1>3. CASE ~ResetArc /\ UNCHANGED <<stepPc, parent>>
  BY <1>1, <1>3, DepsKept
<1>4. CASE AdvanceDispatch
  <2>1. ~ResetArc
    BY <1>4 DEF AdvanceDispatch, ResetArc, IInv, IdleBetweenRuns, NoAdvance, AdvancePcs
  <2>2. s \in Fresh => DepsDone(s) /\ parent[s] \in {"pending", "running", "failed"}
    BY DEF Fresh, ReadySteps, CandidateStatuses
  <2>3. stepPc'[s] = (IF s \in Fresh THEN "start" ELSE stepPc[s]) /\ parent' = parent
    BY <1>4 DEF AdvanceDispatch
  <2> QED BY <1>1, <2>1, <2>2, <2>3, DepsKept
<1>5. ASSUME NEW t \in Steps, StepRuns(t)
      PROVE  /\ stepPc'[s] \in {"start", "wait"} => DepsDone(s)'
             /\ stepPc'[s] = "start" => parent'[s] \in {"pending", "running", "failed"}
             /\ stepPc'[s] = "wait" => parent'[s] = "running"
  <2>1. ~ResetArc
    BY <1>5 DEF ResetArc, IInv, IdleBetweenRuns, StepRuns, BeginSimple, BeginFanOut,
       BeginThrows, SettleStep, ReportStep, ReportStepThrows, ReturnStep
  <2>2. CASE s # t
    <3>1. stepPc'[s] = stepPc[s] /\ parent'[s] = parent[s]
      BY <1>5, <2>2 DEF IInv, TypeOK, StepRuns, BeginSimple, BeginFanOut,
         BeginThrows, SettleStep, ReportStep, ReportStepThrows, ReturnStep
    <3> QED BY <1>1, <2>1, <3>1, DepsKept
  <2>3. CASE s = t
    <3>1. CASE BeginSimple(t) \/ BeginFanOut(t)
      BY <1>1, <2>1, <2>3, <3>1, DepsKept DEF IInv, TypeOK, BeginSimple, BeginFanOut
    <3>2. CASE BeginThrows(t) \/ ReportStep(t) \/ ReportStepThrows(t) \/ ReturnStep(t)
      BY <2>3, <3>2 DEF IInv, TypeOK, BeginThrows, ReportStep, ReportStepThrows, ReturnStep
    <3>3. CASE SettleStep(t)
      BY <2>3, <3>3 DEF IInv, TypeOK, SettleStep
    <3> QED BY <1>5, <3>1, <3>2, <3>3 DEF StepRuns
  <2> QED BY <2>2, <2>3
<1>6. \/ Seed \/ ResetArc \/ HostKills \/ Crash \/ AdvanceDispatch
      \/ \E t \in Steps : StepRuns(t)
      \/ UNCHANGED <<stepPc, parent>>
  <2>1. CASE User
    BY <2>1 DEF User, Start, ConfirmProjection, ChangeSelection, CloseWindow,
         ConfirmSelection, KeepSelection, Reselect
  <2>2. CASE StartJob \/ \E j \in Jobs : JobRuns(j)
    BY <2>2 DEF StartJob, JobRuns, JobSucceeds, JobFails, ReportFailure
  <2>3. CASE AdvanceReadImport \/ AdvanceHalt
    BY <2>3 DEF AdvanceReadImport, AdvanceHalt
  <2>4. CASE PickPhase \/ EnterPhase \/ AfterDag \/ OpenGate
    BY <2>4 DEF PickPhase, EnterPhase, AfterDag, OpenGate
  <2>5. CASE FinalizeRows \/ FinalizeSync \/ FinalizeStatus \/ FinalizeBook \/ RunThrows
    BY <2>5 DEF FinalizeRows, FinalizeSync, FinalizeStatus, FinalizeBook, RunThrows
  <2>6. CASE Rest \/ UNCHANGED vars
    BY <2>6 DEF Rest, vars
  <2> QED BY <2>1, <2>2, <2>3, <2>4, <2>5, <2>6 DEF Next, Worker
<1> QED BY <1>2, <1>3, <1>4, <1>5, <1>6

LEMMA JobsKept ==
  ASSUME IInv, [Next]_vars
  PROVE  JobsOwnRows'
<1> DEFINE
  AtWork == {"queued", "running", "reporting"}
  Safe(j) == /\ job'[j] \in AtWork => DepsDone(j[1])'
             /\ job'[j] \in {"running", "reporting"} /\ j \in Items => child'[j] = "running"
<1> SUFFICES ASSUME NEW j \in Jobs PROVE Safe(j)
  BY DEF JobsOwnRows, DepsDone
<1>1. /\ job[j] \in AtWork => DepsDone(j[1])
      /\ job[j] \in {"running", "reporting"} /\ j \in Items => child[j] = "running"
  BY DEF IInv, JobsOwnRows, DepsDone
<1>2. j[1] \in Steps
  BY DEF Jobs
<1>3. CASE Seed \/ ResetArc \/ HostKills \/ Crash
  <2>1. job'[j] = "none"
    BY <1>3 DEF IInv, IdleBetweenRuns, Seed, ResetArc, HostKills, Crash, ForgetRun
  <2> QED BY <2>1
<1>4. CASE ~ResetArc /\ UNCHANGED <<job, child>>
  BY <1>1, <1>2, <1>4, DepsKept
<1>5. ASSUME NEW t \in Steps, StepRuns(t) PROVE Safe(j)
  <2>1. ~ResetArc
    BY <1>5 DEF ResetArc, IInv, IdleBetweenRuns, StepRuns, BeginSimple, BeginFanOut,
       BeginThrows, SettleStep, ReportStep, ReportStepThrows, ReturnStep
  <2>2. CASE UNCHANGED <<job, child>>
    BY <1>4, <2>1, <2>2
  <2>3. CASE BeginSimple(t)
    <3>1. stepPc[t] = "start" /\ DepsDone(t) /\ child' = child
      BY <2>3 DEF IInv, StepsOwnRows, DepsDone, BeginSimple
    <3>2. job'[j] = job[j] \/ (j[1] = t /\ job'[j] = "queued")
      <4>1. CASE j = <<t, NoKey>>
        BY <2>3, <4>1 DEF IInv, TypeOK, BeginSimple
      <4>2. CASE j # <<t, NoKey>>
        BY <2>3, <4>2 DEF IInv, TypeOK, BeginSimple
      <4> QED BY <4>1, <4>2
    <3> QED BY <1>1, <1>2, <2>1, <3>1, <3>2, DepsKept
  <2>4. CASE BeginFanOut(t)
    <3>1. stepPc[t] = "start" /\ DepsDone(t)
      BY <2>4 DEF IInv, StepsOwnRows, DepsDone, BeginFanOut
    <3>2. job'[j] = job[j] \/ (j[1] = t /\ job'[j] = "queued")
      BY <2>4 DEF BeginFanOut
    <3>3. j \in Items /\ child[j] = "running" => child'[j] = "running"
      BY <2>4 DEF BeginFanOut
    <3> QED BY <1>1, <1>2, <2>1, <3>1, <3>2, <3>3, DepsKept
  <2>5. CASE ReturnStep(t)
    <3>1. job'[j] \in {job[j], "none"} /\ child' = child
      BY <2>5 DEF ReturnStep
    <3> QED BY <1>1, <1>2, <2>1, <3>1, DepsKept
  <2> QED
    BY <1>5, <2>2, <2>3, <2>4, <2>5
       DEF StepRuns, BeginThrows, SettleStep, ReportStep, ReportStepThrows
<1>6. CASE StartJob
  <2>1. ~ResetArc
    BY <1>6, HeadTailProperties DEF ResetArc, IInv, TypeOK, IdleBetweenRuns, StartJob
  <2>2. Head(queue) \in Jobs /\ job[Head(queue)] = "queued"
    BY <1>6, HeadTailProperties DEF IInv, TypeOK, StartJob
  <2>3. CASE j # Head(queue)
    <3>1. job'[j] = job[j] /\ (j \in Items => child'[j] = child[j])
      BY <1>6, <2>2, <2>3 DEF IInv, TypeOK, StartJob
    <3> QED BY <1>1, <1>2, <2>1, <3>1, DepsKept
  <2>4. CASE j = Head(queue)
    <3>1. DepsDone(j[1])
      BY <1>1, <2>2, <2>4
    <3>2. job'[j] = "running" /\ j \in Items => child'[j] = "running"
      BY <1>6, <2>2, <2>4 DEF IInv, TypeOK, StartJob
    <3>3. job'[j] \in {"ok", "running"}
      BY <1>6, <2>2, <2>4 DEF IInv, TypeOK, StartJob
    <3> QED BY <1>2, <2>1, <3>1, <3>2, <3>3, DepsKept
  <2> QED BY <2>3, <2>4
<1>7. ASSUME NEW i \in Jobs, JobRuns(i) PROVE Safe(j)
  <2>1. ~ResetArc
    BY <1>7 DEF ResetArc, IInv, IdleBetweenRuns, JobRuns, JobSucceeds, JobFails,
       ReportFailure
  <2>2. CASE j # i
    <3>1. job'[j] = job[j] /\ (j \in Items => child'[j] = child[j])
      BY <1>7, <2>2 DEF IInv, TypeOK, JobRuns, JobSucceeds, JobFails, ReportFailure
    <3> QED BY <1>1, <1>2, <2>1, <3>1, DepsKept
  <2>3. CASE j = i
    <3>1. job'[j] \in {"ok", "bad"} \/ (job'[j] = "reporting" /\ child' = child)
      BY <1>7, <2>3 DEF IInv, TypeOK, JobRuns, JobSucceeds, JobFails, ReportFailure
    <3>2. job[j] \in {"running", "reporting"}
      BY <1>7, <2>3 DEF JobRuns, JobSucceeds, JobFails, ReportFailure
    <3> QED BY <1>1, <1>2, <2>1, <3>1, <3>2, DepsKept
  <2> QED BY <2>2, <2>3
<1>8. \/ Seed \/ ResetArc \/ HostKills \/ Crash \/ StartJob
      \/ \E t \in Steps : StepRuns(t)
      \/ \E i \in Jobs : JobRuns(i)
      \/ UNCHANGED <<job, child>>
  <2>1. CASE User
    BY <2>1 DEF User, Start, ConfirmProjection, ChangeSelection, CloseWindow,
         ConfirmSelection, KeepSelection, Reselect
  <2>2. CASE AdvanceReadImport \/ AdvanceHalt \/ AdvanceDispatch
    BY <2>2 DEF AdvanceReadImport, AdvanceHalt, AdvanceDispatch
  <2>3. CASE PickPhase \/ EnterPhase \/ AfterDag \/ OpenGate
    BY <2>3 DEF PickPhase, EnterPhase, AfterDag, OpenGate
  <2>4. CASE FinalizeRows \/ FinalizeSync \/ FinalizeStatus \/ FinalizeBook \/ RunThrows
    BY <2>4 DEF FinalizeRows, FinalizeSync, FinalizeStatus, FinalizeBook, RunThrows
  <2>5. CASE Rest \/ UNCHANGED vars
    BY <2>5 DEF Rest, vars
  <2> QED BY <2>1, <2>2, <2>3, <2>4, <2>5 DEF Next, Worker
<1> HIDE DEF Safe
<1> QED BY <1>3, <1>4, <1>5, <1>6, <1>7, <1>8

-----------------------------------------------------------------------------
(* Phases and gates, told in terms of the three phases.                    *)

ProjectionDone == AllParentsComplete(Projection)
ExtractDone    == AllParentsComplete(Extract)
ArcDone        == AllParentsComplete(Arc)

LEMMA PhasesAreAllSteps ==
  /\ AllParentsComplete(Steps) <=> ProjectionDone /\ ExtractDone /\ ArcDone
  /\ AllParentsComplete(Projection \cup Extract) <=> ProjectionDone /\ ExtractDone
BY StepsAssumption DEF AllParentsComplete, ProjectionDone, ExtractDone, ArcDone

LEMMA PhasesKept ==
  ASSUME IInv, [Next]_vars
  PROVE  /\ ProjectionDone => ProjectionDone'
         /\ ExtractDone => ExtractDone'
         /\ ArcDone /\ ~(ResetArc /\ ArcReopened) => ArcDone'
<1>1. Projection \cap Arc = {} /\ Extract \cap Arc = {}
  BY DependsAssumption
<1>2. Projection \in SUBSET Steps /\ Extract \in SUBSET Steps /\ Arc \in SUBSET Steps
  BY StepsAssumption
<1>3. ProjectionDone => ProjectionDone'
  BY <1>1, <1>2, CompleteKept DEF ProjectionDone
<1>4. ExtractDone => ExtractDone'
  BY <1>1, <1>2, CompleteKept DEF ExtractDone
<1>5. ArcDone /\ ~(ResetArc /\ ArcReopened) => ArcDone'
  BY <1>2, CompleteKept DEF ArcDone
<1> QED BY <1>3, <1>4, <1>5

\* PhasesInOrder and GatesAfterPhases in these terms.
Ordered ==
  /\ runPc \in {"enter", "dag", "gate"} /\ phase # "projection" => ProjectionDone
  /\ runPc = "gate" =>
       \/ phase = "projection" /\ ProjectionDone
       \/ phase = "extract" /\ ExtractDone
  /\ runPc \in {"finSync", "finStatus", "finBook"} =>
       ProjectionDone /\ ExtractDone /\ ArcDone
  /\ bookDone => ProjectionDone /\ ExtractDone
  /\ bookDone /\ runPc \in {"enter", "dag", "gate"} => phase = "arc"
  /\ ~ReselectAnytime /\ bookDone /\ imp = "awaiting_selection" => ArcDone
  /\ imp = "awaiting_projection" => ProjectionDone
  /\ imp = "awaiting_selection" => ProjectionDone /\ ExtractDone
  /\ ~ReselectAnytime /\ imp = "completed" => ProjectionDone /\ ExtractDone /\ ArcDone

LEMMA OrderedMeans == TypeOK => (Ordered <=> PhasesInOrder /\ GatesAfterPhases)
<1> SUFFICES ASSUME TypeOK PROVE Ordered <=> PhasesInOrder /\ GatesAfterPhases
  OBVIOUS
<1>1. phase # "arc" /\ AllParentsComplete(PhaseSteps(phase)) <=>
        \/ phase = "projection" /\ ProjectionDone
        \/ phase = "extract" /\ ExtractDone
  BY DEF TypeOK, PhaseSteps, ProjectionDone, ExtractDone
<1>2. AllParentsComplete(Projection) <=> ProjectionDone
  BY DEF ProjectionDone
<1> QED
  BY <1>1, <1>2, PhasesAreAllSteps 
     DEF Ordered, PhasesInOrder, GatesAfterPhases, CompletedMeansDone

LEMMA OrderedKept ==
  ASSUME IInv, [Next]_vars
  PROVE  Ordered'
<1>1. Ordered
  BY OrderedMeans DEF IInv
<1>2. /\ ProjectionDone => ProjectionDone'
      /\ ExtractDone => ExtractDone'
      /\ ArcDone /\ ~(ResetArc /\ ArcReopened) => ArcDone'
  BY PhasesKept
<1>3. phase \in {"projection", "extract", "arc"} /\ imp \in ImportStatuses
  BY DEF IInv, TypeOK
<1>4. CASE User
  <2>1. ArcDone => ArcDone'
    BY <1>4 DEF User, Start, ConfirmProjection, ChangeSelection, CloseWindow,
         ConfirmSelection, KeepSelection, Reselect,
       ArcDone, AllParentsComplete, Done
  <2>2. CASE Start
    BY <1>1, <1>2, <2>1, <2>2 DEF Ordered, Start
  <2>3. CASE ConfirmProjection \/ ConfirmSelection
    BY <1>1, <1>2, <2>1, <2>3 DEF Ordered, ConfirmProjection, ConfirmSelection
  <2>4. CASE KeepSelection
    BY <1>1, <1>2, <2>1, <2>4 DEF Ordered, KeepSelection
  <2>5. CASE Reselect
    BY <1>1, <1>2, <2>1, <2>5 DEF Ordered, Reselect
  <2>6. CASE ChangeSelection \/ CloseWindow
    BY <1>1, <1>2, <2>1, <2>6 DEF Ordered, ChangeSelection, CloseWindow
  <2> QED BY <1>4, <2>2, <2>3, <2>4, <2>5, <2>6 DEF User
<1>5. CASE ResetArc
  BY <1>1, <1>2, <1>5 DEF Ordered, ResetArc, ArcReopened
<1>6. CASE Seed
  BY <1>1, <1>2, <1>6 DEF Ordered, Seed, ResetArc
<1>7. CASE PickPhase
  <2>1. runPc' = "enter" => /\ phase' # "projection" => ProjectionDone
                            /\ ProjectionDone /\ ExtractDone => phase' = "arc"
    BY <1>7 DEF PickPhase, FirstUnfinished, ProjectionDone, ExtractDone
  <2>2. runPc' \in {"enter", "finRows"} /\ ~ResetArc
    BY <1>7 DEF PickPhase, ResetArc
  <2> QED BY <1>1, <1>2, <1>7, <2>1, <2>2 DEF Ordered, PickPhase
<1>8. CASE EnterPhase
  BY <1>1, <1>2, <1>3, <1>8 DEF Ordered, EnterPhase, PhaseStatus, ResetArc
<1>9. CASE AfterDag
  <2>1. runPc' = "gate" => \/ phase = "projection" /\ ProjectionDone
                           \/ phase = "extract" /\ ExtractDone
    BY <1>3, <1>9 DEF AfterDag, NextAfterDag, NextAfterDone, PhaseSteps,
       ProjectionDone, ExtractDone
  <2>2. runPc' \in {"finRows", "pick", "gate"} /\ ~ResetArc
    BY <1>9 DEF AfterDag, NextAfterDag, NextAfterDone, ResetArc
  <2> QED BY <1>1, <1>2, <1>9, <2>1, <2>2 DEF Ordered, AfterDag
<1>10. CASE OpenGate
  BY <1>1, <1>2, <1>10 DEF Ordered, OpenGate, ResetArc
<1>11. CASE FinalizeRows
  BY <1>1, <1>2, <1>11, PhasesAreAllSteps DEF Ordered, FinalizeRows, ImportFinished, ResetArc
<1>12. CASE FinalizeSync \/ FinalizeStatus \/ FinalizeBook
  BY <1>1, <1>2, <1>12 DEF Ordered, FinalizeSync, FinalizeStatus, FinalizeBook, ResetArc
<1>13. CASE RunThrows \/ HostKills \/ Crash
  <2>1. /\ ProjectionDone' = ProjectionDone
        /\ ExtractDone' = ExtractDone /\ ArcDone' = ArcDone
    BY <1>13 DEF RunThrows, HostKills, Crash, ForgetRun, ProjectionDone, ExtractDone,
       ArcDone, AllParentsComplete, Done
  <2> QED
    BY <1>1, <1>13, <2>1 DEF Ordered, RunThrows, HostKills, Crash, ForgetRun
<1>14. CASE AdvanceReadImport \/ AdvanceHalt \/ AdvanceDispatch
  <2>1. UNCHANGED <<imp, bookDone, phase, runPc, parent>>
    BY <1>14 DEF AdvanceReadImport, AdvanceHalt, AdvanceDispatch
  <2> QED
    BY <1>1, <2>1 DEF Ordered, ProjectionDone, ExtractDone, ArcDone, AllParentsComplete, Done
<1>15. ASSUME NEW t \in Steps, StepRuns(t) PROVE Ordered'
  <2>1. ~ResetArc
    BY <1>15 DEF ResetArc, IInv, IdleBetweenRuns, StepRuns, BeginSimple, BeginFanOut,
       BeginThrows, SettleStep, ReportStep, ReportStepThrows, ReturnStep
  <2>2. UNCHANGED <<bookDone, phase, runPc>> /\ imp' \in {imp, "failed"}
    BY <1>15 DEF StepRuns, BeginSimple, BeginFanOut, BeginThrows, SettleStep,
       ReportStep, StatusAfterFailure, ReportStepThrows, ReturnStep
  <2> QED BY <1>1, <1>2, <2>1, <2>2 DEF Ordered
<1>16. CASE StartJob \/ \E j \in Jobs : JobRuns(j)
  <2>1. UNCHANGED <<bookDone, phase, runPc, parent>> /\ imp' \in {imp, "failed", "pending"}
    BY <1>16 DEF StartJob, JobRuns, JobSucceeds, JobFails, ReportFailure
  <2> QED
    BY <1>1, <2>1 DEF Ordered, ProjectionDone, ExtractDone, ArcDone, AllParentsComplete, Done
<1>17. CASE Rest \/ UNCHANGED vars
  BY <1>1, <1>17 DEF Rest, vars, Ordered, ProjectionDone, ExtractDone, ArcDone,
     AllParentsComplete, Done
<1> QED
  BY <1>4, <1>5, <1>6, <1>7, <1>8, <1>9, <1>10, <1>11, <1>12, <1>13, <1>14, <1>15, <1>16,
     <1>17 DEF Next, Worker

-----------------------------------------------------------------------------
(* The theorems.                                                           *)

LEMMA InitIInv == Init => IInv
<1> SUFFICES ASSUME Init PROVE IInv
  OBVIOUS
<1>1. TypeOK
  BY InitTypeOK
<1>2. IdleBetweenRuns /\ StepsOwnRows /\ JobsOwnRows
  BY DEF Init, IdleBetweenRuns, StepsOwnRows, JobsOwnRows
<1>3. PhasesInOrder /\ GatesAfterPhases
  BY DEF Init, PhasesInOrder, GatesAfterPhases, CompletedMeansDone
<1> QED BY <1>1, <1>2, <1>3 DEF IInv

LEMMA NextIInv == IInv /\ [Next]_vars => IInv'
<1> SUFFICES ASSUME IInv, [Next]_vars PROVE IInv'
  OBVIOUS
<1>1. TypeOK'
  BY NextTypeOK DEF IInv
<1>2. IdleBetweenRuns' /\ StepsOwnRows' /\ JobsOwnRows'
  BY IdleKept, StepsKept, JobsKept
<1>3. Ordered'
  BY OrderedKept
<1>4. PhasesInOrder' /\ GatesAfterPhases'
  BY <1>1, <1>3, OrderedMeans, PTL
<1> QED BY <1>1, <1>2, <1>4 DEF IInv

\* The strengthening that every step of any number of runners, requests and
\* crashes keeps: what the safety properties of the runner follow from.
THEOREM Inductive == Spec => []IInv
BY InitIInv, NextIInv, PTL DEF Spec

\* No handler is at work for a step with an unfinished dependency, in any
\* interleaving of advance calls, failures, lost workers and reselections.
THEOREM HandlersWait == Spec => []HandlersAfterDependencies
<1>1. IInv => HandlersAfterDependencies
  BY DEF IInv, JobsOwnRows, HandlersAfterDependencies, Active
<1> QED BY <1>1, Inductive, PTL

\* The import row never asks the user to confirm what is not there.
THEOREM GatesHold == Spec => []GatesAfterPhases
<1>1. IInv => GatesAfterPhases
  BY DEF IInv
<1> QED BY <1>1, Inductive, PTL

\* As long as a reselection is seen through before the next one begins, an
\* import that says it is complete has every step done.
THEOREM CompletedHolds ==
  ASSUME ~ReselectAnytime
  PROVE  Spec => []CompletedMeansDone
<1>1. IInv => CompletedMeansDone
  BY DEF IInv, PhasesInOrder
<1> QED BY <1>1, Inductive, PTL

\* The handler of an item runs while its row says so: no other row is touched,
\* and a completed one is skipped.
LEMMA ItemKept ==
  ASSUME IInv, [Next]_vars
  PROVE  \A i \in Items : child[i] = "completed" => child'[i] = "completed"
<1> SUFFICES ASSUME NEW i \in Items, child[i] = "completed"
             PROVE  child'[i] = "completed"
  OBVIOUS
<1>1. i \in Jobs
  BY StepsAssumption DEF Items, Jobs
<1>2. job[i] \notin {"running", "reporting"}
  BY <1>1 DEF IInv, JobsOwnRows
<1>3. CASE UNCHANGED child
  BY <1>3
<1>4. ASSUME NEW s \in Steps, BeginFanOut(s) PROVE child'[i] = "completed"
  BY <1>4 DEF BeginFanOut
<1>5. CASE StartJob
  BY <1>5 DEF StartJob, Skipped
<1>6. ASSUME NEW j \in Jobs, JobRuns(j) PROVE child'[i] = "completed"
  BY <1>2, <1>6 DEF JobRuns, JobSucceeds, JobFails, ReportFailure
<1>7. \/ UNCHANGED child \/ StartJob
      \/ \E s \in Steps : BeginFanOut(s)
      \/ \E j \in Jobs : JobRuns(j)
  <2>1. CASE User
    BY <2>1 DEF User, Start, ConfirmProjection, ChangeSelection, CloseWindow,
       ConfirmSelection, KeepSelection, Reselect
  <2>2. CASE \E s \in Steps : StepRuns(s)
    BY <2>2 DEF StepRuns, BeginSimple, BeginThrows, SettleStep, ReportStep,
       ReportStepThrows, ReturnStep
  <2>3. CASE AdvanceReadImport \/ AdvanceHalt \/ AdvanceDispatch
    BY <2>3 DEF AdvanceReadImport, AdvanceHalt, AdvanceDispatch
  <2>4. CASE Seed \/ ResetArc \/ PickPhase \/ EnterPhase \/ AfterDag \/ OpenGate
    BY <2>4 DEF Seed, ResetArc, PickPhase, EnterPhase, AfterDag, OpenGate
  <2>5. CASE FinalizeRows \/ FinalizeSync \/ FinalizeStatus \/ FinalizeBook \/ RunThrows
    BY <2>5 DEF FinalizeRows, FinalizeSync, FinalizeStatus, FinalizeBook, RunThrows
  <2>6. CASE HostKills \/ Crash \/ Rest \/ UNCHANGED vars
    BY <2>6 DEF HostKills, Crash, ForgetRun, Rest, vars
  <2> QED BY <2>1, <2>2, <2>3, <2>4, <2>5, <2>6 DEF Next, Worker
<1> QED BY <1>3, <1>4, <1>5, <1>6, <1>7

\* Items that completed are not handed to a handler again: not by a retry, a
\* new worker or a reselection.
THEOREM ItemsKept == Spec => CompletedItemsKept
BY ItemKept, Inductive, PTL DEF Spec, CompletedItemsKept

\* The parent rows are a step board: the runner implements StepBoard.
THEOREM ImplementsBoard == Spec => BoardSpec
<1>1. Init => Board!Init
  BY DEF Init, Board!Init
<1>2. ASSUME IInv, [Next]_vars PROVE [Board!Next]_parent
  <2>1. CASE UNCHANGED parent
    BY <2>1
  <2>2. CASE Seed
    <3>1. CASE \A s \in Steps : parent[s] = "absent"
      BY <2>2, <3>1 DEF Seed, Board!Next, Board!Seed
    <3>2. CASE ~\A s \in Steps : parent[s] = "absent"
      BY <2>2, <3>2 DEF Seed
    <3> QED BY <3>1, <3>2
  <2>3. CASE ResetArc
    <3>1. CASE ArcReopened
      BY <2>3, <3>1 DEF ResetArc, ArcReopened, AllParentsComplete, Done, DoneStatuses,
         Board!Next, Board!ReopenArc, Board!Done
    <3>2. CASE ~ArcReopened
      BY <2>3, <3>2 DEF ResetArc
    <3> QED BY <3>1, <3>2
  <2>4. ASSUME NEW s \in Steps, BeginSimple(s) \/ BeginFanOut(s) \/ SettleStep(s)
        PROVE  [Board!Next]_parent
    <3>1. Board!Ready(s) /\ parent[s] \in {"pending", "running", "failed"}
      BY <1>2, <2>4 DEF IInv, StepsOwnRows, BeginSimple, BeginFanOut, SettleStep, Done,
         DoneStatuses, Board!Ready, Board!Done
    <3>2. CASE parent' = [parent EXCEPT ![s] = "running"]
      BY <3>1, <3>2 DEF Board!Next, Board!Begin
    <3>3. CASE parent' = [parent EXCEPT ![s] = "completed"]
      BY <3>1, <3>3 DEF Board!Next, Board!Finish
    <3>4. CASE SettleStep(s) /\ parent' = [parent EXCEPT ![s] = "failed"]
      <4>1. parent[s] = "running"
        BY <1>2, <3>4 DEF IInv, StepsOwnRows, SettleStep
      <4> QED BY <3>1, <3>4, <4>1 DEF Board!Next, Board!Fail
    <3> QED
      BY <2>4, <3>2, <3>3, <3>4 DEF BeginSimple, BeginFanOut, SettleStep
  <2> QED BY <1>2, <2>1, <2>2, <2>3, <2>4, RowsChange
<1> QED BY <1>1, <1>2, Inductive, PTL DEF Spec, BoardSpec, Board!Spec

-----------------------------------------------------------------------------
(* What the actions of each activity leave alone.                          *)

RunStep ==
  \/ Seed \/ ResetArc \/ PickPhase \/ EnterPhase \/ AfterDag \/ OpenGate
  \/ FinalizeRows \/ FinalizeSync \/ FinalizeStatus \/ FinalizeBook \/ RunThrows
Advance == AdvanceReadImport \/ AdvanceHalt \/ AdvanceDispatch
JobStep == StartJob \/ \E j \in Jobs : JobRuns(j)
Ends == HostKills \/ Crash

LEMMA Activities ==
  ASSUME [Next]_vars
  PROVE  \/ User \/ RunStep \/ Advance \/ JobStep \/ Ends \/ UNCHANGED vars
         \/ \E t \in Steps : StepRuns(t)
BY DEF Next, Worker, Rest, RunStep, Advance, JobStep, Ends

LEMMA UserLeaves ==
  ASSUME User
  PROVE  /\ UNCHANGED <<bookDone, synced, autoConfirm, parent, child, phase>>
         /\ UNCHANGED <<inFlight, dispatched, resolved, adv, stepPc, job, queue>>
         /\ Start \/ UNCHANGED <<runPc, retryFailed>>
BY DEF User, Start, ConfirmProjection, ChangeSelection, CloseWindow, ConfirmSelection,
   KeepSelection, Reselect

LEMMA RunLeaves ==
  ASSUME RunStep
  PROVE  /\ UNCHANGED <<autoConfirm, child, selected, dirty, confirmed, retryFailed>>
         /\ UNCHANGED <<stepPc, job, queue>>
         /\ PickPhase \/ UNCHANGED <<phase, inFlight, dispatched, resolved>>
         /\ PickPhase \/ EnterPhase \/ UNCHANGED adv
         /\ Seed \/ ResetArc \/ UNCHANGED parent
         /\ EnterPhase \/ OpenGate \/ FinalizeStatus \/ UNCHANGED imp
         /\ FinalizeBook \/ UNCHANGED bookDone
         /\ FinalizeSync \/ UNCHANGED synced
         /\ RunThrows \/ UNCHANGED spent
BY DEF RunStep, Seed, ResetArc, PickPhase, EnterPhase, AfterDag, OpenGate,
   FinalizeRows, FinalizeSync, FinalizeStatus, FinalizeBook, RunThrows

LEMMA AdvanceLeaves ==
  ASSUME Advance
  PROVE  /\ UNCHANGED <<imp, bookDone, synced, autoConfirm, parent, child>>
         /\ UNCHANGED <<selected, dirty, confirmed, runPc, phase, retryFailed>>
         /\ UNCHANGED <<job, queue, spent>>
         /\ AdvanceDispatch \/ UNCHANGED <<inFlight, dispatched, stepPc>>
         /\ AdvanceHalt \/ AdvanceDispatch \/ UNCHANGED resolved
BY DEF Advance, AdvanceReadImport, AdvanceHalt, AdvanceDispatch

LEMMA JobLeaves ==
  ASSUME JobStep
  PROVE  /\ UNCHANGED <<bookDone, synced, autoConfirm, parent>>
         /\ UNCHANGED <<selected, dirty, confirmed, runPc, phase, retryFailed>>
         /\ UNCHANGED <<inFlight, dispatched, resolved, adv, stepPc>>
         /\ (\E j \in Jobs : ReportFailure(j)) \/ UNCHANGED imp
BY DEF JobStep, StartJob, JobRuns, JobSucceeds, JobFails, ReportFailure

LEMMA StepLeaves ==
  ASSUME TypeOK, NEW t \in Steps, StepRuns(t)
  PROVE  /\ UNCHANGED <<bookDone, synced, autoConfirm>>
         /\ UNCHANGED <<selected, dirty, confirmed, runPc, phase, retryFailed>>
         /\ UNCHANGED <<dispatched, resolved>>
         /\ stepPc[t] # "idle"
         /\ \A s \in Steps \ {t} : stepPc'[s] = stepPc[s] /\ parent'[s] = parent[s]
         /\ \A s \in Steps \ {t} : s \in inFlight' <=> s \in inFlight
         /\ \A j \in Jobs : j[1] # t => job'[j] = job[j]
         /\ ReturnStep(t) \/ UNCHANGED <<inFlight, adv>>
         /\ BeginSimple(t) \/ BeginFanOut(t) \/ SettleStep(t) \/ UNCHANGED parent
         /\ BeginSimple(t) \/ BeginFanOut(t) \/ ReturnStep(t) \/ UNCHANGED job
         /\ BeginFanOut(t) \/ UNCHANGED child
         /\ ReportStep(t) \/ UNCHANGED imp
         /\ BeginThrows(t) \/ ReportStepThrows(t) \/ UNCHANGED spent
<1>1. CASE BeginSimple(t)
  BY <1>1 DEF TypeOK, BeginSimple
<1>2. CASE BeginFanOut(t)
  <2>1. /\ UNCHANGED <<mainVars, userVars, runVars, dagVars, spent>>
        /\ stepPc[t] = "start"
        /\ \E pc \in StepPcs : stepPc' = [stepPc EXCEPT ![t] = pc]
        /\ \E r \in RowStatuses : parent' = [parent EXCEPT ![t] = r]
    BY <1>2 DEF BeginFanOut, StepPcs, RowStatuses
  <2>2. \A j \in Jobs : j[1] # t => job'[j] = job[j]
    BY <1>2 DEF BeginFanOut
  <2> QED BY <1>2, <2>1, <2>2 DEF TypeOK
<1>3. CASE BeginThrows(t) \/ ReportStepThrows(t)
  BY <1>3 DEF TypeOK, BeginThrows, ReportStepThrows
<1>4. CASE SettleStep(t) \/ ReportStep(t)
  BY <1>4 DEF TypeOK, SettleStep, ReportStep
<1>5. CASE ReturnStep(t)
  BY <1>5 DEF TypeOK, ReturnStep
<1> QED BY <1>1, <1>2, <1>3, <1>4, <1>5 DEF StepRuns

LEMMA EndsLeave ==
  ASSUME Ends
  PROVE  /\ UNCHANGED <<imp, bookDone, synced, autoConfirm, parent, child>>
         /\ UNCHANGED <<selected, dirty, confirmed, phase, retryFailed>>
         /\ runPc' = "off" /\ inFlight' = {} /\ dispatched' = {} /\ resolved' = FALSE
         /\ adv' = NoAdvance
         /\ \A s \in Steps : stepPc'[s] = "idle"
         /\ \A j \in Jobs : job'[j] = "none"
         /\ Crash \/ UNCHANGED spent
BY DEF Ends, HostKills, Crash, ForgetRun

\* A bound that is used up stays used up, and so does one that is touched.
LEMMA SpentGrows ==
  ASSUME TypeOK, [Next]_vars, NEW b \in Bounds, spent'[b] = 0
  PROVE  /\ spent[b] = 0
         /\ b = "faults" => /\ ~RunThrows
                            /\ \A t \in Steps : ~BeginThrows(t) /\ ~ReportStepThrows(t)
         /\ b = "failures" => \A j \in Jobs : ~JobFails(j)
         /\ b = "crashes" => ~Crash
<1>1. UNCHANGED spent \/ \E w \in Bounds : spent' = [spent EXCEPT ![w] = @ + 1]
  <2>1. CASE User \/ RunStep
    BY <2>1, RunLeaves DEF User, Start, ConfirmProjection, ChangeSelection, CloseWindow,
       ConfirmSelection, KeepSelection, Reselect, RunThrows, Spend, Bounds
  <2>2. CASE Advance \/ Ends
    BY <2>2, AdvanceLeaves, EndsLeave DEF Crash, Spend, Bounds
  <2>3. ASSUME NEW t \in Steps, StepRuns(t)
        PROVE  UNCHANGED spent \/ \E w \in Bounds : spent' = [spent EXCEPT ![w] = @ + 1]
    BY <2>3, StepLeaves DEF BeginThrows, ReportStepThrows, Spend, Bounds
  <2>4. CASE JobStep
    BY <2>4 DEF JobStep, StartJob, JobRuns, JobSucceeds, JobFails, ReportFailure, Spend, Bounds
  <2>5. CASE UNCHANGED vars
    BY <2>5 DEF vars
  <2> QED BY <2>1, <2>2, <2>3, <2>4, <2>5, Activities
<1>2. spent[b] \in Nat /\ \A w \in Bounds : spent[w] \in Nat
  BY DEF TypeOK
<1>3. spent[b] = 0
  BY <1>1, <1>2 DEF TypeOK
<1>4. ~(spent' = [spent EXCEPT ![b] = @ + 1])
  BY <1>2 DEF TypeOK
<1> QED
  BY <1>3, <1>4 DEF RunThrows, BeginThrows, ReportStepThrows, JobFails, Crash, Spend

-----------------------------------------------------------------------------
(* The invariant of the walks.                                             *)

AllAbsent  == \A s \in Steps : parent[s] = "absent"
NoneAbsent == \A s \in Steps : parent[s] # "absent"

\* A step that failed, or that will once its other jobs have settled.
Failing(s) ==
  parent[s] = "failed" \/ (stepPc[s] = "wait" /\ \E j \in Jobs : j[1] = s /\ job[j] = "bad")

\* A first walk that met a failure: it halts, and leaves its phase unfinished.
Doomed == ~retryFailed /\ \E s \in dispatched : Failing(s)

\* The rows of an import are inserted together, by its first run.
RowsSeeded ==
  /\ AllAbsent \/ NoneAbsent
  /\ runPc \notin {"off", "seed", "respond"} => NoneAbsent
  /\ runPc = "respond" /\ spent["faults"] = 0 => NoneAbsent
  /\ AllAbsent => imp = "pending"
  /\ \A s \in Steps : parent[s] = "skipped" => s = Preview

\* A phase is not begun before those in front of it are done.
PhaseReached ==
  /\ phase # "projection" => ProjectionDone
  /\ phase = "arc" => ExtractDone
  /\ bookDone => phase = "arc"
  /\ \A a \in Arc : Done(a) => phase = "arc"
  /\ ~ProjectionDone => \A e \in Extract \ Projection : ~Done(e)

\* Jobs belong to steps that wait for them, and done items have their output.
JobsHaveSteps ==
  \A j \in Jobs :
    /\ job[j] # "none" => stepPc[j[1]] \in {"wait", "report", "return"}
    /\ job[j] \in {"queued", "running", "reporting"} => stepPc[j[1]] = "wait"
    /\ job[j] = "ok" /\ j \in Items => child[j] = "completed"

\* What inFlight, dispatched and resolved mean, and when calls of advance may
\* outlive the walk they belong to.
Walk ==
  /\ \A s \in Steps : stepPc[s] # "idle" => s \in inFlight
  /\ inFlight \subseteq dispatched /\ dispatched \subseteq PhaseSteps(phase)
  /\ runPc \in {"off", "seed", "reset", "enter"} =>
       dispatched = {} /\ ~resolved /\ adv = NoAdvance
  /\ resolved => (inFlight = {} /\ Fresh = {}) \/ Doomed
  /\ runPc # "dag" => Doomed \/ (inFlight = {} /\ (resolved \/ adv = NoAdvance))
  /\ Doomed => runPc \in {"dag", "finRows", "respond"}

\* A first walk only sees the import failed when one of its own steps did.
Halting ==
  /\ ~retryFailed /\ runPc # "off" /\ (imp = "failed" \/ adv["halt"] > 0) => Doomed
  /\ retryFailed => adv["halt"] = 0
  /\ ~retryFailed => \A s \in Steps : stepPc[s] = "start" => parent[s] # "failed"

\* What became of the steps that are back.
Returned ==
  /\ \A s \in Steps : stepPc[s] = "report" => parent[s] = "failed"
  /\ spent["faults"] = 0 =>
       /\ \A s \in Steps : stepPc[s] = "return" => Done(s) \/ parent[s] = "failed"
       /\ \A s \in dispatched \ inFlight : Done(s) \/ parent[s] = "failed"

WInv ==
  /\ IInv
  /\ RowsSeeded /\ PhaseReached /\ JobsHaveSteps /\ Walk /\ Halting /\ Returned

-----------------------------------------------------------------------------
(* What follows from it for the actions of a step and of a job.            *)

LEMMA PhaseStepsAreSteps ==
  ASSUME TypeOK
  PROVE  /\ PhaseSteps(phase) \subseteq Steps
         /\ Fresh \subseteq PhaseSteps(phase) /\ Fresh \cap (inFlight \cup dispatched) = {}
         /\ phase = "projection" => PhaseSteps(phase) = Projection
         /\ phase = "extract" => PhaseSteps(phase) = Extract
         /\ phase = "arc" => PhaseSteps(phase) = Arc
         /\ phase \in {"projection", "extract", "arc"}
         /\ PhaseSteps(phase) \cap Arc # {} => phase = "arc"
BY StepsAssumption, DependsAssumption DEF PhaseSteps, Fresh, ReadySteps, TypeOK

\* A doomed walk leaves a step of its phase unfinished.
LEMMA DoomedUnfinished ==
  ASSUME WInv, Doomed
  PROVE  ~AllParentsComplete(PhaseSteps(phase)) /\ ~AllParentsComplete(Steps)
<1>1. PICK s \in dispatched : Failing(s)
  BY DEF Doomed
<1>2. s \in PhaseSteps(phase) /\ s \in Steps
  BY PhaseStepsAreSteps DEF WInv, IInv, Walk
<1>3. ~Done(s)
  BY <1>1, <1>2 DEF Failing, Done, DoneStatuses, WInv, IInv, StepsOwnRows
<1> QED BY <1>2, <1>3 DEF AllParentsComplete

LEMMA StepAtWork ==
  ASSUME WInv, NEW t \in Steps, stepPc[t] # "idle"
  PROVE  /\ t \in inFlight /\ t \in dispatched /\ t \in PhaseSteps(phase)
         /\ runPc \notin {"off", "seed", "reset", "enter"}
         /\ runPc # "dag" => Doomed
         /\ t \in Arc => phase = "arc"
         /\ t \in Extract \ Projection => phase \in {"extract", "arc"}
<1>1. t \in inFlight /\ t \in dispatched /\ t \in PhaseSteps(phase)
  BY DEF WInv, Walk
<1> QED BY <1>1, PhaseStepsAreSteps DEF WInv, IInv, Walk

\* A job that is not settled belongs to a step that waits, and is running.
LEMMA JobAtWork ==
  ASSUME WInv, NEW j \in Jobs, job[j] \in {"queued", "running", "reporting"}
  PROVE  /\ j[1] \in Steps /\ stepPc[j[1]] = "wait" /\ parent[j[1]] = "running"
         /\ ~AllAbsent
<1>1. j[1] \in Steps
  BY DEF Jobs
<1> QED BY <1>1 DEF WInv, JobsHaveSteps, IInv, StepsOwnRows, AllAbsent

\* The job a slot is given to, and the one a handler ends.
LEMMA JobMoves ==
  ASSUME WInv, JobStep
  PROVE  \E j \in Jobs :
           /\ job[j] \in {"queued", "running", "reporting"}
           /\ \A i \in Jobs \ {j} : job'[i] = job[i]
           /\ \A i \in Items \ {j} : child'[i] = child[i]
           /\ \/ StartJob /\ job[j] = "queued" /\ job'[j] = "ok" /\ UNCHANGED child /\ Skipped(j)
              \/ StartJob /\ job[j] = "queued" /\ job'[j] = "running" /\ ~Skipped(j)
              \/ /\ JobSucceeds(j) /\ job'[j] = "ok"
                 /\ j \in Items => child'[j] = "completed"
              \/ JobFails(j) /\ job'[j] \in {"reporting", "bad"}
              \/ ReportFailure(j) /\ job'[j] = "bad"
<1>1. CASE StartJob
  <2> DEFINE j == Head(queue)
  <2>1. j \in Jobs /\ job[j] = "queued"
    BY <1>1, HeadTailProperties DEF WInv, IInv, TypeOK, StartJob
  <2> HIDE DEF j
  <2>2. \A i \in Jobs \ {j} : job'[i] = job[i]
    BY <1>1, <2>1 DEF WInv, IInv, TypeOK, StartJob, j
  <2>3. \A i \in Items \ {j} : child'[i] = child[i]
    BY <1>1, <2>1 DEF WInv, IInv, TypeOK, StartJob, j
  <2>4. \/ job'[j] = "ok" /\ UNCHANGED child /\ Skipped(j)
        \/ job'[j] = "running" /\ ~Skipped(j)
    BY <1>1, <2>1 DEF WInv, IInv, TypeOK, StartJob, j
  <2> QED BY <1>1, <2>1, <2>2, <2>3, <2>4
<1>2. ASSUME NEW j \in Jobs, JobRuns(j)
      PROVE  /\ job[j] \in {"queued", "running", "reporting"}
             /\ \A i \in Jobs \ {j} : job'[i] = job[i]
             /\ \A i \in Items \ {j} : child'[i] = child[i]
             /\ \/ /\ JobSucceeds(j) /\ job'[j] = "ok"
                   /\ j \in Items => child'[j] = "completed"
                \/ JobFails(j) /\ job'[j] \in {"reporting", "bad"}
                \/ ReportFailure(j) /\ job'[j] = "bad"
  BY <1>2 DEF WInv, IInv, TypeOK, JobRuns, JobSucceeds, JobFails, ReportFailure
<1> QED BY <1>1, <1>2 DEF JobStep

-----------------------------------------------------------------------------
(* The parts of the invariant, one lemma each.                             *)

\* A step or a job at work shows that the rows are there.
LEMMA AtWorkSeeded ==
  ASSUME WInv
  PROVE  /\ \A t \in Steps : stepPc[t] \in {"start", "wait", "report"} => ~AllAbsent
         /\ \A j \in Jobs : job[j] \in {"queued", "running", "reporting"} => ~AllAbsent
<1>1. \A t \in Steps : stepPc[t] \in {"start", "wait", "report"} => parent[t] # "absent"
  BY DEF WInv, IInv, StepsOwnRows, Returned
<1> QED BY <1>1, JobAtWork DEF AllAbsent

LEMMA SeededKept ==
  ASSUME WInv, [Next]_vars
  PROVE  RowsSeeded'
<1>1. RowsSeeded /\ TypeOK
  BY DEF WInv, IInv
<1>2. Preview \in Steps /\ Steps # {}
  BY StepsAssumption
<1>3. bookDone => ~AllAbsent
  BY PhasesAssumption, StepsAssumption
     DEF WInv, IInv, PhasesInOrder, AllParentsComplete, Done, DoneStatuses, AllAbsent
<1>4. spent'["faults"] = 0 => spent["faults"] = 0 /\ ~RunThrows
  BY SpentGrows, <1>1 DEF Bounds
<1>5. CASE User
  <2>1. UNCHANGED <<parent, AllAbsent, NoneAbsent>>
    BY <1>5, UserLeaves DEF AllAbsent, NoneAbsent
  <2>2. AllAbsent => imp' = "pending"
    BY <1>1, <1>3, <1>5 DEF RowsSeeded, User, Start, ConfirmProjection, ChangeSelection,
       CloseWindow, ConfirmSelection, KeepSelection, Reselect
  <2>3. runPc' = runPc \/ runPc' = "seed"
    BY <1>5, UserLeaves DEF Start
  <2> QED BY <1>1, <1>4, <2>1, <2>2, <2>3 DEF RowsSeeded
<1>6. CASE Seed
  <2>1. AllAbsent => NoneAbsent' /\ \A s \in Steps : parent'[s] = "skipped" => s = Preview
    BY <1>6 DEF Seed, AllAbsent, NoneAbsent
  <2>2. ~AllAbsent => parent' = parent
    BY <1>6 DEF Seed, AllAbsent
  <2>3. runPc' = "reset"
    BY <1>6 DEF Seed
  <2>4. NoneAbsent' => ~AllAbsent'
    BY <1>2 DEF AllAbsent, NoneAbsent
  <2>5. NoneAbsent => ~AllAbsent
    BY <1>2 DEF AllAbsent, NoneAbsent
  <2>6. ~AllAbsent => NoneAbsent' /\ \A s \in Steps : parent'[s] = "skipped" => s = Preview
    BY <1>1, <2>2 DEF RowsSeeded, NoneAbsent
  <2> QED BY <2>1, <2>3, <2>4, <2>6 DEF RowsSeeded
<1>7. CASE ResetArc
  <2>1. NoneAbsent
    BY <1>1, <1>7 DEF RowsSeeded, ResetArc
  <2>2. NoneAbsent' /\ \A s \in Steps : parent'[s] = "skipped" => s = Preview
    BY <1>1, <1>7, <2>1 DEF RowsSeeded, ResetArc, NoneAbsent
  <2>3. ~AllAbsent'
    BY <1>2, <2>2 DEF AllAbsent, NoneAbsent
  <2> QED BY <1>7, <2>2, <2>3 DEF RowsSeeded, ResetArc
<1>8. CASE RunStep /\ ~Seed /\ ~ResetArc
  <2>1. UNCHANGED <<parent, AllAbsent, NoneAbsent>>
    BY <1>8, RunLeaves DEF AllAbsent, NoneAbsent
  <2>2. NoneAbsent \/ RunThrows
    BY <1>1, <1>8 DEF RowsSeeded, RunStep, PickPhase, EnterPhase, AfterDag, OpenGate,
       FinalizeRows, FinalizeSync, FinalizeStatus, FinalizeBook
  <2>3. NoneAbsent => ~AllAbsent
    BY <1>2 DEF AllAbsent, NoneAbsent
  <2>4. RunThrows => runPc' = "respond" /\ imp' = imp
    BY DEF RunThrows
  <2> QED BY <1>1, <1>4, <2>1, <2>2, <2>3, <2>4 DEF RowsSeeded
<1>9. ASSUME NEW t \in Steps, StepRuns(t) PROVE RowsSeeded'
  <2>1. /\ parent'[t] = parent[t] \/ (~AllAbsent /\ parent'[t] \in {"running", "completed", "failed"})
        /\ \A s \in Steps \ {t} : parent'[s] = parent[s]
    BY <1>1, <1>9, AtWorkSeeded DEF TypeOK, StepRuns, BeginSimple, BeginFanOut, BeginThrows,
       SettleStep, ReportStep, ReportStepThrows, ReturnStep
  <2>2. runPc' = runPc
    BY <1>1, <1>9, StepLeaves
  <2>3. imp' = imp \/ ~AllAbsent
    <3>1. CASE ReportStep(t)
      BY <3>1, AtWorkSeeded DEF ReportStep
    <3> QED BY <1>1, <1>9, <3>1, StepLeaves
  <2>4. CASE AllAbsent
    BY <1>1, <1>4, <2>1, <2>2, <2>3, <2>4 DEF RowsSeeded, AllAbsent, NoneAbsent
  <2>5. CASE ~AllAbsent
    <3>1. NoneAbsent'
      BY <1>1, <2>1, <2>5 DEF RowsSeeded, NoneAbsent
    <3>2. ~AllAbsent'
      BY <1>2, <3>1 DEF AllAbsent, NoneAbsent
    <3>3. \A s \in Steps : parent'[s] = "skipped" => s = Preview
      BY <1>1, <2>1 DEF RowsSeeded
    <3> QED BY <3>1, <3>2, <3>3 DEF RowsSeeded
  <2> QED BY <2>4, <2>5
<1>10. CASE Advance \/ JobStep \/ Ends \/ UNCHANGED vars
  <2>1. UNCHANGED <<parent, AllAbsent, NoneAbsent>> /\ (runPc' = runPc \/ runPc' = "off")
    BY <1>10, AdvanceLeaves, JobLeaves, EndsLeave DEF AllAbsent, NoneAbsent, vars
  <2>2. imp' = imp \/ ~AllAbsent
    BY <1>10, AdvanceLeaves, JobLeaves, EndsLeave, AtWorkSeeded DEF ReportFailure, vars
  <2> QED BY <1>1, <1>4, <2>1, <2>2 DEF RowsSeeded
<1> QED
  BY <1>5, <1>6, <1>7, <1>8, <1>9, <1>10, Activities

LEMMA ReachedKept ==
  ASSUME WInv, [Next]_vars
  PROVE  PhaseReached'
<1>1. PhaseReached /\ TypeOK
  BY DEF WInv, IInv
<1>2. /\ ProjectionDone => ProjectionDone'
      /\ ExtractDone => ExtractDone'
  BY PhasesKept DEF WInv
<1>3. bookDone => ProjectionDone /\ ExtractDone
  BY PhasesAreAllSteps DEF WInv, IInv, PhasesInOrder
<1>4. Preview \notin Arc /\ Preview \notin Extract \ Projection /\ Projection \cap Arc = {}
      /\ Arc \subseteq Steps /\ Extract \subseteq Steps
  BY StepsAssumption, DependsAssumption
<1>5. CASE User \/ Advance \/ JobStep \/ Ends \/ UNCHANGED vars
  <2>1. UNCHANGED <<bookDone, parent, phase>>
    BY <1>5, UserLeaves, AdvanceLeaves, JobLeaves, EndsLeave DEF vars
  <2> QED
    BY <1>1, <2>1 DEF PhaseReached, ProjectionDone, ExtractDone, AllParentsComplete, Done
<1>6. CASE Seed
  <2>1. UNCHANGED <<bookDone, phase>>
    BY <1>6 DEF Seed
  <2>2. \A s \in Steps : Done(s)' => Done(s) \/ s = Preview
    BY <1>6 DEF Seed, Done, DoneStatuses
  <2> QED BY <1>1, <1>2, <1>4, <2>1, <2>2 DEF PhaseReached
<1>7. CASE ResetArc
  <2>1. UNCHANGED <<bookDone, phase>>
    BY <1>7 DEF ResetArc
  <2>2. \A s \in Steps : Done(s)' => Done(s)
    BY <1>7 DEF ResetArc, Done, DoneStatuses
  <2> QED BY <1>1, <1>2, <1>4, <2>1, <2>2 DEF PhaseReached
<1>8. CASE PickPhase
  <2>1. UNCHANGED <<bookDone, parent>>
    BY <1>8 DEF PickPhase
  <2>2. /\ ProjectionDone' = ProjectionDone /\ ExtractDone' = ExtractDone
        /\ \A s \in Steps : Done(s)' = Done(s)
    BY <2>1 DEF ProjectionDone, ExtractDone, AllParentsComplete, Done
  <2>3. \/ phase' = phase
        \/ phase' = IF ~ProjectionDone THEN "projection"
                    ELSE IF ~ExtractDone THEN "extract" ELSE "arc"
    BY <1>8 DEF PickPhase, FirstUnfinished, ProjectionDone, ExtractDone
  <2>4. \A a \in Arc : Done(a) => ProjectionDone /\ ExtractDone
    BY <1>1 DEF PhaseReached
  <2> QED BY <1>1, <1>3, <1>4, <2>1, <2>2, <2>3, <2>4 DEF PhaseReached
<1>9. CASE FinalizeBook
  <2>1. AllParentsComplete(Steps)
    BY <1>9 DEF WInv, IInv, PhasesInOrder, FinalizeBook
  <2>2. phase = "arc"
    BY <1>1, <1>4, <2>1, PhasesAssumption DEF PhaseReached, AllParentsComplete
  <2>3. UNCHANGED <<parent, phase>>
    BY <1>9 DEF FinalizeBook
  <2> QED
    BY <1>1, <2>2, <2>3 DEF PhaseReached, ProjectionDone, ExtractDone, AllParentsComplete, Done
<1>10. CASE RunStep /\ ~Seed /\ ~ResetArc /\ ~PickPhase /\ ~FinalizeBook
  <2>1. UNCHANGED <<bookDone, parent, phase>>
    BY <1>10, RunLeaves
  <2> QED
    BY <1>1, <2>1 DEF PhaseReached, ProjectionDone, ExtractDone, AllParentsComplete, Done
<1>11. ASSUME NEW t \in Steps, StepRuns(t) PROVE PhaseReached'
  <2>1. /\ UNCHANGED <<bookDone, phase>> /\ stepPc[t] # "idle"
        /\ \A s \in Steps \ {t} : Done(s)' = Done(s)
    BY <1>1, <1>11, StepLeaves, RunLeaves DEF Done
  <2>2. UNCHANGED phase
    BY <1>1, <1>11, StepLeaves
  <2>3. /\ t \in Arc => phase = "arc"
        /\ t \in Extract \ Projection => ProjectionDone
    BY <1>1, <2>1, StepAtWork DEF PhaseReached
  <2> QED BY <1>1, <1>2, <1>4, <2>1, <2>2, <2>3 DEF PhaseReached
<1> QED
  BY <1>5, <1>6, <1>7, <1>8, <1>9, <1>10, <1>11, Activities

LEMMA JobStepsKept ==
  ASSUME WInv, [Next]_vars
  PROVE  JobsHaveSteps'
<1> DEFINE
  Has(j) == /\ job[j] # "none" => stepPc[j[1]] \in {"wait", "report", "return"}
            /\ job[j] \in {"queued", "running", "reporting"} => stepPc[j[1]] = "wait"
            /\ job[j] = "ok" /\ j \in Items => child[j] = "completed"
<1> SUFFICES ASSUME NEW j \in Jobs PROVE Has(j)'
  BY DEF JobsHaveSteps
<1>1. Has(j) /\ TypeOK /\ j[1] \in Steps
  BY DEF WInv, IInv, JobsHaveSteps, Jobs
<1>2. Items \subseteq Jobs
  BY StepsAssumption DEF Items, Jobs
<1>3. CASE User \/ RunStep \/ UNCHANGED vars
  <2>1. UNCHANGED <<job, stepPc, child>>
    BY <1>3, UserLeaves, RunLeaves DEF vars
  <2> QED BY <1>1, <2>1
<1>4. CASE Ends
  <2>1. job'[j] = "none"
    BY <1>4, EndsLeave
  <2> QED BY <2>1
<1>5. CASE Advance
  <2>1. UNCHANGED <<job, child>>
    BY <1>5, AdvanceLeaves
  <2>2. stepPc[j[1]] # "idle" => stepPc'[j[1]] = stepPc[j[1]]
    BY <1>1, <1>5, AdvanceLeaves, StepAtWork, PhaseStepsAreSteps DEF AdvanceDispatch
  <2> QED BY <1>1, <2>1, <2>2
<1>6. ASSUME NEW t \in Steps, StepRuns(t) PROVE Has(j)'
  <2>1. CASE j[1] # t
    <3>1. job'[j] = job[j] /\ stepPc'[j[1]] = stepPc[j[1]]
      BY <1>1, <1>6, <2>1, StepLeaves
    <3>2. j \in Items /\ child[j] = "completed" => child'[j] = "completed"
      BY <1>1, <1>6, StepLeaves DEF BeginFanOut
    <3> QED BY <1>1, <3>1, <3>2
  <2>2. CASE j[1] = t
    <3>1. CASE BeginSimple(t)
      <4>1. job[j] = "none"
        BY <1>1, <2>2, <3>1 DEF BeginSimple
      <4>2. \/ job'[j] = "none"
            \/ job'[j] = "queued" /\ stepPc'[t] = "wait"
        BY <1>1, <3>1, <4>1 DEF BeginSimple, TypeOK
      <4> QED BY <2>2, <4>2
    <3>2. CASE BeginFanOut(t)
      <4>1. job[j] = "none"
        BY <1>1, <2>2, <3>2 DEF BeginFanOut
      <4>2. \/ job'[j] = "none"
            \/ job'[j] = "queued" /\ stepPc'[t] = "wait"
        BY <1>1, <3>2, <4>1 DEF BeginFanOut, TypeOK
      <4> QED BY <2>2, <4>2
    <3>3. CASE BeginThrows(t)
      <4>1. job[j] = "none" /\ job' = job
        BY <1>1, <2>2, <3>3 DEF BeginThrows
      <4> QED BY <4>1
    <3>4. CASE SettleStep(t)
      <4>1. job' = job /\ child' = child /\ stepPc'[t] \in {"report", "return"}
        BY <1>1, <3>4 DEF SettleStep, TypeOK
      <4>2. job[j] = "none" \/ job[j] \in {"ok", "bad"}
        BY <2>2, <3>4 DEF SettleStep, JobsOf
      <4> QED BY <1>1, <2>2, <4>1, <4>2
    <3>5. CASE ReportStep(t) \/ ReportStepThrows(t)
      <4>1. job' = job /\ child' = child /\ stepPc[t] = "report" /\ stepPc'[t] = "return"
        BY <1>1, <3>5 DEF ReportStep, ReportStepThrows, TypeOK
      <4> QED BY <1>1, <2>2, <4>1
    <3>6. CASE ReturnStep(t)
      <4>1. job'[j] = "none"
        BY <2>2, <3>6 DEF ReturnStep
      <4> QED BY <4>1
    <3> QED BY <1>6, <3>1, <3>2, <3>3, <3>4, <3>5, <3>6 DEF StepRuns
  <2> QED BY <2>1, <2>2
<1>7. CASE JobStep
  <2>1. stepPc' = stepPc
    BY <1>7, JobLeaves
  <2>2. PICK i \in Jobs :
           /\ job[i] \in {"queued", "running", "reporting"}
           /\ \A k \in Jobs \ {i} : job'[k] = job[k]
           /\ \A k \in Items \ {i} : child'[k] = child[k]
           /\ \/ job'[i] = "ok" /\ UNCHANGED child /\ Skipped(i)
              \/ job'[i] = "ok" /\ (i \in Items => child'[i] = "completed")
              \/ job'[i] \in {"running", "reporting", "bad"}
    BY <1>7, JobMoves
  <2>3. CASE j # i
    BY <1>1, <2>1, <2>2, <2>3
  <2>4. CASE j = i
    BY <1>1, <2>1, <2>2, <2>4 DEF Skipped
  <2> QED BY <2>3, <2>4
<1> HIDE DEF Has
<1> QED BY <1>3, <1>4, <1>5, <1>6, <1>7, Activities

\* A walk stays doomed to its end.
LEMMA DoomedKept ==
  ASSUME WInv, [Next]_vars, Doomed, UNCHANGED retryFailed, dispatched \subseteq dispatched'
  PROVE  Doomed'
<1> SUFFICES ASSUME ~retryFailed, NEW s \in dispatched, Failing(s)
             PROVE  Failing(s)'
  BY DEF Doomed
<1>1. TypeOK /\ s \in Steps /\ runPc \notin {"off", "seed", "reset", "enter"}
  BY PhaseStepsAreSteps DEF WInv, IInv, Walk
<1>2. stepPc[s] = "start" => parent[s] # "failed"
  BY <1>1 DEF WInv, Halting
<1>3. stepPc[s] \in {"start", "wait"} /\ Failing(s) =>
        stepPc[s] = "wait" /\ \E j \in Jobs : j[1] = s /\ job[j] = "bad"
  BY <1>1, <1>2 DEF Failing, WInv, IInv, StepsOwnRows
<1>4. CASE UNCHANGED <<parent, stepPc, job>>
  BY <1>4 DEF Failing
<1>5. CASE Advance
  <2>1. UNCHANGED <<parent, job>>
    BY <1>5, AdvanceLeaves
  <2>2. stepPc[s] # "idle" => stepPc'[s] = stepPc[s]
    BY <1>1, <1>5, AdvanceLeaves, StepAtWork, PhaseStepsAreSteps DEF AdvanceDispatch
  <2> QED BY <2>1, <2>2 DEF Failing
<1>6. CASE JobStep
  <2>1. UNCHANGED <<parent, stepPc>>
    BY <1>6, JobLeaves
  <2>2. \A j \in Jobs : job[j] = "bad" => job'[j] = "bad"
    BY <1>6, JobMoves
  <2> QED BY <2>1, <2>2 DEF Failing
<1>7. ASSUME NEW t \in Steps, StepRuns(t) PROVE Failing(s)'
  <2>1. CASE s # t
    <3>1. parent'[s] = parent[s] /\ stepPc'[s] = stepPc[s]
      BY <1>1, <1>7, <2>1, StepLeaves
    <3>2. \A j \in Jobs : j[1] = s => job'[j] = job[j]
      BY <1>1, <1>7, <2>1, StepLeaves
    <3> QED BY <3>1, <3>2 DEF Failing
  <2>2. CASE s = t
    <3>1. stepPc[s] # "start"
      BY <1>3
    <3>2. CASE SettleStep(t)
      <4>1. \E j \in JobsOf(t) : job[j] = "bad"
        BY <1>3, <2>2, <3>2 DEF SettleStep, JobsOf
      <4>2. parent'[t] = "failed"
        BY <1>1, <3>2, <4>1 DEF SettleStep, TypeOK
      <4> QED BY <2>2, <4>2 DEF Failing
    <3>3. CASE ~SettleStep(t)
      <4>1. parent' = parent
        BY <1>1, <1>7, <2>2, <3>1, <3>3, StepLeaves DEF BeginSimple, BeginFanOut
      <4>2. stepPc[s] # "wait"
        BY <1>7, <2>2, <3>1, <3>3 DEF StepRuns, BeginSimple, BeginFanOut, BeginThrows,
           ReportStep, ReportStepThrows, ReturnStep
      <4> QED BY <4>1, <4>2 DEF Failing
    <3> QED BY <3>2, <3>3
  <2> QED BY <2>1, <2>2
<1>8. CASE Seed \/ ResetArc \/ Ends
  <2>1. CASE Seed \/ ResetArc
    BY <1>1, <2>1 DEF Seed, ResetArc
  <2>2. CASE Ends
    BY <2>2, EndsLeave
  <2> QED BY <1>8, <2>1, <2>2
<1> QED
  BY <1>4, <1>5, <1>6, <1>7, <1>8, Activities, UserLeaves, RunLeaves DEF vars

\* Only a walk that goes on becomes doomed: nothing else has steps at work.
LEMMA DoomedBegins ==
  ASSUME WInv, [Next]_vars, Doomed', ~Doomed
  PROVE  runPc = "dag" /\ runPc' = "dag"
<1>1. TypeOK /\ Walk
  BY DEF WInv, IInv
<1>2. PICK s \in dispatched' : Failing(s)' /\ ~retryFailed'
  BY DEF Doomed
<1>3. CASE User
  <2>1. UNCHANGED <<dispatched, parent, stepPc, job>>
    BY <1>3, UserLeaves
  <2>2. Failing(s) /\ s \in dispatched
    BY <1>2, <2>1 DEF Failing
  <2>3. Start \/ UNCHANGED retryFailed
    BY <1>3, UserLeaves
  <2>4. CASE Start
    BY <1>1, <2>2, <2>4 DEF Start, Walk
  <2> QED BY <1>2, <2>2, <2>3, <2>4 DEF Doomed
<1>4. CASE RunStep
  <2>1. CASE PickPhase
    BY <1>2, <2>1 DEF PickPhase
  <2>2. CASE Seed \/ ResetArc
    BY <1>1, <1>2, <2>2 DEF Seed, ResetArc, Walk
  <2>3. CASE ~PickPhase /\ ~Seed /\ ~ResetArc
    <3>1. UNCHANGED <<dispatched, parent, stepPc, job, retryFailed>>
      BY <1>4, <2>3, RunLeaves
    <3> QED BY <1>2, <3>1 DEF Failing, Doomed
  <2> QED BY <2>1, <2>2, <2>3
<1>5. CASE Ends
  BY <1>2, <1>5, EndsLeave
<1>6. CASE UNCHANGED vars
  BY <1>2, <1>6 DEF vars, Failing, Doomed
<1>7. CASE Advance
  <2>1. UNCHANGED <<parent, job, retryFailed>>
    BY <1>7, AdvanceLeaves
  <2>2. CASE AdvanceDispatch
    <3>1. s \in dispatched => stepPc'[s] = stepPc[s]
      BY <1>1, <2>2, PhaseStepsAreSteps DEF AdvanceDispatch, Walk
    <3>2. s \notin dispatched => s \in Fresh /\ stepPc'[s] = "start"
      BY <1>1, <1>2, <2>2, PhaseStepsAreSteps DEF AdvanceDispatch
    <3>3. s \in Fresh => parent[s] # "failed"
      BY <1>2, <2>1 DEF Fresh, ReadySteps, CandidateStatuses
    <3> QED BY <1>2, <2>1, <3>1, <3>2, <3>3 DEF Failing, Doomed
  <2>3. CASE ~AdvanceDispatch
    <3>1. UNCHANGED <<dispatched, stepPc>>
      BY <1>7, <2>3, AdvanceLeaves
    <3> QED BY <1>2, <2>1, <3>1 DEF Failing, Doomed
  <2> QED BY <2>2, <2>3
<1>8. ASSUME NEW t \in Steps, StepRuns(t) PROVE runPc = "dag" /\ runPc' = "dag"
  BY <1>1, <1>8, StepLeaves, StepAtWork
<1>9. CASE JobStep
  <2>1. PICK j \in Jobs : job[j] \in {"queued", "running", "reporting"}
    BY <1>9, JobMoves
  <2>2. runPc = "dag"
    BY <2>1, JobAtWork, StepAtWork
  <2> QED BY <1>9, <2>2, JobLeaves
<1> QED BY <1>3, <1>4, <1>5, <1>6, <1>7, <1>8, <1>9, Activities

\* Unless it is doomed, a walk that is over has nothing left to dispatch.
LEMMA FreshKept ==
  ASSUME WInv, [Next]_vars, UNCHANGED <<parent, phase, retryFailed, inFlight, dispatched>>
  PROVE  Fresh' = Fresh
BY DEF Fresh, ReadySteps, CandidateStatuses, PhaseSteps, DepsDone, Done

LEMMA WalkKept ==
  ASSUME WInv, [Next]_vars
  PROVE  Walk'
<1>1. TypeOK /\ Walk /\ Halting
  BY DEF WInv, IInv
<1>2. dispatched = {} => ~Doomed
  BY DEF Doomed
<1>3. CASE User
  <2>1. UNCHANGED <<parent, phase, inFlight, dispatched, resolved, adv, stepPc, job>>
    BY <1>3, UserLeaves
  <2>2. Doomed' <=> Doomed
    <3>1. CASE Start
      BY <1>1, <2>1, <3>1 DEF Start, Walk, Doomed
    <3>2. CASE ~Start
      BY <1>3, <2>1, <3>2, UserLeaves DEF Doomed, Failing
    <3> QED BY <3>1, <3>2
  <2>3. CASE Start
    BY <1>1, <2>1, <2>2, <2>3 DEF Start, Walk, PhaseSteps
  <2>4. CASE ~Start
    <3>1. UNCHANGED <<runPc, retryFailed>>
      BY <1>3, <2>4, UserLeaves
    <3>2. Fresh' = Fresh
      BY <2>1, <3>1, FreshKept
    <3> QED BY <1>1, <2>1, <2>2, <3>1, <3>2 DEF Walk, PhaseSteps
  <2> QED BY <2>3, <2>4
<1>4. CASE PickPhase
  <2>1. /\ inFlight' = {} /\ dispatched' = {} /\ ~resolved' /\ adv' = NoAdvance
        /\ runPc = "pick" /\ runPc' \in {"finRows", "enter"} /\ stepPc' = stepPc
    BY <1>4 DEF PickPhase
  <2>2. \A s \in Steps : stepPc[s] = "idle"
    BY <1>1, <2>1 DEF Walk
  <2>3. ~Doomed'
    BY <2>1 DEF Doomed
  <2> QED BY <2>1, <2>2, <2>3 DEF Walk
<1>5. CASE Seed \/ ResetArc
  <2>1. /\ UNCHANGED <<phase, inFlight, dispatched, resolved, adv, stepPc>>
        /\ runPc \in {"seed", "reset"} /\ runPc' \in {"reset", "pick"}
    BY <1>5 DEF Seed, ResetArc
  <2>2. dispatched = {} /\ ~resolved /\ adv = NoAdvance /\ ~Doomed'
    BY <1>1, <2>1 DEF Walk, Doomed
  <2> QED BY <1>1, <2>1, <2>2 DEF Walk, PhaseSteps
<1>6. CASE RunStep /\ ~PickPhase /\ ~Seed /\ ~ResetArc
  <2>1. UNCHANGED <<parent, phase, retryFailed, inFlight, dispatched, resolved, stepPc, job>>
    BY <1>6, RunLeaves
  <2>2. Fresh' = Fresh /\ Doomed' = Doomed /\ PhaseSteps(phase)' = PhaseSteps(phase)
    BY <2>1, FreshKept DEF Doomed, Failing, PhaseSteps
  <2>3. CASE EnterPhase
    BY <1>1, <2>1, <2>2, <2>3 DEF Walk, EnterPhase
  <2>4. CASE AfterDag
    <3>1. UNCHANGED adv /\ runPc = "dag" /\ resolved /\ runPc' \in {"finRows", "pick", "gate"}
      BY <2>4 DEF AfterDag, NextAfterDag, NextAfterDone
    <3>2. Doomed => runPc' = "finRows"
      BY <2>4, DoomedUnfinished DEF AfterDag, NextAfterDag
    <3> QED BY <1>1, <2>1, <2>2, <3>1, <3>2 DEF Walk
  <2>5. CASE RunThrows
    <3>1. UNCHANGED adv /\ runPc # "dag" /\ runPc' = "respond"
      BY <2>5 DEF RunThrows
    <3> QED BY <1>1, <2>1, <2>2, <3>1 DEF Walk
  <2>6. CASE ~EnterPhase /\ ~AfterDag /\ ~RunThrows
    <3>1. /\ UNCHANGED adv /\ runPc # "dag"
          /\ runPc' \in {"finRows", "finSync", "respond", "finStatus", "finBook"}
          /\ runPc' \in {"finSync", "finStatus", "finBook"} => ~Doomed
      BY <1>1, <1>6, <2>6, DoomedUnfinished DEF Walk, RunStep, OpenGate, FinalizeRows,
         ImportFinished, FinalizeSync, FinalizeStatus, FinalizeBook
    <3>2. Doomed => runPc' \in {"finRows", "respond"}
      BY <3>1
    <3> QED BY <1>1, <2>1, <2>2, <3>1, <3>2 DEF Walk
  <2> QED BY <2>3, <2>4, <2>5, <2>6
<1>7. CASE Advance
  <2>1. /\ UNCHANGED <<parent, phase, retryFailed, runPc, job>> /\ dispatched \subseteq dispatched'
        /\ adv # NoAdvance
    <3>1. dispatched \subseteq dispatched'
      BY <1>7, AdvanceLeaves DEF AdvanceDispatch
    <3>2. \E a \in AdvancePcs : adv[a] # 0
      BY <1>7 DEF Advance, AdvanceReadImport, AdvanceHalt, AdvanceDispatch, AdvancePcs
    <3> QED BY <1>7, <3>1, <3>2, AdvanceLeaves DEF NoAdvance
  <2>2. runPc \notin {"off", "seed", "reset", "enter"}
    BY <1>1, <2>1 DEF Walk
  <2>3. Doomed => Doomed'
    BY <2>1, DoomedKept
  <2>4. Doomed' => Doomed \/ runPc' = "dag"
    BY DoomedBegins
  <2>5. CASE AdvanceDispatch
    <3>1. /\ inFlight' = inFlight \cup Fresh /\ dispatched' = dispatched \cup Fresh
          /\ \A s \in Steps : stepPc'[s] # "idle" => stepPc[s] # "idle" \/ s \in Fresh
          /\ resolved' = (resolved \/ (Fresh = {} /\ inFlight = {}))
      BY <2>5 DEF AdvanceDispatch, WalkOver
    <3>2. Fresh = {} => Fresh' = {}
      BY <2>1, <3>1, FreshKept
    <3>3. PhaseSteps(phase)' = PhaseSteps(phase) /\ Fresh \subseteq PhaseSteps(phase)
      BY <1>1, <2>1, PhaseStepsAreSteps DEF PhaseSteps
    <3> QED BY <1>1, <2>1, <2>2, <2>3, <2>4, <3>1, <3>2, <3>3 DEF Walk
  <2>6. CASE ~AdvanceDispatch
    <3>1. UNCHANGED <<inFlight, dispatched, stepPc>>
      BY <1>7, <2>6, AdvanceLeaves
    <3>2. Fresh' = Fresh /\ PhaseSteps(phase)' = PhaseSteps(phase) /\ Doomed' = Doomed
      BY <2>1, <3>1, FreshKept DEF PhaseSteps, Doomed, Failing
    <3>3. resolved' = resolved \/ (AdvanceHalt /\ resolved' = TRUE /\ inFlight = {})
      BY <1>1, <1>7, <2>6, AdvanceLeaves DEF AdvanceHalt, TypeOK
    <3>4. AdvanceHalt => Doomed
      BY <1>1, <2>2 DEF AdvanceHalt, Halting, TypeOK
    <3> QED BY <1>1, <2>1, <2>2, <3>1, <3>2, <3>3, <3>4 DEF Walk
  <2> QED BY <2>5, <2>6
<1>8. ASSUME NEW t \in Steps, StepRuns(t) PROVE Walk'
  <2>1. /\ UNCHANGED <<runPc, phase, retryFailed, dispatched, resolved>> /\ stepPc[t] # "idle"
        /\ \A s \in Steps \ {t} : stepPc'[s] = stepPc[s]
        /\ \A s \in Steps \ {t} : s \in inFlight' <=> s \in inFlight
    BY <1>1, <1>8, StepLeaves
  <2>2. /\ t \in inFlight /\ t \in dispatched
        /\ runPc \notin {"off", "seed", "reset", "enter"}
        /\ runPc # "dag" => Doomed
    BY <2>1, StepAtWork
  <2>3. stepPc'[t] # "idle" => t \in inFlight'
    BY <1>1, <1>8, <2>2, StepLeaves DEF ReturnStep, TypeOK
  <2>4. inFlight' \subseteq inFlight
    BY <1>1, <1>8, StepLeaves DEF ReturnStep
  <2>5. Doomed => Doomed'
    BY <2>1, DoomedKept
  <2>6. Doomed' => Doomed \/ runPc' = "dag"
    BY DoomedBegins
  <2> QED BY <1>1, <2>1, <2>2, <2>3, <2>4, <2>5, <2>6 DEF Walk, PhaseSteps
<1>9. CASE JobStep
  <2>1. UNCHANGED <<parent, phase, retryFailed, runPc, inFlight, dispatched, resolved, adv, stepPc>>
    BY <1>9, JobLeaves
  <2>2. Fresh' = Fresh /\ PhaseSteps(phase)' = PhaseSteps(phase)
    BY <2>1, FreshKept DEF PhaseSteps
  <2>3. Doomed => Doomed'
    BY <2>1, DoomedKept
  <2>4. Doomed' => Doomed \/ runPc' = "dag"
    BY DoomedBegins
  <2> QED BY <1>1, <2>1, <2>2, <2>3, <2>4 DEF Walk
<1>10. CASE Ends
  BY <1>10, EndsLeave DEF Walk, Doomed
<1>11. CASE UNCHANGED vars
  <2>1. Fresh' = Fresh /\ Doomed' = Doomed /\ PhaseSteps(phase)' = PhaseSteps(phase)
    BY <1>11, FreshKept DEF vars, Doomed, Failing, PhaseSteps
  <2> QED BY <1>1, <1>11, <2>1 DEF vars, Walk
<1> QED
  BY <1>3, <1>4, <1>5, <1>6, <1>7, <1>8, <1>9, <1>10, <1>11, Activities

LEMMA HaltingKept ==
  ASSUME WInv, [Next]_vars
  PROVE  Halting'
<1>1. TypeOK /\ Walk /\ Halting /\ Returned /\ RowsSeeded
  BY DEF WInv, IInv
<1>2. NoAdvance["halt"] = 0
  BY DEF NoAdvance, AdvancePcs
<1>3. CASE User
  <2>1. /\ UNCHANGED <<parent, dispatched, adv, stepPc>>
        /\ imp' = "failed" => imp = "failed"
    BY <1>3, UserLeaves DEF User, Start, ConfirmProjection, ChangeSelection,
       CloseWindow, ConfirmSelection, KeepSelection, Reselect
  <2>2. CASE Start
    <3>1. runPc = "off" /\ adv = NoAdvance /\ \A s \in Steps : stepPc[s] = "idle"
      BY <1>1, <2>2 DEF Start, Walk
    <3>2. imp = "failed" => retryFailed'
      BY <1>1, <2>2 DEF Start, RowsSeeded, AllAbsent
    <3> QED BY <1>2, <2>1, <2>2, <3>1, <3>2 DEF Halting, Start
  <2>3. CASE ~Start
    <3>1. UNCHANGED <<runPc, retryFailed>>
      BY <1>3, <2>3, UserLeaves
    <3> QED BY <1>1, <2>1, <3>1, DoomedKept DEF Halting
  <2> QED BY <2>2, <2>3
<1>4. CASE PickPhase
  <2>1. ~(~retryFailed /\ imp = "failed")
    BY <1>1, <1>4 DEF Halting, Walk, PickPhase
  <2>2. \A s \in Steps : stepPc[s] = "idle"
    BY <1>1, <1>4 DEF Walk, PickPhase
  <2> QED BY <1>2, <1>4, <2>1, <2>2 DEF Halting, PickPhase
<1>5. CASE RunStep /\ ~PickPhase
  <2>1. UNCHANGED <<dispatched, stepPc, retryFailed>> /\ (imp' = "failed" => imp = "failed")
    <3>1. EnterPhase => imp' # "failed"
      BY <1>1 DEF EnterPhase, PhaseStatus, TypeOK
    <3>2. OpenGate \/ FinalizeStatus => imp' # "failed"
      BY DEF OpenGate, FinalizeStatus
    <3> QED BY <1>5, <3>1, <3>2, RunLeaves
  <2>2. adv'["halt"] = adv["halt"]
    BY <1>1, <1>5, RunLeaves DEF EnterPhase, TypeOK, AdvancePcs
  <2>3. ~retryFailed => \A s \in Steps : stepPc'[s] = "start" => parent'[s] # "failed"
    <3>1. CASE Seed \/ ResetArc
      BY <2>1, <3>1 DEF Seed, ResetArc, WInv, IInv, IdleBetweenRuns
    <3> QED BY <1>1, <1>5, <2>1, <3>1, RunLeaves DEF Halting
  <2>4. runPc # "off"
    BY <1>5 DEF RunStep, Seed, ResetArc, PickPhase, EnterPhase, AfterDag, OpenGate,
       FinalizeRows, FinalizeSync, FinalizeStatus, FinalizeBook, RunThrows
  <2> QED BY <1>1, <2>1, <2>2, <2>3, <2>4, DoomedKept DEF Halting
<1>6. CASE Advance
  <2>1. UNCHANGED <<imp, parent, retryFailed, runPc>>
    BY <1>6, AdvanceLeaves
  <2>2. dispatched \subseteq dispatched'
    BY <1>6, AdvanceLeaves DEF AdvanceDispatch
  <2>3. adv'["halt"] > 0 => adv["halt"] > 0 \/ Halts
    BY <1>1, <1>6 DEF TypeOK, Advance, AdvanceReadImport, AdvanceHalt, AdvanceDispatch,
       AdvancePcs
  <2>4. ~retryFailed => \A s \in Steps : stepPc'[s] = "start" => parent'[s] # "failed"
    <3>1. CASE AdvanceDispatch
      <4>1. ~retryFailed => \A s \in Fresh : parent[s] # "failed"
        BY DEF Fresh, ReadySteps, CandidateStatuses
      <4> QED BY <1>1, <2>1, <3>1, <4>1 DEF AdvanceDispatch, Halting
    <3> QED BY <1>1, <1>6, <2>1, <3>1, AdvanceLeaves DEF Halting
  <2>5. adv["halt"] \in Nat /\ adv'["halt"] \in Nat
    <3>1. adv' \in [AdvancePcs -> Nat]
      BY NextTypeOK, <1>1 DEF TypeOK
    <3> QED BY <1>1, <3>1 DEF TypeOK, AdvancePcs
  <2> QED BY <1>1, <2>1, <2>2, <2>3, <2>4, <2>5, DoomedKept DEF Halting, Halts
<1>7. ASSUME NEW t \in Steps, StepRuns(t) PROVE Halting'
  <2>1. /\ UNCHANGED <<runPc, retryFailed, dispatched>> /\ stepPc[t] # "idle"
        /\ \A s \in Steps \ {t} : stepPc'[s] = stepPc[s] /\ parent'[s] = parent[s]
    BY <1>1, <1>7, StepLeaves
  <2>2. adv'["halt"] = adv["halt"]
    BY <1>1, <1>7, StepLeaves DEF ReturnStep, TypeOK, AdvancePcs
  <2>3. stepPc'[t] # "start"
    BY <1>1, <1>7 DEF TypeOK, StepRuns, BeginSimple, BeginFanOut, BeginThrows, SettleStep,
       ReportStep, ReportStepThrows, ReturnStep
  <2>4. imp' = imp \/ (imp' = "failed" /\ parent[t] = "failed")
    BY <1>1, <1>7, StepLeaves DEF ReportStep, StatusAfterFailure, Returned
  <2>5. ~retryFailed /\ parent[t] = "failed" => Doomed
    BY <2>1, StepAtWork DEF Doomed, Failing
  <2> QED BY <1>1, <2>1, <2>2, <2>3, <2>4, <2>5, DoomedKept DEF Halting
<1>8. CASE JobStep
  <2>1. UNCHANGED <<parent, runPc, retryFailed, dispatched, adv, stepPc>>
    BY <1>8, JobLeaves
  <2>2. CASE imp' = imp
    BY <1>1, <2>1, <2>2, DoomedKept DEF Halting
  <2>3. ASSUME NEW j \in Jobs, ReportFailure(j) PROVE ~retryFailed => Doomed'
    <3>1. job[j] = "reporting" /\ job'[j] = "bad"
      BY <1>1, <2>3 DEF ReportFailure, TypeOK
    <3>2. j[1] \in Steps /\ stepPc[j[1]] = "wait" /\ j[1] \in dispatched
      BY <3>1, JobAtWork, StepAtWork
    <3>3. Failing(j[1])'
      BY <2>1, <3>1, <3>2 DEF Failing
    <3> QED BY <2>1, <3>2, <3>3 DEF Doomed
  <2> QED BY <1>1, <1>8, <2>1, <2>2, <2>3, JobLeaves DEF Halting
<1>9. CASE Ends
  BY <1>2, <1>9, EndsLeave DEF Halting
<1>10. CASE UNCHANGED vars
  BY <1>1, <1>10, DoomedKept DEF vars, Halting
<1> QED BY <1>3, <1>4, <1>5, <1>6, <1>7, <1>8, <1>9, <1>10, Activities

LEMMA ReturnedKept ==
  ASSUME WInv, [Next]_vars
  PROVE  Returned'
<1>1. TypeOK /\ Walk /\ Returned /\ dispatched \subseteq Steps
  BY PhaseStepsAreSteps DEF WInv, IInv, Walk
<1>2. spent'["faults"] = 0 =>
        spent["faults"] = 0 /\ \A t \in Steps : ~BeginThrows(t) /\ ~ReportStepThrows(t)
  BY SpentGrows, <1>1 DEF Bounds
<1>3. CASE Seed \/ ResetArc
  <2>1. \A s \in Steps : stepPc'[s] = "idle"
    BY <1>3 DEF Seed, ResetArc, WInv, IInv, IdleBetweenRuns
  <2>2. dispatched' = {}
    BY <1>1, <1>3 DEF Seed, ResetArc, Walk
  <2> QED BY <2>1, <2>2 DEF Returned
<1>4. CASE PickPhase \/ Ends
  <2>1. \A s \in Steps : stepPc'[s] = "idle"
    BY <1>1, <1>4, EndsLeave DEF PickPhase, Walk
  <2>2. dispatched' = {}
    BY <1>4, EndsLeave DEF PickPhase
  <2> QED BY <2>1, <2>2 DEF Returned
<1>5. CASE UNCHANGED <<parent, stepPc, dispatched, inFlight>>
  BY <1>1, <1>2, <1>5 DEF Returned, Done
<1>6. CASE AdvanceDispatch
  <2>1. /\ UNCHANGED parent
        /\ dispatched' \ inFlight' = (dispatched \ inFlight) \ Fresh
        /\ \A s \in Steps : stepPc'[s] \in {"report", "return"} => stepPc'[s] = stepPc[s]
    BY <1>6 DEF AdvanceDispatch
  <2> QED BY <1>1, <1>2, <2>1 DEF Returned, Done
<1>7. ASSUME NEW t \in Steps, StepRuns(t) PROVE Returned'
  <2>1. /\ UNCHANGED dispatched /\ stepPc[t] # "idle" /\ t \in inFlight
        /\ \A s \in Steps \ {t} : stepPc'[s] = stepPc[s] /\ parent'[s] = parent[s]
        /\ \A s \in Steps \ {t} : s \in inFlight' <=> s \in inFlight
    BY <1>1, <1>7, StepLeaves, StepAtWork
  <2>2. stepPc'[t] = "report" => parent'[t] = "failed"
    BY <1>1, <1>7 DEF TypeOK, StepRuns, BeginSimple, BeginFanOut, BeginThrows, SettleStep,
       ReportStep, ReportStepThrows, ReturnStep
  <2>3. spent'["faults"] = 0 /\ stepPc'[t] = "return" => Done(t)' \/ parent'[t] = "failed"
    BY <1>1, <1>2, <1>7 DEF TypeOK, StepRuns, BeginSimple, BeginFanOut, SettleStep,
       ReportStep, ReturnStep, Returned, Done, DoneStatuses
  <2>4. spent'["faults"] = 0 /\ t \notin inFlight' => Done(t)' \/ parent'[t] = "failed"
    <3>1. t \notin inFlight' => ReturnStep(t)
      BY <1>1, <1>7, <2>1, StepLeaves
    <3> QED BY <1>1, <1>2, <3>1 DEF ReturnStep, Returned, Done
  <2> QED BY <1>1, <1>2, <2>1, <2>2, <2>3, <2>4 DEF Returned, Done
<1> QED
  BY <1>3, <1>4, <1>5, <1>6, <1>7, Activities, UserLeaves, RunLeaves, AdvanceLeaves,
     JobLeaves DEF vars

-----------------------------------------------------------------------------
(* A retrying run is quiet when it answers, and has left no step behind.   *)

LEMMA InitWInv == Init => WInv
<1> SUFFICES ASSUME Init PROVE WInv
  OBVIOUS
<1>1. IInv /\ AllAbsent /\ imp = "pending" /\ runPc = "off" /\ phase = "projection"
  BY InitIInv DEF Init, AllAbsent
<1>2. RowsSeeded /\ PhaseReached
  BY <1>1, StepsAssumption
     DEF Init, RowsSeeded, PhaseReached, AllAbsent, NoneAbsent, Done, DoneStatuses
<1>3. JobsHaveSteps /\ Walk /\ Halting /\ Returned
  BY DEF Init, JobsHaveSteps, Walk, Halting, Returned, Doomed, NoAdvance, AdvancePcs
<1> QED BY <1>1, <1>2, <1>3 DEF WInv

LEMMA NextWInv == WInv /\ [Next]_vars => WInv'
BY NextIInv, SeededKept, ReachedKept, JobStepsKept, WalkKept, HaltingKept, ReturnedKept
   DEF WInv

LEMMA WalksInvariant == Spec => []WInv
BY InitWInv, NextWInv, PTL DEF Spec

\* When a retrying run has left its walk, no step is at work: what runs on
\* after a failure can only belong to a first run.
THEOREM RetryIsQuiet == Spec => []RetryRunIsQuiet
<1>1. WInv => RetryRunIsQuiet
  BY DEF WInv, Walk, Doomed, RetryRunIsQuiet
<1> QED BY <1>1, WalksInvariant, PTL

-----------------------------------------------------------------------------
(* What a run that answers has done, while a reselection is seen through.  *)

\* The import row of a run that has not come to its end.
OpenStatuses == {"pending", "projection", "extract", "arc", "failed"}
OpenRuns ==
  ~ReselectAnytime /\ runPc \in {"seed", "reset", "pick", "enter", "dag", "gate"} =>
    imp \in OpenStatuses

\* A run gets to its end through a walk, or finds nothing to do.
Walked ==
  ~ReselectAnytime /\ spent["faults"] = 0
      /\ runPc \in {"gate", "finRows", "finSync", "finStatus", "finBook", "respond"} =>
    AllParentsComplete(Steps) \/ resolved

\* Where nothing fails, nothing has failed.
NothingFailed ==
  spent["failures"] = 0 /\ spent["faults"] = 0 =>
    /\ imp # "failed"
    /\ \A s \in Steps : parent[s] # "failed" /\ stepPc[s] # "report"
    /\ \A j \in Jobs : job[j] \notin {"bad", "reporting"}

\* A failed step that is back has left the import 'failed', or another one is
\* about to.
Unreported(t) ==
  stepPc[t] = "report" \/ (stepPc[t] = "wait" /\ \E j \in Jobs : j[1] = t /\ job[j] = "bad")
Visible ==
  ~ReselectAnytime /\ spent["faults"] = 0 =>
    ((\E s \in dispatched : parent[s] = "failed" /\ stepPc[s] \in {"idle", "return"}) =>
       imp = "failed" \/ \E t \in Steps : Unreported(t))

LEMMA OpenKept ==
  ASSUME WInv, OpenRuns, [Next]_vars
  PROVE  OpenRuns'
<1> SUFFICES ASSUME ~ReselectAnytime PROVE OpenRuns'
  BY DEF OpenRuns
<1>1. CASE User
  BY <1>1 DEF User, Start, ConfirmProjection, ChangeSelection, CloseWindow, ConfirmSelection,
     KeepSelection, Reselect, OpenRuns, OpenStatuses
<1>2. CASE RunStep
  BY <1>2 DEF OpenRuns, OpenStatuses, RunStep, Seed, ResetArc, PickPhase, EnterPhase,
     PhaseStatus, AfterDag, NextAfterDag, NextAfterDone, OpenGate, FinalizeRows, FinalizeSync,
     FinalizeStatus, FinalizeBook, RunThrows, WInv, IInv, TypeOK
<1>3. CASE Advance \/ Ends \/ UNCHANGED vars
  BY <1>3, AdvanceLeaves, EndsLeave DEF OpenRuns, vars
<1>4. ASSUME NEW t \in Steps, StepRuns(t) PROVE OpenRuns'
  <2>1. runPc' = runPc /\ imp' \in {imp, "failed"}
    BY <1>4, StepLeaves DEF ReportStep, StatusAfterFailure, WInv, IInv
  <2> QED BY <2>1 DEF OpenRuns, OpenStatuses
<1>5. CASE JobStep
  <2>1. runPc' = runPc /\ imp' \in {imp, "failed", "pending"}
    BY <1>5, JobLeaves DEF ReportFailure
  <2> QED BY <2>1 DEF OpenRuns, OpenStatuses
<1> QED BY <1>1, <1>2, <1>3, <1>4, <1>5, Activities

LEMMA WalkedKept ==
  ASSUME WInv, OpenRuns, Walked, [Next]_vars
  PROVE  Walked'
<1> SUFFICES ASSUME ~ReselectAnytime, spent'["faults"] = 0
             PROVE  Walked'
  BY DEF Walked
<1>1. spent["faults"] = 0 /\ ~RunThrows
  BY SpentGrows DEF Bounds, WInv, IInv
<1>2. ~ResetArc /\ AllParentsComplete(Steps) => AllParentsComplete(Steps)'
  BY CompleteKept DEF WInv
<1>3. CASE User
  BY <1>1, <1>3, UserLeaves DEF Walked, Start, AllParentsComplete, Done
<1>4. CASE PickPhase
  <2>1. runPc' = "finRows" => AllParentsComplete(Steps)
    BY <1>4 DEF PickPhase, OpenRuns, OpenStatuses
  <2>2. ~ResetArc /\ runPc' \in {"finRows", "enter"}
    BY <1>4 DEF PickPhase, ResetArc
  <2> QED BY <1>2, <2>1, <2>2 DEF Walked
<1>5. CASE RunStep /\ ~PickPhase
  <2>1. resolved' = resolved
    BY <1>5, RunLeaves
  <2>2. \/ runPc' \in {"reset", "pick", "enter", "dag"}
        \/ AfterDag /\ resolved /\ ~ResetArc
        \/ runPc \in {"gate", "finRows", "finSync", "finStatus", "finBook", "respond"} /\ ~ResetArc
    BY <1>1, <1>5 DEF RunStep, Seed, ResetArc, EnterPhase, AfterDag, OpenGate,
       FinalizeRows, FinalizeSync, FinalizeStatus, FinalizeBook
  <2> QED BY <1>1, <1>2, <2>1, <2>2 DEF Walked
<1>6. CASE Ends
  BY <1>6, EndsLeave DEF Walked
<1>7. CASE Advance \/ JobStep \/ UNCHANGED vars \/ \E t \in Steps : StepRuns(t)
  <2>1. UNCHANGED runPc /\ (resolved => resolved')
    <3>1. CASE Advance
      BY <3>1, AdvanceLeaves DEF WInv, IInv, TypeOK, AdvanceHalt, AdvanceDispatch
    <3>2. CASE JobStep \/ UNCHANGED vars
      BY <3>2, JobLeaves DEF vars
    <3>3. CASE \E t \in Steps : StepRuns(t)
      BY <3>3, StepLeaves DEF WInv, IInv
    <3> QED BY <1>7, <3>1, <3>2, <3>3
  <2>2. ResetArc => runPc' = "pick"
    BY DEF ResetArc
  <2> QED BY <1>1, <1>2, <2>1, <2>2 DEF Walked
<1> QED BY <1>3, <1>4, <1>5, <1>6, <1>7, Activities

LEMMA NothingFailedKept ==
  ASSUME WInv, NothingFailed, [Next]_vars
  PROVE  NothingFailed'
<1> SUFFICES ASSUME spent'["failures"] = 0, spent'["faults"] = 0
             PROVE  NothingFailed'
  BY DEF NothingFailed
<1>1. TypeOK
  BY DEF WInv, IInv
<1>2. /\ spent["failures"] = 0 /\ spent["faults"] = 0
      /\ \A j \in Jobs : ~JobFails(j)
  BY SpentGrows, <1>1 DEF Bounds
<1>3. /\ imp # "failed"
      /\ \A s \in Steps : parent[s] # "failed" /\ stepPc[s] # "report"
      /\ \A j \in Jobs : job[j] \notin {"bad", "reporting"}
  BY <1>2 DEF NothingFailed
<1>4. CASE User
  <2>1. imp' # "failed"
    BY <1>3, <1>4 DEF User, Start, ConfirmProjection, ChangeSelection, CloseWindow,
       ConfirmSelection, KeepSelection, Reselect
  <2> QED BY <1>3, <1>4, <2>1, UserLeaves DEF NothingFailed
<1>5. CASE RunStep
  <2>1. imp' # "failed"
    BY <1>1, <1>3, <1>5, RunLeaves DEF EnterPhase, PhaseStatus, OpenGate, FinalizeStatus, TypeOK
  <2>2. \A s \in Steps : parent'[s] # "failed"
    BY <1>3, <1>5, RunLeaves DEF Seed, ResetArc
  <2> QED BY <1>3, <1>5, <2>1, <2>2, RunLeaves DEF NothingFailed
<1>6. CASE Advance
  <2>1. \A s \in Steps : stepPc'[s] # "report"
    BY <1>3, <1>6, AdvanceLeaves DEF AdvanceDispatch
  <2> QED BY <1>3, <1>6, <2>1, AdvanceLeaves DEF NothingFailed
<1>7. ASSUME NEW t \in Steps, StepRuns(t) PROVE NothingFailed'
  <2>1. imp' # "failed"
    BY <1>1, <1>3, <1>7, StepLeaves DEF ReportStep
  <2>2. parent'[t] # "failed" /\ stepPc'[t] # "report"
    BY <1>1, <1>3, <1>7 DEF TypeOK, StepRuns, BeginSimple, BeginFanOut, BeginThrows,
       SettleStep, JobsOf, ReportStep, ReportStepThrows, ReturnStep
  <2>3. \A s \in Steps \ {t} : stepPc'[s] = stepPc[s] /\ parent'[s] = parent[s]
    BY <1>1, <1>7, StepLeaves
  <2>4. \A j \in Jobs : job'[j] \in {job[j], "queued", "none"}
    BY <1>1, <1>7 DEF TypeOK, StepRuns, BeginSimple, BeginFanOut, BeginThrows,
       SettleStep, ReportStep, ReportStepThrows, ReturnStep
  <2> QED BY <1>3, <2>1, <2>2, <2>3, <2>4 DEF NothingFailed
<1>8. CASE JobStep
  <2>1. \A j \in Jobs : job'[j] \notin {"bad", "reporting"} /\ ~ReportFailure(j)
    BY <1>2, <1>3, <1>8, JobMoves DEF ReportFailure
  <2> QED BY <1>3, <1>8, <2>1, JobLeaves DEF NothingFailed
<1>9. CASE Ends \/ UNCHANGED vars
  BY <1>3, <1>9, EndsLeave DEF NothingFailed, vars
<1> QED BY <1>4, <1>5, <1>6, <1>7, <1>8, <1>9, Activities

LEMMA VisibleKept ==
  ASSUME WInv, Visible, [Next]_vars
  PROVE  Visible'
<1> DEFINE Back(s) == parent[s] = "failed" /\ stepPc[s] \in {"idle", "return"}
           Told == imp = "failed" \/ \E t \in Steps : Unreported(t)
<1> SUFFICES ASSUME ~ReselectAnytime, spent'["faults"] = 0, NEW s \in dispatched', Back(s)'
             PROVE  Told'
  BY DEF Visible
<1>1. TypeOK /\ Walk /\ dispatched \subseteq Steps /\ Halting /\ JobsHaveSteps
  BY PhaseStepsAreSteps DEF WInv, IInv, Walk
<1>2. spent["faults"] = 0 /\ \A t \in Steps : ~BeginThrows(t) /\ ~ReportStepThrows(t)
  BY SpentGrows, <1>1 DEF Bounds
<1>3. s \in dispatched /\ Back(s) => Told
  BY <1>2 DEF Visible
<1>4. CASE User
  <2>1. UNCHANGED <<parent, dispatched, stepPc, job>> /\ (imp = "failed" => imp' = "failed")
    BY <1>4, UserLeaves DEF User, Start, ConfirmProjection, ChangeSelection, CloseWindow,
       ConfirmSelection, KeepSelection, Reselect
  <2> QED BY <1>3, <2>1 DEF Unreported
<1>5. CASE Seed \/ ResetArc \/ PickPhase \/ EnterPhase \/ Ends
  <2>1. dispatched' = {}
    BY <1>1, <1>5, EndsLeave DEF Walk, Seed, ResetArc, PickPhase, EnterPhase
  <2> QED BY <2>1
<1>6. CASE OpenGate \/ FinalizeStatus
  <2>1. UNCHANGED <<parent, dispatched>>
    BY <1>6 DEF OpenGate, FinalizeStatus
  <2>2. Done(s)
    BY <1>1, <1>6, <2>1 DEF OpenGate, FinalizeStatus, WInv, IInv, PhasesInOrder, Walk,
       AllParentsComplete
  <2> QED BY <2>1, <2>2 DEF Done, DoneStatuses
<1>7. CASE \/ UNCHANGED vars
           \/ RunStep /\ ~Seed /\ ~ResetArc /\ ~PickPhase /\ ~EnterPhase /\ ~OpenGate
                      /\ ~FinalizeStatus
  <2>1. UNCHANGED <<imp, parent, dispatched, stepPc, job>>
    BY <1>7, RunLeaves DEF vars
  <2> QED BY <1>3, <2>1 DEF Unreported
<1>8. CASE Advance
  <2>1. UNCHANGED <<imp, parent, job>>
    BY <1>8, AdvanceLeaves
  <2>2. \A t \in Steps : stepPc[t] # "idle" => stepPc'[t] = stepPc[t]
    BY <1>8, AdvanceLeaves, StepAtWork, PhaseStepsAreSteps, <1>1 DEF AdvanceDispatch
  <2>3. s \in dispatched /\ stepPc'[s] = stepPc[s]
    BY <1>1, <1>8, AdvanceLeaves, PhaseStepsAreSteps DEF AdvanceDispatch
  <2> QED BY <1>3, <2>1, <2>2, <2>3 DEF Unreported
<1>9. ASSUME NEW t \in Steps, StepRuns(t) PROVE Told'
  <2>1. /\ UNCHANGED dispatched /\ stepPc[t] # "idle"
        /\ \A u \in Steps \ {t} : stepPc'[u] = stepPc[u] /\ parent'[u] = parent[u]
        /\ \A j \in Jobs : j[1] # t => job'[j] = job[j]
        /\ imp' = imp \/ imp' = "failed"
    BY <1>1, <1>9, StepLeaves DEF ReportStep, StatusAfterFailure
  <2>2. \A u \in Steps \ {t} : Unreported(u) => Unreported(u)'
    BY <2>1 DEF Unreported
  <2>3. CASE SettleStep(t)
    <3>1. CASE \E j \in JobsOf(t) : job[j] = "bad"
      BY <1>1, <2>3, <3>1 DEF SettleStep, TypeOK, Unreported
    <3>2. CASE ~\E j \in JobsOf(t) : job[j] = "bad"
      <4>1. parent'[t] = "completed" /\ ~Unreported(t)
        BY <1>1, <2>3, <3>2 DEF SettleStep, TypeOK, Unreported, JobsOf
      <4>2. s # t
        BY <4>1
      <4> QED BY <1>1, <1>3, <2>1, <2>2, <4>1, <4>2
    <3> QED BY <3>1, <3>2
  <2>4. CASE ReportStep(t)
    BY <2>4 DEF ReportStep, StatusAfterFailure
  <2>5. CASE BeginSimple(t) \/ BeginFanOut(t)
    <3>1. stepPc[t] = "start" /\ parent'[t] \in {"running", "completed"}
      BY <1>1, <2>5 DEF BeginSimple, BeginFanOut, TypeOK
    <3>2. s # t /\ ~Unreported(t)
      BY <3>1 DEF Unreported
    <3> QED BY <1>1, <1>3, <2>1, <2>2, <3>2
  <2>6. CASE ReturnStep(t)
    <3>1. stepPc[t] = "return" /\ parent' = parent
      BY <2>6 DEF ReturnStep
    <3>2. ~Unreported(t) /\ Back(s)
      BY <1>1, <2>1, <3>1 DEF Unreported
    <3> QED BY <1>3, <2>1, <2>2, <3>2
  <2> QED BY <1>2, <1>9, <2>3, <2>4, <2>5, <2>6 DEF StepRuns
<1>10. CASE JobStep
  <2>1. UNCHANGED <<parent, dispatched, stepPc>>
    BY <1>10, JobLeaves
  <2>2. \A j \in Jobs : job[j] = "bad" => job'[j] = "bad"
    BY <1>10, JobMoves
  <2>3. \A t \in Steps : Unreported(t) => Unreported(t)'
    BY <2>1, <2>2 DEF Unreported
  <2>4. ASSUME NEW j \in Jobs, ReportFailure(j) PROVE Told'
    <3>1. job[j] = "reporting" /\ job'[j] = "bad"
      BY <1>1, <2>4 DEF ReportFailure, TypeOK
    <3>2. j[1] \in Steps /\ stepPc[j[1]] = "wait"
      BY <3>1, JobAtWork
    <3> QED BY <2>1, <3>1, <3>2 DEF Unreported
  <2> QED BY <1>3, <1>10, <2>1, <2>3, <2>4, JobLeaves
<1> HIDE DEF Back, Told
<1> QED BY <1>4, <1>5, <1>6, <1>7, <1>8, <1>9, <1>10, Activities DEF RunStep

-----------------------------------------------------------------------------

AInv == WInv /\ OpenRuns /\ Walked /\ NothingFailed /\ Visible

LEMMA AnswersInvariant == Spec => []AInv
<1>1. Init => AInv
  <2>1. Init => OpenRuns /\ Walked /\ NothingFailed /\ Visible
    BY DEF Init, OpenRuns, Walked, NothingFailed, Visible
  <2> QED BY <2>1, InitWInv DEF AInv
<1>2. AInv /\ [Next]_vars => AInv'
  BY NextWInv, OpenKept, WalkedKept, NothingFailedKept, VisibleKept DEF AInv
<1> QED BY <1>1, <1>2, PTL DEF Spec

\* A walk that is over, and was not halted, has run every step it could.
LEMMA NothingReadyLeft ==
  ASSUME AInv, ~ReselectAnytime, ~Doomed, runPc = "respond", spent["faults"] = 0,
         NEW s \in PhaseSteps(phase)
  PROVE  Done(s) \/ parent[s] = "failed" \/ ~DepsDone(s)
<1>1. s \in Steps /\ TypeOK /\ Walk /\ Returned
  BY PhaseStepsAreSteps DEF AInv, WInv, IInv
<1>2. AllParentsComplete(Steps) \/ (Fresh = {} /\ inFlight = {})
  BY <1>1 DEF AInv, Walked, Walk
<1>3. CASE AllParentsComplete(Steps)
  BY <1>1, <1>3 DEF AllParentsComplete
<1>4. CASE Fresh = {} /\ inFlight = {}
  <2> SUFFICES ASSUME ~Done(s), parent[s] # "failed", DepsDone(s)
               PROVE  FALSE
    OBVIOUS
  <2>1. parent[s] # "absent"
    BY <1>1 DEF AInv, WInv, RowsSeeded, NoneAbsent
  <2>2. parent[s] \in {"pending", "running"}
    BY <1>1, <2>1 DEF TypeOK, RowStatuses, Done, DoneStatuses
  <2>3. s \in dispatched \ inFlight
    BY <1>4, <2>2 DEF Fresh, ReadySteps, CandidateStatuses
  <2> QED BY <1>1, <2>3 DEF Returned
<1> QED BY <1>2, <1>3, <1>4

\* The answer of a retrying run is the whole answer: every step of the phase is
\* done, failed in this run, or waits for a step that is neither.
THEOREM NothingLeft ==
  ASSUME ~ReselectAnytime
  PROVE  Spec => []NoStepLeftBehind
<1>1. AInv => NoStepLeftBehind
  BY NothingReadyLeft DEF NoStepLeftBehind, Doomed
<1> QED BY <1>1, AnswersInvariant, PTL

\* A run in which nothing fails finishes its phase, from whatever rows the
\* worker before it left behind: an unfinished step with the fewest unfinished
\* steps below it would be ready.
THEOREM PhasesComplete ==
  ASSUME ~ReselectAnytime
  PROVE  Spec => []PhaseCompletes
<1>1. ASSUME AInv, runPc = "respond", spent["failures"] = 0, spent["faults"] = 0
      PROVE  AllParentsComplete(PhaseSteps(phase))
  <2> DEFINE Left == {s \in PhaseSteps(phase) : ~Done(s)}
  <2> SUFFICES ASSUME Left # {} PROVE FALSE
    BY DEF AllParentsComplete
  <2>1. Left \in SUBSET Steps /\ TypeOK
    BY <1>1, PhaseStepsAreSteps DEF AInv, WInv, IInv
  <2>2. PICK s \in Left : Depends[s] \cap Left = {}
    BY <2>1, PhasesAssumption
  <2>3. \A t \in Steps : parent[t] # "failed"
    BY <1>1 DEF AInv, NothingFailed
  <2>4. ~Doomed
    BY <1>1, <2>1, PhaseStepsAreSteps DEF AInv, NothingFailed, Doomed, Failing, WInv, Walk
  <2>5. ~DepsDone(s)
    BY <1>1, <2>1, <2>2, <2>3, <2>4, NothingReadyLeft
  <2>6. PICK d \in Depends[s] : ~Done(d)
    BY <2>5 DEF DepsDone
  <2>7. d \in Steps /\ d \notin PhaseSteps(phase) /\ s \in Steps
    BY <2>1, <2>2, <2>6, DependsAssumption
  <2>8. (phase # "projection" => ProjectionDone) /\ (phase = "arc" => ExtractDone)
    BY <1>1 DEF AInv, WInv, PhaseReached
  <2>9. d \in Projection \/ d \in Extract \/ d \in Arc
    BY <2>7, StepsAssumption
  <2>10. d \in Projection => ~ProjectionDone
    BY <2>6 DEF ProjectionDone, AllParentsComplete
  <2>11. d \in Extract => ~ExtractDone
    BY <2>6 DEF ExtractDone, AllParentsComplete
  <2>12. CASE phase = "projection"
    BY <2>1, <2>6, <2>7, <2>12, PhaseStepsAreSteps, DependsAssumption
  <2>13. CASE phase = "extract"
    <3>1. s \notin Arc
      BY <2>1, <2>13, PhaseStepsAreSteps
    <3> QED
      BY <2>1, <2>6, <2>7, <2>8, <2>9, <2>10, <2>13, <3>1, PhaseStepsAreSteps, DependsAssumption
  <2>14. CASE phase = "arc"
    BY <2>1, <2>7, <2>8, <2>9, <2>10, <2>11, <2>14, PhaseStepsAreSteps
  <2> QED BY <2>1, <2>12, <2>13, <2>14, PhaseStepsAreSteps
<1>2. AInv => PhaseCompletes
  BY <1>1 DEF PhaseCompletes
<1> QED BY <1>2, AnswersInvariant, PTL

\* A failed step of a run that answers shows in the import row, in whatever
\* order steps settle, hooks report and rows are written.
THEOREM FailuresShow ==
  ASSUME ~ReselectAnytime
  PROVE  Spec => []FailureIsVisible
<1>1. AInv => FailureIsVisible
  <2> SUFFICES ASSUME AInv, runPc = "respond", inFlight = {}, spent["faults"] = 0,
                      NEW s \in dispatched, parent[s] = "failed"
               PROVE  imp = "failed"
    BY DEF FailureIsVisible
  <2>1. \A t \in Steps : stepPc[t] = "idle"
    BY DEF AInv, WInv, Walk
  <2>2. s \in Steps
    BY PhaseStepsAreSteps DEF AInv, WInv, IInv, Walk
  <2> QED BY <2>1, <2>2 DEF AInv, Visible, Unreported
<1> QED BY <1>1, AnswersInvariant, PTL

-----------------------------------------------------------------------------
(* The gates are asked, as long as nothing interrupts a run.               *)

Awaiting == {"awaiting_projection", "awaiting_selection"}

\* When the import row waits for the user, no run is in the middle of a walk.
Await ==
  imp \in Awaiting =>
    \/ bookDone /\ ReselectAnytime
    \/ bookDone /\ runPc = "off"
    \/ /\ ~bookDone /\ phase # "arc"
       /\ \/ runPc = "off"
          \/ runPc \in {"finRows", "respond"} /\ AllParentsComplete(PhaseSteps(phase))

ProjectionAsked == autoConfirm \/ "projection" \in confirmed
SelectionAsked  == "selection" \in confirmed

\* A phase that is done was asked about, is being asked about, or is still the
\* run's own.
Gates ==
  spent["faults"] = 0 /\ spent["crashes"] = 0 =>
    /\ phase = "extract" => ProjectionAsked
    /\ phase = "arc" => SelectionAsked
    /\ SelectionAsked => ProjectionAsked
    /\ imp = "awaiting_selection" => ProjectionAsked
    /\ ProjectionDone => \/ ProjectionAsked \/ imp = "awaiting_projection"
                         \/ runPc \in {"dag", "gate"} /\ phase = "projection"
    /\ ExtractDone => \/ SelectionAsked \/ imp = "awaiting_selection"
                      \/ runPc \in {"dag", "gate"} /\ phase = "extract"
    /\ ArcDone \/ bookDone => SelectionAsked

LEMMA DoomedImplies == WInv /\ Doomed => ~AllParentsComplete(PhaseSteps(phase))
BY DoomedUnfinished

\* A step at work while the import waits: only on a book that was finished.
LEMMA AwaitAtWork ==
  ASSUME WInv, Await, imp \in Awaiting, NEW t \in Steps, stepPc[t] # "idle"
  PROVE  bookDone /\ ReselectAnytime
BY StepAtWork, DoomedUnfinished DEF Await

LEMMA AwaitKept ==
  ASSUME WInv, Await, [Next]_vars
  PROVE  Await'
<1>1. TypeOK /\ PhaseReached /\ PhasesInOrder
  BY DEF WInv, IInv
<1>2. AllParentsComplete(PhaseSteps(phase)) /\ UNCHANGED phase /\ ~ResetArc =>
        AllParentsComplete(PhaseSteps(phase))'
  <2>1. UNCHANGED phase => PhaseSteps(phase)' = PhaseSteps(phase)
    BY DEF PhaseSteps
  <2>2. AllParentsComplete(PhaseSteps(phase)) /\ UNCHANGED phase /\ ~ResetArc =>
          \A s \in PhaseSteps(phase) : Done(s)'
    BY <1>1, CompleteKept, DoneKept, PhaseStepsAreSteps DEF AllParentsComplete, WInv
  <2> QED BY <2>1, <2>2 DEF AllParentsComplete
<1>3. CASE User
  <2>1. UNCHANGED <<bookDone, parent, phase>>
    BY <1>3, UserLeaves
  <2>2. AllParentsComplete(PhaseSteps(phase))' = AllParentsComplete(PhaseSteps(phase))
    BY <2>1 DEF AllParentsComplete, PhaseSteps, Done
  <2>3. CASE Start
    BY <2>3 DEF Start, Await, Awaiting
  <2>4. CASE Reselect
    BY <2>4 DEF Reselect, Await, Awaiting
  <2>5. CASE ~Start /\ ~Reselect
    BY <1>3, <2>1, <2>2, <2>5 DEF User, ConfirmProjection, ChangeSelection, CloseWindow,
       ConfirmSelection, KeepSelection, Await, Awaiting
  <2> QED BY <2>3, <2>4, <2>5
<1>4. CASE OpenGate
  <2>1. /\ phase # "arc" /\ AllParentsComplete(PhaseSteps(phase)) /\ ~bookDone
        /\ UNCHANGED <<parent, phase, bookDone>> /\ runPc' = "finRows" /\ ~ResetArc
    BY <1>1, <1>4 DEF OpenGate, PhasesInOrder, ResetArc
  <2> QED BY <1>2, <2>1 DEF Await
<1>5. CASE EnterPhase \/ FinalizeStatus
  BY <1>1, <1>5 DEF EnterPhase, PhaseStatus, FinalizeStatus, TypeOK, Await, Awaiting
<1>6. CASE RunStep /\ ~OpenGate /\ ~EnterPhase /\ ~FinalizeStatus
  <2> SUFFICES ASSUME imp' \in Awaiting PROVE Await'
    BY DEF Await
  <2>1. imp \in Awaiting /\ (bookDone => bookDone')
    BY <1>1, <1>6, RunLeaves DEF TypeOK, FinalizeBook
  <2>2. CASE bookDone /\ ReselectAnytime
    BY <2>1, <2>2 DEF Await
  <2>3. CASE ~(bookDone /\ ReselectAnytime)
    <3>1. /\ ~bookDone /\ phase # "arc" /\ runPc \in {"finRows", "respond"}
          /\ AllParentsComplete(PhaseSteps(phase))
      BY <1>6, <2>1, <2>3 DEF Await, RunStep, Seed, ResetArc, PickPhase, AfterDag,
         FinalizeRows, FinalizeSync, FinalizeBook, RunThrows
    <3>2. ~AllParentsComplete(Steps)
      BY <1>1, <3>1, PhasesAssumption, StepsAssumption DEF PhaseReached, AllParentsComplete
    <3>3. runPc' = "respond" /\ UNCHANGED <<bookDone, phase>> /\ ~ResetArc
      BY <1>6, <3>1, <3>2 DEF RunStep, Seed, ResetArc, PickPhase, AfterDag,
         FinalizeRows, ImportFinished, FinalizeSync, FinalizeBook, RunThrows
    <3> QED BY <1>2, <3>1, <3>3 DEF Await
  <2> QED BY <2>2, <2>3
<1>7. CASE Advance \/ UNCHANGED vars
  <2>1. UNCHANGED <<imp, bookDone, runPc, phase, parent>>
    BY <1>7, AdvanceLeaves DEF vars
  <2>2. AllParentsComplete(PhaseSteps(phase))' = AllParentsComplete(PhaseSteps(phase))
    BY <2>1 DEF AllParentsComplete, PhaseSteps, Done
  <2> QED BY <2>1, <2>2 DEF Await
<1>8. CASE JobStep \/ \E t \in Steps : StepRuns(t)
  <2>1. UNCHANGED <<bookDone, runPc, phase>> /\ (imp' \in Awaiting => imp' = imp)
    <3>1. CASE JobStep
      BY <3>1, JobLeaves DEF ReportFailure, Awaiting
    <3>2. CASE \E t \in Steps : StepRuns(t)
      BY <1>1, <3>2, StepLeaves DEF ReportStep, StatusAfterFailure, Awaiting
    <3> QED BY <1>8, <3>1, <3>2
  <2>2. ResetArc => runPc' # runPc
    BY DEF ResetArc
  <2> QED BY <1>2, <2>1, <2>2 DEF Await
<1>9. CASE Ends
  <2>1. /\ UNCHANGED <<imp, bookDone, phase>> /\ runPc' = "off"
    BY <1>9, EndsLeave
  <2> QED BY <2>1 DEF Await
<1> QED BY <1>3, <1>4, <1>5, <1>6, <1>7, <1>8, <1>9, Activities

\* A phase becomes done while it is walked, or because its only step is the
\* preview, which an import that confirms itself does not need.
LEMMA NewlyDone ==
  ASSUME WInv, [Next]_vars
  PROVE  /\ ProjectionDone' => \/ ProjectionDone \/ autoConfirm
                               \/ runPc = "dag" /\ runPc' = "dag" /\ phase = "projection" /\ phase' = phase
         /\ ExtractDone' => \/ ExtractDone
                            \/ runPc = "dag" /\ runPc' = "dag" /\ phase = "extract" /\ phase' = phase
         /\ ArcDone' => ArcDone \/ phase = "arc"
         /\ bookDone' => bookDone \/ ArcDone
<1>1. TypeOK /\ Walk /\ PhaseReached /\ WInv'
  BY NextWInv DEF WInv, IInv
<1>2. /\ Preview \in Projection /\ Preview \notin Arc /\ Projection \subseteq Steps
      /\ Extract \subseteq Steps /\ Arc \subseteq Steps /\ Projection \cap Arc = {}
      /\ Extract \cap Arc = {} /\ Extract \ Projection # {} /\ Arc # {}
  BY StepsAssumption, DependsAssumption, PhasesAssumption
<1>3. bookDone' => bookDone \/ ArcDone
  <2>1. FinalizeBook => ArcDone
    BY PhasesAreAllSteps DEF FinalizeBook, WInv, IInv, PhasesInOrder
  <2>2. ~FinalizeBook => bookDone' = bookDone
    BY Activities, UserLeaves, RunLeaves, AdvanceLeaves, JobLeaves, StepLeaves, EndsLeave, <1>1
       DEF vars
  <2> QED BY <2>1, <2>2
<1>4. CASE UNCHANGED parent
  BY <1>3, <1>4 DEF ProjectionDone, ExtractDone, ArcDone, AllParentsComplete, Done
<1>5. CASE Seed
  <2>1. parent' = parent \/ \A s \in Steps : Done(s)' => s = Preview /\ autoConfirm
    BY <1>5 DEF Seed, Done, DoneStatuses
  <2>2. CASE \A s \in Steps : Done(s)' => s = Preview /\ autoConfirm
    BY <1>2, <1>3, <2>2 DEF ProjectionDone, ExtractDone, ArcDone, AllParentsComplete
  <2> QED BY <1>4, <2>1, <2>2
<1>6. CASE ResetArc
  <2>1. \A s \in Steps : Done(s)' => Done(s)
    BY <1>6 DEF ResetArc, Done, DoneStatuses
  <2> QED
    BY <1>2, <1>3, <2>1 DEF ProjectionDone, ExtractDone, ArcDone, AllParentsComplete
<1>7. ASSUME NEW t \in Steps, BeginSimple(t) \/ BeginFanOut(t) \/ SettleStep(t)
      PROVE  /\ ProjectionDone' => \/ ProjectionDone
                                   \/ runPc = "dag" /\ runPc' = "dag" /\ phase = "projection" /\ phase' = phase
             /\ ExtractDone' => \/ ExtractDone
                                \/ runPc = "dag" /\ runPc' = "dag" /\ phase = "extract" /\ phase' = phase
             /\ ArcDone' => ArcDone \/ phase = "arc"
  <2>1. StepRuns(t) /\ ~Done(t)
    BY <1>7 DEF StepRuns, WInv, IInv, StepsOwnRows, BeginSimple, BeginFanOut, SettleStep,
       Done, DoneStatuses
  <2>2. /\ UNCHANGED <<runPc, phase, retryFailed, dispatched>>
        /\ t \in PhaseSteps(phase) /\ (runPc # "dag" => Doomed)
        /\ \A s \in Steps \ {t} : Done(s)' = Done(s)
    BY <1>1, <2>1, StepLeaves, StepAtWork DEF Done
  <2>3. Doomed => ~AllParentsComplete(PhaseSteps(phase))'
    <3>1. Doomed => Doomed'
      BY <2>2, DoomedKept
    <3>2. WInv' /\ Doomed' => ~AllParentsComplete(PhaseSteps(phase))'
      BY DoomedImplies, PTL
    <3> QED BY <1>1, <3>1, <3>2
  <2>4. AllParentsComplete(PhaseSteps(phase))' =>
          runPc = "dag" /\ runPc' = "dag" /\ phase' = phase
    BY <2>2, <2>3
  <2>5. /\ phase = "projection" => AllParentsComplete(PhaseSteps(phase))' = ProjectionDone'
        /\ phase = "extract" => AllParentsComplete(PhaseSteps(phase))' = ExtractDone'
    BY <2>2 DEF PhaseSteps, ProjectionDone, ExtractDone
  <2>6. ProjectionDone' => ProjectionDone \/ phase = "projection"
    BY <1>1 DEF PhaseReached
  <2>7. ExtractDone' => ExtractDone \/ phase = "extract"
    <3> SUFFICES ASSUME ExtractDone', ~ExtractDone, phase = "projection"
                 PROVE  FALSE
      BY <1>1 DEF PhaseReached, TypeOK
    <3>1. t \in Projection
      BY <1>1, <2>2, PhaseStepsAreSteps
    <3>2. ~ProjectionDone
      BY <2>1, <3>1 DEF ProjectionDone, AllParentsComplete
    <3>3. PICK e \in Extract \ Projection : TRUE
      BY <1>2
    <3>4. ~Done(e) /\ e # t /\ e \in Steps
      BY <1>1, <1>2, <3>1, <3>2 DEF PhaseReached
    <3>5. Done(e)'
      BY <3>3 DEF ExtractDone, AllParentsComplete
    <3> QED BY <2>2, <3>4, <3>5
  <2>8. ArcDone' => ArcDone \/ phase = "arc"
    <3>1. CASE t \in Arc
      BY <2>1, <3>1, <1>1, <2>2, PhaseStepsAreSteps
    <3>2. CASE t \notin Arc
      BY <1>2, <2>2, <3>2 DEF ArcDone, AllParentsComplete
    <3> QED BY <3>1, <3>2
  <2> QED BY <2>4, <2>5, <2>6, <2>7, <2>8
<1> QED BY <1>3, <1>4, <1>5, <1>6, <1>7, RowsChange DEF WInv

LEMMA GatesKept ==
  ASSUME WInv, Await, Gates, [Next]_vars
  PROVE  Gates'
<1> SUFFICES ASSUME spent'["faults"] = 0, spent'["crashes"] = 0
             PROVE  Gates'
  BY DEF Gates
<1> DEFINE
  ProjectionSettled == \/ ProjectionAsked \/ imp = "awaiting_projection"
                       \/ runPc \in {"dag", "gate"} /\ phase = "projection"
  ExtractSettled    == \/ SelectionAsked \/ imp = "awaiting_selection"
                       \/ runPc \in {"dag", "gate"} /\ phase = "extract"
<1>1. TypeOK /\ PhaseReached /\ PhasesInOrder /\ Walk
  BY DEF WInv, IInv
<1>2. /\ spent["faults"] = 0 /\ spent["crashes"] = 0 /\ ~RunThrows /\ ~Crash
  BY SpentGrows, <1>1 DEF Bounds
<1>3. /\ phase = "extract" => ProjectionAsked
      /\ phase = "arc" => SelectionAsked
      /\ SelectionAsked => ProjectionAsked
      /\ imp = "awaiting_selection" => ProjectionAsked
      /\ ProjectionDone => ProjectionSettled
      /\ ExtractDone => ExtractSettled
      /\ ArcDone \/ bookDone => SelectionAsked
  BY <1>2 DEF Gates
<1>4. UNCHANGED autoConfirm /\ confirmed \subseteq confirmed'
  <2>1. CASE User
    BY <2>1 DEF User, Start, ConfirmProjection, ChangeSelection, CloseWindow,
       ConfirmSelection, KeepSelection, Reselect
  <2>2. CASE ~User
    BY <1>1, <2>2, Activities, RunLeaves, AdvanceLeaves, JobLeaves, StepLeaves, EndsLeave
       DEF vars
  <2> QED BY <2>1, <2>2
<1>5. /\ ProjectionAsked => ProjectionAsked'
      /\ SelectionAsked => SelectionAsked'
  BY <1>4 DEF ProjectionAsked, SelectionAsked
\* While the import waits, no step of a book that is not finished is at work.
<1>6. ~bookDone /\ imp \in Awaiting => imp' = imp \/ User \/ RunStep
  <2>1. ASSUME NEW t \in Steps, StepRuns(t), ~bookDone, imp \in Awaiting PROVE imp' = imp
    BY <1>1, <2>1, StepLeaves, AwaitAtWork
  <2>2. ASSUME JobStep, ~bookDone, imp \in Awaiting PROVE imp' = imp
    <3>1. PICK j \in Jobs : job[j] \in {"queued", "running", "reporting"}
      BY <2>2, JobMoves
    <3>2. j[1] \in Steps /\ stepPc[j[1]] # "idle"
      BY <3>1, JobAtWork
    <3> QED BY <2>2, <3>2, AwaitAtWork
  <2> QED BY <2>1, <2>2, Activities, AdvanceLeaves, EndsLeave DEF vars
<1>7. /\ phase' = "extract" => ProjectionAsked'
      /\ phase' = "arc" => SelectionAsked'
  <2>1. CASE PickPhase
    <3>1. CASE runPc' = "enter"
      <4>1. imp \notin Awaiting /\ runPc = "pick"
        BY <2>1, <3>1 DEF PickPhase, Awaiting
      <4>2. /\ phase' = "extract" => ProjectionDone
            /\ phase' = "arc" => ExtractDone
        BY <2>1, <3>1 DEF PickPhase, FirstUnfinished, ProjectionDone, ExtractDone
      <4> QED BY <1>3, <1>5, <4>1, <4>2 DEF Awaiting
    <3>2. CASE runPc' # "enter"
      BY <1>3, <1>5, <2>1, <3>2 DEF PickPhase
    <3> QED BY <3>1, <3>2
  <2>2. CASE ~PickPhase
    <3>1. phase' = phase
      BY <1>1, <2>2, Activities, UserLeaves, RunLeaves, AdvanceLeaves, JobLeaves, StepLeaves,
         EndsLeave DEF vars
    <3> QED BY <1>3, <1>5, <3>1
  <2> QED BY <2>1, <2>2
<1>8. /\ SelectionAsked' => ProjectionAsked'
      /\ imp' = "awaiting_selection" => ProjectionAsked'
  <2>1. CASE ConfirmSelection
    BY <1>3, <1>5, <2>1 DEF ConfirmSelection
  <2>2. CASE Reselect
    BY <1>3, <1>5, <2>2 DEF Reselect, SelectionAsked
  <2>3. CASE OpenGate
    <3>1. phase \in {"projection", "extract"} /\ confirmed' = confirmed
      BY <1>1, <2>3 DEF OpenGate, TypeOK, PhasesInOrder
    <3> QED BY <1>3, <1>5, <2>3, <3>1 DEF OpenGate, SelectionAsked
  <2>4. CASE ~ConfirmSelection /\ ~Reselect /\ ~OpenGate
    <3>1. confirmed' = confirmed \/ confirmed' = confirmed \cup {"projection"}
      <4>1. CASE User
        BY <2>4, <4>1 DEF User, Start, ConfirmProjection, ChangeSelection, CloseWindow,
           KeepSelection
      <4> QED
        BY <1>1, <4>1, Activities, RunLeaves, AdvanceLeaves, JobLeaves, StepLeaves, EndsLeave
           DEF vars
    <3>2. imp' = "awaiting_selection" => imp = "awaiting_selection"
      <4>1. CASE User
        BY <2>4, <4>1 DEF User, Start, ConfirmProjection, ChangeSelection, CloseWindow,
           KeepSelection
      <4>2. EnterPhase \/ FinalizeStatus => imp' # "awaiting_selection"
        BY <1>1 DEF EnterPhase, PhaseStatus, FinalizeStatus, TypeOK
      <4>3. ASSUME NEW j \in Jobs, ReportFailure(j) PROVE imp' # "awaiting_selection"
        BY <4>3 DEF ReportFailure
      <4>4. ASSUME NEW t \in Steps, ReportStep(t) PROVE imp' # "awaiting_selection"
        BY <4>4 DEF ReportStep, StatusAfterFailure
      <4> QED
        BY <1>1, <2>4, <4>1, <4>2, <4>3, <4>4, Activities, RunLeaves, AdvanceLeaves, JobLeaves,
           StepLeaves, EndsLeave DEF vars
    <3> QED BY <1>3, <1>5, <3>1, <3>2 DEF SelectionAsked
  <2> QED BY <2>1, <2>2, <2>3, <2>4
<1>9. /\ ProjectionDone => ProjectionSettled'
      /\ ExtractDone => ExtractSettled'
  <2>1. CASE SelectionAsked \/ ArcDone \/ bookDone
    BY <1>3, <1>5, <2>1
  <2>2. CASE ~SelectionAsked /\ ~ArcDone /\ ~bookDone
    <3>1. imp \in Awaiting => runPc = "off" \/ runPc \in {"finRows", "respond"}
      BY <2>2 DEF Await
    <3>2. CASE User
      BY <1>3, <1>5, <2>2, <3>2 DEF User, Start, ConfirmProjection, ChangeSelection,
         CloseWindow, ConfirmSelection, KeepSelection, Reselect, ProjectionAsked, SelectionAsked
    <3>3. CASE AfterDag
      <4>1. /\ phase = "projection" /\ ProjectionDone =>
                 runPc' = "gate" \/ (runPc' = "pick" /\ autoConfirm)
            /\ phase = "extract" /\ ExtractDone => runPc' = "gate"
        BY <3>3 DEF AfterDag, NextAfterDag, NextAfterDone, PhaseSteps, ProjectionDone,
           ExtractDone
      <4>2. UNCHANGED <<phase, imp>>
        BY <3>3 DEF AfterDag
      <4>3. autoConfirm => ProjectionAsked
        BY DEF ProjectionAsked
      <4> QED BY <1>3, <1>5, <4>1, <4>2, <4>3
    <3>4. CASE OpenGate
      <4>1. /\ phase = "projection" => imp' = "awaiting_projection"
            /\ phase = "extract" => imp' = "awaiting_selection"
            /\ imp \notin Awaiting
        BY <3>1, <3>4 DEF OpenGate
      <4>2. phase = "extract" => ProjectionAsked
        BY <1>3
      <4> QED BY <1>3, <1>5, <4>1, <4>2 DEF Awaiting
    <3>5. CASE EnterPhase \/ FinalizeStatus
      <4>1. imp \notin Awaiting /\ runPc \in {"enter", "finStatus"}
        BY <3>1, <3>5 DEF EnterPhase, FinalizeStatus
      <4> QED BY <1>3, <1>5, <4>1 DEF Awaiting
    <3>6. CASE \/ Ends \/ UNCHANGED vars
               \/ RunStep /\ ~AfterDag /\ ~OpenGate /\ ~EnterPhase /\ ~FinalizeStatus
      <4>1. imp' = imp
        BY <3>6, RunLeaves, EndsLeave DEF vars
      <4>2. runPc \in {"dag", "gate"} => UNCHANGED <<runPc, phase>>
        BY <1>2, <3>6 DEF RunStep, Seed, ResetArc, PickPhase, FinalizeRows, FinalizeSync,
           FinalizeBook, Ends, HostKills, vars
      <4> QED BY <1>3, <1>5, <4>1, <4>2
    <3>7. CASE Advance \/ JobStep \/ \E t \in Steps : StepRuns(t)
      <4>1. UNCHANGED <<runPc, phase>>
        BY <1>1, <3>7, AdvanceLeaves, JobLeaves, StepLeaves
      <4>2. imp \in Awaiting => imp' = imp
        <5>1. Advance => imp' = imp
          BY AdvanceLeaves
        <5>2. ASSUME JobStep, imp \in Awaiting PROVE imp' = imp
          <6>1. PICK j \in Jobs : job[j] \in {"queued", "running", "reporting"}
            BY <5>2, JobMoves
          <6>2. j[1] \in Steps /\ stepPc[j[1]] # "idle"
            BY <6>1, JobAtWork
          <6> QED BY <2>2, <5>2, <6>2, AwaitAtWork
        <5>3. ASSUME NEW t \in Steps, StepRuns(t), imp \in Awaiting PROVE imp' = imp
          BY <1>1, <2>2, <5>3, StepLeaves, AwaitAtWork
        <5> QED BY <3>7, <5>1, <5>2, <5>3
      <4> QED BY <1>3, <1>5, <4>1, <4>2 DEF Awaiting
    <3> QED BY <3>2, <3>3, <3>4, <3>5, <3>6, <3>7, Activities
  <2> QED BY <2>1, <2>2
<1>10. /\ ProjectionDone' => ProjectionSettled'
       /\ ExtractDone' => ExtractSettled'
       /\ ArcDone' \/ bookDone' => SelectionAsked'
  <2>1. /\ ProjectionDone' => \/ ProjectionDone \/ autoConfirm
                              \/ runPc = "dag" /\ runPc' = "dag" /\ phase = "projection" /\ phase' = phase
        /\ ExtractDone' => \/ ExtractDone
                           \/ runPc = "dag" /\ runPc' = "dag" /\ phase = "extract" /\ phase' = phase
        /\ ArcDone' => ArcDone \/ phase = "arc"
        /\ bookDone' => bookDone \/ ArcDone
    BY NewlyDone
  <2>2. autoConfirm => ProjectionAsked'
    BY <1>5 DEF ProjectionAsked
  <2> QED BY <1>3, <1>5, <1>9, <2>1, <2>2
<1> QED BY <1>7, <1>8, <1>10 DEF Gates

LEMMA GatesInvariant == Spec => [](WInv /\ Await /\ Gates)
<1>1. Init => WInv /\ Await /\ Gates
  <2> SUFFICES ASSUME Init PROVE WInv /\ Await /\ Gates
    OBVIOUS
  <2>1. WInv /\ Await
    BY InitWInv DEF Init, Await, Awaiting
  <2>2. /\ Preview \in Projection
        /\ \E e \in Extract : e \in Steps
        /\ \E a \in Arc : a \in Steps
        /\ \A s \in Steps : ~Done(s)
    BY StepsAssumption, PhasesAssumption DEF Init, Done, DoneStatuses
  <2>3. ~ProjectionDone /\ ~ExtractDone /\ ~ArcDone
    BY <2>2, StepsAssumption DEF ProjectionDone, ExtractDone, ArcDone, AllParentsComplete
  <2> QED BY <2>1, <2>3 DEF Init, Gates, SelectionAsked
<1>2. WInv /\ Await /\ Gates /\ [Next]_vars => WInv' /\ Await' /\ Gates'
  BY NextWInv, AwaitKept, GatesKept
<1> QED BY <1>1, <1>2, PTL DEF Spec

\* Both questions are put to the user before what they are about is walked,
\* however often steps fail, runs are resumed and selections reopened: only a
\* lost worker or a rejected bridge call may skip one.
THEOREM GatesAsked ==
  Spec => [](spent["faults"] = 0 /\ spent["crashes"] = 0 => GatesAreAsked)
<1>1. WInv /\ Await /\ Gates => (spent["faults"] = 0 /\ spent["crashes"] = 0 => GatesAreAsked)
  BY DEF Gates, GatesAreAsked, ProjectionAsked, SelectionAsked
<1> QED BY <1>1, GatesInvariant, PTL

-----------------------------------------------------------------------------
(* A finished import has published what it is made of.                     *)

Covered(s) == \A k \in Enumerate(s) : child[<<s, k>>] = "completed"

\* The selection of a finished book was changed, and the arc phase has not
\* been reopened yet.
Stale ==
  /\ bookDone /\ ArcDone
  /\ \/ imp = "awaiting_selection" /\ dirty
     \/ /\ imp = "arc" /\ runPc \in {"off", "seed", "reset", "respond"}
        /\ adv = NoAdvance /\ \A s \in Steps : stepPc[s] = "idle"

\* A fan-out step that is done has run for every item there is now.
Cover ==
  ~ReselectAnytime =>
    /\ \A s \in FanOut : Done(s) => Covered(s) \/ (s \in Selectable /\ Stale)
    /\ \A s \in FanOut : stepPc[s] = "wait" => \A k \in Enumerate(s) : job[<<s, k>>] # "none"

\* What is published stays published, while the import says it is complete and
\* while the user looks at the selection again.
Published ==
  /\ ~ReselectAnytime
  /\ \/ imp = "completed" \/ runPc = "finStatus"
     \/ imp = "awaiting_selection" /\ bookDone /\ ~dirty
  => Required \subseteq synced

LEMMA FanOutFacts ==
  /\ FanOut \subseteq Steps /\ Selectable \subseteq FanOut /\ Selectable \subseteq Arc
  /\ Preview \notin FanOut
  /\ TypeOK => \A s \in FanOut : Enumerate(s) \subseteq Keys
  /\ \A s \in FanOut, k \in Keys : <<s, k>> \in Items /\ <<s, k>> \in Jobs
BY StepsAssumption, PhasesAssumption DEF Enumerate, TypeOK, Items, Jobs

\* On a book that is not finished the selectable steps have not begun.
LEMMA SelectionFree ==
  ASSUME WInv, Await, ~ReselectAnytime, imp = "awaiting_selection", NEW s \in Selectable
  PROVE  /\ bookDone => ArcDone /\ runPc = "off"
         /\ ~bookDone => ~Done(s)
         /\ stepPc[s] = "idle"
<1>1. TypeOK /\ s \in Arc /\ s \in Steps
  BY FanOutFacts DEF WInv, IInv
<1>2. bookDone => ArcDone /\ runPc = "off"
  BY PhasesAreAllSteps DEF WInv, IInv, PhasesInOrder, Await, Awaiting
<1>3. ~bookDone => phase # "arc"
  BY DEF Await, Awaiting
<1>4. ~bookDone => ~Done(s)
  BY <1>1, <1>3 DEF WInv, PhaseReached
<1>5. stepPc[s] = "idle"
  BY <1>1, AwaitAtWork DEF Awaiting
<1> QED BY <1>2, <1>4, <1>5

LEMMA StaleKept ==
  ASSUME WInv, Await, ~ReselectAnytime, [Next]_vars, Stale, ~ResetArc
  PROVE  Stale'
<1>1. TypeOK /\ bookDone /\ ArcDone /\ ArcDone' /\ ~AllAbsent /\ JobsHaveSteps /\ Walk
  BY PhasesKept, StepsAssumption, PhasesAssumption
     DEF WInv, IInv, Stale, RowsSeeded, ArcDone, AllParentsComplete, Done, DoneStatuses,
         AllAbsent
<1>2. CASE imp = "awaiting_selection" /\ dirty
  <2>1. runPc = "off" /\ adv = NoAdvance /\ \A s \in Steps : stepPc[s] = "idle"
    BY <1>1, <1>2 DEF Await, Awaiting, Walk
  <2>2. CASE User
    <3>1. UNCHANGED <<bookDone, adv, stepPc>>
      BY <2>2, UserLeaves
    <3>2. CASE ConfirmSelection
      BY <1>1, <2>1, <3>1, <3>2 DEF ConfirmSelection, Stale
    <3>3. CASE ~ConfirmSelection
      BY <1>1, <1>2, <2>2, <3>1, <3>3 DEF User, Start, ConfirmProjection, ChangeSelection,
         CloseWindow, KeepSelection, Reselect, Stale
    <3> QED BY <3>2, <3>3
  <2>3. ~RunStep /\ ~Ends
    BY <2>1 DEF RunStep, Seed, ResetArc, PickPhase, EnterPhase, AfterDag, OpenGate,
       FinalizeRows, FinalizeSync, FinalizeStatus, FinalizeBook, RunThrows, Ends, HostKills,
       Crash
  <2>4. ~Advance
    BY <2>1 DEF Advance, AdvanceReadImport, AdvanceHalt, AdvanceDispatch, NoAdvance, AdvancePcs
  <2>5. ~JobStep
    BY <2>1, JobMoves, JobAtWork
  <2>6. \A t \in Steps : ~StepRuns(t)
    BY <1>1, <2>1, StepLeaves
  <2>7. CASE UNCHANGED vars
    BY <1>1, <1>2, <2>7 DEF vars, Stale
  <2> QED BY <2>2, <2>3, <2>4, <2>5, <2>6, <2>7, Activities
<1>3. CASE /\ imp = "arc" /\ runPc \in {"off", "seed", "reset", "respond"}
           /\ adv = NoAdvance /\ \A s \in Steps : stepPc[s] = "idle"
  <2>1. CASE User
    BY <1>1, <1>3, <2>1 DEF User, Start, ConfirmProjection, ChangeSelection, CloseWindow,
       ConfirmSelection, KeepSelection, Reselect, Stale
  <2>2. CASE RunStep
    <3>1. Seed \/ RunThrows
      BY <1>3, <2>2 DEF RunStep, Seed, ResetArc, PickPhase, EnterPhase, AfterDag, OpenGate,
         FinalizeRows, FinalizeSync, FinalizeStatus, FinalizeBook
    <3> QED BY <1>1, <1>3, <3>1 DEF Seed, RunThrows, Stale
  <2>3. CASE Ends
    BY <1>1, <1>3, <2>3, EndsLeave DEF Stale
  <2>4. ~Advance
    BY <1>3 DEF Advance, AdvanceReadImport, AdvanceHalt, AdvanceDispatch, NoAdvance, AdvancePcs
  <2>5. ~JobStep
    BY <1>3, JobMoves, JobAtWork
  <2>6. \A t \in Steps : ~StepRuns(t)
    BY <1>1, <1>3, StepLeaves
  <2>7. CASE UNCHANGED vars
    BY <1>1, <1>3, <2>7 DEF vars, Stale
  <2> QED BY <2>1, <2>2, <2>3, <2>4, <2>5, <2>6, <2>7, Activities
<1> QED BY <1>2, <1>3 DEF Stale

LEMMA CoverKept ==
  ASSUME WInv, Await, Cover, [Next]_vars
  PROVE  Cover'
<1> SUFFICES ASSUME ~ReselectAnytime, NEW s \in FanOut
             PROVE  /\ Done(s)' => Covered(s)' \/ (s \in Selectable /\ Stale')
                    /\ stepPc'[s] = "wait" => \A k \in Enumerate(s)' : job'[<<s, k>>] # "none"
  BY DEF Cover
<1>1. /\ TypeOK /\ s \in Steps /\ Enumerate(s) \subseteq Keys
      /\ \A k \in Keys : <<s, k>> \in Items /\ <<s, k>> \in Jobs
  BY FanOutFacts DEF WInv, IInv
<1>2. /\ Done(s) => Covered(s) \/ (s \in Selectable /\ Stale)
      /\ stepPc[s] = "wait" => \A k \in Enumerate(s) : job[<<s, k>>] # "none"
  BY DEF Cover
<1>3. selected' = selected => Enumerate(s)' = Enumerate(s)
  BY DEF Enumerate
<1>4. selected' = selected /\ Covered(s) => Covered(s)'
  <2>1. \A k \in Enumerate(s) : child[<<s, k>>] = "completed" => child'[<<s, k>>] = "completed"
    BY <1>1, ItemKept DEF WInv
  <2> QED BY <1>3, <2>1 DEF Covered
<1>5. CASE ChangeSelection
  <2>1. UNCHANGED <<parent, child, stepPc, job>>
    BY <1>5 DEF ChangeSelection
  <2>2. CASE s \in Selectable
    <3>1. imp = "awaiting_selection" /\ imp' = imp /\ dirty' /\ bookDone' = bookDone
      BY <1>5 DEF ChangeSelection
    <3>2. Done(s) => bookDone /\ ArcDone
      BY <2>2, <3>1, SelectionFree
    <3>3. ArcDone' = ArcDone /\ Done(s)' = Done(s)
      BY <2>1 DEF ArcDone, AllParentsComplete, Done
    <3>4. Done(s)' => Stale'
      BY <3>1, <3>2, <3>3 DEF Stale
    <3>5. stepPc[s] = "idle"
      BY <2>2, <3>1, SelectionFree
    <3> QED BY <2>1, <2>2, <3>4, <3>5
  <2>3. CASE s \notin Selectable
    BY <1>2, <2>1, <2>3 DEF Covered, Enumerate, Done
  <2> QED BY <2>2, <2>3
<1>6. CASE ResetArc
  <2>1. UNCHANGED <<child, selected, stepPc, job>>
    BY <1>6 DEF ResetArc
  <2>2. Done(s)' => Done(s) /\ ~(s \in Arc /\ ArcReopened)
    BY <1>1, <1>6 DEF ResetArc, Done, DoneStatuses
  <2>3. s \in Selectable /\ Stale => s \in Arc /\ ArcReopened
    BY <1>6, FanOutFacts DEF Await, Awaiting, ResetArc, Stale, ArcReopened, ArcDone
  <2> QED BY <1>2, <1>3, <1>4, <2>1, <2>2, <2>3
<1>7. CASE ~ChangeSelection /\ ~ResetArc
  <2>1. selected' = selected
    <3>1. CASE User
      BY <1>7, <3>1 DEF User, Start, ConfirmProjection, CloseWindow, ConfirmSelection,
         KeepSelection, Reselect
    <3>2. CASE ~User
      BY <1>1, <3>2, Activities, RunLeaves, AdvanceLeaves, JobLeaves, StepLeaves, EndsLeave
         DEF vars
    <3> QED BY <3>1, <3>2
  <2>2. Done(s) => Covered(s)' \/ (s \in Selectable /\ Stale')
    BY <1>2, <1>4, <1>7, <2>1, StaleKept
  <2>3. Done(s)' => Done(s) \/ Covered(s)'
    <3>1. CASE UNCHANGED parent
      BY <3>1 DEF Done
    <3>2. CASE Seed
      BY <1>1, <3>2, FanOutFacts DEF Seed, Done, DoneStatuses
    <3>3. ASSUME NEW t \in Steps, BeginSimple(t) \/ BeginFanOut(t) \/ SettleStep(t),
                 Done(s)', ~Done(s)
          PROVE  Covered(s)'
      <4>1. s = t
        BY <1>1, <3>3 DEF Done, TypeOK, BeginSimple, BeginFanOut, SettleStep
      <4>2. CASE BeginFanOut(t)
        <5>1. {<<s, k>> : k \in Enumerate(s)} = {}
          BY <1>1, <3>3, <4>1, <4>2 DEF Done, DoneStatuses, TypeOK, BeginFanOut
        <5>2. Enumerate(s)' = {}
          BY <1>3, <2>1, <5>1
        <5> QED BY <5>2 DEF Covered
      <4>3. CASE SettleStep(t)
        <5>1. stepPc[s] = "wait" /\ child' = child
          BY <4>1, <4>3 DEF SettleStep
        <5>2. ~\E j \in JobsOf(s) : job[j] = "bad"
          BY <1>1, <3>3, <4>1, <4>3 DEF SettleStep, Done, DoneStatuses, TypeOK
        <5>3. ASSUME NEW k \in Enumerate(s) PROVE child[<<s, k>>] = "completed"
          <6>1. <<s, k>> \in JobsOf(s) /\ <<s, k>> \in Items
            BY <1>1, <1>2, <5>1 DEF JobsOf
          <6>2. job[<<s, k>>] = "ok"
            BY <4>1, <4>3, <5>2, <6>1 DEF SettleStep
          <6> QED BY <1>1, <6>1, <6>2 DEF WInv, JobsHaveSteps
        <5> QED BY <1>3, <2>1, <5>1, <5>3 DEF Covered
      <4>4. CASE BeginSimple(t)
        BY <4>1, <4>4 DEF BeginSimple
      <4> QED BY <3>3, <4>2, <4>3, <4>4
    <3> QED BY <1>7, <3>1, <3>2, <3>3, RowsChange DEF WInv
  <2>4. ASSUME stepPc'[s] = "wait", NEW k \in Enumerate(s)
        PROVE  job'[<<s, k>>] # "none"
    <3>1. <<s, k>> \in Jobs /\ <<s, k>>[1] = s
      BY <1>1
    <3>2. CASE stepPc[s] = "wait" /\ UNCHANGED job
      BY <1>2, <3>2
    <3>3. CASE User \/ RunStep \/ Advance \/ UNCHANGED vars
      <4>1. job' = job
        BY <3>3, UserLeaves, RunLeaves, AdvanceLeaves DEF vars
      <4>2. stepPc[s] = "wait"
        BY <1>1, <2>4, <3>3, UserLeaves, RunLeaves, AdvanceLeaves DEF AdvanceDispatch, vars
      <4> QED BY <1>2, <4>1, <4>2
    <3>4. CASE Ends
      BY <1>1, <2>4, <3>4, EndsLeave
    <3>5. CASE JobStep
      <4>1. stepPc[s] = "wait"
        BY <2>4, <3>5, JobLeaves
      <4>2. PICK j \in Jobs : /\ \A i \in Jobs \ {j} : job'[i] = job[i]
                              /\ job'[j] \in {"ok", "running", "reporting", "bad"}
        BY <3>5, JobMoves
      <4> QED BY <1>2, <3>1, <4>1, <4>2
    <3>6. ASSUME NEW t \in Steps, StepRuns(t) PROVE job'[<<s, k>>] # "none"
      <4>1. CASE s # t
        BY <1>1, <1>2, <2>4, <3>1, <3>6, <4>1, StepLeaves
      <4>2. CASE s = t
        <5>1. BeginFanOut(t) \/ BeginSimple(t)
          BY <1>1, <2>4, <3>6, <4>2 DEF TypeOK, StepRuns, BeginThrows, SettleStep, ReportStep,
             ReportStepThrows, ReturnStep
        <5>2. BeginFanOut(t)
          BY <4>2, <5>1 DEF BeginSimple
        <5>3. stepPc'[t] = "wait" /\ parent[t] # "completed"
          BY <1>1, <2>4, <4>2, <5>2 DEF BeginFanOut, WInv, IInv, StepsOwnRows
        <5>4. job'[<<s, k>>] = "queued"
          BY <1>1, <3>1, <4>2, <5>2, <5>3 DEF BeginFanOut, TypeOK
        <5> QED BY <5>4
      <4> QED BY <4>1, <4>2
    <3> QED BY <3>3, <3>4, <3>5, <3>6, Activities
  <2> QED BY <1>3, <2>1, <2>2, <2>3, <2>4
<1> QED BY <1>5, <1>6, <1>7

\* Only the rows of a new import say which steps are skipped.
LEMMA RequiredKept ==
  ASSUME WInv, [Next]_vars, ~AllAbsent, selected' = selected
  PROVE  Required' = Required
<1>1. TypeOK
  BY DEF WInv, IInv
<1>2. \A s \in Steps \ FanOut : parent'[s] = "skipped" <=> parent[s] = "skipped"
  <2>1. CASE UNCHANGED parent
    BY <2>1
  <2>2. CASE Seed
    BY <2>2 DEF Seed, AllAbsent
  <2>3. CASE ResetArc
    <3>1. \A s \in Arc : parent[s] # "skipped"
      BY StepsAssumption, DependsAssumption DEF WInv, RowsSeeded
    <3> QED BY <2>3, <3>1 DEF ResetArc
  <2>4. ASSUME NEW t \in Steps, BeginSimple(t) \/ BeginFanOut(t) \/ SettleStep(t)
        PROVE  \A s \in Steps : parent'[s] = "skipped" <=> parent[s] = "skipped"
    <3>1. parent[t] # "skipped"
      BY <2>4 DEF WInv, IInv, StepsOwnRows, BeginSimple, BeginFanOut, SettleStep
    <3>2. parent'[t] # "skipped" /\ \A s \in Steps \ {t} : parent'[s] = parent[s]
      BY <1>1, <2>4, <3>1 DEF TypeOK, BeginSimple, BeginFanOut, SettleStep
    <3> QED BY <3>1, <3>2
  <2> QED BY <2>1, <2>2, <2>3, <2>4, RowsChange DEF WInv
<1>3. \A j \in Items : Enumerate(j[1])' = Enumerate(j[1])
  BY DEF Enumerate
<1> QED BY <1>2, <1>3 DEF Required

\* What bridgeSyncImport copies is everything.
LEMMA AllRequired ==
  ASSUME WInv, Await, Cover, ~ReselectAnytime, runPc = "finSync"
  PROVE  Required \subseteq Outputs
<1>1. AllParentsComplete(Steps) /\ TypeOK
  BY DEF WInv, IInv, PhasesInOrder
<1>2. \A s \in FanOut : Covered(s)
  BY <1>1, FanOutFacts DEF Cover, Stale, Await, Awaiting, AllParentsComplete
<1>3. ASSUME NEW s \in Steps \ FanOut, parent[s] # "skipped"
      PROVE  parent[s] = "completed"
  BY <1>1, <1>3 DEF AllParentsComplete, Done, DoneStatuses
<1>4. ASSUME NEW j \in Items, j[2] \in Enumerate(j[1])
      PROVE  child[j] = "completed"
  <2>1. j[1] \in FanOut /\ j = <<j[1], j[2]>>
    BY DEF Items
  <2> QED BY <1>2, <1>4, <2>1 DEF Covered
<1> QED BY <1>3, <1>4 DEF Required, Outputs

LEMMA PublishedKept ==
  ASSUME WInv, Await, Cover, Published, [Next]_vars
  PROVE  Published'
<1> SUFFICES ASSUME ~ReselectAnytime,
                    \/ imp' = "completed" \/ runPc' = "finStatus"
                    \/ imp' = "awaiting_selection" /\ bookDone' /\ ~dirty'
             PROVE  Required' \subseteq synced'
  BY DEF Published
<1> DEFINE Shown == \/ imp = "completed" \/ runPc = "finStatus"
                    \/ imp = "awaiting_selection" /\ bookDone /\ ~dirty
<1>1. TypeOK /\ (Shown => Required \subseteq synced)
  BY DEF WInv, IInv, Published
<1>2. bookDone => ~AllAbsent
  BY PhasesAssumption, StepsAssumption
     DEF WInv, IInv, PhasesInOrder, AllParentsComplete, Done, DoneStatuses, AllAbsent
<1>3. CASE FinalizeSync
  <2>1. Required \subseteq synced'
    BY <1>3, AllRequired DEF FinalizeSync
  <2>2. Required' = Required
    BY <1>3 DEF FinalizeSync, Required, Enumerate
  <2> QED BY <2>1, <2>2
<1>4. CASE ~FinalizeSync
  <2>1. synced' = synced
    BY <1>1, <1>4, Activities, UserLeaves, RunLeaves, AdvanceLeaves, JobLeaves, StepLeaves,
       EndsLeave DEF vars
  <2>2. Shown /\ selected' = selected
    <3>1. CASE User
      <4>1. UNCHANGED <<bookDone>> /\ (runPc' = "finStatus" => runPc = "finStatus")
        BY <3>1, UserLeaves DEF Start
      <4>2. ~ChangeSelection
        BY <4>1 DEF ChangeSelection, Await, Awaiting
      <4> QED
        BY <3>1, <4>1, <4>2 DEF User, Start, ConfirmProjection, CloseWindow, ConfirmSelection,
           KeepSelection, Reselect
    <3>2. CASE RunStep
      <4>1. UNCHANGED <<dirty, selected>>
        BY <3>2, RunLeaves
      <4>2. runPc' # "finStatus"
        BY <1>4, <3>2 DEF RunStep, Seed, ResetArc, PickPhase, EnterPhase, AfterDag,
           NextAfterDag, NextAfterDone, OpenGate, FinalizeRows, FinalizeStatus, FinalizeBook,
           RunThrows
      <4>3. CASE EnterPhase
        BY <1>1, <4>2, <4>3 DEF EnterPhase, PhaseStatus, TypeOK
      <4>4. CASE OpenGate
        BY <4>2, <4>4 DEF OpenGate, WInv, IInv, PhasesInOrder
      <4>5. CASE FinalizeStatus
        BY <4>1, <4>5 DEF FinalizeStatus
      <4>6. CASE FinalizeBook
        BY <4>1, <4>2, <4>6 DEF FinalizeBook, Await, Awaiting
      <4>7. CASE ~EnterPhase /\ ~OpenGate /\ ~FinalizeStatus /\ ~FinalizeBook
        BY <3>2, <4>1, <4>2, <4>7, RunLeaves
      <4> QED BY <4>3, <4>4, <4>5, <4>6, <4>7
    <3>3. CASE ~User /\ ~RunStep
      <4>1. UNCHANGED <<bookDone, dirty, selected>>
        BY <1>1, <3>3, Activities, AdvanceLeaves, JobLeaves, StepLeaves, EndsLeave DEF vars
      <4>2. runPc' = "finStatus" => runPc = "finStatus"
        BY <1>1, <3>3, Activities, AdvanceLeaves, JobLeaves, StepLeaves, EndsLeave DEF vars
      <4>3. imp' = imp \/ imp' \in {"failed", "pending"}
        BY <1>1, <3>3, Activities, AdvanceLeaves, JobLeaves, StepLeaves, EndsLeave
           DEF vars, ReportFailure, ReportStep, StatusAfterFailure
      <4> QED BY <4>1, <4>2, <4>3
    <3> QED BY <3>1, <3>2, <3>3
  <2>3. ~AllAbsent
    BY <1>2, <2>2, StepsAssumption DEF WInv, RowsSeeded, NoneAbsent, AllAbsent
  <2> QED BY <1>1, <2>1, <2>2, <2>3, RequiredKept
<1> QED BY <1>3, <1>4

LEMMA PublishedInvariant == Spec => [](WInv /\ Await /\ Cover /\ Published)
<1>1. Init => WInv /\ Await /\ Cover /\ Published
  <2> SUFFICES ASSUME Init PROVE WInv /\ Await /\ Cover /\ Published
    OBVIOUS
  <2>1. WInv /\ Await
    BY InitWInv DEF Init, Await, Awaiting
  <2>2. Cover /\ Published
    BY StepsAssumption DEF Init, Cover, Done, DoneStatuses, Published
  <2> QED BY <2>1, <2>2
<1>2. /\ WInv /\ Await /\ Cover /\ Published /\ [Next]_vars
      => WInv' /\ Await' /\ Cover' /\ Published'
  BY NextWInv, AwaitKept, CoverKept, PublishedKept
<1> QED BY <1>1, <1>2, PTL DEF Spec

\* When the import says it is complete, the output of every step and of every
\* entity of the selection is in the main database, also after reselections,
\* retries and lost workers.
THEOREM FinishedIsPublished ==
  ASSUME ~ReselectAnytime
  PROVE  Spec => []CompletedIsPublished
<1>1. Published => CompletedIsPublished
  BY DEF Published, CompletedIsPublished
<1> QED BY <1>1, PublishedInvariant, PTL
=============================================================================
