-------------------------- MODULE StepRetryProofs ---------------------------
(***************************************************************************)
(* Theorems about StepRetry, for every set of errors and however they are  *)
(* classed.  The loop decides from two counters; the reference Hopeless    *)
(* looks at the whole history of errors.  The invariant below says what    *)
(* the counters stand for, and from it both decide alike.                  *)
(***************************************************************************)
EXTENDS StepRetry, SequenceTheorems, TLAPS

\* The count is the length of the run of equal errors at the end.
CountsTheRun ==
  /\ history = <<>> => lastError = NoError /\ identical = 0
  /\ history # <<>> =>
       /\ lastError = history[Len(history)]
       /\ identical \in 1..Len(history)
       /\ \A k \in 1..Len(history) :
            k > Len(history) - identical => history[k] = lastError
       /\ identical < Len(history) => history[Len(history) - identical] # lastError

\* How many attempts there were where the call is.
AttemptsCounted ==
  /\ pc \in {"payload", "try"} => Len(history) = attempt
  /\ pc \in {"decide", "note", "wait", "report"} => Len(history) = attempt + 1
  /\ Len(history) <= attempt + 1
  /\ pc = "payload" => attempt = 0
  /\ pc \in {"note", "wait"} => attempt < RetryLimit(lastError)

\* The pauses are those of the attempts before this one.
PausesCounted ==
  /\ attempt = 0 => waited = 0
  /\ attempt = 1 => waited = 10000
  /\ attempt = 2 => waited = 30000
  /\ attempt > 2 => waited = 60000 * attempt - 110000

\* The first n errors left hope, one by one.
HopeBefore(n) == \A k \in 1..n : ~Hopeless(SubSeq(history, 1, k))

HopeKept ==
  /\ pc \in {"payload", "try", "note", "wait"} => HopeBefore(Len(history))
  /\ pc = "decide" => HopeBefore(Len(history) - 1)
  /\ pc = "report" => Hopeless(history)

ReportsLast ==
  /\ pc # "thrown" => reported = <<>>
  /\ ReportedAtTheEnd

Counters == TypeOK /\ CountsTheRun /\ AttemptsCounted /\ PausesCounted

IInv == Counters /\ HopeKept /\ ReportsLast

-----------------------------------------------------------------------------
(* The operators.                                                          *)

LEMMA Limits == \A e : RetryLimit(e) \in {0, 3, 10}
  BY DEF RetryLimit

\* backoffMs: ten, twenty, forty seconds, then a minute.
LEMMA Pauses ==
  ASSUME NEW n \in 0..9
  PROVE  Backoff(n) = IF n = 0 THEN 10000 ELSE IF n = 1 THEN 20000
                      ELSE IF n = 2 THEN 40000 ELSE 60000
<1>0. CASE n = 0 BY <1>0 DEF Backoff
<1>1. CASE n = 1 BY <1>1 DEF Backoff
<1>2. CASE n = 2 BY <1>2 DEF Backoff
<1>3. CASE n = 3 BY <1>3 DEF Backoff
<1>4. CASE n = 4 BY <1>4 DEF Backoff
<1>5. CASE n = 5 BY <1>5 DEF Backoff
<1>6. CASE n = 6 BY <1>6 DEF Backoff
<1>7. CASE n = 7 BY <1>7 DEF Backoff
<1>8. CASE n = 8 BY <1>8 DEF Backoff
<1>9. CASE n = 9 BY <1>9 DEF Backoff
<1>q. QED BY <1>0, <1>1, <1>2, <1>3, <1>4, <1>5, <1>6, <1>7, <1>8, <1>9

LEMMA Prefixes ==
  ASSUME NEW h \in Seq(Errors), NEW e \in Errors
  PROVE  /\ Append(h, e) \in Seq(Errors)
         /\ Len(Append(h, e)) = Len(h) + 1
         /\ Append(h, e)[Len(h) + 1] = e
         /\ \A k \in 1..Len(h) : /\ Append(h, e)[k] = h[k]
                                 /\ SubSeq(Append(h, e), 1, k) = SubSeq(h, 1, k)
  BY SMT

LEMMA Whole == ASSUME NEW h \in Seq(Errors) PROVE SubSeq(h, 1, Len(h)) = h
  BY SMT

\* The counters decide as the whole history would.
LEMMA CountersSuffice ==
  ASSUME TypeOK, CountsTheRun, Len(history) = attempt + 1
  PROVE  GivesUp <=> Hopeless(history)
<1> DEFINE n == Len(history)
<1>1. n \in Nat /\ n >= 1 /\ history # <<>>
  BY DEF TypeOK
<1>2. lastError = history[n] /\ identical \in 1..n
  BY <1>1 DEF CountsTheRun
<1>3. attempt >= RetryLimit(lastError) <=> n > RetryLimit(lastError)
  BY <1>1, Limits DEF TypeOK
<1>4. identical >= 3 <=> n >= 3 /\ history[n - 1] = lastError /\ history[n - 2] = lastError
  <2>1. CASE identical >= 3
    BY <2>1, <1>1, <1>2 DEF CountsTheRun
  <2>2. CASE identical = 1
    BY <2>2, <1>1, <1>2 DEF CountsTheRun
  <2>3. CASE identical = 2
    BY <2>3, <1>1, <1>2 DEF CountsTheRun
  <2>4. QED BY <1>1, <1>2, <2>1, <2>2, <2>3
<1>5. QED
  BY <1>2, <1>3, <1>4 DEF GivesUp, Persistent, Hopeless, IDENTICAL_ERROR_LIMIT

-----------------------------------------------------------------------------
(* The counters.                                                           *)

LEMMA CountersInit == Init => Counters
  BY ErrorsAssumption
  DEF Init, Counters, TypeOK, CountsTheRun, AttemptsCounted, PausesCounted, Pcs

LEMMA RunKept ==
  ASSUME CountsTheRun, UNCHANGED <<history, lastError, identical>>
  PROVE  CountsTheRun'
  BY DEF CountsTheRun

LEMMA CountersNext ==
  ASSUME Counters, [Next]_vars
  PROVE  Counters'
<1> USE DEF Counters
<1>1. CASE BuildPayload
  <2>1. CountsTheRun' BY <1>1, RunKept DEF BuildPayload
  <2>2. QED
    BY <1>1, <2>1 DEF BuildPayload, TypeOK, AttemptsCounted, PausesCounted, Pcs
<1>2. CASE AttemptReturns
  <2>1. CountsTheRun' BY <1>2, RunKept DEF AttemptReturns
  <2>2. QED
    BY <1>2, <2>1 DEF AttemptReturns, TypeOK, AttemptsCounted, PausesCounted, Pcs
<1>3. ASSUME NEW e \in Errors, AttemptThrows(e) PROVE Counters'
  <2>1. /\ history \in Seq(Errors) /\ Len(history) \in Nat /\ Len(history) = attempt
        /\ history' = Append(history, e) /\ lastError' = e /\ attempt' = attempt
        /\ pc' = "decide" /\ waited' = waited /\ reported' = reported
        /\ identical' = Counted(e)
    BY <1>3 DEF AttemptThrows, TypeOK, AttemptsCounted
  <2>2. /\ history' \in Seq(Errors) /\ Len(history') = attempt + 1 /\ history' # <<>>
        /\ history'[Len(history) + 1] = e
        /\ \A k \in 1..Len(history) : history'[k] = history[k]
    BY <2>1, Prefixes
  <2>3. CASE history # <<>> /\ e = lastError
    <3>1. identical' = identical + 1 /\ identical \in 1..Len(history)
      BY <2>1, <2>3 DEF Counted, CountsTheRun
    <3>2. CountsTheRun'
      <4>1. \A k \in 1..Len(history') :
              k > Len(history') - identical' => history'[k] = lastError'
        BY <2>1, <2>2, <2>3, <3>1 DEF CountsTheRun
      <4>2. identical' < Len(history') => history'[Len(history') - identical'] # lastError'
        BY <2>1, <2>2, <2>3, <3>1 DEF CountsTheRun
      <4>3. QED BY <2>1, <2>2, <3>1, <4>1, <4>2 DEF CountsTheRun
    <3>3. QED
      BY <2>1, <2>2, <3>1, <3>2 DEF TypeOK, AttemptsCounted, PausesCounted, Pcs
  <2>4. CASE ~(history # <<>> /\ e = lastError)
    <3>1. identical' = 1 /\ (history # <<>> => e # lastError)
      BY <2>1, <2>4, ErrorsAssumption DEF Counted, CountsTheRun
    <3>2. CountsTheRun'
      BY <2>1, <2>2, <3>1 DEF CountsTheRun
    <3>3. QED
      BY <2>1, <2>2, <3>1, <3>2 DEF TypeOK, AttemptsCounted, PausesCounted, Pcs
  <2>5. QED BY <2>3, <2>4
<1>4. CASE Decide
  <2>1. pc' # "note" \/ attempt < RetryLimit(lastError)
    BY <1>4, Limits DEF Decide, GivesUp, TypeOK
  <2>2. CountsTheRun' BY <1>4, RunKept DEF Decide
  <2>3. QED
    BY <1>4, <2>1, <2>2 DEF Decide, TypeOK, AttemptsCounted, PausesCounted, Pcs
<1>5. CASE NoteRetry
  <2>1. CountsTheRun' BY <1>5, RunKept DEF NoteRetry
  <2>2. QED
    BY <1>5, <2>1 DEF NoteRetry, LineSettled, TypeOK, AttemptsCounted, PausesCounted, Pcs
<1>6. CASE WaitForRetry
  <2>1. attempt \in 0..9
    BY <1>6, Limits DEF WaitForRetry, AttemptsCounted, TypeOK
  <2>2. waited' = waited + (IF attempt = 0 THEN 10000 ELSE IF attempt = 1 THEN 20000
                            ELSE IF attempt = 2 THEN 40000 ELSE 60000)
    BY <1>6, <2>1, Pauses DEF WaitForRetry
  <2>3. PausesCounted' /\ waited' \in Nat
    BY <1>6, <2>1, <2>2 DEF WaitForRetry, PausesCounted, TypeOK
  <2>4. CountsTheRun' BY <1>6, RunKept DEF WaitForRetry
  <2>5. QED
    BY <1>6, <2>1, <2>3, <2>4 DEF WaitForRetry, TypeOK, AttemptsCounted, Pcs
<1>7. CASE ReportFailure
  <2>1. /\ pc = "report" /\ pc' = "thrown" /\ reported' = Append(reported, lastError)
        /\ UNCHANGED <<attempt, lastError, identical, waited, history>>
    BY <1>7 DEF ReportFailure, AfterReport, ReportedError
  <2>2. CountsTheRun' BY <2>1, RunKept
  <2>3. lastError \in Errors
    <3>1. history \in Seq(Errors) /\ Len(history) \in Nat /\ Len(history) >= 1
      BY <2>1 DEF TypeOK, AttemptsCounted
    <3>2. lastError = history[Len(history)] BY <3>1 DEF CountsTheRun
    <3>3. QED BY <3>1, <3>2
  <2>4. reported' \in Seq(Errors) BY <2>1, <2>3 DEF TypeOK
  <2>5. TypeOK' BY <2>1, <2>4 DEF TypeOK, Pcs
  <2>6. AttemptsCounted' BY <2>1 DEF AttemptsCounted, TypeOK
  <2>7. PausesCounted' BY <2>1 DEF PausesCounted
  <2>8. QED BY <2>2, <2>5, <2>6, <2>7
<1>8. CASE UNCHANGED vars
  <2>1. CountsTheRun' BY <1>8, RunKept DEF vars
  <2>2. QED BY <1>8, <2>1 DEF vars, TypeOK, AttemptsCounted, PausesCounted
<1>9. QED
  BY <1>1, <1>2, <1>3, <1>4, <1>5, <1>6, <1>7, <1>8 DEF Next, Rest

-----------------------------------------------------------------------------
(* Hope, and the report.                                                   *)

LEMMA HopeInit == Init => HopeKept /\ ReportsLast
  BY DEF Init, HopeKept, HopeBefore, ReportsLast, ReportedAtTheEnd

LEMMA HopeNext ==
  ASSUME Counters, HopeKept, [Next]_vars
  PROVE  HopeKept'
<1>0. TypeOK /\ CountsTheRun /\ AttemptsCounted
  BY DEF Counters
<1>1. ASSUME NEW e \in Errors, AttemptThrows(e) PROVE HopeKept'
  <2>1. /\ history \in Seq(Errors) /\ Len(history) \in Nat
        /\ history' = Append(history, e) /\ pc = "try" /\ pc' = "decide"
    BY <1>0, <1>1 DEF AttemptThrows, TypeOK
  <2>2. Len(history') - 1 = Len(history)
    BY <2>1, Prefixes
  <2>3. HopeBefore(Len(history))
    BY <2>1 DEF HopeKept
  <2>4. \A k \in 1..Len(history) : ~Hopeless(SubSeq(history', 1, k))
    BY <2>1, <2>3, Prefixes DEF HopeBefore
  <2>5. HopeBefore(Len(history) - 1)'
    BY <2>2, <2>4 DEF HopeBefore
  <2>6. QED BY <2>1, <2>5 DEF HopeKept
<1>2. CASE Decide
  <2>1. GivesUp <=> Hopeless(history)
    BY <1>0, <1>2, CountersSuffice DEF Decide, AttemptsCounted
  <2>2. /\ history \in Seq(Errors) /\ Len(history) \in Nat /\ Len(history) > 0
        /\ history' = history /\ pc = "decide"
        /\ pc' = IF ~GivesUp THEN "note" ELSE IF HasHook THEN "report" ELSE "thrown"
    BY <1>0, <1>2 DEF Decide, TypeOK, AttemptsCounted
  <2>3. HopeBefore(Len(history) - 1) /\ SubSeq(history, 1, Len(history)) = history
    BY <2>2, Whole DEF HopeKept
  <2>4. CASE GivesUp
    BY <2>1, <2>2, <2>4 DEF HopeKept
  <2>5. CASE ~GivesUp
    <3>1. \A k \in 1..Len(history) : ~Hopeless(SubSeq(history, 1, k))
      <4>1. TAKE k \in 1..Len(history)
      <4>2. CASE k = Len(history) BY <2>1, <2>3, <2>5, <4>2
      <4>3. CASE k # Len(history)
        <5>1. k \in 1..Len(history) - 1 BY <2>2, <4>3
        <5>2. QED BY <2>3, <5>1 DEF HopeBefore
      <4>4. QED BY <4>2, <4>3
    <3>2. pc' = "note" /\ HopeBefore(Len(history))'
      BY <2>2, <2>5, <3>1 DEF HopeBefore
    <3>3. QED BY <3>2 DEF HopeKept
  <2>6. QED BY <2>4, <2>5
<1>3. CASE history' = history /\ (pc' = pc \/ pc' \in {"returned", "thrown"}
                               \/ (pc \in {"payload", "note", "wait"} /\ pc' \in {"try", "wait"}))
  BY <1>3 DEF HopeKept, HopeBefore
<1>4. QED
  BY <1>1, <1>2, <1>3
  DEF Next, BuildPayload, AttemptReturns, NoteRetry, LineSettled, WaitForRetry,
      ReportFailure, AfterReport, Rest, vars

LEMMA ReportNext ==
  ASSUME Counters, HopeKept, ReportsLast, [Next]_vars
  PROVE  ReportsLast'
<1>1. CASE ReportFailure
  <2>1. /\ reported = <<>> /\ Hopeless(history) /\ history' = history /\ pc' = "thrown"
        /\ reported' = Append(reported, lastError)
    BY <1>1 DEF ReportFailure, AfterReport, ReportedError, ReportsLast, HopeKept
  <2>2. lastError = history[Len(history)]
    BY <1>1 DEF ReportFailure, Counters, CountsTheRun, AttemptsCounted, TypeOK
  <2>3. reported' = <<history[Len(history)]>>
    BY <2>1, <2>2
  <2>4. QED BY <2>1, <2>3 DEF ReportsLast, ReportedAtTheEnd
<1>2. CASE reported' = reported /\ pc # "thrown"
  BY <1>2 DEF ReportsLast, ReportedAtTheEnd
<1>3. CASE UNCHANGED vars
  BY <1>3 DEF vars, ReportsLast, ReportedAtTheEnd
<1>4. QED
  BY <1>1, <1>2, <1>3
  DEF Next, BuildPayload, AttemptReturns, AttemptThrows, Decide, NoteRetry, WaitForRetry,
      Rest

-----------------------------------------------------------------------------
(* The theorems.                                                           *)

\* The counters of attempts and pauses, the hope for another attempt, and the
\* report of a failure as the last thing, however the attempts end.
THEOREM Inductive == Spec => []IInv
<1>1. Init => IInv
  BY CountersInit, HopeInit DEF IInv
<1>2. IInv /\ [Next]_vars => IInv'
  BY CountersNext, HopeNext, ReportNext DEF IInv
<1>3. QED BY <1>1, <1>2, PTL DEF Spec

\* The state keeps its shape; no call makes more than eleven attempts.
THEOREM TypeCorrect == Spec => []TypeOK
<1>1. IInv => TypeOK BY DEF IInv, Counters
<1>2. QED BY <1>1, Inductive, PTL

\* handler.ts goes on exactly after errors that leave hope.
THEOREM Hopeful == Spec => []RetriesWhileHopeful
<1>1. IInv => RetriesWhileHopeful
  <2>1. SUFFICES ASSUME IInv PROVE RetriesWhileHopeful OBVIOUS
  <2>2. CASE pc \in {"note", "wait"}
    <3>1. history \in Seq(Errors) /\ Len(history) \in Nat /\ Len(history) > 0
      BY <2>1, <2>2 DEF IInv, Counters, TypeOK, AttemptsCounted
    <3>2. ~Hopeless(SubSeq(history, 1, Len(history)))
      BY <2>1, <2>2, <3>1 DEF IInv, HopeKept, HopeBefore
    <3>3. ~Hopeless(history) BY <3>1, <3>2, Whole
    <3>4. QED BY <2>2, <3>3 DEF RetriesWhileHopeful
  <2>3. CASE pc \notin {"note", "wait"}
    BY <2>1, <2>3 DEF IInv, HopeKept, HopeBefore, RetriesWhileHopeful
  <2>4. QED BY <2>2, <2>3
<1>2. QED BY <1>1, Inductive, PTL

\* The pauses of one call add up to 490 seconds at most.
THEOREM Patient == Spec => []WaitBounded
<1>1. IInv => WaitBounded
  BY DEF IInv, Counters, TypeOK, PausesCounted, WaitBounded
<1>2. QED BY <1>1, Inductive, PTL

\* onFailure hears once, at the end, of the last error.
THEOREM Reports == Spec => []ReportedAtTheEnd
<1>1. IInv => ReportedAtTheEnd BY DEF IInv, ReportsLast
<1>2. QED BY <1>1, Inductive, PTL

\* The retry loop is a job as the runner sees one.
THEOREM ImplementsJob == Spec => JobSpec
<1>1. Init => Job!Init
  BY DEF Init, Job!Init, jobState
<1>2. [Next]_vars => [Job!Next]_jobState
  <2>1. SUFFICES ASSUME [Next]_vars PROVE Job!Next \/ jobState' = jobState
    OBVIOUS
  <2>2. CASE BuildPayload
    BY <2>2 DEF BuildPayload, jobState, Job!Next, Job!Throw
  <2>3. CASE AttemptReturns
    BY <2>3 DEF AttemptReturns, jobState, Job!Next, Job!Succeed
  <2>4. CASE \E e \in Errors : AttemptThrows(e)
    BY <2>4 DEF AttemptThrows, jobState
  <2>5. CASE Decide
    BY <2>5 DEF Decide, jobState, Job!Next, Job!Throw, Job!Report
  <2>6. CASE NoteRetry
    BY <2>6 DEF NoteRetry, LineSettled, jobState, Job!Next, Job!Throw
  <2>7. CASE WaitForRetry
    BY <2>7 DEF WaitForRetry, jobState
  <2>8. CASE ReportFailure
    BY <2>8 DEF ReportFailure, AfterReport, jobState, Job!Next, Job!Throw
  <2>9. CASE UNCHANGED vars
    BY <2>9 DEF vars, jobState
  <2>10. QED
    BY <2>1, <2>2, <2>3, <2>4, <2>5, <2>6, <2>7, <2>8, <2>9 DEF Next, Rest
<1>3. QED BY <1>1, <1>2, PTL DEF Spec, JobSpec, Job!Spec
=============================================================================
