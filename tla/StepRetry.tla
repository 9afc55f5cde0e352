----------------------------- MODULE StepRetry ------------------------------
(***************************************************************************)
(* The retry loop around every handler of the pipeline                     *)
(* (packages/pipeline-worker/src/workflow/handler.ts): how often a failing *)
(* handler is run again, after which pause, and when its onFailure hook is *)
(* called.  An error is told from another by its name and message.         *)
(***************************************************************************)
EXTENDS Integers, Sequences

CONSTANTS
  Errors,
  Unrecoverable, Recoverable,  \* errors of these names
  Transient,                   \* errors whose message has the transient pattern
  NoError,
  HasHook                      \* config.onFailure is there

ASSUME ErrorsAssumption ==
  /\ Unrecoverable \subseteq Errors /\ Recoverable \subseteq Errors
  /\ Unrecoverable \cap Recoverable = {}
  /\ Transient \subseteq Errors
  /\ NoError \notin Errors
  /\ HasHook \in BOOLEAN

IDENTICAL_ERROR_LIMIT == 3

\* RETRY_LIMITS, DEFAULT_RETRY_LIMIT
RetryLimit(e) ==
  IF e \in Unrecoverable THEN 0 ELSE IF e \in Recoverable THEN 10 ELSE 3

\* backoffMs: the pause doubles up to a minute.
Backoff(n) == IF 10000 * 2^n < 60000 THEN 10000 * 2^n ELSE 60000

VARIABLES
  pc,          \* where the call is
  attempt,     \* counts from 0
  lastError,
  identical,   \* identicalErrorCount
  waited,      \* history: the pauses so far, added up
  history,     \* history: the errors of the attempts so far
  reported     \* history: the errors onFailure was called with

vars == <<pc, attempt, lastError, identical, waited, history, reported>>

Pcs == {"payload", "try", "decide", "note", "wait", "report", "returned", "thrown"}

\* The state has the shape the code gives it.
TypeOK ==
  /\ pc \in Pcs
  /\ attempt \in 0..10
  /\ lastError \in Errors \cup {NoError}
  /\ identical \in 0..11
  /\ waited \in Nat
  /\ history \in Seq(Errors)
  /\ reported \in Seq(Errors)

Init ==
  /\ pc = "payload"
  /\ attempt = 0 /\ lastError = NoError /\ identical = 0 /\ waited = 0
  /\ history = <<>> /\ reported = <<>>

-----------------------------------------------------------------------------
\* config.payload fails outside the loop: neither a retry nor a report.
BuildPayload ==
  /\ pc = "payload"
  /\ pc' \in {"try", "thrown"}
  /\ UNCHANGED <<attempt, lastError, identical, waited, history, reported>>

\* The handler returns; what its check says is only logged.
AttemptReturns ==
  /\ pc = "try"
  /\ pc' = "returned"
  /\ UNCHANGED <<attempt, lastError, identical, waited, history, reported>>

\* Variant: the count is never reset.
CountedTogether(e) == identical + 1

Counted(e) == IF e = lastError THEN identical + 1 ELSE 1

\* The handler, or what the loop does around it, throws e.
AttemptThrows(e) ==
  /\ pc = "try"
  /\ pc' = "decide"
  /\ lastError' = e
  /\ identical' = Counted(e)
  /\ history' = Append(history, e)
  /\ UNCHANGED <<attempt, waited, reported>>

\* isPersistentFailure
Persistent == identical >= IDENTICAL_ERROR_LIMIT /\ lastError \notin Transient

GivesUp == attempt >= RetryLimit(lastError) \/ Persistent

Decide ==
  /\ pc = "decide"
  /\ pc' = IF ~GivesUp THEN "note" ELSE IF HasHook THEN "report" ELSE "thrown"
  /\ UNCHANGED <<attempt, lastError, identical, waited, history, reported>>

LineSettled == {"wait", "thrown"}

\* The line about the retry is appended to the step's narrative, or that fails
\* and its error leaves the loop.
NoteRetry ==
  /\ pc = "note"
  /\ pc' \in LineSettled
  /\ UNCHANGED <<attempt, lastError, identical, waited, history, reported>>

WaitForRetry ==
  /\ pc = "wait"
  /\ pc' = "try"
  /\ waited' = waited + Backoff(attempt)
  /\ attempt' = attempt + 1
  /\ UNCHANGED <<lastError, identical, history, reported>>

\* Variant: the handler is run again after its report.
AfterReportAgain == "note"

AfterReport == "thrown"
ReportedError == lastError

\* onFailure, which may throw itself.
ReportFailure ==
  /\ pc = "report"
  /\ pc' = AfterReport
  /\ reported' = Append(reported, ReportedError)
  /\ UNCHANGED <<attempt, lastError, identical, waited, history>>

\* The call is over.
Rest ==
  /\ pc \in {"returned", "thrown"}
  /\ UNCHANGED vars

Next ==
  \/ BuildPayload
  \/ AttemptReturns
  \/ \E e \in Errors : AttemptThrows(e)
  \/ Decide \/ NoteRetry \/ WaitForRetry \/ ReportFailure
  \/ Rest

Spec == Init /\ [][Next]_vars

-----------------------------------------------------------------------------
(* What should be true of it.                                              *)

\* The reference: after these errors there is no point in trying again.  There
\* were more attempts than retries for the latest error, or it is not a
\* transient one and came three times in a row.
Hopeless(errors) ==
  LET n == Len(errors)
      last == errors[n]
  IN  \/ n > RetryLimit(last)
      \/ /\ last \notin Transient
         /\ n >= 3 /\ errors[n - 1] = last /\ errors[n - 2] = last

\* The loop goes on after errors that leave hope and gives up at the first that
\* leaves none: its running count stands for the whole history.
RetriesWhileHopeful ==
  /\ pc \in {"note", "wait"} => ~Hopeless(history)
  /\ pc = "report" => Hopeless(history)
  /\ pc = "decide" => \A n \in 1..Len(history) - 1 : ~Hopeless(SubSeq(history, 1, n))

\* One call never pauses for more than 490 seconds in all.
WaitBounded == waited <= 490000

\* The hook hears of the failure once, of the error that was thrown last, and
\* only when no hope is left.
ReportedAtTheEnd ==
  reported # <<>> =>
    pc = "thrown" /\ reported = <<history[Len(history)]>> /\ Hopeless(history)

\* The runner sees a job that settles once.
jobState ==
  CASE pc = "returned" -> "ok"
    [] pc = "thrown"   -> "bad"
    [] pc = "report"   -> "reporting"
    [] OTHER           -> "running"

Job == INSTANCE HandlerJob WITH job <- jobState
JobSpec == Job!Spec

=============================================================================
