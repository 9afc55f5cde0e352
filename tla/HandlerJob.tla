----------------------------- MODULE HandlerJob -----------------------------
(***************************************************************************)
(* What the runner may expect of one handler it calls for a job: it        *)
(* returns or throws once, and a handler with an onFailure hook calls it   *)
(* at most once, as the last thing before it throws.  These are the job    *)
(* states of PipelineRunner; StepRetry implements this module.             *)
(***************************************************************************)
CONSTANT HasHook   \* the handler has an onFailure hook

VARIABLE job

Init == job = "running"

Succeed == job = "running" /\ job' = "ok"

Report == job = "running" /\ HasHook /\ job' = "reporting"

\* A handler may also throw without its hook: its payload cannot be built, or
\* the narrative of the failed attempt cannot be written.
Throw == job \in {"running", "reporting"} /\ job' = "bad"

Next == Succeed \/ Report \/ Throw

Spec == Init /\ [][Next]_job
=============================================================================
