------------------------------ MODULE StepBoard ------------------------------
(***************************************************************************)
(* What the import pipeline promises about its step board: the parent row  *)
(* of every step, as the import window shows it.  A step may only be       *)
(* worked on when everything it depends on is done, and a finished step    *)
(* stays finished until the arc phase is reopened as a whole.  Nothing     *)
(* here knows about queues, runs, crashes or the bridge to the host:       *)
(* PipelineRunner implements this module.                                  *)
(***************************************************************************)
CONSTANTS
  Steps,      \* the step ids
  Depends,    \* Depends[s]: the steps that must be done before s
  Arc         \* the steps of the arc phase

VARIABLE board

Statuses == {"absent", "pending", "running", "completed", "failed", "skipped"}

Done(s) == board[s] \in {"completed", "skipped"}

Ready(s) == \A d \in Depends[s] : Done(d)

Init == board = [s \in Steps |-> "absent"]

\* The rows of an import are created together.
Seed ==
  /\ \A s \in Steps : board[s] = "absent"
  /\ board' \in [Steps -> {"pending", "skipped"}]

\* Work on a step starts, or starts again after a failure or a lost worker.
Begin(s) ==
  /\ board[s] \in {"pending", "running", "failed"}
  /\ Ready(s)
  /\ board' = [board EXCEPT ![s] = "running"]

\* A fan-out step over nothing is finished without ever running.
Finish(s) ==
  /\ board[s] \in {"pending", "running", "failed"}
  /\ Ready(s)
  /\ board' = [board EXCEPT ![s] = "completed"]

Fail(s) ==
  /\ board[s] = "running"
  /\ Ready(s)
  /\ board' = [board EXCEPT ![s] = "failed"]

\* The arc phase is done once and is to be done again, for a new selection.
ReopenArc ==
  /\ \A s \in Arc : Done(s)
  /\ board' = [s \in Steps |-> IF s \in Arc THEN "pending" ELSE board[s]]

Next ==
  \/ Seed
  \/ ReopenArc
  \/ \E s \in Steps : Begin(s) \/ Finish(s) \/ Fail(s)

Spec == Init /\ [][Next]_board
=============================================================================
