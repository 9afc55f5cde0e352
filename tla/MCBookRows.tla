----------------------------- MODULE MCBookRows -----------------------------
(* Two chapters, the first of two scenes, at most two handlers at a time. *)
EXTENDS BookRows, TLC

CONSTANTS a, b, c

McScenesOf == 1 :> {a, b} @@ 2 :> {c}
=============================================================================
