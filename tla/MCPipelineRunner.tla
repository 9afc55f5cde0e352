-------------------------- MODULE MCPipelineRunner --------------------------
(***************************************************************************)
(* Small pipelines for TLC.  The graph has the shapes of the real one:     *)
(* phases that share the first step, a preview that may be skipped, two    *)
(* branches that fail independently, a fan-out over all groups, and a      *)
(* fan-out over the selection.  The shipped graph is checked against the   *)
(* same assumptions (PipelineDefinition).                                  *)
(***************************************************************************)
EXTENDS PipelineRunner, PipelineDefinition, TLC

MCProjection == {"book", "preview"}
MCExtract    == {"book", "scenes", "styles", "entities"}
MCArc        == {"related", "arcs"}
MCSteps      == MCProjection \cup MCExtract \cup MCArc

MCDepends == [s \in MCSteps |->
  CASE s = "book"     -> {}
    [] s = "preview"  -> {"book"}
    [] s = "scenes"   -> {"preview"}
    [] s = "styles"   -> {"scenes"}
    [] s = "entities" -> {"preview"}
    [] s = "related"  -> {"styles", "entities"}
    [] s = "arcs"     -> {"entities"}]

MCFanOut     == {"entities", "arcs"}
MCSelectable == {"arcs"}
MCReporting  == {"book", "scenes", "styles", "entities"}

MCSelections == SUBSET Keys

\* Nothing tells one group or entity from another.
KeySymmetry == Permutations(Keys)
=============================================================================
