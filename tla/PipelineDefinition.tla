------------------------- MODULE PipelineDefinition -------------------------
(***************************************************************************)
(* The pipeline itself: the 25 steps of an import, their phases and what   *)
(* each waits for (packages/pipeline-worker/src/pipeline/definition.ts).   *)
(***************************************************************************)
EXTENDS Naturals, FiniteSets

PROJECTION_STEPS == {"imported_book", "preliminary_scenes_preview"}

\* The first step is listed in this phase again.
EXTRACT_STEPS ==
  {"imported_book", "preliminary_scenes", "extract_broad_categories",
   "extract_entities", "categorize_entities", "remove_ambiguous_entity_names",
   "finalize_scenes", "extract_styles", "estimate_significance",
   "extract_appellations", "summarize_appellations", "extract_relationships",
   "extract_entity_attributes", "extract_hierarchy", "determine_minors",
   "calculate_significance"}

ARC_STEPS ==
  {"extract_related_relationship_arc", "extract_relationship_arc",
   "extract_appellation_arc", "extract_entity_appearances_batch",
   "character_arc", "place_arc", "character_identity_tags", "place_identity_tags"}

STEPS == PROJECTION_STEPS \cup EXTRACT_STEPS \cup ARC_STEPS

\* kind: 'fan-out', by enumerator
SCENE_GROUP_STEPS ==
  {"extract_appellations", "extract_relationships", "extract_entity_attributes"}
ENTITY_STEPS  == {"character_arc", "place_arc"}
FAN_OUT_STEPS == SCENE_GROUP_STEPS \cup ENTITY_STEPS

STEP_DEPENDS == [s \in STEPS |->
  CASE s = "imported_book" -> {}
    [] s = "preliminary_scenes_preview" -> {"imported_book"}
    [] s = "preliminary_scenes" -> {"imported_book", "preliminary_scenes_preview"}
    [] s = "extract_broad_categories" -> {"preliminary_scenes"}
    [] s = "extract_entities" -> {"extract_broad_categories"}
    [] s = "categorize_entities" -> {"extract_entities"}
    [] s = "remove_ambiguous_entity_names" -> {"categorize_entities"}
    [] s = "finalize_scenes" ->
         {"preliminary_scenes", "remove_ambiguous_entity_names"}
    [] s \in {"extract_styles", "estimate_significance"} -> {"finalize_scenes"}
    [] s = "extract_appellations" -> {"estimate_significance"}
    [] s = "summarize_appellations" -> {"extract_appellations"}
    [] s \in {"extract_relationships", "extract_entity_attributes"} ->
         {"summarize_appellations"}
    [] s \in {"extract_hierarchy", "determine_minors"} ->
         {"extract_styles", "extract_relationships", "extract_entity_attributes"}
    [] s = "calculate_significance" -> {"extract_hierarchy", "determine_minors"}
    [] s \in {"extract_related_relationship_arc", "extract_appellation_arc",
              "extract_entity_appearances_batch"} -> {"calculate_significance"}
    [] s = "extract_relationship_arc" -> {"extract_related_relationship_arc"}
    [] s = "character_arc" ->
         {"calculate_significance", "determine_minors", "extract_related_relationship_arc"}
    [] s = "place_arc" ->
         {"calculate_significance", "extract_hierarchy", "extract_related_relationship_arc"}
    [] s = "character_identity_tags" -> {"character_arc", "extract_relationship_arc"}
    [] s = "place_identity_tags" -> {"place_arc"}]

\* The handlers of the import phases report a final failure to the import row
\* themselves; those of the arc phase and of the last extract steps do not.
REPORTING_STEPS ==
  (PROJECTION_STEPS \cup EXTRACT_STEPS)
    \ {"extract_hierarchy", "determine_minors", "calculate_significance"}

\* The steps that can be done in n rounds.
StepsIn[n \in 0..Cardinality(STEPS)] ==
  IF n = 0 THEN {}
  ELSE LET before == StepsIn[n - 1]
       IN  before \cup {s \in STEPS : STEP_DEPENDS[s] \subseteq before}

\* The shipped pipeline is one of those PipelineRunner is about: the phases can
\* be walked one after the other, each has a step of its own, and the steps can
\* be done in turn, so that none wait for each other in a circle.
ASSUME ShippedPipeline ==
  /\ STEP_DEPENDS \in [STEPS -> SUBSET STEPS]
  /\ ARC_STEPS \cap (PROJECTION_STEPS \cup EXTRACT_STEPS) = {}
  /\ \A s \in STEPS \ ARC_STEPS : STEP_DEPENDS[s] \cap ARC_STEPS = {}
  /\ \A s \in PROJECTION_STEPS : STEP_DEPENDS[s] \subseteq PROJECTION_STEPS
  /\ ENTITY_STEPS \subseteq FAN_OUT_STEPS /\ FAN_OUT_STEPS \subseteq STEPS
  /\ REPORTING_STEPS \subseteq STEPS
  /\ EXTRACT_STEPS \ PROJECTION_STEPS # {} /\ ARC_STEPS # {}
  /\ "preliminary_scenes_preview" \in PROJECTION_STEPS \ FAN_OUT_STEPS
  /\ ENTITY_STEPS \subseteq ARC_STEPS
  /\ StepsIn[Cardinality(STEPS)] = STEPS
=============================================================================
