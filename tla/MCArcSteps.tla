----------------------------- MODULE MCArcSteps -----------------------------
EXTENDS ArcSteps

CONSTANTS c1, c2, c3, o1, p1, p2, p3
MCCharacters == {c1, c2, c3}
MCOthers == {o1}
MCAnchors == {p1, p2}
MCBelow == [a \in MCAnchors |-> IF a = p1 THEN {p1, p3} ELSE {p2}]
MCDescribed == {c1, c3, o1, p1}
MCVisible == {c1, o1, p1}
MCLinked == [t \in {"RELATIONSHIP", "RELATED", "APPELLATION"} |->
  CASE t = "RELATIONSHIP" -> {{c1, c2}, {c2, c3}}
    [] t = "RELATED" -> {{o1, c1}, {o1, p1}, {c1, c3}}
    [] OTHER -> {<<c2, c1>>, <<c3, c1>>}]
\* c1 and c3, one of them selected and the other a source, change places.
MCSelections == {{c1, c2, p1}, {c2, c3, p1, p2}}
\* Characters and places have no arcs in common.
MCWorkloads ==
  {{"extract_related_relationship_arc", "extract_relationship_arc",
    "extract_appellation_arc", "character_arc", "character_identity_tags"},
   {"extract_related_relationship_arc", "extract_entity_appearances_batch",
    "place_arc", "place_identity_tags"}}
=============================================================================
