------------------------------ MODULE ArcSteps ------------------------------
(***************************************************************************)
(* The arc phase (packages/pipeline-worker/src/workflow/post-process-book):*)
(* for groups of entities a model writes arcs, how a group changes through *)
(* the book, and then rewrites them so that each can be read in isolation. *)
(*                                                                         *)
(* Every handler reads which groups have arcs, asks the model about the    *)
(* others, inserts what it answers and isolates it group by group.  It may *)
(* fail or be lost anywhere in between and is then run again from the      *)
(* start; handlers of several items run side by side; the user may select  *)
(* other entities and run the phase again.                                 *)
(***************************************************************************)
EXTENDS PipelineDefinition

CONSTANTS
  Characters, Others, \* CHARACTER entities; entities neither CHARACTER nor PLACE
  Anchors, Below,     \* the places one can select, and the places of each
  Described,          \* the entities with attributes
  Visible,            \* those with physical or magical ones; others also with a tier
  Linked,             \* the groups that the book's text links, of each type
  Workloads,          \* sets of steps that the book has something for
  Selections,         \* the selections the user makes
  Concurrency,        \* at most so many handlers at a time
  Book,               \* the item of a step that is about the whole book
  MaxFailures, MaxCrashes, MaxReselects  \* bounds

Places == UNION {Below[a] : a \in Anchors}
Entities == Characters \cup Others \cup Places

Types == {"CHARACTER", "PLACE", "RELATIONSHIP", "RELATED", "APPELLATION", "APPEARANCE"}

\* Selectable places never share a place (EntitySelection, PickableDisjoint).
ASSUME ArcAssumption ==
  /\ \A a \in Anchors : a \in Below[a]
  /\ \A a, b \in Anchors : a # b => Below[a] \cap Below[b] = {}
  /\ Characters \cap Others = {} /\ Entities \cap {Book} = {}
  /\ (Characters \cup Others) \cap Places = {}
  /\ Described \subseteq Entities /\ Visible \subseteq Described
  /\ DOMAIN Linked = {"RELATIONSHIP", "RELATED", "APPELLATION"}
  /\ Linked["APPELLATION"] \subseteq Characters \X Characters
  /\ \A g \in Linked["RELATIONSHIP"] : g \subseteq Characters
  /\ \A g \in Linked["RELATED"] : g \subseteq Entities
  /\ \A S \in Selections : S \subseteq Characters \cup Anchors
  /\ Workloads \subseteq SUBSET ARC_STEPS /\ Concurrency \in Nat \ {0}

ItemsOf(step) ==
  CASE step = "character_arc" -> Characters
    [] step = "place_arc" -> Anchors
    [] OTHER -> {Book}

Jobs == {j \in ARC_STEPS \X (Characters \cup Anchors \cup {Book}) : j[2] \in ItemsOf(j[1])}

VARIABLES
  work,      \* the steps that have something to do
  chosen,    \* the characters and anchors that are selected (PRIMARY)
  ranked,    \* the characters that are PRIMARY or SECONDARY
  arcs,      \* of each type, the groups that have arcs
  isolated,  \* of each type, the groups that have _ISOLATED arcs
  doubled,   \* the groups whose arcs were written a second time, by type
  job,       \* where each handler is
  lost,      \* groups whose handler ended between writing and isolating
  used       \* bounds used up

vars == <<work, chosen, ranked, arcs, isolated, doubled, job, lost, used>>

Idle == [at |-> "pending", part |-> 1, todo |-> {}, queue |-> {}]

Groups(t) == IF t = "APPELLATION" THEN Characters \X Characters ELSE SUBSET Entities

TypeOK ==
  /\ work \in Workloads
  /\ chosen \subseteq Characters \cup Anchors /\ ranked \subseteq Characters
  /\ \A t \in Types : /\ arcs[t] \subseteq Groups(t)
                      /\ isolated[t] \cup doubled[t] \cup lost[t] \subseteq arcs[t]
  /\ \A j \in Jobs :
       /\ job[j].at \in {"pending", "ask", "isolate", "failed", "completed"}
       /\ job[j].part \in 1..2
  /\ used \in [{"failures", "crashes", "reselects"} -> Nat]

Init ==
  /\ work \in Workloads /\ chosen \in Selections
  /\ ranked \in SUBSET Characters /\ chosen \cap Characters \subseteq ranked
  /\ arcs = [t \in Types |-> {}] /\ isolated = arcs
  /\ doubled = arcs /\ lost = arcs
  /\ job = [j \in Jobs |-> Idle]
  /\ used = [b \in {"failures", "crashes", "reselects"} |-> 0]

Use(b) == used' = [used EXCEPT ![b] = @ + 1]

-----------------------------------------------------------------------------
(* What a handler has to do *)

\* A step with items runs for those that are selected.
Wanted(j) == j[1] \in work /\ j[2] \in chosen \cup {Book}

StepDone(step) ==
  \A j \in Jobs : (j[1] = step /\ Wanted(j)) => job[j].at = "completed"

Ready(j) == Wanted(j) /\ \A d \in STEP_DEPENDS[j[1]] \cap ARC_STEPS : StepDone(d)

\* character_arc and place_arc run two handlers one after the other.
Parts(j) == IF j[1] \in {"character_arc", "place_arc"} THEN 2 ELSE 1

TypeOf(j) ==
  CASE j[1] = "extract_related_relationship_arc" -> "RELATED"
    [] j[1] = "extract_relationship_arc" -> "RELATIONSHIP"
    [] j[1] = "extract_appellation_arc" -> "APPELLATION"
    [] j[1] = "character_arc" /\ job[j].part = 1 -> "CHARACTER"
    [] j[1] = "place_arc" /\ job[j].part = 1 -> "PLACE"
    [] OTHER -> "APPEARANCE"

Singles(S) == {{e} : e \in S}

\* The entities that have arcs of a type, alone or with others.
Covered(t) == UNION arcs[t]

\* Variant: also entities that have arcs are asked about.
SourcesAll == ((Characters \ chosen) \cup Others) \cap Described

\* The entities that arcs relate to who and what is selected: all that is
\* described but those selected and places, unless they have such arcs, as
\* source or linked.  The code keeps those above a threshold among all of the
\* selection, and the model may leave out any group: these are the most it is.
Sources == (((Characters \ chosen) \cup Others) \cap Described) \ Covered("RELATED")

\* A source with selected characters or, unless it is a character, with places.
RelatedTodo ==
  {g \in Linked["RELATED"] :
     /\ chosen # {}
     /\ \E e \in g \cap Sources :
          /\ g # {e}
          /\ \/ g \ {e} \subseteq chosen \cap Characters
             \/ e \in Others /\ g \ {e} \subseteq Places}

\* Characters without any relationship arc are new; only arcs with one of them
\* are kept.
RelationshipTodo ==
  {g \in Linked["RELATIONSHIP"] :
     g \subseteq chosen /\ g \ Covered("RELATIONSHIP") # {}}

\* A pair is a source and a target: the order matters.  Both have a tier.
AppellationTodo ==
  {p \in Linked["APPELLATION"] : {p[1], p[2]} \subseteq ranked} \ arcs["APPELLATION"]

\* buildPlaceHierarchy, without the places that have arcs.
PlaceTodo(a) == Singles(Below[a]) \ arcs["PLACE"]

\* extract-character-arc: the character, unless nothing is known of it.
CharacterTodo(c) == Singles({c} \cap Described) \ arcs["CHARACTER"]

\* Appearances are asked about for who has none yet: the character of an item
\* and all that is neither, if something is visible of them; the places below an
\* anchor, if they are described at all.
AppearanceTodo(S) == Singles(S) \ arcs["APPEARANCE"]
CharacterAppearanceTodo(c) == AppearanceTodo({c} \cap Visible)
PlaceAppearanceTodo(a) == AppearanceTodo(Below[a] \cap Described)
OtherAppearanceTodo == AppearanceTodo(Others \cap Visible)

Todo(j) ==
  CASE j[1] = "extract_related_relationship_arc" -> RelatedTodo
    [] j[1] = "extract_relationship_arc" -> RelationshipTodo
    [] j[1] = "extract_appellation_arc" -> AppellationTodo
    [] j[1] = "extract_entity_appearances_batch" -> OtherAppearanceTodo
    [] j[1] = "character_arc" /\ job[j].part = 1 -> CharacterTodo(j[2])
    [] j[1] = "character_arc" /\ job[j].part = 2 -> CharacterAppearanceTodo(j[2])
    [] j[1] = "place_arc" /\ job[j].part = 1 -> PlaceTodo(j[2])
    [] OTHER -> PlaceAppearanceTodo(j[2])

TagStep(j) == j[1] \in {"character_identity_tags", "place_identity_tags"}

-----------------------------------------------------------------------------
(* A handler *)

\* Variant: the second handler of an item is not called.
AdvanceAtOnce(j) == [Idle EXCEPT !.at = "completed"]

\* The next part, or the end.
Advance(j) ==
  IF job[j].part < Parts(j)
    THEN [at |-> "pending", part |-> job[j].part + 1, todo |-> {}, queue |-> {}]
    ELSE [Idle EXCEPT !.at = "completed"]

Running(j) == job[j].at \in {"ask", "isolate"}

\* The handler reads what has arcs; with nothing left it returns.
Start(j) ==
  /\ job[j].at = "pending" /\ Ready(j) /\ ~TagStep(j)
  /\ Cardinality({i \in Jobs : Running(i)}) < Concurrency
  /\ job' = [job EXCEPT ![j] =
              IF Todo(j) = {} THEN Advance(j)
              ELSE [@ EXCEPT !.at = "ask", !.todo = Todo(j)]]
  /\ UNCHANGED <<work, chosen, ranked, arcs, isolated, doubled, lost, used>>

\* createBookArcs: the arcs of a group go behind those it has.
Insert(t, S) ==
  /\ arcs' = [arcs EXCEPT ![t] = @ \cup S]
  /\ doubled' = [doubled EXCEPT ![t] = @ \cup (S \cap arcs[t])]

\* The model answers about some of the groups; the arcs of all of them are
\* written in one transaction, and isolated one after the other.
InsertArcs(j, S) ==
  /\ job[j].at = "ask" /\ S # {} /\ S \subseteq job[j].todo
  /\ Insert(TypeOf(j), S)
  /\ job' = [job EXCEPT ![j].at = "isolate", ![j].queue = S, ![j].todo = {}]
  /\ UNCHANGED <<work, chosen, ranked, isolated, lost, used>>

InsertCharacterArcs(j, S) == TypeOf(j) = "CHARACTER" /\ InsertArcs(j, S)

\* The answer is about all places of the item at once.
InsertPlaceArcs(j, S) == TypeOf(j) = "PLACE" /\ InsertArcs(j, S)

InsertRelationshipArcs(j, S) == TypeOf(j) = "RELATIONSHIP" /\ InsertArcs(j, S)

\* No arc of the answer has a new character: there is nothing to write.
SkipRelationships(j) ==
  /\ job[j].at = "ask" /\ TypeOf(j) = "RELATIONSHIP"
  /\ job' = [job EXCEPT ![j] = Advance(j)]
  /\ UNCHANGED <<work, chosen, ranked, arcs, isolated, doubled, lost, used>>

\* What a pair calls each other is isolated as it is, in the same transaction.
InsertAppellationArcs(j, S) ==
  /\ job[j].at = "ask" /\ TypeOf(j) = "APPELLATION"
  /\ S # {} /\ S \subseteq job[j].todo
  /\ Insert("APPELLATION", S)
  /\ isolated' = [isolated EXCEPT !["APPELLATION"] = @ \cup S]
  /\ job' = [job EXCEPT ![j] = Advance(j)]
  /\ UNCHANGED <<work, chosen, ranked, lost, used>>

\* extract_related_relationship_arc decides once who is new, and asks about a
\* batch of sources at a time: about their characters, then about their places.
SourceOf(g) == g \ (chosen \cup Places)

Batch(j, E) ==
  LET about == {g \in job[j].todo : SourceOf(g) \subseteq E}
      characters == {g \in about : g \cap Places = {}}
  IN IF characters # {} THEN characters ELSE about

AfterBatch(j, rest) ==
  IF rest = {} THEN Advance(j)
  ELSE [at |-> "ask", part |-> job[j].part, todo |-> rest, queue |-> {}]

\* The arcs of a batch are written in one transaction.  The answer may be empty,
\* and an error before they are written is logged and leaves nothing.
InsertRelated(j, S) ==
  /\ job[j].at = "ask" /\ j[1] = "extract_related_relationship_arc"
  /\ \E E \in SUBSET (UNION {SourceOf(g) : g \in job[j].todo}) :
       LET rest == job[j].todo \ Batch(j, E)
       IN /\ E # {} /\ S \subseteq Batch(j, E)
          /\ job' = [job EXCEPT ![j] =
                      IF S = {} THEN AfterBatch(j, rest)
                      ELSE [@ EXCEPT !.at = "isolate", !.queue = S, !.todo = rest]]
  /\ Insert("RELATED", S)
  /\ UNCHANGED <<work, chosen, ranked, isolated, lost, used>>

\* Appearances: one entity of the answer after the other is written and
\* isolated.  Entities the answer leaves out are only warned about.
InsertAppearance(j, g) ==
  /\ job[j].at = "ask" /\ TypeOf(j) = "APPEARANCE"
  /\ g \in job[j].todo
  /\ Insert("APPEARANCE", {g})
  /\ job' = [job EXCEPT ![j].at = "isolate", ![j].queue = {g}, ![j].todo = @ \ {g}]
  /\ UNCHANGED <<work, chosen, ranked, isolated, lost, used>>

InsertCharacterAppearance(j, g) == j[1] = "character_arc" /\ InsertAppearance(j, g)

InsertPlaceAppearance(j, g) == j[1] = "place_arc" /\ InsertAppearance(j, g)

InsertOtherAppearance(j, g) ==
  j[1] = "extract_entity_appearances_batch" /\ InsertAppearance(j, g)

\* Variant: the handler goes on after the first group.
IsolateFirst(j, g) ==
  /\ job[j].at = "isolate" /\ g \in job[j].queue
  /\ isolated' = [isolated EXCEPT ![TypeOf(j)] = @ \cup {g}]
  /\ job' = [job EXCEPT ![j] = Advance(j)]
  /\ UNCHANGED <<work, chosen, ranked, arcs, doubled, lost, used>>

\* isolateArcs for one group; after the last one the handler goes on.
Isolate(j, g) ==
  /\ job[j].at = "isolate" /\ g \in job[j].queue
  /\ isolated' = [isolated EXCEPT ![TypeOf(j)] = @ \cup {g}]
  /\ IF job[j].queue # {g}
       THEN job' = [job EXCEPT ![j].queue = @ \ {g}]
       ELSE \/ /\ TypeOf(j) \notin {"RELATED", "APPEARANCE"}
               /\ job' = [job EXCEPT ![j] = Advance(j)]
            \/ /\ TypeOf(j) = "RELATED"
               /\ job' = [job EXCEPT ![j] = AfterBatch(j, job[j].todo)]
            \/ /\ TypeOf(j) = "APPEARANCE"
               /\ \/ job' = [job EXCEPT ![j] = Advance(j)]
                  \/ /\ job[j].todo # {}
                     /\ job' = [job EXCEPT ![j].at = "ask", ![j].queue = {}]
  /\ UNCHANGED <<work, chosen, ranked, arcs, doubled, lost, used>>

\* Tags are made for who has none, from the arcs, and written in one transaction
\* at the end; no step reads them.
Tag(j) ==
  /\ job[j].at = "pending" /\ Ready(j) /\ TagStep(j)
  /\ job' = [job EXCEPT ![j].at = "completed"]
  /\ UNCHANGED <<work, chosen, ranked, arcs, isolated, doubled, lost, used>>

TagCharacters(j) == j[1] = "character_identity_tags" /\ Tag(j)

TagPlaces(j) == j[1] = "place_identity_tags" /\ Tag(j)

-----------------------------------------------------------------------------
(* Failures *)

Abandon(J) ==
  lost' = [t \in Types |->
            lost[t] \cup UNION {job[j].queue : j \in {i \in J : Running(i) /\ TypeOf(i) = t}}]

\* The model, or a check of its answer, fails the handler.
Fail(j) ==
  /\ Running(j) /\ j[1] # "extract_related_relationship_arc"
  /\ used["failures"] < MaxFailures
  /\ Abandon({j})
  /\ job' = [job EXCEPT ![j] = [Idle EXCEPT !.at = "failed", !.part = job[j].part]]
  /\ Use("failures")
  /\ UNCHANGED <<work, chosen, ranked, arcs, isolated, doubled>>

\* extract_related_relationship_arc logs the error of a batch, here one between
\* writing and isolating it, and goes on with the next.
SwallowError(j) ==
  /\ job[j].at = "isolate" /\ j[1] = "extract_related_relationship_arc"
  /\ used["failures"] < MaxFailures
  /\ Abandon({j})
  /\ job' = [job EXCEPT ![j] = AfterBatch(j, job[j].todo)]
  /\ Use("failures")
  /\ UNCHANGED <<work, chosen, ranked, arcs, isolated, doubled>>

\* The retry loop runs the part again, a later run of the import the whole job.
Retry(j, part) ==
  /\ job[j].at = "failed" /\ part \in {1, job[j].part}
  /\ job' = [job EXCEPT ![j] = [Idle EXCEPT !.part = part]]
  /\ UNCHANGED <<work, chosen, ranked, arcs, isolated, doubled, lost, used>>

\* The worker is lost, and with it every handler that runs.
Crash ==
  /\ used["crashes"] < MaxCrashes
  /\ \E j \in Jobs : Running(j)
  /\ Abandon(Jobs)
  /\ job' = [j \in Jobs |-> IF job[j].at = "completed" THEN job[j] ELSE Idle]
  /\ Use("crashes")
  /\ UNCHANGED <<work, chosen, ranked, arcs, isolated, doubled>>

\* Another selection: the steps are pending again, items that are done are not.
\* Who is not selected is saved as SECONDARY where the window ranks the list anew.
Reselect(S) ==
  /\ used["reselects"] < MaxReselects
  /\ \A j \in Jobs : Wanted(j) => job[j].at = "completed"
  /\ chosen' = S
  /\ \E R \in SUBSET Characters :
       (ranked \cup chosen \cup S) \cap Characters \subseteq R /\ ranked' = R
  /\ job' = [j \in Jobs |-> IF j[2] = Book THEN Idle ELSE job[j]]
  /\ Use("reselects")
  /\ UNCHANGED <<work, arcs, isolated, doubled, lost>>

Next ==
  \/ \E j \in Jobs :
       \/ Start(j)
       \/ \E S \in SUBSET job[j].todo :
            \/ InsertCharacterArcs(j, S)
            \/ InsertPlaceArcs(j, S)
            \/ InsertRelationshipArcs(j, S)
            \/ InsertAppellationArcs(j, S)
            \/ InsertRelated(j, S)
       \/ \E g \in job[j].todo :
            \/ InsertCharacterAppearance(j, g)
            \/ InsertPlaceAppearance(j, g)
            \/ InsertOtherAppearance(j, g)
       \/ \E g \in job[j].queue : Isolate(j, g)
       \/ SkipRelationships(j)
       \/ TagCharacters(j)
       \/ TagPlaces(j)
       \/ Fail(j)
       \/ SwallowError(j)
       \/ \E part \in 1..2 : Retry(j, part)
  \/ Crash
  \/ \E S \in Selections : Reselect(S)

Spec == Init /\ [][Next]_vars

-----------------------------------------------------------------------------
\* However often handlers are repeated, cut short or run side by side, and
\* whatever is selected next, no group gets its arcs a second time, also where
\* a source and a selected character change places.
NoArcTwice == \A t \in Types : doubled[t] = {}

AllDone == \A j \in Jobs : Wanted(j) => job[j].at = "completed"

\* When the phase is done everyone selected who is described has arcs, and an
\* appearance if there is something to see, also those whose handler was
\* interrupted, and those done for a selection before.
ChosenAreCovered ==
  (AllDone /\ "character_arc" \in work) =>
    \A c \in chosen \cap Characters :
      /\ c \in Described => {c} \in arcs["CHARACTER"]
      /\ c \in Visible => {c} \in arcs["APPEARANCE"]

\* Arcs without isolated arcs, once nothing runs, come from a handler that
\* ended between writing and isolating them, and from nothing else.
GapsHaveACause ==
  (\A j \in Jobs : ~Running(j)) => \A t \in Types : arcs[t] \ isolated[t] \subseteq lost[t]

=============================================================================
