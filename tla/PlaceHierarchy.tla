--------------------------- MODULE PlaceHierarchy ---------------------------
(***************************************************************************)
(* The tree of a book's places (packages/pipeline-worker/src/workflow/     *)
(* post-process-book/extract-hierarchy.ts, lib/lit/hierarchy.ts).          *)
(*                                                                         *)
(* A model classifies the places one tool call at a time, in any order and *)
(* as often as it likes; the tool refuses calls that would break the tree. *)
(* What is classified at the end of the session is saved in one insert.    *)
(* Everything that walks the saved rows, up to a hub or down to all places *)
(* of a hub, ends only because there is no cycle in them.                  *)
(***************************************************************************)
EXTENDS Naturals, FiniteSets

CONSTANTS
  Places,      \* the PLACE entities that have SPATIAL attributes
  NoPlace,     \* null
  Tiers,       \* the tiers the model uses, of 0..4 (a bound for TLC)
  MaxSessions  \* bound: sessions the model may leave incomplete

ASSUME PlacesAssumption == IsFiniteSet(Places) /\ NoPlace \notin Places
ASSUME TiersAssumption  == Tiers \subseteq 0..4
ASSUME SessionsAssumption == MaxSessions \in Nat

Unclassified == 9
Unsaved == 0

\* LEVEL_MAP: a level is the number of its tier.
REALM == 1
HUB == 2
LOCALE == 3
MICRO == 4

VARIABLES
  tier, under,    \* classifiedMap: tier and parent_id of each place
  level, parent,  \* the bookEntityHierarchies rows
  session,        \* where the step is
  sessions        \* sessions that ended incomplete, or with an error

hierarchyVars == <<tier, under, level, parent, session, sessions>>

Sessions == {"idle", "prompt", "completion", "done", "failed"}

HierarchyTypeOK ==
  /\ tier \in [Places -> (0..4) \cup {Unclassified}]
  /\ under \in [Places -> Places \cup {NoPlace}]
  /\ level \in [Places -> 0..4]
  /\ parent \in [Places -> Places \cup {NoPlace}]
  /\ session \in Sessions
  /\ sessions \in Nat

NothingClassified ==
  /\ tier = [p \in Places |-> Unclassified]
  /\ under = [p \in Places |-> NoPlace]

NothingSaved ==
  /\ level = [p \in Places |-> Unsaved]
  /\ parent = [p \in Places |-> NoPlace]

HierarchyInit ==
  /\ NothingClassified /\ NothingSaved
  /\ session = "idle" /\ sessions = 0

-----------------------------------------------------------------------------
Classified == {p \in Places : tier[p] # Unclassified}

\* The rule about tiers counts between two known tiers only: 0 is Unknown.
Above(s, t) == s = 0 \/ t = 0 \/ s < t

\* The step starts, or starts again, with an empty map.  With rows or without
\* places there is nothing to do.
StartSession ==
  /\ session = "idle"
  /\ IF Places = {} \/ \E p \in Places : level[p] # Unsaved
       THEN session' = "done"
       ELSE session' = "prompt"
  /\ UNCHANGED <<tier, under, level, parent, sessions>>

\* Variant: the children of a place classified again are not looked at.
AcceptsAnyway(p, t, q) ==
  q # NoPlace => q # p /\ q \in Classified /\ Above(tier[q], t)

\* What execute of classify_location lets pass.
Accepts(p, t, q) ==
  /\ q # NoPlace => q # p /\ q \in Classified /\ Above(tier[q], t)
  /\ \A c \in Classified : under[c] = p => Above(t, tier[c])

Classify(p, t, q) ==
  /\ session \in {"prompt", "completion"}
  /\ Accepts(p, t, q)
  /\ tier' = [tier EXCEPT ![p] = t]
  /\ under' = [under EXCEPT ![p] = q]
  /\ UNCHANGED <<level, parent, session, sessions>>

\* The prompt ends, or is aborted, with places still missing: one more prompt.
PromptAgain ==
  /\ session = "prompt" /\ Classified # Places
  /\ session' = "completion"
  /\ UNCHANGED <<tier, under, level, parent, sessions>>

\* A prompt throws, or places are missing to the end: the attempt is lost.
LoseSession ==
  /\ session \in {"prompt", "completion"}
  /\ session' = IF sessions < MaxSessions THEN "idle" ELSE "failed"
  /\ sessions' = IF sessions < MaxSessions THEN sessions + 1 ELSE sessions
  /\ tier' = [p \in Places |-> Unclassified]
  /\ under' = [p \in Places |-> NoPlace]
  /\ UNCHANGED <<level, parent>>

AtTier(t) == {p \in Places : tier[p] = t}

\* Without hubs, and with one locale at most, the realms are saved as hubs.
RealmsAsHubs == AtTier(HUB) = {} /\ Cardinality(AtTier(LOCALE)) < 2

SavedLevel(p) ==
  IF tier[p] = REALM /\ RealmsAsHubs THEN HUB ELSE tier[p]

\* All places are classified: those of a known tier are saved, in one insert.
SaveRows ==
  /\ session \in {"prompt", "completion"} /\ Classified = Places
  /\ level' = [p \in Places |-> SavedLevel(p)]
  /\ parent' = [p \in Places |-> IF tier[p] = 0 THEN NoPlace ELSE under[p]]
  /\ tier' = [p \in Places |-> Unclassified]
  /\ under' = [p \in Places |-> NoPlace]
  /\ session' = "done"
  /\ UNCHANGED sessions

HierarchyNext ==
  \/ StartSession
  \/ \E p \in Places, t \in Tiers, q \in Places \cup {NoPlace} : Classify(p, t, q)
  \/ PromptAgain
  \/ LoseSession
  \/ SaveRows

HierarchySpec == HierarchyInit /\ [][HierarchyNext]_hierarchyVars

-----------------------------------------------------------------------------
Saved == {p \in Places : level[p] # Unsaved}

\* childrenMap
ChildrenIn(S) == {c \in Saved : parent[c] \in S}

\* buildPlaceHierarchy: the place and all that is below it, whatever the order
\* of the queue.
Territory(a) ==
  {q \in Places : \A S \in SUBSET Places :
                    (a \in S /\ ChildrenIn(S) \subseteq S) => q \in S}

Anchors(l) == {p \in Saved : level[p] = l}

\* findRootHub, buildEntityToAnchorMap and countWeightedDescendants walk the
\* parents of saved places without counting steps: they end because no set of
\* places is closed under going to the parent.
WalksEnd ==
  \A S \in SUBSET Saved : S # {} => \E p \in S : parent[p] \notin S

\* Two places of one level never share a place below them: place_arc runs for
\* the anchors of one level at the same time, and each takes all that is below
\* its place for its own.
TerritoriesDisjoint ==
  \A a, b \in Saved :
    (level[a] = level[b] /\ a # b) => Territory(a) \cap Territory(b) = {}
=============================================================================
