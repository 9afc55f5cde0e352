----------------------- MODULE EntitySelectionProofs ------------------------
(***************************************************************************)
(* The saved places form a forest whose levels grow downwards, so walks    *)
(* end and places of one level share nothing below them; what the user can *)
(* choose from are places of one level; a character found to be under age  *)
(* throughout is never primary, if no age is checked again from a list     *)
(* that is out of date; and the window shows what is saved.                *)
(***************************************************************************)
EXTENDS EntitySelection, TLAPS

-----------------------------------------------------------------------------
(* The forest *)

\* What the tool keeps true of the classified places.
ClassifiedInv ==
  \A p \in Places :
    /\ tier[p] = Unclassified => under[p] = NoPlace
    /\ under[p] # NoPlace => under[p] \in Classified /\ Above(tier[under[p]], tier[p])

\* A saved place is on a deeper level than its saved parent.
SavedInv ==
  \A p \in Saved : parent[p] \in Saved => level[parent[p]] < level[p]

HierarchyInv == HierarchyTypeOK /\ ClassifiedInv /\ SavedInv

LEMMA HierarchyStart == HierarchyInit => HierarchyInv
  <1> SUFFICES ASSUME HierarchyInit PROVE HierarchyInv
      OBVIOUS
  <1> USE DEF HierarchyInit, NothingClassified, NothingSaved, Unclassified, Unsaved
  <1>1. HierarchyTypeOK
      BY DEF HierarchyTypeOK, Sessions
  <1>2. ClassifiedInv
      BY PlacesAssumption DEF ClassifiedInv
  <1>3. SavedInv
      BY DEF SavedInv, Saved
  <1> QED
      BY <1>1, <1>2, <1>3 DEF HierarchyInv

LEMMA ClassifyKeeps ==
  ASSUME HierarchyInv,
         NEW p \in Places, NEW t \in Tiers, NEW q \in Places \cup {NoPlace},
         Classify(p, t, q)
  PROVE  HierarchyInv'
  <1> USE DEF Classify, Unclassified
  <1>1. t \in 0..4
      BY TiersAssumption
  <1>2. HierarchyTypeOK'
      BY <1>1 DEF HierarchyInv, HierarchyTypeOK
  <1>3. ClassifiedInv'
    <2> SUFFICES ASSUME NEW c \in Places
                 PROVE  /\ tier'[c] = Unclassified => under'[c] = NoPlace
                        /\ under'[c] # NoPlace =>
                             under'[c] \in Classified' /\ Above(tier'[under'[c]], tier'[c])
        BY DEF ClassifiedInv
    <2>1. Classified' = Classified \cup {p}
        BY <1>1 DEF Classified, HierarchyInv, HierarchyTypeOK
    <2>2. CASE c = p
        BY <2>1, <2>2, <1>1, PlacesAssumption
           DEF HierarchyInv, HierarchyTypeOK, Accepts, Classified
    <2>3. CASE c # p /\ under[c] = p
      <3>1. c \in Classified
          BY <2>3, PlacesAssumption DEF HierarchyInv, ClassifiedInv, Classified
      <3>2. Above(t, tier[c])
          BY <2>3, <3>1 DEF Accepts
      <3> QED
          BY <2>1, <2>3, <3>1, <3>2, <1>1
             DEF HierarchyInv, HierarchyTypeOK, Classified
    <2>4. CASE c # p /\ under[c] # p
        BY <2>1, <2>4 DEF HierarchyInv, HierarchyTypeOK, ClassifiedInv
    <2> QED
        BY <2>2, <2>3, <2>4
  <1>4. SavedInv'
      BY DEF HierarchyInv, SavedInv, Saved
  <1> QED
      BY <1>2, <1>3, <1>4 DEF HierarchyInv

LEMMA SaveRowsKeeps ==
  ASSUME HierarchyInv, SaveRows
  PROVE  HierarchyInv'
  <1> USE DEF SaveRows, Unclassified
  <1>1. \A p \in Places : tier[p] \in 0..4
      BY DEF HierarchyInv, HierarchyTypeOK, Classified
  <1>2. \A p \in Places : SavedLevel(p) \in 0..4
      BY <1>1 DEF SavedLevel, REALM, HUB
  <1>3. HierarchyTypeOK'
      BY <1>2 DEF HierarchyInv, HierarchyTypeOK, Sessions
  <1>4. ClassifiedInv'
      BY PlacesAssumption DEF ClassifiedInv
  <1>5. SavedInv'
    <2> SUFFICES ASSUME NEW p \in Saved', parent'[p] \in Saved'
                 PROVE  level'[parent'[p]] < level'[p]
        BY DEF SavedInv
    <2> DEFINE u == under[p]
    <2>1. /\ p \in Places /\ level'[p] = SavedLevel(p) /\ SavedLevel(p) # 0
          /\ parent'[p] \in Places
          /\ level'[parent'[p]] = SavedLevel(parent'[p])
          /\ SavedLevel(parent'[p]) # 0
        BY DEF Saved, Unsaved
    <2>2. tier[p] # 0 /\ parent'[p] = u
        BY <2>1, PlacesAssumption DEF SavedLevel, REALM, HUB
    <2>3. u \in Places /\ tier[u] # 0
        BY <2>1, <2>2 DEF SavedLevel, REALM, HUB
    <2>4. tier[u] < tier[p]
        BY <2>1, <2>2, <2>3, <1>1, PlacesAssumption DEF HierarchyInv, ClassifiedInv, Above
    <2>5. RealmsAsHubs => tier[p] # HUB
        BY <2>1 DEF RealmsAsHubs, AtTier
    <2> QED
        BY <2>1, <2>2, <2>3, <2>4, <2>5, <1>1 DEF SavedLevel, REALM, HUB
  <1> QED
      BY <1>3, <1>4, <1>5 DEF HierarchyInv

LEMMA HierarchyStep ==
  ASSUME HierarchyInv, HierarchyNext \/ UNCHANGED hierarchyVars
  PROVE  HierarchyInv'
  <1> USE DEF HierarchyInv
  <1>1. ASSUME StartSession PROVE HierarchyInv'
      BY <1>1 DEF StartSession, HierarchyTypeOK, ClassifiedInv, Classified, SavedInv,
                  Saved, Sessions
  <1>2. ASSUME PromptAgain PROVE HierarchyInv'
      BY <1>2 DEF PromptAgain, HierarchyTypeOK, ClassifiedInv, Classified, SavedInv,
                  Saved, Sessions
  <1>3. ASSUME LoseSession PROVE HierarchyInv'
    <2>1. HierarchyTypeOK'
        BY <1>3 DEF LoseSession, HierarchyTypeOK, Sessions, Unclassified
    <2>2. ClassifiedInv' /\ SavedInv'
        BY <1>3, PlacesAssumption DEF LoseSession, ClassifiedInv, SavedInv, Saved, Unclassified
    <2> QED
        BY <2>1, <2>2
  <1>4. ASSUME UNCHANGED hierarchyVars PROVE HierarchyInv'
      BY <1>4 DEF hierarchyVars, HierarchyTypeOK, ClassifiedInv, Classified, SavedInv, Saved
  <1> QED
      BY <1>1, <1>2, <1>3, <1>4, ClassifyKeeps, SaveRowsKeeps DEF HierarchyNext

\* A walk to the parent ends: levels fall on the way up, and there are four.
LEMMA LevelsEndWalks == HierarchyTypeOK /\ SavedInv => WalksEnd
  <1> SUFFICES ASSUME HierarchyTypeOK, SavedInv,
                      NEW S \in SUBSET Saved,
                      \A p \in S : parent[p] \in S
               PROVE  S = {}
      BY DEF WalksEnd
  <1>1. \A p \in S : level[p] \in 1..4 /\ level[parent[p]] \in 1..4
                     /\ level[parent[p]] < level[p]
      BY DEF HierarchyTypeOK, Saved, Unsaved, SavedInv
  <1>2. \A p \in S : level[p] # 1
      BY <1>1
  <1>3. \A p \in S : level[p] # 2
      BY <1>1, <1>2
  <1>4. \A p \in S : level[p] # 3
      BY <1>1, <1>2, <1>3
  <1> QED
      BY <1>1, <1>2, <1>3, <1>4

-----------------------------------------------------------------------------
(* Territories *)

\* What is below a saved place is deeper than it.
LEMMA DeeperBelow ==
  ASSUME HierarchyTypeOK, SavedInv, NEW a \in Saved, NEW q \in Territory(a), q # a
  PROVE  q \in Saved /\ level[a] < level[q]
  <1> DEFINE S == {a} \cup {x \in Saved : level[a] < level[x]}
  <1>1. S \in SUBSET Places /\ a \in S
      BY DEF Saved
  <1>2. ChildrenIn(S) \subseteq S
    <2> SUFFICES ASSUME NEW c \in Saved, parent[c] \in S
                 PROVE  level[a] < level[c]
        BY DEF ChildrenIn
    <2>1. parent[c] \in Saved /\ level[parent[c]] < level[c]
        BY DEF SavedInv
    <2>2. /\ level[a] \in Nat /\ level[c] \in Nat /\ level[parent[c]] \in Nat
          /\ level[a] <= level[parent[c]]
        BY <2>1 DEF HierarchyTypeOK, Saved
    <2> QED
        BY <2>1, <2>2
  <1>3. q \in S
      BY <1>1, <1>2 DEF Territory
  <1> QED
      BY <1>3

\* A territory holds its place and the children of all it holds.
LEMMA TerritoryClosed ==
  ASSUME NEW a \in Places
  PROVE  /\ a \in Territory(a) /\ Territory(a) \subseteq Places
         /\ ChildrenIn(Territory(a)) \subseteq Territory(a)
  BY DEF Territory, ChildrenIn, Saved

\* Nothing else is in it: what is there came by its parent.
LEMMA TerritoryByParent ==
  ASSUME NEW a \in Places, NEW c \in Territory(a), c # a
  PROVE  parent[c] \in Territory(a)
  <1> SUFFICES ASSUME parent[c] \notin Territory(a)
               PROVE  FALSE
      OBVIOUS
  <1> DEFINE S == Territory(a) \ {c}
  <1>1. S \in SUBSET Places /\ a \in S
      BY TerritoryClosed
  <1>2. ChildrenIn(S) \subseteq S
      BY TerritoryClosed DEF ChildrenIn
  <1>3. c \in S
      BY <1>1, <1>2 DEF Territory
  <1> QED
      BY <1>3

\* Two saved places of one level share nothing below them.
LEMMA LevelsDoNotOverlap == HierarchyTypeOK /\ SavedInv => TerritoriesDisjoint
  <1> SUFFICES ASSUME HierarchyTypeOK, SavedInv,
                      NEW a \in Saved, NEW b \in Saved, level[a] = level[b], a # b,
                      NEW q \in Territory(a) \cap Territory(b)
               PROVE  FALSE
      BY DEF TerritoriesDisjoint
  <1> DEFINE S == Territory(b) \ Territory(a)
  <1>0. a \in Places /\ b \in Places /\ level \in [Places -> 0..4]
      BY DEF Saved, HierarchyTypeOK
  <1>1. S \in SUBSET Places /\ b \in S
      BY <1>0, TerritoryClosed, DeeperBelow
  <1>2. ASSUME NEW c \in Saved, parent[c] \in S
        PROVE  c \in S
    <2>1. c \in Territory(b)
        BY <1>0, <1>2, TerritoryClosed DEF ChildrenIn
    <2>2. CASE c = a
      <3>1. parent[a] \in Saved /\ level[b] <= level[parent[a]]
          BY <1>0, <1>2, <2>2, DeeperBelow DEF Saved
      <3>2. level[parent[a]] < level[a] /\ parent[a] \in Places
          BY <3>1 DEF SavedInv, Saved
      <3> QED
          BY <3>1, <3>2, <1>0
    <2>3. CASE c # a
        BY <1>0, <1>2, <2>1, <2>3, TerritoryByParent
    <2> QED
        BY <2>2, <2>3
  <1>3. ChildrenIn(S) \subseteq S
      BY <1>2 DEF ChildrenIn
  <1>4. q \in S
      BY <1>1, <1>3 DEF Territory
  <1> QED
      BY <1>4

-----------------------------------------------------------------------------
(* The selection *)

Later == {"rank", "save", "gate", "arc", "failed"}

\* The window is empty until the gate is there, tiers are to be written only
\* while they are being saved, and the tree is complete before the calculation.
Phases ==
  /\ stage \in Later => session = "done"
  /\ stage = "rank" => \A e \in Entities : sig[e] = "none"
  /\ stage # "save" => ranked = {}
  /\ stage \notin {"gate", "arc"} =>
       view = NoCopy /\ fetch = NoCopy /\ held = NoCopy /\ writes = {} /\ recheck = NoPlace
  /\ held # NoCopy => view \in Copies

WritesOK ==
  \A w \in writes : DOMAIN w \subseteq Entities
                   /\ \A e \in DOMAIN w : w[e] \in {"PRIMARY", "SECONDARY"}

\* The places that have a tier, will get one, or are shown or written with one.
Tiered(p) ==
  \/ sig[p] # "none"
  \/ \E r \in ranked : r[1] = p
  \/ view # NoCopy /\ (view.sig[p] # "none" \/ p \in view.listed)
  \/ fetch \in Copies /\ (fetch.sig[p] # "none" \/ p \in fetch.listed)
  \/ held # NoCopy /\ p \in held.zone
  \/ \E w \in writes : p \in DOMAIN w

\* All of them are anchors of one level.
Levelled ==
  stage \in Later =>
    \E l \in {HUB, LOCALE} : \A p \in Places : Tiered(p) => p \in Anchors(l)

SelectionInv == HierarchyInv /\ SelectionTypeOK /\ Phases /\ WritesOK

\* Once the step is done the tree stays as it is.
LEMMA TreeStays ==
  ASSUME session = "done", HierarchyNext \/ UNCHANGED hierarchyVars
  PROVE  UNCHANGED <<level, session>>
  BY DEF HierarchyNext, hierarchyVars, StartSession, Classify, PromptAgain, LoseSession, SaveRows

LEMMA SelectionStart == Init => SelectionInv /\ Levelled
  <1> SUFFICES ASSUME Init PROVE SelectionInv /\ Levelled
      OBVIOUS
  <1> USE DEF Init, SelectionInit
  <1>1. SelectionTypeOK
      BY DEF SelectionTypeOK, SigTiers, Stages
  <1>2. Phases /\ WritesOK /\ Levelled
      BY DEF Phases, WritesOK, Levelled, Later
  <1> QED
      BY <1>1, <1>2, HierarchyStart DEF SelectionInv

\* A step of the tree leaves the selection alone.
LEMMA TreeStepKeeps ==
  ASSUME SelectionInv, HierarchyNext \/ UNCHANGED hierarchyVars, UNCHANGED selectionVars
  PROVE  SelectionInv' /\ (Levelled => Levelled')
  <1> USE DEF selectionVars, windowVars, SelectionInv
  <1>1. HierarchyInv'
      BY HierarchyStep
  <1>2. SelectionTypeOK' /\ WritesOK'
      BY DEF SelectionTypeOK, WritesOK
  <1>3. Phases'
      BY TreeStays DEF Phases, Later
  <1>4. ASSUME Levelled PROVE Levelled'
    <2>1. CASE stage \in Later
      <3>1. UNCHANGED <<level, session>>
          BY <2>1, TreeStays DEF Phases
      <3> QED
          BY <1>4, <3>1 DEF Levelled, Tiered, Anchors, Saved
    <2>2. CASE stage \notin Later
        BY <2>2 DEF Levelled
    <2> QED
        BY <2>1, <2>2
  <1> QED
      BY <1>1, <1>2, <1>3, <1>4

\* The steps of the calculation.
LEMMA CalculationKeeps ==
  ASSUME SelectionInv, Levelled, UNCHANGED hierarchyVars,
         \/ \E M \in SUBSET Described : DetermineMinors(M)
         \/ ClearTiers \/ RankNothing \/ SaveTier \/ OpenGate \/ CrashCalculation
         \/ \E C \in SUBSET Characters, l \in {HUB, LOCALE} :
              \E P \in SUBSET C, A \in SUBSET Anchors(l) :
                \E Q \in SUBSET A : RankEntities(C, P, l, A, Q)
  PROVE  SelectionTypeOK' /\ Phases' /\ WritesOK' /\ Levelled'
  <1> USE DEF SelectionInv, windowVars, hierarchyVars, Use
  <1>0. UNCHANGED <<level, session>> /\ \A l : UNCHANGED Anchors(l)
      BY DEF Anchors, Saved
  <1>1. ASSUME NEW M \in SUBSET Described, DetermineMinors(M)
        PROVE  SelectionTypeOK' /\ Phases' /\ WritesOK' /\ Levelled'
      BY <1>1, CharactersAssumption
         DEF DetermineMinors, SelectionTypeOK, Phases, WritesOK, Levelled, Later, Stages
  <1>2. ASSUME ClearTiers
        PROVE  SelectionTypeOK' /\ Phases' /\ WritesOK' /\ Levelled'
    <2>1. SelectionTypeOK' /\ Phases' /\ WritesOK'
        BY <1>2 DEF ClearTiers, SelectionTypeOK, Phases, WritesOK, Later, Stages, SigTiers
    <2>2. Levelled'
        BY <1>2, CopiesAssumption
           DEF ClearTiers, Levelled, Tiered, Phases, Entities
    <2> QED
        BY <2>1, <2>2
  <1>3. ASSUME NEW C \in SUBSET Characters, NEW l \in {HUB, LOCALE},
               NEW P \in SUBSET C, NEW A \in SUBSET Anchors(l), NEW Q \in SUBSET A,
               RankEntities(C, P, l, A, Q)
        PROVE  SelectionTypeOK' /\ Phases' /\ WritesOK' /\ Levelled'
    <2>1. ranked' \in SUBSET ((C \cup A) \X {"PRIMARY", "SECONDARY"})
        BY <1>3 DEF RankEntities, Tiering
    <2>2. A \subseteq Entities /\ C \subseteq Entities /\ C \cap Places = {}
        BY CharactersAssumption DEF Anchors, Saved, Entities
    <2>3. SelectionTypeOK'
        BY <1>3, <2>1, <2>2 DEF RankEntities, SelectionTypeOK, Stages
    <2>4. Phases' /\ WritesOK'
        BY <1>3 DEF RankEntities, Phases, WritesOK, Later
    <2>5. Levelled'
      <3>1. \A p \in Places : Tiered(p)' => \E r \in ranked' : r[1] = p
          BY <1>3, CopiesAssumption DEF RankEntities, Tiered, Phases, Entities
      <3>2. \A p \in Places : Tiered(p)' => p \in A
          BY <2>1, <2>2, <3>1
      <3> QED
          BY <1>0, <3>2 DEF Levelled
    <2> QED
        BY <2>3, <2>4, <2>5
  <1>4. ASSUME RankNothing
        PROVE  SelectionTypeOK' /\ Phases' /\ WritesOK' /\ Levelled'
    <2>1. SelectionTypeOK' /\ Phases' /\ WritesOK'
        BY <1>4 DEF RankNothing, SelectionTypeOK, Phases, WritesOK, Later, Stages
    <2>2. Levelled'
        BY <1>4, <1>0 DEF RankNothing, Levelled, Tiered, Later
    <2> QED
        BY <2>1, <2>2
  <1>5. ASSUME SaveTier
        PROVE  SelectionTypeOK' /\ Phases' /\ WritesOK' /\ Levelled'
    <2>1. PICK r \in ranked : /\ sig' = [sig EXCEPT ![r[1]] = r[2]]
                             /\ ranked' = ranked \ {r}
        BY <1>5 DEF SaveTier
    <2>2. r[1] \in Entities /\ r[2] \in SigTiers
        BY <2>1 DEF SelectionTypeOK, SigTiers
    <2>3. SelectionTypeOK' /\ Phases' /\ WritesOK'
        BY <1>5, <2>1, <2>2 DEF SaveTier, SelectionTypeOK, Phases, WritesOK, Later, Stages
    <2>4. \A p \in Places : Tiered(p)' => Tiered(p)
        BY <1>5, <2>1, <2>2 DEF SaveTier, Tiered, SelectionTypeOK, Entities
    <2>5. Levelled'
        BY <1>5, <1>0, <2>4 DEF SaveTier, Levelled
    <2> QED
        BY <2>3, <2>5
  <1>6. ASSUME OpenGate
        PROVE  SelectionTypeOK' /\ Phases' /\ WritesOK' /\ Levelled'
    <2>1. SelectionTypeOK' /\ Phases' /\ WritesOK'
        BY <1>6 DEF OpenGate, SelectionTypeOK, Phases, WritesOK, Later, Stages
    <2>2. Levelled'
        BY <1>6, <1>0 DEF OpenGate, Levelled, Tiered, Later
    <2> QED
        BY <2>1, <2>2
  <1>7. ASSUME CrashCalculation
        PROVE  SelectionTypeOK' /\ Phases' /\ WritesOK' /\ Levelled'
      BY <1>7 DEF CrashCalculation, SelectionTypeOK, Phases, WritesOK, Levelled, Later, Stages
  <1> QED
      BY <1>1, <1>2, <1>3, <1>4, <1>5, <1>6, <1>7

LEMMA RowsAreCopies == SelectionTypeOK => Rows \in Copies
  BY DEF Rows, Copies, SelectionTypeOK, Entities

\* What the end of the drag of e does, seen from outside: some of the list it
\* began with get tiers.
DragEnds(e, change, tiers) ==
  /\ held # NoCopy /\ held' = NoCopy
  /\ view' = [view EXCEPT
               !.sig = [x \in Entities |-> IF x \in change THEN tiers[x] ELSE view.sig[x]],
               !.listed = (@ \ SameList(e)) \cup (held.zone \cap SameList(e))]
  /\ writes' = writes \cup ({tiers} \ {<<>>})
  /\ UNCHANGED <<sig, minor, stage, ranked, fetch, recheck, used>>

LEMMA DragOutcome ==
  ASSUME NEW e, NEW across, EndDrag(e, across)
  PROVE  \E change \in SUBSET held.zone :
           \E tiers \in [change -> {"PRIMARY", "SECONDARY"}] : DragEnds(e, change, tiers)
  <1> DEFINE list    == held.zone \cap SameList(e)
             primary == Dropped(e, across)
             change(moved) == Changed(list, primary) \cup moved
             tiers(moved)  == [x \in change(moved) |-> TierIn(primary, x)]
  <1>1. PICK moved \in SUBSET list :
          /\ view' = [view EXCEPT
                       !.sig = [x \in Entities |-> IF x \in change(moved) THEN TierIn(primary, x)
                                                                          ELSE view.sig[x]],
                       !.listed = (@ \ SameList(e)) \cup list]
          /\ writes' = writes \cup ({tiers(moved)} \ {<<>>})
      BY DEF EndDrag
  <1>2. change(moved) \in SUBSET held.zone
      BY DEF Changed
  <1>3. tiers(moved) \in [change(moved) -> {"PRIMARY", "SECONDARY"}]
      BY DEF TierIn
  <1>4. \A x \in change(moved) : tiers(moved)[x] = TierIn(primary, x)
      OBVIOUS
  <1> HIDE DEF change, primary
  <1>5. [x \in Entities |-> IF x \in change(moved) THEN TierIn(primary, x) ELSE view.sig[x]]
          = [x \in Entities |-> IF x \in change(moved) THEN tiers(moved)[x] ELSE view.sig[x]]
      BY <1>4
  <1> HIDE DEF tiers
  <1>6. DragEnds(e, change(moved), tiers(moved))
      BY <1>1, <1>5 DEF EndDrag, DragEnds
  <1> QED
      BY <1>2, <1>3, <1>6

\* What the window does.
LEMMA WindowKeeps ==
  ASSUME SelectionInv, Levelled, UNCHANGED hierarchyVars,
         \/ OpenWindow \/ ReadRows \/ ShowRows \/ StartDrag \/ CancelDrag
         \/ WriteChanges \/ WriteFails
         \/ \E e \in Entities, across \in BOOLEAN : EndDrag(e, across)
         \/ \E c \in Characters : StartRecheck(c)
         \/ EndRecheck \/ Continue \/ Reopen
  PROVE  SelectionTypeOK' /\ Phases' /\ WritesOK' /\ Levelled'
  <1> USE DEF SelectionInv, windowVars, hierarchyVars, Use, AskRows
  <1>0. UNCHANGED <<level, session>> /\ \A l : UNCHANGED Anchors(l)
      BY DEF Anchors, Saved
  <1>1. ASSUME OpenWindow
        PROVE  SelectionTypeOK' /\ Phases' /\ WritesOK' /\ Levelled'
    <2>1. SelectionTypeOK' /\ Phases' /\ WritesOK'
        BY <1>1, CopiesAssumption, PlacesAssumption
           DEF OpenWindow, SelectionTypeOK, Phases, WritesOK, Later, Stages
    <2>2. \A p \in Places : Tiered(p)' => Tiered(p)
        BY <1>1, CopiesAssumption DEF OpenWindow, Tiered
    <2> QED
        BY <1>1, <2>1, <2>2, <1>0 DEF OpenWindow, Levelled, Later
  <1>2. ASSUME ReadRows
        PROVE  SelectionTypeOK' /\ Phases' /\ WritesOK' /\ Levelled'
    <2>1. SelectionTypeOK' /\ Phases' /\ WritesOK'
        BY <1>2, RowsAreCopies, CopiesAssumption DEF ReadRows, SelectionTypeOK, Phases, WritesOK
    <2>2. \A p \in Places : Tiered(p)' => Tiered(p)
        BY <1>2, CopiesAssumption, CharactersAssumption DEF ReadRows, Tiered, Rows
    <2> QED
        BY <1>2, <2>1, <2>2, <1>0 DEF ReadRows, Levelled
  <1>3. ASSUME ShowRows
        PROVE  SelectionTypeOK' /\ Phases' /\ WritesOK' /\ Levelled'
    <2>1. SelectionTypeOK' /\ Phases' /\ WritesOK'
        BY <1>3, CopiesAssumption, PlacesAssumption
           DEF ShowRows, SelectionTypeOK, Phases, WritesOK, Later, Stages
    <2>2. \A p \in Places : Tiered(p)' => Tiered(p)
        BY <1>3, CopiesAssumption DEF ShowRows, Tiered
    <2> QED
        BY <1>3, <2>1, <2>2, <1>0 DEF ShowRows, Levelled, Later
  <1>4. ASSUME StartDrag
        PROVE  SelectionTypeOK' /\ Phases' /\ WritesOK' /\ Levelled'
    <2>1. Draggable \subseteq Entities /\ PrimaryZone \subseteq Entities
        BY <1>4 DEF StartDrag, SelectionTypeOK, Draggable, PrimaryZone, Copies
    <2>2. SelectionTypeOK'
        BY <1>4, <2>1 DEF StartDrag, SelectionTypeOK
    <2>3. Phases' /\ WritesOK'
        BY <1>4 DEF StartDrag, SelectionTypeOK, Phases, WritesOK, Later
    <2>4. \A p \in Places : Tiered(p)' => Tiered(p)
        BY <1>4 DEF StartDrag, Tiered, Draggable
    <2> QED
        BY <1>4, <2>2, <2>3, <2>4, <1>0 DEF StartDrag, Levelled
  <1>5. ASSUME CancelDrag
        PROVE  SelectionTypeOK' /\ Phases' /\ WritesOK' /\ Levelled'
    <2>1. SelectionTypeOK' /\ Phases' /\ WritesOK'
        BY <1>5, CopiesAssumption, PlacesAssumption
           DEF CancelDrag, SelectionTypeOK, Phases, WritesOK, Later, Stages
    <2>2. \A p \in Places : Tiered(p)' => Tiered(p)
        BY <1>5, CopiesAssumption DEF CancelDrag, Tiered
    <2> QED
        BY <1>5, <2>1, <2>2, <1>0 DEF CancelDrag, Levelled, Later
  <1>6. ASSUME NEW e \in Entities, NEW across \in BOOLEAN, EndDrag(e, across)
        PROVE  SelectionTypeOK' /\ Phases' /\ WritesOK' /\ Levelled'
    <2>1. PICK change \in SUBSET held.zone :
            \E w \in [change -> {"PRIMARY", "SECONDARY"}] : DragEnds(e, change, w)
        BY <1>6, DragOutcome
    <2>0. PICK tiers \in [change -> {"PRIMARY", "SECONDARY"}] : DragEnds(e, change, tiers)
        BY <2>1
    <2> DEFINE shown == [x \in Entities |-> IF x \in change THEN tiers[x] ELSE view.sig[x]]
               list  == (view.listed \ SameList(e)) \cup (held.zone \cap SameList(e))
    <2>2. change \subseteq Entities /\ held \in [zone : SUBSET Entities, primary : SUBSET Entities]
        BY <2>0 DEF DragEnds, SelectionTypeOK
    <2>4. view \in Copies
        BY <2>0 DEF DragEnds, Phases
    <2>5. view' \in Copies /\ view'.sig = shown /\ view'.listed = list
      <3>1. shown \in [Entities -> SigTiers]
          BY <2>4 DEF Copies, SigTiers
      <3>2. list \subseteq Entities
          BY <2>2, <2>4 DEF Copies
      <3> HIDE DEF shown, list
      <3>3. view' = [view EXCEPT !.sig = shown, !.listed = list]
          BY <2>0 DEF DragEnds, shown, list
      <3> QED
          BY <2>4, <3>1, <3>2, <3>3 DEF Copies
    <2> HIDE DEF shown, list
    <2>6. SelectionTypeOK'
        BY <2>0, <2>5 DEF DragEnds, SelectionTypeOK
    <2>7. Phases'
        BY <2>0 DEF DragEnds, Phases, Later
    <2>8. WritesOK'
        BY <2>0, <2>2 DEF DragEnds, WritesOK
    <2>9. \A p \in Places : Tiered(p)' => Tiered(p)
      <3> SUFFICES ASSUME NEW p \in Places, Tiered(p)', p \notin held.zone
                   PROVE  Tiered(p)
          BY <2>0 DEF DragEnds, Tiered
      <3>1. p \notin change /\ (p \in list => p \in view.listed)
          BY <2>0 DEF list
      <3>2. view'.sig[p] = view.sig[p]
          BY <2>5, <3>1 DEF shown, Entities
      <3> QED
          BY <3>1, <3>2, <2>0, <2>4, <2>5, CopiesAssumption DEF DragEnds, Tiered
    <2> QED
        BY <2>0, <2>6, <2>7, <2>8, <2>9, <1>0 DEF DragEnds, Levelled
  <1>7. ASSUME WriteChanges
        PROVE  SelectionTypeOK' /\ Phases' /\ WritesOK' /\ Levelled'
    <2>1. PICK w \in writes :
            /\ sig' = [e \in Entities |-> IF e \in DOMAIN w THEN w[e] ELSE sig[e]]
            /\ writes' = writes \ {w}
        BY <1>7 DEF WriteChanges
    <2>2. sig' \in [Entities -> SigTiers]
        BY <2>1 DEF WritesOK, SelectionTypeOK, SigTiers
    <2>3. SelectionTypeOK'
        BY <1>7, <2>2 DEF WriteChanges, SelectionTypeOK
    <2>4. Phases' /\ WritesOK'
        BY <1>7, <2>1 DEF WriteChanges, Phases, WritesOK, Later
    <2>5. \A p \in Places : Tiered(p)' => Tiered(p)
        BY <1>7, <2>1, CopiesAssumption DEF WriteChanges, Tiered, Entities
    <2> QED
        BY <1>7, <2>3, <2>4, <2>5, <1>0 DEF WriteChanges, Levelled
  <1>12. ASSUME WriteFails
         PROVE  SelectionTypeOK' /\ Phases' /\ WritesOK' /\ Levelled'
    <2>1. SelectionTypeOK' /\ Phases' /\ WritesOK'
        BY <1>12 DEF WriteFails, SelectionTypeOK, Phases, WritesOK, Later
    <2>2. \A p \in Places : Tiered(p)' => Tiered(p)
        BY <1>12, CopiesAssumption DEF WriteFails, Tiered
    <2> QED
        BY <1>12, <2>1, <2>2, <1>0 DEF WriteFails, Levelled
  <1>8. ASSUME NEW c \in Characters, StartRecheck(c)
        PROVE  SelectionTypeOK' /\ Phases' /\ WritesOK' /\ Levelled'
    <2>1. SelectionTypeOK' /\ Phases' /\ WritesOK'
        BY <1>8 DEF StartRecheck, SelectionTypeOK, Phases, WritesOK, Later
    <2>2. \A p \in Places : Tiered(p)' => Tiered(p)
        BY <1>8 DEF StartRecheck, Tiered
    <2> QED
        BY <1>8, <2>1, <2>2, <1>0 DEF StartRecheck, Levelled
  <1>9. ASSUME EndRecheck
        PROVE  SelectionTypeOK' /\ Phases' /\ WritesOK' /\ Levelled'
    <2>1. SelectionTypeOK'
        BY <1>9 DEF EndRecheck, SelectionTypeOK
    <2>2. Phases' /\ WritesOK'
        BY <1>9 DEF EndRecheck, Phases, WritesOK, Later
    <2>3. \A p \in Places : Tiered(p)' => Tiered(p)
        BY <1>9, CopiesAssumption DEF EndRecheck, Tiered
    <2> QED
        BY <1>9, <2>1, <2>2, <2>3, <1>0 DEF EndRecheck, Levelled
  <1>10. ASSUME Continue
        PROVE  SelectionTypeOK' /\ Phases' /\ WritesOK' /\ Levelled'
    <2>1. SelectionTypeOK' /\ Phases' /\ WritesOK'
        BY <1>10, CopiesAssumption, PlacesAssumption
           DEF Continue, SelectionTypeOK, Phases, WritesOK, Later, Stages
    <2>2. \A p \in Places : Tiered(p)' => Tiered(p)
        BY <1>10, CopiesAssumption DEF Continue, Tiered
    <2> QED
        BY <1>10, <2>1, <2>2, <1>0 DEF Continue, Levelled, Later
  <1>11. ASSUME Reopen
        PROVE  SelectionTypeOK' /\ Phases' /\ WritesOK' /\ Levelled'
    <2>1. SelectionTypeOK' /\ Phases' /\ WritesOK'
        BY <1>11, CopiesAssumption, PlacesAssumption
           DEF Reopen, SelectionTypeOK, Phases, WritesOK, Later, Stages
    <2>2. \A p \in Places : Tiered(p)' => Tiered(p)
        BY <1>11, CopiesAssumption DEF Reopen, Tiered
    <2> QED
        BY <1>11, <2>1, <2>2, <1>0 DEF Reopen, Levelled, Later
  <1> QED
      BY <1>1, <1>2, <1>3, <1>4, <1>5, <1>6, <1>7, <1>8, <1>9, <1>10, <1>11, <1>12

LEMMA SelectionStep ==
  ASSUME SelectionInv, Levelled, [Next]_vars
  PROVE  SelectionInv' /\ Levelled'
  <1>1. CASE SelectionNext /\ UNCHANGED hierarchyVars
    <2>1. HierarchyInv'
        BY <1>1, HierarchyStep DEF SelectionInv
    <2> QED
        BY <1>1, <2>1, CalculationKeeps, WindowKeeps DEF SelectionNext, SelectionInv
  <1>2. CASE HierarchyNext /\ UNCHANGED selectionVars
      BY <1>2, TreeStepKeeps
  <1>3. CASE UNCHANGED vars
      BY <1>3, TreeStepKeeps DEF vars
  <1> QED
      BY <1>1, <1>2, <1>3 DEF Next

\* The inductive invariant: the tree is a forest, and whatever has a tier, will
\* get one or is shown with one is an anchor of one level.
THEOREM SelectionInductive == Spec => [](SelectionInv /\ Levelled)
  <1>1. Init => SelectionInv /\ Levelled
      BY SelectionStart
  <1>2. (SelectionInv /\ Levelled) /\ [Next]_vars => (SelectionInv /\ Levelled)'
      BY SelectionStep
  <1> QED
      BY <1>1, <1>2, PTL DEF Spec

\* Every variable keeps its type.
THEOREM SelectionTypeCorrect == Spec => []TypeOK
  <1>1. SelectionInv => TypeOK
      BY DEF SelectionInv, HierarchyInv, TypeOK
  <1> QED
      BY <1>1, SelectionInductive, PTL

\* The walks over the saved rows end, however the model classified the places
\* (hierarchy.ts:47, place-significance.ts:430).
THEOREM WalksAlwaysEnd == Spec => []WalksEnd
  <1>1. SelectionInv => WalksEnd
      BY LevelsEndWalks DEF SelectionInv, HierarchyInv
  <1> QED
      BY <1>1, SelectionInductive, PTL

\* The places to choose from at the gate, and those chosen, share no place below
\* them: the items of place_arc have territories of their own.
THEOREM PickableAlwaysDisjoint == Spec => []PickableDisjoint
  <1>1. SelectionInv /\ Levelled => PickableDisjoint
    <2> SUFFICES ASSUME SelectionInv, Levelled, stage \in {"gate", "arc"},
                        NEW a \in Places, NEW b \in Places,
                        sig[a] # "none", sig[b] # "none", a # b
                 PROVE  Territory(a) \cap Territory(b) = {}
        BY DEF PickableDisjoint
    <2>1. PICK l \in {HUB, LOCALE} : a \in Anchors(l) /\ b \in Anchors(l)
        BY DEF Levelled, Later, Tiered
    <2> QED
        BY <2>1, LevelsDoNotOverlap DEF Anchors, TerritoriesDisjoint, SelectionInv, HierarchyInv
  <1> QED
      BY <1>1, SelectionInductive, PTL

-----------------------------------------------------------------------------
(* Characters under age *)

\* Who is under age throughout: not primary once the tiers are being saved, shown
\* as such, and in no zone and no call; a recheck is about one of them.
Minors ==
  /\ stage \in {"save", "gate", "arc"} => \A c \in minor : <<c, "PRIMARY">> \notin ranked
  /\ stage \in {"rank", "save", "gate", "arc"} => \A c \in minor : sig[c] # "PRIMARY"
  /\ view # NoCopy => minor \subseteq view.minor /\ view.listed \cap minor = {}
  /\ fetch \in Copies => fetch.minor = minor /\ fetch.listed \cap minor = {}
  /\ view # NoCopy /\ fetch = NoCopy => view.minor = minor
  /\ held # NoCopy => held.zone \cap minor = {}
  /\ \A w \in writes : DOMAIN w \cap minor = {}
  /\ recheck # NoPlace => recheck \in minor
  /\ stage \in {"gate", "arc"} \/ recheck = NoPlace

LEMMA MinorsStart == Init => Minors
  BY CopiesAssumption DEF Init, SelectionInit, Minors

LEMMA MinorsStep ==
  ASSUME SelectionInv, Minors, ~RecheckStale, [Next]_vars
  PROVE  Minors'
  <1> USE DEF SelectionInv, windowVars, Use, AskRows
  <1>1. ASSUME UNCHANGED selectionVars PROVE Minors'
      BY <1>1 DEF selectionVars, Minors
  <1>2. ASSUME NEW M \in SUBSET Described, DetermineMinors(M) PROVE Minors'
      BY <1>2, CopiesAssumption DEF DetermineMinors, Minors, Phases
  <1>3. ASSUME ClearTiers PROVE Minors'
      BY <1>3, CopiesAssumption, CharactersAssumption
         DEF ClearTiers, Minors, Phases, SelectionTypeOK, Entities
  <1>4. ASSUME NEW C \in SUBSET Characters, NEW l \in {HUB, LOCALE},
               NEW P \in SUBSET C, NEW A \in SUBSET Anchors(l), NEW Q \in SUBSET A,
               RankEntities(C, P, l, A, Q)
        PROVE  Minors'
    <2>1. \A c \in minor : <<c, "PRIMARY">> \notin ranked'
      <3>1. P \cap minor = {}
          BY <1>4 DEF RankEntities, Eligible
      <3>2. A \cap minor = {}
          BY CharactersAssumption DEF Anchors, Saved, SelectionTypeOK
      <3> QED
          BY <1>4, <3>1, <3>2 DEF RankEntities, Tiering
    <2> QED
        BY <1>4, <2>1, CopiesAssumption DEF RankEntities, Minors, Phases
  <1>5. ASSUME SaveTier PROVE Minors'
    <2>1. PICK r \in ranked : /\ sig' = [sig EXCEPT ![r[1]] = r[2]]
                             /\ ranked' = ranked \ {r}
        BY <1>5 DEF SaveTier
    <2>2. r = <<r[1], r[2]>>
        BY <2>1 DEF SelectionTypeOK
    <2>3. \A c \in minor : sig'[c] # "PRIMARY"
        BY <1>5, <2>1, <2>2, CharactersAssumption
           DEF SaveTier, Minors, SelectionTypeOK, Entities
    <2> QED
        BY <1>5, <2>1, <2>3, CopiesAssumption DEF SaveTier, Minors, Phases
  <1>6. ASSUME RankNothing \/ OpenGate \/ CrashCalculation PROVE Minors'
      BY <1>6, CopiesAssumption DEF RankNothing, OpenGate, CrashCalculation, Minors, Phases
  <1>7. ASSUME OpenWindow \/ ShowRows \/ CancelDrag \/ Continue \/ Reopen
        PROVE  Minors'
      BY <1>7, CopiesAssumption
         DEF OpenWindow, ShowRows, CancelDrag, Continue, Reopen, Minors, Phases
  <1>14. ASSUME ReadRows PROVE Minors'
    <2>1. Rows.minor = minor /\ Rows.listed \cap minor = {}
        BY CharactersAssumption DEF Rows, SelectionTypeOK
    <2>2. Rows # NoCopy
        BY RowsAreCopies, CopiesAssumption
    <2> QED
        BY <1>14, <2>1, <2>2, CopiesAssumption DEF ReadRows, Minors
  <1>8. ASSUME StartDrag PROVE Minors'
    <2>1. Draggable \cap minor = {}
        BY <1>8, CharactersAssumption DEF StartDrag, Draggable, Minors, SelectionTypeOK
    <2> QED
        BY <1>8, <2>1 DEF StartDrag, Minors
  <1>9. ASSUME NEW e \in Entities, NEW across \in BOOLEAN, EndDrag(e, across)
        PROVE  Minors'
    <2>1. PICK change \in SUBSET held.zone :
            \E w \in [change -> {"PRIMARY", "SECONDARY"}] : DragEnds(e, change, w)
        BY <1>9, DragOutcome
    <2>0. PICK tiers \in [change -> {"PRIMARY", "SECONDARY"}] : DragEnds(e, change, tiers)
        BY <2>1
    <2>2. view \in Copies /\ held.zone \cap minor = {}
        BY <2>0 DEF DragEnds, Phases, Minors
    <2>3. view' # NoCopy =>
            view'.minor = view.minor /\ view'.listed \subseteq view.listed \cup held.zone
        BY <2>0, <2>2 DEF DragEnds, Copies
    <2> QED
        BY <2>0, <2>2, <2>3, CopiesAssumption DEF DragEnds, Minors
  <1>10. ASSUME WriteChanges PROVE Minors'
    <2>1. PICK w \in writes :
            /\ sig' = [e \in Entities |-> IF e \in DOMAIN w THEN w[e] ELSE sig[e]]
            /\ writes' = writes \ {w}
        BY <1>10 DEF WriteChanges
    <2>2. \A c \in minor : sig'[c] = sig[c]
        BY <2>1 DEF Minors, SelectionTypeOK, Entities
    <2> QED
        BY <1>10, <2>1, <2>2, CopiesAssumption DEF WriteChanges, Minors
  <1>13. ASSUME WriteFails PROVE Minors'
      BY <1>13, CopiesAssumption DEF WriteFails, Minors
  <1>11. ASSUME NEW c \in Characters, StartRecheck(c) PROVE Minors'
      BY <1>11 DEF StartRecheck, Shown, Minors
  <1>12. ASSUME EndRecheck PROVE Minors'
    <2>1. minor' \subseteq minor
        BY <1>12 DEF EndRecheck, Minors
    <2> QED
        BY <1>12, <2>1, CopiesAssumption DEF EndRecheck, Minors
  <1> QED
      BY <1>1, <1>2, <1>3, <1>4, <1>5, <1>6, <1>7, <1>8, <1>9, <1>10, <1>11, <1>12, <1>13, <1>14
         DEF Next, SelectionNext, vars

\* A character found to be under age throughout is never primary at the gate or
\* after it, if no age is checked again from a list that is out of date.
THEOREM MinorsStaySecondary == ~RecheckStale => (Spec => []MinorsNeverPrimary)
  <1> SUFFICES ASSUME ~RecheckStale PROVE Spec => []MinorsNeverPrimary
      OBVIOUS
  <1>1. Minors => MinorsNeverPrimary
      BY DEF Minors, MinorsNeverPrimary
  <1>2. SelectionInv /\ Minors /\ [Next]_vars => Minors'
      BY MinorsStep
  <1> QED
      BY <1>1, <1>2, MinorsStart, SelectionInductive, PTL DEF Spec

-----------------------------------------------------------------------------
(* What the window shows *)

\* What was read is what is saved until a call changes it, and every call makes
\* the window read again.
Fresh ==
  /\ fetch \in Copies => fetch.sig = sig
  /\ view # NoCopy /\ fetch = NoCopy /\ writes = {} => view.sig = sig

LEMMA FreshStep ==
  ASSUME SelectionInv, Fresh, [Next]_vars
  PROVE  Fresh'
  <1> USE DEF SelectionInv, windowVars, Use, AskRows
  <1>1. ASSUME UNCHANGED selectionVars PROVE Fresh'
      BY <1>1 DEF selectionVars, Fresh
  <1>2. ASSUME UNCHANGED windowVars, stage \notin {"gate", "arc"} PROVE Fresh'
      BY <1>2, CopiesAssumption DEF Fresh, Phases
  <1>3. ASSUME NEW M \in SUBSET Described, DetermineMinors(M) PROVE Fresh'
      BY <1>3, <1>2 DEF DetermineMinors
  <1>4. ASSUME NEW C, NEW P, NEW l, NEW A, NEW Q, RankEntities(C, P, l, A, Q) PROVE Fresh'
      BY <1>4, <1>2 DEF RankEntities
  <1>5. ASSUME ClearTiers \/ SaveTier \/ RankNothing \/ OpenGate \/ CrashCalculation
        PROVE  Fresh'
      BY <1>5, <1>2 DEF ClearTiers, SaveTier, RankNothing, OpenGate, CrashCalculation
  <1>6. ASSUME OpenWindow \/ ShowRows \/ StartDrag \/ CancelDrag \/ Continue \/ Reopen
        PROVE  Fresh'
      BY <1>6, CopiesAssumption
         DEF OpenWindow, ShowRows, StartDrag, CancelDrag, Continue, Reopen, Fresh
  <1>12. ASSUME ReadRows PROVE Fresh'
    <2>1. Rows.sig = sig
        BY DEF Rows
    <2>2. Rows # NoCopy
        BY RowsAreCopies, CopiesAssumption
    <2> QED
        BY <1>12, <2>1, <2>2, CopiesAssumption DEF ReadRows, Fresh
  <1>7. ASSUME NEW e \in Entities, NEW across \in BOOLEAN, EndDrag(e, across)
        PROVE  Fresh'
    <2>1. PICK change \in SUBSET held.zone :
            \E w \in [change -> {"PRIMARY", "SECONDARY"}] : DragEnds(e, change, w)
        BY <1>7, DragOutcome
    <2>0. PICK tiers \in [change -> {"PRIMARY", "SECONDARY"}] : DragEnds(e, change, tiers)
        BY <2>1
    <2>2. view \in Copies /\ UNCHANGED <<sig, fetch>>
        BY <2>0 DEF DragEnds, Phases
    <2>3. CASE tiers # <<>>
      <3>1. writes' # {}
          BY <2>0, <2>3 DEF DragEnds
      <3> QED
          BY <2>2, <3>1 DEF Fresh
    <2>4. CASE tiers = <<>>
      <3>1. change = {} /\ writes' = writes
          BY <2>0, <2>4 DEF DragEnds
      <3>2. view'.sig = view.sig
          BY <2>0, <2>2, <3>1 DEF DragEnds, Copies
      <3> QED
          BY <2>2, <3>1, <3>2, CopiesAssumption DEF Fresh
    <2> QED
        BY <2>3, <2>4
  <1>8. ASSUME WriteChanges PROVE Fresh'
      BY <1>8, CopiesAssumption DEF WriteChanges, Fresh
  <1>11. ASSUME WriteFails PROVE Fresh'
      BY <1>11, CopiesAssumption DEF WriteFails, Fresh
  <1>9. ASSUME NEW c \in Characters, StartRecheck(c) PROVE Fresh'
      BY <1>9 DEF StartRecheck, Fresh
  <1>10. ASSUME EndRecheck PROVE Fresh'
      BY <1>10, CopiesAssumption DEF EndRecheck, Fresh
  <1> QED
      BY <1>1, <1>3, <1>4, <1>5, <1>6, <1>7, <1>8, <1>9, <1>10, <1>11, <1>12
         DEF Next, SelectionNext, vars

\* Once nothing is on its way the window shows the zones that are saved, in
\* whatever order its calls and reads were answered.
THEOREM ShownAlwaysSaved == Spec => []ShownIsSaved
  <1>1. Init => Fresh
      BY CopiesAssumption DEF Init, SelectionInit, Fresh
  <1>2. SelectionInv /\ Fresh /\ [Next]_vars => Fresh'
      BY FreshStep
  <1>3. Fresh => ShownIsSaved
      BY DEF Fresh, ShownIsSaved, Shown
  <1> QED
      BY <1>1, <1>2, <1>3, SelectionInductive, PTL DEF Spec
=============================================================================
