-------------------------- MODULE EntitySelection ---------------------------
(***************************************************************************)
(* Which characters and places of a book count as primary: the estimate,   *)
(* the age check (determine-minors.ts), the calculation (calculate-        *)
(* significance.ts) and the user's choice in the import window (src/new-   *)
(* book/entity-selection.tsx, import_db.rs).                               *)
(*                                                                         *)
(* The window works on a cached copy of the rows.  A change is shown at    *)
(* once and written by a call of its own; the copy is read again when a    *)
(* call has ended.  An age check of one character may run meanwhile.       *)
(***************************************************************************)
EXTENDS PlaceHierarchy

CONSTANTS
  Characters,   \* the CHARACTER entities of the book
  Described,    \* those with PHYSICAL attributes
  ANCHOR_LIMIT, \* at most so many anchors are ranked (8)
  NoCopy, Asked,\* no copy of the rows; a read of them is asked for
  RecheckStale, \* the user presses Recheck before the list is read again
  MaxActs, MaxCrashes   \* bounds: drags and rechecks together; crashes

ASSUME CharactersAssumption ==
  /\ Described \subseteq Characters /\ Characters \cap Places = {}
  /\ NoPlace \notin Characters
  /\ ANCHOR_LIMIT \in Nat \ {0} /\ RecheckStale \in BOOLEAN
  /\ {MaxActs, MaxCrashes} \subseteq Nat

Entities == Characters \cup Places

VARIABLES
  sig,      \* bookEntities.significanceTier
  minor,    \* the characters whose minorStatus is THROUGHOUT
  stage,    \* what runs: the checks, calculate_significance, the gate, arcs
  ranked,   \* tiers that calculate_significance has yet to write
  view,     \* the window's copy of the rows
  fetch,    \* the read of the rows that is on its way, if any
  held,     \* what a drag started from: the zones at that moment
  writes,   \* update_selection_entities calls that are on their way
  recheck,  \* the character whose age is being checked again
  used      \* bounds used up

windowVars == <<view, fetch, held, writes, recheck>>
selectionVars == <<sig, minor, stage, ranked, windowVars, used>>

SigTiers == {"none", "PRIMARY", "SECONDARY"}
Copies == [sig : [Entities -> SigTiers], minor : SUBSET Characters, listed : SUBSET Entities]
ASSUME CopiesAssumption == NoCopy # Asked /\ {NoCopy, Asked} \cap Copies = {}

Stages == {"check", "clear", "rank", "save", "gate", "arc", "failed"}

SelectionTypeOK ==
  /\ sig \in [Entities -> SigTiers]
  /\ minor \subseteq Characters
  /\ stage \in Stages
  /\ ranked \in SUBSET (Entities \X {"PRIMARY", "SECONDARY"})
  /\ view = NoCopy \/ view \in Copies
  /\ fetch = NoCopy \/ fetch = Asked \/ fetch \in Copies
  /\ held \in {NoCopy} \cup [zone : SUBSET Entities, primary : SUBSET Entities]
  /\ recheck \in Characters \cup {NoPlace}
  /\ used \in [{"acts", "crashes"} -> Nat]

\* Of the places only those with a tier are read.
Rows == [sig |-> sig, minor |-> minor,
         listed |-> (Characters \ minor) \cup {p \in Places : sig[p] # "none"}]

Use(b) == used' = [used EXCEPT ![b] = @ + 1]

\* The estimate may have given a tier to any of them.  Which one is not told
\* apart: the calculation clears them all.
SelectionInit ==
  /\ sig \in [Entities -> {"none", "PRIMARY"}]
  /\ minor = {} /\ stage = "check" /\ ranked = {}
  /\ view = NoCopy /\ fetch = NoCopy /\ held = NoCopy /\ writes = {}
  /\ recheck = NoPlace
  /\ used = [b \in {"acts", "crashes"} |-> 0]

-----------------------------------------------------------------------------
(* The steps *)

\* determine_minors: one answer for every character that is estimated to
\* matter and is described, written in one transaction.
DetermineMinors(M) ==
  /\ stage = "check"
  /\ M \subseteq {c \in Described : sig[c] # "none"}
  /\ minor' = M
  /\ stage' = "clear"
  /\ UNCHANGED <<sig, ranked, windowVars, used>>

\* Variant: the estimated tiers stay where no new tier is written.
KeepTiers ==
  /\ stage = "clear" /\ session = "done"
  /\ stage' = "rank"
  /\ UNCHANGED <<sig, minor, ranked, windowVars, used>>

\* calculate_significance starts: the tiers of the book's entities are cleared.
ClearTiers ==
  /\ stage = "clear" /\ session = "done"
  /\ sig' = [e \in Entities |-> "none"]
  /\ stage' = "rank"
  /\ UNCHANGED <<minor, ranked, windowVars, used>>

\* Variant: characters that are minors throughout are ranked like the others.
EligibleAll == Described

\* getThroughoutCharacters, and the demotion of who has no appearance.
Eligible == Described \ minor

\* The places that are ranked are anchors of one level, hubs or locales.
PlaceRankings(l, A, Q) ==
  /\ A \subseteq Anchors(l) /\ Cardinality(A) <= ANCHOR_LIMIT /\ Q \subseteq A

Tiering(S, P) == {<<e, IF e \in P THEN "PRIMARY" ELSE "SECONDARY">> : e \in S}

\* The rankings are made: characters C with P of them primary, and places A of
\* level l with Q of them primary.  Without a primary character the step fails.
RankEntities(C, P, l, A, Q) ==
  /\ stage = "rank"
  /\ P \subseteq C \cap Eligible /\ PlaceRankings(l, A, Q)
  /\ IF P = {} /\ C # {}
       THEN stage' = "failed" /\ ranked' = {}
       ELSE stage' = "save" /\ ranked' = Tiering(C, P) \cup Tiering(A, Q)
  /\ UNCHANGED <<sig, minor, windowVars, used>>

\* No relationships: nothing is ranked.
RankNothing ==
  /\ stage = "rank"
  /\ stage' = "gate"
  /\ UNCHANGED <<sig, minor, ranked, windowVars, used>>

\* The tiers are written one entity after the other.
SaveTier ==
  /\ stage = "save"
  /\ \E r \in ranked :
       /\ sig' = [sig EXCEPT ![r[1]] = r[2]]
       /\ ranked' = ranked \ {r}
  /\ UNCHANGED <<minor, stage, windowVars, used>>

OpenGate ==
  /\ stage = "save" /\ ranked = {}
  /\ stage' = "gate"
  /\ UNCHANGED <<sig, minor, ranked, windowVars, used>>

\* The worker is lost in calculate_significance, which then starts again.
CrashCalculation ==
  /\ stage \in {"rank", "save"} /\ used["crashes"] < MaxCrashes
  /\ stage' = "clear" /\ ranked' = {}
  /\ Use("crashes")
  /\ UNCHANGED <<sig, minor, windowVars>>

-----------------------------------------------------------------------------
(* The window *)

AskRows == fetch' = Asked

OpenWindow ==
  /\ stage = "gate" /\ view = NoCopy /\ fetch = NoCopy
  /\ AskRows
  /\ UNCHANGED <<sig, minor, stage, ranked, view, held, writes, recheck, used>>

\* read_selection_entities: the rows as they are now.
ReadRows ==
  /\ fetch = Asked
  /\ fetch' = Rows
  /\ UNCHANGED <<sig, minor, stage, ranked, view, held, writes, recheck, used>>

ShowRows ==
  /\ fetch \in Copies
  /\ view' = fetch /\ fetch' = NoCopy
  /\ UNCHANGED <<sig, minor, stage, ranked, held, writes, recheck, used>>

\* partition: who can be dragged, and who of them is in the primary zone.
Draggable == view.listed
PrimaryZone == {e \in Draggable : view.sig[e] = "PRIMARY"}

StartDrag ==
  /\ stage = "gate" /\ view # NoCopy /\ held = NoCopy
  /\ used["acts"] < MaxActs
  /\ held' = [zone |-> Draggable, primary |-> PrimaryZone]
  /\ Use("acts")
  /\ UNCHANGED <<sig, minor, stage, ranked, view, fetch, writes, recheck>>

TierIn(primary, e) == IF e \in primary THEN "PRIMARY" ELSE "SECONDARY"

\* Characters and places have lists of their own.
SameList(e) == IF e \in Characters THEN Characters ELSE Places

\* diffChanges: who is in another zone than the copy says, and whoever has
\* another rank than before.
Changed(list, primary) ==
  {e \in list : (e \in primary) # (view.sig[e] = "PRIMARY")}

\* The primary zone when e is dropped, across the divider or within its zone.
Dropped(e, across) ==
  IF ~across THEN held.primary
  ELSE (held.primary \ {e}) \cup ({e} \ held.primary)

\* The drag of e ends.  The list shown is the one the drag began with, whatever
\* was read since, with the change; a call writes the change, if there is any.
EndDrag(e, across) ==
  /\ held # NoCopy /\ e \in held.zone
  /\ LET list    == held.zone \cap SameList(e)
         primary == Dropped(e, across)
     IN \E moved \in SUBSET list :
          LET change == Changed(list, primary) \cup moved
          IN /\ view' = [view EXCEPT
                          !.sig = [x \in Entities |-> IF x \in change THEN TierIn(primary, x)
                                                                      ELSE view.sig[x]],
                          !.listed = (@ \ SameList(e)) \cup list]
             /\ writes' = writes \cup ({[x \in change |-> TierIn(primary, x)]} \ {<<>>})
  /\ held' = NoCopy
  /\ UNCHANGED <<sig, minor, stage, ranked, fetch, recheck, used>>

CancelDrag ==
  /\ held # NoCopy
  /\ held' = NoCopy
  /\ UNCHANGED <<sig, minor, stage, ranked, view, fetch, writes, recheck, used>>

\* Variant: the answer of a call does not make the window read again.
WriteWithoutRead ==
  /\ \E w \in writes :
       /\ sig' = [e \in Entities |-> IF e \in DOMAIN w THEN w[e] ELSE sig[e]]
       /\ writes' = writes \ {w}
  /\ UNCHANGED <<minor, stage, ranked, view, fetch, held, recheck, used>>

\* update_selection_entities commits, in whatever order; the window then reads
\* the rows again, and drops a read that is still on its way.
WriteChanges ==
  /\ \E w \in writes :
       /\ sig' = [e \in Entities |-> IF e \in DOMAIN w THEN w[e] ELSE sig[e]]
       /\ writes' = writes \ {w}
  /\ AskRows
  /\ UNCHANGED <<minor, stage, ranked, view, held, recheck, used>>

\* It fails: nothing is written, and the window reads the rows all the same.
WriteFails ==
  /\ \E w \in writes : writes' = writes \ {w}
  /\ AskRows
  /\ UNCHANGED <<sig, minor, stage, ranked, view, held, recheck, used>>

Shown == view # NoCopy /\ fetch = NoCopy

\* Recheck is offered for the characters listed as minors.
StartRecheck(c) ==
  /\ stage = "gate" /\ view # NoCopy /\ c \in view.minor
  /\ recheck = NoPlace /\ used["acts"] < MaxActs
  /\ RecheckStale \/ Shown
  /\ recheck' = c
  /\ Use("acts")
  /\ UNCHANGED <<sig, minor, stage, ranked, view, fetch, held, writes>>

\* determine_minors for one character: nothing to do without a description,
\* otherwise any answer.
EndRecheck ==
  /\ recheck # NoPlace
  /\ IF recheck \in Described
       THEN minor' \in {minor \cup {recheck}, minor \ {recheck}}
       ELSE minor' = minor
  /\ recheck' = NoPlace
  /\ AskRows
  /\ UNCHANGED <<sig, stage, ranked, view, held, writes, used>>

\* Continue: what the window shows must have a primary character.  The window
\* does not wait for its calls.  While a recheck runs the start is refused.
Continue ==
  /\ stage = "gate" /\ view # NoCopy /\ recheck = NoPlace
  /\ \E c \in Characters : c \in PrimaryZone
  /\ stage' = "arc"
  /\ UNCHANGED <<sig, minor, ranked, windowVars, used>>

\* 'Update selection' on the book page: the gate again, in a fresh window.
Reopen ==
  /\ stage = "arc" /\ writes = {} /\ recheck = NoPlace
  /\ stage' = "gate"
  /\ view' = NoCopy /\ fetch' = NoCopy /\ held' = NoCopy
  /\ UNCHANGED <<sig, minor, ranked, writes, recheck, used>>

SelectionNext ==
  \/ \E M \in SUBSET Described : DetermineMinors(M)
  \/ ClearTiers
  \/ \E C \in SUBSET Characters, l \in {HUB, LOCALE} :
       \E P \in SUBSET C, A \in SUBSET Anchors(l) :
         \E Q \in SUBSET A : RankEntities(C, P, l, A, Q)
  \/ RankNothing
  \/ SaveTier
  \/ OpenGate
  \/ CrashCalculation
  \/ OpenWindow
  \/ ReadRows
  \/ ShowRows
  \/ StartDrag
  \/ \E e \in Entities, across \in BOOLEAN : EndDrag(e, across)
  \/ CancelDrag
  \/ WriteChanges
  \/ WriteFails
  \/ \E c \in Characters : StartRecheck(c)
  \/ EndRecheck
  \/ Continue
  \/ Reopen

vars == <<hierarchyVars, selectionVars>>

Init == HierarchyInit /\ SelectionInit

Next ==
  \/ HierarchyNext /\ UNCHANGED selectionVars
  \/ SelectionNext /\ UNCHANGED hierarchyVars

Spec == Init /\ [][Next]_vars

-----------------------------------------------------------------------------
TypeOK == HierarchyTypeOK /\ SelectionTypeOK

\* What the user can choose from at the gate, whatever was estimated before and
\* however often the calculation was cut short: places of one level, so the
\* places chosen never share a place below them.
PickableDisjoint ==
  stage \in {"gate", "arc"} =>
    \A a, b \in Places :
      (sig[a] # "none" /\ sig[b] # "none" /\ a # b)
        => Territory(a) \cap Territory(b) = {}

\* A character found to be under age throughout is never primary: neither by
\* the calculation, nor by a choice made on a list that is out of date.
MinorsNeverPrimary ==
  stage \in {"gate", "arc"} => \A c \in minor : sig[c] # "PRIMARY"

\* Once nothing is on its way the window shows what is saved, in whatever order
\* its calls were answered, and whichever of them failed.
ShownIsSaved ==
  (Shown /\ writes = {} /\ stage = "gate" /\ recheck = NoPlace)
    => \A e \in Draggable : (view.sig[e] = "PRIMARY") = (sig[e] = "PRIMARY")
=============================================================================
