--------------------------- MODULE ArcStepsProofs ---------------------------
(***************************************************************************)
(* No group gets its arcs twice: what a handler has yet to write has no     *)
(* arcs yet, and no other handler writes it.  An arc that is not        *)
(* isolated is held by a handler that runs or was lost with one.  And what *)
(* a character's own step has passed, it has covered.                      *)
(***************************************************************************)
EXTENDS ArcSteps, TLAPS

Related == "extract_related_relationship_arc"

AllGroups == (SUBSET Entities) \cup (Characters \X Characters)

ArcTypes ==
  /\ arcs \in [Types -> SUBSET AllGroups]
  /\ doubled \in [Types -> SUBSET AllGroups]
  /\ job \in [Jobs -> [at : {"pending", "ask", "isolate", "failed", "completed"},
                       part : 1..2, todo : SUBSET AllGroups, queue : SUBSET AllGroups]]

\* What the handlers that share a type, by their item or their step, are about.
Own(j) ==
  CASE j[1] = "character_arc" -> Singles({j[2]})
    [] j[1] = "place_arc" -> Singles(Below[j[2]])
    [] j[1] = "extract_entity_appearances_batch" -> Singles(Others)
    [] OTHER -> AllGroups

TodoHasNoArcs == \A j \in Jobs : job[j].todo \cap arcs[TypeOf(j)] = {}
TodoIsOwn == \A j \in Jobs : job[j].todo \subseteq Own(j) /\ (TagStep(j) => job[j].todo = {})

ArcInv == ArcTypes /\ TodoHasNoArcs /\ TodoIsOwn /\ NoArcTwice

LEMMA TypeIsType == \A j \in Jobs : TypeOf(j) \in Types
  BY DEF TypeOf, Types

LEMMA JobShape ==
  ASSUME NEW j \in Jobs
  PROVE  /\ j = <<j[1], j[2]>> /\ j[1] \in ARC_STEPS
         /\ j[1] = "character_arc" => j[2] \in Characters
         /\ j[1] = "place_arc" => j[2] \in Anchors /\ j[2] \in Below[j[2]]
                                /\ Below[j[2]] \subseteq Places
         /\ j[1] \notin {"character_arc", "place_arc"} => j[2] = Book
  BY ArcAssumption DEF Jobs, ItemsOf, Places

\* Two handlers of one type are about different groups.
LEMMA OwnDisjoint ==
  ASSUME NEW i \in Jobs, NEW j \in Jobs, i # j, TypeOf(i) = TypeOf(j),
         ~TagStep(i), ~TagStep(j)
  PROVE  Own(i) \cap Own(j) = {}
  <1> DEFINE Shared == {"character_arc", "place_arc", "extract_entity_appearances_batch"}
  <1>1. i[1] \in Shared /\ j[1] \in Shared
    <2>1. i[1] \notin {"character_arc", "place_arc"} /\ i[1] = j[1] => i = j
        BY JobShape
    <2>2. i[1] \in ARC_STEPS /\ j[1] \in ARC_STEPS
        BY JobShape
    <2> QED
        BY <2>1, <2>2 DEF TypeOf, TagStep, ARC_STEPS
  <1>2. \A a, b \in Anchors : a # b => Below[a] \cap Below[b] = {}
      BY ArcAssumption
  <1>3. \A k \in Jobs :
          /\ k[1] = "character_arc" => Own(k) = Singles({k[2]})
          /\ k[1] = "place_arc" => Own(k) = Singles(Below[k[2]])
          /\ k[1] = "extract_entity_appearances_batch" => Own(k) = Singles(Others)
      BY DEF Own, Related
  <1>4. CASE i[1] = j[1]
    <2>1. i[2] # j[2] /\ i[1] # "extract_entity_appearances_batch"
        BY <1>4, JobShape
    <2>2. CASE i[1] = "character_arc"
        BY <2>1, <2>2, <1>3, <1>4 DEF Singles
    <2>3. CASE i[1] = "place_arc"
      <3>1. Below[i[2]] \cap Below[j[2]] = {}
          BY <2>1, <2>3, <1>2, <1>4, JobShape
      <3>2. Own(i) = Singles(Below[i[2]]) /\ Own(j) = Singles(Below[j[2]])
          BY <2>3, <1>3, <1>4
      <3> QED
          BY <3>1, <3>2 DEF Singles
    <2> QED
        BY <1>1, <2>1, <2>2, <2>3
  <1>5. CASE i[1] # j[1]
    <2>1. /\ Characters \cap Others = {} /\ Characters \cap Places = {}
          /\ Others \cap Places = {}
        BY ArcAssumption
    <2>2. \A k \in Jobs :
            /\ k[1] = "character_arc" => Own(k) \subseteq Singles(Characters)
            /\ k[1] = "place_arc" => Own(k) \subseteq Singles(Places)
            /\ k[1] = "extract_entity_appearances_batch" => Own(k) \subseteq Singles(Others)
      <3> SUFFICES ASSUME NEW k \in Jobs
                   PROVE  /\ k[1] = "character_arc" => Own(k) \subseteq Singles(Characters)
                          /\ k[1] = "place_arc" => Own(k) \subseteq Singles(Places)
                          /\ k[1] = "extract_entity_appearances_batch" =>
                               Own(k) \subseteq Singles(Others)
          OBVIOUS
      <3>1. /\ k[1] = "character_arc" => k[2] \in Characters
            /\ k[1] = "place_arc" => Below[k[2]] \subseteq Places
          BY JobShape
      <3> QED
          BY <3>1, <1>3 DEF Singles
    <2>3. /\ Singles(Characters) \cap Singles(Others) = {}
          /\ Singles(Characters) \cap Singles(Places) = {}
          /\ Singles(Others) \cap Singles(Places) = {}
        BY <2>1 DEF Singles
    <2> QED
        BY <1>1, <1>5, <2>2, <2>3
  <1> QED
      BY <1>4, <1>5

\* What a handler decides to do has no arcs, and is its own.
LEMMA TodoIsNew ==
  ASSUME ArcTypes, NEW j \in Jobs, ~TagStep(j)
  PROVE  /\ Todo(j) \cap arcs[TypeOf(j)] = {}
         /\ Todo(j) \subseteq Own(j) /\ Todo(j) \subseteq AllGroups
  <1> DEFINE Good(S, t) == S \cap arcs[t] = {} /\ S \subseteq Own(j) /\ S \subseteq AllGroups
  <1>0. /\ j[1] \in ARC_STEPS /\ j[1] \notin {"character_identity_tags", "place_identity_tags"}
        /\ Characters \subseteq Entities /\ Others \subseteq Entities /\ Places \subseteq Entities
      BY JobShape DEF TagStep, Entities
  <1>1. CASE j[1] = Related
    <2>1. Good(RelatedTodo, "RELATED")
      <3>1. \A g \in Linked["RELATED"] : g \subseteq Entities
          BY ArcAssumption
      <3>2. \A g \in arcs["RELATED"] : g \cap Sources = {}
          BY DEF Sources, Covered
      <3>3. RelatedTodo \cap arcs["RELATED"] = {}
          BY <3>2 DEF RelatedTodo
      <3>4. Own(j) = AllGroups
          BY <1>1 DEF Own, Related
      <3> QED
          BY <3>1, <3>3, <3>4 DEF RelatedTodo, AllGroups
    <2> QED
        BY <1>1, <2>1 DEF Todo, TypeOf, Related
  <1>2. CASE j[1] = "extract_relationship_arc"
    <2>1. RelationshipTodo \cap arcs["RELATIONSHIP"] = {}
      <3>1. \A g \in arcs["RELATIONSHIP"] : g \subseteq Covered("RELATIONSHIP")
          BY DEF Covered
      <3> QED
          BY <3>1 DEF RelationshipTodo
    <2>2. RelationshipTodo \subseteq AllGroups
        BY <1>0, ArcAssumption DEF RelationshipTodo, AllGroups
    <2>3. Own(j) = AllGroups
        BY <1>2 DEF Own, Related
    <2> QED
        BY <1>2, <2>1, <2>2, <2>3 DEF Todo, TypeOf
  <1>3. CASE j[1] = "extract_appellation_arc"
    <2>1. AppellationTodo \cap arcs["APPELLATION"] = {} /\ AppellationTodo \subseteq AllGroups
      <3>1. Linked["APPELLATION"] \subseteq AllGroups
          BY ArcAssumption DEF AllGroups
      <3> QED
          BY <3>1 DEF AppellationTodo
    <2>2. Own(j) = AllGroups
        BY <1>3 DEF Own, Related
    <2> QED
        BY <1>3, <2>1, <2>2 DEF Todo, TypeOf
  <1>4. \A S, T : S \subseteq T => /\ AppearanceTodo(S) \cap arcs["APPEARANCE"] = {}
                                 /\ AppearanceTodo(S) \subseteq Singles(T)
      BY DEF AppearanceTodo, Singles
  <1>5. \A S \in SUBSET Entities : Singles(S) \subseteq AllGroups
      BY DEF Singles, AllGroups
  <1>6. CASE j[1] = "extract_entity_appearances_batch"
    <2>1. Todo(j) = AppearanceTodo(Others \cap Visible) /\ Own(j) = Singles(Others) /\ TypeOf(j) = "APPEARANCE"
        BY <1>6 DEF Todo, OtherAppearanceTodo, Own, TypeOf, Related
    <2> QED
        BY <2>1, <1>0, <1>4, <1>5
  <1>7. CASE j[1] = "character_arc"
    <2>1. Own(j) = Singles({j[2]}) /\ {j[2]} \subseteq Entities
        BY <1>7, <1>0, JobShape DEF Own, Related
    <2>2. CASE job[j].part = 1
      <3>1. Todo(j) = Singles({j[2]} \cap Described) \ arcs["CHARACTER"] /\ TypeOf(j) = "CHARACTER"
        <4>1. Todo(j) = Singles({j[2]} \cap Described) \ arcs["CHARACTER"]
            BY <1>7, <2>2 DEF Todo, CharacterTodo
        <4>2. TypeOf(j) = "CHARACTER"
            BY <1>7, <2>2 DEF TypeOf
        <4> QED
            BY <4>1, <4>2
      <3>2. Singles({j[2]} \cap Described) \subseteq Singles({j[2]})
          BY DEF Singles
      <3> QED
          BY <2>1, <3>1, <3>2, <1>5
    <2>3. CASE job[j].part = 2
      <3>1. Todo(j) = AppearanceTodo({j[2]} \cap Visible) /\ TypeOf(j) = "APPEARANCE"
          BY <1>7, <2>3 DEF Todo, CharacterAppearanceTodo, TypeOf
      <3> QED
          BY <2>1, <3>1, <1>4, <1>5
    <2> QED
        BY <2>2, <2>3 DEF ArcTypes
  <1>8. CASE j[1] = "place_arc"
    <2>1. Own(j) = Singles(Below[j[2]]) /\ Below[j[2]] \subseteq Entities
        BY <1>8, <1>0, JobShape DEF Own, Related
    <2>2. CASE job[j].part = 1
      <3>1. Todo(j) = PlaceTodo(j[2]) /\ TypeOf(j) = "PLACE"
          BY <1>8, <2>2 DEF Todo, TypeOf
      <3> QED
          BY <2>1, <3>1, <1>5 DEF PlaceTodo
    <2>3. CASE job[j].part # 1
      <3>1. Todo(j) = AppearanceTodo(Below[j[2]] \cap Described) /\ TypeOf(j) = "APPEARANCE"
          BY <1>8, <2>3 DEF Todo, PlaceAppearanceTodo, TypeOf
      <3> QED
          BY <2>1, <3>1, <1>4, <1>5
    <2> QED
        BY <2>2, <2>3
  <1> QED
      BY <1>0, <1>1, <1>2, <1>3, <1>6, <1>7, <1>8 DEF ARC_STEPS, Related

-----------------------------------------------------------------------------
(* Steps *)

LEMMA ArcStart == Init => ArcInv
  <1> SUFFICES ASSUME Init PROVE ArcInv
      OBVIOUS
  <1> USE DEF Init, Idle
  <1>1. ArcTypes
      BY DEF ArcTypes
  <1>2. TodoIsOwn
      BY DEF TodoIsOwn
  <1>3. TodoHasNoArcs
      BY DEF TodoHasNoArcs
  <1>4. NoArcTwice
      BY DEF NoArcTwice
  <1> QED
      BY <1>1, <1>2, <1>3, <1>4 DEF ArcInv

\* A handler is as it was, has nothing to do, or no more to do than it had.
Quiet(j) ==
  \/ job'[j] = job[j]
  \/ job'[j].todo = {}
  \/ job'[j].todo \subseteq job[j].todo /\ TypeOf(j)' = TypeOf(j)

\* Steps that write no arcs.
LEMMA QuietStep ==
  ASSUME ArcInv, UNCHANGED <<arcs, doubled>>, ArcTypes', \A j \in Jobs : Quiet(j)
  PROVE  ArcInv'
  <1>1. TodoIsOwn'
      BY DEF ArcInv, TodoIsOwn, Own, TagStep, Quiet
  <1>2. TodoHasNoArcs'
    <2> SUFFICES ASSUME NEW j \in Jobs PROVE job'[j].todo \cap arcs'[TypeOf(j)'] = {}
        BY DEF TodoHasNoArcs
    <2>1. CASE job'[j] = job[j]
      <3>1. TypeOf(j)' = TypeOf(j)
          BY <2>1 DEF TypeOf
      <3> QED
          BY <2>1, <3>1 DEF ArcInv, TodoHasNoArcs
    <2>2. CASE job'[j].todo = {}
        BY <2>2
    <2>3. CASE job'[j].todo \subseteq job[j].todo /\ TypeOf(j)' = TypeOf(j)
        BY <2>3 DEF ArcInv, TodoHasNoArcs
    <2> QED
        BY <2>1, <2>2, <2>3 DEF Quiet
  <1> QED
      BY <1>1, <1>2 DEF ArcInv, NoArcTwice

\* A handler writes arcs of groups that it had yet to write, and is done with them.
LEMMA WritingStep ==
  ASSUME ArcInv, ArcTypes', NEW j \in Jobs, ~TagStep(j), NEW S \in SUBSET job[j].todo,
         Insert(TypeOf(j), S),
         \A i \in Jobs \ {j} : job'[i] = job[i],
         \/ job'[j].todo = {}
         \/ job'[j].todo \subseteq job[j].todo \ S /\ TypeOf(j)' = TypeOf(j)
  PROVE  ArcInv'
  <1> DEFINE t == TypeOf(j)
  <1>0. t \in Types
      BY TypeIsType
  <1>1. /\ arcs' = [arcs EXCEPT ![t] = @ \cup S]
        /\ doubled' = [doubled EXCEPT ![t] = @ \cup (S \cap arcs[t])]
      BY DEF Insert
  <1>2. S \cap arcs[t] = {}
      BY DEF ArcInv, TodoHasNoArcs
  <1>3. NoArcTwice'
      BY <1>0, <1>1, <1>2 DEF ArcInv, ArcTypes, NoArcTwice
  <1>4. TodoIsOwn'
    <2>1. \A i \in Jobs : job'[i].todo \subseteq job[i].todo
        BY DEF ArcInv, TodoIsOwn
    <2> QED
        BY <2>1 DEF ArcInv, TodoIsOwn, Own, TagStep
  <1>5. TodoHasNoArcs'
    <2> SUFFICES ASSUME NEW i \in Jobs PROVE job'[i].todo \cap arcs'[TypeOf(i)'] = {}
        BY DEF TodoHasNoArcs
    <2>1. CASE i = j
      <3>1. CASE job'[j].todo = {}
          BY <2>1, <3>1
      <3>2. CASE job'[j].todo \subseteq job[j].todo \ S /\ TypeOf(j)' = TypeOf(j)
          BY <1>0, <1>1, <2>1, <3>2 DEF ArcInv, ArcTypes, TodoHasNoArcs
      <3> QED
          BY <3>1, <3>2
    <2>2. CASE i # j
      <3>0. job'[i] = job[i]
          BY <2>2
      <3>1. TypeOf(i)' = TypeOf(i)
          BY <3>0 DEF TypeOf
      <3>2. CASE TypeOf(i) # t
          BY <1>0, <1>1, <3>0, <3>1, <3>2, TypeIsType DEF ArcInv, ArcTypes, TodoHasNoArcs
      <3>3. CASE TypeOf(i) = t
        <4>1. CASE TagStep(i)
            BY <3>0, <4>1 DEF ArcInv, TodoIsOwn
        <4>2. CASE ~TagStep(i)
          <5>1. Own(i) \cap Own(j) = {}
              BY <2>2, <3>3, <4>2, OwnDisjoint
          <5>2. job[i].todo \cap S = {}
              BY <5>1 DEF ArcInv, TodoIsOwn
          <5> QED
              BY <1>0, <1>1, <3>0, <3>1, <3>3, <5>2 DEF ArcInv, ArcTypes, TodoHasNoArcs
        <4> QED
            BY <4>1, <4>2
      <3> QED
          BY <3>2, <3>3
    <2> QED
        BY <2>1, <2>2
  <1> QED
      BY <1>3, <1>4, <1>5 DEF ArcInv

JobStates ==
  [at : {"pending", "ask", "isolate", "failed", "completed"},
   part : 1..2, todo : SUBSET AllGroups, queue : SUBSET AllGroups]

LEMMA AdvanceIsIdle ==
  ASSUME ArcTypes, NEW j \in Jobs
  PROVE  /\ Advance(j) \in JobStates /\ Advance(j).todo = {}
         /\ Idle \in JobStates
  BY DEF Advance, Idle, Parts, ArcTypes, JobStates

\* After a batch a handler has what is left, if anything, to ask about.
LEMMA AfterBatchStates ==
  ASSUME ArcTypes, NEW j \in Jobs, NEW rest \in SUBSET AllGroups
  PROVE  /\ AfterBatch(j, rest) \in JobStates /\ AfterBatch(j, rest).todo = rest
         /\ rest # {} => AfterBatch(j, rest).at = "ask" /\ AfterBatch(j, rest).queue = {}
  BY AdvanceIsIdle DEF AfterBatch, ArcTypes, JobStates

\* Only one entry of job changes.
LEMMA OneJob ==
  ASSUME ArcTypes, NEW j \in Jobs, NEW s \in JobStates, job' = [job EXCEPT ![j] = s]
  PROVE  /\ job' \in [Jobs -> JobStates] /\ job'[j] = s
         /\ \A i \in Jobs \ {j} : job'[i] = job[i]
  BY DEF ArcTypes, JobStates

LEMMA StartKeeps ==
  ASSUME ArcInv, NEW j \in Jobs, Start(j)
  PROVE  ArcInv'
  <1>1. /\ ~TagStep(j) /\ UNCHANGED <<arcs, doubled>>
        /\ job' = [job EXCEPT ![j] = IF Todo(j) = {} THEN Advance(j)
                                     ELSE [@ EXCEPT !.at = "ask", !.todo = Todo(j)]]
      BY DEF Start
  <1>2. ArcTypes
      BY DEF ArcInv
  <1>3. CASE Todo(j) = {}
    <2>1. job' = [job EXCEPT ![j] = Advance(j)]
        BY <1>1, <1>3
    <2> QED
        BY <1>1, <1>2, <2>1, OneJob, AdvanceIsIdle, QuietStep DEF ArcTypes, JobStates, Quiet
  <1>4. CASE Todo(j) # {}
    <2> DEFINE s == [job[j] EXCEPT !.at = "ask", !.todo = Todo(j)]
    <2>1. /\ Todo(j) \cap arcs[TypeOf(j)] = {}
          /\ Todo(j) \subseteq Own(j) /\ Todo(j) \subseteq AllGroups
        BY <1>1, <1>2, TodoIsNew
    <2>2. s \in JobStates /\ s.todo = Todo(j) /\ s.part = job[j].part
        BY <1>2, <2>1 DEF ArcTypes, JobStates
    <2>3. /\ job' \in [Jobs -> JobStates] /\ job'[j] = s
          /\ \A i \in Jobs \ {j} : job'[i] = job[i]
      <3>1. job' = [job EXCEPT ![j] = s]
          BY <1>1, <1>2, <1>4 DEF ArcTypes
      <3> QED
          BY <1>2, <2>2, <3>1, OneJob
    <2>4. ArcTypes'
        BY <1>1, <1>2, <2>3 DEF ArcTypes, JobStates
    <2> HIDE DEF s
    <2>5. TodoIsOwn'
      <3> SUFFICES ASSUME NEW i \in Jobs
                   PROVE  job'[i].todo \subseteq Own(i) /\ (TagStep(i) => job'[i].todo = {})
          BY DEF TodoIsOwn, Own, TagStep
      <3>1. CASE i = j
          BY <1>1, <2>1, <2>2, <2>3, <3>1
      <3>2. CASE i # j
          BY <2>3, <3>2 DEF ArcInv, TodoIsOwn
      <3> QED
          BY <3>1, <3>2
    <2>6. TodoHasNoArcs'
      <3> SUFFICES ASSUME NEW i \in Jobs PROVE job'[i].todo \cap arcs'[TypeOf(i)'] = {}
          BY DEF TodoHasNoArcs
      <3>1. CASE i = j
        <4>1. TypeOf(j)' = TypeOf(j)
            BY <2>2, <2>3 DEF TypeOf
        <4> QED
            BY <1>1, <2>1, <2>2, <2>3, <3>1, <4>1
      <3>2. CASE i # j
        <4>1. job'[i] = job[i]
            BY <2>3, <3>2
        <4>2. TypeOf(i)' = TypeOf(i)
            BY <4>1 DEF TypeOf
        <4> QED
            BY <1>1, <4>1, <4>2 DEF ArcInv, TodoHasNoArcs
      <3> QED
          BY <3>1, <3>2
    <2> QED
        BY <1>1, <2>4, <2>5, <2>6 DEF ArcInv, NoArcTwice
  <1> QED
      BY <1>3, <1>4

LEMMA InsertTypes ==
  ASSUME ArcTypes, NEW j \in Jobs, NEW S \in SUBSET AllGroups, Insert(TypeOf(j), S),
         job' \in [Jobs -> JobStates]
  PROVE  ArcTypes'
  BY TypeIsType DEF Insert, ArcTypes, JobStates

LEMMA InsertArcsKeeps ==
  ASSUME ArcInv, NEW j \in Jobs, NEW S \in SUBSET job[j].todo,
         \/ InsertCharacterArcs(j, S) \/ InsertPlaceArcs(j, S)
         \/ InsertRelationshipArcs(j, S) \/ InsertAppellationArcs(j, S)
  PROVE  ArcInv'
  <1>1. ArcTypes /\ S \in SUBSET AllGroups
      BY DEF ArcInv, ArcTypes
  <1>2. /\ j[1] # Related /\ TypeOf(j) # "APPEARANCE" /\ Insert(TypeOf(j), S)
        /\ \/ job' = [job EXCEPT ![j] = Advance(j)]
           \/ job' = [job EXCEPT ![j].at = "isolate", ![j].queue = S, ![j].todo = {}]
    <2>1. CASE InsertAppellationArcs(j, S)
        BY <2>1 DEF InsertAppellationArcs, TypeOf, Related
    <2>2. CASE /\ InsertArcs(j, S)
               /\ TypeOf(j) \in {"CHARACTER", "PLACE", "RELATIONSHIP"}
      <3>1. j[1] # Related
          BY <2>2 DEF TypeOf, Related
      <3> QED
          BY <2>2, <3>1 DEF InsertArcs
    <2> QED
        BY <2>1, <2>2 DEF InsertCharacterArcs, InsertPlaceArcs, InsertRelationshipArcs
  <1>3. ~TagStep(j)
      BY <1>2 DEF TagStep, TypeOf
  <1>4. /\ job' \in [Jobs -> JobStates] /\ job'[j].todo = {}
        /\ \A i \in Jobs \ {j} : job'[i] = job[i]
    <2>1. CASE job' = [job EXCEPT ![j] = Advance(j)]
        BY <1>1, <2>1, AdvanceIsIdle, OneJob
    <2>2. CASE job' = [job EXCEPT ![j].at = "isolate", ![j].queue = S, ![j].todo = {}]
        BY <1>1, <2>2 DEF ArcTypes, JobStates
    <2> QED
        BY <1>2, <2>1, <2>2
  <1> QED
      BY <1>1, <1>2, <1>3, <1>4, InsertTypes, WritingStep

\* What the step about related entities does with a batch.
LEMMA RelatedStep ==
  ASSUME ArcTypes, NEW j \in Jobs, NEW S \in SUBSET job[j].todo, InsertRelated(j, S)
  PROVE  /\ j[1] = Related /\ job[j].at = "ask" /\ Insert("RELATED", S)
         /\ UNCHANGED <<work, chosen, ranked, isolated, lost, used>>
         /\ job' \in [Jobs -> JobStates] /\ \A i \in Jobs \ {j} : job'[i] = job[i]
         /\ job'[j].todo \subseteq job[j].todo \ S
         /\ S # {} => job'[j].at = "isolate" /\ job'[j].queue = S
         /\ job'[j].queue \subseteq S
  <1>1. PICK E : /\ S \subseteq Batch(j, E)
                 /\ job' = [job EXCEPT ![j] =
                      IF S = {} THEN AfterBatch(j, job[j].todo \ Batch(j, E))
                      ELSE [@ EXCEPT !.at = "isolate", !.queue = S,
                                     !.todo = job[j].todo \ Batch(j, E)]]
      BY DEF InsertRelated
  <1> DEFINE rest == job[j].todo \ Batch(j, E)
             s == IF S = {} THEN AfterBatch(j, rest)
                  ELSE [job[j] EXCEPT !.at = "isolate", !.queue = S, !.todo = rest]
  <1>2. rest \subseteq job[j].todo \ S /\ rest \in SUBSET AllGroups /\ S \in SUBSET AllGroups
        /\ job[j] \in JobStates
      BY <1>1 DEF ArcTypes, JobStates
  <1>3. job' = [job EXCEPT ![j] = s]
      BY <1>1 DEF ArcTypes
  <1> HIDE DEF rest
  <1>4. /\ s \in JobStates /\ s.todo = rest
        /\ S # {} => s.at = "isolate" /\ s.queue = S
        /\ s.queue \subseteq S
    <2>1. CASE S = {}
      <3>1. s = AfterBatch(j, rest)
          BY <2>1
      <3>2. AfterBatch(j, rest).queue = {}
          BY DEF AfterBatch, Advance, Idle
      <3> QED
          BY <1>2, <2>1, <3>1, <3>2, AfterBatchStates
    <2>2. CASE S # {}
      <3>1. s = [job[j] EXCEPT !.at = "isolate", !.queue = S, !.todo = rest]
          BY <2>2
      <3> HIDE DEF s
      <3> QED
          BY <1>2, <2>2, <3>1 DEF JobStates
    <2> QED
        BY <2>1, <2>2
  <1> HIDE DEF s
  <1>5. /\ job' \in [Jobs -> JobStates] /\ job'[j] = s
        /\ \A i \in Jobs \ {j} : job'[i] = job[i]
      BY <1>3, <1>4, OneJob
  <1> QED
      BY <1>2, <1>4, <1>5 DEF InsertRelated, Related

LEMMA InsertRelatedKeeps ==
  ASSUME ArcInv, NEW j \in Jobs, NEW S \in SUBSET job[j].todo, InsertRelated(j, S)
  PROVE  ArcInv'
  <1>1. ArcTypes /\ S \in SUBSET AllGroups
      BY DEF ArcInv, ArcTypes
  <1>2. /\ j[1] = Related /\ Insert("RELATED", S)
        /\ job' \in [Jobs -> JobStates] /\ \A i \in Jobs \ {j} : job'[i] = job[i]
        /\ job'[j].todo \subseteq job[j].todo \ S
      BY <1>1, RelatedStep
  <1>3. ~TagStep(j) /\ TypeOf(j) = "RELATED" /\ TypeOf(j)' = "RELATED"
      BY <1>2 DEF Related, TagStep, TypeOf
  <1> QED
      BY <1>1, <1>2, <1>3, InsertTypes, WritingStep

LEMMA InsertAppearanceKeeps ==
  ASSUME ArcInv, NEW j \in Jobs, NEW g \in job[j].todo,
         \/ InsertCharacterAppearance(j, g) \/ InsertPlaceAppearance(j, g)
         \/ InsertOtherAppearance(j, g)
  PROVE  ArcInv'
  <1>1. ArcTypes /\ {g} \in SUBSET AllGroups
      BY DEF ArcInv, ArcTypes
  <1>2. /\ TypeOf(j) = "APPEARANCE" /\ Insert(TypeOf(j), {g})
        /\ job' = [job EXCEPT ![j].at = "isolate", ![j].queue = {g}, ![j].todo = @ \ {g}]
      BY DEF InsertAppearance, InsertCharacterAppearance, InsertPlaceAppearance,
             InsertOtherAppearance
  <1>3. ~TagStep(j)
      BY <1>2 DEF ArcInv, TodoIsOwn
  <1>4. /\ job' \in [Jobs -> JobStates] /\ job'[j].todo = job[j].todo \ {g}
        /\ job'[j].part = job[j].part
        /\ \A i \in Jobs \ {j} : job'[i] = job[i]
      BY <1>1, <1>2 DEF ArcTypes, JobStates
  <1>5. TypeOf(j)' = TypeOf(j)
      BY <1>4 DEF TypeOf
  <1> QED
      BY <1>1, <1>2, <1>3, <1>4, <1>5, InsertTypes, WritingStep

\* A handler that goes on to the next batch has no more to do than it had.
LEMMA BatchNext ==
  ASSUME ArcInv, NEW j \in Jobs, j[1] = Related,
         job' = [job EXCEPT ![j] = AfterBatch(j, job[j].todo)], UNCHANGED <<arcs, doubled>>
  PROVE  ArcInv'
  <1>1. ArcTypes /\ job[j].todo \in SUBSET AllGroups
      BY DEF ArcInv, ArcTypes
  <1> DEFINE s == AfterBatch(j, job[j].todo)
  <1>a. s \in JobStates /\ s.todo = job[j].todo
      BY <1>1, AfterBatchStates
  <1> HIDE DEF s
  <1>b. job' \in [Jobs -> JobStates] /\ job'[j] = s /\ \A i \in Jobs \ {j} : job'[i] = job[i]
    <2>1. job' = [job EXCEPT ![j] = s]
        BY DEF s
    <2> QED
        BY <1>1, <1>a, <2>1, OneJob
  <1>2. /\ job' \in [Jobs -> JobStates] /\ job'[j].todo = job[j].todo
        /\ \A i \in Jobs \ {j} : job'[i] = job[i]
      BY <1>a, <1>b
  <1>3. ArcTypes'
      BY <1>1, <1>2 DEF ArcTypes, JobStates
  <1>4. TypeOf(j)' = TypeOf(j)
      BY DEF TypeOf, Related
  <1> QED
      BY <1>2, <1>3, <1>4, QuietStep DEF Quiet

\* A handler that goes on to its next part, or ends, has nothing to do yet.
LEMMA NothingNext ==
  ASSUME ArcInv, NEW j \in Jobs, NEW s \in JobStates, s.todo = {},
         job' = [job EXCEPT ![j] = s], UNCHANGED <<arcs, doubled>>
  PROVE  ArcInv'
  <1>1. ArcTypes
      BY DEF ArcInv
  <1>2. /\ job' \in [Jobs -> JobStates] /\ job'[j] = s
        /\ \A i \in Jobs \ {j} : job'[i] = job[i]
      BY <1>1, OneJob
  <1>3. ArcTypes'
      BY <1>1, <1>2 DEF ArcTypes, JobStates
  <1> QED
      BY <1>2, <1>3, QuietStep DEF Quiet

\* Isolating a group leaves what a handler may write as it is.
LEMMA IsolateKeeps ==
  ASSUME ArcInv, NEW j \in Jobs, NEW g \in job[j].queue, Isolate(j, g)
  PROVE  ArcInv'
  <1>1. ArcTypes /\ UNCHANGED <<arcs, doubled>> /\ job[j].at = "isolate"
      BY DEF ArcInv, Isolate
  <1>2. \/ job' = [job EXCEPT ![j].queue = @ \ {g}]
        \/ job' = [job EXCEPT ![j] = Advance(j)]
        \/ /\ TypeOf(j) = "RELATED"
           /\ job' = [job EXCEPT ![j] = AfterBatch(j, job[j].todo)]
        \/ TypeOf(j) = "APPEARANCE" /\ job' = [job EXCEPT ![j].at = "ask", ![j].queue = {}]
      BY DEF Isolate
  <1>3. CASE job' = [job EXCEPT ![j].queue = @ \ {g}]
    <2>1. /\ job' \in [Jobs -> JobStates] /\ \A i \in Jobs \ {j} : job'[i] = job[i]
          /\ job'[j].at = job[j].at /\ job'[j].part = job[j].part /\ job'[j].todo = job[j].todo
        BY <1>1, <1>3 DEF ArcTypes, JobStates
    <2>2. ArcTypes'
        BY <1>1, <2>1 DEF ArcTypes, JobStates
    <2>3. TypeOf(j)' = TypeOf(j)
        BY <2>1 DEF TypeOf
    <2> QED
        BY <1>1, <2>1, <2>2, <2>3, QuietStep DEF Quiet
  <1>4. CASE job' = [job EXCEPT ![j] = Advance(j)]
      BY <1>1, <1>4, AdvanceIsIdle, NothingNext
  <1>5. CASE /\ TypeOf(j) = "RELATED"
             /\ job' = [job EXCEPT ![j] = AfterBatch(j, job[j].todo)]
    <2>1. j[1] = Related
        BY <1>5, JobShape DEF TypeOf, Related
    <2> QED
        BY <1>1, <1>5, <2>1, BatchNext
  <1>6. CASE TypeOf(j) = "APPEARANCE" /\ job' = [job EXCEPT ![j].at = "ask", ![j].queue = {}]
    <2>1. /\ job' \in [Jobs -> JobStates] /\ \A i \in Jobs \ {j} : job'[i] = job[i]
          /\ job'[j].part = job[j].part /\ job'[j].todo = job[j].todo
        BY <1>1, <1>6 DEF ArcTypes, JobStates
    <2>2. ArcTypes'
        BY <1>1, <2>1 DEF ArcTypes, JobStates
    <2>3. TypeOf(j)' = TypeOf(j)
        BY <2>1 DEF TypeOf
    <2> QED
        BY <1>1, <2>1, <2>2, <2>3, QuietStep DEF Quiet
  <1> QED
      BY <1>2, <1>3, <1>4, <1>5, <1>6

\* Tags, failures and answers without anything to write.
LEMMA OtherKeeps ==
  ASSUME ArcInv, NEW j \in Jobs,
         \/ SkipRelationships(j) \/ TagCharacters(j) \/ TagPlaces(j) \/ Fail(j)
         \/ SwallowError(j) \/ \E part \in 1..2 : Retry(j, part)
  PROVE  ArcInv'
  <1>1. ArcTypes
      BY DEF ArcInv
  <1>2. ASSUME Tag(j) PROVE ArcInv'
    <2> DEFINE s == [job[j] EXCEPT !.at = "completed"]
    <2>1. job' = [job EXCEPT ![j] = s] /\ UNCHANGED <<arcs, doubled>>
        BY <1>1, <1>2 DEF Tag, ArcTypes
    <2>2. s \in JobStates
        BY <1>1 DEF ArcTypes, JobStates
    <2>3. s.todo = job[j].todo /\ job[j].todo = {}
        BY <1>1, <1>2 DEF Tag, ArcTypes, ArcInv, TodoIsOwn
    <2> HIDE DEF s
    <2> QED
        BY <2>1, <2>2, <2>3, NothingNext
  <1>3. ASSUME Fail(j) PROVE ArcInv'
    <2> DEFINE s == [Idle EXCEPT !.at = "failed", !.part = job[j].part]
    <2>1. job' = [job EXCEPT ![j] = s] /\ UNCHANGED <<arcs, doubled>>
        BY <1>3 DEF Fail
    <2>2. s \in JobStates /\ s.todo = {}
        BY <1>1 DEF Idle, ArcTypes, JobStates
    <2> HIDE DEF s
    <2> QED
        BY <2>1, <2>2, NothingNext
  <1>4. ASSUME SwallowError(j) PROVE ArcInv'
      BY <1>4, BatchNext DEF SwallowError, Related
  <1>5. ASSUME NEW part \in 1..2, Retry(j, part) PROVE ArcInv'
    <2> DEFINE s == [Idle EXCEPT !.part = part]
    <2>1. job' = [job EXCEPT ![j] = s] /\ UNCHANGED <<arcs, doubled>>
        BY <1>5 DEF Retry
    <2>2. s \in JobStates /\ s.todo = {}
        BY DEF Idle, JobStates
    <2> HIDE DEF s
    <2> QED
        BY <2>1, <2>2, NothingNext
  <1>6. ASSUME SkipRelationships(j) PROVE ArcInv'
      BY <1>1, <1>6, AdvanceIsIdle, NothingNext DEF SkipRelationships
  <1> QED
      BY <1>2, <1>3, <1>4, <1>5, <1>6 DEF TagCharacters, TagPlaces

LEMMA AllKeeps ==
  ASSUME ArcInv, Crash \/ (\E S \in Selections : Reselect(S)) \/ UNCHANGED vars
  PROVE  ArcInv'
  <1>1. UNCHANGED <<arcs, doubled>> /\ \A j \in Jobs : job'[j] = job[j] \/ job'[j] = Idle
      BY DEF Crash, Reselect, vars
  <1>2. Idle \in JobStates /\ Idle.todo = {}
      BY DEF Idle, JobStates
  <1>3. job' \in [Jobs -> JobStates]
    <2>1. job \in [Jobs -> JobStates]
        BY DEF ArcInv, ArcTypes, JobStates
    <2> HIDE DEF JobStates, Idle
    <2> QED
        BY <1>2, <2>1 DEF Crash, Reselect, vars
  <1>4. ArcTypes'
      BY <1>1, <1>3 DEF ArcInv, ArcTypes, JobStates
  <1> QED
      BY <1>1, <1>2, <1>4, QuietStep DEF Quiet

\* What running handlers have yet to write has no arcs, and no group is written
\* by two of them, whatever is retried, cut short or selected anew.
THEOREM ArcInductive == Spec => []ArcInv
  <1>1. ArcInv /\ [Next]_vars => ArcInv'
      BY StartKeeps, InsertArcsKeeps, InsertRelatedKeeps, InsertAppearanceKeeps,
         IsolateKeeps, OtherKeeps, AllKeeps DEF Next
  <1> QED
      BY <1>1, ArcStart, PTL DEF Spec

\* However often handlers are repeated, cut short or run side by side, for any
\* entities, links and selections, no group gets its arcs a second time.
THEOREM ArcsOnce == Spec => []NoArcTwice
  BY ArcInductive, PTL DEF ArcInv
-----------------------------------------------------------------------------
(* Arcs without their isolated form *)

\* The handler has written the arcs of g and has yet to isolate them.
Holds(j, t, g) == job[j].at = "isolate" /\ TypeOf(j) = t /\ g \in job[j].queue

GapTypes ==
  /\ isolated \in [Types -> SUBSET AllGroups]
  /\ lost \in [Types -> SUBSET AllGroups]

\* Arcs are isolated, about to be, or lost.
Accounted ==
  \A t \in Types : \A g \in arcs[t] :
    g \in isolated[t] \/ g \in lost[t] \/ \E j \in Jobs : Holds(j, t, g)

\* Only steps that have something to do have handlers at work.
OnlyWork == \A j \in Jobs : Running(j) => j[1] \in work

GapInv == GapTypes /\ Accounted /\ OnlyWork

LEMMA GapStart == Init => GapInv
  <1> SUFFICES ASSUME Init PROVE GapInv
      OBVIOUS
  <1>1. GapTypes /\ Accounted
      BY DEF Init, GapTypes, Accounted
  <1>2. OnlyWork
      BY DEF Init, Idle, OnlyWork, Running
  <1> QED
      BY <1>1, <1>2 DEF GapInv

\* What a step owes: new arcs are accounted for, and what a handler held it
\* holds on to, or it is isolated, or lost.
LEMMA GapStep ==
  ASSUME GapInv, GapTypes', work' = work,
         \A t \in Types : isolated[t] \subseteq isolated'[t] /\ lost[t] \subseteq lost'[t],
         \A t \in Types : \A g \in arcs'[t] \ arcs[t] :
           g \in isolated'[t] \/ \E j \in Jobs : Holds(j, t, g)',
         \A t \in Types, j \in Jobs : \A g \in job[j].queue :
           Holds(j, t, g) => Holds(j, t, g)' \/ g \in isolated'[t] \/ g \in lost'[t],
         \A j \in Jobs : Running(j)' => j[1] \in work
  PROVE  GapInv'
  <1>1. Accounted'
    <2> SUFFICES ASSUME NEW t \in Types, NEW g \in arcs'[t]
                 PROVE  g \in isolated'[t] \/ g \in lost'[t] \/ \E j \in Jobs : Holds(j, t, g)'
        BY DEF Accounted
    <2>1. CASE g \notin arcs[t]
        BY <2>1
    <2>2. CASE g \in arcs[t]
      <3>1. g \in isolated[t] \/ g \in lost[t] \/ \E j \in Jobs : Holds(j, t, g)
          BY <2>2 DEF GapInv, Accounted
      <3>2. ASSUME NEW j \in Jobs, Holds(j, t, g)
            PROVE  Holds(j, t, g)' \/ g \in isolated'[t] \/ g \in lost'[t]
        <4>1. g \in job[j].queue
            BY <3>2 DEF Holds
        <4> QED
            BY <3>2, <4>1
      <3> QED
          BY <3>1, <3>2
    <2> QED
        BY <2>1, <2>2
  <1>2. OnlyWork'
      BY DEF OnlyWork
  <1> QED
      BY <1>1, <1>2 DEF GapInv

\* A handler that does not isolate holds nothing; one that is left alone holds
\* what it held.
LEMMA SameHolds ==
  ASSUME NEW j \in Jobs, job'[j] = job[j]
  PROVE  (\A t, g : Holds(j, t, g)' = Holds(j, t, g)) /\ Running(j)' = Running(j)
  <1>1. TypeOf(j)' = TypeOf(j)
      BY DEF TypeOf
  <1> QED
      BY <1>1 DEF Holds, Running

\* Steps of one handler that holds nothing and writes no arcs.
LEMMA GapQuiet ==
  ASSUME ArcInv, GapInv, UNCHANGED <<work, arcs, isolated, lost>>, NEW j \in Jobs,
         job[j].at # "isolate",
         \A i \in Jobs \ {j} : job'[i] = job[i],
         Running(j)' => j[1] \in work
  PROVE  GapInv'
  <1>1. GapTypes'
      BY DEF GapInv, GapTypes
  <1>2. \A t \in Types, i \in Jobs : \A g \in job[i].queue :
          Holds(i, t, g) => Holds(i, t, g)' \/ g \in isolated'[t] \/ g \in lost'[t]
      BY SameHolds DEF Holds
  <1>3. \A i \in Jobs : Running(i)' => i[1] \in work
      BY SameHolds DEF GapInv, OnlyWork
  <1> QED
      BY <1>1, <1>2, <1>3, GapStep

\* A handler writes arcs and is about to isolate them.
LEMMA GapWrite ==
  ASSUME ArcInv, GapInv, UNCHANGED <<work, isolated, lost>>, NEW j \in Jobs,
         job[j].at = "ask", NEW S \in SUBSET AllGroups, Insert(TypeOf(j), S),
         \A i \in Jobs \ {j} : job'[i] = job[i],
         S # {} => job'[j].at = "isolate" /\ job'[j].queue = S /\ TypeOf(j)' = TypeOf(j)
  PROVE  GapInv'
  <1>1. GapTypes'
      BY DEF GapInv, GapTypes
  <1>2. \A t \in Types, i \in Jobs : \A g \in job[i].queue :
          Holds(i, t, g) => Holds(i, t, g)' \/ g \in isolated'[t] \/ g \in lost'[t]
      BY SameHolds DEF Holds
  <1>3. \A i \in Jobs : Running(i)' => i[1] \in work
      BY SameHolds DEF GapInv, OnlyWork, Running
  <1>4. ASSUME NEW t \in Types, NEW g \in arcs'[t] \ arcs[t]
        PROVE  \E i \in Jobs : Holds(i, t, g)'
    <2>1. t = TypeOf(j) /\ g \in S
        BY <1>4, TypeIsType DEF Insert, ArcInv, ArcTypes
    <2> QED
        BY <2>1 DEF Holds
  <1> QED
      BY <1>1, <1>2, <1>3, <1>4, GapStep

\* What running handlers of J hold is lost with them.
LEMMA GapAbandon ==
  ASSUME ArcInv, GapInv, UNCHANGED <<work, arcs, isolated>>, NEW J \in SUBSET Jobs,
         Abandon(J),
         \A i \in Jobs \ J : job'[i] = job[i],
         \A i \in J : Running(i)' => i[1] \in work
  PROVE  GapInv'
  <1> DEFINE Left(t) == UNION {job[j].queue : j \in {i \in J : Running(i) /\ TypeOf(i) = t}}
  <1>1. lost' = [t \in Types |-> lost[t] \cup Left(t)]
      BY DEF Abandon
  <1>2. \A t \in Types : Left(t) \in SUBSET AllGroups
      BY DEF ArcInv, ArcTypes
  <1>3. \A t \in Types, j \in J : \A g \in job[j].queue : Holds(j, t, g) => g \in Left(t)
      BY DEF Holds, Running
  <1> HIDE DEF Left
  <1>4. GapTypes' /\ \A t \in Types : lost'[t] = lost[t] \cup Left(t)
      BY <1>1, <1>2 DEF GapInv, GapTypes
  <1>5. \A t \in Types, i \in Jobs : \A g \in job[i].queue :
          Holds(i, t, g) => Holds(i, t, g)' \/ g \in isolated'[t] \/ g \in lost'[t]
      BY <1>3, <1>4, SameHolds
  <1>6. \A i \in Jobs : Running(i)' => i[1] \in work
      BY SameHolds DEF GapInv, OnlyWork
  <1> QED
      BY <1>4, <1>5, <1>6, GapStep

LEMMA GapInsert ==
  ASSUME ArcInv, GapInv, NEW j \in Jobs, NEW S \in SUBSET job[j].todo,
         \/ InsertCharacterArcs(j, S) \/ InsertPlaceArcs(j, S)
         \/ InsertRelationshipArcs(j, S) \/ InsertRelated(j, S)
  PROVE  GapInv'
  <1>1. ArcTypes /\ S \in SUBSET AllGroups /\ job[j] \in JobStates
      BY DEF ArcInv, ArcTypes, JobStates
  <1>2. CASE InsertArcs(j, S)
    <2>1. /\ job' = [job EXCEPT ![j].at = "isolate", ![j].queue = S, ![j].todo = {}]
          /\ job[j].at = "ask" /\ Insert(TypeOf(j), S) /\ UNCHANGED <<work, isolated, lost>>
        BY <1>2 DEF InsertArcs
    <2>2. /\ job'[j].at = "isolate" /\ job'[j].queue = S /\ job'[j].part = job[j].part
          /\ \A i \in Jobs \ {j} : job'[i] = job[i]
        BY <1>1, <2>1 DEF ArcTypes, JobStates
    <2>3. TypeOf(j)' = TypeOf(j)
        BY <2>2 DEF TypeOf
    <2> QED
        BY <1>1, <2>1, <2>2, <2>3, GapWrite
  <1>3. CASE InsertRelated(j, S)
    <2>1. /\ job[j].at = "ask" /\ j[1] = Related /\ Insert("RELATED", S)
          /\ UNCHANGED <<work, isolated, lost>>
          /\ \A i \in Jobs \ {j} : job'[i] = job[i]
          /\ S # {} => job'[j].at = "isolate" /\ job'[j].queue = S
        BY <1>1, <1>3, RelatedStep
    <2>2. TypeOf(j) = "RELATED" /\ TypeOf(j)' = "RELATED"
        BY <2>1 DEF TypeOf, Related
    <2> QED
        BY <1>1, <2>1, <2>2, GapWrite
  <1> QED
      BY <1>2, <1>3 DEF InsertCharacterArcs, InsertPlaceArcs, InsertRelationshipArcs

LEMMA GapAppellation ==
  ASSUME ArcInv, GapInv, NEW j \in Jobs, NEW S \in SUBSET job[j].todo,
         InsertAppellationArcs(j, S)
  PROVE  GapInv'
  <1>1. ArcTypes /\ S \in SUBSET AllGroups /\ "APPELLATION" \in Types
      BY DEF ArcInv, ArcTypes, Types
  <1>2. /\ arcs' = [arcs EXCEPT !["APPELLATION"] = @ \cup S]
        /\ isolated' = [isolated EXCEPT !["APPELLATION"] = @ \cup S]
        /\ job' = [job EXCEPT ![j] = Advance(j)] /\ job[j].at = "ask"
        /\ UNCHANGED <<work, lost>>
      BY DEF InsertAppellationArcs, Insert
  <1>3. GapTypes' /\ \A t \in Types : isolated[t] \subseteq isolated'[t]
      BY <1>1, <1>2 DEF GapInv, GapTypes
  <1>4. \A t \in Types : \A g \in arcs'[t] \ arcs[t] : g \in isolated'[t]
      BY <1>1, <1>2 DEF GapInv, GapTypes, ArcTypes
  <1>5. \A i \in Jobs \ {j} : job'[i] = job[i]
      BY <1>1, <1>2, AdvanceIsIdle, OneJob
  <1>6. j[1] \in work
      BY <1>2 DEF GapInv, OnlyWork, Running
  <1>7. \A t \in Types, i \in Jobs : \A g \in job[i].queue :
          Holds(i, t, g) => Holds(i, t, g)' \/ g \in isolated'[t] \/ g \in lost'[t]
      BY <1>2, <1>5, SameHolds DEF Holds
  <1>8. \A i \in Jobs : Running(i)' => i[1] \in work
      BY <1>5, <1>6, SameHolds DEF GapInv, OnlyWork
  <1> QED
      BY <1>2, <1>3, <1>4, <1>7, <1>8, GapStep

LEMMA GapAppearance ==
  ASSUME ArcInv, GapInv, NEW j \in Jobs, NEW g \in job[j].todo,
         \/ InsertCharacterAppearance(j, g) \/ InsertPlaceAppearance(j, g)
         \/ InsertOtherAppearance(j, g)
  PROVE  GapInv'
  <1>1. ArcTypes /\ {g} \in SUBSET AllGroups
      BY DEF ArcInv, ArcTypes
  <1>2. /\ TypeOf(j) = "APPEARANCE" /\ Insert(TypeOf(j), {g}) /\ job[j].at = "ask"
        /\ job' = [job EXCEPT ![j].at = "isolate", ![j].queue = {g}, ![j].todo = @ \ {g}]
        /\ UNCHANGED <<work, isolated, lost>>
      BY DEF InsertAppearance, InsertCharacterAppearance, InsertPlaceAppearance,
             InsertOtherAppearance
  <1>3. /\ job'[j].at = "isolate" /\ job'[j].queue = {g} /\ job'[j].part = job[j].part
        /\ \A i \in Jobs \ {j} : job'[i] = job[i]
      BY <1>1, <1>2 DEF ArcTypes, JobStates
  <1>4. TypeOf(j)' = TypeOf(j)
      BY <1>3 DEF TypeOf
  <1> QED
      BY <1>1, <1>2, <1>3, <1>4, GapWrite

\* What is isolated is no longer held; the rest of the queue is.
LEMMA GapIsolate ==
  ASSUME ArcInv, GapInv, NEW j \in Jobs, NEW g \in job[j].queue, Isolate(j, g)
  PROVE  GapInv'
  <1>1. ArcTypes /\ TypeOf(j) \in Types /\ g \in AllGroups /\ job[j] \in JobStates
      BY TypeIsType DEF ArcInv, ArcTypes, JobStates
  <1>2. /\ isolated' = [isolated EXCEPT ![TypeOf(j)] = @ \cup {g}]
        /\ job[j].at = "isolate" /\ UNCHANGED <<work, arcs, lost>>
      BY DEF Isolate
  <1>3. GapTypes' /\ (\A t \in Types : isolated[t] \subseteq isolated'[t])
        /\ g \in isolated'[TypeOf(j)]
      BY <1>1, <1>2 DEF GapInv, GapTypes
  <1>4. j[1] \in work
      BY <1>2 DEF GapInv, OnlyWork, Running
  <1>5. \A i \in Jobs \ {j} : job'[i] = job[i]
      BY <1>1 DEF Isolate, ArcTypes
  <1>6. ASSUME NEW h \in job[j].queue, h # g
        PROVE  job'[j].at = "isolate" /\ h \in job'[j].queue /\ TypeOf(j)' = TypeOf(j)
    <2>1. job' = [job EXCEPT ![j].queue = @ \ {g}]
        BY <1>6 DEF Isolate
    <2>2. job'[j].at = job[j].at /\ job'[j].part = job[j].part
          /\ job'[j].queue = job[j].queue \ {g}
        BY <1>1, <2>1 DEF ArcTypes, JobStates
    <2>3. TypeOf(j)' = TypeOf(j)
        BY <2>2 DEF TypeOf
    <2> QED
        BY <1>2, <1>6, <2>2, <2>3
  <1>7. ASSUME NEW t \in Types, NEW i \in Jobs, NEW h \in job[i].queue, Holds(i, t, h)
        PROVE  Holds(i, t, h)' \/ h \in isolated'[t]
    <2>1. CASE i # j
        BY <1>5, <1>7, <2>1, SameHolds
    <2>2. CASE i = j
        BY <1>3, <1>6, <1>7, <2>2 DEF Holds
    <2> QED
        BY <2>1, <2>2
  <1>8. \A i \in Jobs : Running(i)' => i[1] \in work
      BY <1>4, <1>5, SameHolds DEF GapInv, OnlyWork
  <1> QED
      BY <1>2, <1>3, <1>7, <1>8, GapStep

LEMMA GapOther ==
  ASSUME ArcInv, GapInv, NEW j \in Jobs,
         \/ Start(j) \/ SkipRelationships(j) \/ TagCharacters(j) \/ TagPlaces(j)
         \/ Fail(j) \/ SwallowError(j) \/ \E part \in 1..2 : Retry(j, part)
  PROVE  GapInv'
  <1>1. ArcTypes
      BY DEF ArcInv
  <1>2. ASSUME Start(j) PROVE GapInv'
    <2>1. /\ job[j].at = "pending" /\ j[1] \in work
          /\ UNCHANGED <<work, arcs, isolated, lost>>
        BY <1>2 DEF Start, Ready, Wanted
    <2>2. \A i \in Jobs \ {j} : job'[i] = job[i]
        BY <1>1, <1>2 DEF Start, ArcTypes
    <2> QED
        BY <2>1, <2>2, GapQuiet
  <1>3. ASSUME Tag(j) PROVE GapInv'
    <2>1. /\ job[j].at = "pending" /\ j[1] \in work
          /\ UNCHANGED <<work, arcs, isolated, lost>>
        BY <1>3 DEF Tag, Ready, Wanted
    <2>2. \A i \in Jobs \ {j} : job'[i] = job[i]
        BY <1>1, <1>3 DEF Tag, ArcTypes
    <2> QED
        BY <2>1, <2>2, GapQuiet
  <1>4. ASSUME Fail(j) \/ SwallowError(j) PROVE GapInv'
    <2>1. /\ Running(j) /\ Abandon({j}) /\ UNCHANGED <<work, arcs, isolated>>
        BY <1>4 DEF Fail, SwallowError, Running
    <2>2. \A i \in Jobs \ {j} : job'[i] = job[i]
        BY <1>1, <1>4 DEF Fail, SwallowError, ArcTypes
    <2>3. j[1] \in work
        BY <2>1 DEF GapInv, OnlyWork
    <2> QED
        BY <2>1, <2>2, <2>3, GapAbandon
  <1>5. ASSUME NEW part \in 1..2, Retry(j, part) PROVE GapInv'
    <2>1. job[j].at = "failed" /\ UNCHANGED <<work, arcs, isolated, lost>>
        BY <1>5 DEF Retry
    <2>2. job' = [job EXCEPT ![j] = [Idle EXCEPT !.part = part]]
        BY <1>5 DEF Retry
    <2>3. (\A i \in Jobs \ {j} : job'[i] = job[i]) /\ job'[j].at = "pending"
        BY <1>1, <2>2 DEF Idle, ArcTypes
    <2>4. ~Running(j)'
        BY <2>3 DEF Running
    <2> QED
        BY <2>1, <2>3, <2>4, GapQuiet
  <1>6. ASSUME SkipRelationships(j) PROVE GapInv'
    <2>1. job[j].at = "ask" /\ UNCHANGED <<work, arcs, isolated, lost>> /\ j[1] \in work
        BY <1>6 DEF SkipRelationships, GapInv, OnlyWork, Running
    <2>2. \A i \in Jobs \ {j} : job'[i] = job[i]
        BY <1>1, <1>6 DEF SkipRelationships, ArcTypes
    <2> QED
        BY <2>1, <2>2, GapQuiet
  <1> QED
      BY <1>2, <1>3, <1>4, <1>5, <1>6 DEF TagCharacters, TagPlaces

\* Nothing runs when another selection is made.
LEMMA GapAll ==
  ASSUME ArcInv, GapInv, Crash \/ (\E S \in Selections : Reselect(S)) \/ UNCHANGED vars
  PROVE  GapInv'
  <1>1. ArcTypes
      BY DEF ArcInv
  <1>2. ASSUME Crash PROVE GapInv'
    <2>1. \A i \in Jobs : job'[i].at \in {"pending", "completed"}
        BY <1>2 DEF Crash, Idle
    <2>2. \A i \in Jobs : ~Running(i)'
        BY <2>1 DEF Running
    <2> QED
        BY <1>2, <2>2, GapAbandon DEF Crash
  <1>3. ASSUME NEW S \in Selections, Reselect(S) PROVE GapInv'
    <2>1. UNCHANGED <<work, arcs, isolated, lost>>
          /\ \A i \in Jobs : job'[i] = IF i[2] = Book THEN Idle ELSE job[i]
        BY <1>3 DEF Reselect
    <2>2. \A i \in Jobs : i[2] = Book => job[i].at # "isolate"
      <3> SUFFICES ASSUME NEW i \in Jobs, i[2] = Book, job[i].at = "isolate" PROVE FALSE
          OBVIOUS
      <3>1. i[1] \in work
          BY DEF GapInv, OnlyWork, Running
      <3>2. Wanted(i)
          BY <3>1 DEF Wanted
      <3> QED
          BY <1>3, <3>2 DEF Reselect
    <2>3. \A t \in Types, i \in Jobs : \A g \in job[i].queue :
            Holds(i, t, g) => Holds(i, t, g)' \/ g \in isolated'[t] \/ g \in lost'[t]
      <3> SUFFICES ASSUME NEW t \in Types, NEW i \in Jobs, NEW g \in job[i].queue, Holds(i, t, g)
                   PROVE  Holds(i, t, g)'
          OBVIOUS
      <3>1. job'[i] = job[i]
          BY <2>1, <2>2 DEF Holds
      <3> QED
          BY <3>1, SameHolds
    <2>4. \A i \in Jobs : Running(i)' => i[1] \in work
      <3> SUFFICES ASSUME NEW i \in Jobs, Running(i)' PROVE i[1] \in work
          OBVIOUS
      <3>1. job'[i] = job[i]
          BY <2>1 DEF Running, Idle
      <3> QED
          BY <3>1, SameHolds DEF GapInv, OnlyWork
    <2>5. GapTypes'
        BY <2>1 DEF GapInv, GapTypes
    <2> QED
        BY <2>1, <2>3, <2>4, <2>5, GapStep
  <1>4. ASSUME UNCHANGED vars PROVE GapInv'
    <2>1. UNCHANGED <<work, arcs, isolated, lost, job>>
        BY <1>4 DEF vars
    <2>2. GapTypes' /\ \A t \in Types, i \in Jobs : \A g \in job[i].queue :
            Holds(i, t, g) => Holds(i, t, g)'
        BY <2>1, SameHolds DEF GapInv, GapTypes
    <2>3. \A i \in Jobs : Running(i)' => i[1] \in work
        BY <2>1, SameHolds DEF GapInv, OnlyWork
    <2> QED
        BY <2>1, <2>2, <2>3, GapStep
  <1> QED
      BY <1>2, <1>3, <1>4

\* Every arc is isolated, held by a handler that runs, or lost with one, and
\* only steps that have something to do have handlers that run.
THEOREM GapInductive == Spec => [](ArcInv /\ GapInv)
  <1>1. ArcInv /\ GapInv /\ [Next]_vars => GapInv'
      BY GapInsert, GapAppellation, GapAppearance, GapIsolate, GapOther, GapAll DEF Next
  <1> QED
      BY <1>1, GapStart, ArcInductive, PTL DEF Spec

\* For any entities, links and selections, any number of failures, crashes and
\* handlers side by side: arcs lack their isolated form, once nothing runs, only
\* where a handler ended between writing and isolating them.
THEOREM GapsAreAccounted == Spec => []GapsHaveACause
  <1>1. GapInv => GapsHaveACause
      BY DEF GapInv, Accounted, Holds, GapsHaveACause, Running
  <1> QED
      BY <1>1, GapInductive, PTL

-----------------------------------------------------------------------------
(* Everyone who is chosen *)

CharacterJob(c) == <<"character_arc", c>>

\* Each of the two handlers of a character passes those it knows nothing of.
Narrated(c) == c \in Described => {c} \in arcs["CHARACTER"]
Shown(c) == c \in Visible => {c} \in arcs["APPEARANCE"]

\* How far a character is, by where its handler is.
Covers(c) ==
  LET j == CharacterJob(c)
  IN /\ job[j].part = 2 \/ job[j].at \in {"isolate", "completed"} => Narrated(c)
     /\ (job[j].part = 2 /\ job[j].at = "isolate") \/ job[j].at = "completed" => Shown(c)

CoverInv == \A c \in Characters : Covers(c)

ArcsGrow == \A t \in Types : arcs[t] \subseteq arcs'[t]

LEMMA CharacterJobs ==
  ASSUME NEW c \in Characters
  PROVE  /\ CharacterJob(c) \in Jobs /\ CharacterJob(c)[1] = "character_arc"
         /\ CharacterJob(c)[2] = c /\ Parts(CharacterJob(c)) = 2 /\ ~TagStep(CharacterJob(c))
         /\ Own(CharacterJob(c)) = {{c}}
  <1>1. CharacterJob(c) \in Jobs
      BY DEF CharacterJob, Jobs, ItemsOf, ARC_STEPS
  <1>2. Own(CharacterJob(c)) = Singles({c})
      BY DEF CharacterJob, Own, Related
  <1> QED
      BY <1>1, <1>2 DEF CharacterJob, Parts, TagStep, Singles

LEMMA CoverStart == Init => CoverInv
  <1> SUFFICES ASSUME Init, NEW c \in Characters PROVE Covers(c)
      BY DEF CoverInv
  <1>1. job[CharacterJob(c)] = Idle
      BY CharacterJobs DEF Init
  <1> QED
      BY <1>1 DEF Idle, Covers

\* Arcs are never removed.
LEMMA Growing ==
  ASSUME ArcInv, [Next]_vars
  PROVE  ArcsGrow
  <1>1. ASSUME NEW t \in Types, NEW S, Insert(t, S) PROVE ArcsGrow
      BY <1>1 DEF Insert, ArcInv, ArcTypes, ArcsGrow
  <1>2. ASSUME UNCHANGED arcs PROVE ArcsGrow
      BY <1>2 DEF ArcsGrow
  <1>3. "APPELLATION" \in Types /\ "RELATED" \in Types /\ "APPEARANCE" \in Types
      BY DEF Types
  <1>4. ASSUME NEW j \in Jobs, NEW S,
               \/ InsertCharacterArcs(j, S) \/ InsertPlaceArcs(j, S)
               \/ InsertRelationshipArcs(j, S) \/ InsertAppellationArcs(j, S)
               \/ InsertRelated(j, S)
        PROVE  ArcsGrow
      BY <1>1, <1>3, <1>4, TypeIsType DEF InsertCharacterArcs, InsertPlaceArcs,
         InsertRelationshipArcs, InsertAppellationArcs, InsertRelated, InsertArcs
  <1>5. ASSUME NEW j \in Jobs, NEW g,
               \/ InsertCharacterAppearance(j, g) \/ InsertPlaceAppearance(j, g)
               \/ InsertOtherAppearance(j, g)
        PROVE  ArcsGrow
      BY <1>1, <1>3, <1>5 DEF InsertCharacterAppearance, InsertPlaceAppearance,
         InsertOtherAppearance, InsertAppearance
  <1>6. ASSUME NEW j \in Jobs,
               \/ Start(j) \/ (\E g \in job[j].queue : Isolate(j, g))
               \/ SkipRelationships(j) \/ TagCharacters(j) \/ TagPlaces(j) \/ Fail(j)
               \/ SwallowError(j) \/ \E part \in 1..2 : Retry(j, part)
        PROVE  ArcsGrow
      BY <1>2, <1>6 DEF Start, Isolate, SkipRelationships, TagCharacters, TagPlaces, Tag, Fail,
         SwallowError, Retry
  <1>7. ASSUME Crash \/ (\E S \in Selections : Reselect(S)) \/ UNCHANGED vars PROVE ArcsGrow
      BY <1>2, <1>7 DEF Crash, Reselect, vars
  <1> QED
      BY <1>4, <1>5, <1>6, <1>7 DEF Next

\* A handler left alone covers what it did.
LEMMA CoversKept ==
  ASSUME NEW c \in Characters, Covers(c), ArcsGrow, job'[CharacterJob(c)] = job[CharacterJob(c)]
  PROVE  Covers(c)'
  BY DEF Covers, Narrated, Shown, ArcsGrow, Types

\* The next part comes when the one before has its arcs.
LEMMA AdvanceCovers ==
  ASSUME ArcInv, NEW c \in Characters, Covers(c), ArcsGrow,
         job'[CharacterJob(c)] = Advance(CharacterJob(c)),
         job[CharacterJob(c)].part = 1 => Narrated(c)',
         job[CharacterJob(c)].part = 2 => Shown(c)'
  PROVE  Covers(c)'
  <1> DEFINE j == CharacterJob(c)
  <1>1. j \in Jobs /\ Parts(j) = 2 /\ job[j].part \in {1, 2}
      BY CharacterJobs DEF ArcInv, ArcTypes
  <1>2. CASE job[j].part = 1
    <2>1. job'[j].part = 2 /\ job'[j].at = "pending"
        BY <1>1, <1>2 DEF Advance
    <2> QED
        BY <1>2, <2>1 DEF Covers
  <1>3. CASE job[j].part = 2
    <2>1. job'[j].part = 1 /\ job'[j].at = "completed"
        BY <1>1, <1>3 DEF Advance, Idle
    <2>2. Narrated(c)'
        BY <1>3 DEF Covers, Narrated, ArcsGrow, Types
    <2> QED
        BY <1>3, <2>1, <2>2 DEF Covers
  <1> QED
      BY <1>1, <1>2, <1>3

\* An action of a handler, with what it is about.
Acts(j) ==
  \/ Start(j)
  \/ \E S \in SUBSET job[j].todo :
       \/ InsertCharacterArcs(j, S) \/ InsertPlaceArcs(j, S)
       \/ InsertRelationshipArcs(j, S) \/ InsertAppellationArcs(j, S)
       \/ InsertRelated(j, S)
  \/ \E g \in job[j].todo :
       \/ InsertCharacterAppearance(j, g) \/ InsertPlaceAppearance(j, g)
       \/ InsertOtherAppearance(j, g)
  \/ \E g \in job[j].queue : Isolate(j, g)
  \/ SkipRelationships(j) \/ TagCharacters(j) \/ TagPlaces(j) \/ Fail(j)
  \/ SwallowError(j) \/ \E part \in 1..2 : Retry(j, part)

LEMMA OthersStay ==
  ASSUME ArcTypes, NEW j \in Jobs, Acts(j), NEW i \in Jobs \ {j}
  PROVE  job'[i] = job[i]
  BY DEF Acts, Start, InsertCharacterArcs, InsertPlaceArcs, InsertRelationshipArcs, InsertArcs,
     InsertAppellationArcs, InsertRelated, InsertCharacterAppearance, InsertPlaceAppearance,
     InsertOtherAppearance, InsertAppearance, Isolate, SkipRelationships, TagCharacters,
     TagPlaces, Tag, Fail, SwallowError, Retry, ArcTypes

LEMMA CharacterCovers ==
  ASSUME ArcInv, NEW c \in Characters, Covers(c), ArcsGrow,
         Acts(CharacterJob(c))
  PROVE  Covers(c)'
  <1> DEFINE j == CharacterJob(c)
  <1>1. /\ j \in Jobs /\ j[1] = "character_arc" /\ j[2] = c /\ ~TagStep(j)
        /\ job[j].todo \subseteq {{c}} /\ job[j] \in JobStates
        /\ arcs \in [Types -> SUBSET AllGroups] /\ ArcTypes
      BY CharacterJobs DEF ArcInv, ArcTypes, TodoIsOwn, JobStates
  <1>2. /\ job[j].part = 1 => TypeOf(j) = "CHARACTER"
        /\ job[j].part = 2 => TypeOf(j) = "APPEARANCE"
        /\ job[j].part \in {1, 2}
      BY <1>1 DEF TypeOf, JobStates
  <1>3. CASE Start(j)
    <2>1. /\ job[j].part = 1 /\ Todo(j) = {} => Narrated(c)
          /\ job[j].part = 2 /\ Todo(j) = {} => Shown(c)
      <3>1. \A S : c \in S => {c} \in Singles({c} \cap S)
          BY DEF Singles
      <3>2. job[j].part = 1 => Todo(j) = CharacterTodo(c)
          BY <1>1 DEF Todo
      <3>3. job[j].part = 2 => Todo(j) = CharacterAppearanceTodo(c)
          BY <1>1 DEF Todo
      <3> QED
          BY <3>1, <3>2, <3>3 DEF CharacterTodo, CharacterAppearanceTodo, AppearanceTodo,
             Narrated, Shown
    <2>2. /\ job' = [job EXCEPT ![j] = IF Todo(j) = {} THEN Advance(j)
                                       ELSE [@ EXCEPT !.at = "ask", !.todo = Todo(j)]]
          /\ arcs' = arcs
        BY <1>3 DEF Start
    <2>3. CASE Todo(j) = {}
      <3>1. job'[j] = Advance(j)
          BY <1>1, <2>2, <2>3 DEF ArcTypes
      <3> QED
          BY <2>1, <2>2, <2>3, <3>1, AdvanceCovers DEF Narrated, Shown
    <2>4. CASE Todo(j) # {}
      <3>1. job'[j].at = "ask" /\ job'[j].part = job[j].part
          BY <1>1, <2>2, <2>4 DEF ArcTypes, JobStates
      <3> QED
          BY <2>2, <3>1 DEF Covers, Narrated
    <2> QED
        BY <2>3, <2>4
  <1>4. ASSUME NEW S \in SUBSET job[j].todo, InsertCharacterArcs(j, S) PROVE Covers(c)'
    <2> DEFINE stored == [job EXCEPT ![j].at = "isolate", ![j].queue = S, ![j].todo = {}]
    <2>1. /\ S = {{c}} /\ TypeOf(j) = "CHARACTER" /\ Insert("CHARACTER", S)
          /\ job' = stored
      <3>1. TypeOf(j) = "CHARACTER" /\ InsertArcs(j, S)
          BY <1>4 DEF InsertCharacterArcs
      <3>2. S # {} /\ Insert(TypeOf(j), S) /\ job' = stored
          BY <3>1 DEF InsertArcs
      <3>3. S = {{c}}
        <4>1. S # {} /\ S \subseteq {{c}}
            BY <1>1, <3>2
        <4> HIDE DEF stored
        <4> QED
            BY <4>1, Zenon
      <3> QED
          BY <3>1, <3>2, <3>3
    <2>2. job'[j].at = "isolate" /\ job'[j].part = job[j].part /\ job[j].part = 1
        BY <1>1, <1>2, <2>1 DEF ArcTypes, JobStates
    <2>3. {c} \in arcs'["CHARACTER"]
        BY <1>1, <2>1 DEF Insert, Types
    <2> QED
        BY <2>2, <2>3 DEF Covers, Narrated
  <1>5. ASSUME NEW g \in job[j].todo, InsertCharacterAppearance(j, g) PROVE Covers(c)'
    <2>1. /\ g = {c} /\ TypeOf(j) = "APPEARANCE" /\ Insert("APPEARANCE", {g})
          /\ job' = [job EXCEPT ![j].at = "isolate", ![j].queue = {g}, ![j].todo = @ \ {g}]
        BY <1>1, <1>5 DEF InsertCharacterAppearance, InsertAppearance
    <2>2. job'[j].at = "isolate" /\ job'[j].part = job[j].part /\ job[j].part = 2
        BY <1>1, <1>2, <2>1 DEF ArcTypes, JobStates
    <2>3. Shown(c)' /\ Narrated(c)'
        BY <1>1, <2>1, <2>2 DEF Insert, Types, Covers, Narrated, Shown, ArcsGrow
    <2> QED
        BY <2>3 DEF Covers
  <1>6. ASSUME NEW g \in job[j].queue, Isolate(j, g) PROVE Covers(c)'
    <2>1. job[j].at = "isolate" /\ arcs' = arcs /\ TypeOf(j) # "RELATED"
        BY <1>1, <1>2, <1>6 DEF Isolate
    <2>2. \/ job'[j] = Advance(j)
          \/ job'[j].part = job[j].part /\ job'[j].at \in {"isolate", "ask"}
        BY <1>1, <1>6, <2>1 DEF Isolate, ArcTypes, JobStates
    <2>3. CASE job'[j] = Advance(j)
        BY <2>1, <2>3, AdvanceCovers DEF Covers, Narrated, Shown
    <2>4. CASE job'[j].part = job[j].part /\ job'[j].at \in {"isolate", "ask"}
        BY <2>1, <2>4 DEF Covers, Narrated, Shown
    <2> QED
        BY <2>2, <2>3, <2>4
  <1>7. CASE Fail(j)
    <2>1. job'[j].part = job[j].part /\ job'[j].at = "failed" /\ arcs' = arcs
        BY <1>1, <1>7 DEF Fail, Idle, ArcTypes
    <2> QED
        BY <2>1 DEF Covers, Narrated
  <1>8. ASSUME NEW part \in 1..2, Retry(j, part) PROVE Covers(c)'
    <2>1. /\ job'[j].part = part /\ job'[j].at = "pending" /\ arcs' = arcs
          /\ part = 1 \/ part = job[j].part
        BY <1>1, <1>8 DEF Retry, Idle, ArcTypes
    <2> QED
        BY <2>1 DEF Covers, Narrated
  <1>9. /\ \A S : ~InsertPlaceArcs(j, S) /\ ~InsertRelationshipArcs(j, S)
                   /\ ~InsertAppellationArcs(j, S) /\ ~InsertRelated(j, S)
        /\ \A g : ~InsertPlaceAppearance(j, g) /\ ~InsertOtherAppearance(j, g)
        /\ ~SkipRelationships(j) /\ ~TagCharacters(j) /\ ~TagPlaces(j) /\ ~SwallowError(j)
      BY <1>1, <1>2 DEF InsertPlaceArcs, InsertRelationshipArcs, InsertAppellationArcs,
         InsertRelated, InsertPlaceAppearance, InsertOtherAppearance, SkipRelationships,
         TagCharacters, TagPlaces, SwallowError
  <1> QED
      BY <1>3, <1>4, <1>5, <1>6, <1>7, <1>8, <1>9 DEF Acts

\* What a character's own step has passed, it has covered, whatever the handlers
\* of other items and other steps do meanwhile.
THEOREM CoverInductive == Spec => [](ArcInv /\ CoverInv)
  <1>1. ASSUME ArcInv, CoverInv, [Next]_vars PROVE CoverInv'
    <2> SUFFICES ASSUME NEW c \in Characters PROVE Covers(c)'
        BY DEF CoverInv
    <2>1. Covers(c) /\ ArcsGrow /\ CharacterJob(c) \in Jobs /\ ArcTypes
        BY <1>1, Growing, CharacterJobs DEF CoverInv, ArcInv
    <2>2. ASSUME NEW j \in Jobs, Acts(j) PROVE Covers(c)'
      <3>1. CASE j = CharacterJob(c)
          BY <1>1, <2>1, <2>2, <3>1, CharacterCovers
      <3>2. CASE j # CharacterJob(c)
          BY <2>1, <2>2, <3>2, OthersStay, CoversKept
      <3> QED
          BY <3>1, <3>2
    <2>3. ASSUME Crash \/ (\E S \in Selections : Reselect(S)) \/ UNCHANGED vars PROVE Covers(c)'
      <3>1. job'[CharacterJob(c)] \in {job[CharacterJob(c)], Idle}
          BY <2>1, <2>3 DEF Crash, Reselect, vars
      <3>2. CASE job'[CharacterJob(c)] = Idle
          BY <3>2 DEF Idle, Covers
      <3> QED
          BY <2>1, <3>1, <3>2, CoversKept
    <2>4. (\E j \in Jobs : Acts(j)) \/ Crash \/ (\E S \in Selections : Reselect(S))
          \/ UNCHANGED vars
        BY <1>1 DEF Next, Acts
    <2> QED
        BY <2>2, <2>3, <2>4
  <1> QED
      BY <1>1, CoverStart, ArcInductive, PTL DEF Spec

\* For any book, selections and interruptions: when the phase is done, everyone
\* selected who is described has arcs, and an appearance if there is something
\* to see.
THEOREM ChosenAlwaysCovered == Spec => []ChosenAreCovered
  <1>1. ASSUME CoverInv, AllDone, "character_arc" \in work,
               NEW c \in chosen \cap Characters
        PROVE  /\ c \in Described => {c} \in arcs["CHARACTER"]
               /\ c \in Visible => {c} \in arcs["APPEARANCE"]
    <2>1. CharacterJob(c) \in Jobs /\ Wanted(CharacterJob(c))
        BY <1>1, CharacterJobs DEF Wanted
    <2> QED
        BY <1>1, <2>1 DEF CoverInv, Covers, Narrated, Shown, AllDone
  <1>2. CoverInv => ChosenAreCovered
      BY <1>1 DEF ChosenAreCovered
  <1> QED
      BY <1>2, CoverInductive, PTL

-----------------------------------------------------------------------------
(* The shape of the state: arcs are of groups that their type is about, and  *)
(* what is isolated or lost was written.                                     *)

\* What a handler has yet to ask about is of its type, what it has yet to
\* isolate has arcs.
Fits(j) == job[j].todo \subseteq Groups(TypeOf(j)) /\ job[j].queue \subseteq arcs[TypeOf(j)]

ArcsFit ==
  \A t \in Types : arcs[t] \subseteq Groups(t) /\ isolated[t] \cup lost[t] \subseteq arcs[t]

Bounded ==
  /\ work \in Workloads /\ chosen \subseteq Characters \cup Anchors /\ ranked \subseteq Characters
  /\ used \in [{"failures", "crashes", "reselects"} -> Nat]

FitInv == Bounded /\ ArcsFit /\ \A j \in Jobs : Fits(j)

LEMMA FitStart == Init => FitInv
  <1> SUFFICES ASSUME Init PROVE FitInv
      OBVIOUS
  <1>1. Bounded
      BY ArcAssumption DEF Init, Bounded
  <1>2. ArcsFit
      BY DEF Init, ArcsFit
  <1>3. \A j \in Jobs : Fits(j)
      BY DEF Init, Idle, Fits
  <1> QED
      BY <1>1, <1>2, <1>3 DEF FitInv

\* What a handler finds to do is of its type.
LEMMA TodoFits ==
  ASSUME NEW j \in Jobs, ~TagStep(j), job[j].part \in 1..2
  PROVE  Todo(j) \subseteq Groups(TypeOf(j))
  <1>0. /\ j[1] \in ARC_STEPS /\ j[1] \notin {"character_identity_tags", "place_identity_tags"}
        /\ Characters \subseteq Entities /\ Others \subseteq Entities /\ Places \subseteq Entities
      BY JobShape DEF TagStep, Entities
  <1>1. \A t \in Types \ {"APPELLATION"} : Groups(t) = SUBSET Entities
      BY DEF Groups
  <1>2. \A S \in SUBSET Entities : Singles(S) \subseteq SUBSET Entities
      BY DEF Singles
  <1>3. TypeOf(j) \in Types
      BY TypeIsType
  <1>4. CASE j[1] = "extract_related_relationship_arc"
    <2>1. \A g \in Linked["RELATED"] : g \subseteq Entities
        BY ArcAssumption
    <2>2. Todo(j) = RelatedTodo /\ TypeOf(j) = "RELATED"
        BY <1>4 DEF Todo, TypeOf
    <2> QED
        BY <1>1, <1>3, <2>1, <2>2 DEF RelatedTodo
  <1>5. CASE j[1] = "extract_relationship_arc"
    <2>1. \A g \in Linked["RELATIONSHIP"] : g \subseteq Entities
        BY <1>0, ArcAssumption
    <2>2. Todo(j) = RelationshipTodo /\ TypeOf(j) = "RELATIONSHIP"
        BY <1>5 DEF Todo, TypeOf
    <2> QED
        BY <1>1, <1>3, <2>1, <2>2 DEF RelationshipTodo
  <1>6. CASE j[1] = "extract_appellation_arc"
    <2>1. Todo(j) = AppellationTodo /\ TypeOf(j) = "APPELLATION"
        BY <1>6 DEF Todo, TypeOf
    <2> QED
        BY <2>1, ArcAssumption DEF AppellationTodo, Groups
  <1>7. CASE j[1] \notin {"extract_related_relationship_arc", "extract_relationship_arc",
                          "extract_appellation_arc"}
    <2>1. TypeOf(j) # "APPELLATION"
        BY <1>7 DEF TypeOf
    <2>2. /\ j[1] = "character_arc" => j[2] \in Entities
          /\ j[1] = "place_arc" => Below[j[2]] \subseteq Entities
        BY <1>0, JobShape
    <2>3. j[1] \in {"character_arc", "place_arc", "extract_entity_appearances_batch"}
        BY <1>0, <1>7 DEF ARC_STEPS
    <2>4. CASE j[1] = "extract_entity_appearances_batch"
      <3>1. Todo(j) \subseteq Singles(Others)
          BY <2>4 DEF Todo, OtherAppearanceTodo, AppearanceTodo, Singles
      <3> QED
          BY <1>0, <1>1, <1>2, <1>3, <2>1, <3>1
    <2>5. CASE j[1] = "character_arc"
      <3>1. Todo(j) \subseteq Singles({j[2]})
          BY <2>5 DEF Todo, CharacterTodo, CharacterAppearanceTodo, AppearanceTodo, Singles
      <3> QED
          BY <1>1, <1>2, <1>3, <2>1, <2>2, <2>5, <3>1
    <2>6. CASE j[1] = "place_arc"
      <3>1. Todo(j) \subseteq Singles(Below[j[2]])
          BY <2>6 DEF Todo, PlaceTodo, PlaceAppearanceTodo, AppearanceTodo, Singles
      <3> QED
          BY <1>1, <1>2, <1>3, <2>1, <2>2, <2>6, <3>1
    <2> QED
        BY <2>3, <2>4, <2>5, <2>6
  <1> QED
      BY <1>4, <1>5, <1>6, <1>7

\* Arcs of groups of a type are written: they stay of their type, and what was
\* isolated or lost has arcs as before.
LEMMA InsertFits ==
  ASSUME ArcTypes, ArcsFit, NEW t \in Types, NEW S \in SUBSET Groups(t), Insert(t, S),
         UNCHANGED lost,
         \A u \in Types : isolated'[u] \subseteq isolated[u] \cup arcs'[u]
  PROVE  ArcsFit'
  <1>1. \A u \in Types : arcs'[u] = IF u = t THEN arcs[u] \cup S ELSE arcs[u]
      BY DEF Insert, ArcTypes
  <1> QED
      BY <1>1 DEF ArcsFit, Groups

\* A handler that keeps its part keeps its type.
LEMMA SamePart ==
  ASSUME NEW j \in Jobs, job'[j].part = job[j].part \/ j[1] = Related
  PROVE  TypeOf(j)' = TypeOf(j)
  BY DEF TypeOf, Related

LEMMA EmptyFits ==
  ASSUME NEW j \in Jobs, job'[j].todo = {}, job'[j].queue = {}
  PROVE  Fits(j)'
  BY DEF Fits

LEMMA KeepsFit ==
  ASSUME NEW j \in Jobs, Fits(j), ArcsGrow, TypeOf(j)' = TypeOf(j),
         job'[j].todo \subseteq job[j].todo,
         job'[j].queue \subseteq job[j].queue \cup arcs'[TypeOf(j)]
  PROVE  Fits(j)'
  BY TypeIsType DEF Fits, ArcsGrow, Groups

LEMMA AfterBatchFits ==
  ASSUME ArcTypes, NEW j \in Jobs, Fits(j), ArcsGrow, j[1] = Related,
         job' = [job EXCEPT ![j] = AfterBatch(j, job[j].todo)]
  PROVE  Fits(j)'
  <1>1. job'[j].todo = job[j].todo /\ job'[j].queue = {}
      BY DEF ArcTypes, AfterBatch, Advance, Idle
  <1>2. TypeOf(j)' = TypeOf(j)
      BY SamePart
  <1> QED
      BY <1>1, <1>2, KeepsFit

LEMMA AdvanceFits ==
  ASSUME ArcTypes, NEW j \in Jobs, job' = [job EXCEPT ![j] = Advance(j)]
  PROVE  Fits(j)'
  <1>1. job'[j].todo = {} /\ job'[j].queue = {}
      BY DEF ArcTypes, Advance, Idle
  <1> QED
      BY <1>1, EmptyFits

\* What is lost is what the handlers had to isolate.
LEMMA AbandonFits ==
  ASSUME ArcsFit, \A j \in Jobs : Fits(j), NEW J \in SUBSET Jobs, Abandon(J),
         UNCHANGED <<arcs, isolated>>
  PROVE  ArcsFit'
  <1>1. ASSUME NEW t \in Types
        PROVE  UNION {job[j].queue : j \in {i \in J : Running(i) /\ TypeOf(i) = t}} \subseteq arcs[t]
      BY DEF Fits
  <1>2. \A t \in Types : lost'[t] = lost[t] \cup
          UNION {job[j].queue : j \in {i \in J : Running(i) /\ TypeOf(i) = t}}
      BY DEF Abandon
  <1> QED
      BY <1>1, <1>2 DEF ArcsFit

LEMMA ActsFit ==
  ASSUME ArcInv, GapTypes, ArcsFit, \A i \in Jobs : Fits(i), ArcsGrow, NEW j \in Jobs, Acts(j)
  PROVE  Fits(j)' /\ ArcsFit'
  <1>0. /\ ArcTypes /\ Fits(j) /\ TypeOf(j) \in Types
        /\ {"APPELLATION", "RELATED", "APPEARANCE"} \subseteq Types
      BY TypeIsType DEF ArcInv, Types
  <1>1. CASE Start(j)
    <2>1. UNCHANGED <<arcs, isolated, lost>> /\ ~TagStep(j)
          /\ job' = [job EXCEPT ![j] = IF Todo(j) = {} THEN Advance(j)
                                       ELSE [@ EXCEPT !.at = "ask", !.todo = Todo(j)]]
        BY <1>1 DEF Start
    <2>2. ArcsFit'
        BY <2>1 DEF ArcsFit
    <2>3. CASE Todo(j) = {}
        BY <1>0, <2>1, <2>2, <2>3, AdvanceFits
    <2>4. CASE Todo(j) # {}
      <3>1. job'[j].todo = Todo(j) /\ job'[j].queue = job[j].queue /\ job'[j].part = job[j].part
          BY <1>0, <2>1, <2>4 DEF ArcTypes
      <3>2. Todo(j) \subseteq Groups(TypeOf(j))
          BY <1>0, <2>1, TodoFits DEF ArcTypes
      <3> QED
          BY <1>0, <2>1, <2>2, <3>1, <3>2, SamePart DEF Fits, Groups
    <2> QED
        BY <2>3, <2>4
  <1>2. ASSUME NEW S \in SUBSET job[j].todo, InsertArcs(j, S)
        PROVE  Fits(j)' /\ ArcsFit'
    <2>1. /\ job' = [job EXCEPT ![j].at = "isolate", ![j].queue = S, ![j].todo = {}]
          /\ Insert(TypeOf(j), S) /\ UNCHANGED <<isolated, lost>>
        BY <1>2 DEF InsertArcs
    <2>2. S \in SUBSET Groups(TypeOf(j)) /\ S \subseteq arcs'[TypeOf(j)]
        BY <1>0, <2>1 DEF Fits, Insert, ArcTypes
    <2>3. job'[j].todo = {} /\ job'[j].queue = S /\ job'[j].part = job[j].part
        BY <1>0, <2>1 DEF ArcTypes
    <2>4. Fits(j)'
        BY <1>0, <2>2, <2>3, SamePart, KeepsFit
    <2> QED
        BY <1>0, <2>1, <2>2, <2>4, InsertFits
  <1>3. ASSUME NEW S \in SUBSET job[j].todo, InsertAppellationArcs(j, S)
        PROVE  Fits(j)' /\ ArcsFit'
    <2>1. /\ TypeOf(j) = "APPELLATION" /\ Insert("APPELLATION", S)
          /\ isolated' = [isolated EXCEPT !["APPELLATION"] = @ \cup S] /\ UNCHANGED lost
          /\ job' = [job EXCEPT ![j] = Advance(j)]
        BY <1>3 DEF InsertAppellationArcs
    <2>2. S \in SUBSET Groups("APPELLATION") /\ S \subseteq arcs'["APPELLATION"]
        BY <1>0, <2>1 DEF Fits, Insert, ArcTypes
    <2>3. \A u \in Types : isolated'[u] \subseteq isolated[u] \cup arcs'[u]
        BY <1>0, <2>1, <2>2 DEF GapTypes
    <2> QED
        BY <1>0, <2>1, <2>2, <2>3, InsertFits, AdvanceFits
  <1>4. ASSUME NEW S \in SUBSET job[j].todo, InsertRelated(j, S)
        PROVE  Fits(j)' /\ ArcsFit'
    <2>1. /\ j[1] = Related /\ Insert("RELATED", S) /\ UNCHANGED <<isolated, lost>>
          /\ job'[j].todo \subseteq job[j].todo /\ job'[j].queue \subseteq S
        BY <1>0, <1>4, RelatedStep
    <2>2. TypeOf(j) = "RELATED"
        BY <2>1 DEF TypeOf, Related
    <2>3. S \in SUBSET Groups("RELATED") /\ S \subseteq arcs'["RELATED"]
        BY <1>0, <2>1, <2>2 DEF Fits, Insert, ArcTypes
    <2>4. ArcsFit'
        BY <1>0, <2>1, <2>3, InsertFits
    <2>5. Fits(j)'
        BY <1>0, <2>1, <2>2, <2>3, SamePart, KeepsFit
    <2> QED
        BY <2>4, <2>5
  <1>5. ASSUME NEW g \in job[j].todo, InsertAppearance(j, g)
        PROVE  Fits(j)' /\ ArcsFit'
    <2>1. /\ TypeOf(j) = "APPEARANCE" /\ Insert("APPEARANCE", {g}) /\ UNCHANGED <<isolated, lost>>
          /\ job' = [job EXCEPT ![j].at = "isolate", ![j].queue = {g}, ![j].todo = @ \ {g}]
        BY <1>5 DEF InsertAppearance
    <2>2. {g} \in SUBSET Groups("APPEARANCE") /\ {g} \subseteq arcs'["APPEARANCE"]
        BY <1>0, <2>1 DEF Fits, Insert, ArcTypes
    <2>3. /\ job'[j].todo \subseteq job[j].todo /\ job'[j].queue = {g}
          /\ job'[j].part = job[j].part
        BY <1>0, <2>1 DEF ArcTypes
    <2>4. Fits(j)'
        BY <1>0, <2>1, <2>2, <2>3, SamePart, KeepsFit
    <2> QED
        BY <1>0, <2>1, <2>2, <2>4, InsertFits
  <1>6. ASSUME NEW g \in job[j].queue, Isolate(j, g)
        PROVE  Fits(j)' /\ ArcsFit'
    <2>1. /\ isolated' = [isolated EXCEPT ![TypeOf(j)] = @ \cup {g}] /\ UNCHANGED <<arcs, lost>>
          /\ \/ job' = [job EXCEPT ![j].queue = @ \ {g}]
             \/ job' = [job EXCEPT ![j] = Advance(j)]
             \/ /\ TypeOf(j) = "RELATED"
                /\ job' = [job EXCEPT ![j] = AfterBatch(j, job[j].todo)]
             \/ job' = [job EXCEPT ![j].at = "ask", ![j].queue = {}]
        BY <1>6 DEF Isolate
    <2>2. ArcsFit'
      <3>1. \A u \in Types : isolated'[u] \subseteq isolated[u] \cup arcs[u]
          BY <1>0, <2>1 DEF Fits, GapTypes
      <3> QED
          BY <2>1, <3>1 DEF ArcsFit
    <2>3. CASE \/ job' = [job EXCEPT ![j].queue = @ \ {g}]
               \/ job' = [job EXCEPT ![j].at = "ask", ![j].queue = {}]
      <3>1. /\ job'[j].todo = job[j].todo /\ job'[j].queue \subseteq job[j].queue
            /\ job'[j].part = job[j].part
          BY <1>0, <2>3 DEF ArcTypes
      <3> QED
          BY <1>0, <2>2, <3>1, SamePart, KeepsFit
    <2>4. CASE job' = [job EXCEPT ![j] = Advance(j)]
        BY <1>0, <2>2, <2>4, AdvanceFits
    <2>5. CASE /\ TypeOf(j) = "RELATED"
               /\ job' = [job EXCEPT ![j] = AfterBatch(j, job[j].todo)]
      <3>1. j[1] = Related
          BY <2>5, JobShape DEF TypeOf, Related
      <3> QED
          BY <1>0, <2>2, <2>5, <3>1, AfterBatchFits
    <2> QED
        BY <2>1, <2>3, <2>4, <2>5
  <1>7. CASE Tag(j)
    <2>1. /\ job'[j].todo = job[j].todo /\ job'[j].queue = job[j].queue
          /\ job'[j].part = job[j].part /\ UNCHANGED <<arcs, isolated, lost>>
        BY <1>0, <1>7 DEF Tag, ArcTypes
    <2>2. Fits(j)'
        BY <1>0, <2>1, SamePart, KeepsFit
    <2> QED
        BY <2>1, <2>2 DEF ArcsFit
  <1>8. CASE Fail(j)
    <2>1. /\ Abandon({j}) /\ UNCHANGED <<arcs, isolated>>
          /\ job'[j].todo = {} /\ job'[j].queue = {}
        BY <1>0, <1>8 DEF Fail, ArcTypes, Idle
    <2> QED
        BY <2>1, AbandonFits, EmptyFits
  <1>9. CASE SwallowError(j)
    <2>1. /\ Abandon({j}) /\ UNCHANGED <<arcs, isolated>> /\ j[1] = Related
          /\ job' = [job EXCEPT ![j] = AfterBatch(j, job[j].todo)]
        BY <1>9 DEF SwallowError, Related
    <2> QED
        BY <1>0, <2>1, AbandonFits, AfterBatchFits
  <1>10. ASSUME NEW part \in 1..2, Retry(j, part)
         PROVE  Fits(j)' /\ ArcsFit'
    <2>1. /\ job'[j].todo = {} /\ job'[j].queue = {} /\ UNCHANGED <<arcs, isolated, lost>>
        BY <1>0, <1>10 DEF Retry, ArcTypes, Idle
    <2> QED
        BY <2>1, EmptyFits DEF ArcsFit
  <1>11. CASE SkipRelationships(j)
    <2>1. /\ job' = [job EXCEPT ![j] = Advance(j)] /\ UNCHANGED <<arcs, isolated, lost>>
        BY <1>11 DEF SkipRelationships
    <2> QED
        BY <1>0, <2>1, AdvanceFits DEF ArcsFit
  <1> QED
      BY <1>1, <1>2, <1>3, <1>4, <1>5, <1>6, <1>7, <1>8, <1>9, <1>10, <1>11
      DEF Acts, InsertCharacterArcs, InsertPlaceArcs, InsertRelationshipArcs,
          InsertCharacterAppearance, InsertPlaceAppearance, InsertOtherAppearance,
          TagCharacters, TagPlaces

\* The bounds, the selection and the workload.
LEMMA BoundedKept ==
  ASSUME Bounded, [Next]_vars
  PROVE  Bounded'
  <1> USE DEF Bounded
  <1>1. ASSUME NEW b \in {"failures", "crashes", "reselects"}, Use(b)
        PROVE  used' \in [{"failures", "crashes", "reselects"} -> Nat]
      BY <1>1 DEF Use
  <1>2. ASSUME NEW j \in Jobs, Acts(j) PROVE Bounded'
    <2>1. UNCHANGED <<work, chosen, ranked>> /\ (Use("failures") \/ UNCHANGED used)
        BY <1>2 DEF Acts, Start, InsertCharacterArcs, InsertPlaceArcs, InsertRelationshipArcs,
           InsertArcs, InsertAppellationArcs, InsertRelated, InsertCharacterAppearance,
           InsertPlaceAppearance, InsertOtherAppearance, InsertAppearance, Isolate,
           SkipRelationships, TagCharacters, TagPlaces, Tag, Fail, SwallowError, Retry
    <2> QED
        BY <1>1, <2>1
  <1>3. ASSUME Crash PROVE Bounded'
      BY <1>1, <1>3 DEF Crash
  <1>4. ASSUME NEW S \in Selections, Reselect(S) PROVE Bounded'
    <2>1. chosen' = S /\ Use("reselects") /\ work' = work /\ ranked' \subseteq Characters
        BY <1>4 DEF Reselect
    <2> QED
        BY <1>1, <2>1, ArcAssumption
  <1>5. ASSUME UNCHANGED vars PROVE Bounded'
      BY <1>5 DEF vars
  <1> QED
      BY <1>2, <1>3, <1>4, <1>5 DEF Next, Acts

\* What is lost or isolated has arcs, and arcs are of groups their type is about.
THEOREM ArcTypeCorrect == Spec => []TypeOK
  <1>1. ASSUME ArcInv, GapInv, FitInv, [Next]_vars PROVE FitInv'
    <2>1. /\ ArcTypes /\ GapTypes /\ ArcsGrow /\ ArcsFit /\ \A i \in Jobs : Fits(i)
        BY <1>1, Growing DEF ArcInv, GapInv, FitInv
    <2>2. Bounded'
        BY <1>1, BoundedKept DEF FitInv
    <2>3. ASSUME NEW i \in Jobs, job'[i] = job[i] PROVE Fits(i)'
        BY <2>1, <2>3, SamePart, KeepsFit
    <2>4. ASSUME NEW i \in Jobs, job'[i] = Idle PROVE Fits(i)'
        BY <2>4, EmptyFits DEF Idle
    <2>5. ASSUME NEW j \in Jobs, Acts(j) PROVE FitInv'
      <3>1. Fits(j)' /\ ArcsFit'
          BY <1>1, <2>1, <2>5, ActsFit
      <3>2. \A i \in Jobs \ {j} : Fits(i)'
          BY <2>1, <2>3, <2>5, OthersStay
      <3> QED
          BY <2>2, <3>1, <3>2 DEF FitInv
    <2>6. ASSUME Crash \/ (\E S \in Selections : Reselect(S)) \/ UNCHANGED vars PROVE FitInv'
      <3>1. \A i \in Jobs : job'[i] = job[i] \/ job'[i] = Idle
          BY <2>6 DEF Crash, Reselect, vars
      <3>2. ArcsFit'
        <4>1. CASE Crash
            BY <2>1, <4>1, AbandonFits DEF Crash
        <4>2. CASE (\E S \in Selections : Reselect(S)) \/ UNCHANGED vars
            BY <2>1, <4>2 DEF Reselect, vars, ArcsFit
        <4> QED
            BY <2>6, <4>1, <4>2
      <3> QED
          BY <2>2, <2>3, <2>4, <3>1, <3>2 DEF FitInv
    <2> QED
        BY <1>1, <2>5, <2>6 DEF Next, Acts
  <1>2. ArcInv /\ FitInv => TypeOK
    <2> SUFFICES ASSUME ArcInv, FitInv PROVE TypeOK
        OBVIOUS
    <2>1. \A t \in Types : /\ arcs[t] \subseteq Groups(t)
                           /\ isolated[t] \cup doubled[t] \cup lost[t] \subseteq arcs[t]
        BY DEF ArcInv, NoArcTwice, FitInv, ArcsFit
    <2>2. \A j \in Jobs :
            /\ job[j].at \in {"pending", "ask", "isolate", "failed", "completed"}
            /\ job[j].part \in 1..2
        BY DEF ArcInv, ArcTypes
    <2> QED
        BY <2>1, <2>2 DEF TypeOK, FitInv, Bounded
  <1> QED
      BY <1>1, <1>2, FitStart, GapInductive, PTL DEF Spec

=============================================================================
