--------------------------- MODULE BookRowsProofs ---------------------------
(***************************************************************************)
(* Proofs about BookRows, for any number of chapters and scenes, any       *)
(* failures and crashes, and any number of handlers at a time: the book    *)
(* that is handed over is whole, its scenes and groups cover it, and rows  *)
(* are there twice only where a handler that does not look was cut short.  *)
(***************************************************************************)
EXTENDS BookRows, TLAPS

-----------------------------------------------------------------------------
(* The inductive invariant *)

\* What the first handler writes, and what is inserted without a look.
IMPORT_KINDS == {"chapters", "paragraphs", "categories", "entities", "traits"}
INSERT_KINDS == SCENE_GROUP_STEPS \cup {"extract_styles"}

Shape ==
  /\ series \in BOOLEAN /\ books \in Nat /\ bookId \in 0..books
  /\ job \in [Jobs -> [at : {"pending", "run", "failed", "completed"},
                       stage : Nat \ {0}, wrote : SUBSET rows]]
  /\ \A j \in Jobs : job[j].stage <= Len(Stages(j[1])) + 1
  /\ scan \in [seed : SUBSET Scenes, known : SUBSET Scenes, done : SUBSET Chapters,
               stalled : Nat]
  /\ scan.seed \subseteq scan.known
  /\ tails \subseteq (1..books) \X {"CHARACTER", "PLACE"}
  /\ refused \subseteq SCENE_STEPS
  /\ used \in [{"failures", "crashes"} -> Nat]
  /\ \A r \in rows : r[1] \in 1..books
  /\ doubled \subseteq rows /\ broken \subseteq rows

Import == job[ImportJob]
Imported == Import.at = "completed"
Preview == <<"preliminary_scenes_preview", Book>>
Full == <<"preliminary_scenes", Book>>

\* What waits for the book begins after it, and the full step after the preview.
InOrder ==
  /\ \A j \in Jobs : job[j].at # "pending" /\ j # ImportJob => Imported
  /\ job[Full].at # "pending" => job[Preview].at = "completed"
  /\ Imported => bookId = books /\ books >= 1
  /\ ~Imported => \A r \in rows : r[2] \in IMPORT_KINDS

\* A handler starts with nothing, the scene step has written nothing before its
\* second stage is done, and what a handler that failed wrote counts as broken.
BeginsWell(j) ==
  /\ job[j].at = "pending" => job[j].wrote = {}
  /\ job[j].at = "pending" /\ j[1] \notin SCENE_GROUP_STEPS => job[j].stage = 1
  /\ job[j].at = "failed" => job[j].wrote \subseteq broken
  /\ job[j].at = "run" /\ job[j].stage <= 2 /\ j[1] \in SCENE_STEPS => job[j].wrote = {}
Begins == \A j \in Jobs : BeginsWell(j)

\* The book that is being made, by the stage of the first handler.
Making ==
  Running(ImportJob) /\ Import.stage >= 2 =>
    /\ books >= 1
    /\ Import.stage >= 3 => \A c \in Chapters : <<books, "chapters", c>> \in rows
    /\ Import.stage >= 4 => \A c \in Chapters : <<books, "paragraphs", c>> \in rows
    /\ Import.stage \in 4..6 => series
    /\ Import.stage >= 5 /\ series => <<books, "categories", "earlier">> \in rows
    /\ Import.stage >= 6 /\ series => <<books, "entities", "earlier">> \in rows
    /\ Import.stage >= 6 /\ series =>
         \A type \in {"CHARACTER", "PLACE"} :
           \/ <<books, "traits", type>> \in rows
           \/ Import.stage = 6 /\ <<books, type>> \in tails
    /\ Import.stage = 8 => bookId = books

\* What is not there yet.
Fresh ==
  /\ Running(ImportJob) /\ Import.stage >= 2 =>
       /\ \A r \in rows : r[1] = books =>
            /\ r[2] \in {"chapters", "paragraphs"} => Import.stage >= 3
            /\ r[2] = "paragraphs" /\ Import.stage = 3 => r \in Import.wrote
            /\ r[2] = "categories" => Import.stage >= 5
            /\ r[2] \in {"entities", "traits"} => Import.stage >= 6
       /\ \A t \in tails : t[1] = books => Import.stage = 6
  /\ \A t \in tails : <<t[1], "traits", t[2]>> \notin rows

\* The scenes and groups of the book, by the stage of the handler that makes them.
GroupRow(c) == <<bookId, "groups", c>>
Reads(j) ==
  Running(j) =>
    /\ job[j].stage <= 2 => scan.seed = Written /\ scan.done \subseteq DoneChapters(scan.known)
    /\ job[j].stage = 3 => Written = Scenes /\ \A c \in Chapters : GroupRow(c) \notin rows
Finished ==
  job[Full].at = "completed" \/ (Running(Full) /\ job[Full].stage = 4) =>
    Written = Scenes /\ \A c \in Chapters : GroupRow(c) \in rows
Scanned ==
  /\ Reads(Preview) /\ Reads(Full)
  /\ Running(Full) /\ job[Full].stage = 2 => scan.done = Chapters
  /\ (\E c \in Chapters : GroupRow(c) \in rows) => Written = Scenes
  /\ Finished

\* The row that a handler inserts at a stage, and what has become of it.
Inserts(j, k) == <<bookId, j[1], <<Stages(j[1])[k], j[2]>>>>
Accounted ==
  \A j \in Jobs : j[1] \in INSERT_KINDS =>
    \A k \in 1..Len(Stages(j[1])) : Inserts(j, k) \in rows =>
      \/ Inserts(j, k) \in broken \/ job[j].at = "completed"
      \/ Running(j) /\ job[j].stage > k /\ Inserts(j, k) \in job[j].wrote

RowsInv ==
  /\ Shape /\ InOrder /\ Begins /\ Making /\ Fresh /\ Scanned /\ Accounted
  /\ DoubledHasACause /\ HandedOverWhole

-----------------------------------------------------------------------------
(* The stages and the jobs *)

LEMMA ImportStages ==
  LET s == Stages("imported_book")
  IN  /\ Len(s) = 7
      /\ s[1] = "book" /\ s[2] = "chapters" /\ s[3] = "paragraphs"
      /\ s[4] = "categories" /\ s[5] = "entities" /\ s[6] = "traits"
      /\ s[7] = "hand over"
<1>1. ASSUME NEW s,
             s = <<"book", "chapters", "paragraphs", "categories", "entities", "traits",
                   "hand over">>
      PROVE  /\ Len(s) = 7
             /\ s[1] = "book" /\ s[2] = "chapters" /\ s[3] = "paragraphs"
             /\ s[4] = "categories" /\ s[5] = "entities" /\ s[6] = "traits"
             /\ s[7] = "hand over"
  BY <1>1
<1>2. "imported_book" \notin SCENE_STEPS
  BY DEF SCENE_STEPS
<1>3. Stages("imported_book") =
        <<"book", "chapters", "paragraphs", "categories", "entities", "traits", "hand over">>
  BY <1>2, Zenon DEF Stages
<1> QED
  BY <1>1, <1>3, Zenon

LEMMA SceneStages ==
  ASSUME NEW step \in SCENE_STEPS
  PROVE  /\ Stages(step) = <<"ask", "scenes", "groups">> /\ Len(Stages(step)) = 3
         /\ Stages(step)[1] = "ask" /\ Stages(step)[2] = "scenes"
         /\ Stages(step)[3] = "groups"
<1>1. step \in SCENE_STEPS /\ step # "imported_book"
  BY DEF SCENE_STEPS
<1>2. /\ step # "extract_broad_categories" /\ step # "extract_styles"
      /\ step # "extract_appellations" /\ step # "extract_entity_attributes"
      /\ step # "extract_relationships"
  BY DEF SCENE_STEPS
<1>3. Stages(step) = <<"ask", "scenes", "groups">>
  BY <1>1, <1>2, Zenon DEF Stages
<1> QED
  BY <1>3

LEMMA OtherStages ==
  /\ Stages("extract_broad_categories") = <<"categories">>
  /\ Stages("extract_styles") = <<"styles">>
  /\ Stages("extract_appellations") = <<"CHARACTER", "ALL_OTHER">>
  /\ Stages("extract_entity_attributes") = <<"CHARACTER", "PLACE", "ALL_OTHER">>
  /\ Stages("extract_relationships") = <<"relationships">>
<1>1. /\ "extract_broad_categories" \notin SCENE_STEPS /\ "extract_styles" \notin SCENE_STEPS
      /\ "extract_appellations" \notin SCENE_STEPS
      /\ "extract_entity_attributes" \notin SCENE_STEPS
      /\ "extract_relationships" \notin SCENE_STEPS
  BY DEF SCENE_STEPS
<1> QED
  BY <1>1, Zenon DEF Stages

LEMMA LenStages ==
  ASSUME NEW step
  PROVE  Len(Stages(step)) \in 0..7
<1>1. CASE step = "imported_book"
  <2>1. Len(Stages(step)) = 7
    BY <1>1, ImportStages, Zenon
  <2> QED
    BY <2>1
<1>2. CASE step \in SCENE_STEPS
  BY <1>2, SceneStages
<1>3. CASE step \in {"extract_broad_categories", "extract_styles", "extract_appellations",
                     "extract_entity_attributes", "extract_relationships"}
  BY <1>3, OtherStages
<1>4. CASE ~(step = "imported_book" \/ step \in SCENE_STEPS)
           /\ step \notin {"extract_broad_categories", "extract_styles", "extract_appellations",
                           "extract_entity_attributes", "extract_relationships"}
  <2>1. Stages(step) = <<>>
    <3>1. /\ step # "extract_broad_categories" /\ step # "extract_styles"
          /\ step # "extract_appellations" /\ step # "extract_entity_attributes"
          /\ step # "extract_relationships"
      BY <1>4
    <3> QED
      BY <1>4, <3>1, Zenon DEF Stages
  <2> QED
    BY <2>1
<1> QED
  BY <1>1, <1>2, <1>3, <1>4

LEMMA TheJobs ==
  /\ \A j \in Jobs : j = <<j[1], j[2]>> /\ j[1] \in REPORTING_STEPS
  /\ \A j \in Jobs : j[1] \notin SCENE_GROUP_STEPS => j[2] = Book
  /\ ImportJob \in Jobs /\ Preview \in Jobs /\ Full \in Jobs
  /\ <<"extract_broad_categories", Book>> \in Jobs /\ <<"extract_styles", Book>> \in Jobs
  /\ \A g \in Chapters, step \in SCENE_GROUP_STEPS : <<step, g>> \in Jobs
BY DEF Jobs, Items, ImportJob, Preview, Full, REPORTING_STEPS, SCENE_GROUP_STEPS,
   PROJECTION_STEPS, EXTRACT_STEPS

LEMMA SceneJobs ==
  /\ SCENE_STEPS \X {Book} = {Preview, Full}
  /\ \A j \in Jobs : j[1] \in SCENE_STEPS <=> j \in {Preview, Full}
  /\ Preview # Full /\ ImportJob \notin {Preview, Full}
  /\ Preview[1] = "preliminary_scenes_preview" /\ Full[1] = "preliminary_scenes"
BY TheJobs DEF SCENE_STEPS, Preview, Full, ImportJob, SCENE_GROUP_STEPS

\* The first handler alone makes the book.
LEMMA FirstJob ==
  /\ ImportJob[1] = "imported_book"
  /\ \A j \in Jobs : j[1] = "imported_book" <=> j = ImportJob
  /\ ImportJob[1] \notin SCENE_STEPS /\ ImportJob[1] \notin INSERT_KINDS
BY TheJobs DEF ImportJob, SCENE_GROUP_STEPS, SCENE_STEPS, INSERT_KINDS

\* What a job waits for: the first handler, or some job that waits itself.
LEMMA Waits ==
  ASSUME NEW s \in REPORTING_STEPS, s # "imported_book"
  PROVE  \E d \in STEP_DEPENDS[s] : d \in REPORTING_STEPS
<1>1. s \in STEPS
  BY DEF REPORTING_STEPS, STEPS
<1>2. CASE s \in {"preliminary_scenes_preview", "preliminary_scenes"}
  BY <1>1, <1>2 DEF STEP_DEPENDS, REPORTING_STEPS, PROJECTION_STEPS, EXTRACT_STEPS
<1>3. CASE s \in {"extract_broad_categories", "extract_entities", "categorize_entities",
                  "remove_ambiguous_entity_names"}
  BY <1>1, <1>3 DEF STEP_DEPENDS, REPORTING_STEPS, PROJECTION_STEPS, EXTRACT_STEPS
<1>4. CASE s \in {"finalize_scenes", "extract_styles", "estimate_significance",
                  "extract_appellations", "summarize_appellations"}
  BY <1>1, <1>4 DEF STEP_DEPENDS, REPORTING_STEPS, PROJECTION_STEPS, EXTRACT_STEPS
<1>5. CASE s \in {"extract_relationships", "extract_entity_attributes"}
  BY <1>1, <1>5 DEF STEP_DEPENDS, REPORTING_STEPS, PROJECTION_STEPS, EXTRACT_STEPS
<1> QED
  BY <1>2, <1>3, <1>4, <1>5 DEF REPORTING_STEPS, PROJECTION_STEPS, EXTRACT_STEPS

\* Every reporting step has a job.
LEMMA HasJob ==
  ASSUME NEW s \in REPORTING_STEPS
  PROVE  \E j \in Jobs : j[1] = s
<1>1. CASE s \in SCENE_GROUP_STEPS
  <2>1. 1 \in Chapters
    BY RowsAssumption DEF Chapters
  <2> QED
    BY <1>1, <2>1, TheJobs
<1>2. CASE s \notin SCENE_GROUP_STEPS
  <2>1. <<s, Book>> \in Jobs
    BY <1>2 DEF Jobs, Items
  <2> QED
    BY <2>1
<1> QED
  BY <1>1, <1>2

LEMMA FullWaits == "preliminary_scenes_preview" \in STEP_DEPENDS["preliminary_scenes"]
BY DEF STEP_DEPENDS, STEPS, PROJECTION_STEPS, EXTRACT_STEPS

\* The rows of a statement.
LEMMA NewRows ==
  ASSUME NEW b, NEW kind, NEW keys, NEW r
  PROVE  r \in {b} \X {kind} \X keys <=> \E x \in keys : r = <<b, kind, x>>
OBVIOUS

-----------------------------------------------------------------------------
(* Steps by the handler that takes them, and what they change *)

ImportStep ==
  \/ CreateBook \/ CreateChapters \/ (\E c \in Chapters : CreateParagraphs(c))
  \/ (\E kind \in {"categories", "entities"} : CopyPrevious(kind)) \/ HandOver
TraitsStep == \E t \in tails : CopyTraits(t) \/ FailTraits(t)
SceneStep(j) ==
  \/ \E found \in SUBSET (Scenes \ scan.known) : AskScenes(j, found)
  \/ AllKnown(j) \/ CreateScenes(j) \/ CreateGroups(j)
InsertStep(j) ==
  \E k \in 1..Len(Stages(j[1])) : job[j].stage = k /\ Insert(j, Stages(j[1])[k])
TurnStep(j) ==
  Start(j) \/ Complete(j) \/ Fail(j) \/ \E stage \in 1..3 : Retry(j, stage)

LEMMA Handlers ==
  ASSUME Shape, [Next]_vars
  PROVE  \/ ImportStep \/ TraitsStep \/ CreateCategories \/ Crash \/ UNCHANGED vars
         \/ \E j \in {Preview, Full} : SceneStep(j)
         \/ \E j \in Jobs : j[1] \in INSERT_KINDS /\ InsertStep(j)
         \/ \E j \in Jobs : TurnStep(j)
<1>1. ASSUME NEW j \in Jobs, j[1] \in INSERT_KINDS, NEW stage, Insert(j, stage)
      PROVE  InsertStep(j)
  <2>1. At(j, stage)
    BY <1>1 DEF Insert
  <2>2. Stages(j[1])[job[j].stage] = stage /\ job[j].stage <= Len(Stages(j[1]))
    BY <2>1 DEF At
  <2>3. job[j].stage \in 1..Len(Stages(j[1]))
    BY <2>2, LenStages DEF Shape
  <2> QED
    BY <1>1, <2>2, <2>3 DEF InsertStep
<1>2. CASE UNCHANGED vars
  BY <1>2
<1>3. CASE \E j \in Jobs : TurnStep(j)
  BY <1>3
<1>4. CASE \E j \in SCENE_STEPS \X {Book} : SceneStep(j)
  BY <1>4, SceneJobs
<1>5. CASE ImportStep \/ TraitsStep \/ CreateCategories \/ Crash
  BY <1>5
<1>6. CASE InsertStyles
  <2>1. <<"extract_styles", Book>>[1] \in INSERT_KINDS
    BY DEF INSERT_KINDS
  <2> QED
    BY <1>1, <1>6, <2>1, TheJobs DEF InsertStyles
<1>7. ASSUME NEW g \in Chapters,
             \/ InsertCharacterAppellations(g) \/ InsertEntityAppellations(g)
             \/ \E type \in {"CHARACTER", "PLACE", "ALL_OTHER"} : InsertAttributes(g, type)
             \/ InsertRelationships(g)
      PROVE  \E j \in Jobs : j[1] \in INSERT_KINDS /\ InsertStep(j)
  <2>1. \A step \in SCENE_GROUP_STEPS : <<step, g>> \in Jobs /\ <<step, g>>[1] \in INSERT_KINDS
    BY TheJobs DEF INSERT_KINDS
  <2>2. /\ "extract_appellations" \in SCENE_GROUP_STEPS
        /\ "extract_entity_attributes" \in SCENE_GROUP_STEPS
        /\ "extract_relationships" \in SCENE_GROUP_STEPS
    BY DEF SCENE_GROUP_STEPS
  <2> QED
    BY <1>1, <1>7, <2>1, <2>2 DEF InsertCharacterAppellations, InsertEntityAppellations,
       InsertAttributes, InsertRelationships
<1> QED
  BY <1>2, <1>3, <1>4, <1>5, <1>6, <1>7
     DEF Next, TurnStep, SceneStep, ImportStep, TraitsStep

\* A statement of a handler that runs changes its own stage and what it wrote.
LEMMA Statement ==
  ASSUME Shape, NEW j \in Jobs, NEW b, NEW kind, NEW keys, NEW stage \in Nat \ {0},
         Write(j, b, kind, keys, stage)
  PROVE  /\ \A r : r \in rows' <=> r \in rows \/ \E x \in keys : r = <<b, kind, x>>
         /\ \A r : r \in doubled' <=>
              r \in doubled \/ (r \in rows /\ \E x \in keys : r = <<b, kind, x>>)
         /\ \A r : r \in job'[j].wrote <=>
              r \in job[j].wrote \/ \E x \in keys : r = <<b, kind, x>>
         /\ job'[j].at = job[j].at /\ job'[j].stage = stage
         /\ \A i \in Jobs : i # j => job'[i] = job[i]
         /\ UNCHANGED <<series, broken, refused, used>>
<1> DEFINE new == {b} \X {kind} \X keys
<1>1. \A r : r \in new <=> \E x \in keys : r = <<b, kind, x>>
  BY NewRows
<1> HIDE DEF new
<1>2. rows' = rows \cup new /\ doubled' = doubled \cup (new \cap rows)
  BY DEF Write, new
<1>3. job' = [job EXCEPT ![j].wrote = @ \cup new, ![j].stage = stage]
  BY DEF Write, new
<1>4. /\ job'[j].wrote = job[j].wrote \cup new
      /\ job'[j].at = job[j].at /\ job'[j].stage = stage
      /\ \A i \in Jobs : i # j => job'[i] = job[i]
  BY <1>3 DEF Shape
<1>5. UNCHANGED <<series, broken, refused, used>>
  BY DEF Write
<1> QED
  BY <1>1, <1>2, <1>4, <1>5

\* The shape of the jobs after a step that changes one of them.
LEMMA OneJob ==
  ASSUME Shape, NEW j \in Jobs, DOMAIN job' = Jobs, job' = [i \in Jobs |-> job'[i]],
         rows \subseteq rows', \A i \in Jobs : i # j => job'[i] = job[i],
         job'[j] \in [at : {"pending", "run", "failed", "completed"},
                      stage : Nat \ {0}, wrote : SUBSET rows'],
         job'[j].stage <= Len(Stages(j[1])) + 1
  PROVE  /\ job' \in [Jobs -> [at : {"pending", "run", "failed", "completed"},
                               stage : Nat \ {0}, wrote : SUBSET rows']]
         /\ \A i \in Jobs : job'[i].stage <= Len(Stages(i[1])) + 1
<1> DEFINE R == [at : {"pending", "run", "failed", "completed"},
                 stage : Nat \ {0}, wrote : SUBSET rows']
<1>1. \A i \in Jobs : i # j => job[i] \in R
  BY DEF Shape
<1>2. job'[j] \in R
  OBVIOUS
<1>3. \A i \in Jobs : job[i].stage <= Len(Stages(i[1])) + 1
  BY DEF Shape
<1> HIDE DEF R
<1>4. \A i \in Jobs : job'[i] \in R
  BY <1>1, <1>2
<1>5. job' \in [Jobs -> R]
  BY <1>4
<1>6. \A i \in Jobs : job'[i].stage <= Len(Stages(i[1])) + 1
  BY <1>3
<1> QED
  BY <1>5, <1>6, Zenon DEF R

\* A handler that runs has a place among its stages, or has done them all.
LEMMA JobType ==
  ASSUME Shape, NEW j \in Jobs
  PROVE  /\ job[j] = [at |-> job[j].at, stage |-> job[j].stage, wrote |-> job[j].wrote]
         /\ job[j].at \in {"pending", "run", "failed", "completed"}
         /\ job[j].stage \in Nat \ {0} /\ job[j].wrote \subseteq rows
         /\ job[j].stage <= Len(Stages(j[1])) + 1
BY DEF Shape

\* What a job is after a step that changes it alone.
Becomes(j, at, stage, wrote) ==
  /\ job' = [job EXCEPT ![j] = [at |-> at, stage |-> stage, wrote |-> wrote]]
  /\ job'[j] = [at |-> at, stage |-> stage, wrote |-> wrote]
  /\ \A i \in Jobs : i # j => job'[i] = job[i]

LEMMA ItBecomes ==
  ASSUME Shape, NEW j \in Jobs, NEW at, NEW stage, NEW wrote,
         job' = [job EXCEPT ![j] = [at |-> at, stage |-> stage, wrote |-> wrote]]
  PROVE  Becomes(j, at, stage, wrote)
BY DEF Shape, Becomes

LEMMA StageBecomes ==
  ASSUME Shape, NEW j \in Jobs, NEW stage, job' = [job EXCEPT ![j].stage = stage]
  PROVE  Becomes(j, job[j].at, stage, job[j].wrote)
<1>1. DOMAIN job = Jobs
  BY DEF Shape
<1>2. job'[j] = [job[j] EXCEPT !.stage = stage]
  BY <1>1
<1>3. job'[j] = [at |-> job[j].at, stage |-> stage, wrote |-> job[j].wrote]
  <2>1. job[j] = [at |-> job[j].at, stage |-> job[j].stage, wrote |-> job[j].wrote]
    BY JobType
  <2> QED
    BY <1>2, <2>1
<1>4. \A i \in Jobs : i # j => job'[i] = job[i]
  BY <1>1
<1>5. job' = [job EXCEPT ![j] = [at |-> job[j].at, stage |-> stage, wrote |-> job[j].wrote]]
  BY <1>1, <1>3, <1>4
<1> QED
  BY <1>3, <1>4, <1>5 DEF Becomes

LEMMA AtBecomes ==
  ASSUME Shape, NEW j \in Jobs, NEW at, job' = [job EXCEPT ![j].at = at]
  PROVE  Becomes(j, at, job[j].stage, job[j].wrote)
<1>1. DOMAIN job = Jobs
  BY DEF Shape
<1>2. job'[j] = [job[j] EXCEPT !.at = at]
  BY <1>1
<1>3. job'[j] = [at |-> at, stage |-> job[j].stage, wrote |-> job[j].wrote]
  <2>1. job[j] = [at |-> job[j].at, stage |-> job[j].stage, wrote |-> job[j].wrote]
    BY JobType
  <2> QED
    BY <1>2, <2>1
<1>4. \A i \in Jobs : i # j => job'[i] = job[i]
  BY <1>1
<1>5. job' = [job EXCEPT ![j] = [at |-> at, stage |-> job[j].stage, wrote |-> job[j].wrote]]
  BY <1>1, <1>3, <1>4
<1> QED
  BY <1>3, <1>4, <1>5 DEF Becomes

\* A handler that goes on to its next stage.
LEMMA NextJob ==
  ASSUME Shape, NEW j \in Jobs, job[j].stage <= Len(Stages(j[1])),
         job' = [job EXCEPT ![j].stage = @ + 1]
  PROVE  /\ job'[j].stage = job[j].stage + 1
         /\ job'[j].at = job[j].at /\ job'[j].wrote = job[j].wrote
         /\ \A i \in Jobs : i # j => job'[i] = job[i]
         /\ \A i \in Jobs : job'[i].stage <= Len(Stages(i[1])) + 1
         /\ job' \in [Jobs -> [at : {"pending", "run", "failed", "completed"},
                              stage : Nat \ {0}, wrote : SUBSET rows]]
<1>1. job[j].stage \in Nat \ {0} /\ Len(Stages(j[1])) \in Nat
  BY LenStages DEF Shape
<1>2. job[j] \in [at : {"pending", "run", "failed", "completed"},
                  stage : Nat \ {0}, wrote : SUBSET rows]
  BY DEF Shape
<1>3. job'[j] = [job[j] EXCEPT !.stage = @ + 1]
  BY DEF Shape
<1>4. /\ job'[j] \in [at : {"pending", "run", "failed", "completed"},
                      stage : Nat \ {0}, wrote : SUBSET rows]
      /\ job'[j].stage = job[j].stage + 1
      /\ job'[j].at = job[j].at /\ job'[j].wrote = job[j].wrote
  BY <1>2, <1>3
<1>5. \A i \in Jobs : i # j => job'[i] = job[i]
  BY DEF Shape
<1>6. job'[j].stage <= Len(Stages(j[1])) + 1
  BY <1>1, <1>4
<1>7. \A i \in Jobs : job'[i].stage <= Len(Stages(i[1])) + 1
  BY <1>5, <1>6 DEF Shape
<1>8. job' \in [Jobs -> [at : {"pending", "run", "failed", "completed"},
                        stage : Nat \ {0}, wrote : SUBSET rows]]
  BY <1>4, <1>5 DEF Shape
<1> QED
  BY <1>4, <1>5, <1>7, <1>8

LEMMA StatementShape ==
  ASSUME Shape, NEW j \in Jobs, NEW b \in 1..books, NEW kind, NEW keys,
         NEW stage \in Nat \ {0}, stage <= Len(Stages(j[1])) + 1,
         Write(j, b, kind, keys, stage), UNCHANGED <<bookId, books, scan>>,
         tails' \subseteq (1..books) \X {"CHARACTER", "PLACE"}
  PROVE  Shape'
<1> DEFINE new == {b} \X {kind} \X keys
<1>1. \A r \in new : r[1] = b
  BY NewRows
<1> HIDE DEF new
<1>2. rows' = rows \cup new /\ doubled' = doubled \cup (new \cap rows)
  BY DEF Write, new
<1>3. job' = [job EXCEPT ![j].wrote = @ \cup new, ![j].stage = stage]
  BY DEF Write, new
<1>4. UNCHANGED <<series, broken, refused, used>>
  BY DEF Write
<1>5. job[j] \in [at : {"pending", "run", "failed", "completed"},
                  stage : Nat \ {0}, wrote : SUBSET rows]
  BY DEF Shape
<1>6. job'[j] = [job[j] EXCEPT !.wrote = @ \cup new, !.stage = stage]
  BY <1>3 DEF Shape
<1>7. job'[j] \in [at : {"pending", "run", "failed", "completed"},
                   stage : Nat \ {0}, wrote : SUBSET rows']
  BY <1>2, <1>5, <1>6
<1>8. DOMAIN job' = Jobs /\ job' = [i \in Jobs |-> job'[i]]
  BY <1>3 DEF Shape
<1>9. \A i \in Jobs : i # j => job'[i] = job[i]
  BY <1>3 DEF Shape
<1>10. job'[j].stage = stage
  BY <1>5, <1>6
<1>11. /\ job' \in [Jobs -> [at : {"pending", "run", "failed", "completed"},
                             stage : Nat \ {0}, wrote : SUBSET rows']]
       /\ \A i \in Jobs : job'[i].stage <= Len(Stages(i[1])) + 1
  BY <1>2, <1>7, <1>8, <1>9, <1>10, OneJob
<1> QED
  BY <1>1, <1>2, <1>4, <1>11 DEF Shape

\* Where a handler is, by the name of its stage.
LEMMA ImportAt ==
  ASSUME Shape
  PROVE  /\ At(ImportJob, "book") => Import.stage = 1
         /\ At(ImportJob, "chapters") => Import.stage = 2
         /\ At(ImportJob, "paragraphs") => Import.stage = 3
         /\ At(ImportJob, "categories") => Import.stage = 4
         /\ At(ImportJob, "entities") => Import.stage = 5
         /\ At(ImportJob, "traits") <=> Running(ImportJob) /\ Import.stage = 6
         /\ At(ImportJob, "hand over") => Import.stage = 7
         /\ \A stage : At(ImportJob, stage) => Running(ImportJob)
<1> DEFINE s == Stages(ImportJob[1])
           n == Import.stage
<1>1. n \in Nat \ {0}
  BY TheJobs DEF Shape, Import
<1>2. ImportJob[1] = "imported_book"
  BY FirstJob
<1>3. Len(s) = 7
  BY <1>2, ImportStages, Zenon
<1>4. /\ s[1] = "book" /\ s[2] = "chapters" /\ s[3] = "paragraphs"
      /\ s[4] = "categories" /\ s[5] = "entities" /\ s[6] = "traits"
      /\ s[7] = "hand over"
  BY <1>2, ImportStages, Zenon
<1>5. \A stage : At(ImportJob, stage) <=> Running(ImportJob) /\ n <= Len(s) /\ s[n] = stage
  BY Zenon DEF At, Import
<1> HIDE DEF s, n
<1>6. n <= 7 => n \in {1, 2, 3, 4, 5, 6, 7}
  BY <1>1
<1>7. ASSUME NEW stage, At(ImportJob, stage)
      PROVE  Running(ImportJob) /\ n \in {1, 2, 3, 4, 5, 6, 7} /\ s[n] = stage
  BY <1>3, <1>5, <1>6, <1>7
<1>8. ASSUME Running(ImportJob), n = 6
      PROVE  At(ImportJob, "traits")
  <2>1. n <= Len(s)
    BY <1>3, <1>8
  <2>2. s[n] = "traits"
    BY <1>4, <1>8, Zenon
  <2> QED
    BY <1>5, <1>8, <2>1, <2>2, Zenon
<1>9. /\ At(ImportJob, "book") => n = 1
      /\ At(ImportJob, "chapters") => n = 2
      /\ At(ImportJob, "paragraphs") => n = 3
      /\ At(ImportJob, "categories") => n = 4
      /\ At(ImportJob, "entities") => n = 5
      /\ At(ImportJob, "traits") => n = 6
      /\ At(ImportJob, "hand over") => n = 7
  BY <1>4, <1>7
<1> QED
  BY <1>7, <1>8, <1>9 DEF n

LEMMA SceneAt ==
  ASSUME Shape, NEW j \in {Preview, Full}
  PROVE  /\ At(j, "ask") => job[j].stage = 1
         /\ At(j, "scenes") => job[j].stage = 2
         /\ At(j, "groups") => job[j].stage = 3
         /\ \A stage : At(j, stage) => Running(j)
         /\ Len(Stages(j[1])) = 3 /\ j \in Jobs /\ job[j].stage \in 1..4
<1>1. j \in Jobs /\ j[1] \in SCENE_STEPS
  BY TheJobs, SceneJobs
<1>2. Stages(j[1]) = <<"ask", "scenes", "groups">> /\ Len(Stages(j[1])) = 3
  BY <1>1, SceneStages
<1>3. job[j].stage \in Nat \ {0} /\ job[j].stage <= Len(Stages(j[1])) + 1
  BY <1>1 DEF Shape
<1>4. job[j].stage \in 1..4
  BY <1>2, <1>3
<1>5. ASSUME NEW stage, At(j, stage)
      PROVE  Running(j) /\ job[j].stage \in 1..3 /\ Stages(j[1])[job[j].stage] = stage
  BY <1>2, <1>4, <1>5 DEF At
<1> QED
  BY <1>1, <1>2, <1>4, <1>5

LEMMA NextStages ==
  ASSUME Shape, NEW j \in Jobs, job[j].stage <= Len(Stages(j[1]))
  PROVE  /\ NextStage(j) = job[j].stage + 1
         /\ NextStage(j) \in Nat \ {0} /\ NextStage(j) <= Len(Stages(j[1])) + 1
BY LenStages DEF Shape, NextStage

-----------------------------------------------------------------------------
(* The shape of the state *)

LEMMA ShapeImport ==
  ASSUME Shape, InOrder, Making, ImportStep
  PROVE  Shape'
<1> DEFINE J == ImportJob
<1>1. J \in Jobs /\ Len(Stages(J[1])) = 7
  BY TheJobs, FirstJob, ImportStages
<1>2. job[J] \in [at : {"pending", "run", "failed", "completed"},
                  stage : Nat \ {0}, wrote : SUBSET rows]
  BY <1>1 DEF Shape
<1>3. ASSUME NEW stage, At(J, stage)
      PROVE  /\ job[J].stage <= 7 /\ NextStage(J) \in Nat \ {0} /\ NextStage(J) <= 8
  BY <1>1, <1>2, <1>3 DEF At, NextStage
<1>4. Import.stage >= 2 /\ Running(J) => books \in 1..books
  BY DEF Making, Shape
<1>5. CASE CreateBook \/ HandOver
  <2>1. At(J, "book") \/ At(J, "hand over")
    BY <1>5, Zenon DEF CreateBook, HandOver
  <2>2. job' = [job EXCEPT ![ImportJob].stage = @ + 1]
    BY <1>5, Zenon DEF CreateBook, HandOver
  <2>3. UNCHANGED <<series, rows, doubled, broken, scan, tails, refused, used>>
    BY <1>5, Zenon DEF CreateBook, HandOver
  <2>4. \/ books' = books + 1 /\ bookId' = bookId
        \/ books' = books /\ bookId' = books
    BY <1>5, Zenon DEF CreateBook, HandOver
  <2>5. /\ \A i \in Jobs : job'[i].stage <= Len(Stages(i[1])) + 1
        /\ job' \in [Jobs -> [at : {"pending", "run", "failed", "completed"},
                             stage : Nat \ {0}, wrote : SUBSET rows]]
    <3>1. job[J].stage <= Len(Stages(J[1]))
      BY <1>1, <1>3, <2>1
    <3> QED
      BY <1>1, <2>2, <3>1, NextJob, Zenon
  <2>6. books' \in Nat /\ books <= books' /\ bookId' \in 0..books'
    BY <2>4 DEF Shape
  <2>7. tails' \subseteq (1..books') \X {"CHARACTER", "PLACE"}
    BY <2>3, <2>6 DEF Shape
  <2>8. \A r \in rows' : r[1] \in 1..books'
    BY <2>3, <2>6 DEF Shape
  <2> QED
    BY <2>3, <2>5, <2>6, <2>7, <2>8 DEF Shape
<1>6. CASE CreateChapters
  <2>1. /\ At(J, "chapters") /\ Write(J, books, "chapters", Chapters, NextStage(J))
        /\ UNCHANGED <<bookId, books, scan, tails>>
    BY <1>6, Zenon DEF CreateChapters
  <2>2. Import.stage = 2 /\ Running(J)
    BY <2>1, ImportAt, Zenon
  <2>3. tails' \subseteq (1..books) \X {"CHARACTER", "PLACE"}
    BY <2>1 DEF Shape
  <2>4. books \in 1..books /\ NextStage(J) \in Nat \ {0} /\ NextStage(J) <= Len(Stages(J[1])) + 1
    BY <1>1, <1>3, <1>4, <2>1, <2>2
  <2> QED
    BY <1>1, <2>1, <2>3, <2>4, StatementShape, Zenon
<1>7. ASSUME NEW c \in Chapters, CreateParagraphs(c)
      PROVE  Shape'
  <2> DEFINE stage == IF c < MaxChapter THEN job[J].stage
                      ELSE IF series THEN NextStage(J) ELSE Len(Stages("imported_book"))
  <2>1. /\ At(J, "paragraphs") /\ Write(J, books, "paragraphs", {c}, stage)
        /\ UNCHANGED <<bookId, books, scan, tails>>
    BY <1>7, Zenon DEF CreateParagraphs
  <2>2. Import.stage = 3 /\ Running(J)
    BY <2>1, ImportAt, Zenon
  <2>3. tails' \subseteq (1..books) \X {"CHARACTER", "PLACE"}
    BY <2>1 DEF Shape
  <2>4. stage \in Nat \ {0} /\ stage <= Len(Stages(J[1])) + 1
    <3>1. job[J].stage \in Nat \ {0} /\ job[J].stage <= 7
      BY <1>2, <1>3, <2>1
    <3>2. NextStage(J) \in Nat \ {0} /\ NextStage(J) <= 8
      BY <1>3, <2>1
    <3>3. Len(Stages("imported_book")) = 7
      BY ImportStages
    <3>4. stage \in {job[J].stage, NextStage(J), 7}
      BY <3>3, Zenon
    <3> HIDE DEF stage
    <3>5. stage \in Nat \ {0} /\ stage <= 8
      BY <3>1, <3>2, <3>4
    <3> QED
      BY <1>1, <3>5
  <2>5. books \in 1..books
    BY <1>4, <2>2
  <2> HIDE DEF stage
  <2> QED
    BY <1>1, <2>1, <2>3, <2>4, <2>5, StatementShape, Zenon
<1>8. ASSUME NEW kind \in {"categories", "entities"}, CopyPrevious(kind)
      PROVE  Shape'
  <2>1. /\ At(J, kind) /\ Write(J, books, kind, {"earlier"}, NextStage(J))
        /\ UNCHANGED <<bookId, books, scan>>
    BY <1>8, Zenon DEF CopyPrevious
  <2>2. At(J, "categories") \/ At(J, "entities")
    BY <1>8, <2>1
  <2>3. Import.stage >= 2 /\ Running(J)
    <3>1. (Import.stage = 4 \/ Import.stage = 5) /\ Running(J)
      BY <2>2, ImportAt, Zenon
    <3> QED
      BY <3>1
  <2>4. books \in 1..books /\ NextStage(J) \in Nat \ {0} /\ NextStage(J) <= Len(Stages(J[1])) + 1
    BY <1>1, <1>3, <1>4, <2>1, <2>3
  <2>5. tails' = tails \/ tails' = tails \cup ({books} \X {"CHARACTER", "PLACE"})
    BY <1>8, Zenon DEF CopyPrevious
  <2>6. tails' \subseteq (1..books) \X {"CHARACTER", "PLACE"}
    BY <2>4, <2>5 DEF Shape
  <2> QED
    BY <1>1, <2>1, <2>4, <2>6, StatementShape, Zenon
<1> QED
  BY <1>5, <1>6, <1>7, <1>8 DEF ImportStep

\* A handler stops or goes on, and no rows are written.
LEMMA ShapeQuiet ==
  ASSUME Shape, NEW j \in Jobs, NEW at \in {"pending", "run", "failed", "completed"},
         NEW stage \in Nat \ {0}, stage <= Len(Stages(j[1])) + 1,
         NEW wrote \in SUBSET rows,
         Becomes(j, at, stage, wrote),
         UNCHANGED <<series, bookId, books, rows, doubled>>,
         broken' \subseteq rows, tails' \subseteq tails, refused' \subseteq SCENE_STEPS,
         scan' \in [seed : SUBSET Scenes, known : SUBSET Scenes, done : SUBSET Chapters,
                    stalled : Nat],
         scan'.seed \subseteq scan'.known,
         used' \in [{"failures", "crashes"} -> Nat]
  PROVE  Shape'
<1>1. job'[j] = [at |-> at, stage |-> stage, wrote |-> wrote]
  BY DEF Becomes
<1>2. DOMAIN job' = Jobs /\ job' = [i \in Jobs |-> job'[i]]
  BY DEF Shape, Becomes
<1>3. \A i \in Jobs : i # j => job'[i] = job[i]
  BY DEF Becomes
<1>4. /\ job' \in [Jobs -> [at : {"pending", "run", "failed", "completed"},
                            stage : Nat \ {0}, wrote : SUBSET rows']]
      /\ \A i \in Jobs : job'[i].stage <= Len(Stages(i[1])) + 1
  BY <1>1, <1>2, <1>3, OneJob
<1> QED
  BY <1>4 DEF Shape

CopiesTo(j, r, last) ==
  job' = [job EXCEPT ![j].wrote = @ \cup {r}, ![j].stage = IF last THEN @ + 1 ELSE @]

LEMMA CopiedJob ==
  ASSUME Shape, NEW j \in Jobs, job[j].stage = 6, Len(Stages(j[1])) = 7,
         NEW r, NEW last \in BOOLEAN, rows' = rows \cup {r},
         CopiesTo(j, r, last)
  PROVE  /\ \A i \in Jobs : job'[i].stage <= Len(Stages(i[1])) + 1
         /\ job' \in [Jobs -> [at : {"pending", "run", "failed", "completed"},
                              stage : Nat \ {0}, wrote : SUBSET rows']]
         /\ job'[j].at = job[j].at /\ job'[j].wrote = job[j].wrote \cup {r}
         /\ (last => job'[j].stage = 7) /\ (~last => job'[j].stage = 6)
         /\ \A i \in Jobs : i # j => job'[i] = job[i]
<1>1. job[j] \in [at : {"pending", "run", "failed", "completed"},
                  stage : Nat \ {0}, wrote : SUBSET rows]
  BY DEF Shape
<1>2. job'[j] = [job[j] EXCEPT !.wrote = @ \cup {r}, !.stage = IF last THEN @ + 1 ELSE @]
  BY DEF Shape, CopiesTo
<1> DEFINE n == IF last THEN 7 ELSE 6
<1>3. n \in Nat \ {0} /\ n \in {6, 7}
  OBVIOUS
<1>9. job'[j] = [job[j] EXCEPT !.wrote = @ \cup {r}, !.stage = n]
  BY <1>2
<1> HIDE DEF n
<1>10. /\ job'[j].at = job[j].at /\ job'[j].wrote = job[j].wrote \cup {r}
       /\ job'[j].stage = n
  BY <1>1, <1>9
<1>11. job'[j] \in [at : {"pending", "run", "failed", "completed"},
                    stage : Nat \ {0}, wrote : SUBSET rows']
  BY <1>1, <1>3, <1>9
<1>4. DOMAIN job' = Jobs /\ job' = [i \in Jobs |-> job'[i]]
  BY DEF Shape, CopiesTo
<1>5. \A i \in Jobs : i # j => job'[i] = job[i]
  BY DEF Shape, CopiesTo
<1>6. job'[j].stage <= Len(Stages(j[1])) + 1
  BY <1>3, <1>10
<1>7. rows \subseteq rows'
  OBVIOUS
<1>8. /\ job' \in [Jobs -> [at : {"pending", "run", "failed", "completed"},
                            stage : Nat \ {0}, wrote : SUBSET rows']]
      /\ \A i \in Jobs : job'[i].stage <= Len(Stages(i[1])) + 1
  BY <1>4, <1>5, <1>6, <1>7, <1>11, OneJob
<1> QED
  BY <1>5, <1>8, <1>10 DEF n

LEMMA ShapeFailed ==
  ASSUME Shape, NEW j \in Jobs, job' = [job EXCEPT ![j].at = "failed"],
         UNCHANGED <<series, bookId, books, rows, doubled, scan, refused>>,
         broken' \subseteq rows, tails' = tails \/ \E t \in tails : tails' = tails \ {t},
         used' \in [{"failures", "crashes"} -> Nat]
  PROVE  Shape'
<1>1. Becomes(j, "failed", job[j].stage, job[j].wrote)
  BY AtBecomes
<1>2. tails' \subseteq tails /\ refused' \subseteq SCENE_STEPS
  BY DEF Shape
<1>3. /\ scan' \in [seed : SUBSET Scenes, known : SUBSET Scenes, done : SUBSET Chapters,
                    stalled : Nat]
      /\ scan'.seed \subseteq scan'.known
  BY DEF Shape
<1>4. /\ job[j].stage \in Nat \ {0} /\ job[j].wrote \in SUBSET rows
      /\ job[j].stage <= Len(Stages(j[1])) + 1
  BY JobType
<1> QED
  BY <1>1, <1>2, <1>3, <1>4, ShapeQuiet

LEMMA ShapeTraits ==
  ASSUME Shape, TraitsStep
  PROVE  Shape'
<1> DEFINE J == ImportJob
<1>1. J \in Jobs /\ Len(Stages(J[1])) = 7
  BY TheJobs, FirstJob, ImportStages, Zenon
<1>0. PICK t \in tails : CopyTraits(t) \/ FailTraits(t)
  BY DEF TraitsStep
<1>2. /\ job[J] = [at |-> job[J].at, stage |-> job[J].stage, wrote |-> job[J].wrote]
      /\ job[J].at \in {"pending", "run", "failed", "completed"}
      /\ job[J].stage \in Nat \ {0} /\ job[J].wrote \subseteq rows
      /\ job[J].stage <= 8
  <2>1. /\ job[J] = [at |-> job[J].at, stage |-> job[J].stage, wrote |-> job[J].wrote]
        /\ job[J].at \in {"pending", "run", "failed", "completed"}
        /\ job[J].stage \in Nat \ {0} /\ job[J].wrote \subseteq rows
        /\ job[J].stage <= Len(Stages(J[1])) + 1
    BY <1>1, JobType, Zenon
  <2> QED
    BY <1>1, <2>1
<1>3. t[1] \in 1..books
  BY DEF Shape
<1>4. CASE CopyTraits(t)
  <2> DEFINE new == <<t[1], "traits", t[2]>>
  <2>1. /\ tails' = tails \ {t} /\ rows' = rows \cup {new}
        /\ doubled' = doubled \cup ({new} \cap rows)
        /\ broken' = IF Awaited(t) THEN broken ELSE broken \cup {new}
        /\ UNCHANGED <<series, bookId, books, scan, refused, used>>
    BY <1>4, Zenon DEF CopyTraits
  <2>2. new[1] = t[1]
    OBVIOUS
  <2> HIDE DEF new
  <2>3. /\ \A i \in Jobs : job'[i].stage <= Len(Stages(i[1])) + 1
        /\ job' \in [Jobs -> [at : {"pending", "run", "failed", "completed"},
                             stage : Nat \ {0}, wrote : SUBSET rows']]
    <3>1. CASE ~Awaited(t)
      <4>1. job' = job
        BY <1>4, <3>1, Zenon DEF CopyTraits
      <4> QED
        BY <2>1, <4>1 DEF Shape
    <3>2. CASE Awaited(t)
      <4>1. job' = [job EXCEPT ![J].wrote = @ \cup {new},
                               ![J].stage = IF IsLast(t) THEN @ + 1 ELSE @]
        BY <1>4, <3>2, Zenon DEF CopyTraits, new
      <4>2. job[J].stage = 6
        BY <3>2, ImportAt, Zenon DEF Awaited, Import
      <4>3. PICK K \in Jobs : K = J
        BY <1>1
      <4>4. CopiesTo(K, new, IsLast(t))
        BY <4>1, <4>3, Zenon DEF CopiesTo
      <4>6. IsLast(t) \in BOOLEAN
        BY DEF IsLast
      <4>5. job[K].stage = 6 /\ Len(Stages(K[1])) = 7
        BY <1>1, <4>2, <4>3, Zenon
      <4> QED
        BY <2>1, <4>4, <4>5, <4>6, CopiedJob, Zenon
    <3> QED
      BY <3>1, <3>2
  <2> QED
    BY <1>3, <2>1, <2>2, <2>3 DEF Shape
<1>5. CASE FailTraits(t)
  <2>1. /\ tails' = tails \ {t} /\ Use("failures")
        /\ UNCHANGED <<series, bookId, books, rows, doubled, scan, refused>>
    BY <1>5, Zenon DEF FailTraits
  <2>2. used' \in [{"failures", "crashes"} -> Nat]
    BY <2>1 DEF Use, Shape
  <2>3. CASE ~Awaited(t)
    <3>1. UNCHANGED <<job, broken>>
      BY <1>5, <2>3, Zenon DEF FailTraits
    <3> QED
      BY <2>1, <2>2, <3>1 DEF Shape
  <2>4. CASE Awaited(t)
    <3>1. /\ job' = [job EXCEPT ![J].at = "failed"]
          /\ broken' = broken \cup job[J].wrote
      BY <1>5, <2>4, Zenon DEF FailTraits
    <3>2. broken' \subseteq rows
      BY <1>2, <3>1 DEF Shape
    <3> QED
      BY <1>1, <2>1, <2>2, <3>1, <3>2, ShapeFailed, Zenon
  <2> QED
    BY <2>3, <2>4
<1> QED
  BY <1>0, <1>4, <1>5

LEMMA ChangesTo ==
  ASSUME Shape, NEW j \in Jobs
  PROVE  /\ [job EXCEPT ![j] = [@ EXCEPT !.at = "failed"]] =
              [job EXCEPT ![j] =
                [at |-> "failed", stage |-> job[j].stage, wrote |-> job[j].wrote]]
         /\ \A stage : [job EXCEPT ![j] = [@ EXCEPT !.stage = stage]] =
              [job EXCEPT ![j] =
                [at |-> job[j].at, stage |-> stage, wrote |-> job[j].wrote]]
<1> PICK old : old = job[j]
  OBVIOUS
<1>1. old = [at |-> job[j].at, stage |-> job[j].stage, wrote |-> job[j].wrote]
  BY JobType
<1>2. [old EXCEPT !.at = "failed"] =
        [at |-> "failed", stage |-> job[j].stage, wrote |-> job[j].wrote]
  BY <1>1
<1>3. \A stage : [old EXCEPT !.stage = stage] =
        [at |-> job[j].at, stage |-> stage, wrote |-> job[j].wrote]
  BY <1>1
<1> QED
  BY <1>2, <1>3, Zenon

LEMMA AsksGo ==
  ASSUME Shape, NEW j \in {Preview, Full}, NEW found \in SUBSET (Scenes \ scan.known),
         AskScenes(j, found)
  PROVE  /\ Running(j) /\ job[j].stage = 1
         /\ UNCHANGED <<series, bookId, books, rows, doubled, broken, tails, refused, used>>
         /\ scan'.seed = scan.seed /\ scan.known \subseteq scan'.known
         /\ scan' \in [seed : SUBSET Scenes, known : SUBSET Scenes, done : SUBSET Chapters,
                       stalled : Nat]
         /\ scan.done \subseteq DoneChapters(scan.known) =>
              scan'.done \subseteq DoneChapters(scan'.known)
         /\ \/ Becomes(j, "failed", 1, job[j].wrote) \/ Becomes(j, "run", 1, job[j].wrote)
            \/ Becomes(j, "run", 2, job[j].wrote) /\ (j = Full => scan'.done = Chapters)
<1> DEFINE known == scan.known \cup found
           begun == {c \in Chapters \ scan.done : ScenesOf[c] \cap known # {}}
           finished == {c \in begun : \A d \in begun : d <= c => d \in DoneChapters(known)}
           stalled == IF finished = {} THEN scan.stalled + 1 ELSE 0
           done == scan.done \cup finished
           stops == GivesUp(stalled) \/ (j[1] = "preliminary_scenes_preview" /\ known = {})
           goes == done = Chapters \/ j[1] = "preliminary_scenes_preview"
<1>1. /\ At(j, "ask") /\ scan' = [scan EXCEPT !.known = known, !.done = done, !.stalled = stalled]
      /\ UNCHANGED <<series, bookId, books, rows, doubled, broken, tails, refused, used>>
  BY Zenon DEF AskScenes
<1>2. job' = [job EXCEPT ![j] = IF stops THEN [@ EXCEPT !.at = "failed"]
                                ELSE IF goes THEN [@ EXCEPT !.stage = NextStage(j)] ELSE @]
  BY Zenon DEF AskScenes
<1>3. finished \subseteq Chapters /\ finished \subseteq DoneChapters(known)
  BY DEF DoneChapters, Chapters
<1>4. stalled \in Nat /\ known \subseteq Scenes /\ scan.known \subseteq known
  BY DEF Shape
<1>5. scan.done \subseteq DoneChapters(scan.known) => done \subseteq DoneChapters(known)
  BY <1>3, <1>4 DEF DoneChapters
<1>6. j \in Jobs /\ job[j].stage = 1 /\ Running(j)
  BY <1>1, SceneAt, Zenon
<1>7. NextStage(j) = 2 /\ job[j].at = "run"
  BY <1>6 DEF NextStage, Running
<1> HIDE DEF known, finished, stalled, done, stops, goes
<1>8. /\ scan'.seed = scan.seed /\ scan'.known = known /\ scan'.done = done
      /\ scan' \in [seed : SUBSET Scenes, known : SUBSET Scenes, done : SUBSET Chapters,
                    stalled : Nat]
  BY <1>1, <1>3, <1>4 DEF Shape, done
<1>9. CASE stops
  <2>1. job' = [job EXCEPT ![j] = [@ EXCEPT !.at = "failed"]]
    BY <1>2, <1>9
  <2>2. job' = [job EXCEPT ![j] =
                  [at |-> "failed", stage |-> job[j].stage, wrote |-> job[j].wrote]]
    BY <1>6, <2>1, ChangesTo
  <2>3. Becomes(j, "failed", 1, job[j].wrote)
    BY <1>6, <2>2, ItBecomes
  <2> QED
    BY <1>1, <1>4, <1>5, <1>6, <1>8, <2>3
<1>10. CASE ~stops /\ goes
  <2>1. job' = [job EXCEPT ![j] = [@ EXCEPT !.stage = NextStage(j)]]
    BY <1>2, <1>10
  <2>2. job' = [job EXCEPT ![j] = [at |-> job[j].at, stage |-> NextStage(j),
                                   wrote |-> job[j].wrote]]
    BY <1>6, <2>1, ChangesTo
  <2>3. Becomes(j, "run", 2, job[j].wrote)
    BY <1>6, <1>7, <2>2, ItBecomes
  <2>4. j = Full => scan'.done = Chapters
    BY <1>8, <1>10, SceneJobs DEF goes
  <2> QED
    BY <1>1, <1>4, <1>5, <1>6, <1>8, <2>3, <2>4
<1>11. CASE ~stops /\ ~goes
  <2>1. job' = [job EXCEPT ![j] = @]
    BY <1>2, <1>11
  <2>2. job' = [job EXCEPT ![j] = [at |-> "run", stage |-> 1, wrote |-> job[j].wrote]]
    BY <2>1, <1>6, <1>7 DEF Shape
  <2>3. Becomes(j, "run", 1, job[j].wrote)
    BY <1>6, <2>2, ItBecomes
  <2> QED
    BY <1>1, <1>4, <1>5, <1>6, <1>8, <2>3
<1> QED
  BY <1>9, <1>10, <1>11

LEMMA KnownGo ==
  ASSUME Shape, NEW j \in {Preview, Full}, AllKnown(j)
  PROVE  /\ Running(j) /\ job[j].stage = 1 /\ scan.done = Chapters
         /\ UNCHANGED <<series, bookId, books, rows, doubled, broken, scan, tails, refused, used>>
         /\ Becomes(j, "run", 2, job[j].wrote)
<1>1. /\ At(j, "ask") /\ scan.done = Chapters
      /\ job' = [job EXCEPT ![j].stage = NextStage(j)]
      /\ UNCHANGED <<series, bookId, books, rows, doubled, broken, scan, tails, refused, used>>
  BY Zenon DEF AllKnown
<1>2. j \in Jobs /\ job[j].stage = 1 /\ Running(j)
  BY <1>1, SceneAt, Zenon
<1>3. NextStage(j) = 2 /\ job[j].at = "run"
  BY <1>2 DEF NextStage, Running
<1>4. Becomes(j, job[j].at, NextStage(j), job[j].wrote)
  BY <1>1, <1>2, StageBecomes
<1> QED
  BY <1>1, <1>2, <1>3, <1>4, Zenon

\* Scenes are written, or refused when there are none.
LEMMA ScenesGo ==
  ASSUME Shape, NEW j \in {Preview, Full}, CreateScenes(j)
  PROVE  /\ Running(j) /\ job[j].stage = 2
         /\ UNCHANGED <<bookId, books, scan, tails>>
         /\ \/ /\ Becomes(j, "failed", 2, job[j].wrote) /\ refused' = refused \cup {j[1]}
               /\ UNCHANGED <<series, rows, doubled, broken, used>>
            \/ /\ scan.known # scan.seed
               /\ Write(j, bookId, "scenes", scan.known \ scan.seed,
                        IF scan.done = Chapters THEN 3 ELSE 4)
<1>1. At(j, "scenes") /\ UNCHANGED <<bookId, books, scan, tails>>
  BY Zenon DEF CreateScenes
<1>2. j \in Jobs /\ job[j].stage = 2 /\ Running(j)
  BY <1>1, SceneAt, Zenon
<1>3. NextStage(j) = 3 /\ NextStage(j) + 1 = 4
  BY <1>2 DEF NextStage
<1>4. CASE scan.known = scan.seed
  <2>1. /\ refused' = refused \cup {j[1]} /\ job' = [job EXCEPT ![j].at = "failed"]
        /\ UNCHANGED <<series, rows, doubled, broken, used>>
    BY <1>4, Zenon DEF CreateScenes
  <2>2. Becomes(j, "failed", job[j].stage, job[j].wrote)
    BY <1>2, <2>1, AtBecomes
  <2> QED
    BY <1>1, <1>2, <2>1, <2>2, Zenon
<1>5. CASE scan.known # scan.seed
  <2>1. Write(j, bookId, "scenes", scan.known \ scan.seed,
              IF scan.done = Chapters THEN NextStage(j) ELSE NextStage(j) + 1)
    BY <1>5, Zenon DEF CreateScenes
  <2>2. Write(j, bookId, "scenes", scan.known \ scan.seed,
              IF scan.done = Chapters THEN 3 ELSE 4)
    BY <1>3, <2>1, Zenon
  <2> QED
    BY <1>1, <1>2, <1>5, <2>2, Zenon
<1> QED
  BY <1>4, <1>5

LEMMA GroupsGo ==
  ASSUME Shape, NEW j \in {Preview, Full}, CreateGroups(j)
  PROVE  /\ Running(j) /\ job[j].stage = 3
         /\ UNCHANGED <<bookId, books, scan, tails>>
         /\ Write(j, bookId, "groups", {c \in Chapters : ScenesOf[c] \cap Written # {}}, 4)
<1>1. /\ At(j, "groups") /\ UNCHANGED <<bookId, books, scan, tails>>
      /\ Write(j, bookId, "groups", {c \in Chapters : ScenesOf[c] \cap Written # {}},
               NextStage(j))
  BY Zenon DEF CreateGroups
<1>2. j \in Jobs /\ job[j].stage = 3 /\ Running(j)
  BY <1>1, SceneAt, Zenon
<1>3. NextStage(j) = 4
  BY <1>2 DEF NextStage
<1> QED
  BY <1>1, <1>2, <1>3, Zenon

LEMMA CategoriesGo ==
  ASSUME Shape, CreateCategories
  PROVE  LET j == <<"extract_broad_categories", Book>>
             there == \E r \in rows : r[1] = bookId /\ r[2] = "categories"
         IN  /\ Running(j) /\ job[j].stage = 1 /\ Len(Stages(j[1])) = 1
             /\ UNCHANGED <<bookId, books, scan, tails>>
             /\ Write(j, bookId, "categories", IF there THEN {} ELSE {"all"}, 2)
<1> DEFINE j == <<"extract_broad_categories", Book>>
           there == \E r \in rows : r[1] = bookId /\ r[2] = "categories"
<1>1. /\ At(j, "categories") /\ UNCHANGED <<bookId, books, scan, tails>>
      /\ Write(j, bookId, "categories", IF there THEN {} ELSE {"all"}, NextStage(j))
  BY Zenon DEF CreateCategories
<1>2. Stages(j[1]) = <<"categories">>
  BY OtherStages
<1>3. Len(Stages(j[1])) = 1
  BY <1>2
<1>4. Running(j) /\ job[j].stage <= Len(Stages(j[1]))
  BY <1>1, Zenon DEF At
<1>5. j \in Jobs
  BY TheJobs
<1> HIDE DEF j
<1>6. job[j].stage = 1
  <2>1. job[j].stage \in Nat \ {0}
    BY <1>5, JobType, Zenon
  <2> QED
    BY <1>3, <1>4, <2>1
<1>7. NextStage(j) = 2
  BY <1>6 DEF NextStage
<1> QED
  BY <1>1, <1>3, <1>4, <1>6, <1>7, Zenon DEF j

LEMMA InsertGo ==
  ASSUME Shape, NEW j \in Jobs, InsertStep(j)
  PROVE  \E k \in 1..Len(Stages(j[1])) : \E keys \in SUBSET {<<Stages(j[1])[k], j[2]>>} :
           /\ Running(j) /\ job[j].stage = k /\ UNCHANGED <<bookId, books, scan, tails>>
           /\ Write(j, bookId, j[1], keys, k + 1)
<1>1. PICK k \in 1..Len(Stages(j[1])) : job[j].stage = k /\ Insert(j, Stages(j[1])[k])
  BY DEF InsertStep
<1> DEFINE keys == IF j[2] \in Peopled \cup {Book} THEN {<<Stages(j[1])[k], j[2]>>} ELSE {}
<1>2. /\ At(j, Stages(j[1])[k]) /\ UNCHANGED <<bookId, books, scan, tails>>
      /\ Write(j, bookId, j[1], keys, NextStage(j))
  BY <1>1, Zenon DEF Insert
<1>3. NextStage(j) = k + 1
  BY <1>1 DEF NextStage
<1>4. Running(j)
  BY <1>2, Zenon DEF At
<1>5. keys \in SUBSET {<<Stages(j[1])[k], j[2]>>}
  OBVIOUS
<1> HIDE DEF keys
<1> QED
  BY <1>1, <1>2, <1>3, <1>4, <1>5, Zenon

LEMMA StartGo ==
  ASSUME Shape, NEW j \in Jobs, Start(j)
  PROVE  /\ job[j].at = "pending" /\ \A d \in STEP_DEPENDS[j[1]] : StepDone(d)
         /\ Becomes(j, "run", job[j].stage, job[j].wrote)
         /\ scan' = IF j[1] \in SCENE_STEPS THEN Seeded ELSE scan
         /\ UNCHANGED <<series, bookId, books, rows, doubled, broken, tails, refused, used>>
BY AtBecomes DEF Start

LEMMA CompleteGo ==
  ASSUME Shape, NEW j \in Jobs, Complete(j)
  PROVE  /\ Running(j) /\ job[j].stage > Len(Stages(j[1]))
         /\ Becomes(j, "completed", 1, {})
         /\ scan' = IF j[1] \in SCENE_STEPS THEN NoScan ELSE scan
         /\ UNCHANGED <<series, bookId, books, rows, doubled, broken, tails, refused, used>>
<1>1. [Idle EXCEPT !.at = "completed"] = [at |-> "completed", stage |-> 1, wrote |-> {}]
  BY DEF Idle
<1>2. job' = [job EXCEPT ![j] = [at |-> "completed", stage |-> 1, wrote |-> {}]]
  BY <1>1, Zenon DEF Complete
<1>3. Becomes(j, "completed", 1, {})
  BY <1>2, ItBecomes
<1> QED
  BY <1>3 DEF Complete

LEMMA RetryGo ==
  ASSUME Shape, NEW j \in Jobs, NEW stage \in 1..3, Retry(j, stage)
  PROVE  /\ job[j].at = "failed"
         /\ stage = 1 \/ (j[1] \in SCENE_GROUP_STEPS /\ stage = job[j].stage)
         /\ Becomes(j, "pending", stage, {})
         /\ UNCHANGED <<series, bookId, books, rows, doubled, broken, scan, tails, refused, used>>
<1>1. [Idle EXCEPT !.stage = stage] = [at |-> "pending", stage |-> stage, wrote |-> {}]
  BY DEF Idle
<1>2. job' = [job EXCEPT ![j] = [at |-> "pending", stage |-> stage, wrote |-> {}]]
  BY <1>1, Zenon DEF Retry
<1>3. Becomes(j, "pending", stage, {})
  BY <1>2, ItBecomes
<1> QED
  BY <1>3 DEF Retry

LEMMA FailGo ==
  ASSUME Shape, NEW j \in Jobs, Fail(j)
  PROVE  /\ Running(j) /\ broken' = broken \cup job[j].wrote /\ Use("failures")
         /\ job[j].stage <= Len(Stages(j[1]))
         /\ Becomes(j, "failed", job[j].stage, job[j].wrote)
         /\ UNCHANGED <<series, bookId, books, rows, doubled, scan, tails, refused>>
BY AtBecomes DEF Fail

LEMMA CrashGo ==
  ASSUME Shape, Crash
  PROVE  /\ \A j \in Jobs : /\ Running(j) => job'[j] = Idle /\ job[j].wrote \subseteq broken'
                            /\ ~Running(j) => job'[j] = job[j]
         /\ broken \subseteq broken' /\ broken' \subseteq rows /\ tails' = {}
         /\ UNCHANGED <<series, bookId, books, rows, doubled, scan, refused>>
<1>1. \A j \in Jobs : job[j].wrote \subseteq rows
  BY JobType
<1>2. UNCHANGED <<series, bookId, books, rows, doubled, scan, refused>> /\ tails' = {}
  BY DEF Crash
<1>3. broken' = broken \cup UNION {job[j].wrote : j \in {i \in Jobs : Running(i)}}
  BY DEF Crash
<1>4. broken \subseteq broken' /\ broken' \subseteq rows
  BY <1>1, <1>3 DEF Shape
<1>5. \A j \in Jobs : Running(j) => job[j].wrote \subseteq broken'
  BY <1>3
<1>6. job' = [j \in Jobs |-> IF Running(j) THEN Idle ELSE job[j]]
  BY DEF Crash
<1> QED
  BY <1>2, <1>4, <1>5, <1>6

\* What waits for the book, once it runs, has it.
LEMMA HasBook ==
  ASSUME Shape, InOrder, NEW j \in Jobs, j # ImportJob, Running(j)
  PROVE  Imported /\ bookId = books /\ bookId \in 1..books
<1>1. Imported
  BY DEF InOrder, Running
<1> QED
  BY <1>1 DEF InOrder, Shape

LEMMA CategoryJob ==
  LET j == <<"extract_broad_categories", Book>>
  IN  /\ j \in Jobs /\ j \notin {ImportJob, Preview, Full}
      /\ j[1] = "extract_broad_categories" /\ j[1] \notin INSERT_KINDS
<1>1. /\ "extract_broad_categories" \notin INSERT_KINDS
      /\ <<"extract_broad_categories", Book>>[1] = "extract_broad_categories"
  BY DEF INSERT_KINDS, SCENE_GROUP_STEPS
<1> QED
  BY <1>1, TheJobs, FirstJob, SceneJobs

LEMMA ShapeScene ==
  ASSUME Shape, InOrder, NEW j \in {Preview, Full}, SceneStep(j)
  PROVE  Shape'
<1>1. j \in Jobs /\ j # ImportJob /\ Len(Stages(j[1])) = 3 /\ j[1] \in SCENE_STEPS
  BY TheJobs, SceneJobs, SceneAt
<1>2. job[j].wrote \in SUBSET rows
  BY <1>1, JobType
<1>3. broken \subseteq rows /\ tails \subseteq tails /\ refused \subseteq SCENE_STEPS
  BY DEF Shape
<1>4. /\ scan \in [seed : SUBSET Scenes, known : SUBSET Scenes, done : SUBSET Chapters,
                   stalled : Nat]
      /\ scan.seed \subseteq scan.known
      /\ used \in [{"failures", "crashes"} -> Nat]
  BY DEF Shape
<1>5. \A at \in {"failed", "run"}, n \in {1, 2} :
        /\ at \in {"pending", "run", "failed", "completed"}
        /\ n \in Nat \ {0} /\ n <= Len(Stages(j[1])) + 1
  BY <1>1
<1>6. ASSUME NEW found \in SUBSET (Scenes \ scan.known), AskScenes(j, found)
      PROVE  Shape'
  <2>1. /\ UNCHANGED <<series, bookId, books, rows, doubled, broken, tails, refused, used>>
        /\ scan'.seed = scan.seed /\ scan.known \subseteq scan'.known
        /\ scan' \in [seed : SUBSET Scenes, known : SUBSET Scenes, done : SUBSET Chapters,
                      stalled : Nat]
    BY <1>6, AsksGo
  <2>2. \E at \in {"failed", "run"}, n \in {1, 2} : Becomes(j, at, n, job[j].wrote)
    BY <1>6, AsksGo
  <2>3. /\ broken' \subseteq rows /\ tails' \subseteq tails /\ refused' \subseteq SCENE_STEPS
        /\ scan'.seed \subseteq scan'.known /\ used' \in [{"failures", "crashes"} -> Nat]
    BY <1>3, <1>4, <2>1
  <2> QED
    BY <1>1, <1>2, <1>5, <2>1, <2>2, <2>3, ShapeQuiet
<1>7. CASE AllKnown(j)
  <2>1. /\ UNCHANGED <<series, bookId, books, rows, doubled, broken, scan, tails, refused, used>>
        /\ Becomes(j, "run", 2, job[j].wrote)
    BY <1>7, KnownGo
  <2> QED
    BY <1>1, <1>2, <1>3, <1>4, <1>5, <2>1, ShapeQuiet
<1>8. CASE CreateScenes(j)
  <2>1. Running(j) /\ UNCHANGED <<bookId, books, scan, tails>>
    BY <1>8, ScenesGo
  <2>2. CASE Becomes(j, "failed", 2, job[j].wrote) /\ refused' = refused \cup {j[1]}
             /\ UNCHANGED <<series, rows, doubled, broken, used>>
    <3>1. refused' \subseteq SCENE_STEPS
      BY <1>1, <1>3, <2>2
    <3> QED
      BY <1>1, <1>2, <1>3, <1>4, <1>5, <2>1, <2>2, <3>1, ShapeQuiet
  <2>3. CASE Write(j, bookId, "scenes", scan.known \ scan.seed,
                   IF scan.done = Chapters THEN 3 ELSE 4)
    <3> DEFINE stage == IF scan.done = Chapters THEN 3 ELSE 4
    <3>1. stage \in Nat \ {0} /\ stage <= Len(Stages(j[1])) + 1
      BY <1>1
    <3>2. bookId \in 1..books /\ tails' \subseteq (1..books) \X {"CHARACTER", "PLACE"}
      BY <1>1, <2>1, HasBook DEF Shape
    <3> HIDE DEF stage
    <3> QED
      BY <1>1, <2>1, <2>3, <3>1, <3>2, StatementShape DEF stage
  <2> QED
    BY <1>8, <2>2, <2>3, ScenesGo, Zenon
<1>9. CASE CreateGroups(j)
  <2>1. /\ Running(j) /\ UNCHANGED <<bookId, books, scan, tails>>
        /\ Write(j, bookId, "groups", {c \in Chapters : ScenesOf[c] \cap Written # {}}, 4)
    BY <1>9, GroupsGo, Zenon
  <2>2. bookId \in 1..books /\ tails' \subseteq (1..books) \X {"CHARACTER", "PLACE"}
    BY <1>1, <2>1, HasBook DEF Shape
  <2>3. 4 \in Nat \ {0} /\ 4 <= Len(Stages(j[1])) + 1
    BY <1>1
  <2> QED
    BY <1>1, <2>1, <2>2, <2>3, StatementShape, Zenon
<1> QED
  BY <1>6, <1>7, <1>8, <1>9 DEF SceneStep

\* What the scene step knows when it starts.
LEMMA SeedIs ==
  /\ {Seeded, NoScan} \subseteq [seed : SUBSET Scenes, known : SUBSET Scenes,
                                done : SUBSET Chapters, stalled : Nat]
  /\ Seeded.seed = Written /\ Seeded.known = Written /\ Seeded.done = DoneChapters(Written)
  /\ NoScan.seed = NoScan.known
<1>1. Written \in SUBSET Scenes /\ DoneChapters(Written) \in SUBSET Chapters
  BY DEF Written, DoneChapters
<1>2. PICK n \in [seed : SUBSET Scenes, known : SUBSET Scenes, done : SUBSET Chapters,
                  stalled : Nat] : n = NoScan /\ n.seed = n.known
  <2>1. NoScan \in [seed : SUBSET Scenes, known : SUBSET Scenes, done : SUBSET Chapters,
                    stalled : Nat]
    BY DEF NoScan
  <2>2. NoScan.seed = NoScan.known
    BY DEF NoScan
  <2> QED
    BY <2>1, <2>2, Zenon
<1>3. Seeded = [n EXCEPT !.seed = Written, !.known = Written, !.done = DoneChapters(Written)]
  BY <1>2, Zenon DEF Seeded
<1> QED
  BY <1>1, <1>2, <1>3

LEMMA ShapeTurn ==
  ASSUME Shape, NEW j \in Jobs, TurnStep(j)
  PROVE  Shape'
<1>1. /\ broken \subseteq rows /\ refused \subseteq SCENE_STEPS
      /\ scan \in [seed : SUBSET Scenes, known : SUBSET Scenes, done : SUBSET Chapters,
                   stalled : Nat]
      /\ scan.seed \subseteq scan.known
      /\ used \in [{"failures", "crashes"} -> Nat]
  BY DEF Shape
<1>2. /\ job[j].stage \in Nat \ {0} /\ job[j].wrote \in SUBSET rows
      /\ job[j].stage <= Len(Stages(j[1])) + 1 /\ {} \in SUBSET rows
      /\ 1 \in Nat \ {0} /\ 1 <= Len(Stages(j[1])) + 1
  <2>1. Len(Stages(j[1])) \in 0..7
    BY LenStages
  <2>2. 1 \in Nat \ {0} /\ 1 <= Len(Stages(j[1])) + 1
    BY <2>1
  <2>3. /\ job[j].stage \in Nat \ {0} /\ job[j].wrote \in SUBSET rows
        /\ job[j].stage <= Len(Stages(j[1])) + 1
    BY JobType
  <2> QED
    BY <2>2, <2>3
<1>3. ASSUME NEW s, s \in {Seeded, NoScan}
      PROVE  /\ s \in [seed : SUBSET Scenes, known : SUBSET Scenes, done : SUBSET Chapters,
                       stalled : Nat]
             /\ s.seed \subseteq s.known
  BY <1>3, SeedIs
<1>4. CASE Start(j)
  <2>1. /\ Becomes(j, "run", job[j].stage, job[j].wrote)
        /\ scan' = scan \/ scan' \in {Seeded, NoScan}
        /\ UNCHANGED <<series, bookId, books, rows, doubled, broken, tails, refused, used>>
    BY <1>4, StartGo
  <2>2. /\ scan' \in [seed : SUBSET Scenes, known : SUBSET Scenes, done : SUBSET Chapters,
                      stalled : Nat]
        /\ scan'.seed \subseteq scan'.known
    BY <1>1, <1>3, <2>1
  <2> QED
    BY <1>1, <1>2, <2>1, <2>2, ShapeQuiet
<1>5. CASE Complete(j)
  <2>1. /\ Becomes(j, "completed", 1, {})
        /\ scan' = scan \/ scan' \in {Seeded, NoScan}
        /\ UNCHANGED <<series, bookId, books, rows, doubled, broken, tails, refused, used>>
    BY <1>5, CompleteGo
  <2>2. /\ scan' \in [seed : SUBSET Scenes, known : SUBSET Scenes, done : SUBSET Chapters,
                      stalled : Nat]
        /\ scan'.seed \subseteq scan'.known
    BY <1>1, <1>3, <2>1
  <2> QED
    BY <1>1, <1>2, <2>1, <2>2, ShapeQuiet
<1>6. CASE Fail(j)
  <2>1. /\ Becomes(j, "failed", job[j].stage, job[j].wrote)
        /\ broken' = broken \cup job[j].wrote /\ Use("failures")
        /\ UNCHANGED <<series, bookId, books, rows, doubled, scan, tails, refused>>
    BY <1>6, FailGo
  <2>2. used' \in [{"failures", "crashes"} -> Nat]
    BY <1>1, <2>1 DEF Use
  <2>3. broken' \subseteq rows
    BY <1>1, <1>2, <2>1
  <2> QED
    BY <1>1, <1>2, <2>1, <2>2, <2>3, ShapeQuiet
<1>7. ASSUME NEW stage \in 1..3, Retry(j, stage)
      PROVE  Shape'
  <2>1. /\ stage = 1 \/ (j[1] \in SCENE_GROUP_STEPS /\ stage = job[j].stage)
        /\ Becomes(j, "pending", stage, {})
        /\ UNCHANGED <<series, bookId, books, rows, doubled, broken, scan, tails, refused, used>>
    BY <1>7, RetryGo
  <2>2. stage \in Nat \ {0} /\ stage <= Len(Stages(j[1])) + 1
    BY <1>2, <2>1
  <2> QED
    BY <1>1, <1>2, <2>1, <2>2, ShapeQuiet
<1> QED
  BY <1>4, <1>5, <1>6, <1>7 DEF TurnStep

LEMMA ShapeKept ==
  ASSUME Shape, InOrder, Making, [Next]_vars
  PROVE  Shape'
<1>1. CASE CreateCategories
  <2> DEFINE j == <<"extract_broad_categories", Book>>
             keys == IF \E r \in rows : r[1] = bookId /\ r[2] = "categories"
                       THEN {} ELSE {"all"}
  <2>1. /\ Running(j) /\ Len(Stages(j[1])) = 1 /\ UNCHANGED <<bookId, books, scan, tails>>
        /\ Write(j, bookId, "categories", keys, 2)
    BY <1>1, CategoriesGo, Zenon
  <2>2. j \in Jobs /\ j # ImportJob
    BY CategoryJob
  <2> HIDE DEF j, keys
  <2>3. bookId \in 1..books /\ tails' \subseteq (1..books) \X {"CHARACTER", "PLACE"}
    BY <2>1, <2>2, HasBook DEF Shape
  <2>4. 2 \in Nat \ {0} /\ 2 <= Len(Stages(j[1])) + 1
    BY <2>1
  <2> QED
    BY <2>1, <2>2, <2>3, <2>4, StatementShape, Zenon
<1>2. ASSUME NEW j \in Jobs, j[1] \in INSERT_KINDS, InsertStep(j)
      PROVE  Shape'
  <2>0. PICK k \in 1..Len(Stages(j[1])) : \E keys :
           /\ Running(j) /\ UNCHANGED <<bookId, books, scan, tails>>
           /\ Write(j, bookId, j[1], keys, k + 1)
    BY <1>2, InsertGo, Zenon
  <2>1. PICK keys :
           /\ Running(j) /\ UNCHANGED <<bookId, books, scan, tails>>
           /\ Write(j, bookId, j[1], keys, k + 1)
    BY <2>0
  <2>2. j # ImportJob
    BY <1>2, FirstJob
  <2>3. bookId \in 1..books /\ tails' \subseteq (1..books) \X {"CHARACTER", "PLACE"}
    BY <2>1, <2>2, HasBook DEF Shape
  <2>4. k + 1 \in Nat \ {0} /\ k + 1 <= Len(Stages(j[1])) + 1
    BY LenStages
  <2> QED
    BY <2>1, <2>3, <2>4, StatementShape, Zenon
<1>3. CASE Crash
  <2>1. job' = [j \in Jobs |-> IF Running(j) THEN Idle ELSE job[j]]
    BY <1>3 DEF Crash
  <2>2. Idle \in [at : {"pending", "run", "failed", "completed"},
                  stage : Nat \ {0}, wrote : SUBSET rows]
    BY DEF Idle
  <2>3. job' \in [Jobs -> [at : {"pending", "run", "failed", "completed"},
                           stage : Nat \ {0}, wrote : SUBSET rows]]
    BY <2>1, <2>2 DEF Shape
  <2>4. \A j \in Jobs : job'[j].stage <= Len(Stages(j[1])) + 1
    <3>1. \A j \in Jobs : 1 <= Len(Stages(j[1])) + 1
      BY LenStages
    <3> QED
      BY <2>1, <3>1 DEF Shape, Idle
  <2>5. used' \in [{"failures", "crashes"} -> Nat]
    BY <1>3 DEF Crash, Use, Shape
  <2>6. /\ broken' \subseteq rows /\ tails' = {}
        /\ UNCHANGED <<series, bookId, books, rows, doubled, scan, refused>>
    BY <1>3, CrashGo
  <2> QED
    BY <2>3, <2>4, <2>5, <2>6 DEF Shape
<1>4. CASE UNCHANGED vars
  BY <1>4 DEF Shape, vars
<1> QED
  BY <1>1, <1>2, <1>3, <1>4, Handlers, ShapeImport, ShapeTraits, ShapeScene, ShapeTurn

-----------------------------------------------------------------------------
(* The first handler, stage by stage *)

LEMMA BookGo ==
  ASSUME Shape, CreateBook
  PROVE  /\ Running(ImportJob) /\ Import.stage = 1 /\ books' = books + 1
         /\ Becomes(ImportJob, "run", 2, Import.wrote)
         /\ UNCHANGED <<series, bookId, rows, doubled, broken, scan, tails, refused, used>>
<1>1. /\ At(ImportJob, "book") /\ books' = books + 1
      /\ job' = [job EXCEPT ![ImportJob].stage = @ + 1]
      /\ UNCHANGED <<series, bookId, rows, doubled, broken, scan, tails, refused, used>>
  BY Zenon DEF CreateBook
<1>2. Running(ImportJob) /\ Import.stage = 1
  BY <1>1, ImportAt, Zenon
<1>3. job[ImportJob].stage + 1 = 2 /\ job[ImportJob].at = "run"
  BY <1>2 DEF Import, Running
<1>4. job' = [job EXCEPT ![ImportJob].stage = 2]
  BY <1>1, <1>3, Zenon
<1>5. Becomes(ImportJob, job[ImportJob].at, 2, job[ImportJob].wrote)
  BY <1>4, TheJobs, StageBecomes, Zenon
<1> QED
  BY <1>1, <1>2, <1>3, <1>5, Zenon DEF Import

LEMMA HandOverGo ==
  ASSUME Shape, HandOver
  PROVE  /\ Running(ImportJob) /\ Import.stage = 7 /\ bookId' = books
         /\ Becomes(ImportJob, "run", 8, Import.wrote)
         /\ UNCHANGED <<series, books, rows, doubled, broken, scan, tails, refused, used>>
<1>1. /\ At(ImportJob, "hand over") /\ bookId' = books
      /\ job' = [job EXCEPT ![ImportJob].stage = @ + 1]
      /\ UNCHANGED <<series, books, rows, doubled, broken, scan, tails, refused, used>>
  BY Zenon DEF HandOver
<1>2. Running(ImportJob) /\ Import.stage = 7
  BY <1>1, ImportAt, Zenon
<1>3. job[ImportJob].stage + 1 = 8 /\ job[ImportJob].at = "run"
  BY <1>2 DEF Import, Running
<1>4. job' = [job EXCEPT ![ImportJob].stage = 8]
  BY <1>1, <1>3, Zenon
<1>5. Becomes(ImportJob, job[ImportJob].at, 8, job[ImportJob].wrote)
  BY <1>4, TheJobs, StageBecomes, Zenon
<1> QED
  BY <1>1, <1>2, <1>3, <1>5, Zenon DEF Import

LEMMA ChaptersGo ==
  ASSUME Shape, CreateChapters
  PROVE  /\ Running(ImportJob) /\ Import.stage = 2
         /\ UNCHANGED <<bookId, books, scan, tails>>
         /\ Write(ImportJob, books, "chapters", Chapters, 3)
<1>1. /\ At(ImportJob, "chapters") /\ UNCHANGED <<bookId, books, scan, tails>>
      /\ Write(ImportJob, books, "chapters", Chapters, NextStage(ImportJob))
  BY Zenon DEF CreateChapters
<1>2. Running(ImportJob) /\ Import.stage = 2
  BY <1>1, ImportAt, Zenon
<1>3. NextStage(ImportJob) = 3
  BY <1>2 DEF NextStage, Import
<1> QED
  BY <1>1, <1>2, <1>3, Zenon

LEMMA ParagraphsGo ==
  ASSUME Shape, NEW c \in Chapters, CreateParagraphs(c)
  PROVE  \E n \in {3, 4, 7} :
         /\ Running(ImportJob) /\ Import.stage = 3
         /\ UNCHANGED <<bookId, books, scan, tails>>
         /\ \A d \in 1..(c - 1) : <<books, "paragraphs", d>> \in Import.wrote
         /\ <<books, "paragraphs", c>> \notin Import.wrote
         /\ Write(ImportJob, books, "paragraphs", {c}, n)
         /\ (n # 3 => c >= MaxChapter) /\ (n = 4 => series) /\ (n = 7 => ~series)
<1> DEFINE n == IF c < MaxChapter THEN job[ImportJob].stage
                ELSE IF series THEN NextStage(ImportJob) ELSE Len(Stages("imported_book"))
<1>1. /\ At(ImportJob, "paragraphs") /\ UNCHANGED <<bookId, books, scan, tails>>
      /\ \A d \in 1..(c - 1) : <<books, "paragraphs", d>> \in Import.wrote
      /\ <<books, "paragraphs", c>> \notin Import.wrote
      /\ Write(ImportJob, books, "paragraphs", {c}, n)
  BY Zenon DEF CreateParagraphs, Import
<1>2. Running(ImportJob) /\ Import.stage = 3
  BY <1>1, ImportAt, Zenon
<1>3. NextStage(ImportJob) = 4 /\ job[ImportJob].stage = 3
  BY <1>2 DEF NextStage, Import
<1>4. Len(Stages("imported_book")) = 7
  BY ImportStages
<1>5. n = IF c < MaxChapter THEN 3 ELSE IF series THEN 4 ELSE 7
  BY <1>3, <1>4, Zenon
<1> HIDE DEF n
<1>6. n \in {3, 4, 7} /\ (n # 3 => c >= MaxChapter) /\ (n = 4 => series) /\ (n = 7 => ~series)
  BY <1>5, RowsAssumption DEF Chapters
<1> QED
  BY <1>1, <1>2, <1>6

LEMMA CopyGo ==
  ASSUME Shape, NEW kind \in {"categories", "entities"}, CopyPrevious(kind)
  PROVE  /\ Running(ImportJob)
         /\ UNCHANGED <<bookId, books, scan>>
         /\ \/ /\ kind = "categories" /\ Import.stage = 4 /\ tails' = tails
               /\ Write(ImportJob, books, "categories", {"earlier"}, 5)
            \/ /\ kind = "entities" /\ Import.stage = 5
               /\ tails' = tails \cup ({books} \X {"CHARACTER", "PLACE"})
               /\ Write(ImportJob, books, "entities", {"earlier"}, 6)
<1>1. /\ At(ImportJob, kind) /\ UNCHANGED <<bookId, books, scan>>
      /\ Write(ImportJob, books, kind, {"earlier"}, NextStage(ImportJob))
      /\ tails' = IF kind = "entities"
                    THEN tails \cup ({books} \X {"CHARACTER", "PLACE"}) ELSE tails
  BY Zenon DEF CopyPrevious
<1>2. CASE kind = "categories"
  <2>1. Running(ImportJob) /\ Import.stage = 4
    BY <1>1, <1>2, ImportAt, Zenon
  <2>2. NextStage(ImportJob) = 5
    BY <2>1 DEF NextStage, Import
  <2>3. tails' = tails
    BY <1>1, <1>2
  <2> QED
    BY <1>1, <1>2, <2>1, <2>2, <2>3, Zenon
<1>3. CASE kind = "entities"
  <2>1. Running(ImportJob) /\ Import.stage = 5
    BY <1>1, <1>3, ImportAt, Zenon
  <2>2. NextStage(ImportJob) = 6
    BY <2>1 DEF NextStage, Import
  <2> QED
    BY <1>1, <1>3, <2>1, <2>2, Zenon
<1> QED
  BY <1>2, <1>3

\* A call about traits ends: the handler notices if it still waits for it.
LEMMA TraitsGo ==
  ASSUME Shape, NEW t \in tails, CopyTraits(t)
  PROVE  LET new == <<t[1], "traits", t[2]>>
             awaited == Running(ImportJob) /\ Import.stage = 6 /\ t[1] = books
         IN  /\ tails' = tails \ {t} /\ rows' = rows \cup {new}
             /\ doubled' = doubled \cup ({new} \cap rows)
             /\ UNCHANGED <<series, bookId, books, scan, refused, used>>
             /\ awaited => /\ UNCHANGED broken /\ job'[ImportJob].at = "run"
                           /\ job'[ImportJob].wrote = Import.wrote \cup {new}
                           /\ IsLast(t) => job'[ImportJob].stage = 7
                           /\ ~IsLast(t) => job'[ImportJob].stage = 6
                           /\ \A i \in Jobs : i # ImportJob => job'[i] = job[i]
             /\ ~awaited => UNCHANGED job /\ broken' = broken \cup {new}
<1> DEFINE new == <<t[1], "traits", t[2]>>
           awaited == Running(ImportJob) /\ Import.stage = 6 /\ t[1] = books
<1>1. awaited <=> Awaited(t)
  BY ImportAt, Zenon DEF Awaited
<1>2. /\ tails' = tails \ {t} /\ rows' = rows \cup {new}
      /\ doubled' = doubled \cup ({new} \cap rows)
      /\ UNCHANGED <<series, bookId, books, scan, refused, used>>
  BY Zenon DEF CopyTraits
<1>3. ASSUME ~awaited
      PROVE  UNCHANGED job /\ broken' = broken \cup {new}
  BY <1>1, <1>3, Zenon DEF CopyTraits
<1>4. ASSUME awaited
      PROVE  /\ UNCHANGED broken /\ job'[ImportJob].at = "run"
             /\ job'[ImportJob].wrote = Import.wrote \cup {new}
             /\ IsLast(t) => job'[ImportJob].stage = 7
             /\ ~IsLast(t) => job'[ImportJob].stage = 6
             /\ \A i \in Jobs : i # ImportJob => job'[i] = job[i]
  <2>1. PICK K \in Jobs : K = ImportJob
    BY TheJobs
  <2>2. Awaited(t) /\ IsLast(t) \in BOOLEAN
    BY <1>1, <1>4 DEF IsLast
  <2>3. CopiesTo(ImportJob, new, IsLast(t)) /\ UNCHANGED broken
    BY <2>2, Zenon DEF CopyTraits, CopiesTo
  <2>4. CopiesTo(K, new, IsLast(t))
    BY <2>1, <2>3, Zenon
  <2>5. job[K].stage = 6 /\ job[K].at = "run"
    BY <1>4, <2>1, Zenon DEF Import, Running
  <2>6. Len(Stages(K[1])) = 7
    BY <2>1, FirstJob, ImportStages, Zenon
  <2> HIDE DEF new
  <2>7. /\ job'[K].at = job[K].at /\ job'[K].wrote = job[K].wrote \cup {new}
        /\ (IsLast(t) => job'[K].stage = 7) /\ (~IsLast(t) => job'[K].stage = 6)
        /\ \A i \in Jobs : i # K => job'[i] = job[i]
    BY <1>2, <2>2, <2>4, <2>5, <2>6, CopiedJob, Zenon DEF new
  <2> QED
    BY <2>1, <2>3, <2>5, <2>7, Zenon DEF Import
<1> QED
  BY <1>2, <1>3, <1>4, Zenon

LEMMA FailTraitsGo ==
  ASSUME Shape, NEW t \in tails, FailTraits(t)
  PROVE  /\ tails' = tails \ {t} /\ Use("failures")
         /\ UNCHANGED <<series, bookId, books, rows, doubled, scan, refused>>
         /\ \/ /\ Running(ImportJob) /\ Import.stage = 6
               /\ Becomes(ImportJob, "failed", 6, Import.wrote)
               /\ broken' = broken \cup Import.wrote
            \/ /\ UNCHANGED <<job, broken>>
               /\ ~(Running(ImportJob) /\ Import.stage = 6 /\ t[1] = books)
<1>1. /\ tails' = tails \ {t} /\ Use("failures")
      /\ UNCHANGED <<series, bookId, books, rows, doubled, scan, refused>>
  BY Zenon DEF FailTraits
<1>2. CASE Awaited(t)
  <2>1. Running(ImportJob) /\ Import.stage = 6
    BY <1>2, ImportAt, Zenon DEF Awaited
  <2>2. /\ job' = [job EXCEPT ![ImportJob].at = "failed"]
        /\ broken' = broken \cup Import.wrote
    BY <1>2, Zenon DEF FailTraits, Import
  <2>3. Becomes(ImportJob, "failed", job[ImportJob].stage, job[ImportJob].wrote)
    BY <2>2, TheJobs, AtBecomes, Zenon
  <2> QED
    BY <1>1, <2>1, <2>2, <2>3, Zenon DEF Import
<1>3. CASE ~Awaited(t)
  <2>1. UNCHANGED <<job, broken>>
    BY <1>3, Zenon DEF FailTraits
  <2>2. ~(Running(ImportJob) /\ Import.stage = 6 /\ t[1] = books)
    BY <1>3, ImportAt, Zenon DEF Awaited
  <2> QED
    BY <1>1, <2>1, <2>2
<1> QED
  BY <1>2, <1>3

-----------------------------------------------------------------------------
(* The order of the handlers *)

\* A step that begins and completes nothing.
Continues ==
  \A j \in Jobs : /\ job'[j].at # "pending" => job[j].at # "pending"
                  /\ job'[j].at = "completed" <=> job[j].at = "completed"

LEMMA OneContinues ==
  ASSUME NEW j \in Jobs, \A i \in Jobs : i # j => job'[i] = job[i],
         job[j].at = "run", job'[j].at \in {"run", "failed"}
  PROVE  Continues
<1>1. ASSUME NEW i \in Jobs
      PROVE  /\ job'[i].at # "pending" => job[i].at # "pending"
             /\ job'[i].at = "completed" <=> job[i].at = "completed"
  <2>1. CASE i = j
    BY <2>1
  <2>2. CASE i # j
    <3>1. job'[i] = job[i]
      BY <2>2
    <3> QED
      BY <3>1
  <2> QED
    BY <2>1, <2>2
<1> QED
  BY <1>1 DEF Continues

LEMMA WriteContinues ==
  ASSUME Shape, NEW j \in Jobs, Running(j), NEW b, NEW kind, NEW keys,
         NEW stage \in Nat \ {0}, Write(j, b, kind, keys, stage)
  PROVE  /\ Continues
         /\ \A r \in rows' : r \in rows \/ (r[1] = b /\ r[2] = kind)
<1>1. /\ job'[j].at = job[j].at
      /\ \A i \in Jobs : i # j => job'[i] = job[i]
      /\ \A r : r \in rows' <=> r \in rows \/ \E x \in keys : r = <<b, kind, x>>
  BY Statement
<1>2. job[j].at = "run"
  BY DEF Running
<1>3. Continues
  BY <1>1, <1>2, OneContinues
<1>4. \A r \in rows' : r \in rows \/ (r[1] = b /\ r[2] = kind)
  BY <1>1
<1> QED
  BY <1>3, <1>4

LEMMA BecomesContinues ==
  ASSUME NEW j \in Jobs, Running(j), NEW at \in {"run", "failed"}, NEW stage, NEW wrote,
         Becomes(j, at, stage, wrote)
  PROVE  Continues
<1>1. job[j].at = "run" /\ job'[j].at = at /\ \A i \in Jobs : i # j => job'[i] = job[i]
  BY DEF Becomes, Running
<1> QED
  BY <1>1, OneContinues

\* Rows of the later handlers are written only once the book is handed over.
LEMMA OrderContinues ==
  ASSUME Shape, InOrder, Continues,
         UNCHANGED <<books, bookId>> \/ ~Imported,
         \A r \in rows' : r \in rows \/ r[2] \in IMPORT_KINDS \/ Imported
  PROVE  InOrder'
<1>1. Imported' <=> Imported
  BY TheJobs DEF Continues, Imported, Import
<1>2. \A j \in Jobs : job'[j].at # "pending" /\ j # ImportJob => Imported'
  BY <1>1 DEF Continues, InOrder
<1>3. job'[Full].at # "pending" => job'[Preview].at = "completed"
  BY TheJobs DEF Continues, InOrder
<1>4. Imported' => bookId' = books' /\ books' >= 1
  BY <1>1 DEF InOrder
<1>5. ~Imported' => \A r \in rows' : r[2] \in IMPORT_KINDS
  BY <1>1 DEF InOrder
<1> QED
  BY <1>2, <1>3, <1>4, <1>5 DEF InOrder

LEMMA ImportRuns ==
  ASSUME Running(ImportJob)
  PROVE  ~Imported
BY DEF Running, Imported, Import

LEMMA OrderImport ==
  ASSUME Shape, InOrder, ImportStep
  PROVE  InOrder'
<1>1. CASE CreateBook
  <2>1. /\ Running(ImportJob) /\ UNCHANGED rows
        /\ Becomes(ImportJob, "run", 2, Import.wrote)
    BY <1>1, BookGo
  <2>2. Continues
    BY <2>1, TheJobs, BecomesContinues
  <2> QED
    BY <2>1, <2>2, ImportRuns, OrderContinues
<1>2. CASE HandOver
  <2>1. /\ Running(ImportJob) /\ UNCHANGED rows
        /\ Becomes(ImportJob, "run", 8, Import.wrote)
    BY <1>2, HandOverGo
  <2>2. Continues
    BY <2>1, TheJobs, BecomesContinues
  <2> QED
    BY <2>1, <2>2, ImportRuns, OrderContinues
<1>3. ASSUME NEW kind \in IMPORT_KINDS, NEW keys, NEW stage \in Nat \ {0}, Running(ImportJob),
             Write(ImportJob, books, kind, keys, stage)
      PROVE  InOrder'
  <2>1. Continues /\ \A r \in rows' : r \in rows \/ r[2] = kind
    BY <1>3, TheJobs, WriteContinues
  <2> QED
    BY <1>3, <2>1, ImportRuns, OrderContinues
<1>4. CASE CreateChapters
  <2>1. Running(ImportJob) /\ Write(ImportJob, books, "chapters", Chapters, 3)
    BY <1>4, ChaptersGo
  <2>2. "chapters" \in IMPORT_KINDS /\ 3 \in Nat \ {0}
    BY DEF IMPORT_KINDS
  <2> QED
    BY <1>3, <2>1, <2>2
<1>5. ASSUME NEW c \in Chapters, CreateParagraphs(c)
      PROVE  InOrder'
  <2>1. PICK n \in {3, 4, 7} :
           Running(ImportJob) /\ Write(ImportJob, books, "paragraphs", {c}, n)
    BY <1>5, ParagraphsGo, Zenon
  <2>2. "paragraphs" \in IMPORT_KINDS /\ n \in Nat \ {0}
    BY DEF IMPORT_KINDS
  <2> QED
    BY <1>3, <2>1, <2>2
<1>6. ASSUME NEW kind \in {"categories", "entities"}, CopyPrevious(kind)
      PROVE  InOrder'
  <2>1. Running(ImportJob) /\ \E n \in {5, 6} : Write(ImportJob, books, kind, {"earlier"}, n)
    BY <1>6, CopyGo, Zenon
  <2>2. kind \in IMPORT_KINDS /\ \A n \in {5, 6} : n \in Nat \ {0}
    BY DEF IMPORT_KINDS
  <2> QED
    BY <1>3, <2>1, <2>2
<1> QED
  BY <1>1, <1>2, <1>4, <1>5, <1>6 DEF ImportStep

LEMMA OrderTraits ==
  ASSUME Shape, InOrder, TraitsStep
  PROVE  InOrder'
<1>1. PICK t \in tails : CopyTraits(t) \/ FailTraits(t)
  BY DEF TraitsStep
<1>2. CASE CopyTraits(t)
  <2> DEFINE new == <<t[1], "traits", t[2]>>
             awaited == Running(ImportJob) /\ Import.stage = 6 /\ t[1] = books
  <2>1. UNCHANGED <<books, bookId>> /\ rows' = rows \cup {new}
    BY <1>2, TraitsGo, Zenon
  <2>2. \A r \in rows' : r \in rows \/ r[2] \in IMPORT_KINDS
    <3>1. new[2] \in IMPORT_KINDS
      BY DEF IMPORT_KINDS
    <3> QED
      BY <2>1, <3>1
  <2>3. CASE awaited
    <3>1. job'[ImportJob].at = "run" /\ \A i \in Jobs : i # ImportJob => job'[i] = job[i]
      BY <1>2, <2>3, TraitsGo, Zenon
    <3>2. Continues
      BY <2>3, <3>1, TheJobs, OneContinues DEF Running
    <3> QED
      BY <2>1, <2>2, <3>2, OrderContinues
  <2>4. CASE ~awaited
    <3>1. UNCHANGED job
      BY <1>2, <2>4, TraitsGo, Zenon
    <3> QED
      BY <2>1, <2>2, <3>1, OrderContinues DEF Continues
  <2> QED
    BY <2>3, <2>4
<1>3. CASE FailTraits(t)
  <2>1. UNCHANGED <<books, bookId, rows>>
    BY <1>3, FailTraitsGo
  <2>2. Continues
    <3>1. CASE Running(ImportJob) /\ Becomes(ImportJob, "failed", 6, Import.wrote)
      BY <3>1, TheJobs, BecomesContinues
    <3>2. CASE UNCHANGED job
      BY <3>2 DEF Continues
    <3> QED
      BY <1>3, <3>1, <3>2, FailTraitsGo
  <2> QED
    BY <2>1, <2>2, OrderContinues
<1> QED
  BY <1>1, <1>2, <1>3

LEMMA OrderScene ==
  ASSUME Shape, InOrder, NEW j \in {Preview, Full}, SceneStep(j)
  PROVE  InOrder'
<1>1. j \in Jobs /\ j # ImportJob
  BY TheJobs, SceneJobs
<1>2. ASSUME NEW kind, NEW keys, NEW stage \in Nat \ {0}, Running(j),
             Write(j, bookId, kind, keys, stage), UNCHANGED <<books, bookId>>
      PROVE  InOrder'
  <2>1. Continues
    BY <1>1, <1>2, WriteContinues
  <2>2. Imported
    BY <1>1, <1>2, HasBook
  <2> QED
    BY <1>2, <2>1, <2>2, OrderContinues
<1>3. ASSUME NEW at \in {"run", "failed"}, NEW n, Running(j), Becomes(j, at, n, job[j].wrote),
             UNCHANGED <<books, bookId, rows>>
      PROVE  InOrder'
  <2>1. Continues
    BY <1>1, <1>3, BecomesContinues
  <2> QED
    BY <1>3, <2>1, OrderContinues
<1>4. ASSUME NEW found \in SUBSET (Scenes \ scan.known), AskScenes(j, found)
      PROVE  InOrder'
  BY <1>3, <1>4, AsksGo
<1>5. CASE AllKnown(j)
  BY <1>3, <1>5, KnownGo
<1>6. CASE CreateScenes(j)
  <2>1. Running(j) /\ UNCHANGED <<books, bookId>>
    BY <1>6, ScenesGo
  <2>2. CASE Becomes(j, "failed", 2, job[j].wrote) /\ UNCHANGED rows
    BY <1>3, <2>1, <2>2
  <2>3. CASE \E n \in {3, 4} : Write(j, bookId, "scenes", scan.known \ scan.seed, n)
    BY <1>2, <2>1, <2>3
  <2> QED
    BY <1>6, <2>2, <2>3, ScenesGo, Zenon
<1>7. CASE CreateGroups(j)
  <2>1. /\ Running(j) /\ UNCHANGED <<books, bookId>>
        /\ Write(j, bookId, "groups", {c \in Chapters : ScenesOf[c] \cap Written # {}}, 4)
    BY <1>7, GroupsGo, Zenon
  <2>2. 4 \in Nat \ {0}
    OBVIOUS
  <2> QED
    BY <1>2, <2>1, <2>2, Zenon
<1> QED
  BY <1>4, <1>5, <1>6, <1>7 DEF SceneStep

LEMMA OrderTurn ==
  ASSUME Shape, InOrder, Making, NEW j \in Jobs, TurnStep(j)
  PROVE  InOrder'
<1>1. CASE Start(j)
  <2>1. /\ job[j].at = "pending" /\ \A d \in STEP_DEPENDS[j[1]] : StepDone(d)
        /\ job'[j].at = "run" /\ \A i \in Jobs : i # j => job'[i] = job[i]
        /\ UNCHANGED <<bookId, books, rows>>
    <3>1. Becomes(j, "run", job[j].stage, job[j].wrote)
      BY <1>1, StartGo
    <3>2. job'[j].at = "run" /\ \A i \in Jobs : i # j => job'[i] = job[i]
      BY <3>1 DEF Becomes
    <3> QED
      BY <1>1, <3>2, StartGo, Zenon
  <2>2. j # ImportJob => Imported
    <3> SUFFICES ASSUME j # ImportJob
                 PROVE  Imported
      OBVIOUS
    <3>1. j[1] \in REPORTING_STEPS /\ j[1] # "imported_book"
      BY TheJobs, FirstJob
    <3>2. PICK d \in STEP_DEPENDS[j[1]] : d \in REPORTING_STEPS
      BY <3>1, Waits
    <3>3. PICK i \in Jobs : i[1] = d
      BY <3>2, HasJob
    <3>4. job[i].at = "completed"
      BY <2>1, <3>2, <3>3 DEF StepDone
    <3> QED
      BY <3>4 DEF InOrder, Imported, Import
  <2>3. Imported' <=> Imported
    BY <2>1, TheJobs DEF Imported, Import
  <2>4. j = Full => job[Preview].at = "completed"
    <3> SUFFICES ASSUME j = Full
                 PROVE  job[Preview].at = "completed"
      OBVIOUS
    <3>1. StepDone("preliminary_scenes_preview")
      BY <2>1, FullWaits, SceneJobs
    <3> QED
      BY <3>1, TheJobs, SceneJobs DEF StepDone
  <2>5. job'[Preview].at = "completed" <=> job[Preview].at = "completed"
    BY <2>1, TheJobs
  <2>6. job'[Full].at # "pending" => job'[Preview].at = "completed"
    BY <2>1, <2>4, <2>5, TheJobs DEF InOrder
  <2>7. \A i \in Jobs : job'[i].at # "pending" /\ i # ImportJob => Imported'
    BY <2>1, <2>2, <2>3 DEF InOrder
  <2> QED
    BY <2>1, <2>3, <2>6, <2>7 DEF InOrder
<1>2. CASE Complete(j)
  <2>1. /\ Running(j) /\ job[j].stage > Len(Stages(j[1]))
        /\ job'[j].at = "completed" /\ \A i \in Jobs : i # j => job'[i] = job[i]
        /\ UNCHANGED <<bookId, books, rows>>
    BY <1>2, CompleteGo DEF Becomes
  <2>2. job[j].at = "run"
    BY <2>1 DEF Running
  <2>3. Imported => Imported'
    BY <2>1, TheJobs DEF Imported, Import
  <2>4. j # ImportJob => Imported
    BY <2>2 DEF InOrder
  <2>5. \A i \in Jobs : job'[i].at # "pending" /\ i # ImportJob => Imported'
    BY <2>1, <2>3, <2>4 DEF InOrder
  <2>6. job'[Full].at # "pending" => job'[Preview].at = "completed"
    <3>1. job'[Full].at # "pending" => job[Full].at # "pending"
      BY <2>1, <2>2, TheJobs
    <3>2. job[Preview].at = "completed" => job'[Preview].at = "completed"
      BY <2>1, TheJobs
    <3> QED
      BY <3>1, <3>2 DEF InOrder
  <2>7. j = ImportJob => bookId = books /\ books >= 1
    <3> SUFFICES ASSUME j = ImportJob
                 PROVE  bookId = books /\ books >= 1
      OBVIOUS
    <3>1. Len(Stages(ImportJob[1])) = 7
      BY FirstJob, ImportStages, Zenon
    <3>2. Running(ImportJob) /\ job[ImportJob].stage > Len(Stages(ImportJob[1]))
      BY <2>1, Zenon
    <3>3. /\ job[ImportJob].stage <= Len(Stages(ImportJob[1])) + 1
          /\ job[ImportJob].stage \in Nat \ {0}
      BY TheJobs, JobType, Zenon
    <3>4. Import.stage = 8
      BY <3>1, <3>2, <3>3 DEF Import
    <3> QED
      BY <3>2, <3>4 DEF Making
  <2>8. Imported' => bookId = books /\ books >= 1
    BY <2>1, <2>7, TheJobs DEF InOrder, Imported, Import
  <2> QED
    BY <2>1, <2>3, <2>5, <2>6, <2>8 DEF InOrder
<1>3. CASE Fail(j)
  <2>1. /\ Running(j) /\ Becomes(j, "failed", job[j].stage, job[j].wrote)
        /\ UNCHANGED <<books, bookId, rows>>
    BY <1>3, FailGo
  <2>2. Continues
    BY <2>1, BecomesContinues
  <2> QED
    BY <2>1, <2>2, OrderContinues
<1>4. ASSUME NEW stage \in 1..3, Retry(j, stage)
      PROVE  InOrder'
  <2>1. /\ job[j].at = "failed" /\ job'[j].at = "pending"
        /\ \A i \in Jobs : i # j => job'[i] = job[i]
        /\ UNCHANGED <<books, bookId, rows>>
    BY <1>4, RetryGo DEF Becomes
  <2>2. Continues
    <3>1. ASSUME NEW i \in Jobs
          PROVE  /\ job'[i].at # "pending" => job[i].at # "pending"
                 /\ job'[i].at = "completed" <=> job[i].at = "completed"
      <4>1. i = j \/ job'[i] = job[i]
        BY <2>1
      <4> QED
        BY <2>1, <4>1
    <3> QED
      BY <3>1 DEF Continues
  <2> QED
    BY <2>1, <2>2, OrderContinues
<1> QED
  BY <1>1, <1>2, <1>3, <1>4 DEF TurnStep

LEMMA OrderKept ==
  ASSUME Shape, InOrder, Making, [Next]_vars
  PROVE  InOrder'
<1>1. CASE CreateCategories
  <2> DEFINE j == <<"extract_broad_categories", Book>>
             keys == IF \E r \in rows : r[1] = bookId /\ r[2] = "categories"
                       THEN {} ELSE {"all"}
  <2>1. /\ Running(j) /\ UNCHANGED <<bookId, books>>
        /\ Write(j, bookId, "categories", keys, 2)
    BY <1>1, CategoriesGo, Zenon
  <2>2. j \in Jobs /\ "categories" \in IMPORT_KINDS
    BY CategoryJob DEF IMPORT_KINDS
  <2> HIDE DEF j, keys
  <2>3. Continues /\ \A r \in rows' : r \in rows \/ r[2] = "categories"
    BY <2>1, <2>2, WriteContinues
  <2> QED
    BY <2>1, <2>2, <2>3, OrderContinues
<1>2. ASSUME NEW j \in Jobs, j[1] \in INSERT_KINDS, InsertStep(j)
      PROVE  InOrder'
  <2>0. PICK k \in 1..Len(Stages(j[1])) : \E keys :
           /\ Running(j) /\ UNCHANGED <<bookId, books>>
           /\ Write(j, bookId, j[1], keys, k + 1)
    BY <1>2, InsertGo, Zenon
  <2>1. PICK keys :
           /\ Running(j) /\ UNCHANGED <<bookId, books>>
           /\ Write(j, bookId, j[1], keys, k + 1)
    BY <2>0
  <2>2. Imported
    BY <1>2, <2>1, FirstJob, HasBook
  <2>3. k + 1 \in Nat \ {0}
    BY LenStages
  <2>4. Continues
    BY <2>1, <2>3, WriteContinues
  <2> QED
    BY <2>1, <2>2, <2>4, OrderContinues
<1>3. CASE Crash
  <2>1. /\ \A j \in Jobs : job'[j] = Idle \/ job'[j] = job[j]
        /\ \A j \in Jobs : ~Running(j) => job'[j] = job[j]
        /\ UNCHANGED <<bookId, books, rows>>
    BY <1>3, CrashGo
  <2>2. Continues
    <3>1. ASSUME NEW j \in Jobs
          PROVE  /\ job'[j].at # "pending" => job[j].at # "pending"
                 /\ job'[j].at = "completed" <=> job[j].at = "completed"
      <4>1. Idle.at = "pending"
        BY DEF Idle
      <4>2. CASE Running(j)
        BY <2>1, <4>1, <4>2 DEF Running
      <4>3. CASE ~Running(j)
        BY <2>1, <4>3
      <4> QED
        BY <4>2, <4>3
    <3> QED
      BY <3>1 DEF Continues
  <2> QED
    BY <2>1, <2>2, OrderContinues
<1>4. CASE UNCHANGED vars
  BY <1>4, OrderContinues DEF Continues, vars
<1> QED
  BY <1>1, <1>2, <1>3, <1>4, Handlers, OrderImport, OrderTraits, OrderScene, OrderTurn

-----------------------------------------------------------------------------
(* How handlers begin, and what is broken *)

LEMMA BeginsOne ==
  ASSUME Begins, NEW j \in Jobs, \A i \in Jobs : i # j => job'[i] = job[i],
         broken \subseteq broken', BeginsWell(j)'
  PROVE  Begins'
<1>1. ASSUME NEW i \in Jobs, i # j
      PROVE  BeginsWell(i)'
  <2>1. job'[i] = job[i] /\ BeginsWell(i)
    BY <1>1 DEF Begins
  <2> QED
    BY <2>1 DEF BeginsWell
<1> QED
  BY <1>1 DEF Begins

LEMMA BeginsRuns ==
  ASSUME Begins, NEW j \in Jobs, \A i \in Jobs : i # j => job'[i] = job[i],
         broken \subseteq broken', job'[j].at = "run",
         j[1] \notin SCENE_STEPS \/ job'[j].stage \notin {1, 2}, job'[j].stage \in Nat \ {0}
  PROVE  Begins'
<1>1. BeginsWell(j)'
  BY DEF BeginsWell
<1> QED
  BY <1>1, BeginsOne

LEMMA BeginsWrite ==
  ASSUME Shape, Begins, NEW j \in Jobs, Running(j), NEW b, NEW kind, NEW keys,
         NEW stage \in Nat \ {0}, Write(j, b, kind, keys, stage),
         j[1] \notin SCENE_STEPS \/ stage \in {3, 4}
  PROVE  Begins'
<1>1. /\ job'[j].at = job[j].at /\ job'[j].stage = stage
      /\ \A i \in Jobs : i # j => job'[i] = job[i]
      /\ UNCHANGED broken
  BY Statement
<1>2. job'[j].at = "run"
  BY <1>1 DEF Running
<1> QED
  BY <1>1, <1>2, BeginsRuns

LEMMA BeginsImport ==
  ASSUME Shape, Begins, ImportStep
  PROVE  Begins'
<1>1. ImportJob \in Jobs /\ ImportJob[1] \notin SCENE_STEPS
  BY TheJobs, FirstJob
<1>2. ASSUME NEW n \in {2, 8}, Becomes(ImportJob, "run", n, Import.wrote), UNCHANGED broken
      PROVE  Begins'
  BY <1>1, <1>2, BeginsRuns DEF Becomes
<1>3. CASE CreateBook
  BY <1>2, <1>3, BookGo
<1>4. CASE HandOver
  BY <1>2, <1>4, HandOverGo
<1>5. CASE CreateChapters
  <2>1. Running(ImportJob) /\ Write(ImportJob, books, "chapters", Chapters, 3)
    BY <1>5, ChaptersGo
  <2>2. 3 \in Nat \ {0}
    OBVIOUS
  <2> QED
    BY <1>1, <2>1, <2>2, BeginsWrite, Zenon
<1>6. ASSUME NEW c \in Chapters, CreateParagraphs(c)
      PROVE  Begins'
  <2>1. PICK n \in {3, 4, 7} :
           Running(ImportJob) /\ Write(ImportJob, books, "paragraphs", {c}, n)
    BY <1>6, ParagraphsGo, Zenon
  <2>2. n \in Nat \ {0}
    OBVIOUS
  <2> QED
    BY <1>1, <2>1, <2>2, BeginsWrite, Zenon
<1>7. ASSUME NEW kind \in {"categories", "entities"}, CopyPrevious(kind)
      PROVE  Begins'
  <2>1. PICK n \in {5, 6} :
           Running(ImportJob) /\ Write(ImportJob, books, kind, {"earlier"}, n)
    BY <1>7, CopyGo, Zenon
  <2>2. n \in Nat \ {0}
    OBVIOUS
  <2> QED
    BY <1>1, <2>1, <2>2, BeginsWrite, Zenon
<1> QED
  BY <1>3, <1>4, <1>5, <1>6, <1>7 DEF ImportStep

LEMMA BeginsTraits ==
  ASSUME Shape, Begins, TraitsStep
  PROVE  Begins'
<1>1. PICK t \in tails : CopyTraits(t) \/ FailTraits(t)
  BY DEF TraitsStep
<1>2. ImportJob \in Jobs /\ ImportJob[1] \notin SCENE_STEPS
  BY TheJobs, FirstJob
<1>3. ASSUME UNCHANGED job, broken \subseteq broken'
      PROVE  Begins'
  BY <1>3 DEF Begins, BeginsWell
<1>4. CASE CopyTraits(t)
  <2> DEFINE new == <<t[1], "traits", t[2]>>
             awaited == Running(ImportJob) /\ Import.stage = 6 /\ t[1] = books
  <2>1. CASE awaited
    <3>1. /\ UNCHANGED broken /\ job'[ImportJob].at = "run"
          /\ \A i \in Jobs : i # ImportJob => job'[i] = job[i]
          /\ job'[ImportJob].stage = 7 \/ job'[ImportJob].stage = 6
      BY <1>4, <2>1, TraitsGo, Zenon
    <3> QED
      BY <1>2, <3>1, BeginsRuns
  <2>2. CASE ~awaited
    <3>1. UNCHANGED job /\ broken' = broken \cup {new}
      BY <1>4, <2>2, TraitsGo, Zenon
    <3> QED
      BY <1>3, <3>1
  <2> QED
    BY <2>1, <2>2
<1>5. CASE FailTraits(t)
  <2>1. CASE UNCHANGED <<job, broken>>
    BY <1>3, <2>1
  <2>2. CASE /\ Becomes(ImportJob, "failed", 6, Import.wrote)
             /\ broken' = broken \cup Import.wrote
    <3>1. BeginsWell(ImportJob)'
      BY <2>2 DEF Becomes, BeginsWell
    <3> QED
      BY <1>2, <2>2, <3>1, BeginsOne DEF Becomes
  <2> QED
    BY <1>5, <2>1, <2>2, FailTraitsGo
<1> QED
  BY <1>1, <1>4, <1>5

LEMMA BeginsScene ==
  ASSUME Shape, Begins, NEW j \in {Preview, Full}, SceneStep(j)
  PROVE  Begins'
<1>1. j \in Jobs /\ j[1] \in SCENE_STEPS
  BY TheJobs, SceneJobs
<1>2. ASSUME NEW at \in {"run", "failed"}, NEW n \in {1, 2}, Becomes(j, at, n, job[j].wrote),
             Running(j), job[j].stage \in {1, 2}, UNCHANGED broken
      PROVE  Begins'
  <2>1. job[j].wrote = {}
    BY <1>1, <1>2 DEF Begins, BeginsWell, Running
  <2>2. BeginsWell(j)'
    BY <1>2, <2>1 DEF Becomes, BeginsWell
  <2> QED
    BY <1>1, <1>2, <2>2, BeginsOne DEF Becomes
<1>3. ASSUME NEW found \in SUBSET (Scenes \ scan.known), AskScenes(j, found)
      PROVE  Begins'
  <2>1. Running(j) /\ job[j].stage = 1 /\ UNCHANGED broken
    BY <1>3, AsksGo
  <2>2. \E at \in {"run", "failed"}, n \in {1, 2} : Becomes(j, at, n, job[j].wrote)
    BY <1>3, AsksGo
  <2> QED
    BY <1>2, <2>1, <2>2
<1>4. CASE AllKnown(j)
  BY <1>2, <1>4, KnownGo
<1>5. CASE CreateScenes(j)
  <2>1. Running(j) /\ job[j].stage = 2
    BY <1>5, ScenesGo
  <2>2. CASE Becomes(j, "failed", 2, job[j].wrote) /\ UNCHANGED broken
    BY <1>2, <2>1, <2>2
  <2>3. ASSUME NEW n \in {3, 4}, Write(j, bookId, "scenes", scan.known \ scan.seed, n)
        PROVE  Begins'
    <3>1. n \in Nat \ {0}
      OBVIOUS
    <3> QED
      BY <1>1, <2>1, <2>3, <3>1, BeginsWrite, Zenon
  <2>4. CASE Write(j, bookId, "scenes", scan.known \ scan.seed,
                   IF scan.done = Chapters THEN 3 ELSE 4)
    <3>1. \E n \in {3, 4} : n = IF scan.done = Chapters THEN 3 ELSE 4
      OBVIOUS
    <3> QED
      BY <2>3, <2>4, <3>1, Zenon
  <2> QED
    BY <1>5, <2>2, <2>4, ScenesGo, Zenon
<1>6. CASE CreateGroups(j)
  <2>1. /\ Running(j)
        /\ Write(j, bookId, "groups", {c \in Chapters : ScenesOf[c] \cap Written # {}}, 4)
    BY <1>6, GroupsGo, Zenon
  <2>2. 4 \in Nat \ {0} /\ 4 \in {3, 4}
    OBVIOUS
  <2> QED
    BY <1>1, <2>1, <2>2, BeginsWrite, Zenon
<1> QED
  BY <1>3, <1>4, <1>5, <1>6 DEF SceneStep

LEMMA BeginsTurn ==
  ASSUME Shape, Begins, NEW j \in Jobs, TurnStep(j)
  PROVE  Begins'
<1>1. CASE Start(j)
  <2>1. Becomes(j, "run", job[j].stage, job[j].wrote) /\ job[j].at = "pending" /\ UNCHANGED broken
    BY <1>1, StartGo
  <2>2. job[j].wrote = {}
    BY <2>1 DEF Begins, BeginsWell
  <2>3. BeginsWell(j)'
    BY <2>1, <2>2 DEF Becomes, BeginsWell
  <2> QED
    BY <2>1, <2>3, BeginsOne DEF Becomes
<1>2. CASE Complete(j)
  <2>1. Becomes(j, "completed", 1, {}) /\ UNCHANGED broken
    BY <1>2, CompleteGo
  <2>2. BeginsWell(j)'
    BY <2>1 DEF Becomes, BeginsWell
  <2> QED
    BY <2>1, <2>2, BeginsOne DEF Becomes
<1>3. CASE Fail(j)
  <2>1. Becomes(j, "failed", job[j].stage, job[j].wrote) /\ broken' = broken \cup job[j].wrote
    BY <1>3, FailGo
  <2>2. BeginsWell(j)'
    BY <2>1 DEF Becomes, BeginsWell
  <2> QED
    BY <2>1, <2>2, BeginsOne DEF Becomes
<1>4. ASSUME NEW stage \in 1..3, Retry(j, stage)
      PROVE  Begins'
  <2>1. /\ Becomes(j, "pending", stage, {}) /\ UNCHANGED broken
        /\ stage = 1 \/ j[1] \in SCENE_GROUP_STEPS
    BY <1>4, RetryGo
  <2>2. BeginsWell(j)'
    BY <2>1 DEF Becomes, BeginsWell
  <2> QED
    BY <2>1, <2>2, BeginsOne DEF Becomes
<1> QED
  BY <1>1, <1>2, <1>3, <1>4 DEF TurnStep

LEMMA BeginsKept ==
  ASSUME Shape, Begins, [Next]_vars
  PROVE  Begins'
<1>1. CASE CreateCategories
  <2> DEFINE j == <<"extract_broad_categories", Book>>
             keys == IF \E r \in rows : r[1] = bookId /\ r[2] = "categories"
                       THEN {} ELSE {"all"}
  <2>1. Running(j) /\ Write(j, bookId, "categories", keys, 2)
    BY <1>1, CategoriesGo, Zenon
  <2>2. j \in Jobs /\ j[1] \notin SCENE_STEPS /\ 2 \in Nat \ {0}
    BY CategoryJob, SceneJobs
  <2> HIDE DEF j, keys
  <2> QED
    BY <2>1, <2>2, BeginsWrite, Zenon
<1>2. ASSUME NEW j \in Jobs, j[1] \in INSERT_KINDS, InsertStep(j)
      PROVE  Begins'
  <2>0. PICK k \in 1..Len(Stages(j[1])) : \E keys :
           Running(j) /\ Write(j, bookId, j[1], keys, k + 1)
    BY <1>2, InsertGo, Zenon
  <2>1. PICK keys :
           Running(j) /\ Write(j, bookId, j[1], keys, k + 1)
    BY <2>0
  <2>2. k + 1 \in Nat \ {0}
    BY LenStages
  <2>3. j[1] \notin SCENE_STEPS
    BY <1>2 DEF INSERT_KINDS, SCENE_GROUP_STEPS, SCENE_STEPS
  <2> QED
    BY <2>1, <2>2, <2>3, BeginsWrite, Zenon
<1>3. CASE Crash
  <2>1. /\ \A j \in Jobs : job'[j] = Idle \/ job'[j] = job[j]
        /\ broken \subseteq broken'
    BY <1>3, CrashGo
  <2>2. ASSUME NEW j \in Jobs
        PROVE  BeginsWell(j)'
    <3>1. CASE job'[j] = Idle
      BY <3>1 DEF Idle, BeginsWell
    <3>2. CASE job'[j] = job[j]
      BY <2>1, <3>2 DEF Begins, BeginsWell
    <3> QED
      BY <2>1, <3>1, <3>2
  <2> QED
    BY <2>2 DEF Begins
<1>4. CASE UNCHANGED vars
  BY <1>4 DEF Begins, BeginsWell, vars
<1> QED
  BY <1>1, <1>2, <1>3, <1>4, Handlers, BeginsImport, BeginsTraits, BeginsScene, BeginsTurn

-----------------------------------------------------------------------------
(* The book that is being made *)

\* The jobs of the first handler that Making and Fresh are about.
LEMMA ImportType ==
  ASSUME Shape
  PROVE  /\ Import.stage \in 1..8 /\ Import.wrote \subseteq rows
         /\ Running(ImportJob) <=> Import.at = "run"
         /\ Running(ImportJob)' <=> Import'.at = "run"
         /\ \A t \in tails : t = <<t[1], t[2]>> /\ t[1] \in 1..books
<1>1. Len(Stages(ImportJob[1])) = 7
  BY FirstJob, ImportStages, Zenon
<1>2. /\ job[ImportJob].stage \in Nat \ {0} /\ job[ImportJob].wrote \subseteq rows
      /\ job[ImportJob].stage <= Len(Stages(ImportJob[1])) + 1
  BY TheJobs, JobType, Zenon
<1>3. Import.stage \in 1..8 /\ Import.wrote \subseteq rows
  BY <1>1, <1>2 DEF Import
<1>4. /\ Running(ImportJob) <=> Import.at = "run"
      /\ Running(ImportJob)' <=> Import'.at = "run"
  BY DEF Running, Import
<1>5. \A t \in tails : t = <<t[1], t[2]>> /\ t[1] \in 1..books
  BY DEF Shape
<1> QED
  BY <1>3, <1>4, <1>5

LEMMA ImportWrites ==
  ASSUME Shape, NEW b, NEW kind, NEW keys, NEW stage \in Nat \ {0},
         Write(ImportJob, b, kind, keys, stage)
  PROVE  /\ \A r : r \in rows' <=> r \in rows \/ \E x \in keys : r = <<b, kind, x>>
         /\ \A r : r \in Import'.wrote <=>
              r \in Import.wrote \/ \E x \in keys : r = <<b, kind, x>>
         /\ Import'.stage = stage /\ series' = series
<1>1. PICK K \in Jobs : K = ImportJob
  BY TheJobs
<1>2. Write(K, b, kind, keys, stage)
  BY <1>1, Zenon
<1>3. /\ \A r : r \in rows' <=> r \in rows \/ \E x \in keys : r = <<b, kind, x>>
      /\ \A r : r \in job'[K].wrote <=>
           r \in job[K].wrote \/ \E x \in keys : r = <<b, kind, x>>
      /\ job'[K].stage = stage /\ series' = series
  BY <1>2, Statement
<1>4. Import = job[K] /\ Import' = job'[K]
  BY <1>1 DEF Import
<1> QED
  BY <1>3, <1>4, Zenon

LEMMA MadeBook ==
  ASSUME Shape, Fresh, CreateBook
  PROVE  Making' /\ Fresh'
<1>1. /\ books' = books + 1 /\ UNCHANGED <<rows, tails>>
      /\ Becomes(ImportJob, "run", 2, Import.wrote)
  BY BookGo
<1>2. Import'.stage = 2
  BY <1>1 DEF Becomes, Import
<1>3. books' >= 1 /\ \A r \in rows : r[1] # books'
  BY <1>1 DEF Shape
<1>4. \A t \in tails : t[1] # books'
  BY <1>1, ImportType DEF Shape
<1>5. Making'
  BY <1>2, <1>3 DEF Making
<1>6. Fresh'
  BY <1>1, <1>3, <1>4 DEF Fresh
<1> QED
  BY <1>5, <1>6

LEMMA MadeHandOver ==
  ASSUME Shape, Making, Fresh, HandOver
  PROVE  Making' /\ Fresh'
<1>1. /\ Running(ImportJob) /\ Import.stage = 7 /\ bookId' = books
      /\ UNCHANGED <<series, books, rows, tails>>
      /\ Becomes(ImportJob, "run", 8, Import.wrote)
  BY HandOverGo
<1>2. Import'.stage = 8
  BY <1>1 DEF Becomes, Import
<1>3. Making'
  BY <1>1, <1>2 DEF Making
<1>4. Fresh'
  BY <1>1, <1>2 DEF Fresh
<1> QED
  BY <1>3, <1>4

LEMMA MadeChapters ==
  ASSUME Shape, Making, Fresh, CreateChapters
  PROVE  Making' /\ Fresh'
<1>1. /\ Running(ImportJob) /\ Import.stage = 2 /\ UNCHANGED <<bookId, books, tails>>
      /\ Write(ImportJob, books, "chapters", Chapters, 3)
  BY ChaptersGo
<1>2. 3 \in Nat \ {0}
  OBVIOUS
<1>3. /\ \A r : r \in rows' <=> r \in rows \/ \E x \in Chapters : r = <<books, "chapters", x>>
      /\ Import'.stage = 3 /\ series' = series
  BY <1>1, <1>2, ImportWrites, Zenon
<1>4. Import'.stage = 3
  BY <1>3
<1>5. Making'
  BY <1>1, <1>3, <1>4 DEF Making
<1>6. Fresh'
  <2>1. ASSUME NEW r \in rows', r[1] = books
        PROVE  r[2] \notin {"categories", "entities", "traits", "paragraphs"}
    <3>1. CASE r \in rows
      BY <1>1, <2>1, <3>1 DEF Fresh
    <3>2. CASE r \notin rows
      BY <1>3, <3>2
    <3> QED
      BY <3>1, <3>2
  <2>2. \A t \in tails' : <<t[1], "traits", t[2]>> \notin rows'
    <3>1. \A t \in tails : <<t[1], "traits", t[2]>> \notin rows
      BY DEF Fresh
    <3>2. \A x, y, z : <<x, "traits", y>> # <<books, "chapters", z>>
      OBVIOUS
    <3>3. ASSUME NEW x, NEW y, <<x, "traits", y>> \in rows'
          PROVE  <<x, "traits", y>> \in rows
      <4>1. \/ <<x, "traits", y>> \in rows
            \/ \E z \in Chapters : <<x, "traits", y>> = <<books, "chapters", z>>
        BY <1>3, <3>3, Zenon
      <4> QED
        BY <3>2, <4>1, Zenon
    <3> QED
      BY <1>1, <3>1, <3>3
  <2>3. \A t \in tails' : t[1] # books'
    BY <1>1 DEF Fresh
  <2> QED
    BY <1>1, <1>4, <2>1, <2>2, <2>3 DEF Fresh
<1> QED
  BY <1>5, <1>6

LEMMA MadeParagraphs ==
  ASSUME Shape, Making, Fresh, NEW c \in Chapters, CreateParagraphs(c)
  PROVE  Making' /\ Fresh'
<1>1. PICK n \in {3, 4, 7} :
        /\ Running(ImportJob) /\ Import.stage = 3
        /\ UNCHANGED <<bookId, books, scan, tails>>
        /\ \A d \in 1..(c - 1) : <<books, "paragraphs", d>> \in Import.wrote
        /\ <<books, "paragraphs", c>> \notin Import.wrote
        /\ Write(ImportJob, books, "paragraphs", {c}, n)
        /\ (n # 3 => c >= MaxChapter) /\ (n = 4 => series) /\ (n = 7 => ~series)
  BY ParagraphsGo
<1>2. n \in Nat \ {0}
  OBVIOUS
<1>3. /\ \A r : r \in rows' <=> r \in rows \/ \E x \in {c} : r = <<books, "paragraphs", x>>
      /\ \A r : r \in Import'.wrote <=>
           r \in Import.wrote \/ \E x \in {c} : r = <<books, "paragraphs", x>>
      /\ Import'.stage = n /\ series' = series
  BY <1>1, <1>2, ImportWrites, Zenon
<1>4. Import'.stage = n
  BY <1>3
<1>5. n # 3 => \A d \in Chapters : <<books, "paragraphs", d>> \in rows'
  <2> SUFFICES ASSUME n # 3, NEW d \in Chapters
               PROVE  <<books, "paragraphs", d>> \in rows'
    OBVIOUS
  <2>1. d = c \/ d \in 1..(c - 1)
    BY <1>1, RowsAssumption DEF Chapters
  <2>2. Import.wrote \subseteq rows
    BY ImportType
  <2> QED
    BY <1>1, <1>3, <2>1, <2>2
<1>6. \A d \in Chapters : <<books, "chapters", d>> \in rows'
  BY <1>1, <1>3 DEF Making
<1>7. Making'
  BY <1>1, <1>3, <1>4, <1>5, <1>6 DEF Making
<1>8. Fresh'
  <2>1. ASSUME NEW r \in rows', r[1] = books
        PROVE  /\ r[2] \notin {"categories", "entities", "traits"}
               /\ r[2] = "paragraphs" => r \in Import'.wrote
    <3>1. CASE r \in rows
      BY <1>1, <1>3, <2>1, <3>1 DEF Fresh
    <3>2. CASE r \notin rows
      BY <1>3, <3>2
    <3> QED
      BY <3>1, <3>2
  <2>2. \A t \in tails' : <<t[1], "traits", t[2]>> \notin rows'
    <3>1. \A t \in tails : <<t[1], "traits", t[2]>> \notin rows
      BY DEF Fresh
    <3> QED
      BY <1>1, <1>3, <3>1
  <2>3. \A t \in tails' : t[1] # books'
    BY <1>1 DEF Fresh
  <2> QED
    BY <1>1, <1>4, <2>1, <2>2, <2>3 DEF Fresh
<1> QED
  BY <1>7, <1>8

LEMMA MadeCopies ==
  ASSUME Shape, Making, Fresh, NEW kind \in {"categories", "entities"}, CopyPrevious(kind)
  PROVE  Making' /\ Fresh'
<1>1. Running(ImportJob) /\ UNCHANGED <<bookId, books, scan>>
  BY CopyGo
<1>2. CASE /\ kind = "categories" /\ Import.stage = 4 /\ tails' = tails
           /\ Write(ImportJob, books, "categories", {"earlier"}, 5)
  <2>1. 5 \in Nat \ {0}
    OBVIOUS
  <2>2. /\ \A r : r \in rows' <=>
             r \in rows \/ \E x \in {"earlier"} : r = <<books, "categories", x>>
        /\ Import'.stage = 5 /\ series' = series
    BY <1>2, <2>1, ImportWrites, Zenon
  <2>3. Import'.stage = 5
    BY <2>2
  <2>4. \A d \in Chapters : /\ <<books, "chapters", d>> \in rows'
                           /\ <<books, "paragraphs", d>> \in rows'
    BY <1>1, <1>2, <2>2 DEF Making
  <2>5. Making'
    BY <1>1, <1>2, <2>2, <2>3, <2>4 DEF Making
  <2>6. Fresh'
    <3>1. ASSUME NEW r \in rows', r[1] = books
          PROVE  r[2] \notin {"entities", "traits"}
      <4>1. CASE r \in rows
        BY <1>1, <1>2, <3>1, <4>1 DEF Fresh
      <4>2. CASE r \notin rows
        BY <2>2, <4>2
      <4> QED
        BY <4>1, <4>2
    <3>2. \A t \in tails' : <<t[1], "traits", t[2]>> \notin rows'
      <4>1. \A t \in tails : <<t[1], "traits", t[2]>> \notin rows
        BY DEF Fresh
      <4> QED
        BY <1>2, <2>2, <4>1
    <3>3. \A t \in tails' : t[1] # books'
      BY <1>1, <1>2 DEF Fresh
    <3> QED
      BY <1>1, <2>3, <3>1, <3>2, <3>3 DEF Fresh
  <2> QED
    BY <2>5, <2>6
<1>3. CASE /\ kind = "entities" /\ Import.stage = 5
           /\ tails' = tails \cup ({books} \X {"CHARACTER", "PLACE"})
           /\ Write(ImportJob, books, "entities", {"earlier"}, 6)
  <2>1. 6 \in Nat \ {0}
    OBVIOUS
  <2>2. /\ \A r : r \in rows' <=>
             r \in rows \/ \E x \in {"earlier"} : r = <<books, "entities", x>>
        /\ Import'.stage = 6 /\ series' = series
    BY <1>3, <2>1, ImportWrites, Zenon
  <2>3. Import'.stage = 6
    BY <2>2
  <2>4. \A d \in Chapters : /\ <<books, "chapters", d>> \in rows'
                           /\ <<books, "paragraphs", d>> \in rows'
    BY <1>1, <1>3, <2>2 DEF Making
  <2>5. /\ <<books, "categories", "earlier">> \in rows'
        /\ <<books, "entities", "earlier">> \in rows'
    BY <1>1, <1>3, <2>2 DEF Making
  <2>6. \A type \in {"CHARACTER", "PLACE"} : <<books, type>> \in tails'
    BY <1>3
  <2>7. Making'
    BY <1>1, <1>3, <2>2, <2>3, <2>4, <2>5, <2>6 DEF Making
  <2>8. Fresh'
    <3>1. \A t \in tails' : <<t[1], "traits", t[2]>> \notin rows
      <4>1. \A t \in tails : <<t[1], "traits", t[2]>> \notin rows
        BY DEF Fresh
      <4>2. \A x : <<books, "traits", x>> \notin rows
        BY <1>1, <1>3 DEF Fresh
      <4> QED
        BY <1>3, <4>1, <4>2
    <3>2. \A t \in tails' : <<t[1], "traits", t[2]>> \notin rows'
      BY <2>2, <3>1
    <3> QED
      BY <1>1, <2>3, <3>2 DEF Fresh
  <2> QED
    BY <2>7, <2>8
<1> QED
  BY <1>2, <1>3, CopyGo

LEMMA MadeTraits ==
  ASSUME Shape, Making, Fresh, NEW t \in tails, CopyTraits(t)
  PROVE  Making' /\ Fresh'
<1> DEFINE new == <<t[1], "traits", t[2]>>
           awaited == Running(ImportJob) /\ Import.stage = 6 /\ t[1] = books
<1>1. /\ tails' = tails \ {t} /\ rows' = rows \cup {new}
      /\ UNCHANGED <<series, bookId, books>>
  BY TraitsGo, Zenon
<1>2. t = <<t[1], t[2]>> /\ \A u \in tails : u = <<u[1], u[2]>>
  BY ImportType
<1>3. \A u \in tails' : <<u[1], "traits", u[2]>> \notin rows'
  <2>1. ASSUME NEW u \in tails, u # t
        PROVE  <<u[1], "traits", u[2]>> # new
    BY <1>2, <2>1
  <2>2. \A u \in tails : <<u[1], "traits", u[2]>> \notin rows
    BY DEF Fresh
  <2> QED
    BY <1>1, <2>1, <2>2
<1>4. new[1] = t[1] /\ new[2] = "traits" /\ new = <<t[1], "traits", t[2]>>
  OBVIOUS
<1>5. CASE awaited
  <2>1. /\ job'[ImportJob].wrote = Import.wrote \cup {new}
        /\ (IsLast(t) => job'[ImportJob].stage = 7)
        /\ (~IsLast(t) => job'[ImportJob].stage = 6)
    BY <1>5, TraitsGo, Zenon
  <2>2. /\ Import'.wrote = Import.wrote \cup {new}
        /\ (IsLast(t) => Import'.stage = 7) /\ (~IsLast(t) => Import'.stage = 6)
    BY <2>1, Zenon DEF Import
  <2> HIDE DEF new
  <2>3. \A d \in Chapters : /\ <<books, "chapters", d>> \in rows'
                            /\ <<books, "paragraphs", d>> \in rows'
    BY <1>1, <1>5 DEF Making
  <2>4. /\ books >= 1 /\ series
        /\ <<books, "categories", "earlier">> \in rows'
        /\ <<books, "entities", "earlier">> \in rows'
    BY <1>1, <1>5 DEF Making
  <2>5. ASSUME NEW type \in {"CHARACTER", "PLACE"}
        PROVE  <<books, "traits", type>> \in rows' \/ <<books, type>> \in tails'
    <3>1. <<books, "traits", type>> \in rows \/ <<books, type>> \in tails
      BY <1>5, <2>4, <2>5 DEF Making
    <3>2. CASE <<books, type>> = t
      <4>1. t[1] = books /\ t[2] = type
        BY <3>2
      <4>2. new = <<books, "traits", type>>
        BY <1>4, <4>1
      <4> QED
        BY <1>1, <4>2
    <3> QED
      BY <1>1, <3>1, <3>2
  <2>6. CASE IsLast(t)
    <3>1. \A u \in tails' : u[1] # books
      <4>1. {u \in tails : u[1] = t[1]} = {t}
        BY <2>6 DEF IsLast
      <4> QED
        BY <1>1, <1>5, <4>1
    <3>2. ASSUME NEW type \in {"CHARACTER", "PLACE"}
          PROVE  <<books, "traits", type>> \in rows'
      <4>1. <<books, type>> \notin tails'
        BY <3>1
      <4> QED
        BY <2>5, <4>1
    <3>3. Making'
      <4>1. Import'.stage = 7 /\ books' = books /\ series' = series
        BY <1>1, <2>2, <2>6
      <4>2. \A type \in {"CHARACTER", "PLACE"} : <<books', "traits", type>> \in rows'
        BY <3>2, <4>1
      <4>3. /\ \A d \in Chapters : <<books', "chapters", d>> \in rows'
            /\ \A d \in Chapters : <<books', "paragraphs", d>> \in rows'
            /\ books' >= 1 /\ series'
            /\ <<books', "categories", "earlier">> \in rows'
            /\ <<books', "entities", "earlier">> \in rows'
        BY <2>3, <2>4, <4>1
      <4> QED
        BY <4>1, <4>2, <4>3 DEF Making
    <3>4. Fresh'
      BY <1>1, <1>3, <2>2, <2>6, <3>1 DEF Fresh
    <3> QED
      BY <3>3, <3>4
  <2>7. CASE ~IsLast(t)
    <3>1. Making'
      <4>1. Import'.stage = 6 /\ books' = books /\ series' = series
        BY <1>1, <2>2, <2>7
      <4>2. \A type \in {"CHARACTER", "PLACE"} :
              <<books', "traits", type>> \in rows' \/ <<books', type>> \in tails'
        BY <2>5, <4>1
      <4>3. /\ \A d \in Chapters : <<books', "chapters", d>> \in rows'
            /\ \A d \in Chapters : <<books', "paragraphs", d>> \in rows'
            /\ books' >= 1 /\ series'
            /\ <<books', "categories", "earlier">> \in rows'
            /\ <<books', "entities", "earlier">> \in rows'
        BY <2>3, <2>4, <4>1
      <4> QED
        BY <4>1, <4>2, <4>3 DEF Making
    <3>2. Fresh'
      BY <1>1, <1>3, <2>2, <2>7 DEF Fresh
    <3> QED
      BY <3>1, <3>2
  <2> QED
    BY <2>6, <2>7
<1>6. CASE ~awaited
  <2>1. UNCHANGED job
    BY <1>6, TraitsGo, Zenon
  <2>2. Import' = Import /\ Running(ImportJob)' = Running(ImportJob)
    BY <2>1 DEF Import, Running
  <2>3. ~(Running(ImportJob) /\ Import.stage >= 2 /\ t[1] = books)
    <3>1. Running(ImportJob) /\ Import.stage >= 2 /\ t[1] = books => Import.stage = 6
      BY DEF Fresh
    <3> QED
      BY <1>6, <3>1
  <2> HIDE DEF new
  <2>4. Making'
    <3> SUFFICES ASSUME Running(ImportJob), Import.stage >= 2
                 PROVE  Making'
      BY <2>2 DEF Making
    <3>1. \A u \in tails : u[1] = books => u \in tails'
      BY <1>1, <2>3
    <3>2. \A type : <<books, type>> \in tails => <<books, type>> \in tails'
      BY <3>1
    <3> QED
      BY <1>1, <2>2, <3>2 DEF Making
  <2>5. Fresh'
    <3>1. ASSUME Running(ImportJob), Import.stage >= 2, NEW r \in rows', r[1] = books
          PROVE  r \in rows
      BY <1>1, <1>4, <2>3, <3>1
    <3> QED
      BY <1>1, <1>3, <2>2, <3>1 DEF Fresh
  <2> QED
    BY <2>4, <2>5
<1> QED
  BY <1>5, <1>6

\* Steps of the others do not touch the book that is being made.
LEMMA MadeElse ==
  ASSUME Making, Fresh, UNCHANGED <<series, bookId, books>>,
         Import' = Import, rows \subseteq rows', tails' \subseteq tails,
         Running(ImportJob) => UNCHANGED <<rows, tails>>,
         \A r \in rows' : r \in rows \/ r[2] # "traits"
  PROVE  Making' /\ Fresh'
<1>1. Running(ImportJob)' <=> Running(ImportJob)
  BY DEF Running, Import
<1>2. Making'
  BY <1>1 DEF Making
<1>3. \A t \in tails' : <<t[1], "traits", t[2]>> \notin rows'
  <2>1. \A x, y : <<x, "traits", y>>[2] = "traits"
    OBVIOUS
  <2> QED
    BY <2>1 DEF Fresh
<1>4. Fresh'
  BY <1>1, <1>3 DEF Fresh
<1> QED
  BY <1>2, <1>4

\* When the first handler does not run, nothing is being made.
LEMMA MadeNot ==
  ASSUME Fresh, UNCHANGED rows, tails' \subseteq tails, ~Running(ImportJob)'
  PROVE  Making' /\ Fresh'
BY DEF Making, Fresh

LEMMA MadeWrites ==
  ASSUME Shape, InOrder, Making, Fresh, NEW j \in Jobs, j # ImportJob, Running(j),
         NEW kind, NEW keys, kind # "traits", NEW stage \in Nat \ {0},
         Write(j, bookId, kind, keys, stage), UNCHANGED <<bookId, books, tails>>
  PROVE  Making' /\ Fresh'
<1>1. ~Running(ImportJob)
  BY HasBook, ImportRuns
<1>2. /\ \A r : r \in rows' <=> r \in rows \/ \E x \in keys : r = <<bookId, kind, x>>
      /\ \A i \in Jobs : i # j => job'[i] = job[i]
      /\ UNCHANGED series
  BY Statement
<1>3. Import' = Import
  BY <1>2, TheJobs DEF Import
<1>4. rows \subseteq rows' /\ \A r \in rows' : r \in rows \/ r[2] # "traits"
  BY <1>2
<1> QED
  BY <1>1, <1>3, <1>4, <1>2, MadeElse

LEMMA MadeScene ==
  ASSUME Shape, InOrder, Making, Fresh, NEW j \in {Preview, Full}, SceneStep(j)
  PROVE  Making' /\ Fresh'
<1>1. j \in Jobs /\ j # ImportJob
  BY TheJobs, SceneJobs
<1>2. ASSUME NEW at, NEW n, Becomes(j, at, n, job[j].wrote),
             UNCHANGED <<series, bookId, books, rows, tails>>
      PROVE  Making' /\ Fresh'
  <2>1. Import' = Import
    BY <1>1, <1>2, TheJobs DEF Becomes, Import
  <2> QED
    BY <1>2, <2>1, MadeElse
<1>3. ASSUME NEW found \in SUBSET (Scenes \ scan.known), AskScenes(j, found)
      PROVE  Making' /\ Fresh'
  <2>1. UNCHANGED <<series, bookId, books, rows, tails>>
    BY <1>3, AsksGo
  <2>2. \E at \in {"run", "failed"}, n \in {1, 2} : Becomes(j, at, n, job[j].wrote)
    BY <1>3, AsksGo
  <2> QED
    BY <1>2, <2>1, <2>2
<1>4. CASE AllKnown(j)
  BY <1>2, <1>4, KnownGo
<1>5. CASE CreateScenes(j)
  <2>1. Running(j) /\ UNCHANGED <<bookId, books, tails>>
    BY <1>5, ScenesGo
  <2>2. CASE Becomes(j, "failed", 2, job[j].wrote) /\ UNCHANGED <<series, rows>>
    BY <1>2, <2>1, <2>2
  <2>3. CASE Write(j, bookId, "scenes", scan.known \ scan.seed,
                   IF scan.done = Chapters THEN 3 ELSE 4)
    <3> DEFINE n == IF scan.done = Chapters THEN 3 ELSE 4
    <3>1. n \in Nat \ {0} /\ "scenes" # "traits"
      OBVIOUS
    <3> HIDE DEF n
    <3> QED
      BY <1>1, <2>1, <2>3, <3>1, MadeWrites DEF n
  <2> QED
    BY <1>5, <2>2, <2>3, ScenesGo, Zenon
<1>6. CASE CreateGroups(j)
  <2>1. /\ Running(j) /\ UNCHANGED <<bookId, books, tails>>
        /\ Write(j, bookId, "groups", {c \in Chapters : ScenesOf[c] \cap Written # {}}, 4)
    BY <1>6, GroupsGo, Zenon
  <2>2. 4 \in Nat \ {0} /\ "groups" # "traits"
    OBVIOUS
  <2> QED
    BY <1>1, <2>1, <2>2, MadeWrites, Zenon
<1> QED
  BY <1>3, <1>4, <1>5, <1>6 DEF SceneStep

LEMMA MadeTurn ==
  ASSUME Shape, Begins, Making, Fresh, NEW j \in Jobs, TurnStep(j)
  PROVE  Making' /\ Fresh'
<1>1. UNCHANGED <<series, bookId, books, rows, tails>>
  BY StartGo, CompleteGo, FailGo, RetryGo DEF TurnStep
<1>2. \A i \in Jobs : i # j => job'[i] = job[i]
  BY StartGo, CompleteGo, FailGo, RetryGo DEF TurnStep, Becomes
<1>3. CASE j # ImportJob
  <2>1. Import' = Import
    BY <1>2, <1>3, TheJobs DEF Import
  <2> QED
    BY <1>1, <2>1, MadeElse
<1>4. CASE j = ImportJob
  <2>1. CASE Start(j)
    <3>1. job[j].at = "pending" /\ Becomes(j, "run", job[j].stage, job[j].wrote)
      BY <2>1, StartGo
    <3>2. job[j].stage = 1
      BY <1>4, <3>1, FirstJob DEF Begins, BeginsWell, SCENE_GROUP_STEPS
    <3>3. Import'.stage = 1
      BY <1>4, <3>1, <3>2 DEF Becomes, Import
    <3>4. Making'
      BY <3>3 DEF Making
    <3>5. Fresh'
      BY <1>1, <3>3 DEF Fresh
    <3> QED
      BY <3>4, <3>5
  <2>2. CASE ~Start(j)
    <3>1. \E at \in {"completed", "failed", "pending"} : job'[j].at = at
      <4>1. ASSUME NEW at, NEW stage, NEW wrote, Becomes(j, at, stage, wrote)
            PROVE  job'[j].at = at
        BY <4>1 DEF Becomes
      <4>2. CASE Complete(j)
        BY <4>1, <4>2, CompleteGo
      <4>3. CASE Fail(j)
        BY <4>1, <4>3, FailGo
      <4>4. CASE \E stage \in 1..3 : Retry(j, stage)
        BY <4>1, <4>4, RetryGo
      <4> QED
        BY <2>2, <4>2, <4>3, <4>4 DEF TurnStep
    <3>2. ~Running(ImportJob)'
      BY <1>4, <3>1 DEF Running
    <3> QED
      BY <1>1, <3>2, MadeNot
  <2> QED
    BY <2>1, <2>2
<1> QED
  BY <1>3, <1>4

\* A call that the handler does not wait for may go.
LEMMA MadeWithout ==
  ASSUME Shape, Making, Fresh, NEW t \in tails, tails' = tails \ {t},
         UNCHANGED <<series, bookId, books, rows, job>>,
         ~(Running(ImportJob) /\ Import.stage = 6 /\ t[1] = books)
  PROVE  Making' /\ Fresh'
<1>1. Import' = Import /\ Running(ImportJob)' = Running(ImportJob)
  BY DEF Import, Running
<1>2. Making'
  <2> SUFFICES ASSUME Running(ImportJob), Import.stage >= 2
               PROVE  Making'
    BY <1>1 DEF Making
  <2>1. Import.stage = 6 => \A type : <<books, type>> \in tails => <<books, type>> \in tails'
    OBVIOUS
  <2> QED
    BY <1>1, <2>1 DEF Making
<1>3. Fresh'
  BY <1>1 DEF Fresh
<1> QED
  BY <1>2, <1>3

LEMMA MadeKept ==
  ASSUME Shape, InOrder, Begins, Making, Fresh, [Next]_vars
  PROVE  Making' /\ Fresh'
<1>1. CASE CreateCategories
  <2> DEFINE j == <<"extract_broad_categories", Book>>
             keys == IF \E r \in rows : r[1] = bookId /\ r[2] = "categories"
                       THEN {} ELSE {"all"}
  <2>1. /\ Running(j) /\ UNCHANGED <<bookId, books, tails>>
        /\ Write(j, bookId, "categories", keys, 2)
    BY <1>1, CategoriesGo, Zenon
  <2>2. j \in Jobs /\ j # ImportJob /\ 2 \in Nat \ {0} /\ "categories" # "traits"
    BY CategoryJob
  <2> HIDE DEF j, keys
  <2> QED
    BY <2>1, <2>2, MadeWrites, Zenon
<1>2. ASSUME NEW j \in Jobs, j[1] \in INSERT_KINDS, InsertStep(j)
      PROVE  Making' /\ Fresh'
  <2>0. PICK k \in 1..Len(Stages(j[1])) : \E keys :
           /\ Running(j) /\ UNCHANGED <<bookId, books, tails>>
           /\ Write(j, bookId, j[1], keys, k + 1)
    BY <1>2, InsertGo, Zenon
  <2>1. PICK keys :
           /\ Running(j) /\ UNCHANGED <<bookId, books, tails>>
           /\ Write(j, bookId, j[1], keys, k + 1)
    BY <2>0
  <2>2. j # ImportJob /\ j[1] # "traits"
    BY <1>2, FirstJob DEF INSERT_KINDS, SCENE_GROUP_STEPS
  <2>3. k + 1 \in Nat \ {0}
    BY LenStages
  <2> QED
    BY <2>1, <2>2, <2>3, MadeWrites, Zenon
<1>3. CASE Crash
  <2>1. /\ \A j \in Jobs : (Running(j) => job'[j] = Idle) /\ (~Running(j) => job'[j] = job[j])
        /\ tails' = {} /\ UNCHANGED rows
    BY <1>3, CrashGo
  <2>2. ~Running(ImportJob)'
    BY <2>1, TheJobs DEF Running, Idle
  <2> QED
    BY <2>1, <2>2, MadeNot
<1>4. CASE UNCHANGED vars
  <2>1. UNCHANGED <<series, bookId, books, rows, tails>> /\ Import' = Import
    BY <1>4 DEF vars, Import
  <2> QED
    BY <2>1, MadeElse
<1>5. CASE TraitsStep
  <2>1. PICK t \in tails : CopyTraits(t) \/ FailTraits(t)
    BY <1>5 DEF TraitsStep
  <2>2. CASE FailTraits(t)
    <3>1. tails' = tails \ {t} /\ UNCHANGED <<series, bookId, books, rows>>
      BY <2>2, FailTraitsGo
    <3>2. CASE Becomes(ImportJob, "failed", 6, Import.wrote)
      <4>1. ~Running(ImportJob)'
        BY <3>2 DEF Becomes, Running
      <4> QED
        BY <3>1, <4>1, MadeNot
    <3>3. CASE UNCHANGED job /\ ~(Running(ImportJob) /\ Import.stage = 6 /\ t[1] = books)
      BY <3>1, <3>3, MadeWithout
    <3> QED
      BY <2>2, <3>2, <3>3, FailTraitsGo
  <2> QED
    BY <2>1, <2>2, MadeTraits
<1>6. CASE ImportStep
  BY <1>6, MadeBook, MadeHandOver, MadeChapters, MadeParagraphs, MadeCopies DEF ImportStep
<1> QED
  BY <1>1, <1>2, <1>3, <1>4, <1>5, <1>6, Handlers, MadeScene, MadeTurn

-----------------------------------------------------------------------------
(* What no step does *)

\* Rows stay, what is broken stays broken, and only the end of the first
\* handler names another book.
Grows ==
  /\ rows \subseteq rows' /\ broken \subseteq broken' /\ series' = series
  /\ bookId' = bookId \/ HandOver

LEMMA WriteGrows ==
  ASSUME Shape, NEW j \in Jobs, NEW b, NEW kind, NEW keys, NEW stage \in Nat \ {0},
         Write(j, b, kind, keys, stage), bookId' = bookId
  PROVE  Grows
<1>1. /\ \A r : r \in rows' <=> r \in rows \/ \E x \in keys : r = <<b, kind, x>>
      /\ UNCHANGED <<series, broken>>
  BY Statement
<1> QED
  BY <1>1 DEF Grows

LEMMA ImportGrows ==
  ASSUME Shape, ImportStep
  PROVE  Grows
<1>1. CASE CreateBook
  <2>1. UNCHANGED <<series, bookId, rows, broken>>
    BY <1>1, BookGo
  <2> QED
    BY <2>1 DEF Grows
<1>2. CASE HandOver
  <2>1. UNCHANGED <<series, rows, broken>>
    BY <1>2, HandOverGo
  <2> QED
    BY <1>2, <2>1 DEF Grows
<1>3. CASE CreateChapters
  <2>1. bookId' = bookId /\ Write(ImportJob, books, "chapters", Chapters, 3)
    BY <1>3, ChaptersGo
  <2>2. ImportJob \in Jobs /\ 3 \in Nat \ {0}
    BY TheJobs
  <2> QED
    BY <2>1, <2>2, WriteGrows, Zenon
<1>4. ASSUME NEW c \in Chapters, CreateParagraphs(c)
      PROVE  Grows
  <2>1. PICK n \in {3, 4, 7} : bookId' = bookId /\ Write(ImportJob, books, "paragraphs", {c}, n)
    BY <1>4, ParagraphsGo, Zenon
  <2>2. ImportJob \in Jobs /\ n \in Nat \ {0}
    BY TheJobs
  <2> QED
    BY <2>1, <2>2, WriteGrows, Zenon
<1>5. ASSUME NEW kind \in {"categories", "entities"}, CopyPrevious(kind)
      PROVE  Grows
  <2>1. PICK n \in {5, 6} : bookId' = bookId /\ Write(ImportJob, books, kind, {"earlier"}, n)
    BY <1>5, CopyGo, Zenon
  <2>2. ImportJob \in Jobs /\ n \in Nat \ {0}
    BY TheJobs
  <2> QED
    BY <2>1, <2>2, WriteGrows, Zenon
<1> QED
  BY <1>1, <1>2, <1>3, <1>4, <1>5 DEF ImportStep

LEMMA SceneGrows ==
  ASSUME Shape, NEW j \in {Preview, Full}, SceneStep(j)
  PROVE  Grows
<1>1. j \in Jobs
  BY TheJobs
<1>2. ASSUME UNCHANGED <<series, bookId, rows, broken>>
      PROVE  Grows
  BY <1>2 DEF Grows
<1>3. ASSUME NEW found \in SUBSET (Scenes \ scan.known), AskScenes(j, found)
      PROVE  Grows
  BY <1>2, <1>3, AsksGo
<1>4. CASE AllKnown(j)
  BY <1>2, <1>4, KnownGo
<1>5. CASE CreateScenes(j)
  <2>1. bookId' = bookId
    BY <1>5, ScenesGo
  <2>2. CASE UNCHANGED <<series, rows, broken>>
    BY <1>2, <2>1, <2>2
  <2>3. CASE \E n \in {3, 4} : Write(j, bookId, "scenes", scan.known \ scan.seed, n)
    BY <1>1, <2>1, <2>3, WriteGrows
  <2> QED
    BY <1>5, <2>2, <2>3, ScenesGo, Zenon
<1>6. CASE CreateGroups(j)
  <2>1. /\ bookId' = bookId
        /\ Write(j, bookId, "groups", {c \in Chapters : ScenesOf[c] \cap Written # {}}, 4)
    BY <1>6, GroupsGo, Zenon
  <2>2. 4 \in Nat \ {0}
    OBVIOUS
  <2> QED
    BY <1>1, <2>1, <2>2, WriteGrows, Zenon
<1> QED
  BY <1>3, <1>4, <1>5, <1>6 DEF SceneStep

LEMMA ItGrows ==
  ASSUME Shape, [Next]_vars
  PROVE  Grows
<1>1. CASE TraitsStep
  <2>1. PICK t \in tails : CopyTraits(t) \/ FailTraits(t)
    BY <1>1 DEF TraitsStep
  <2>2. CASE CopyTraits(t)
    <3>1. /\ rows' = rows \cup {<<t[1], "traits", t[2]>>} /\ UNCHANGED <<series, bookId>>
          /\ broken' = broken \/ broken' = broken \cup {<<t[1], "traits", t[2]>>}
      BY <2>2, TraitsGo, Zenon
    <3> QED
      BY <3>1 DEF Grows
  <2>3. CASE FailTraits(t)
    <3>1. UNCHANGED <<series, bookId, rows>> /\ broken \subseteq broken'
      BY <2>3, FailTraitsGo
    <3> QED
      BY <3>1 DEF Grows
  <2> QED
    BY <2>1, <2>2, <2>3
<1>2. CASE CreateCategories
  <2> DEFINE j == <<"extract_broad_categories", Book>>
             keys == IF \E r \in rows : r[1] = bookId /\ r[2] = "categories"
                       THEN {} ELSE {"all"}
  <2>1. bookId' = bookId /\ Write(j, bookId, "categories", keys, 2)
    BY <1>2, CategoriesGo, Zenon
  <2>2. j \in Jobs /\ 2 \in Nat \ {0}
    BY CategoryJob
  <2> HIDE DEF j, keys
  <2> QED
    BY <2>1, <2>2, WriteGrows, Zenon
<1>3. CASE Crash
  <2>1. UNCHANGED <<series, bookId, rows>> /\ broken \subseteq broken'
    BY <1>3, CrashGo
  <2> QED
    BY <2>1 DEF Grows
<1>4. CASE UNCHANGED vars
  BY <1>4 DEF Grows, vars
<1>5. ASSUME NEW j \in Jobs, InsertStep(j)
      PROVE  Grows
  <2>0. PICK k \in 1..Len(Stages(j[1])) : \E keys :
           bookId' = bookId /\ Write(j, bookId, j[1], keys, k + 1)
    BY <1>5, InsertGo, Zenon
  <2>1. PICK keys : bookId' = bookId /\ Write(j, bookId, j[1], keys, k + 1)
    BY <2>0
  <2>2. k + 1 \in Nat \ {0}
    BY LenStages
  <2> QED
    BY <2>1, <2>2, WriteGrows, Zenon
<1>6. ASSUME NEW j \in Jobs, TurnStep(j)
      PROVE  Grows
  <2>1. UNCHANGED <<series, bookId, rows>>
    BY <1>6, StartGo, CompleteGo, FailGo, RetryGo DEF TurnStep
  <2>2. broken \subseteq broken'
    BY <1>6, StartGo, CompleteGo, FailGo, RetryGo DEF TurnStep
  <2> QED
    BY <2>1, <2>2 DEF Grows
<1> QED
  BY <1>1, <1>2, <1>3, <1>4, <1>5, <1>6, Handlers, ImportGrows, SceneGrows

-----------------------------------------------------------------------------
(* The book that is handed over *)

LEMMA HandedOverKept ==
  ASSUME Shape, Making, HandedOverWhole, [Next]_vars
  PROVE  HandedOverWhole'
<1>1. Grows
  BY ItGrows
<1>2. CASE bookId' = bookId
  BY <1>1, <1>2 DEF Grows, HandedOverWhole
<1>3. CASE HandOver
  <2>1. /\ Running(ImportJob) /\ Import.stage = 7 /\ bookId' = books
        /\ UNCHANGED <<series, rows>>
    BY <1>3, HandOverGo
  <2>2. /\ \A c \in Chapters : <<books, "chapters", c>> \in rows
        /\ \A c \in Chapters : <<books, "paragraphs", c>> \in rows
        /\ series => /\ <<books, "categories", "earlier">> \in rows
                     /\ <<books, "entities", "earlier">> \in rows
                     /\ \A type \in {"CHARACTER", "PLACE"} : <<books, "traits", type>> \in rows
    BY <2>1 DEF Making
  <2> QED
    BY <2>1, <2>2 DEF HandedOverWhole
<1> QED
  BY <1>1, <1>2, <1>3 DEF Grows

-----------------------------------------------------------------------------
(* The rows that are there twice *)

\* A statement whose rows are all new doubles none.
LEMMA AllNew ==
  ASSUME Shape, NEW j \in Jobs, NEW b, NEW kind, NEW keys, NEW stage \in Nat \ {0},
         Write(j, b, kind, keys, stage), \A x \in keys : <<b, kind, x>> \notin rows
  PROVE  doubled' = doubled
<1>1. \A r : r \in doubled' <=>
        r \in doubled \/ (r \in rows /\ \E x \in keys : r = <<b, kind, x>>)
  BY Statement
<1> QED
  BY <1>1

LEMMA ImportNew ==
  ASSUME Shape, Fresh, ImportStep
  PROVE  doubled' = doubled
<1>1. CASE CreateBook \/ HandOver
  BY <1>1, BookGo, HandOverGo
<1>2. ImportJob \in Jobs
  BY TheJobs
<1>3. CASE CreateChapters
  <2>1. /\ Running(ImportJob) /\ Import.stage = 2
        /\ Write(ImportJob, books, "chapters", Chapters, 3)
    BY <1>3, ChaptersGo
  <2>2. \A x \in Chapters : <<books, "chapters", x>> \notin rows
    BY <2>1 DEF Fresh
  <2>3. 3 \in Nat \ {0}
    OBVIOUS
  <2> QED
    BY <1>2, <2>1, <2>2, <2>3, AllNew, Zenon
<1>4. ASSUME NEW c \in Chapters, CreateParagraphs(c)
      PROVE  doubled' = doubled
  <2>1. PICK n \in {3, 4, 7} :
          /\ Running(ImportJob) /\ Import.stage = 3
          /\ <<books, "paragraphs", c>> \notin Import.wrote
          /\ Write(ImportJob, books, "paragraphs", {c}, n)
    BY <1>4, ParagraphsGo, Zenon
  <2>2. <<books, "paragraphs", c>> \notin rows
    BY <2>1 DEF Fresh
  <2>3. \A x \in {c} : <<books, "paragraphs", x>> \notin rows
    BY <2>2
  <2>4. n \in Nat \ {0}
    OBVIOUS
  <2> QED
    BY <1>2, <2>1, <2>3, <2>4, AllNew
<1>5. ASSUME NEW kind \in {"categories", "entities"}, CopyPrevious(kind)
      PROVE  doubled' = doubled
  <2>1. CASE /\ Running(ImportJob) /\ Import.stage = 4
             /\ Write(ImportJob, books, "categories", {"earlier"}, 5)
    <3>1. <<books, "categories", "earlier">> \notin rows
      BY <2>1 DEF Fresh
    <3>2. \A x \in {"earlier"} : <<books, "categories", x>> \notin rows
      BY <3>1
    <3>3. 5 \in Nat \ {0}
      OBVIOUS
    <3> QED
      BY <1>2, <2>1, <3>2, <3>3, AllNew
  <2>2. CASE /\ Running(ImportJob) /\ Import.stage = 5
             /\ Write(ImportJob, books, "entities", {"earlier"}, 6)
    <3>1. <<books, "entities", "earlier">> \notin rows
      BY <2>2 DEF Fresh
    <3>2. \A x \in {"earlier"} : <<books, "entities", x>> \notin rows
      BY <3>1
    <3>3. 6 \in Nat \ {0}
      OBVIOUS
    <3> QED
      BY <1>2, <2>2, <3>2, <3>3, AllNew
  <2> QED
    BY <1>5, <2>1, <2>2, CopyGo, Zenon
<1> QED
  BY <1>1, <1>3, <1>4, <1>5 DEF ImportStep

LEMMA SceneNew ==
  ASSUME Shape, Scanned, NEW j \in {Preview, Full}, SceneStep(j)
  PROVE  doubled' = doubled
<1>1. j \in Jobs
  BY TheJobs
<1>2. Reads(j)
  BY DEF Scanned
<1>3. ASSUME NEW found \in SUBSET (Scenes \ scan.known), AskScenes(j, found)
      PROVE  doubled' = doubled
  BY <1>3, AsksGo
<1>4. CASE AllKnown(j)
  BY <1>4, KnownGo
<1>5. CASE CreateScenes(j)
  <2>1. CASE \E n \in {3, 4} : Write(j, bookId, "scenes", scan.known \ scan.seed, n)
    <3>1. PICK n \in {3, 4} : Write(j, bookId, "scenes", scan.known \ scan.seed, n)
      BY <2>1
    <3>2. scan.seed = Written
      <4>1. Running(j) /\ job[j].stage = 2
        BY <1>5, ScenesGo
      <4> QED
        BY <1>2, <4>1 DEF Reads
    <3>3. \A x \in scan.known \ scan.seed : x \in Scenes /\ x \notin Written
      BY <3>2 DEF Shape
    <3>4. \A x \in scan.known \ scan.seed : <<bookId, "scenes", x>> \notin rows
      BY <3>3 DEF Written
    <3>5. n \in Nat \ {0}
      OBVIOUS
    <3> QED
      BY <1>1, <3>1, <3>4, <3>5, AllNew
  <2>2. CASE UNCHANGED doubled
    BY <2>2
  <2> QED
    BY <1>5, <2>1, <2>2, ScenesGo, Zenon
<1>6. CASE CreateGroups(j)
  <2> DEFINE keys == {c \in Chapters : ScenesOf[c] \cap Written # {}}
  <2>1. /\ Running(j) /\ job[j].stage = 3 /\ Write(j, bookId, "groups", keys, 4)
    BY <1>6, GroupsGo, Zenon
  <2>2. \A c \in keys : <<bookId, "groups", c>> \notin rows
    BY <1>2, <2>1 DEF Reads, GroupRow
  <2>3. 4 \in Nat \ {0}
    OBVIOUS
  <2> HIDE DEF keys
  <2> QED
    BY <1>1, <2>1, <2>2, <2>3, AllNew, Zenon
<1> QED
  BY <1>3, <1>4, <1>5, <1>6 DEF SceneStep

\* The others insert at their own stage, whatever an earlier attempt left there.
LEMMA InsertNew ==
  ASSUME Shape, Accounted, NEW j \in Jobs, j[1] \in INSERT_KINDS, InsertStep(j)
  PROVE  \A r \in doubled' : r \in doubled \/ (r \in broken /\ r[2] \in INSERT_KINDS)
<1>1. PICK k \in 1..Len(Stages(j[1])) : \E keys \in SUBSET {<<Stages(j[1])[k], j[2]>>} :
        /\ Running(j) /\ job[j].stage = k /\ Write(j, bookId, j[1], keys, k + 1)
  BY InsertGo, Zenon
<1>2. PICK keys \in SUBSET {<<Stages(j[1])[k], j[2]>>} :
        /\ Running(j) /\ job[j].stage = k /\ Write(j, bookId, j[1], keys, k + 1)
  BY <1>1
<1>3. k \in Nat
  BY LenStages
<1>4. \A r : r \in doubled' <=>
        r \in doubled \/ (r \in rows /\ \E x \in keys : r = <<bookId, j[1], x>>)
  <2>1. k + 1 \in Nat \ {0}
    BY <1>3
  <2> QED
    BY <1>2, <2>1, Statement
<1>5. ASSUME NEW r \in rows, NEW x \in keys, r = <<bookId, j[1], x>>
      PROVE  r \in broken /\ r[2] \in INSERT_KINDS
  <2>1. r = Inserts(j, k)
    BY <1>5 DEF Inserts
  <2>2. job[j].at # "completed"
    BY <1>2 DEF Running
  <2>3. ~(job[j].stage > k)
    BY <1>2, <1>3
  <2>4. r \in broken
    BY <2>1, <2>2, <2>3 DEF Accounted
  <2> QED
    BY <1>5, <2>4
<1> QED
  BY <1>4, <1>5

LEMMA CategoriesNew ==
  ASSUME Shape, CreateCategories
  PROVE  doubled' = doubled
<1> DEFINE j == <<"extract_broad_categories", Book>>
           keys == IF \E r \in rows : r[1] = bookId /\ r[2] = "categories"
                     THEN {} ELSE {"all"}
<1>1. Write(j, bookId, "categories", keys, 2)
  BY CategoriesGo, Zenon
<1>2. j \in Jobs /\ 2 \in Nat \ {0}
  BY CategoryJob
<1>3. \A x \in keys : <<bookId, "categories", x>> \notin rows
  OBVIOUS
<1> HIDE DEF j, keys
<1> QED
  BY <1>1, <1>2, <1>3, AllNew, Zenon

LEMMA DoubledKept ==
  ASSUME Shape, Fresh, Scanned, Accounted, DoubledHasACause, [Next]_vars
  PROVE  DoubledHasACause'
<1>1. \A r \in doubled' : r \in doubled \/ (r \in broken /\ r[2] \in INSERT_KINDS)
  <2>1. CASE TraitsStep
    <3>1. PICK t \in tails : CopyTraits(t) \/ FailTraits(t)
      BY <2>1 DEF TraitsStep
    <3>2. CASE CopyTraits(t)
      <4>1. doubled' = doubled \cup ({<<t[1], "traits", t[2]>>} \cap rows)
        BY <3>2, TraitsGo, Zenon
      <4>2. <<t[1], "traits", t[2]>> \notin rows
        BY DEF Fresh
      <4> QED
        BY <4>1, <4>2
    <3>3. CASE FailTraits(t)
      BY <3>3, FailTraitsGo
    <3> QED
      BY <3>1, <3>2, <3>3
  <2>2. CASE Crash
    BY <2>2, CrashGo
  <2>3. CASE UNCHANGED vars
    BY <2>3 DEF vars
  <2>4. ASSUME NEW j \in Jobs, TurnStep(j)
        PROVE  doubled' = doubled
    BY <2>4, StartGo, CompleteGo, FailGo, RetryGo DEF TurnStep
  <2>5. ASSUME doubled' = doubled
        PROVE  \A r \in doubled' : r \in doubled \/ (r \in broken /\ r[2] \in INSERT_KINDS)
    BY <2>5
  <2>6. CASE ImportStep \/ CreateCategories \/ \E j \in {Preview, Full} : SceneStep(j)
    BY <2>5, <2>6, ImportNew, CategoriesNew, SceneNew
  <2>7. ASSUME NEW j \in Jobs, j[1] \in INSERT_KINDS, InsertStep(j)
        PROVE  \A r \in doubled' : r \in doubled \/ (r \in broken /\ r[2] \in INSERT_KINDS)
    BY <2>7, InsertNew
  <2> QED
    BY <2>1, <2>2, <2>3, <2>4, <2>5, <2>6, <2>7, Handlers
<1>2. broken \subseteq broken'
  BY ItGrows DEF Grows
<1> QED
  BY <1>1, <1>2 DEF DoubledHasACause, INSERT_KINDS

-----------------------------------------------------------------------------
(* What has become of the rows that are inserted without a look *)

\* A handler inserts different rows at its stages, and shares them with no other.
LEMMA InsertsDiffer ==
  ASSUME NEW i \in Jobs, NEW j \in Jobs, i[1] \in INSERT_KINDS, j[1] \in INSERT_KINDS,
         NEW k \in 1..Len(Stages(i[1])), NEW l \in 1..Len(Stages(j[1])),
         Inserts(i, k) = Inserts(j, l)
  PROVE  i = j /\ k = l
<1>1. /\ i[1] = j[1] /\ i[2] = j[2] /\ Stages(i[1])[k] = Stages(j[1])[l]
  BY DEF Inserts
<1>2. i = j
  BY <1>1, TheJobs
<1>3. j[1] \in {"extract_appellations", "extract_entity_attributes", "extract_relationships",
                "extract_styles"}
  BY DEF INSERT_KINDS, SCENE_GROUP_STEPS
<1>4. CASE j[1] \in {"extract_relationships", "extract_styles"}
  <2>1. Len(Stages(j[1])) = 1
    BY <1>4, OtherStages
  <2> QED
    BY <1>2, <2>1
<1>5. CASE j[1] = "extract_appellations"
  BY <1>1, <1>2, <1>5, OtherStages
<1>6. CASE j[1] = "extract_entity_attributes"
  BY <1>1, <1>2, <1>6, OtherStages
<1> QED
  BY <1>2, <1>3, <1>4, <1>5, <1>6

LEMMA AccountedElse ==
  ASSUME Accounted, Grows, bookId' = bookId,
         \A j \in Jobs : j[1] \in INSERT_KINDS => job'[j] = job[j],
         \A r \in rows' : r \in rows \/ r[2] \notin INSERT_KINDS
  PROVE  Accounted'
<1> SUFFICES ASSUME NEW j \in Jobs, j[1] \in INSERT_KINDS, NEW k \in 1..Len(Stages(j[1])),
                    Inserts(j, k)' \in rows'
             PROVE  \/ Inserts(j, k)' \in broken' \/ job'[j].at = "completed"
                    \/ /\ Running(j)' /\ job'[j].stage > k
                       /\ Inserts(j, k)' \in job'[j].wrote
  BY DEF Accounted
<1>1. Inserts(j, k)' = Inserts(j, k) /\ Inserts(j, k)[2] = j[1]
  BY DEF Inserts
<1>2. Inserts(j, k) \in rows
  BY <1>1
<1>3. Running(j)' <=> Running(j)
  BY DEF Running
<1> QED
  BY <1>1, <1>2, <1>3 DEF Accounted, Grows

LEMMA AccountedWrite ==
  ASSUME Shape, Accounted, NEW j \in Jobs, j[1] \notin INSERT_KINDS,
         NEW b, NEW kind, kind \notin INSERT_KINDS, NEW keys, NEW stage \in Nat \ {0},
         Write(j, b, kind, keys, stage), bookId' = bookId
  PROVE  Accounted'
<1>1. /\ \A r : r \in rows' <=> r \in rows \/ \E x \in keys : r = <<b, kind, x>>
      /\ \A i \in Jobs : i # j => job'[i] = job[i]
  BY Statement
<1>2. Grows
  BY WriteGrows
<1>3. \A r \in rows' : r \in rows \/ r[2] \notin INSERT_KINDS
  BY <1>1
<1>4. \A i \in Jobs : i[1] \in INSERT_KINDS => job'[i] = job[i]
  BY <1>1
<1> QED
  BY <1>2, <1>3, <1>4, AccountedElse

LEMMA AccountedImport ==
  ASSUME Shape, InOrder, Accounted, ImportStep
  PROVE  Accounted'
<1>1. ImportJob \in Jobs /\ ImportJob[1] \notin INSERT_KINDS
  BY TheJobs, FirstJob
<1>2. \A kind \in IMPORT_KINDS : kind \notin INSERT_KINDS
  BY DEF IMPORT_KINDS, INSERT_KINDS, SCENE_GROUP_STEPS
<1>3. CASE CreateBook
  <2>1. UNCHANGED <<bookId, rows>> /\ Becomes(ImportJob, "run", 2, Import.wrote)
    BY <1>3, BookGo
  <2>2. \A j \in Jobs : j[1] \in INSERT_KINDS => job'[j] = job[j]
    BY <1>1, <2>1 DEF Becomes
  <2> QED
    BY <1>3, <2>1, <2>2, ImportGrows, AccountedElse
<1>4. CASE HandOver
  <2>1. Running(ImportJob) /\ UNCHANGED rows
    BY <1>4, HandOverGo
  <2>2. \A r \in rows' : r[2] \notin INSERT_KINDS
    BY <1>2, <2>1, ImportRuns DEF InOrder
  <2>3. \A j \in Jobs : \A k : Inserts(j, k)'[2] = j[1]
    BY DEF Inserts
  <2> QED
    BY <2>2, <2>3 DEF Accounted
<1>5. CASE CreateChapters
  <2>1. bookId' = bookId /\ Write(ImportJob, books, "chapters", Chapters, 3)
    BY <1>5, ChaptersGo
  <2>2. "chapters" \notin INSERT_KINDS /\ 3 \in Nat \ {0}
    BY <1>2 DEF IMPORT_KINDS
  <2> QED
    BY <1>1, <2>1, <2>2, AccountedWrite
<1>6. ASSUME NEW c \in Chapters, CreateParagraphs(c)
      PROVE  Accounted'
  <2>1. PICK n \in {3, 4, 7} : bookId' = bookId /\ Write(ImportJob, books, "paragraphs", {c}, n)
    BY <1>6, ParagraphsGo, Zenon
  <2>2. "paragraphs" \notin INSERT_KINDS /\ n \in Nat \ {0}
    BY <1>2 DEF IMPORT_KINDS
  <2> QED
    BY <1>1, <2>1, <2>2, AccountedWrite
<1>7. ASSUME NEW kind \in {"categories", "entities"}, CopyPrevious(kind)
      PROVE  Accounted'
  <2>1. PICK n \in {5, 6} : bookId' = bookId /\ Write(ImportJob, books, kind, {"earlier"}, n)
    BY <1>7, CopyGo, Zenon
  <2>2. kind \notin INSERT_KINDS /\ n \in Nat \ {0}
    BY <1>2 DEF IMPORT_KINDS
  <2> QED
    BY <1>1, <2>1, <2>2, AccountedWrite
<1> QED
  BY <1>3, <1>4, <1>5, <1>6, <1>7 DEF ImportStep

LEMMA AccountedScene ==
  ASSUME Shape, Accounted, NEW j \in {Preview, Full}, SceneStep(j)
  PROVE  Accounted'
<1>1. j \in Jobs /\ j[1] \notin INSERT_KINDS /\ "scenes" \notin INSERT_KINDS
      /\ "groups" \notin INSERT_KINDS
  BY TheJobs, SceneJobs DEF INSERT_KINDS, SCENE_GROUP_STEPS
<1>2. ASSUME NEW at, NEW n, Becomes(j, at, n, job[j].wrote), UNCHANGED <<bookId, rows>>
      PROVE  Accounted'
  <2>1. \A i \in Jobs : i[1] \in INSERT_KINDS => job'[i] = job[i]
    BY <1>1, <1>2 DEF Becomes
  <2> QED
    BY <1>2, <2>1, SceneGrows, AccountedElse
<1>3. ASSUME NEW found \in SUBSET (Scenes \ scan.known), AskScenes(j, found)
      PROVE  Accounted'
  <2>1. UNCHANGED <<bookId, rows>>
    BY <1>3, AsksGo
  <2>2. \E at \in {"run", "failed"}, n \in {1, 2} : Becomes(j, at, n, job[j].wrote)
    BY <1>3, AsksGo
  <2> QED
    BY <1>2, <2>1, <2>2
<1>4. CASE AllKnown(j)
  BY <1>2, <1>4, KnownGo
<1>5. CASE CreateScenes(j)
  <2>1. bookId' = bookId
    BY <1>5, ScenesGo
  <2>2. CASE Becomes(j, "failed", 2, job[j].wrote) /\ UNCHANGED rows
    BY <1>2, <2>1, <2>2
  <2>3. CASE \E n \in {3, 4} : Write(j, bookId, "scenes", scan.known \ scan.seed, n)
    BY <1>1, <2>1, <2>3, AccountedWrite
  <2> QED
    BY <1>5, <2>2, <2>3, ScenesGo, Zenon
<1>6. CASE CreateGroups(j)
  <2>1. /\ bookId' = bookId
        /\ Write(j, bookId, "groups", {c \in Chapters : ScenesOf[c] \cap Written # {}}, 4)
    BY <1>6, GroupsGo, Zenon
  <2>2. 4 \in Nat \ {0}
    OBVIOUS
  <2> QED
    BY <1>1, <2>1, <2>2, AccountedWrite, Zenon
<1> QED
  BY <1>3, <1>4, <1>5, <1>6 DEF SceneStep

\* The row of the stage is in what the handler wrote, and the stage is over.
LEMMA AccountedInsert ==
  ASSUME Shape, Accounted, NEW j \in Jobs, j[1] \in INSERT_KINDS, InsertStep(j)
  PROVE  Accounted'
<1>1. PICK k \in 1..Len(Stages(j[1])) : \E keys \in SUBSET {<<Stages(j[1])[k], j[2]>>} :
        /\ Running(j) /\ job[j].stage = k /\ UNCHANGED bookId
        /\ Write(j, bookId, j[1], keys, k + 1)
  BY InsertGo, Zenon
<1>2. PICK keys \in SUBSET {<<Stages(j[1])[k], j[2]>>} :
        /\ Running(j) /\ job[j].stage = k /\ UNCHANGED bookId
        /\ Write(j, bookId, j[1], keys, k + 1)
  BY <1>1
<1>3. k \in Nat /\ \A i \in Jobs : \A l \in 1..Len(Stages(i[1])) : l \in Nat
  BY LenStages
<1>4. k + 1 \in Nat \ {0}
  BY <1>3
<1>5. /\ \A r : r \in rows' <=> r \in rows \/ \E x \in keys : r = <<bookId, j[1], x>>
      /\ \A r : r \in job'[j].wrote <=>
           r \in job[j].wrote \/ \E x \in keys : r = <<bookId, j[1], x>>
      /\ job'[j].at = job[j].at /\ job'[j].stage = k + 1
      /\ \A i \in Jobs : i # j => job'[i] = job[i]
      /\ UNCHANGED broken
  BY <1>2, <1>4, Statement
<1>6. \A x \in keys : <<bookId, j[1], x>> = Inserts(j, k)
  BY DEF Inserts
<1> SUFFICES ASSUME NEW i \in Jobs, i[1] \in INSERT_KINDS, NEW l \in 1..Len(Stages(i[1])),
                    Inserts(i, l)' \in rows'
             PROVE  \/ Inserts(i, l)' \in broken' \/ job'[i].at = "completed"
                    \/ /\ Running(i)' /\ job'[i].stage > l
                       /\ Inserts(i, l)' \in job'[i].wrote
  BY DEF Accounted
<1>7. Inserts(i, l)' = Inserts(i, l)
  BY <1>2 DEF Inserts
<1>8. job[j].at = "run" /\ Running(j)' /\ (i # j => (Running(i)' <=> Running(i)))
  BY <1>2, <1>5 DEF Running
<1>9. CASE Inserts(i, l) \in rows
  <2>1. \/ Inserts(i, l) \in broken \/ job[i].at = "completed"
        \/ Running(i) /\ job[i].stage > l /\ Inserts(i, l) \in job[i].wrote
    BY <1>9 DEF Accounted
  <2>2. CASE i = j
    BY <1>2, <1>3, <1>5, <1>7, <1>8, <2>1, <2>2
  <2>3. CASE i # j
    BY <1>5, <1>7, <1>8, <2>1, <2>3
  <2> QED
    BY <2>2, <2>3
<1>10. CASE Inserts(i, l) \notin rows
  <2>1. PICK x \in keys : Inserts(i, l) = <<bookId, j[1], x>>
    BY <1>5, <1>7, <1>10
  <2>2. Inserts(i, l) = Inserts(j, k)
    BY <1>6, <2>1
  <2>3. i = j /\ l = k
    BY <2>2, InsertsDiffer
  <2>4. Inserts(i, l) \in job'[j].wrote
    BY <1>5, <2>1
  <2> QED
    BY <1>3, <1>5, <1>7, <1>8, <2>3, <2>4
<1> QED
  BY <1>9, <1>10

LEMMA AccountedTurn ==
  ASSUME Shape, Begins, Accounted, NEW j \in Jobs, TurnStep(j), Grows
  PROVE  Accounted'
<1>1. UNCHANGED <<bookId, rows>> /\ \A i \in Jobs : i # j => job'[i] = job[i]
  BY StartGo, CompleteGo, FailGo, RetryGo DEF TurnStep, Becomes
<1>2. broken \subseteq broken'
  BY DEF Grows
<1> SUFFICES ASSUME NEW i \in Jobs, i[1] \in INSERT_KINDS, NEW l \in 1..Len(Stages(i[1])),
                    Inserts(i, l)' \in rows'
             PROVE  \/ Inserts(i, l)' \in broken' \/ job'[i].at = "completed"
                    \/ /\ Running(i)' /\ job'[i].stage > l
                       /\ Inserts(i, l)' \in job'[i].wrote
  BY DEF Accounted
<1>3. Inserts(i, l)' = Inserts(i, l) /\ Inserts(i, l) \in rows
  BY <1>1 DEF Inserts
<1>4. \/ Inserts(i, l) \in broken \/ job[i].at = "completed"
      \/ Running(i) /\ job[i].stage > l /\ Inserts(i, l) \in job[i].wrote
  BY <1>3 DEF Accounted
<1>5. CASE i # j
  <2>1. job'[i] = job[i] /\ Running(i)' = Running(i)
    BY <1>1, <1>5 DEF Running
  <2> QED
    BY <1>2, <1>3, <1>4, <2>1
<1>6. CASE i = j
  <2>1. CASE Start(j)
    <3>1. job[j].at = "pending"
      BY <2>1, StartGo
    <3>2. Inserts(i, l) \in broken
      BY <1>4, <1>6, <3>1 DEF Running
    <3> QED
      BY <1>2, <1>3, <3>2
  <2>2. CASE Complete(j)
    <3>1. job'[j].at = "completed"
      BY <2>2, CompleteGo DEF Becomes
    <3> QED
      BY <1>6, <3>1
  <2>3. CASE Fail(j)
    <3>1. Running(j) /\ broken' = broken \cup job[j].wrote
      BY <2>3, FailGo
    <3>2. Inserts(i, l) \in broken'
      BY <1>4, <1>6, <3>1 DEF Running
    <3> QED
      BY <1>3, <3>2
  <2>4. CASE \E stage \in 1..3 : Retry(j, stage)
    <3>1. job[j].at = "failed"
      BY <2>4, RetryGo
    <3>2. Inserts(i, l) \in broken
      BY <1>4, <1>6, <3>1 DEF Running
    <3> QED
      BY <1>2, <1>3, <3>2
  <2> QED
    BY <2>1, <2>2, <2>3, <2>4 DEF TurnStep
<1> QED
  BY <1>5, <1>6

LEMMA AccountedCrash ==
  ASSUME Shape, Accounted, Crash
  PROVE  Accounted'
<1>1. /\ \A j \in Jobs : /\ Running(j) => job'[j] = Idle /\ job[j].wrote \subseteq broken'
                         /\ ~Running(j) => job'[j] = job[j]
      /\ broken \subseteq broken' /\ UNCHANGED <<bookId, rows>>
  BY CrashGo
<1> SUFFICES ASSUME NEW i \in Jobs, i[1] \in INSERT_KINDS, NEW l \in 1..Len(Stages(i[1])),
                    Inserts(i, l)' \in rows'
             PROVE  Inserts(i, l)' \in broken' \/ job'[i].at = "completed"
  BY DEF Accounted
<1>2. Inserts(i, l)' = Inserts(i, l) /\ Inserts(i, l) \in rows
  BY <1>1 DEF Inserts
<1>3. \/ Inserts(i, l) \in broken \/ job[i].at = "completed"
      \/ Running(i) /\ Inserts(i, l) \in job[i].wrote
  BY <1>2 DEF Accounted
<1>4. job[i].at = "completed" => ~Running(i)
  BY DEF Running
<1> QED
  BY <1>1, <1>2, <1>3, <1>4

LEMMA AccountedKept ==
  ASSUME Shape, InOrder, Begins, Accounted, [Next]_vars
  PROVE  Accounted'
<1>1. Grows
  BY ItGrows
<1>2. CASE CreateCategories
  <2> DEFINE j == <<"extract_broad_categories", Book>>
             keys == IF \E r \in rows : r[1] = bookId /\ r[2] = "categories"
                       THEN {} ELSE {"all"}
  <2>1. bookId' = bookId /\ Write(j, bookId, "categories", keys, 2)
    BY <1>2, CategoriesGo, Zenon
  <2>2. j \in Jobs /\ j[1] \notin INSERT_KINDS
    BY CategoryJob, Zenon
  <2>3. "categories" \notin INSERT_KINDS /\ 2 \in Nat \ {0}
    BY DEF INSERT_KINDS, SCENE_GROUP_STEPS
  <2> HIDE DEF j, keys
  <2> QED
    BY <2>1, <2>2, <2>3, AccountedWrite
<1>3. CASE UNCHANGED vars
  <2>1. UNCHANGED <<bookId, rows, job>>
    BY <1>3 DEF vars
  <2> QED
    BY <1>1, <2>1, AccountedElse
<1>4. CASE TraitsStep
  <2>1. PICK t \in tails : CopyTraits(t) \/ FailTraits(t)
    BY <1>4 DEF TraitsStep
  <2>2. ImportJob[1] \notin INSERT_KINDS
    BY FirstJob
  <2>3. CASE CopyTraits(t)
    <3>1. rows' = rows \cup {<<t[1], "traits", t[2]>>} /\ bookId' = bookId
      BY <2>3, TraitsGo, Zenon
    <3>2. \A j \in Jobs : j # ImportJob => job'[j] = job[j]
      BY <2>3, TraitsGo, Zenon
    <3>3. "traits" \notin INSERT_KINDS
      BY DEF INSERT_KINDS, SCENE_GROUP_STEPS
    <3>4. \A r \in rows' : r \in rows \/ r[2] \notin INSERT_KINDS
      BY <3>1, <3>3
    <3>5. \A j \in Jobs : j[1] \in INSERT_KINDS => job'[j] = job[j]
      BY <2>2, <3>2
    <3> QED
      BY <1>1, <3>1, <3>4, <3>5, AccountedElse
  <2>4. CASE FailTraits(t)
    <3>1. UNCHANGED <<bookId, rows>>
      BY <2>4, FailTraitsGo
    <3>2. \A j \in Jobs : j # ImportJob => job'[j] = job[j]
      BY <2>4, FailTraitsGo DEF Becomes
    <3>3. \A j \in Jobs : j[1] \in INSERT_KINDS => job'[j] = job[j]
      BY <2>2, <3>2
    <3> QED
      BY <1>1, <3>1, <3>3, AccountedElse
  <2> QED
    BY <2>1, <2>3, <2>4
<1> QED
  BY <1>1, <1>2, <1>3, <1>4, Handlers, AccountedImport, AccountedScene, AccountedInsert,
     AccountedTurn, AccountedCrash

-----------------------------------------------------------------------------
(* The scenes and their groups *)

\* The two handlers of the scene step never run at once: until the preview is
\* completed the full one is pending.
LEMMA OneScans ==
  ASSUME InOrder, NEW j \in {Preview, Full}, job[j].at # "pending"
  PROVE  /\ \A i \in {Preview, Full} : i # j => ~Running(i) \/ job[j].at = "completed"
         /\ j = Preview /\ job[j].at # "completed" => job[Full].at = "pending"
         /\ j = Full => job[Preview].at = "completed"
BY SceneJobs DEF InOrder, Running

LEMMA ScannedElse ==
  ASSUME Scanned, Grows, UNCHANGED <<bookId, scan>>,
         job'[Preview] = job[Preview], job'[Full] = job[Full],
         \A r \in rows' : r \in rows \/ r[2] \notin {"scenes", "groups"}
  PROVE  Scanned'
<1>1. rows \subseteq rows'
  BY DEF Grows
<1>2. \A s : <<bookId, "scenes", s>> \in rows' <=> <<bookId, "scenes", s>> \in rows
  BY <1>1
<1>3. \A c : <<bookId, "groups", c>> \in rows' <=> <<bookId, "groups", c>> \in rows
  BY <1>1
<1>4. Written' = Written /\ \A c \in Chapters : GroupRow(c)' \in rows' <=> GroupRow(c) \in rows
  BY <1>2, <1>3 DEF Written, GroupRow
<1>5. (Running(Preview)' <=> Running(Preview)) /\ (Running(Full)' <=> Running(Full))
  BY DEF Running
<1>6. Reads(Preview)'
  BY <1>4, <1>5 DEF Scanned, Reads
<1>7. Reads(Full)'
  BY <1>4, <1>5 DEF Scanned, Reads
<1>8. Finished'
  BY <1>4, <1>5 DEF Scanned, Finished
<1> QED
  BY <1>4, <1>5, <1>6, <1>7, <1>8 DEF Scanned

LEMMA ScannedWrite ==
  ASSUME Shape, Scanned, NEW j \in Jobs, j \notin {Preview, Full},
         NEW b, NEW kind, kind \notin {"scenes", "groups"}, NEW keys, NEW stage \in Nat \ {0},
         Write(j, b, kind, keys, stage), UNCHANGED <<bookId, scan>>
  PROVE  Scanned'
<1>1. /\ \A r : r \in rows' <=> r \in rows \/ \E x \in keys : r = <<b, kind, x>>
      /\ \A i \in Jobs : i # j => job'[i] = job[i]
  BY Statement
<1>2. Grows
  BY WriteGrows
<1>3. \A r \in rows' : r \in rows \/ r[2] \notin {"scenes", "groups"}
  BY <1>1
<1> QED
  BY <1>1, <1>2, <1>3, TheJobs, ScannedElse

LEMMA ScannedImport ==
  ASSUME Shape, InOrder, Scanned, ImportStep
  PROVE  Scanned'
<1>1. ImportJob \in Jobs /\ ImportJob \notin {Preview, Full} /\ Preview \in Jobs /\ Full \in Jobs
  BY TheJobs, SceneJobs
<1>2. CASE CreateBook
  <2>1. UNCHANGED <<bookId, rows, scan>> /\ Becomes(ImportJob, "run", 2, Import.wrote)
    BY <1>2, BookGo
  <2>2. job'[Preview] = job[Preview] /\ job'[Full] = job[Full]
    BY <1>1, <2>1 DEF Becomes
  <2> QED
    BY <2>1, <2>2, ImportGrows, ScannedElse
<1>3. CASE HandOver
  <2>1. /\ Running(ImportJob) /\ UNCHANGED rows /\ Becomes(ImportJob, "run", 8, Import.wrote)
    BY <1>3, HandOverGo
  <2>2. job'[Preview] = job[Preview] /\ job'[Full] = job[Full]
    BY <1>1, <2>1 DEF Becomes
  <2>3. job[Preview].at = "pending" /\ job[Full].at = "pending"
    BY <1>1, <2>1, ImportRuns DEF InOrder
  <2>4. ~Running(Preview)' /\ ~Running(Full)' /\ job'[Full].at # "completed"
    BY <2>2, <2>3 DEF Running
  <2>5. \A c : GroupRow(c)' \notin rows'
    <3>1. \A r \in rows' : r[2] # "groups"
      BY <2>1, ImportRuns DEF InOrder, IMPORT_KINDS
    <3> QED
      BY <3>1 DEF GroupRow
  <2>6. Reads(Preview)' /\ Reads(Full)' /\ Finished'
    BY <2>4 DEF Reads, Finished
  <2> QED
    BY <2>4, <2>5, <2>6 DEF Scanned
<1>4. CASE CreateChapters
  <2>1. UNCHANGED <<bookId, scan>> /\ Write(ImportJob, books, "chapters", Chapters, 3)
    BY <1>4, ChaptersGo
  <2>2. "chapters" \notin {"scenes", "groups"} /\ 3 \in Nat \ {0}
    OBVIOUS
  <2> QED
    BY <1>1, <2>1, <2>2, ScannedWrite
<1>5. ASSUME NEW c \in Chapters, CreateParagraphs(c)
      PROVE  Scanned'
  <2>1. PICK n \in {3, 4, 7} : /\ UNCHANGED <<bookId, scan>>
                               /\ Write(ImportJob, books, "paragraphs", {c}, n)
    BY <1>5, ParagraphsGo, Zenon
  <2>2. "paragraphs" \notin {"scenes", "groups"} /\ n \in Nat \ {0}
    OBVIOUS
  <2> QED
    BY <1>1, <2>1, <2>2, ScannedWrite
<1>6. ASSUME NEW kind \in {"categories", "entities"}, CopyPrevious(kind)
      PROVE  Scanned'
  <2>1. PICK n \in {5, 6} : /\ UNCHANGED <<bookId, scan>>
                            /\ Write(ImportJob, books, kind, {"earlier"}, n)
    BY <1>6, CopyGo, Zenon
  <2>2. kind \notin {"scenes", "groups"} /\ n \in Nat \ {0}
    OBVIOUS
  <2> QED
    BY <1>1, <2>1, <2>2, ScannedWrite
<1> QED
  BY <1>2, <1>3, <1>4, <1>5, <1>6 DEF ImportStep

\* One of the two goes on, fails or ends, writing nothing, while the other waits.
LEMMA ScannedQuiet ==
  ASSUME Scanned, NEW j \in {Preview, Full}, UNCHANGED <<bookId, rows>>,
         \A i \in {Preview, Full} : i # j => ~Running(i) /\ job'[i] = job[i],
         Reads(j)', Running(j)' => job'[j].stage < 4,
         j = Full /\ Running(j)' /\ job'[j].stage = 2 => scan'.done = Chapters,
         j = Full /\ job'[j].at = "completed" => Running(j) /\ job[j].stage = 4
  PROVE  Scanned'
<1>1. Written' = Written /\ \A c : GroupRow(c)' = GroupRow(c)
  BY DEF Written, GroupRow
<1>2. \A i \in {Preview, Full} : i # j => ~Running(i)'
  BY DEF Running
<1>3. \A i \in {Preview, Full} : Reads(i)'
  <2>1. \A i \in {Preview, Full} : i # j => Reads(i)'
    BY <1>2 DEF Reads
  <2> QED
    BY <2>1
<1>4. Running(Full)' /\ job'[Full].stage = 2 => scan'.done = Chapters
  BY <1>2
<1>5. Finished'
  <2> SUFFICES ASSUME job'[Full].at = "completed" \/ (Running(Full)' /\ job'[Full].stage = 4)
               PROVE  Written = Scenes /\ \A c \in Chapters : GroupRow(c) \in rows
    BY <1>1 DEF Finished
  <2>1. CASE j = Full
    <3>1. job[Full].at = "completed" \/ (Running(Full) /\ job[Full].stage = 4)
      BY <2>1
    <3> QED
      BY <3>1 DEF Scanned, Finished
  <2>2. CASE j # Full
    <3>1. job[Full].at = "completed"
      BY <1>2, <2>2
    <3> QED
      BY <3>1 DEF Scanned, Finished
  <2> QED
    BY <2>1, <2>2
<1>6. (\E c \in Chapters : GroupRow(c)' \in rows') => Written' = Scenes
  BY <1>1 DEF Scanned
<1> QED
  BY <1>3, <1>4, <1>5, <1>6 DEF Scanned

LEMMA ScannedTurn ==
  ASSUME Shape, InOrder, Begins, Scanned, NEW j \in Jobs, TurnStep(j), Grows
  PROVE  Scanned'
<1>1. UNCHANGED <<bookId, rows>> /\ \A i \in Jobs : i # j => job'[i] = job[i]
  BY StartGo, CompleteGo, FailGo, RetryGo DEF TurnStep, Becomes
<1>2. CASE j \notin {Preview, Full}
  <2>1. UNCHANGED scan
    <3>1. j[1] \notin SCENE_STEPS
      BY <1>2, SceneJobs
    <3> QED
      BY <3>1, StartGo, CompleteGo, FailGo, RetryGo DEF TurnStep
  <2> QED
    BY <1>1, <1>2, <2>1, TheJobs, ScannedElse
<1>3. CASE j \in {Preview, Full}
  <2>0. j[1] \in SCENE_STEPS /\ j[1] \notin SCENE_GROUP_STEPS /\ Preview \in Jobs /\ Full \in Jobs
    BY <1>3, TheJobs, SceneJobs DEF SCENE_STEPS, SCENE_GROUP_STEPS
  <2>1. \A i \in {Preview, Full} : i # j => job'[i] = job[i]
    BY <1>1, <2>0
  <2>2. CASE Start(j)
    <3>1. /\ job[j].at = "pending" /\ \A d \in STEP_DEPENDS[j[1]] : StepDone(d)
          /\ Becomes(j, "run", job[j].stage, job[j].wrote)
          /\ scan' = IF j[1] \in SCENE_STEPS THEN Seeded ELSE scan
      BY <2>2, StartGo
    <3>2. job[j].stage = 1
      BY <2>0, <3>1 DEF Begins, BeginsWell
    <3>3. job'[j].stage = 1 /\ job'[j].at = "run"
      BY <3>1, <3>2 DEF Becomes
    <3>4. scan'.seed = Written /\ scan'.known = Written /\ scan'.done = DoneChapters(Written)
      BY <2>0, <3>1, SeedIs
    <3>5. Written' = Written /\ DoneChapters(scan'.known) = scan'.done
      BY <1>1, <3>4 DEF Written
    <3>6. Reads(j)'
      BY <3>3, <3>4, <3>5 DEF Reads, DoneChapters
    <3>7. j = Full => job[Preview].at = "completed"
      <4>1. j = Full => StepDone("preliminary_scenes_preview")
        BY <3>1, FullWaits, SceneJobs
      <4> QED
        BY <2>0, <4>1, SceneJobs DEF StepDone
    <3>8. j = Preview => job[Full].at = "pending"
      BY <3>1 DEF InOrder
    <3>9. \A i \in {Preview, Full} : i # j => ~Running(i)
      BY <1>3, <3>7, <3>8 DEF Running
    <3> QED
      BY <1>1, <1>3, <2>1, <3>3, <3>6, <3>9, ScannedQuiet
  <2>3. CASE ~Start(j)
    <3>1. /\ job[j].at \in {"run", "failed"}
          /\ job'[j].at \in {"completed", "failed", "pending"}
          /\ job'[j].at = "completed" => Running(j) /\ job[j].stage > Len(Stages(j[1]))
      <4>1. CASE Complete(j)
        BY <4>1, CompleteGo DEF Becomes, Running
      <4>2. CASE Fail(j)
        <5>1. Running(j) /\ Becomes(j, "failed", job[j].stage, job[j].wrote)
          BY <4>2, FailGo
        <5>2. job'[j].at = "failed"
          BY <5>1 DEF Becomes
        <5> QED
          BY <5>1, <5>2 DEF Running
      <4>3. CASE \E stage \in 1..3 : Retry(j, stage)
        <5>1. PICK stage \in 1..3 : Retry(j, stage)
          BY <4>3
        <5>2. job[j].at = "failed" /\ Becomes(j, "pending", stage, {})
          BY <5>1, RetryGo
        <5> QED
          BY <5>2 DEF Becomes
      <4> QED
        BY <2>3, <4>1, <4>2, <4>3 DEF TurnStep
    <3>2. ~Running(j)'
      BY <3>1 DEF Running
    <3>3. Reads(j)'
      BY <3>2 DEF Reads
    <3>4. \A i \in {Preview, Full} : i # j => ~Running(i)
      BY <1>3, <3>1, OneScans
    <3>5. Len(Stages(j[1])) = 3 /\ job[j].stage \in Nat /\ job[j].stage <= Len(Stages(j[1])) + 1
      BY <2>0, SceneStages, JobType
    <3>6. job'[j].at = "completed" => Running(j) /\ job[j].stage = 4
      BY <3>1, <3>5
    <3> QED
      BY <1>1, <1>3, <2>1, <3>2, <3>3, <3>4, <3>6, ScannedQuiet
  <2> QED
    BY <2>2, <2>3
<1> QED
  BY <1>2, <1>3

LEMMA ScannedCrash ==
  ASSUME Shape, Scanned, Crash
  PROVE  Scanned'
<1>1. /\ \A j \in Jobs : (Running(j) => job'[j] = Idle) /\ (~Running(j) => job'[j] = job[j])
      /\ UNCHANGED <<bookId, rows>>
  BY CrashGo
<1>2. Idle.at = "pending"
  BY DEF Idle
<1>3. \A j \in Jobs : /\ ~Running(j)'
                      /\ job'[j].at = "completed" => job[j].at = "completed"
  BY <1>1, <1>2 DEF Running
<1>4. Written' = Written /\ \A c : GroupRow(c)' = GroupRow(c)
  BY <1>1 DEF Written, GroupRow
<1>5. Reads(Preview)' /\ Reads(Full)'
  BY <1>3, TheJobs DEF Reads
<1>6. Finished'
  BY <1>1, <1>3, <1>4, TheJobs DEF Scanned, Finished
<1> QED
  BY <1>1, <1>3, <1>4, <1>5, <1>6, TheJobs DEF Scanned

\* Scenes that a handler writes: with them the book is covered if the chapters
\* are all done, and no group was made before.
LEMMA ScannedScenes ==
  ASSUME Shape, InOrder, Scanned, NEW j \in {Preview, Full}, NEW n \in {3, 4},
         Running(j), job[j].stage = 2, scan.known # scan.seed, UNCHANGED <<bookId, scan>>,
         n = 3 <=> scan.done = Chapters,
         Write(j, bookId, "scenes", scan.known \ scan.seed, n)
  PROVE  Scanned'
<1>1. j \in Jobs /\ job[j].at = "run" /\ Preview \in Jobs /\ Full \in Jobs
  BY TheJobs DEF Running
<1>2. /\ \A r : r \in rows' <=>
           r \in rows \/ \E x \in scan.known \ scan.seed : r = <<bookId, "scenes", x>>
      /\ job'[j].at = job[j].at /\ job'[j].stage = n
      /\ \A i \in Jobs : i # j => job'[i] = job[i]
  BY <1>1, Statement
<1>3. scan.seed = Written /\ scan.done \subseteq DoneChapters(scan.known)
  BY DEF Scanned, Reads
<1>4. scan.seed \subseteq scan.known /\ scan.known \subseteq Scenes
  BY DEF Shape
<1>5. \A c \in Chapters : GroupRow(c) \notin rows
  BY <1>3, <1>4 DEF Scanned
<1>6. \A c \in Chapters : GroupRow(c)' \notin rows'
  BY <1>2, <1>5 DEF GroupRow
<1>7. Written' = scan.known
  <2>1. \A s \in Scenes : <<bookId, "scenes", s>> \in rows' <=> s \in scan.known
    <3>1. \A s \in Scenes : <<bookId, "scenes", s>> \in rows <=> s \in scan.seed
      BY <1>3 DEF Written
    <3> QED
      BY <1>2, <1>4, <3>1
  <2> QED
    BY <1>4, <2>1 DEF Written
<1>8. scan.done = Chapters => Written' = Scenes
  <2> SUFFICES ASSUME scan.done = Chapters, NEW s \in Scenes
               PROVE  s \in scan.known
    BY <1>4, <1>7
  <2>1. PICK c \in Chapters : s \in ScenesOf[c]
    BY DEF Scenes
  <2> QED
    BY <1>3, <2>1 DEF DoneChapters
<1>9. \A i \in {Preview, Full} : i # j => ~Running(i)' /\ job'[i].at = job[i].at
  <2>1. \A i \in {Preview, Full} : i # j => ~Running(i)
    BY <1>1, OneScans
  <2> QED
    BY <1>1, <1>2, <2>1 DEF Running
<1>10. \A i \in {Preview, Full} : Reads(i)'
  <2>1. Reads(j)'
    BY <1>2, <1>6, <1>8 DEF Reads
  <2> QED
    BY <1>9, <2>1 DEF Reads
<1>11. j = Full => n = 3
  BY DEF Scanned
<1>12. j = Preview => job[Full].at = "pending"
  BY <1>1, OneScans
<1>13. ~(Running(Full)' /\ job'[Full].stage \in {2, 4}) /\ job'[Full].at # "completed"
  <2>1. CASE j = Full
    BY <1>1, <1>2, <1>11, <2>1
  <2>2. CASE j # Full
    BY <1>9, <1>12, <2>2
  <2> QED
    BY <2>1, <2>2
<1> QED
  BY <1>6, <1>10, <1>13 DEF Scanned, Finished

\* Groups are made of all scenes, of which every chapter has one.
LEMMA ScannedGroups ==
  ASSUME Shape, InOrder, Scanned, NEW j \in {Preview, Full}, Running(j), job[j].stage = 3,
         UNCHANGED <<bookId, scan>>,
         Write(j, bookId, "groups", {c \in Chapters : ScenesOf[c] \cap Written # {}}, 4)
  PROVE  Scanned'
<1>1. j \in Jobs /\ job[j].at = "run" /\ Preview \in Jobs /\ Full \in Jobs
  BY TheJobs DEF Running
<1>2. Written = Scenes
  BY DEF Scanned, Reads
<1>3. {c \in Chapters : ScenesOf[c] \cap Written # {}} = Chapters
  BY <1>2, RowsAssumption DEF Scenes
<1>4. \A keys : keys = {c \in Chapters : ScenesOf[c] \cap Written # {}} =>
        Write(j, bookId, "groups", keys, 4)
  OBVIOUS
<1>5. /\ \A r : r \in rows' <=> r \in rows \/ \E x \in Chapters : r = <<bookId, "groups", x>>
      /\ job'[j].at = job[j].at /\ job'[j].stage = 4
      /\ \A i \in Jobs : i # j => job'[i] = job[i]
  <2>1. Write(j, bookId, "groups", Chapters, 4)
    BY <1>3, <1>4
  <2>2. 4 \in Nat \ {0}
    OBVIOUS
  <2> QED
    BY <1>1, <2>1, <2>2, Statement
<1>6. \A c \in Chapters : GroupRow(c)' \in rows'
  BY <1>5 DEF GroupRow
<1>7. Written' = Scenes
  BY <1>2, <1>5 DEF Written
<1>8. \A i \in {Preview, Full} : i # j => ~Running(i)'
  <2>1. \A i \in {Preview, Full} : i # j => ~Running(i)
    BY <1>1, OneScans
  <2> QED
    BY <1>1, <1>5, <2>1 DEF Running
<1>9. \A i \in {Preview, Full} : Reads(i)'
  <2>1. Reads(j)'
    BY <1>5 DEF Reads
  <2> QED
    BY <1>8, <2>1 DEF Reads
<1>10. ~(Running(Full)' /\ job'[Full].stage = 2)
  BY <1>5, <1>8
<1> QED
  BY <1>6, <1>7, <1>9, <1>10 DEF Scanned, Finished

LEMMA ScannedScene ==
  ASSUME Shape, InOrder, Scanned, NEW j \in {Preview, Full}, SceneStep(j)
  PROVE  Scanned'
<1>0. j \in Jobs /\ Preview \in Jobs /\ Full \in Jobs
  BY TheJobs
<1>1. ASSUME NEW at \in {"run", "failed"}, NEW n \in {1, 2}, Running(j),
             Becomes(j, at, n, job[j].wrote), UNCHANGED <<bookId, rows>>,
             scan'.seed = scan.seed, scan'.done \subseteq DoneChapters(scan'.known),
             job[j].stage \in {1, 2},
             at = "run" /\ n = 2 /\ j = Full => scan'.done = Chapters
      PROVE  Scanned'
  <2>1. job'[j].at = at /\ job'[j].stage = n /\ \A i \in Jobs : i # j => job'[i] = job[i]
    BY <1>1 DEF Becomes
  <2>2. scan.seed = Written
    BY <1>1 DEF Scanned, Reads
  <2>3. Written' = Written
    BY <1>1 DEF Written
  <2>4. Reads(j)'
    BY <1>1, <2>1, <2>2, <2>3 DEF Reads, DoneChapters
  <2>5. job[j].at = "run"
    BY <1>1 DEF Running
  <2>6. \A i \in {Preview, Full} : i # j => ~Running(i) /\ job'[i] = job[i]
    BY <1>0, <2>1, <2>5, OneScans
  <2>7. Running(j)' => job'[j].stage < 4
    BY <2>1
  <2>8. j = Full /\ Running(j)' /\ job'[j].stage = 2 => scan'.done = Chapters
    BY <1>1, <2>1 DEF Running
  <2>9. job'[j].at # "completed"
    BY <2>1
  <2> QED
    BY <1>1, <2>4, <2>6, <2>7, <2>8, <2>9, ScannedQuiet
<1>2. Running(j) /\ job[j].stage <= 2 => scan.done \subseteq DoneChapters(scan.known)
  BY DEF Scanned, Reads
<1>3. ASSUME NEW found \in SUBSET (Scenes \ scan.known), AskScenes(j, found)
      PROVE  Scanned'
  <2>1. /\ Running(j) /\ job[j].stage = 1 /\ UNCHANGED <<bookId, rows>>
        /\ scan'.seed = scan.seed
        /\ scan.done \subseteq DoneChapters(scan.known) =>
             scan'.done \subseteq DoneChapters(scan'.known)
    BY <1>3, AsksGo
  <2>2. scan'.done \subseteq DoneChapters(scan'.known) /\ job[j].stage \in {1, 2}
    BY <1>2, <2>1
  <2>3. \/ Becomes(j, "failed", 1, job[j].wrote) \/ Becomes(j, "run", 1, job[j].wrote)
        \/ Becomes(j, "run", 2, job[j].wrote) /\ (j = Full => scan'.done = Chapters)
    BY <1>3, AsksGo
  <2> QED
    BY <1>1, <2>1, <2>2, <2>3
<1>4. CASE AllKnown(j)
  <2>1. /\ Running(j) /\ job[j].stage = 1 /\ scan.done = Chapters
        /\ UNCHANGED <<bookId, rows, scan>> /\ Becomes(j, "run", 2, job[j].wrote)
    BY <1>4, KnownGo
  <2>2. scan'.done \subseteq DoneChapters(scan'.known)
    <3>1. scan.done \subseteq DoneChapters(scan.known)
      BY <1>2, <2>1
    <3> QED
      BY <2>1, <3>1 DEF DoneChapters
  <2> QED
    BY <1>1, <2>1, <2>2
<1>5. CASE CreateScenes(j)
  <2>1. Running(j) /\ job[j].stage = 2 /\ UNCHANGED <<bookId, scan>>
    BY <1>5, ScenesGo
  <2>2. CASE Becomes(j, "failed", 2, job[j].wrote) /\ UNCHANGED rows
    <3>1. scan'.done \subseteq DoneChapters(scan'.known)
      <4>1. scan.done \subseteq DoneChapters(scan.known)
        BY <1>2, <2>1
      <4> QED
        BY <2>1, <4>1 DEF DoneChapters
    <3> QED
      BY <1>1, <2>1, <2>2, <3>1
  <2>3. CASE /\ scan.known # scan.seed
             /\ Write(j, bookId, "scenes", scan.known \ scan.seed,
                      IF scan.done = Chapters THEN 3 ELSE 4)
    <3> DEFINE n == IF scan.done = Chapters THEN 3 ELSE 4
    <3>1. n \in {3, 4} /\ (n = 3 <=> scan.done = Chapters)
      OBVIOUS
    <3>2. Write(j, bookId, "scenes", scan.known \ scan.seed, n)
      BY <2>3
    <3> HIDE DEF n
    <3> QED
      BY <2>1, <2>3, <3>1, <3>2, ScannedScenes
  <2> QED
    BY <1>5, <2>2, <2>3, ScenesGo, Zenon
<1>6. CASE CreateGroups(j)
  BY <1>6, GroupsGo, ScannedGroups, Zenon
<1> QED
  BY <1>3, <1>4, <1>5, <1>6 DEF SceneStep

LEMMA ScannedKept ==
  ASSUME Shape, InOrder, Begins, Scanned, [Next]_vars
  PROVE  Scanned'
<1>1. Grows
  BY ItGrows
<1>2. Preview \in Jobs /\ Full \in Jobs
  BY TheJobs
<1>3. CASE CreateCategories
  <2> DEFINE j == <<"extract_broad_categories", Book>>
             keys == IF \E r \in rows : r[1] = bookId /\ r[2] = "categories"
                       THEN {} ELSE {"all"}
  <2>1. UNCHANGED <<bookId, scan>> /\ Write(j, bookId, "categories", keys, 2)
    BY <1>3, CategoriesGo, Zenon
  <2>2. j \in Jobs /\ j \notin {Preview, Full}
    BY CategoryJob, Zenon
  <2>3. "categories" \notin {"scenes", "groups"} /\ 2 \in Nat \ {0}
    OBVIOUS
  <2> HIDE DEF j, keys
  <2> QED
    BY <2>1, <2>2, <2>3, ScannedWrite
<1>4. ASSUME NEW j \in Jobs, j[1] \in INSERT_KINDS, InsertStep(j)
      PROVE  Scanned'
  <2>0. PICK k \in 1..Len(Stages(j[1])) : \E keys :
           UNCHANGED <<bookId, scan>> /\ Write(j, bookId, j[1], keys, k + 1)
    BY <1>4, InsertGo, Zenon
  <2>1. PICK keys : UNCHANGED <<bookId, scan>> /\ Write(j, bookId, j[1], keys, k + 1)
    BY <2>0
  <2>2. j \notin {Preview, Full} /\ j[1] \notin {"scenes", "groups"}
    BY <1>4, SceneJobs DEF INSERT_KINDS, SCENE_GROUP_STEPS
  <2>3. k + 1 \in Nat \ {0}
    BY LenStages
  <2> QED
    BY <2>1, <2>2, <2>3, ScannedWrite
<1>5. CASE UNCHANGED vars
  <2>1. UNCHANGED <<bookId, scan, rows, job>>
    BY <1>5 DEF vars
  <2> QED
    BY <1>1, <2>1, ScannedElse
<1>6. CASE TraitsStep
  <2>1. PICK t \in tails : CopyTraits(t) \/ FailTraits(t)
    BY <1>6 DEF TraitsStep
  <2>2. ImportJob \notin {Preview, Full}
    BY SceneJobs
  <2>3. CASE CopyTraits(t)
    <3>1. rows' = rows \cup {<<t[1], "traits", t[2]>>} /\ UNCHANGED <<bookId, scan>>
      BY <2>3, TraitsGo, Zenon
    <3>2. \A j \in Jobs : j # ImportJob => job'[j] = job[j]
      BY <2>3, TraitsGo, Zenon
    <3>3. \A r \in rows' : r \in rows \/ r[2] \notin {"scenes", "groups"}
      BY <3>1
    <3> QED
      BY <1>1, <1>2, <2>2, <3>1, <3>2, <3>3, ScannedElse
  <2>4. CASE FailTraits(t)
    <3>1. UNCHANGED <<bookId, scan, rows>>
      BY <2>4, FailTraitsGo
    <3>2. \A j \in Jobs : j # ImportJob => job'[j] = job[j]
      BY <2>4, FailTraitsGo DEF Becomes
    <3> QED
      BY <1>1, <1>2, <2>2, <3>1, <3>2, ScannedElse
  <2> QED
    BY <2>1, <2>3, <2>4
<1> QED
  BY <1>1, <1>3, <1>4, <1>5, <1>6, Handlers, ScannedImport, ScannedScene, ScannedTurn,
     ScannedCrash

-----------------------------------------------------------------------------
(* The invariant, and what follows from it *)

LEMMA RowsInit == Init => RowsInv
<1> SUFFICES ASSUME Init
             PROVE  RowsInv
  OBVIOUS
<1>1. /\ series \in BOOLEAN /\ bookId = 0 /\ books = 0 /\ rows = {} /\ doubled = {}
      /\ broken = {} /\ scan = NoScan /\ tails = {} /\ refused = {}
      /\ used = [b \in {"failures", "crashes"} |-> 0]
  BY DEF Init
<1>2. PICK idle : idle = [at |-> "pending", stage |-> 1, wrote |-> {}] /\ idle = Idle
  BY DEF Idle
<1>3. job = [j \in Jobs |-> idle]
  BY <1>2 DEF Init
<1>4. /\ job \in [Jobs -> [at : {"pending", "run", "failed", "completed"},
                           stage : Nat \ {0}, wrote : SUBSET rows]]
      /\ \A j \in Jobs : job[j].at = "pending" /\ job[j].stage = 1 /\ job[j].wrote = {}
  BY <1>1, <1>2, <1>3
<1>5. \A j \in Jobs : job[j].stage <= Len(Stages(j[1])) + 1
  BY <1>4, LenStages
<1>6. Shape
  <2>1. /\ scan \in [seed : SUBSET Scenes, known : SUBSET Scenes, done : SUBSET Chapters,
                     stalled : Nat]
        /\ scan.seed \subseteq scan.known
    BY <1>1 DEF NoScan
  <2>2. used \in [{"failures", "crashes"} -> Nat]
    BY <1>1
  <2> QED
    BY <1>1, <1>4, <1>5, <2>1, <2>2 DEF Shape
<1>7. \A j \in Jobs : ~Running(j)
  BY <1>4 DEF Running
<1>8. ~Imported
  BY <1>4, TheJobs DEF Imported, Import
<1>9. InOrder
  BY <1>1, <1>4, <1>8, TheJobs DEF InOrder
<1>10. Begins
  BY <1>4 DEF Begins, BeginsWell
<1>11. Making /\ Fresh
  BY <1>1, <1>7, TheJobs DEF Making, Fresh
<1>12. Scanned
  BY <1>1, <1>4, <1>7, TheJobs DEF Scanned, Reads, Finished
<1>13. Accounted /\ DoubledHasACause /\ HandedOverWhole
  BY <1>1 DEF Accounted, DoubledHasACause, HandedOverWhole
<1> QED
  BY <1>6, <1>9, <1>10, <1>11, <1>12, <1>13 DEF RowsInv

\* The rows, the handlers and the scan agree in every state: the book that is
\* made is as far as the stage of the first handler says, the scene step knows
\* the scenes that are rows, and an inserted row has a handler that accounts for
\* it (import-book.ts:191, extract-scenes.ts:223, handlers.ts:48).
THEOREM RowsInductive == Spec => []RowsInv
<1>1. RowsInv /\ [Next]_vars => RowsInv'
  <2> SUFFICES ASSUME RowsInv, [Next]_vars
               PROVE  RowsInv'
    OBVIOUS
  <2>1. /\ Shape /\ InOrder /\ Begins /\ Making /\ Fresh /\ Scanned /\ Accounted
        /\ DoubledHasACause /\ HandedOverWhole
    BY DEF RowsInv
  <2>2. Shape' /\ InOrder' /\ Begins' /\ Making' /\ Fresh'
    BY <2>1, ShapeKept, OrderKept, BeginsKept, MadeKept
  <2>3. Scanned' /\ Accounted'
    BY <2>1, ScannedKept, AccountedKept
  <2>4. DoubledHasACause' /\ HandedOverWhole'
    BY <2>1, DoubledKept, HandedOverKept
  <2> QED
    BY <2>2, <2>3, <2>4 DEF RowsInv
<1> QED
  BY <1>1, RowsInit, PTL DEF Spec

\* A row is there twice only if a handler that wrote it was cut short, and only
\* if it is of a kind that is written without a look: whatever fails, crashes and
\* is run again, scenes, groups, categories and the imported book stay single.
THEOREM DoubledOnlyBroken == Spec => []DoubledHasACause
<1>1. RowsInv => DoubledHasACause
  BY DEF RowsInv
<1> QED
  BY <1>1, RowsInductive, PTL

\* The import is never told of a book that lacks chapters, paragraphs or what
\* comes from the book before it, though earlier attempts may have left parts of
\* other books, and calls that still write (import-book.ts:191 to 320).
THEOREM HandedOverIsWhole == Spec => []HandedOverWhole
<1>1. RowsInv => HandedOverWhole
  BY DEF RowsInv
<1> QED
  BY <1>1, RowsInductive, PTL

\* Once the scenes are done, by the preview or by the full step, in however many
\* rounds and attempts, every scene is a row and every chapter a group
\* (extract-scenes.ts:223).
THEOREM GroupsAlwaysCover == Spec => []GroupsCover
<1>1. RowsInv => GroupsCover
  <2> SUFFICES ASSUME RowsInv, StepDone("preliminary_scenes")
               PROVE  Written = Scenes /\ \A c \in Chapters : <<bookId, "groups", c>> \in rows
    BY DEF GroupsCover
  <2>1. job[Full].at = "completed"
    BY TheJobs, SceneJobs DEF StepDone
  <2> QED
    BY <2>1 DEF RowsInv, Scanned, Finished, GroupRow
<1> QED
  BY <1>1, RowsInductive, PTL

-----------------------------------------------------------------------------
(* The types *)

\* Rounds without a new chapter: a handler that runs has not used them up.
Stalls ==
  /\ scan.stalled <= MaxStalled
  /\ \A j \in {Preview, Full} : Running(j) => scan.stalled < MaxStalled

\* A step that neither starts a handler of the scene step nor tells it anything.
Unscanned ==
  scan' = scan /\ \A i \in {Preview, Full} : job'[i].at = "run" => job[i].at = "run"

LEMMA WriteUnscanned ==
  ASSUME Shape, NEW j \in Jobs, NEW b, NEW kind, NEW keys, NEW stage \in Nat \ {0},
         Write(j, b, kind, keys, stage), scan' = scan
  PROVE  Unscanned
<1>1. job'[j].at = job[j].at /\ \A i \in Jobs : i # j => job'[i] = job[i]
  BY Statement
<1>2. \A i \in Jobs : job'[i].at = job[i].at
  BY <1>1
<1> QED
  BY <1>2, TheJobs DEF Unscanned

LEMMA BecomesUnscanned ==
  ASSUME Shape, NEW j \in Jobs, NEW at, at # "run" \/ Running(j) \/ j \notin {Preview, Full},
         NEW stage, NEW wrote, Becomes(j, at, stage, wrote), scan' = scan
  PROVE  Unscanned
<1>1. job'[j].at = at /\ \A i \in Jobs : i # j => job'[i] = job[i]
  BY DEF Becomes
<1>2. \A i \in {Preview, Full} : job'[i].at = "run" => job[i].at = "run"
  BY <1>1, TheJobs DEF Running
<1> QED
  BY <1>2 DEF Unscanned

LEMMA ImportUnscanned ==
  ASSUME Shape, ImportStep
  PROVE  Unscanned
<1>1. ImportJob \in Jobs
  BY TheJobs
<1>2. CASE CreateBook
  BY <1>1, <1>2, BookGo, BecomesUnscanned
<1>3. CASE HandOver
  BY <1>1, <1>3, HandOverGo, BecomesUnscanned
<1>4. CASE CreateChapters
  <2>1. scan' = scan /\ Write(ImportJob, books, "chapters", Chapters, 3)
    BY <1>4, ChaptersGo
  <2> QED
    BY <1>1, <2>1, WriteUnscanned
<1>5. ASSUME NEW c \in Chapters, CreateParagraphs(c)
      PROVE  Unscanned
  <2>1. PICK n \in {3, 4, 7} : scan' = scan /\ Write(ImportJob, books, "paragraphs", {c}, n)
    BY <1>5, ParagraphsGo, Zenon
  <2> QED
    BY <1>1, <2>1, WriteUnscanned
<1>6. ASSUME NEW kind \in {"categories", "entities"}, CopyPrevious(kind)
      PROVE  Unscanned
  <2>1. PICK n \in {5, 6} : scan' = scan /\ Write(ImportJob, books, kind, {"earlier"}, n)
    BY <1>6, CopyGo, Zenon
  <2> QED
    BY <1>1, <2>1, WriteUnscanned
<1> QED
  BY <1>2, <1>3, <1>4, <1>5, <1>6 DEF ImportStep

\* A round counts, or begins to count anew, and the last one ends the handler.
LEMMA AsksStalls ==
  ASSUME Shape, InOrder, Stalls, NEW j \in {Preview, Full},
         NEW found \in SUBSET (Scenes \ scan.known), AskScenes(j, found)
  PROVE  Stalls'
<1> DEFINE known == scan.known \cup found
           begun == {c \in Chapters \ scan.done : ScenesOf[c] \cap known # {}}
           finished == {c \in begun : \A d \in begun : d <= c => d \in DoneChapters(known)}
           stalled == IF finished = {} THEN scan.stalled + 1 ELSE 0
           done == scan.done \cup finished
           stops == GivesUp(stalled) \/ (j[1] = "preliminary_scenes_preview" /\ known = {})
           goes == done = Chapters \/ j[1] = "preliminary_scenes_preview"
<1>1. scan' = [scan EXCEPT !.known = known, !.done = done, !.stalled = stalled]
  BY Zenon DEF AskScenes
<1>2. job' = [job EXCEPT ![j] = IF stops THEN [@ EXCEPT !.at = "failed"]
                                ELSE IF goes THEN [@ EXCEPT !.stage = NextStage(j)] ELSE @]
  BY Zenon DEF AskScenes
<1>3. j \in Jobs /\ Running(j)
  BY AsksGo, TheJobs
<1>4. stalled \in 0..MaxStalled
  <2>1. scan.stalled \in Nat /\ scan.stalled < MaxStalled
    BY <1>3 DEF Shape, Stalls
  <2> HIDE DEF finished
  <2> QED
    BY <2>1, RowsAssumption
<1> HIDE DEF known, finished, stalled, done, stops, goes
<1>5. scan'.stalled = stalled
  BY <1>1 DEF Shape
<1>6. stalled = MaxStalled => job'[j].at = "failed"
  <2> SUFFICES ASSUME stalled = MaxStalled
               PROVE  job'[j].at = "failed"
    OBVIOUS
  <2>1. stops
    BY DEF stops, GivesUp
  <2>2. job' = [job EXCEPT ![j] = [@ EXCEPT !.at = "failed"]]
    BY <1>2, <2>1
  <2>3. job' = [job EXCEPT ![j] =
                  [at |-> "failed", stage |-> job[j].stage, wrote |-> job[j].wrote]]
    BY <1>3, <2>2, ChangesTo
  <2>4. Becomes(j, "failed", job[j].stage, job[j].wrote)
    BY <1>3, <2>3, ItBecomes
  <2> QED
    BY <2>4 DEF Becomes
<1>7. \A i \in {Preview, Full} : i # j => ~Running(i)'
  <2>1. \A i \in Jobs : i # j => job'[i] = job[i]
    BY AsksGo DEF Becomes
  <2>2. job[j].at = "run"
    BY <1>3 DEF Running
  <2>3. \A i \in {Preview, Full} : i # j => ~Running(i)
    BY <2>2, OneScans
  <2> QED
    BY <2>1, <2>3, TheJobs DEF Running
<1> QED
  BY <1>4, <1>5, <1>6, <1>7, RowsAssumption DEF Stalls, Running

LEMMA StallsKept ==
  ASSUME Shape, InOrder, Stalls, [Next]_vars
  PROVE  Stalls'
<1>1. ASSUME Unscanned
      PROVE  Stalls'
  BY <1>1 DEF Unscanned, Stalls, Running
<1>2. ASSUME scan'.stalled = 0
      PROVE  Stalls'
  BY <1>2, RowsAssumption DEF Stalls
<1>3. CASE CreateCategories
  <2> DEFINE j == <<"extract_broad_categories", Book>>
             keys == IF \E r \in rows : r[1] = bookId /\ r[2] = "categories"
                       THEN {} ELSE {"all"}
  <2>1. scan' = scan /\ Write(j, bookId, "categories", keys, 2)
    BY <1>3, CategoriesGo, Zenon
  <2>2. j \in Jobs
    BY CategoryJob, Zenon
  <2> HIDE DEF j, keys
  <2> QED
    BY <1>1, <2>1, <2>2, WriteUnscanned
<1>4. ASSUME NEW j \in Jobs, j[1] \in INSERT_KINDS, InsertStep(j)
      PROVE  Stalls'
  <2>0. PICK k \in 1..Len(Stages(j[1])) : \E keys :
           scan' = scan /\ Write(j, bookId, j[1], keys, k + 1)
    BY <1>4, InsertGo, Zenon
  <2>1. PICK keys : scan' = scan /\ Write(j, bookId, j[1], keys, k + 1)
    BY <2>0
  <2>2. k + 1 \in Nat \ {0}
    BY LenStages
  <2> QED
    BY <1>1, <2>1, <2>2, WriteUnscanned
<1>5. CASE UNCHANGED vars
  BY <1>1, <1>5 DEF vars, Unscanned
<1>6. CASE Crash
  <2>1. /\ \A j \in Jobs : (Running(j) => job'[j] = Idle) /\ (~Running(j) => job'[j] = job[j])
        /\ scan' = scan
    BY <1>6, CrashGo
  <2>2. Idle.at = "pending"
    BY DEF Idle
  <2> QED
    BY <1>1, <2>1, <2>2, TheJobs DEF Unscanned, Running
<1>7. CASE TraitsStep
  <2>1. PICK t \in tails : CopyTraits(t) \/ FailTraits(t)
    BY <1>7 DEF TraitsStep
  <2>2. ImportJob \notin {Preview, Full}
    BY SceneJobs
  <2>3. CASE CopyTraits(t)
    <3>1. scan' = scan /\ \A j \in Jobs : j # ImportJob => job'[j] = job[j]
      BY <2>3, TraitsGo, Zenon
    <3> QED
      BY <1>1, <2>2, <3>1, TheJobs DEF Unscanned
  <2>4. CASE FailTraits(t)
    <3>1. scan' = scan
      BY <2>4, FailTraitsGo
    <3>2. \A j \in Jobs : j # ImportJob => job'[j] = job[j]
      BY <2>4, FailTraitsGo DEF Becomes
    <3> QED
      BY <1>1, <2>2, <3>1, <3>2, TheJobs DEF Unscanned
  <2> QED
    BY <2>1, <2>3, <2>4
<1>8. ASSUME NEW j \in {Preview, Full}, SceneStep(j)
      PROVE  Stalls'
  <2>0. j \in Jobs
    BY TheJobs
  <2>1. ASSUME NEW found \in SUBSET (Scenes \ scan.known), AskScenes(j, found)
        PROVE  Stalls'
    BY <2>1, AsksStalls
  <2>2. CASE AllKnown(j)
    BY <1>1, <2>0, <2>2, KnownGo, BecomesUnscanned
  <2>3. CASE CreateScenes(j)
    <3>1. scan' = scan
      BY <2>3, ScenesGo
    <3>2. CASE Becomes(j, "failed", 2, job[j].wrote)
      BY <1>1, <2>0, <3>1, <3>2, BecomesUnscanned
    <3>3. CASE \E n \in {3, 4} : Write(j, bookId, "scenes", scan.known \ scan.seed, n)
      BY <1>1, <2>0, <3>1, <3>3, WriteUnscanned
    <3> QED
      BY <2>3, <3>2, <3>3, ScenesGo, Zenon
  <2>4. CASE CreateGroups(j)
    <3>1. /\ scan' = scan
          /\ Write(j, bookId, "groups", {c \in Chapters : ScenesOf[c] \cap Written # {}}, 4)
      BY <2>4, GroupsGo, Zenon
    <3>2. 4 \in Nat \ {0}
      OBVIOUS
    <3> QED
      BY <1>1, <2>0, <3>1, <3>2, WriteUnscanned, Zenon
  <2> QED
    BY <1>8, <2>1, <2>2, <2>3, <2>4 DEF SceneStep
<1>9. ASSUME NEW j \in Jobs, TurnStep(j)
      PROVE  Stalls'
  <2>1. CASE Start(j)
    <3>1. Becomes(j, "run", job[j].stage, job[j].wrote)
      BY <2>1, StartGo
    <3>2. CASE j[1] \in SCENE_STEPS
      <4>1. scan' = Seeded
        BY <2>1, <3>2, StartGo
      <4>2. Seeded.stalled = 0
        BY DEF Seeded, NoScan
      <4> QED
        BY <1>2, <4>1, <4>2
    <3>3. CASE j[1] \notin SCENE_STEPS
      <4>1. scan' = scan
        BY <2>1, <3>3, StartGo
      <4>2. j \notin {Preview, Full}
        BY <3>3, SceneJobs
      <4> QED
        BY <1>1, <3>1, <4>1, <4>2, BecomesUnscanned
    <3> QED
      BY <3>2, <3>3
  <2>2. CASE Complete(j)
    <3>1. Becomes(j, "completed", 1, {}) /\ (scan' = NoScan \/ scan' = scan)
      BY <2>2, CompleteGo
    <3>2. NoScan.stalled = 0
      BY DEF NoScan
    <3>3. "completed" # "run"
      OBVIOUS
    <3> QED
      BY <1>1, <1>2, <3>1, <3>2, <3>3, BecomesUnscanned
  <2>3. CASE Fail(j)
    <3>1. Becomes(j, "failed", job[j].stage, job[j].wrote) /\ scan' = scan
      BY <2>3, FailGo
    <3>2. "failed" # "run"
      OBVIOUS
    <3> QED
      BY <1>1, <3>1, <3>2, BecomesUnscanned
  <2>4. CASE \E stage \in 1..3 : Retry(j, stage)
    <3>1. PICK stage \in 1..3 : Retry(j, stage)
      BY <2>4
    <3>2. Becomes(j, "pending", stage, {}) /\ scan' = scan
      BY <3>1, RetryGo
    <3>3. "pending" # "run"
      OBVIOUS
    <3> QED
      BY <1>1, <3>2, <3>3, BecomesUnscanned
  <2> QED
    BY <1>9, <2>1, <2>2, <2>3, <2>4 DEF TurnStep
<1>10. CASE ImportStep
  BY <1>1, <1>10, ImportUnscanned
<1> QED
  BY <1>3, <1>4, <1>5, <1>6, <1>7, <1>8, <1>9, <1>10, Handlers

\* Every variable has its type; in particular the scene step gives up before it
\* has asked MAX_STALLED_ROUNDS times in vain and once more, and nothing is
\* written to a book that was not created.
THEOREM RowsTypeCorrect == Spec => []TypeOK
<1>1. Init => Stalls
  <2>1. Init => scan.stalled = 0
    BY DEF Init, NoScan
  <2> QED
    BY <2>1, RowsAssumption DEF Stalls
<1>2. RowsInv /\ Stalls /\ [Next]_vars => Stalls'
  BY StallsKept DEF RowsInv
<1>3. RowsInv /\ Stalls => TypeOK
  <2> SUFFICES ASSUME RowsInv, Stalls
               PROVE  TypeOK
    OBVIOUS
  <2>1. Shape
    BY DEF RowsInv
  <2>2. \A j \in Jobs : /\ job[j].at \in {"pending", "run", "failed", "completed"}
                        /\ job[j].stage \in 1..Len(Stages(j[1])) + 1
                        /\ job[j].wrote \subseteq rows
    <3> SUFFICES ASSUME NEW j \in Jobs
                 PROVE  /\ job[j].at \in {"pending", "run", "failed", "completed"}
                        /\ job[j].stage \in 1..Len(Stages(j[1])) + 1
                        /\ job[j].wrote \subseteq rows
      OBVIOUS
    <3>1. Len(Stages(j[1])) \in Nat
      BY LenStages
    <3>2. /\ job[j].stage \in Nat \ {0} /\ job[j].stage <= Len(Stages(j[1])) + 1
          /\ job[j].at \in {"pending", "run", "failed", "completed"}
          /\ job[j].wrote \subseteq rows
      BY <2>1, JobType
    <3> QED
      BY <3>1, <3>2
  <2>3. scan.stalled \in 0..MaxStalled
    BY <2>1, RowsAssumption DEF Shape, Stalls
  <2>4. /\ scan.seed \subseteq scan.known /\ scan.known \subseteq Scenes
        /\ scan.done \subseteq Chapters
    BY <2>1 DEF Shape
  <2>5. doubled \cup broken \subseteq rows
    BY <2>1 DEF Shape
  <2> QED
    BY <2>1, <2>2, <2>3, <2>4, <2>5 DEF Shape, TypeOK
<1> QED
  BY <1>1, <1>2, <1>3, RowsInductive, PTL DEF Spec

=============================================================================
