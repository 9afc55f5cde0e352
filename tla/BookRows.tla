------------------------------ MODULE BookRows ------------------------------
(***************************************************************************)
(* The rows that the handlers of the import and extract phases leave       *)
(* (packages/pipeline-worker/src/workflow/import-book.ts and               *)
(* process-book-import), entities apart (EntityExtraction).                *)
(*                                                                         *)
(* No table has a key against rows that mean the same, and most handlers   *)
(* write in several statements, with requests to a model in between.  A    *)
(* handler may fail or be lost after any of them, and is then run again.   *)
(* What keeps the rows straight differs: the first handler makes a new book*)
(* each time and hands it over at the end, scenes and categories are read  *)
(* before they are written, the others write without looking.              *)
(***************************************************************************)
EXTENDS PipelineDefinition, Sequences

CONSTANTS
  MaxChapter,   \* the chapters are 1..MaxChapter; each is a scene group
  ScenesOf,     \* the scenes of each chapter, by splitByThematicBreak
  Peopled,      \* the groups in which entities are mentioned
  Book,         \* the item of a step that is about the whole book
  MaxStalled,   \* MAX_STALLED_ROUNDS
  Concurrency,  \* at most so many handlers at a time
  MaxFailures, MaxCrashes  \* bounds

Chapters == 1..MaxChapter
Scenes == UNION {ScenesOf[c] : c \in Chapters}

ASSUME RowsAssumption ==
  /\ MaxChapter \in Nat \ {0} /\ DOMAIN ScenesOf = Chapters
  /\ \A c \in Chapters : ScenesOf[c] # {}
  /\ \A c, d \in Chapters : c # d => ScenesOf[c] \cap ScenesOf[d] = {}
  /\ Peopled \subseteq Chapters /\ MaxStalled \in Nat \ {0} /\ Concurrency \in Nat \ {0}
  /\ MaxFailures \in Nat /\ MaxCrashes \in Nat /\ Book \notin Chapters

SCENE_STEPS == {"preliminary_scenes_preview", "preliminary_scenes"}

Items(step) == IF step \in SCENE_GROUP_STEPS THEN Chapters ELSE {Book}
\* The steps before extract_hierarchy and determine_minors, which write no rows of theirs.
Jobs == {j \in REPORTING_STEPS \X (Chapters \cup {Book}) : j[2] \in Items(j[1])}
ImportJob == <<"imported_book", Book>>

\* What a handler does, one write after the other.  Handlers that only change
\* rows, or read them, have nothing here.
Stages(step) ==
  CASE step = "imported_book" ->
         <<"book", "chapters", "paragraphs", "categories", "entities", "traits", "hand over">>
    [] step \in SCENE_STEPS -> <<"ask", "scenes", "groups">>
    [] step = "extract_broad_categories" -> <<"categories">>
    [] step = "extract_styles" -> <<"styles">>
    [] step = "extract_appellations" -> <<"CHARACTER", "ALL_OTHER">>
    [] step = "extract_entity_attributes" -> <<"CHARACTER", "PLACE", "ALL_OTHER">>
    [] step = "extract_relationships" -> <<"relationships">>
    [] OTHER -> <<>>

VARIABLES
  series,   \* whether the book continues another one
  bookId,   \* the book that the import has been handed, 0 for none
  books,    \* books created
  rows,     \* <<book, kind, key>>
  doubled,  \* those written a second time
  broken,   \* those whose handler ended before it returned
  job,      \* where each handler is, and what it wrote
  scan,     \* the scene step: scenes found in rows, known, chapters done
  tails,    \* calls of Promise.all that run: <<book, type>>
  refused,  \* scene steps whose insert had no rows
  used      \* bounds used up

vars == <<series, bookId, books, rows, doubled, broken, job, scan, tails, refused, used>>

Idle == [at |-> "pending", stage |-> 1, wrote |-> {}]
NoScan == [seed |-> {}, known |-> {}, done |-> {}, stalled |-> 0]

TypeOK ==
  /\ series \in BOOLEAN /\ books \in Nat /\ bookId \in 0..books
  /\ \A r \in rows : r[1] \in 1..books
  /\ doubled \cup broken \subseteq rows
  /\ \A j \in Jobs : /\ job[j].at \in {"pending", "run", "failed", "completed"}
                     /\ job[j].stage \in 1..Len(Stages(j[1])) + 1
                     /\ job[j].wrote \subseteq rows
  /\ scan.seed \subseteq scan.known /\ scan.known \subseteq Scenes
  /\ scan.done \subseteq Chapters /\ scan.stalled \in 0..MaxStalled
  /\ tails \subseteq (1..books) \X {"CHARACTER", "PLACE"}
  /\ refused \subseteq SCENE_STEPS
  /\ used \in [{"failures", "crashes"} -> Nat]

Init ==
  /\ series \in BOOLEAN /\ bookId = 0 /\ books = 0
  /\ rows = {} /\ doubled = {} /\ broken = {}
  /\ job = [j \in Jobs |-> Idle] /\ scan = NoScan /\ tails = {} /\ refused = {}
  /\ used = [b \in {"failures", "crashes"} |-> 0]

-----------------------------------------------------------------------------
(* Handlers *)

StepDone(step) == \A j \in Jobs : j[1] = step => job[j].at = "completed"
Running(j) == job[j].at = "run"
At(j, stage) ==
  Running(j) /\ job[j].stage <= Len(Stages(j[1])) /\ Stages(j[1])[job[j].stage] = stage

\* The scenes of the book, as rows.
Written == {s \in Scenes : <<bookId, "scenes", s>> \in rows}

\* Variant: a chapter of which a scene is known is done.
DoneWhenBegun(known) == {c \in Chapters : ScenesOf[c] \cap known # {}}

DoneChapters(known) == {c \in Chapters : ScenesOf[c] \subseteq known}

\* Variant: scenes of an earlier run are not looked at.
FromNothing == NoScan

\* Scenes that an earlier run wrote are known from the start.
Seeded == [NoScan EXCEPT !.seed = Written, !.known = Written, !.done = DoneChapters(Written)]

\* The items of a step are queued in the order of their groups.
Start(j) ==
  /\ job[j].at = "pending" /\ \A d \in STEP_DEPENDS[j[1]] : StepDone(d)
  /\ \A i \in Jobs : (i[1] = j[1] /\ i[2] < j[2]) => job[i].at # "pending"
  /\ Cardinality({i \in Jobs : Running(i)}) < Concurrency
  /\ job' = [job EXCEPT ![j].at = "run"]
  /\ scan' = IF j[1] \in SCENE_STEPS THEN Seeded ELSE scan
  /\ UNCHANGED <<series, bookId, books, rows, doubled, broken, tails, refused, used>>

\* Writes rows of a book and goes on to a stage.
Write(j, book, kind, keys, stage) ==
  LET new == {book} \X {kind} \X keys
  IN /\ rows' = rows \cup new
     /\ doubled' = doubled \cup (new \cap rows)
     /\ job' = [job EXCEPT ![j].wrote = @ \cup new, ![j].stage = stage]
     /\ UNCHANGED <<series, broken, refused, used>>

NextStage(j) == job[j].stage + 1

\* The handler returns and the runner marks its step or item completed.
Complete(j) ==
  /\ Running(j) /\ job[j].stage > Len(Stages(j[1]))
  /\ job' = [job EXCEPT ![j] = [Idle EXCEPT !.at = "completed"]]
  /\ scan' = IF j[1] \in SCENE_STEPS THEN NoScan ELSE scan
  /\ UNCHANGED <<series, bookId, books, rows, doubled, broken, tails, refused, used>>

-----------------------------------------------------------------------------
(* imported_book *)

\* createBook, under a new id for every attempt.
CreateBook ==
  /\ At(ImportJob, "book") /\ books' = books + 1
  /\ job' = [job EXCEPT ![ImportJob].stage = @ + 1]
  /\ UNCHANGED <<series, bookId, rows, doubled, broken, scan, tails, refused, used>>

CreateChapters ==
  /\ At(ImportJob, "chapters")
  /\ Write(ImportJob, books, "chapters", Chapters, NextStage(ImportJob))
  /\ UNCHANGED <<bookId, books, scan, tails>>

\* Chapter by chapter; without an earlier book that was all.
CreateParagraphs(c) ==
  /\ At(ImportJob, "paragraphs")
  /\ c \in Chapters /\ \A d \in 1..(c - 1) : <<books, "paragraphs", d>> \in job[ImportJob].wrote
  /\ <<books, "paragraphs", c>> \notin job[ImportJob].wrote
  /\ Write(ImportJob, books, "paragraphs", {c},
           IF c < MaxChapter THEN job[ImportJob].stage
           ELSE IF series THEN NextStage(ImportJob) ELSE Len(Stages("imported_book")))
  /\ UNCHANGED <<bookId, books, scan, tails>>

\* copyPreviousBookData; after it two calls ask the model about traits.
CopyPrevious(kind) ==
  /\ kind \in {"categories", "entities"} /\ At(ImportJob, kind)
  /\ Write(ImportJob, books, kind, {"earlier"}, NextStage(ImportJob))
  /\ tails' = IF kind = "entities"
                THEN tails \cup ({books} \X {"CHARACTER", "PLACE"}) ELSE tails
  /\ UNCHANGED <<bookId, books, scan>>

\* The handler waits for the calls of its own attempt; a call that an earlier,
\* failed attempt left behind goes on all the same.
Awaited(t) == At(ImportJob, "traits") /\ t[1] = books

\* Variant: the handler goes on after the first of them.
LastIsAny(t) == t \in tails

\* Promise.all is done with the last of them.
IsLast(t) == {u \in tails : u[1] = t[1]} = {t}

CopyTraits(t) ==
  LET new == <<t[1], "traits", t[2]>>
  IN /\ t \in tails /\ tails' = tails \ {t}
     /\ rows' = rows \cup {new} /\ doubled' = doubled \cup ({new} \cap rows)
     /\ job' = IF Awaited(t)
                 THEN [job EXCEPT ![ImportJob].wrote = @ \cup {new},
                                  ![ImportJob].stage = IF IsLast(t) THEN @ + 1 ELSE @]
                 ELSE job
     /\ broken' = IF Awaited(t) THEN broken ELSE broken \cup {new}
     /\ UNCHANGED <<series, bookId, books, scan, refused, used>>

\* bridgeUpdateBookImport, the last thing the handler does.
HandOver ==
  /\ At(ImportJob, "hand over") /\ bookId' = books
  /\ job' = [job EXCEPT ![ImportJob].stage = @ + 1]
  /\ UNCHANGED <<series, books, rows, doubled, broken, scan, tails, refused, used>>

-----------------------------------------------------------------------------
(* preliminary_scenes_preview and preliminary_scenes *)

GivesUp(stalled) == stalled = MaxStalled

\* One round: the model describes scenes, then the chapters whose scenes are all
\* known are done, in order, up to the first that is not.
AskScenes(j, found) ==
  LET known == scan.known \cup found
      begun == {c \in Chapters \ scan.done : ScenesOf[c] \cap known # {}}
      finished == {c \in begun : \A d \in begun : d <= c => d \in DoneChapters(known)}
      stalled == IF finished = {} THEN scan.stalled + 1 ELSE 0
      done == scan.done \cup finished
  IN /\ At(j, "ask") /\ scan.done # Chapters
     /\ scan' = [scan EXCEPT !.known = known, !.done = done, !.stalled = stalled]
     /\ job' = [job EXCEPT ![j] =
          IF GivesUp(stalled) \/ (j[1] = "preliminary_scenes_preview" /\ known = {})
            THEN [@ EXCEPT !.at = "failed"]
          ELSE IF done = Chapters \/ j[1] = "preliminary_scenes_preview"
            THEN [@ EXCEPT !.stage = NextStage(j)]
          ELSE @]
     /\ UNCHANGED <<series, bookId, books, rows, doubled, broken, tails, refused, used>>

AllKnown(j) ==
  /\ At(j, "ask") /\ scan.done = Chapters
  /\ job' = [job EXCEPT ![j].stage = NextStage(j)]
  /\ UNCHANGED <<series, bookId, books, rows, doubled, broken, scan, tails, refused, used>>

\* One statement for all new scenes.  For none it is not SQL, and fails.
CreateScenes(j) ==
  /\ At(j, "scenes")
  /\ IF scan.known = scan.seed
       THEN /\ refused' = refused \cup {j[1]}
            /\ job' = [job EXCEPT ![j].at = "failed"]
            /\ UNCHANGED <<series, rows, doubled, broken, used>>
       ELSE Write(j, bookId, "scenes", scan.known \ scan.seed,
                  IF scan.done = Chapters THEN NextStage(j) ELSE NextStage(j) + 1)
  /\ UNCHANGED <<bookId, books, scan, tails>>

\* All scenes of the book, in groups.
CreateGroups(j) ==
  /\ At(j, "groups")
  /\ Write(j, bookId, "groups", {c \in Chapters : ScenesOf[c] \cap Written # {}}, NextStage(j))
  /\ UNCHANGED <<bookId, books, scan, tails>>

-----------------------------------------------------------------------------
(* The other handlers *)

\* Categories that an earlier book left are enough.
CreateCategories ==
  LET j == <<"extract_broad_categories", Book>>
      there == \E r \in rows : r[1] = bookId /\ r[2] = "categories"
  IN /\ At(j, "categories")
     /\ Write(j, bookId, "categories", IF there THEN {} ELSE {"all"}, NextStage(j))
     /\ UNCHANGED <<bookId, books, scan, tails>>

\* What the model answers is inserted under the item.  In a scene group that
\* mentions nobody there is nothing to ask.
Insert(j, stage) ==
  /\ At(j, stage)
  /\ Write(j, bookId, j[1], IF j[2] \in Peopled \cup {Book} THEN {<<stage, j[2]>>} ELSE {},
           NextStage(j))
  /\ UNCHANGED <<bookId, books, scan, tails>>

InsertStyles == Insert(<<"extract_styles", Book>>, "styles")

\* extract_appellations runs two functions, one after the other.
InsertCharacterAppellations(g) == Insert(<<"extract_appellations", g>>, "CHARACTER")
InsertEntityAppellations(g) == Insert(<<"extract_appellations", g>>, "ALL_OTHER")

\* extract_entity_attributes runs the same function for three types.
InsertAttributes(g, type) == Insert(<<"extract_entity_attributes", g>>, type)

InsertRelationships(g) == Insert(<<"extract_relationships", g>>, "relationships")

-----------------------------------------------------------------------------
(* Failures *)

Use(b) == used' = [used EXCEPT ![b] = @ + 1]

\* A handler that made no write since it was started breaks nothing.
Fail(j) ==
  /\ Running(j) /\ job[j].stage <= Len(Stages(j[1])) /\ used["failures"] < MaxFailures
  /\ job' = [job EXCEPT ![j].at = "failed"]
  /\ broken' = broken \cup job[j].wrote
  /\ Use("failures")
  /\ UNCHANGED <<series, bookId, books, rows, doubled, scan, tails, refused>>

\* One of the two calls about traits fails; the other one goes on.
FailTraits(t) ==
  /\ t \in tails /\ used["failures"] < MaxFailures
  /\ tails' = tails \ {t}
  /\ IF Awaited(t)
       THEN /\ job' = [job EXCEPT ![ImportJob].at = "failed"]
            /\ broken' = broken \cup job[ImportJob].wrote
       ELSE UNCHANGED <<job, broken>>
  /\ Use("failures")
  /\ UNCHANGED <<series, bookId, books, rows, doubled, scan, refused>>

\* The retry loop of a function runs it again, a later run of the import the
\* whole handler.  Nothing but the rows is known to it.
Retry(j, stage) ==
  /\ job[j].at = "failed"
  /\ stage = 1 \/ (j[1] \in SCENE_GROUP_STEPS /\ stage = job[j].stage)
  /\ job' = [job EXCEPT ![j] = [Idle EXCEPT !.stage = stage]]
  /\ UNCHANGED <<series, bookId, books, rows, doubled, broken, scan, tails, refused, used>>

Crash ==
  /\ used["crashes"] < MaxCrashes /\ \E j \in Jobs : Running(j)
  /\ broken' = broken \cup UNION {job[j].wrote : j \in {i \in Jobs : Running(i)}}
  /\ job' = [j \in Jobs |-> IF Running(j) THEN Idle ELSE job[j]]
  /\ tails' = {} /\ Use("crashes")
  /\ UNCHANGED <<series, bookId, books, rows, doubled, scan, refused>>

Next ==
  \/ \E j \in Jobs :
       \/ Start(j) \/ Complete(j)
       \/ Fail(j) \/ \E stage \in 1..3 : Retry(j, stage)
  \/ \E j \in SCENE_STEPS \X {Book} :
       \/ \E found \in SUBSET (Scenes \ scan.known) : AskScenes(j, found)
       \/ AllKnown(j) \/ CreateScenes(j) \/ CreateGroups(j)
  \/ CreateBook \/ CreateChapters \/ (\E c \in Chapters : CreateParagraphs(c))
  \/ (\E kind \in {"categories", "entities"} : CopyPrevious(kind))
  \/ (\E t \in tails : CopyTraits(t) \/ FailTraits(t))
  \/ HandOver \/ CreateCategories \/ InsertStyles \/ Crash
  \/ \E g \in Chapters :
       \/ InsertCharacterAppellations(g) \/ InsertEntityAppellations(g)
       \/ (\E type \in {"CHARACTER", "PLACE", "ALL_OTHER"} : InsertAttributes(g, type))
       \/ InsertRelationships(g)

Spec == Init /\ [][Next]_vars

-----------------------------------------------------------------------------
(* Properties *)

\* Every row that is there twice was written by a handler that did not come to
\* its end, and is of a kind that is written without a look at what is there:
\* scenes, groups and categories are never there twice, nor is anything of the
\* book the first handler makes (import-book.ts:191, extract-scenes.ts:454,
\* handlers.ts:48).
DoubledHasACause ==
  /\ doubled \subseteq broken
  /\ \A r \in doubled : r[2] \in SCENE_GROUP_STEPS \cup {"extract_styles"}

\* The book that the import is told of is whole, whatever attempts, crashes and
\* left-behind calls there were before: all chapters with their paragraphs, and
\* what comes from an earlier book (import-book.ts:191 to 320).
HandedOverWhole ==
  bookId # 0 =>
    /\ \A c \in Chapters, kind \in {"chapters", "paragraphs"} : <<bookId, kind, c>> \in rows
    /\ series => /\ \A kind \in {"categories", "entities"} : <<bookId, kind, "earlier">> \in rows
                 /\ \A type \in {"CHARACTER", "PLACE"} : <<bookId, "traits", type>> \in rows

\* Once the scenes are done every scene of the book is a row and every chapter
\* is in a scene group, though the groups may have been made by the preview, and
\* later handlers go over groups only (extract-scenes.ts:223).
GroupsCover ==
  StepDone("preliminary_scenes") =>
    /\ Written = Scenes
    /\ \A c \in Chapters : <<bookId, "groups", c>> \in rows
=============================================================================
