--------------------------- MODULE EntityExtraction ---------------------------
(***************************************************************************)
(* How the entities of a book come into its database                       *)
(* (packages/pipeline-worker/src/workflow/process-book-import):            *)
(*                                                                         *)
(*   extract_entities    a model reads the book, some chapters a round, and*)
(*                       adds, updates and merges entities in memory; each *)
(*                       round ends with a checkpoint; at the end one      *)
(*                       transaction writes the rows and then the          *)
(*                       checkpoint is deleted                             *)
(*   categorize_entities a model gives each entity a category and an       *)
(*                       identifier, or merges it into another             *)
(*   remove_ambiguous_entity_names                                         *)
(*                       names that say too little are removed             *)
(*                                                                         *)
(* The worker can be lost anywhere and the step is run again from the      *)
(* start.  Names are phrases up to case; an entity is its names and its    *)
(* identifier, the model's other fields are left out, and so is force: it  *)
(* is an argument that the model may always give.                          *)
(***************************************************************************)
EXTENDS Integers, Sequences, FiniteSets, FiniteSetsExt, Functions

CONSTANTS
  MaxChapter,    \* the chapters are 1..MaxChapter
  Strays,        \* other numbers that a tool call may name for a chapter
  PreloadSize,   \* the chapters a round is given
  Names, Label,  \* the phrases; the label an entity falls back to
  Identifiers, Pending,   \* friendly ids; one that only marks a new row
  Continued,     \* sequences of rows that an earlier book of the series left
  MaxStalled,    \* MAX_STALLED_ROUNDS
  MaxAttempts,   \* MAX_CATEGORIZATION_ATTEMPTS
  MaxCalls, MaxEntities, MaxRestarts  \* bounds: tool calls of a session,
                                      \* entities, times a step starts again

Chapters == 1..MaxChapter

\* Running the step again may leave the rows of the time before.
Numbers == 1..(MaxEntities * (MaxRestarts + 1))

ASSUME ExtractionAssumption ==
  /\ MaxChapter \in Nat \ {0} /\ PreloadSize \in Nat \ {0}
  /\ Strays \subseteq Int \ Chapters /\ IsFiniteSet(Strays)
  /\ MaxStalled \in Nat \ {0} /\ MaxAttempts \in Nat \ {0}
  /\ MaxCalls \in Nat /\ MaxEntities \in Nat /\ MaxRestarts \in Nat
  /\ Label \notin Names /\ Pending \notin Identifiers
  /\ \A rs \in Continued :
       /\ rs \in Seq([names : SUBSET Names, ident : Identifiers])
       /\ \A r, s \in DOMAIN rs : rs[r].ident = rs[s].ident => r = s

VARIABLES
  step,       \* the step of the import, "done" after the last
  at,         \* where its handler is
  session,    \* entityMap: the entities in memory, by number
  next,       \* nextEntityIdRef
  complete,   \* completeChapters
  stalled,    \* stalledRounds
  cat,        \* categorizations: identifiers, by number
  attempt,    \* of categorization
  checkpoint, \* the row that a round leaves, or NoCheckpoint
  rows,       \* book_entities, by row
  error,      \* why the import failed
  learned,    \* names recorded in rounds that ended
  heard,      \* names recorded since
  excused,    \* names lost to entities that share a row or merge with themselves
  calls, restarts  \* bounds used up

vars == <<step, at, session, next, complete, stalled, cat, attempt, checkpoint,
          rows, error, learned, heard, excused, calls, restarts>>

NoCheckpoint == [next |-> 0, entities |-> <<>>, complete |-> {}]
Entity == [names : SUBSET (Names \cup {Label}), ident : Identifiers \cup {Pending}]

TypeOK ==
  /\ step \in {"extract", "categorize", "ambiguous", "done"}
  /\ at \in {"start", "session", "read", "committed", "cleaned"}
  /\ error \in {"none", "empty", "stalled", "uncategorized"}
  /\ session \in [DOMAIN session -> Entity] /\ rows \in [DOMAIN rows -> Entity]
  /\ checkpoint.entities \in [DOMAIN checkpoint.entities -> Entity]
  /\ cat \in [DOMAIN cat -> Identifiers]
  /\ DOMAIN session \cup DOMAIN rows \cup DOMAIN cat \subseteq Nat \ {0} /\ next \in Nat \ {0}
  /\ complete \cup checkpoint.complete \subseteq Chapters \cup Strays
  /\ stalled \in 0..MaxStalled /\ attempt \in 0..MaxAttempts
  /\ learned \cup heard \cup excused \subseteq Names \cup {Label}
  /\ calls \in 0..MaxCalls /\ restarts \in 0..MaxRestarts

Init ==
  /\ step = "extract" /\ at = "start" /\ error = "none"
  /\ rows \in Continued /\ checkpoint = NoCheckpoint
  /\ session = <<>> /\ next = 1 /\ complete = {} /\ stalled = 0
  /\ cat = <<>> /\ attempt = 0
  /\ learned = {} /\ heard = {} /\ excused = {} /\ calls = 0 /\ restarts = 0

Running(s, a) == step = s /\ at = a /\ error = "none"

NamesIn(f) == UNION {f[i].names : i \in DOMAIN f}

Without(f, i) == Restrict(f, DOMAIN f \ {i})

-----------------------------------------------------------------------------
(* extract_entities: reading *)

\* The entities that came from an earlier book, by name, which is no row's number.
StartingEntities ==
  LET continued == {rows[r] : r \in {r \in DOMAIN rows : rows[r].ident # Pending}}
  IN Bijection(1..Cardinality(continued), continued)

\* A checkpoint is resumed, with it the chapters it covers.  Reading goes on as
\* long as a chapter is missing.
StartExtraction ==
  /\ Running("extract", "start")
  /\ IF checkpoint # NoCheckpoint
       THEN /\ session' = checkpoint.entities /\ next' = checkpoint.next
            /\ complete' = checkpoint.complete
       ELSE /\ \E starting \in StartingEntities :
                 session' = starting /\ next' = Len(starting) + 1
            /\ complete' = {}
  /\ at' = IF Chapters \subseteq complete' THEN "read" ELSE "session"
  /\ stalled' = 0 /\ heard' = {} /\ calls' = 0
  /\ UNCHANGED <<step, cat, attempt, checkpoint, rows, error, learned, excused, restarts>>

Call ==
  /\ calls < MaxCalls /\ calls' = calls + 1
  /\ UNCHANGED <<step, at, stalled, attempt, complete, checkpoint, rows, error, restarts>>

\* Names overlap with those of x: force needs one more that x has not.
Distinguished(new, all, x) ==
  new \cap session[x].names = {} \/ all \ session[x].names # {}

AddEntity(ns) ==
  /\ Running("extract", "session") /\ next <= MaxEntities
  /\ \A x \in DOMAIN session : Distinguished(ns, ns, x)
  /\ session' = [i \in DOMAIN session \cup {next} |->
                   IF i = next THEN [names |-> ns, ident |-> Pending] ELSE session[i]]
  /\ next' = next + 1 /\ heard' = heard \cup ns
  /\ Call /\ UNCHANGED <<cat, learned, excused>>

\* Names are removed first; when the new ones are refused they stay removed.
UpdateEntity(e, add, remove) ==
  LET kept == session[e].names \ remove
      refused == \E x \in DOMAIN session \ {e} : ~Distinguished(add, kept \cup add, x)
      given == IF refused THEN {} ELSE add
  IN /\ Running("extract", "session")
     /\ remove # {} => kept \cup add # {}
     /\ session' = [session EXCEPT ![e].names = kept \cup given]
     /\ heard' = (heard \ remove) \cup given /\ learned' = learned \ (remove \ given)
     /\ Call /\ UNCHANGED <<next, cat, excused>>

MergeEntities(p, s, add) ==
  /\ Running("extract", "session") /\ p # s
  /\ session' = Without([session EXCEPT ![p].names = @ \cup session[s].names \cup add], s)
  /\ heard' = heard \cup add
  /\ Call /\ UNCHANGED <<next, cat, learned, excused>>

\* findMissingChapterRange and the chapters preloaded of it: from the first one
\* that is missing on, also some that are complete.
Preloaded ==
  LET first == Min(Chapters \ complete)
  IN {c \in Chapters : first <= c /\ c < first + PreloadSize}

\* Variant: the preloaded chapters count only when the model asks for them.
CountCalls(asked) == complete \cup asked

\* The chapters of the round, and those the model asked for on its own: the
\* numbers are taken from its tool calls as they are.
CountChapters(asked) == complete \cup Preloaded \cup asked

\* Variant: the chapters are saved before the entities.
SaveChapters ==
  [next |-> checkpoint.next + 1, entities |-> checkpoint.entities, complete |-> complete']

SaveRound == [next |-> next, entities |-> session, complete |-> complete']

\* The passes are over: nothing found at all is fatal, and so is a stall.  The
\* loop ends when as many numbers are complete as there are chapters.
EndRound(asked) ==
  /\ Running("extract", "session")
  /\ IF session = <<>>
       THEN error' = "empty" /\ UNCHANGED <<at, complete, stalled, checkpoint, learned, heard, calls>>
       ELSE /\ complete' = CountChapters(asked)
            /\ stalled' = IF complete' = complete THEN stalled + 1 ELSE 0
            /\ checkpoint' = SaveRound
            /\ at' = IF Cardinality(complete') >= MaxChapter THEN "read" ELSE "session"
            /\ error' = IF stalled' = MaxStalled THEN "stalled" ELSE "none"
            /\ learned' = learned \cup heard /\ heard' = {} /\ calls' = 0
  /\ UNCHANGED <<step, session, next, cat, attempt, rows, excused, restarts>>

-----------------------------------------------------------------------------
(* extract_entities: the rows *)

\* Variant: only rows of an earlier book are looked for.
FindContinued(e) == {r \in DOMAIN rows : rows[r].ident = session[e].ident /\ rows[r].ident # Pending}

\* The row of an entity: by friendly id, else by its names.
FindRow(e) ==
  LET same == {r \in DOMAIN rows : rows[r].ident = session[e].ident /\ rows[r].ident # Pending}
  IN IF same # {} THEN same ELSE {r \in DOMAIN rows : rows[r].names = session[e].names}

\* toUpdate is keyed by row: of the entities that find a row the last one wins.
Owner(r) == {e \in DOMAIN session : FindRow(e) # {} /\ r = Min(FindRow(e))}

\* The rows that are found get the names, the others are inserted.
SavedRows ==
  LET new == {e \in DOMAIN session : FindRow(e) = {}}
      nth(i) == CHOOSE e \in new : Cardinality({d \in new : d <= e}) = i
      inserted == (Len(rows) + 1)..(Len(rows) + Cardinality(new))
  IN [r \in DOMAIN rows \cup inserted |->
        IF r \notin DOMAIN rows
          THEN [names |-> session[nth(r - Len(rows))].names, ident |-> Pending]
        ELSE IF Owner(r) = {} THEN rows[r]
        ELSE [names |-> session[Max(Owner(r))].names, ident |-> rows[r].ident]]

CommitEntities ==
  /\ Running("extract", "read")
  /\ rows' = SavedRows /\ at' = "committed"
  /\ excused' = excused \cup
       UNION {session[e].names : e \in {e \in DOMAIN session :
                \E r \in DOMAIN rows : e \in Owner(r) /\ e # Max(Owner(r))}}
  /\ UNCHANGED <<step, session, next, complete, stalled, cat, attempt, checkpoint,
                 error, learned, heard, calls, restarts>>

DeleteCheckpoint ==
  /\ Running("extract", "committed")
  /\ checkpoint' = NoCheckpoint /\ at' = "cleaned"
  /\ UNCHANGED <<step, session, next, complete, stalled, cat, attempt, rows,
                 error, learned, heard, excused, calls, restarts>>

-----------------------------------------------------------------------------
(* categorize_entities *)

\* What has an identifier keeps it, as long as the model does not change it.
Seeds == [r \in {r \in DOMAIN rows : rows[r].ident # Pending} |-> rows[r].ident]

StartCategorizing ==
  /\ Running("categorize", "start")
  /\ IF \E r \in DOMAIN rows : rows[r].ident = Pending
       THEN at' = "session" /\ session' = rows /\ cat' = Seeds /\ attempt' = 1 /\ calls' = 0
       ELSE at' = "committed" /\ UNCHANGED <<session, cat, attempt, calls>>
  /\ UNCHANGED <<step, next, complete, stalled, checkpoint, rows, error,
                 learned, heard, excused, restarts>>

\* Variant: nobody looks whether an identifier is in use.
NeverTaken(i, f) == FALSE

\* Variant: only identifiers that were given now are looked at.
TakenNow(i, f) ==
  \E x \in (DOMAIN cat \cap DOMAIN rows) \ {i} : cat[x] = f /\ rows[x].ident = Pending

Taken(i, f) == \E x \in DOMAIN cat \ {i} : cat[x] = f

\* The number need not be that of an entity: it may have been merged away.
Categorize(i, f) ==
  /\ Running("categorize", "session") /\ ~Taken(i, f)
  /\ cat' = [x \in DOMAIN cat \cup {i} |-> IF x = i THEN f ELSE cat[x]]
  /\ Call /\ UNCHANGED <<session, next, learned, heard, excused>>

\* The second entity goes, also when it is the first one itself.
MergeCategorized(p, s) ==
  /\ Running("categorize", "session") /\ p \in DOMAIN cat
  /\ session[p].names \cap session[s].names # {}
  /\ session' = Without([session EXCEPT ![p].names = @ \cup session[s].names], s)
  /\ cat' = Without(cat, s)
  /\ excused' = IF p = s THEN excused \cup session[s].names ELSE excused
  /\ Call /\ UNCHANGED <<next, learned, heard>>

\* The prompt is over; what is left is asked again, MaxAttempts times in all.
EndAttempt ==
  /\ Running("categorize", "session")
  /\ IF DOMAIN session \subseteq DOMAIN cat
       THEN /\ rows' = [r \in DOMAIN session |->
                          [names |-> session[r].names, ident |-> cat[r]]]
            /\ at' = "committed" /\ UNCHANGED <<attempt, error, restarts, calls>>
       ELSE /\ calls' = 0 /\ UNCHANGED rows
            /\ IF attempt < MaxAttempts
                 THEN attempt' = attempt + 1 /\ UNCHANGED <<at, error, restarts>>
                 ELSE /\ UNCHANGED attempt
                      /\ IF restarts < MaxRestarts
                           THEN at' = "start" /\ restarts' = restarts + 1 /\ UNCHANGED error
                           ELSE error' = "uncategorized" /\ UNCHANGED <<at, restarts>>
  /\ UNCHANGED <<step, session, next, complete, stalled, cat, checkpoint,
                 learned, heard, excused>>

-----------------------------------------------------------------------------
(* remove_ambiguous_entity_names *)

\* The rows are found again by friendly id: written is the first that has it,
\* read was the last.
WithIdent(f) == {r \in DOMAIN rows : rows[r].ident = f}

Remaining(f, flagged) ==
  LET read == rows[Max(WithIdent(f))].names
      gone == {n \in read : <<f, n>> \in flagged}
  IN IF gone = {} THEN rows[Min(WithIdent(f))].names
     ELSE IF read = gone THEN {Label} ELSE read \ gone

RemoveNames(flagged) ==
  /\ Running("ambiguous", "start") /\ at' = "committed"
  /\ rows' = [r \in DOMAIN rows |->
                LET f == rows[r].ident
                IN IF r = Min(WithIdent(f))
                     THEN [names |-> Remaining(f, flagged), ident |-> f] ELSE rows[r]]
  /\ learned' = learned \ {p[2] : p \in flagged}
  /\ UNCHANGED <<step, session, next, complete, stalled, cat, attempt, checkpoint,
                 error, heard, excused, calls, restarts>>

-----------------------------------------------------------------------------
(* Steps *)

\* What a handler keeps in memory goes with it.
Forget ==
  /\ at' = "start" /\ session' = <<>> /\ next' = 1 /\ complete' = {} /\ stalled' = 0
  /\ cat' = <<>> /\ attempt' = 0 /\ heard' = {} /\ calls' = 0
  /\ UNCHANGED <<checkpoint, rows, error, learned, excused>>

\* The runner marks the step completed and goes on to the next one.
Finish ==
  /\ error = "none"
  /\ \/ step = "extract" /\ at = "cleaned" /\ step' = "categorize"
     \/ step = "categorize" /\ at = "committed" /\ step' = "ambiguous"
     \/ step = "ambiguous" /\ at = "committed" /\ step' = "done"
  /\ Forget /\ UNCHANGED restarts

\* The handler throws or its worker ends; the step is run again.
Restart ==
  /\ at # "start" /\ step # "done" /\ error = "none" /\ restarts < MaxRestarts
  /\ restarts' = restarts + 1
  /\ Forget /\ UNCHANGED step

Proceed ==
  \/ StartExtraction \/ (\E asked \in SUBSET (Chapters \cup Strays) : EndRound(asked))
  \/ CommitEntities \/ DeleteCheckpoint
  \/ StartCategorizing \/ EndAttempt
  \/ \E flagged \in SUBSET {<<rows[r].ident, n>> : r \in DOMAIN rows, n \in Names} :
       RemoveNames(flagged)
  \/ Finish

Tools ==
  \/ \E ns \in SUBSET Names : AddEntity(ns)
  \/ \E e \in DOMAIN session, add, remove \in SUBSET Names : UpdateEntity(e, add, remove)
  \/ \E p, s \in DOMAIN session, add \in SUBSET Names : MergeEntities(p, s, add)
  \/ \E i \in Numbers, f \in Identifiers : Categorize(i, f)
  \/ \E p, s \in DOMAIN session : MergeCategorized(p, s)

Next == Proceed \/ Tools \/ Restart

\* A session is a bounded number of prompts, each of which ends: the agent is
\* aborted when it reads too much, and a request that hangs times out.
Spec == Init /\ [][Next]_vars /\ WF_vars(Proceed)

-----------------------------------------------------------------------------
(* Properties *)

\* A name recorded in a round that ended is in the checkpoint or in a row from
\* then on, until the model removes it, wherever the worker was lost: the rows
\* are written before the checkpoint goes (extract-entities.ts:138-199).
\* Excused are names of an entity whose row a later entity found as well, and
\* of one that categorization merged with itself.
NothingReadIsLost ==
  learned \subseteq NamesIn(rows) \cup NamesIn(checkpoint.entities) \cup excused

\* Once the rows are written, running the step again finds them: a worker lost
\* before the checkpoint is deleted leaves no entity twice
\* (extract-entities.ts:143-154).
RedoInsertsNothing ==
  Running("extract", "committed") => \A e \in DOMAIN session : FindRow(e) # {}

\* After categorization no two entities share a friendly id, whatever the model
\* merged, categorized again or named that does not exist, and although no index
\* of the table says so (categorize-entities.ts:278-303).
IdentifiersUnique ==
  step \in {"ambiguous", "done"} =>
    \A r, s \in DOMAIN rows : rows[r].ident = rows[s].ident => r = s

\* Removing ambiguous names, which finds rows by friendly id alone, takes names
\* from an entity or leaves it its label, and gives none to another entity
\* (remove-ambiguous-entity-names.ts:341-376).
NamesStayPut ==
  [][step = "ambiguous" =>
       \A r \in DOMAIN rows : /\ r \in DOMAIN rows'
                              /\ rows'[r].names \subseteq rows[r].names \cup {Label}]_vars

\* The steps end, and no extraction stalls: they fail only when the book yields
\* no entity or the model does not categorize what it found
\* (extract-entities.ts:705-860).
ExtractionEnds == <>(step = "done" \/ error \in {"empty", "uncategorized"})
=============================================================================
