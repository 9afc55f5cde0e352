----------------------- MODULE EntityExtractionProofs -----------------------
(***************************************************************************)
(* For any book and any number of attempts: names that a finished round    *)
(* recorded are not lost and not inserted twice, friendly ids are unique   *)
(* after categorization, and so the last step, which finds rows by         *)
(* friendly id alone, changes the rows that it read and no others.         *)
(***************************************************************************)
EXTENDS EntityExtraction, FiniteSetTheorems, SequenceTheorems, WellFoundedInduction, TLAPS

\* No identifier is given to two entities, neither in memory nor in the rows;
\* rows that only mark a new entity are not counted.
CatUnique ==
  /\ \A i \in DOMAIN cat : cat[i] # Pending
  /\ \A i, k \in DOMAIN cat : cat[i] = cat[k] => i = k

RowsUnique ==
  \A r, s \in DOMAIN rows :
    (rows[r].ident = rows[s].ident /\ rows[r].ident # Pending) => r = s

\* Once categorization is committed every row has an identifier.
RowsNamed ==
  (step = "categorize" /\ at = "committed") \/ step \in {"ambiguous", "done"}
    => \A r \in DOMAIN rows : rows[r].ident # Pending

RowsNumbered ==
  /\ DOMAIN rows \subseteq Int
  /\ step = "categorize" => DOMAIN session \subseteq Int

IdentInv == CatUnique /\ RowsUnique /\ RowsNamed /\ RowsNumbered

LEMMA IdentStart == Init => IdentInv
  <1> SUFFICES ASSUME Init PROVE IdentInv
      OBVIOUS
  <1>1. rows \in Seq([names : SUBSET Names, ident : Identifiers])
        /\ \A r, s \in DOMAIN rows : rows[r].ident = rows[s].ident => r = s
      BY ExtractionAssumption DEF Init
  <1>2. DOMAIN rows \subseteq Int
      BY <1>1
  <1>3. DOMAIN cat = {} /\ step = "extract"
      BY DEF Init
  <1> QED
      BY <1>1, <1>2, <1>3 DEF IdentInv, CatUnique, RowsUnique, RowsNamed, RowsNumbered

\* Steps that change neither rows nor identifiers.
LEMMA IdentQuiet ==
  ASSUME IdentInv, UNCHANGED rows, cat' = cat \/ cat' = <<>>,
         \/ UNCHANGED <<step, at, session>>
         \/ step' = "extract"
         \/ step' = step /\ at' = "start" /\ session' = <<>>
         \/ step = "extract" /\ step' = "categorize" /\ at' = "start" /\ session' = <<>>
         \/ /\ (step = "categorize" /\ at = "committed") \/ step = "ambiguous"
            /\ step' \in {"ambiguous", "done"}
  PROVE  IdentInv'
  <1>1. CatUnique'
      BY DEF IdentInv, CatUnique
  <1>2. RowsUnique'
      BY DEF IdentInv, RowsUnique
  <1>3. RowsNamed'
      BY DEF IdentInv, RowsNamed
  <1>4. RowsNumbered'
      BY DEF IdentInv, RowsNumbered
  <1> QED
      BY <1>1, <1>2, <1>3, <1>4 DEF IdentInv

\* The rows that are written keep their identifiers, and the new ones have none.
LEMMA CommitKeeps ==
  ASSUME IdentInv, CommitEntities
  PROVE  IdentInv'
  <1>1. /\ rows' = SavedRows /\ step = "extract" /\ step' = "extract" /\ cat' = cat
      BY DEF CommitEntities, Running
  <1>2. /\ DOMAIN rows' \subseteq Int
        /\ \A r \in DOMAIN rows' :
             \/ r \in DOMAIN rows /\ rows'[r].ident = rows[r].ident
             \/ rows'[r].ident = Pending
    <2> DEFINE new == {e \in DOMAIN session : FindRow(e) = {}}
               nth(i) == CHOOSE e \in new : Cardinality({d \in new : d <= e}) = i
               inserted == (Len(rows) + 1)..(Len(rows) + Cardinality(new))
    <2>1. rows' = [r \in DOMAIN rows \cup inserted |->
                    IF r \notin DOMAIN rows
                      THEN [names |-> session[nth(r - Len(rows))].names, ident |-> Pending]
                    ELSE IF Owner(r) = {} THEN rows[r]
                    ELSE [names |-> session[Max(Owner(r))].names, ident |-> rows[r].ident]]
        BY <1>1 DEF SavedRows
    <2>2. inserted \subseteq Int
        OBVIOUS
    <2> HIDE DEF nth, inserted, new
    <2>3. DOMAIN rows' = DOMAIN rows \cup inserted
        BY <2>1
    <2>4. ASSUME NEW r \in DOMAIN rows'
          PROVE  \/ r \in DOMAIN rows /\ rows'[r].ident = rows[r].ident
                 \/ rows'[r].ident = Pending
        BY <2>1, <2>3
    <2> QED
        BY <2>2, <2>3, <2>4 DEF IdentInv, RowsNumbered
  <1>3. RowsUnique'
      BY <1>2 DEF IdentInv, RowsUnique
  <1> QED
      BY <1>1, <1>2, <1>3 DEF IdentInv, CatUnique, RowsNamed, RowsNumbered

LEMMA CategorizingKeeps ==
  ASSUME IdentInv, StartCategorizing
  PROVE  IdentInv'
  <1>1. step = "categorize" /\ step' = step /\ UNCHANGED rows
      BY DEF StartCategorizing, Running
  <1>2. CASE \E r \in DOMAIN rows : rows[r].ident = Pending
    <2>1. at' = "session" /\ session' = rows /\ cat' = Seeds
        BY <1>2 DEF StartCategorizing
    <2>2. CatUnique'
        BY <2>1 DEF IdentInv, RowsUnique, CatUnique, Seeds
    <2> QED
        BY <1>1, <2>1, <2>2 DEF IdentInv, RowsUnique, RowsNamed, RowsNumbered
  <1>3. CASE ~\E r \in DOMAIN rows : rows[r].ident = Pending
    <2>1. at' = "committed" /\ UNCHANGED <<session, cat>>
        BY <1>3 DEF StartCategorizing
    <2> QED
        BY <1>1, <1>3, <2>1 DEF IdentInv, CatUnique, RowsUnique, RowsNamed, RowsNumbered
  <1> QED
      BY <1>2, <1>3

\* Whatever the model asks for, an identifier in use is refused.
LEMMA CategorizeKeeps ==
  ASSUME IdentInv, NEW i \in Numbers, NEW f \in Identifiers, Categorize(i, f)
  PROVE  IdentInv'
  <1>1. /\ cat' = [x \in DOMAIN cat \cup {i} |-> IF x = i THEN f ELSE cat[x]]
        /\ \A x \in DOMAIN cat \ {i} : cat[x] # f
        /\ UNCHANGED <<step, at, session, rows>>
      BY DEF Categorize, Taken, Call
  <1>2. f # Pending
      BY ExtractionAssumption
  <1>3. CatUnique'
      BY <1>1, <1>2 DEF IdentInv, CatUnique
  <1> QED
      BY <1>1, <1>3 DEF IdentInv, RowsUnique, RowsNamed, RowsNumbered

LEMMA MergeKeeps ==
  ASSUME IdentInv, NEW p \in DOMAIN session, NEW s \in DOMAIN session, MergeCategorized(p, s)
  PROVE  IdentInv'
  <1>1. /\ cat' = [x \in DOMAIN cat \ {s} |-> cat[x]]
        /\ UNCHANGED <<step, at, rows>>
      BY DEF MergeCategorized, Call, Without, Restrict
  <1>2. DOMAIN session' \subseteq DOMAIN session
      BY DEF MergeCategorized, Without, Restrict
  <1>3. CatUnique'
      BY <1>1 DEF IdentInv, CatUnique
  <1> QED
      BY <1>1, <1>2, <1>3 DEF IdentInv, RowsUnique, RowsNamed, RowsNumbered

\* What is written are the categorized entities.
LEMMA AttemptKeeps ==
  ASSUME IdentInv, EndAttempt
  PROVE  IdentInv'
  <1>1. step = "categorize" /\ UNCHANGED <<step, session, cat>>
      BY DEF EndAttempt, Running
  <1>2. CASE DOMAIN session \subseteq DOMAIN cat
    <2>1. rows' = [r \in DOMAIN session |-> [names |-> session[r].names, ident |-> cat[r]]]
        BY <1>2 DEF EndAttempt
    <2>2. DOMAIN rows' = DOMAIN session /\ \A r \in DOMAIN rows' : rows'[r].ident = cat[r]
        BY <2>1
    <2> QED
        BY <1>1, <1>2, <2>2 DEF IdentInv, CatUnique, RowsUnique, RowsNamed, RowsNumbered
  <1>3. CASE ~(DOMAIN session \subseteq DOMAIN cat)
    <2>1. UNCHANGED rows /\ at' \in {"session", "start"}
        BY <1>3 DEF EndAttempt, Running
    <2> QED
        BY <1>1, <2>1 DEF IdentInv, CatUnique, RowsUnique, RowsNamed, RowsNumbered
  <1> QED
      BY <1>2, <1>3

\* Removing names keeps the identifiers.
LEMMA RemoveKeeps ==
  ASSUME IdentInv, NEW flagged, RemoveNames(flagged)
  PROVE  IdentInv'
  <1>1. /\ step = "ambiguous" /\ UNCHANGED <<step, session, cat>>
        /\ DOMAIN rows' = DOMAIN rows
        /\ \A r \in DOMAIN rows : rows'[r].ident = rows[r].ident
    <2>1. step = "ambiguous" /\ UNCHANGED <<step, session, cat>>
        BY DEF RemoveNames, Running
    <2>2. rows' = [r \in DOMAIN rows |->
                    IF r = Min(WithIdent(rows[r].ident))
                      THEN [names |-> Remaining(rows[r].ident, flagged), ident |-> rows[r].ident]
                      ELSE rows[r]]
        BY DEF RemoveNames
    <2> QED
        BY <2>1, <2>2
  <1> QED
      BY <1>1 DEF IdentInv, CatUnique, RowsUnique, RowsNamed, RowsNumbered

LEMMA IdentStep == IdentInv /\ [Next]_vars => IdentInv'
  <1> SUFFICES ASSUME IdentInv, [Next]_vars PROVE IdentInv'
      OBVIOUS
  <1>1. ASSUME StartExtraction PROVE IdentInv'
      BY <1>1, IdentQuiet DEF StartExtraction, Running
  <1>2. ASSUME NEW asked \in SUBSET (Chapters \cup Strays), EndRound(asked) PROVE IdentInv'
      BY <1>2, IdentQuiet DEF EndRound, Running
  <1>3. ASSUME DeleteCheckpoint PROVE IdentInv'
      BY <1>3, IdentQuiet DEF DeleteCheckpoint, Running
  <1>4. ASSUME Finish PROVE IdentInv'
      BY <1>4, IdentQuiet DEF Finish, Forget
  <1>5. ASSUME Restart PROVE IdentInv'
      BY <1>5, IdentQuiet DEF Restart, Forget
  <1>6. ASSUME NEW ns \in SUBSET Names, AddEntity(ns) PROVE IdentInv'
      BY <1>6, IdentQuiet DEF AddEntity, Call, Running
  <1>7. ASSUME NEW e \in DOMAIN session, NEW add, NEW remove, UpdateEntity(e, add, remove)
        PROVE  IdentInv'
      BY <1>7, IdentQuiet DEF UpdateEntity, Call, Running
  <1>8. ASSUME NEW p, NEW s, NEW add, MergeEntities(p, s, add) PROVE IdentInv'
      BY <1>8, IdentQuiet DEF MergeEntities, Call, Running
  <1>9. ASSUME UNCHANGED vars PROVE IdentInv'
      BY <1>9, IdentQuiet DEF vars
  <1> QED
      BY <1>1, <1>2, <1>3, <1>4, <1>5, <1>6, <1>7, <1>8, <1>9, CommitKeeps,
         CategorizingKeeps, CategorizeKeeps, MergeKeeps, AttemptKeeps, RemoveKeeps
         DEF Next, Proceed, Tools

\* The identifiers in memory and those in the rows stay distinct while the model
\* categorizes, merges and is asked again.
THEOREM IdentInductive == Spec => []IdentInv
  BY IdentStart, IdentStep, PTL DEF Spec

\* After categorization no two entities share a friendly id, for any book, any
\* rows of an earlier one, and any number of calls and restarts.
THEOREM FriendlyIdsUnique == Spec => []IdentifiersUnique
  <1>1. IdentInv => IdentifiersUnique
      BY DEF IdentInv, RowsUnique, RowsNamed, IdentifiersUnique
  <1> QED
      BY <1>1, IdentInductive, PTL

\* Once every row has an identifier of its own, the row that is read is the row
\* that is written.
LEMMA OneRow ==
  ASSUME IdentInv, step = "ambiguous", NEW r \in DOMAIN rows
  PROVE  WithIdent(rows[r].ident) = {r} /\ Min({r}) = r /\ Max({r}) = r
  <1>1. WithIdent(rows[r].ident) = {r}
      BY DEF IdentInv, RowsUnique, RowsNamed, WithIdent
  <1>2. r \in Int
      BY DEF IdentInv, RowsNumbered
  <1>3. Min({r}) = r /\ Max({r}) = r
      BY <1>2 DEF Min, Max
  <1> QED
      BY <1>1, <1>3

LEMMA RemoveTakes ==
  ASSUME IdentInv, NEW flagged, RemoveNames(flagged), NEW r \in DOMAIN rows
  PROVE  r \in DOMAIN rows' /\ rows'[r].names \subseteq rows[r].names \cup {Label}
  <1> DEFINE f == rows[r].ident
  <1>1. /\ step = "ambiguous" /\ r \in DOMAIN rows'
        /\ rows'[r] = IF r = Min(WithIdent(f))
                        THEN [names |-> Remaining(f, flagged), ident |-> f] ELSE rows[r]
      BY DEF RemoveNames, Running
  <1>2. WithIdent(f) = {r} /\ Min({r}) = r /\ Max({r}) = r
      BY <1>1, OneRow
  <1>3. rows'[r].names = Remaining(f, flagged)
      BY <1>1, <1>2
  <1>4. Remaining(f, flagged) \subseteq rows[r].names \cup {Label}
    <2> HIDE DEF f
    <2> QED
        BY <1>2 DEF Remaining
  <1> QED
      BY <1>1, <1>3, <1>4

\* The last step takes names from entities, or leaves them their label, and
\* gives none to another one, for any book and any names the model flags.
THEOREM NamesAlwaysStayPut == Spec => NamesStayPut
  <1> DEFINE Stay ==
        \A r \in DOMAIN rows : /\ r \in DOMAIN rows'
                               /\ rows'[r].names \subseteq rows[r].names \cup {Label}
  <1>1. ASSUME IdentInv, [Next]_vars, step = "ambiguous" PROVE Stay
    <2>1. (\E flagged : RemoveNames(flagged)) \/ rows' = rows
      <3>1. ASSUME Proceed PROVE (\E flagged : RemoveNames(flagged)) \/ rows' = rows
          BY <1>1, <3>1 DEF Proceed, StartExtraction, EndRound, CommitEntities,
             DeleteCheckpoint, StartCategorizing, EndAttempt, Finish, Forget, Running
      <3>2. ASSUME Tools PROVE rows' = rows
          BY <3>2 DEF Tools, AddEntity, UpdateEntity, MergeEntities, Categorize,
             MergeCategorized, Call
      <3> QED
          BY <1>1, <3>1, <3>2 DEF Next, Restart, Forget, vars
    <2>2. ASSUME NEW flagged, RemoveNames(flagged) PROVE Stay
        BY <1>1, <2>2, RemoveTakes
    <2> QED
        BY <2>1, <2>2
  <1>2. IdentInv /\ [Next]_vars => [step = "ambiguous" => Stay]_vars
      BY <1>1
  <1> QED
      BY <1>2, IdentInductive, PTL DEF Spec, NamesStayPut

-----------------------------------------------------------------------------
(* Numbers: the least, the greatest and the i-th of a set of them.         *)

\* A set of numbers that are not zero or less has a least one.
LEMMA LeastOf ==
  ASSUME NEW S \in SUBSET Nat, S # {}
  PROVE  Min(S) \in S /\ \A x \in S : Min(S) <= x
<1> DEFINE less == {p \in Nat \X Nat : p[1] < p[2]}
<1>1. IsWellFoundedOn(less, Nat)
  BY NatLessThanWellFounded DEF OpToRel
<1> HIDE DEF less
<1>2. PICK m \in S : \A y \in S : <<y, m>> \notin less
  BY <1>1, WFMin
<1>3. \A y \in S : m <= y
  <2>1. \A y \in S : ~(y < m)
    BY <1>2 DEF less
  <2>2. QED BY <2>1
<1>4. QED BY <1>3 DEF Min

\* A set of numbers up to n has a greatest one.
LEMMA GreatestOf ==
  ASSUME NEW n \in Nat, NEW S \in SUBSET (1..n), S # {}
  PROVE  Max(S) \in S /\ \A x \in S : x <= Max(S)
<1> DEFINE bounds == {k \in Nat : \A x \in S : x <= k}
<1>1. Min(bounds) \in bounds /\ \A k \in bounds : Min(bounds) <= k
  <2>1. n \in bounds
    OBVIOUS
  <2>2. QED BY <2>1, LeastOf
<1> DEFINE b == Min(bounds)
<1>2. b \in S
  <2>1. SUFFICES ASSUME b \notin S PROVE FALSE
    OBVIOUS
  <2>2. PICK x \in S : TRUE
    OBVIOUS
  <2> HIDE DEF b
  <2>3. b \in Nat /\ \A y \in S : y <= b
    BY <1>1 DEF b
  <2>4. b # 0 /\ \A y \in S : y < b
    BY <2>1, <2>2, <2>3
  <2>5. b - 1 \in bounds
    BY <2>3, <2>4
  <2>6. QED BY <1>1, <2>3, <2>5 DEF b
<1> HIDE DEF b
<1>3. b \in S /\ \A x \in S : x <= b
  BY <1>1, <1>2 DEF b
<1>4. QED BY <1>3 DEF Max

\* The i-th of a set of numbers is the one that is at least as great as i of them.
LEMMA NthOf ==
  ASSUME NEW n \in Nat, NEW S \in SUBSET (1..n), NEW e \in S
  PROVE  LET upTo(x) == {d \in S : d <= x}
         IN  /\ IsFiniteSet(S) /\ Cardinality(S) \in Nat
             /\ Cardinality(upTo(e)) \in 1..Cardinality(S)
             /\ e = CHOOSE x \in S : Cardinality(upTo(x)) = Cardinality(upTo(e))
<1> DEFINE upTo(x) == {d \in S : d <= x}
<1>1. IsFiniteSet(S) /\ Cardinality(S) \in Nat
  BY FS_Interval, FS_Subset, FS_CardinalityType, IsFiniteSet(1..n)
<1>2. \A x \in S : IsFiniteSet(upTo(x)) /\ Cardinality(upTo(x)) <= Cardinality(S) /\ Cardinality(upTo(x)) \in Nat
  BY <1>1, FS_Subset, FS_CardinalityType
<1>3. Cardinality(upTo(e)) # 0
  BY <1>2, FS_EmptySet, e \in upTo(e)
<1>4. ASSUME NEW x \in S, NEW y \in S, x < y PROVE Cardinality(upTo(x)) # Cardinality(upTo(y))
  <2>1. \A d \in S : d <= x => d <= y
    BY <1>4
  <2>2. y <= y /\ ~(y <= x)
    BY <1>4
  <2>3. upTo(x) \subseteq upTo(y) /\ y \in upTo(y) \ upTo(x)
    BY <2>1, <2>2
  <2>4. QED BY <1>2, <2>3, FS_Subset
<1>5. \A x \in S : Cardinality(upTo(x)) = Cardinality(upTo(e)) => x = e
  <2> HIDE DEF upTo
  <2>1. \A x \in S : x < e \/ e < x \/ x = e
    OBVIOUS
  <2>2. QED BY <1>4, <2>1
<1> HIDE DEF upTo
<1>6. QED BY <1>1, <1>2, <1>3, <1>5 DEF upTo

-----------------------------------------------------------------------------
(* What the transaction of extract_entities writes.                        *)

\* Rows are found by numbers, so that there is a first one.
LEMMA FirstFound ==
  ASSUME rows \in Seq(Entity), NEW e \in DOMAIN session, FindRow(e) # {}
  PROVE  /\ Min(FindRow(e)) \in FindRow(e) /\ FindRow(e) \subseteq DOMAIN rows
         /\ e \in Owner(Min(FindRow(e)))
<1>1. FindRow(e) \subseteq DOMAIN rows
  BY DEF FindRow
<1>2. FindRow(e) \subseteq Nat
  BY <1>1
<1>3. QED BY <1>1, <1>2, LeastOf DEF Owner

\* Of the entities that find a row there is a last one.
LEMMA LastOwner ==
  ASSUME next \in Nat, DOMAIN session \subseteq 1..(next - 1), NEW r, Owner(r) # {}
  PROVE  Max(Owner(r)) \in Owner(r) /\ \A e \in Owner(r) : e <= Max(Owner(r))
<1>1. Owner(r) \subseteq 1..next
  BY DEF Owner
<1>2. QED BY <1>1, GreatestOf

\* Every row keeps its identifier, and its names unless an entity owns it; every
\* entity without a row is inserted.
LEMMA Saved ==
  ASSUME rows \in Seq(Entity), next \in Nat, session \in [DOMAIN session -> Entity],
         DOMAIN session \subseteq 1..(next - 1)
  PROVE  /\ SavedRows \in Seq(Entity) /\ DOMAIN rows \subseteq DOMAIN SavedRows
         /\ \A r \in DOMAIN rows :
              /\ SavedRows[r].ident = rows[r].ident
              /\ Owner(r) = {} => SavedRows[r].names = rows[r].names
              /\ Owner(r) # {} => SavedRows[r].names = session[Max(Owner(r))].names
         /\ \A r \in DOMAIN SavedRows \ DOMAIN rows : SavedRows[r].ident = Pending
         /\ \A e \in DOMAIN session : FindRow(e) = {} =>
              \E r \in DOMAIN SavedRows : SavedRows[r].names = session[e].names
<1> DEFINE new == {e \in DOMAIN session : FindRow(e) = {}}
           upTo(e) == {d \in new : d <= e}
           nth(i) == CHOOSE e \in new : Cardinality(upTo(e)) = i
           N == Cardinality(new)
           L == Len(rows)
<1>1. new \subseteq 1..next
  OBVIOUS
<1>2. IsFiniteSet(new) /\ N \in Nat
  BY <1>1, FS_Interval, FS_Subset, FS_CardinalityType, IsFiniteSet(1..next)
<1>3. \A e \in new : Cardinality(upTo(e)) \in 1..N /\ nth(Cardinality(upTo(e))) = e
  <2> SUFFICES ASSUME NEW e \in new
               PROVE  Cardinality(upTo(e)) \in 1..N /\ nth(Cardinality(upTo(e))) = e
    OBVIOUS
  <2> HIDE DEF new
  <2> QED BY <1>1, NthOf
<1>4. \A i \in 1..N : nth(i) \in new
  <2> DEFINE f == [e \in new |-> Cardinality(upTo(e))]
  <2> HIDE DEF new, nth, upTo
  <2>1. f \in Injection(new, 1..N)
    BY <1>3 DEF Injection, IsInjective
  <2>2. IsFiniteSet(1..N) /\ Cardinality(1..N) = N
    BY <1>2, FS_Interval
  <2>3. f \in Surjection(new, 1..N)
    BY <1>2, <2>1, <2>2, FS_Injection
  <2>4. QED BY <1>3, <2>3 DEF Surjection
<1>5. DOMAIN rows = 1..L /\ L \in Nat
  OBVIOUS
<1>6. SavedRows = [r \in 1..L \cup (L + 1)..(L + N) |->
         IF r \notin 1..L THEN [names |-> session[nth(r - L)].names, ident |-> Pending]
         ELSE IF Owner(r) = {} THEN rows[r]
         ELSE [names |-> session[Max(Owner(r))].names, ident |-> rows[r].ident]]
  BY <1>5 DEF SavedRows
<1>7. \A r \in 1..L : Owner(r) # {} => Max(Owner(r)) \in DOMAIN session
  BY LastOwner DEF Owner
<1>8. \A r \in (L + 1)..(L + N) : nth(r - L) \in DOMAIN session
  <2>1. \A r \in (L + 1)..(L + N) : r - L \in 1..N
    BY <1>2, <1>5
  <2>2. QED BY <1>4, <2>1
<1> HIDE DEF nth, N, L
<1>9. 1..L \cup (L + 1)..(L + N) = 1..(L + N)
  BY <1>2, <1>5
<1>10. DOMAIN SavedRows = 1..(L + N) /\ SavedRows \in [1..(L + N) -> Entity]
  <2>1. ASSUME NEW r \in 1..(L + N) PROVE SavedRows[r] \in Entity
    <3>1. CASE r \notin 1..L
      <4>1. r \in (L + 1)..(L + N)
        BY <1>2, <1>5, <3>1
      <4>2. QED BY <1>6, <1>8, <1>9, <3>1, <4>1 DEF Entity
    <3>2. CASE r \in 1..L
      <4>1. rows[r] \in Entity
        BY <1>5, <3>2
      <4>2. CASE Owner(r) = {}
        BY <1>6, <1>9, <3>2, <4>1, <4>2
      <4>3. CASE Owner(r) # {}
        BY <1>6, <1>7, <1>9, <3>2, <4>1, <4>3 DEF Entity
      <4>4. QED BY <4>2, <4>3
    <3>3. QED BY <3>1, <3>2
  <2>2. QED BY <1>6, <1>9, <2>1
<1>11. SavedRows \in Seq(Entity)
  BY <1>2, <1>5, <1>10
<1>12. ASSUME NEW e \in new
       PROVE  \E r \in DOMAIN SavedRows : SavedRows[r].names = session[e].names
  <2> DEFINE i == Cardinality(upTo(e))
  <2>1. i \in 1..N /\ nth(i) = e
    BY <1>3
  <2> HIDE DEF i
  <2>2. L + i \in 1..(L + N) /\ L + i \notin 1..L /\ (L + i) - L = i
    BY <1>2, <1>5, <2>1
  <2>3. SavedRows[L + i].names = session[e].names
    BY <1>6, <1>9, <2>1, <2>2
  <2>4. QED BY <1>10, <2>2, <2>3
<1>13. /\ DOMAIN rows \subseteq DOMAIN SavedRows
       /\ \A r \in DOMAIN rows :
            /\ SavedRows[r].ident = rows[r].ident
            /\ Owner(r) = {} => SavedRows[r].names = rows[r].names
            /\ Owner(r) # {} => SavedRows[r].names = session[Max(Owner(r))].names
       /\ \A r \in DOMAIN SavedRows \ DOMAIN rows : SavedRows[r].ident = Pending
  BY <1>2, <1>5, <1>6, <1>9, <1>10
<1>14. QED BY <1>11, <1>12, <1>13

-----------------------------------------------------------------------------
(* No name is lost and no entity inserted twice.                           *)

\* What the entities f, numbered below n, have to do with the rows: those of an
\* earlier book come first and are rows still, and what was learned of such a
\* row is among the names of f.
Fits(f, n) ==
  /\ f \in [DOMAIN f -> Entity] /\ DOMAIN f \subseteq 1..(n - 1)
  /\ \A e, d \in DOMAIN f : f[e].ident # Pending /\ f[d].ident = Pending => e < d
  /\ \A e \in DOMAIN f : f[e].ident # Pending => \E r \in DOMAIN rows : rows[r].ident = f[e].ident
  /\ \A e \in DOMAIN f, r \in DOMAIN rows :
       f[e].ident = rows[r].ident /\ f[e].ident # Pending
         => rows[r].names \cap learned \subseteq NamesIn(f) \cup excused

\* While the book is read, in memory and in the checkpoint.
Reading ==
  step = "extract" =>
    /\ rows \in Seq(Entity) /\ next \in Nat \ {0} /\ Fits(session, next)
    /\ Fits(checkpoint.entities, checkpoint.next)
    /\ checkpoint # NoCheckpoint => checkpoint.next \in Nat \ {0}

\* When the book is read the checkpoint has the session.
Ready ==
  step = "extract" =>
    /\ at \in {"read", "committed"} => session = checkpoint.entities
    /\ at = "committed" => NamesIn(session) \subseteq NamesIn(rows) \cup excused
    /\ at = "session" => heard \subseteq NamesIn(session)

IsRecord(x) == x = [names |-> x.names, ident |-> x.ident]

\* What was learned is in memory too, if not in a row.
Remembered ==
  /\ step = "categorize" => \A r \in DOMAIN rows : IsRecord(rows[r])
  /\ step = "categorize" /\ at = "session" => \A r \in DOMAIN session : IsRecord(session[r])
  /\ step = "extract" /\ at = "session" =>
       learned \subseteq NamesIn(rows) \cup NamesIn(session) \cup excused
  /\ step = "categorize" /\ at = "session" =>
       learned \subseteq NamesIn(session) \cup NamesIn(checkpoint.entities) \cup excused

NamesInv ==
  IdentInv /\ Reading /\ Ready /\ Remembered /\ NothingReadIsLost /\ RedoInsertsNothing

NamesKept == Reading' /\ Ready' /\ Remembered' /\ NothingReadIsLost' /\ RedoInsertsNothing'

LEMMA NamesStart == Init => NamesInv
<1> SUFFICES ASSUME Init PROVE NamesInv
  OBVIOUS
<1>1. rows \in Seq(Entity)
  <2>1. rows \in Seq([names : SUBSET Names, ident : Identifiers])
    BY ExtractionAssumption DEF Init
  <2>2. [names : SUBSET Names, ident : Identifiers] \subseteq Entity
    BY DEF Entity
  <2> DEFINE A == [names : SUBSET Names, ident : Identifiers]
  <2> HIDE DEF A
  <2>3. Len(rows) \in Nat /\ rows \in [1..Len(rows) -> Entity]
    <3>1. rows \in Seq(A) /\ A \subseteq Entity
      BY <2>1, <2>2 DEF A
    <3>2. QED BY <3>1
  <2>4. QED BY <2>3
<1>2. /\ step = "extract" /\ at = "start" /\ session = <<>> /\ next = 1 /\ learned = {}
      /\ checkpoint = NoCheckpoint /\ checkpoint.entities = <<>>
  BY DEF Init, NoCheckpoint
<1>3. Fits(session, next) /\ Fits(checkpoint.entities, checkpoint.next)
  BY <1>2 DEF Fits
<1>4. NothingReadIsLost /\ RedoInsertsNothing /\ Ready /\ Remembered
  BY <1>2 DEF NothingReadIsLost, RedoInsertsNothing, Ready, Remembered, Running
<1>5. QED BY <1>1, <1>2, <1>3, <1>4, IdentStart DEF NamesInv, Reading

LEMMA StartingKeeps ==
  ASSUME NamesInv, StartExtraction
  PROVE  NamesKept
<1> USE DEF NamesInv, NamesKept
<1>1. /\ step = "extract" /\ step' = "extract" /\ at' \in {"session", "read"}
      /\ UNCHANGED <<rows, learned, excused, checkpoint>> /\ heard' = {}
  BY DEF StartExtraction, Running
<1>2. NothingReadIsLost' /\ RedoInsertsNothing'
  BY <1>1 DEF NothingReadIsLost, NamesIn, RedoInsertsNothing, Running
<1>3. CASE checkpoint # NoCheckpoint
  <2>1. session' = checkpoint.entities /\ next' = checkpoint.next
    BY <1>3 DEF StartExtraction
  <2>2. Reading'
    BY <1>1, <1>3, <2>1 DEF Reading, Fits, NamesIn, NoCheckpoint
  <2>3. Ready' /\ Remembered'
    BY <1>1, <2>1 DEF Ready, Remembered, NothingReadIsLost, NamesIn
  <2>4. QED BY <1>2, <2>2, <2>3
<1>4. CASE checkpoint = NoCheckpoint
  <2> DEFINE old == {r \in DOMAIN rows : rows[r].ident # Pending}
             continued == {rows[r] : r \in old}
             n == Cardinality(continued)
  <2>1. PICK starting \in StartingEntities : session' = starting /\ next' = Len(starting) + 1
    BY <1>4 DEF StartExtraction
  <2>2. complete' = {} /\ checkpoint.entities = <<>>
    BY <1>4 DEF StartExtraction, NoCheckpoint
  <2>3. rows \in Seq(Entity)
    BY <1>1 DEF Reading
  <2>4. IsFiniteSet(continued) /\ n \in Nat
    <3> DEFINE row == [r \in old |-> rows[r]]
    <3>1. IsFiniteSet(old)
      BY <2>3, FS_Interval, FS_Subset, old \subseteq 1..Len(rows)
    <3>2. row \in Surjection(old, continued)
      BY DEF Surjection
    <3> HIDE DEF row, old
    <3>3. QED BY <3>1, <3>2, FS_Surjection, FS_CardinalityType
  <2>5. starting \in [1..n -> continued]
    BY <2>1 DEF StartingEntities, Bijection, Injection
  <2>6. continued \subseteq Entity
    BY <2>3
  <2> HIDE DEF n
  <2>7. starting \in Seq(Entity) /\ DOMAIN starting = 1..n /\ Len(starting) = n
    BY <2>4, <2>5, <2>6
  <2>8. \A e \in 1..n : \E r \in DOMAIN rows : starting[e] = rows[r] /\ rows[r].ident # Pending
    BY <2>5
  <2>9. \A e \in DOMAIN starting, r \in DOMAIN rows :
          starting[e].ident = rows[r].ident => starting[e] = rows[r]
    BY <2>7, <2>8 DEF IdentInv, RowsUnique
  <2>10. Reading'
    <3>1. starting \in [DOMAIN starting -> Entity] /\ DOMAIN starting \subseteq 1..((n + 1) - 1)
      BY <2>4, <2>7
    <3>2. \A e \in DOMAIN starting :
            starting[e].ident # Pending /\ \E r \in DOMAIN rows : rows[r].ident = starting[e].ident
      BY <2>7, <2>8
    <3>3. \A e \in DOMAIN starting, r \in DOMAIN rows :
            starting[e].ident = rows[r].ident => rows[r].names \subseteq NamesIn(starting)
      BY <2>9 DEF NamesIn
    <3>4. Fits(session, next)'
      BY <1>1, <2>1, <2>4, <2>7, <3>1, <3>2, <3>3 DEF Fits, NamesIn
    <3>5. next' \in Nat \ {0}
      BY <2>1, <2>4, <2>7
    <3>6. QED BY <1>1, <3>4, <3>5 DEF Reading, Fits, NamesIn, NoCheckpoint
  <2>11. at' = "session"
    <3>1. 1 \in Chapters
      BY ExtractionAssumption DEF Chapters
    <3>2. QED BY <2>2, <3>1 DEF StartExtraction
  <2>12. Ready' /\ Remembered'
    BY <1>1, <2>1, <2>2, <2>11 DEF Ready, Remembered, NothingReadIsLost, NamesIn
  <2>13. QED BY <1>2, <2>10, <2>12
<1>5. QED BY <1>3, <1>4

\* While the model reads it changes nothing but the session and what is learned
\* of it: it suffices to look at these.
LEMMA ToolKeeps ==
  ASSUME NamesInv, Running("extract", "session"),
         UNCHANGED <<step, at, complete, checkpoint, rows, excused>>,
         learned' \subseteq learned, next' \in Nat \ {0},
         session' \in [DOMAIN session' -> Entity], DOMAIN session' \subseteq 1..(next' - 1),
         \A e, d \in DOMAIN session' :
           session'[e].ident # Pending /\ session'[d].ident = Pending => e < d,
         \A e \in DOMAIN session' :
           session'[e].ident = Pending \/ (e \in DOMAIN session /\ session'[e].ident = session[e].ident),
         NamesIn(session) \cap learned' \subseteq NamesIn(session'),
         heard' \subseteq NamesIn(session')
  PROVE  NamesKept
<1> USE DEF NamesInv, NamesKept
<1>1. step = "extract" /\ at = "session"
  BY DEF Running
<1>2. Fits(session, next)'
  <2>1. \A e \in DOMAIN session' : session'[e].ident # Pending =>
          \E r \in DOMAIN rows' : rows'[r].ident = session'[e].ident
    BY <1>1 DEF Reading, Fits
  <2>2. ASSUME NEW e \in DOMAIN session', NEW r \in DOMAIN rows',
               session'[e].ident = rows'[r].ident, session'[e].ident # Pending
        PROVE  rows'[r].names \cap learned' \subseteq NamesIn(session') \cup excused'
    <3>1. rows[r].names \cap learned \subseteq NamesIn(session) \cup excused
      BY <1>1, <2>2 DEF Reading, Fits
    <3>2. QED BY <3>1
  <2>3. QED BY <2>1, <2>2 DEF Fits, NamesIn
<1>3. Fits(checkpoint.entities, checkpoint.next)'
  BY <1>1 DEF Reading, Fits, NamesIn
<1>4. Reading'
  BY <1>1, <1>2, <1>3 DEF Reading, NoCheckpoint
<1>5. Ready'
  BY <1>1 DEF Ready, NamesIn, Chapters
<1>6. Remembered'
  BY <1>1 DEF Remembered, NamesIn
<1>7. NothingReadIsLost' /\ RedoInsertsNothing'
  BY <1>1 DEF NothingReadIsLost, NamesIn, RedoInsertsNothing, Running
<1>8. QED BY <1>4, <1>5, <1>6, <1>7

LEMMA AddKeeps ==
  ASSUME NamesInv, NEW ns \in SUBSET Names, AddEntity(ns)
  PROVE  NamesKept
<1> USE DEF NamesInv
<1>1. /\ Running("extract", "session")
      /\ UNCHANGED <<step, at, complete, checkpoint, rows, excused, learned>>
      /\ session' = [i \in DOMAIN session \cup {next} |->
                       IF i = next THEN [names |-> ns, ident |-> Pending] ELSE session[i]]
      /\ next' = next + 1 /\ heard' = heard \cup ns
  BY DEF AddEntity, Call
<1>2. next \in Nat \ {0} /\ Fits(session, next) /\ heard \subseteq NamesIn(session)
  BY <1>1 DEF Running, Reading, Ready
<1>3. DOMAIN session \subseteq 1..(next - 1) /\ next \notin DOMAIN session
  BY <1>2 DEF Fits
<1>4. session' \in [DOMAIN session' -> Entity]
  <2>1. [names |-> ns, ident |-> Pending] \in Entity
    BY DEF Entity
  <2>2. \A i \in DOMAIN session : session[i] \in Entity
    BY <1>2 DEF Fits
  <2>3. QED BY <1>1, <2>1, <2>2
<1>5. DOMAIN session' \subseteq 1..(next' - 1)
  BY <1>1, <1>2, <1>3
<1>6. \A e, d \in DOMAIN session' :
        session'[e].ident # Pending /\ session'[d].ident = Pending => e < d
  BY <1>1, <1>2, <1>3 DEF Fits
<1>7. \A e \in DOMAIN session' :
        session'[e].ident = Pending \/ (e \in DOMAIN session /\ session'[e].ident = session[e].ident)
  BY <1>1
<1>8. NamesIn(session) \subseteq NamesIn(session') /\ ns \subseteq NamesIn(session')
  BY <1>1, <1>3 DEF NamesIn
<1>9. next' \in Nat \ {0}
  BY <1>1, <1>2
<1>10. heard' \subseteq NamesIn(session')
  BY <1>1, <1>2, <1>8
<1>11. NamesIn(session) \cap learned' \subseteq NamesIn(session')
  BY <1>8
<1>12. QED BY <1>1, <1>4, <1>5, <1>6, <1>7, <1>9, <1>10, <1>11, ToolKeeps

LEMMA UpdateKeeps ==
  ASSUME NamesInv, NEW e \in DOMAIN session, NEW add \in SUBSET Names, NEW remove \in SUBSET Names,
         UpdateEntity(e, add, remove)
  PROVE  NamesKept
<1> USE DEF NamesInv
<1>1. PICK given \in SUBSET Names :
        /\ session' = [session EXCEPT ![e].names = (session[e].names \ remove) \cup given]
        /\ heard' = (heard \ remove) \cup given /\ learned' = learned \ (remove \ given)
  BY DEF UpdateEntity
<1>2. /\ Running("extract", "session")
      /\ UNCHANGED <<step, at, complete, checkpoint, rows, excused, next>>
  BY DEF UpdateEntity, Call
<1>3. next \in Nat \ {0} /\ Fits(session, next) /\ heard \subseteq NamesIn(session)
  BY <1>2 DEF Running, Reading, Ready
<1>4. /\ DOMAIN session' = DOMAIN session
      /\ \A d \in DOMAIN session : d # e => session'[d] = session[d]
      /\ session'[e].names = (session[e].names \ remove) \cup given
      /\ session'[e].ident = session[e].ident
      /\ session'[e] \in Entity
  BY <1>1, <1>3 DEF Fits, Entity
<1>5. session' \in [DOMAIN session' -> Entity]
  BY <1>1, <1>3, <1>4 DEF Fits
<1>6. NamesIn(session) \ (remove \ given) \subseteq NamesIn(session') /\ given \subseteq NamesIn(session')
  BY <1>4 DEF NamesIn
<1>7. \A d \in DOMAIN session' : session'[d].ident = session[d].ident
  BY <1>4
<1>8. /\ NamesIn(session) \cap learned' \subseteq NamesIn(session')
      /\ heard' \subseteq NamesIn(session') /\ learned' \subseteq learned
  BY <1>1, <1>3, <1>6
<1>9. next' \in Nat \ {0} /\ DOMAIN session' \subseteq 1..(next' - 1)
  BY <1>2, <1>3, <1>4 DEF Fits
<1>10. \A d, f \in DOMAIN session' :
         session'[d].ident # Pending /\ session'[f].ident = Pending => d < f
  BY <1>3, <1>4, <1>7 DEF Fits
<1>11. \A d \in DOMAIN session' : d \in DOMAIN session /\ session'[d].ident = session[d].ident
  BY <1>4, <1>7
<1>12. QED BY <1>2, <1>5, <1>8, <1>9, <1>10, <1>11, ToolKeeps

LEMMA MergeEntitiesKeeps ==
  ASSUME NamesInv, NEW p \in DOMAIN session, NEW s \in DOMAIN session, NEW add \in SUBSET Names,
         MergeEntities(p, s, add)
  PROVE  NamesKept
<1> USE DEF NamesInv
<1> DEFINE both == session[p].names \cup session[s].names \cup add
<1>1. /\ Running("extract", "session") /\ p # s
      /\ session' = Without([session EXCEPT ![p].names = both], s)
      /\ heard' = heard \cup add
      /\ UNCHANGED <<step, at, complete, checkpoint, rows, excused, next, learned>>
  BY DEF MergeEntities, Call
<1>2. next \in Nat \ {0} /\ Fits(session, next) /\ heard \subseteq NamesIn(session)
  BY <1>1 DEF Running, Reading, Ready
<1>3. /\ DOMAIN session' = DOMAIN session \ {s}
      /\ \A d \in DOMAIN session \ {s} : d # p => session'[d] = session[d]
      /\ session'[p].names = both /\ session'[p].ident = session[p].ident
      /\ session'[p] \in Entity
  BY <1>1, <1>2 DEF Without, Restrict, Fits, Entity
<1>4. session' \in [DOMAIN session' -> Entity]
  <2>1. session' = [d \in DOMAIN session \ {s} |-> session'[d]]
    BY <1>1 DEF Without, Restrict
  <2>2. \A d \in DOMAIN session \ {s} : session'[d] \in Entity
    BY <1>2, <1>3 DEF Fits
  <2>3. QED BY <2>1, <2>2
<1>5. NamesIn(session) \subseteq NamesIn(session') /\ add \subseteq NamesIn(session')
  BY <1>1, <1>3 DEF NamesIn
<1>6. \A d \in DOMAIN session' : d \in DOMAIN session /\ session'[d].ident = session[d].ident
  BY <1>3
<1>7. next' \in Nat \ {0} /\ DOMAIN session' \subseteq 1..(next' - 1)
  BY <1>1, <1>2, <1>3 DEF Fits
<1>8. \A e, d \in DOMAIN session' :
        session'[e].ident # Pending /\ session'[d].ident = Pending => e < d
  BY <1>2, <1>6 DEF Fits
<1>9. learned' \subseteq learned /\ NamesIn(session) \cap learned' \subseteq NamesIn(session')
  BY <1>1, <1>5
<1>10. heard' \subseteq NamesIn(session')
  BY <1>1, <1>2, <1>5
<1> HIDE DEF both
<1>11. QED BY <1>1, <1>4, <1>6, <1>7, <1>8, <1>9, <1>10, ToolKeeps

\* The checkpoint gets the session, with all that was heard in the round.
LEMMA RoundKeeps ==
  ASSUME NamesInv, NEW asked \in SUBSET (Chapters \cup Strays), EndRound(asked)
  PROVE  NamesKept
<1> USE DEF NamesInv, NamesKept
<1>1. /\ step = "extract" /\ at = "session" /\ at' \in {"session", "read"}
      /\ UNCHANGED <<step, session, next, rows, excused>>
  BY DEF EndRound, Running
<1>2. RedoInsertsNothing'
  BY <1>1 DEF RedoInsertsNothing, Running
<1>3. CASE session = <<>>
  <2>1. UNCHANGED <<at, checkpoint, learned, heard>>
    BY <1>3 DEF EndRound
  <2>2. Reading'
    BY <1>1, <2>1 DEF Reading, Fits, NamesIn, NoCheckpoint
  <2>3. Ready' /\ Remembered' /\ NothingReadIsLost'
    BY <1>1, <2>1 DEF Ready, Remembered, NothingReadIsLost, NamesIn, Chapters
  <2>4. QED BY <1>2, <2>2, <2>3
<1>4. CASE session # <<>>
  <2>1. /\ checkpoint'.next = next /\ checkpoint'.entities = session
        /\ learned' = learned \cup heard /\ heard' = {}
    BY <1>4 DEF EndRound, SaveRound
  <2>2. heard \subseteq NamesIn(session)
    BY <1>1 DEF Ready
  <2>3. Fits(session, next) /\ next \in Nat \ {0} /\ rows \in Seq(Entity)
    BY <1>1 DEF Reading
  <2>4. \A e \in DOMAIN session, r \in DOMAIN rows :
          session[e].ident = rows[r].ident /\ session[e].ident # Pending
            => rows[r].names \cap (learned \cup heard) \subseteq NamesIn(session) \cup excused
    <3>1. SUFFICES ASSUME NEW e \in DOMAIN session, NEW r \in DOMAIN rows,
                          session[e].ident = rows[r].ident, session[e].ident # Pending
                   PROVE  rows[r].names \cap (learned \cup heard)
                            \subseteq NamesIn(session) \cup excused
      OBVIOUS
    <3>2. rows[r].names \cap learned \subseteq NamesIn(session) \cup excused
      BY <2>3, <3>1 DEF Fits
    <3>3. QED BY <2>2, <3>2
  <2>5. Fits(session, next)'
    BY <1>1, <2>1, <2>3, <2>4 DEF Fits, NamesIn
  <2>6. Fits(checkpoint.entities, checkpoint.next)'
    BY <1>1, <2>1, <2>3, <2>4 DEF Fits, NamesIn
  <2>7. Reading'
    BY <1>1, <2>1, <2>3, <2>5, <2>6 DEF Reading
  <2>8. Ready'
    BY <1>1, <2>1 DEF Ready
  <2>9. learned' \subseteq NamesIn(rows) \cup NamesIn(session) \cup excused
    BY <1>1, <2>1, <2>2 DEF Remembered
  <2>10. Remembered' /\ NothingReadIsLost'
    BY <1>1, <2>1, <2>9 DEF Remembered, IsRecord, NothingReadIsLost, NamesIn
  <2>11. QED BY <1>2, <2>7, <2>8, <2>10
<1>5. QED BY <1>3, <1>4

\* The transaction leaves every name of the session in a row, or excuses it, and
\* loses no learned name of the rows it overwrites.
LEMMA CommitKeepsNames ==
  ASSUME NamesInv, CommitEntities
  PROVE  NamesKept
<1> USE DEF NamesInv, NamesKept
<1> DEFINE outlived == {e \in DOMAIN session :
                          \E r \in DOMAIN rows : e \in Owner(r) /\ e # Max(Owner(r))}
<1>1. /\ step = "extract" /\ at = "read"
      /\ step' = "extract" /\ at' = "committed" /\ rows' = SavedRows
      /\ UNCHANGED <<session, next, complete, checkpoint, learned>>
      /\ excused' = excused \cup UNION {session[e].names : e \in outlived}
  BY DEF CommitEntities, Running
<1>2. session = checkpoint.entities
  BY <1>1 DEF Ready
<1>3. /\ rows \in Seq(Entity) /\ next \in Nat /\ Fits(session, next)
      /\ session \in [DOMAIN session -> Entity] /\ DOMAIN session \subseteq 1..(next - 1)
  BY <1>1 DEF Reading, Fits
<1>4. /\ rows' \in Seq(Entity) /\ DOMAIN rows \subseteq DOMAIN rows'
      /\ \A r \in DOMAIN rows :
           /\ rows'[r].ident = rows[r].ident
           /\ Owner(r) = {} => rows'[r].names = rows[r].names
           /\ Owner(r) # {} => rows'[r].names = session[Max(Owner(r))].names
      /\ \A r \in DOMAIN rows' \ DOMAIN rows : rows'[r].ident = Pending
      /\ \A e \in DOMAIN session : FindRow(e) = {} =>
           \E r \in DOMAIN rows' : rows'[r].names = session[e].names
  BY <1>1, <1>3, Saved
<1>5. \A r \in DOMAIN rows : Owner(r) # {} =>
        /\ Max(Owner(r)) \in Owner(r) /\ \A e \in Owner(r) : e <= Max(Owner(r))
  BY <1>3, LastOwner
<1>6. \A e \in DOMAIN session : FindRow(e) # {} =>
        /\ Min(FindRow(e)) \in FindRow(e) /\ FindRow(e) \subseteq DOMAIN rows
        /\ e \in Owner(Min(FindRow(e)))
  BY <1>3, FirstFound
<1>7. NamesIn(session) \subseteq NamesIn(rows') \cup excused'
  <2>1. SUFFICES ASSUME NEW e \in DOMAIN session
                 PROVE  session[e].names \subseteq NamesIn(rows') \cup excused'
    BY DEF NamesIn
  <2>2. CASE FindRow(e) = {}
    BY <1>4, <2>2 DEF NamesIn
  <2>3. CASE FindRow(e) # {}
    <3> DEFINE r == Min(FindRow(e))
    <3>1. r \in DOMAIN rows /\ e \in Owner(r)
      BY <1>6, <2>3
    <3> HIDE DEF r
    <3>2. CASE e = Max(Owner(r))
      BY <1>4, <3>1, <3>2 DEF NamesIn
    <3>3. CASE e # Max(Owner(r))
      BY <1>1, <3>1, <3>3
    <3>4. QED BY <3>2, <3>3
  <2>4. QED BY <2>2, <2>3
<1>8. ASSUME NEW r \in DOMAIN rows
      PROVE  rows[r].names \cap learned \subseteq NamesIn(rows') \cup excused'
  <2>1. CASE Owner(r) = {}
    BY <1>4, <2>1 DEF NamesIn
  <2>2. CASE Owner(r) # {}
    <3> DEFINE m == Max(Owner(r))
    <3>1. m \in DOMAIN session /\ r \in FindRow(m)
      BY <1>5, <1>6, <2>2 DEF Owner
    <3> HIDE DEF m
    <3>2. CASE session[m].ident = rows[r].ident /\ session[m].ident # Pending
      <4>1. rows[r].names \cap learned \subseteq NamesIn(session) \cup excused
        BY <1>3, <3>1, <3>2 DEF Fits
      <4>2. QED BY <1>1, <1>7, <4>1
    <3>3. CASE rows[r].names = session[m].names
      <4>1. rows[r].names \subseteq NamesIn(session)
        BY <3>1, <3>3 DEF NamesIn
      <4>2. QED BY <1>7, <4>1
    <3>4. QED BY <3>1, <3>2, <3>3 DEF FindRow
  <2>3. QED BY <2>1, <2>2
<1>9. Fits(session, next)'
  <2>1. ASSUME NEW e \in DOMAIN session, session[e].ident # Pending
        PROVE  \E r \in DOMAIN rows' : rows'[r].ident = session[e].ident
    BY <1>3, <1>4, <2>1 DEF Fits
  <2>2. ASSUME NEW e \in DOMAIN session, NEW r \in DOMAIN rows',
               session[e].ident = rows'[r].ident, session[e].ident # Pending
        PROVE  rows'[r].names \cap learned \subseteq NamesIn(session) \cup excused'
    <3>1. r \in DOMAIN rows /\ rows[r].ident = session[e].ident
      BY <1>4, <2>2
    <3>2. CASE Owner(r) = {}
      <4>1. rows[r].names \cap learned \subseteq NamesIn(session) \cup excused
        BY <1>3, <2>2, <3>1 DEF Fits
      <4>2. QED BY <1>1, <1>4, <3>1, <3>2, <4>1
    <3>3. CASE Owner(r) # {}
      BY <1>4, <1>5, <3>1, <3>3 DEF Owner, NamesIn
    <3>4. QED BY <3>2, <3>3
  <2>3. QED BY <1>1, <1>3, <2>1, <2>2 DEF Fits, NamesIn
<1>10. Reading'
  <2>1. Fits(checkpoint.entities, checkpoint.next)
    BY <1>1 DEF Reading
  <2>2. Fits(checkpoint.entities, checkpoint.next)'
    BY <1>1, <1>2, <1>9, <2>1 DEF Fits, NamesIn
  <2>3. QED BY <1>1, <1>4, <1>9, <2>2 DEF Reading, NoCheckpoint
<1>11. Ready'
  BY <1>1, <1>2, <1>7 DEF Ready, NamesIn, Chapters
<1>12. Remembered' /\ NothingReadIsLost'
  <2>1. learned \subseteq NamesIn(rows) \cup NamesIn(checkpoint.entities) \cup excused
    BY DEF NothingReadIsLost
  <2>2. learned \cap NamesIn(rows) \subseteq NamesIn(rows') \cup excused'
    BY <1>8 DEF NamesIn
  <2>3. learned \subseteq NamesIn(rows') \cup NamesIn(checkpoint.entities) \cup excused'
    BY <1>1, <2>1, <2>2
  <2>4. QED BY <1>1, <2>3 DEF Remembered, IsRecord, NothingReadIsLost, NamesIn
<1>13. RedoInsertsNothing'
  <2>1. SUFFICES ASSUME NEW e \in DOMAIN session PROVE FindRow(e)' # {}
    BY <1>1 DEF RedoInsertsNothing
  <2>2. CASE session[e].ident # Pending
    <3>1. PICK r \in DOMAIN rows' : rows'[r].ident = session[e].ident
      BY <1>1, <1>9, <2>2 DEF Fits
    <3>2. QED BY <1>1, <2>2, <3>1 DEF FindRow
  <2>3. CASE session[e].ident = Pending
    <3>1. \E r \in DOMAIN rows' : rows'[r].names = session[e].names
      <4>1. CASE FindRow(e) = {}
        BY <1>4, <4>1
      <4>2. CASE FindRow(e) # {}
        <5> DEFINE r == Min(FindRow(e))
                   m == Max(Owner(r))
        <5>1. r \in DOMAIN rows /\ e \in Owner(r) /\ rows[r].names = session[e].names
          BY <1>6, <2>3, <4>2 DEF FindRow
        <5>2. m \in DOMAIN session /\ r \in FindRow(m) /\ e <= m
          BY <1>5, <1>6, <5>1 DEF Owner
        <5> HIDE DEF m, r
        <5>3. session[m].ident = Pending
          BY <1>3, <2>3, <5>2 DEF Fits
        <5>4. rows[r].names = session[m].names
          BY <5>2, <5>3 DEF FindRow
        <5>5. QED BY <1>4, <5>1, <5>4 DEF m
      <4>3. QED BY <4>1, <4>2
    <3>2. QED BY <1>1, <2>3, <3>1 DEF FindRow
  <2>4. QED BY <2>2, <2>3
<1>14. QED BY <1>10, <1>11, <1>12, <1>13

\* The checkpoint goes when its names are in the rows.
LEMMA DeleteKeeps ==
  ASSUME NamesInv, DeleteCheckpoint
  PROVE  NamesKept
<1> USE DEF NamesInv, NamesKept
<1>1. /\ step = "extract" /\ at = "committed" /\ step' = "extract" /\ at' = "cleaned"
      /\ checkpoint' = NoCheckpoint
      /\ UNCHANGED <<session, next, complete, rows, learned, excused>>
  BY DEF DeleteCheckpoint, Running
<1>2. Reading'
  BY <1>1 DEF Reading, Fits, NamesIn, NoCheckpoint
<1>3. Ready' /\ Remembered' /\ RedoInsertsNothing'
  BY <1>1 DEF Ready, Remembered, RedoInsertsNothing, Running
<1>4. NamesIn(checkpoint.entities) \subseteq NamesIn(rows) \cup excused
  BY <1>1 DEF Ready
<1>5. NothingReadIsLost'
  BY <1>1, <1>4 DEF NothingReadIsLost, NamesIn
<1>6. QED BY <1>2, <1>3, <1>5

\* A step that begins or begins again has the rows and the checkpoint only.
LEMMA ForgettingKeeps ==
  ASSUME NamesInv, Finish \/ Restart
  PROVE  NamesKept
<1> USE DEF NamesInv, NamesKept
<1>1. /\ at' = "start" /\ session' = <<>>
      /\ next' = 1 /\ UNCHANGED <<rows, checkpoint, learned, excused>>
      /\ step' = "extract" => step = "extract"
  BY DEF Finish, Restart, Forget
<1>2. Reading'
  BY <1>1 DEF Reading, Fits, NamesIn, NoCheckpoint
<1>3. Ready' /\ RedoInsertsNothing'
  BY <1>1 DEF Ready, RedoInsertsNothing, Running
<1>4. NothingReadIsLost'
  BY <1>1 DEF NothingReadIsLost, NamesIn
<1>5. Remembered'
  <2>1. step' = "categorize" => step \in {"extract", "categorize"}
    BY DEF Finish, Restart
  <2>2. step = "extract" => \A r \in DOMAIN rows : IsRecord(rows[r])
    <3>1. \A x \in Entity : IsRecord(x)
      BY DEF Entity, IsRecord
    <3>2. step = "extract" => \A r \in DOMAIN rows : rows[r] \in Entity
      BY DEF Reading
    <3>3. QED BY <3>1, <3>2
  <2>3. QED BY <1>1, <2>1, <2>2 DEF Remembered, IsRecord
<1>6. QED BY <1>2, <1>3, <1>4, <1>5

\* Categorization merges names and writes what it has.
LEMMA CategorizationKeeps ==
  ASSUME NamesInv,
         \/ StartCategorizing \/ EndAttempt
         \/ \E i \in Numbers, f \in Identifiers : Categorize(i, f)
         \/ \E p, s \in DOMAIN session : MergeCategorized(p, s)
  PROVE  NamesKept
<1> USE DEF NamesInv, NamesKept
<1>1. step = "categorize" /\ UNCHANGED <<step, checkpoint, learned>>
  BY DEF StartCategorizing, EndAttempt, Categorize, MergeCategorized, Call, Running
<1>2. Reading' /\ Ready' /\ RedoInsertsNothing'
  BY <1>1 DEF Reading, Ready, RedoInsertsNothing, Running
<1>3. CASE StartCategorizing
  BY <1>1, <1>2, <1>3 DEF StartCategorizing, Running, Remembered, IsRecord, NothingReadIsLost,
         NamesIn
<1>4. CASE EndAttempt
  <2>1. at = "session" /\ UNCHANGED <<session, excused>>
    BY <1>4 DEF EndAttempt, Running
  <2>2. CASE DOMAIN session \subseteq DOMAIN cat
    <3>1. rows' = [r \in DOMAIN session |-> [names |-> session[r].names, ident |-> cat[r]]]
          /\ at' = "committed"
      BY <1>4, <2>2 DEF EndAttempt
    <3>2. NamesIn(session) \subseteq NamesIn(rows')
      BY <3>1 DEF NamesIn
    <3>3. QED BY <1>1, <1>2, <2>1, <3>1, <3>2 DEF Remembered, IsRecord, NothingReadIsLost, NamesIn
  <2>3. CASE ~(DOMAIN session \subseteq DOMAIN cat)
    <3>1. rows' = rows
      BY <1>4, <2>3 DEF EndAttempt
    <3>2. QED BY <1>1, <1>2, <2>1, <3>1 DEF Remembered, IsRecord, NothingReadIsLost, NamesIn
  <2>4. QED BY <2>2, <2>3
<1>5. ASSUME NEW i \in Numbers, NEW f \in Identifiers, Categorize(i, f) PROVE NamesKept
  BY <1>1, <1>2, <1>5 DEF Categorize, Call, Remembered, IsRecord, NothingReadIsLost, NamesIn
<1>6. ASSUME NEW p \in DOMAIN session, NEW s \in DOMAIN session, MergeCategorized(p, s)
      PROVE  NamesKept
  <2> DEFINE both == session[p].names \cup session[s].names
  <2>1. /\ session' = Without([session EXCEPT ![p].names = both], s)
        /\ excused' = IF p = s THEN excused \cup session[s].names ELSE excused
        /\ at = "session" /\ UNCHANGED <<at, rows>>
    BY <1>6 DEF MergeCategorized, Call, Running
  <2>2. NamesIn(session) \subseteq NamesIn(session') \cup excused'
    <3>1. /\ DOMAIN session' = DOMAIN session \ {s}
          /\ \A d \in DOMAIN session \ {s} : d # p => session'[d] = session[d]
      BY <2>1 DEF Without, Restrict
    <3>2. p # s => session'[p].names = both
      BY <1>1, <2>1 DEF Without, Restrict, Remembered, IsRecord
    <3>3. SUFFICES ASSUME NEW d \in DOMAIN session
                   PROVE  session[d].names \subseteq NamesIn(session') \cup excused'
      BY DEF NamesIn
    <3>4. CASE d \notin {p, s}
      BY <3>1, <3>4 DEF NamesIn
    <3>5. CASE p = s /\ d = s
      BY <2>1, <3>5
    <3>6. CASE p # s /\ d \in {p, s}
      BY <3>1, <3>2, <3>6 DEF NamesIn
    <3>7. QED BY <3>4, <3>5, <3>6
  <2>3. Remembered'
    <3>1. \A r \in DOMAIN session' : IsRecord(session'[r])
      BY <1>1, <2>1 DEF Without, Restrict, Remembered, IsRecord
    <3>2. learned' \subseteq NamesIn(session') \cup NamesIn(checkpoint.entities) \cup excused'
      BY <1>1, <2>1, <2>2 DEF Remembered
    <3>3. \A r \in DOMAIN rows' : IsRecord(rows'[r])
      BY <1>1, <2>1 DEF Remembered, IsRecord
    <3>4. step' = "categorize"
      BY <1>1
    <3>5. QED BY <1>1, <3>1, <3>2, <3>3, <3>4 DEF Remembered, IsRecord, NamesIn
  <2>4. NothingReadIsLost'
    BY <1>1, <2>1 DEF NothingReadIsLost, NamesIn
  <2>5. QED BY <1>2, <2>3, <2>4
<1>7. QED BY <1>3, <1>4, <1>5, <1>6

\* Only the flagged names go.
LEMMA RemoveKeepsNames ==
  ASSUME NamesInv, NEW flagged, RemoveNames(flagged)
  PROVE  NamesKept
<1> USE DEF NamesInv, NamesKept
<1>1. /\ step = "ambiguous" /\ UNCHANGED <<step, checkpoint, excused>>
      /\ learned' = learned \ {p[2] : p \in flagged}
      /\ DOMAIN rows' = DOMAIN rows
      /\ \A r \in DOMAIN rows :
           rows'[r] = IF r = Min(WithIdent(rows[r].ident))
                        THEN [names |-> Remaining(rows[r].ident, flagged), ident |-> rows[r].ident]
                        ELSE rows[r]
  BY DEF RemoveNames, Running
<1>2. Reading' /\ Ready' /\ Remembered' /\ RedoInsertsNothing'
  BY <1>1 DEF Reading, Ready, Remembered, RedoInsertsNothing, Running
<1>3. ASSUME NEW r \in DOMAIN rows PROVE rows[r].names \cap learned' \subseteq rows'[r].names
  <2> DEFINE f == rows[r].ident
             gone == {n \in rows[r].names : <<f, n>> \in flagged}
  <2>1. WithIdent(f) = {r} /\ Min({r}) = r /\ Max({r}) = r
    BY <1>1, OneRow
  <2>2. rows'[r].names = Remaining(f, flagged)
    BY <1>1, <2>1
  <2> HIDE DEF f
  <2>3. Remaining(f, flagged) = IF gone = {} THEN rows[r].names
                                ELSE IF rows[r].names = gone THEN {Label}
                                ELSE rows[r].names \ gone
    BY <2>1 DEF Remaining
  <2>4. gone \cap learned' = {}
    <3>1. SUFFICES ASSUME NEW n \in gone PROVE n \in {p[2] : p \in flagged}
      BY <1>1
    <3>2. <<f, n>> \in flagged /\ <<f, n>>[2] = n
      OBVIOUS
    <3>3. QED BY <3>2
  <2>5. QED BY <2>2, <2>3, <2>4
<1>4. NothingReadIsLost'
  BY <1>1, <1>3 DEF NothingReadIsLost, NamesIn
<1>5. QED BY <1>2, <1>4

LEMMA NamesStep ==
  ASSUME NamesInv, [Next]_vars
  PROVE  NamesKept
<1>1. CASE UNCHANGED vars
  BY <1>1 DEF vars, NamesInv, NamesKept, Reading, Ready, Remembered, Fits, NamesIn, Running,
              NothingReadIsLost, RedoInsertsNothing, FindRow, NoCheckpoint, Chapters
<1>2. QED
  BY <1>1, StartingKeeps, RoundKeeps, CommitKeepsNames, DeleteKeeps, ForgettingKeeps,
     CategorizationKeeps, RemoveKeepsNames, AddKeeps, UpdateKeeps, MergeEntitiesKeeps
  DEF Next, Proceed, Tools

LEMMA NamesAlways == Spec => []NamesInv
<1>1. NamesInv /\ [Next]_vars => NamesKept
  BY NamesStep
<1>2. QED BY <1>1, NamesStart, IdentInductive, PTL DEF Spec, NamesInv, NamesKept

\* For any book, any rows of an earlier one, and wherever and however often the
\* worker is lost: a name recorded in a round that ended stays in the checkpoint
\* or in a row, until the model removes it.
THEOREM NothingLost == Spec => []NothingReadIsLost
BY NamesAlways, PTL DEF NamesInv

\* In the same generality: when the rows are written, each entity of the session
\* has one, which the step finds when it is run again.
THEOREM RedoFindsRows == Spec => []RedoInsertsNothing
BY NamesAlways, PTL DEF NamesInv

-----------------------------------------------------------------------------
(* The shape of the state, and how often things are tried.                 *)

\* The three parts of the type invariant: where the handler is, what it counts,
\* and the entities.
Places ==
  /\ step \in {"extract", "categorize", "ambiguous", "done"}
  /\ at \in {"start", "session", "read", "committed", "cleaned"}
  /\ error \in {"none", "empty", "stalled", "uncategorized"}
  /\ complete \cup checkpoint.complete \subseteq Chapters \cup Strays

\* A step that has stalled for MaxStalled rounds goes no further.
Counts ==
  /\ stalled \in 0..MaxStalled /\ attempt \in 0..MaxAttempts
  /\ stalled = MaxStalled => error = "stalled"
  /\ calls \in 0..MaxCalls /\ restarts \in 0..MaxRestarts

Contents ==
  /\ session \in [DOMAIN session -> Entity] /\ rows \in [DOMAIN rows -> Entity]
  /\ checkpoint.entities \in [DOMAIN checkpoint.entities -> Entity]
  /\ cat \in [DOMAIN cat -> Identifiers]
  /\ DOMAIN session \cup DOMAIN rows \cup DOMAIN cat \subseteq Nat \ {0} /\ next \in Nat \ {0}
  /\ learned \cup heard \cup excused \subseteq Names \cup {Label}

LEMMA ToolsCall ==
  ASSUME Tools
  PROVE  Call
<1>1. ASSUME NEW ns \in SUBSET Names, AddEntity(ns) PROVE Call
  BY <1>1 DEF AddEntity
<1>2. ASSUME NEW e \in DOMAIN session, NEW add \in SUBSET Names, NEW remove \in SUBSET Names,
             UpdateEntity(e, add, remove)
      PROVE  Call
  BY <1>2 DEF UpdateEntity
<1>3. ASSUME NEW p \in DOMAIN session, NEW s \in DOMAIN session, NEW add \in SUBSET Names,
             MergeEntities(p, s, add)
      PROVE  Call
  BY <1>3 DEF MergeEntities
<1>4. ASSUME NEW i \in Numbers, NEW f \in Identifiers, Categorize(i, f) PROVE Call
  BY <1>4 DEF Categorize
<1>5. ASSUME NEW p \in DOMAIN session, NEW s \in DOMAIN session, MergeCategorized(p, s)
      PROVE  Call
  BY <1>5 DEF MergeCategorized
<1>6. QED BY <1>1, <1>2, <1>3, <1>4, <1>5 DEF Tools

LEMMA PlacesKept ==
  ASSUME Places, [Next]_vars
  PROVE  Places'
<1> USE DEF Places
<1>1. CASE UNCHANGED vars
  BY <1>1 DEF vars
<1>2. CASE StartExtraction
  BY <1>2 DEF StartExtraction, Running
<1>3. ASSUME NEW asked \in SUBSET (Chapters \cup Strays), EndRound(asked) PROVE Places'
  <2>1. Preloaded \subseteq Chapters
    BY DEF Preloaded
  <2>2. QED BY <1>3, <2>1 DEF EndRound, Running, CountChapters, SaveRound
<1>4. CASE CommitEntities \/ DeleteCheckpoint
  BY <1>4 DEF CommitEntities, DeleteCheckpoint, Running, NoCheckpoint
<1>5. CASE StartCategorizing \/ EndAttempt
  BY <1>5 DEF StartCategorizing, EndAttempt, Running
<1>6. ASSUME NEW flagged, RemoveNames(flagged) PROVE Places'
  BY <1>6 DEF RemoveNames, Running
<1>7. CASE Finish \/ Restart
  BY <1>7 DEF Finish, Restart, Forget
<1>8. CASE Tools
  BY <1>8, ToolsCall DEF Call
<1> HIDE DEF Places
<1>9. CASE Proceed
  BY <1>2, <1>3, <1>4, <1>5, <1>6, <1>7, <1>9 DEF Proceed
<1>10. QED BY <1>1, <1>7, <1>8, <1>9 DEF Next

LEMMA CountsKept ==
  ASSUME Counts, [Next]_vars
  PROVE  Counts'
<1> USE ExtractionAssumption DEF Counts
<1>1. CASE UNCHANGED vars
  BY <1>1 DEF vars
<1>2. CASE StartExtraction
  BY <1>2 DEF StartExtraction, Running
<1>3. ASSUME NEW asked \in SUBSET (Chapters \cup Strays), EndRound(asked) PROVE Counts'
  <2>1. error = "none" /\ UNCHANGED <<attempt, restarts>>
    BY <1>3 DEF EndRound, Running
  <2>2. CASE session = <<>>
    BY <1>3, <2>1, <2>2 DEF EndRound
  <2>3. CASE session # <<>>
    <3>1. /\ stalled' \in {0, stalled + 1} /\ calls' = 0
          /\ error' = IF stalled' = MaxStalled THEN "stalled" ELSE "none"
      BY <1>3, <2>3 DEF EndRound
    <3>2. stalled < MaxStalled
      BY <2>1
    <3>3. QED BY <2>1, <3>1, <3>2
  <2>4. QED BY <2>2, <2>3
<1>4. CASE CommitEntities \/ DeleteCheckpoint
  BY <1>4 DEF CommitEntities, DeleteCheckpoint
<1>5. CASE StartCategorizing
  BY <1>5 DEF StartCategorizing
<1>6. CASE EndAttempt
  <2>1. error = "none" /\ UNCHANGED stalled
    BY <1>6 DEF EndAttempt, Running
  <2>2. /\ attempt' = attempt \/ (attempt < MaxAttempts /\ attempt' = attempt + 1)
        /\ restarts' = restarts \/ (restarts < MaxRestarts /\ restarts' = restarts + 1)
        /\ calls' \in {0, calls}
    BY <1>6 DEF EndAttempt
  <2>3. QED BY <2>1, <2>2
<1>7. ASSUME NEW flagged, RemoveNames(flagged) PROVE Counts'
  BY <1>7 DEF RemoveNames
<1>8. CASE Finish \/ Restart
  BY <1>8 DEF Finish, Restart, Forget
<1>9. CASE Tools
  BY <1>9, ToolsCall DEF Call
<1> HIDE DEF Counts
<1>10. CASE Proceed
  BY <1>2, <1>3, <1>4, <1>5, <1>6, <1>7, <1>8, <1>10 DEF Proceed
<1>11. QED BY <1>1, <1>8, <1>9, <1>10 DEF Next

LEMMA ContentsKept ==
  ASSUME NamesInv, NamesInv', Contents, [Next]_vars
  PROVE  Contents'
<1> USE DEF Contents
<1>1. CASE UNCHANGED vars
  BY <1>1 DEF vars
<1>2. ASSUME step' = "extract", UNCHANGED cat,
             learned' \cup heard' \cup excused' \subseteq Names \cup {Label}
      PROVE  Contents'
  <2>1. rows' \in Seq(Entity) /\ next' \in Nat \ {0} /\ Fits(session, next)'
        /\ Fits(checkpoint.entities, checkpoint.next)'
    BY <1>2 DEF NamesInv, Reading
  <2>2. /\ session' \in [DOMAIN session' -> Entity] /\ DOMAIN session' \subseteq Nat \ {0}
        /\ checkpoint'.entities \in [DOMAIN checkpoint'.entities -> Entity]
    BY <2>1 DEF Fits
  <2>3. DOMAIN rows' \subseteq Nat \ {0} /\ rows' \in [DOMAIN rows' -> Entity]
    BY <2>1
  <2>4. QED BY <1>2, <2>1, <2>2, <2>3
<1>3. CASE StartExtraction \/ (\E asked \in SUBSET (Chapters \cup Strays) : EndRound(asked)) \/ DeleteCheckpoint
  <2>1. /\ step' = "extract" /\ UNCHANGED cat
        /\ learned' \cup heard' \cup excused' \subseteq learned \cup heard \cup excused
    BY <1>3 DEF StartExtraction, EndRound, DeleteCheckpoint, Running
  <2>2. QED BY <1>2, <2>1
<1>4. CASE CommitEntities
  <2>1. \A e \in DOMAIN session : session[e].names \subseteq Names \cup {Label}
    BY DEF Entity
  <2>2. /\ step' = "extract" /\ UNCHANGED cat
        /\ learned' \cup heard' \cup excused' \subseteq Names \cup {Label}
    BY <1>4, <2>1 DEF CommitEntities, Running
  <2>3. QED BY <1>2, <2>2
<1>5. ASSUME NEW ns \in SUBSET Names, AddEntity(ns) PROVE Contents'
  <2>1. /\ step' = "extract" /\ UNCHANGED cat
        /\ learned' \cup heard' \cup excused' \subseteq Names \cup {Label}
    BY <1>5 DEF AddEntity, Call, Running
  <2>2. QED BY <1>2, <2>1
<1>6. ASSUME NEW e \in DOMAIN session, NEW add \in SUBSET Names, NEW remove \in SUBSET Names,
              UpdateEntity(e, add, remove)
       PROVE  Contents'
  <2>1. /\ step' = "extract" /\ UNCHANGED cat
        /\ learned' \cup heard' \cup excused' \subseteq Names \cup {Label}
    BY <1>6 DEF UpdateEntity, Call, Running
  <2>2. QED BY <1>2, <2>1
<1>7. ASSUME NEW p \in DOMAIN session, NEW s \in DOMAIN session, NEW add \in SUBSET Names,
              MergeEntities(p, s, add)
       PROVE  Contents'
  <2>1. /\ step' = "extract" /\ UNCHANGED cat
        /\ learned' \cup heard' \cup excused' \subseteq Names \cup {Label}
    BY <1>7 DEF MergeEntities, Call, Running
  <2>2. QED BY <1>2, <2>1
<1>8. CASE Finish \/ Restart
  <2>1. /\ session' = <<>> /\ cat' = <<>> /\ heard' = {}
        /\ next' = 1 /\ UNCHANGED <<rows, checkpoint, learned, excused>>
    BY <1>8 DEF Finish, Restart, Forget
  <2>2. QED BY <2>1
<1>9. CASE StartCategorizing
  <2>1. UNCHANGED <<rows, checkpoint, next, learned, heard, excused>>
    BY <1>9 DEF StartCategorizing
  <2>2. CASE UNCHANGED <<session, cat>>
    BY <2>1, <2>2
  <2>3. CASE session' = rows /\ cat' = Seeds
    <3>1. Seeds \in [DOMAIN Seeds -> Identifiers] /\ DOMAIN Seeds \subseteq DOMAIN rows
      BY DEF Seeds, Entity
    <3>2. QED BY <2>1, <2>3, <3>1
  <2>4. QED BY <1>9, <2>2, <2>3 DEF StartCategorizing
<1>10. CASE EndAttempt
  <2>1. UNCHANGED <<session, cat, checkpoint, next, learned, heard, excused>>
    BY <1>10 DEF EndAttempt
  <2>2. CASE DOMAIN session \subseteq DOMAIN cat
    <3>1. rows' = [r \in DOMAIN session |-> [names |-> session[r].names, ident |-> cat[r]]]
      BY <1>10, <2>2 DEF EndAttempt
    <3>2. \A r \in DOMAIN session : [names |-> session[r].names, ident |-> cat[r]] \in Entity
      BY <2>2 DEF Entity
    <3>3. rows' \in [DOMAIN rows' -> Entity] /\ DOMAIN rows' = DOMAIN session
      BY <3>1, <3>2
    <3>4. QED BY <2>1, <3>3
  <2>3. CASE ~(DOMAIN session \subseteq DOMAIN cat)
    <3>1. UNCHANGED rows
      BY <1>10, <2>3 DEF EndAttempt
    <3>2. QED BY <2>1, <3>1
  <2>4. QED BY <2>2, <2>3
<1>11. ASSUME NEW i \in Numbers, NEW f \in Identifiers, Categorize(i, f) PROVE Contents'
  <2>1. /\ cat' = [x \in DOMAIN cat \cup {i} |-> IF x = i THEN f ELSE cat[x]]
        /\ UNCHANGED <<session, rows, checkpoint, next, learned, heard, excused>>
    BY <1>11 DEF Categorize, Call
  <2>2. i \in Nat \ {0}
    BY ExtractionAssumption DEF Numbers
  <2>3. cat' \in [DOMAIN cat' -> Identifiers] /\ DOMAIN cat' = DOMAIN cat \cup {i}
    BY <2>1
  <2>4. QED BY <2>1, <2>2, <2>3
<1>12. ASSUME NEW p \in DOMAIN session, NEW s \in DOMAIN session, MergeCategorized(p, s)
      PROVE  Contents'
  <2> DEFINE both == session[p].names \cup session[s].names
             merged == [session EXCEPT ![p].names = both]
  <2>1. /\ session' = [x \in DOMAIN merged \ {s} |-> merged[x]]
        /\ cat' = [x \in DOMAIN cat \ {s} |-> cat[x]]
        /\ excused' \subseteq excused \cup session[s].names
        /\ UNCHANGED <<rows, checkpoint, next, learned, heard>>
    BY <1>12 DEF MergeCategorized, Call, Without, Restrict
  <2>2. session[p] \in Entity /\ session[s] \in Entity
    OBVIOUS
  <2>3. both \subseteq Names \cup {Label} /\ session[s].names \subseteq Names \cup {Label}
    BY <2>2 DEF Entity
  <2>4. [session[p] EXCEPT !.names = both] \in Entity
    BY <2>2, <2>3 DEF Entity
  <2>5. merged \in [DOMAIN session -> Entity]
    BY <2>4
  <2> HIDE DEF merged, both
  <2>6. session' \in [DOMAIN session' -> Entity] /\ DOMAIN session' \subseteq DOMAIN session
    BY <2>1, <2>5
  <2>7. cat' \in [DOMAIN cat' -> Identifiers] /\ DOMAIN cat' \subseteq DOMAIN cat
    BY <2>1
  <2>8. QED BY <2>1, <2>3, <2>6, <2>7
<1>13. ASSUME NEW flagged, RemoveNames(flagged) PROVE Contents'
  <2>1. /\ step = "ambiguous" /\ learned' \subseteq learned /\ DOMAIN rows' = DOMAIN rows
        /\ UNCHANGED <<session, cat, checkpoint, next, heard, excused>>
    BY <1>13 DEF RemoveNames, Running
  <2>2. ASSUME NEW r \in DOMAIN rows PROVE rows'[r] \in Entity
    <3> DEFINE f == rows[r].ident
    <3>1. \/ rows'[r] = rows[r] \/ rows'[r] = [names |-> Remaining(f, flagged), ident |-> f]
      BY <1>13 DEF RemoveNames
    <3>2. rows'[r].names \subseteq rows[r].names \cup {Label}
      BY <1>13, RemoveTakes DEF NamesInv
    <3>3. rows[r] \in Entity
      OBVIOUS
    <3>4. CASE rows'[r] = [names |-> Remaining(f, flagged), ident |-> f]
      <4>1. Remaining(f, flagged) \subseteq Names \cup {Label} /\ f \in Identifiers \cup {Pending}
        BY <3>2, <3>3, <3>4 DEF Entity
      <4> HIDE DEF f
      <4>2. QED BY <3>4, <4>1 DEF Entity
    <3>5. QED BY <3>1, <3>3, <3>4
  <2>3. rows' \in [DOMAIN rows' -> Entity]
    <3>1. rows' = [r \in DOMAIN rows' |-> rows'[r]]
      BY <1>13 DEF RemoveNames
    <3>2. QED BY <2>1, <2>2, <3>1
  <2>4. QED BY <2>1, <2>3
<1> HIDE DEF Contents
<1>14. QED
  BY <1>1, <1>8, <1>9, <1>10, <1>11, <1>12, <1>13, <1>3, <1>4, <1>5, <1>6, <1>7
  DEF Next, Proceed, Tools

\* The state keeps its shape for any book, and a step gives up after MaxStalled
\* rounds without a new chapter or MaxAttempts prompts without all categories.
THEOREM ExtractionTypeCorrect == Spec => []TypeOK
<1>1. Init => Places /\ Counts /\ Contents
  <2> SUFFICES ASSUME Init PROVE Places /\ Counts /\ Contents
    OBVIOUS
  <2>1. NamesInv
    BY NamesStart
  <2>2. Places /\ Counts
    BY ExtractionAssumption DEF Init, Places, Counts, NoCheckpoint
  <2>3. Contents
    <3>1. rows \in Seq(Entity) /\ checkpoint.entities = <<>> /\ session = <<>> /\ cat = <<>>
      BY <2>1 DEF Init, NamesInv, Reading, NoCheckpoint
    <3>2. rows \in [DOMAIN rows -> Entity] /\ DOMAIN rows \subseteq Nat \ {0}
      BY <3>1
    <3>3. QED BY <3>1, <3>2 DEF Init, Contents
  <2>4. QED BY <2>2, <2>3
<1>2. NamesInv /\ NamesInv' /\ Places /\ Counts /\ Contents /\ [Next]_vars
        => Places' /\ Counts' /\ Contents'
  BY PlacesKept, CountsKept, ContentsKept
<1>3. Places /\ Counts /\ Contents => TypeOK
  BY DEF Places, Counts, Contents, TypeOK
<1>4. QED BY <1>1, <1>2, <1>3, NamesAlways, PTL DEF Spec

=============================================================================
