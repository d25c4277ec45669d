--------------------------- MODULE Migration_proofs ---------------------------
(***************************************************************************)
(* Theorems of MigrationSink, for any exports and any bounds.              *)
(***************************************************************************)
EXTENDS MigrationSink, FiniteSetTheorems, WellFoundedInduction, TLAPS

-----------------------------------------------------------------------------
(* Finite sets, their order and the greatest of them. *)

LEMMA PairAt == \A x, y : <<x, y>>[1] = x /\ <<x, y>>[2] = y
OBVIOUS

\* What a function with a finite domain takes as values.
LEMMA FiniteRange ==
  ASSUME NEW f, IsFiniteSet(DOMAIN f)
  PROVE  IsFiniteSet({f[x] : x \in DOMAIN f})
<1> DEFINE T == {f[x] : x \in DOMAIN f}
           S == DOMAIN f
           g == [x \in S |-> f[x]]
<1>1. g \in Surjection(S, T)
  BY DEF Surjection
<1> HIDE DEF T, S, g
<1>2. IsFiniteSet(S)
  BY DEF S
<1>3. IsFiniteSet(T)
  BY <1>1, <1>2, FS_Surjection
<1> QED
  BY <1>3 DEF T

\* A set with a bound has a greatest element, or is empty.
LEMMA Greatest ==
  ASSUME NEW S, NEW n \in Nat, S \subseteq 1..n
  PROVE  \E m \in S \cup {0} : \A x \in S \cup {0} : m >= x
<1> DEFINE T == {n - x : x \in S \cup {0}}
           R == OpToRel(<, Nat)
<1>1. T \subseteq Nat /\ n \in T
  OBVIOUS
<1>2. \A x, y \in Nat : x < y => <<x, y>> \in R
  BY DEF OpToRel
<1>3. IsWellFoundedOn(R, Nat)
  BY NatLessThanWellFounded
<1>4. \E m \in T : \A k \in T : <<k, m>> \notin R
  <2> HIDE DEF T, R
  <2> QED
    BY <1>1, <1>3, WFMin
<1>5. PICK m \in T : \A k \in T : <<k, m>> \notin R
  BY <1>4
<1>6. PICK x \in S \cup {0} : m = n - x
  BY <1>5
<1>7. \A y \in S \cup {0} : n - y \in T
  OBVIOUS
<1> HIDE DEF T, R
<1>8. \A y \in S \cup {0} : ~(n - y < m)
  BY <1>1, <1>2, <1>5, <1>7
<1> QED
  BY <1>6, <1>8

\* The greatest id is one, and new ids lie above it.
LEMMA LastNoteBounds ==
  ASSUME NEW notes, NEW n \in Nat, DOMAIN notes \subseteq 1..n
  PROVE  LastNote(notes) \in Nat /\ DOMAIN notes \subseteq 1..LastNote(notes)
<1> DEFINE S == DOMAIN notes
<1>1. \E m \in S \cup {0} : \A x \in S \cup {0} : m >= x
  BY Greatest
<1>2. LastNote(notes) \in S \cup {0} /\ \A x \in S \cup {0} : LastNote(notes) >= x
  BY <1>1 DEF LastNote, Max
<1> QED
  BY <1>2

\* SetToSeq lists the elements of a finite set, each once.
LEMMA Listed ==
  ASSUME NEW S, IsFiniteSet(S)
  PROVE  /\ SetToSeq(S) \in Seq(S)
         /\ \A x \in S : \E i \in 1..Len(SetToSeq(S)) : SetToSeq(S)[i] = x
         /\ \A i, j \in 1..Len(SetToSeq(S)) : SetToSeq(S)[i] = SetToSeq(S)[j] => i = j
<1> DEFINE n == Cardinality(S)
           f == SetToSeq(S)
<1>1. n \in Nat /\ ExistsBijection(1..n, S)
  BY FS_CardinalityType
<1>2. \E g \in [1..n -> S] : IsInjective(g)
  BY <1>1 DEF ExistsBijection, Bijection, Injection, IsInjective
<1>3. f \in [1..n -> S] /\ IsInjective(f)
  BY <1>2 DEF SetToSeq
<1>4. f \in Injection(1..n, S)
  BY <1>3 DEF Injection, IsInjective
<1> HIDE DEF f
<1>5. IsFiniteSet(1..n) /\ Cardinality(1..n) = n
  BY <1>1, FS_Interval
<1>6. f \in Surjection(1..n, S)
  BY <1>4, <1>5, FS_Injection
<1>7. f \in Seq(S) /\ Len(f) = n
  BY <1>1, <1>3
<1>8. \A x \in S : \E i \in 1..Len(f) : f[i] = x
  BY <1>6, <1>7 DEF Surjection
<1>9. \A i, j \in 1..Len(f) : f[i] = f[j] => i = j
  BY <1>3, <1>7 DEF IsInjective
<1> QED
  BY <1>7, <1>8, <1>9 DEF f

-----------------------------------------------------------------------------
(* What every plan is. *)

IsFunction(f) == f = [x \in DOMAIN f |-> f[x]]

CardFields == {"text", "status", "worktree", "labels"}

CardOK(v, statuses) ==
  /\ DOMAIN v = CardFields /\ IsFunction(v)
  /\ v.status \in BuiltInStatuses \cup DOMAIN statuses

PlanFields == {"statuses", "cards", "notes", "edges", "runes", "memories", "disputed"}

NoteOK(v, cards) == DOMAIN v = {"card", "body"} /\ v.card \in cards

MemoryOK(v) == DOMAIN v = {"body", "by", "created"} /\ v.by # Native

PlanOK(P) ==
  /\ DOMAIN P = PlanFields /\ DOMAIN P.disputed = {"cards", "notes", "memories"}
  /\ IsFunction(P.statuses) /\ IsFunction(P.cards) /\ IsFunction(P.notes)
  /\ IsFunction(P.runes) /\ IsFunction(P.memories)
  /\ \A c \in DOMAIN P.cards : CardOK(P.cards[c], P.statuses)
  /\ IsFiniteSet(DOMAIN P.cards) /\ IsFiniteSet(DOMAIN P.notes)
  /\ IsFiniteSet(DOMAIN P.runes) /\ IsFiniteSet(DOMAIN P.memories)
  /\ \A k \in DOMAIN P.notes : NoteOK(P.notes[k], DOMAIN P.cards)
  /\ Native \notin DOMAIN P.notes
  /\ \A e \in P.edges : {e[1], e[2]} \subseteq DOMAIN P.cards
  /\ Acyclic(P.edges) /\ IsFiniteSet(P.edges)
  /\ None \notin DOMAIN P.runes
  /\ \A l \in DOMAIN P.runes : DOMAIN P.runes[l] = {"key", "text", "enabled"}
  /\ \A l, m \in DOMAIN P.runes : P.runes[l].key = P.runes[m].key => l = m
  /\ \A k \in DOMAIN P.memories : MemoryOK(P.memories[k])

LEMMA CommentsFinite ==
  ASSUME NEW s \in Exports, NEW r \in ToSet(s), r.kind = "issue"
  PROVE  IsFiniteSet(r.comments)
BY ExportsAssumption

LEMMA CommentsNotNative ==
  ASSUME NEW s \in Exports, NEW r \in ToSet(s), r.kind = "issue", NEW c \in r.comments
  PROVE  c.key # Native
BY ExportsAssumption

LEMMA SourceNotNative ==
  ASSUME NEW s \in Exports, NEW r \in ToSet(s), r.kind = "memory"
  PROVE  r.actor # Native
BY ExportsAssumption

LEMMA RecordsFinite == ASSUME NEW s \in Exports PROVE IsFiniteSet(ToSet(s))
<1>1. s \in Seq(ToSet(s))
  BY ExportsAssumption
<1> DEFINE V == ToSet(s)
<1>2. \A x : x \in V <=> \E i \in DOMAIN s : x = s[i]
  BY DEF ToSet
<1>3. V = {s[i] : i \in DOMAIN s}
  BY <1>2
<1> HIDE DEF V
<1>4. DOMAIN s = 1..Len(s) /\ Len(s) \in Nat
  BY <1>1 DEF V
<1>5. IsFiniteSet(DOMAIN s)
  BY <1>4, FS_Interval
<1>6. IsFiniteSet({s[i] : i \in DOMAIN s})
  BY <1>5, FiniteRange
<1> QED
  BY <1>3, <1>6 DEF V

\* Of several records of a name one is taken.
LEMMA NamedIs ==
  ASSUME NEW named
  PROVE  /\ DOMAIN ByName(named) = {x[1] : x \in named}
         /\ IsFunction(ByName(named))
         /\ \A n \in DOMAIN ByName(named) :
              \E x \in named : x[1] = n /\ ByName(named)[n] = x[2]
<1> DEFINE F == ByName(named)
<1>1. F = [n \in {x[1] : x \in named} |-> (CHOOSE x \in named : x[1] = n)[2]]
  BY DEF ByName
<1>2. DOMAIN F = {x[1] : x \in named} /\ IsFunction(F)
  BY <1>1 DEF IsFunction
<1>3. ASSUME NEW n \in DOMAIN F PROVE \E x \in named : x[1] = n /\ F[n] = x[2]
  <2> DEFINE x == CHOOSE y \in named : y[1] = n
  <2>1. \E y \in named : y[1] = n
    BY <1>2
  <2>2. x \in named /\ x[1] = n
    BY <2>1
  <2>3. F[n] = x[2]
    BY <1>1, <1>2
  <2> HIDE DEF x, F
  <2> QED
    BY <2>2, <2>3
<1> QED
  BY <1>2, <1>3

LEMMA FiniteNames ==
  ASSUME NEW named, IsFiniteSet(named)
  PROVE  IsFiniteSet({x[1] : x \in named})
<1> DEFINE f == [x \in named |-> x[1]]
<1>1. {x[1] : x \in named} = {f[x] : x \in DOMAIN f} /\ DOMAIN f = named
  OBVIOUS
<1> HIDE DEF f
<1> QED
  BY <1>1, FiniteRange

LEMMA IssuesFinite ==
  ASSUME NEW s \in Exports
  PROVE  /\ IsFiniteSet(Issues(s)) /\ Issues(s) \subseteq ToSet(s)
         /\ \A r \in Issues(s) : r.kind = "issue"
<1> DEFINE I == Issues(s)
<1>1. I \in SUBSET ToSet(s) /\ \A r \in I : r.kind = "issue"
  BY DEF Issues, BecomesCard
<1> HIDE DEF I
<1>2. IsFiniteSet(I)
  BY <1>1, RecordsFinite, FS_Subset
<1> QED
  BY <1>1, <1>2 DEF I

\* A comment is a note of a card of the plan, and there are finitely many.
LEMMA PlannedNotesOK ==
  ASSUME NEW s \in Exports
  PROVE  /\ IsFiniteSet(DOMAIN PlannedNotes(s))
         /\ IsFunction(PlannedNotes(s))
         /\ Native \notin DOMAIN PlannedNotes(s)
         /\ \A k \in DOMAIN PlannedNotes(s) : NoteOK(PlannedNotes(s)[k], DOMAIN PlannedCards(s))
<1> DEFINE I == Issues(s)
           noted(r) == {<<c.key, [card |-> r.id, body |-> c.body]>> : c \in r.comments}
           sets == {noted(r) : r \in I}
           notes == UNION sets
<1>1. IsFiniteSet(I) /\ I \subseteq ToSet(s) /\ \A r \in I : r.kind = "issue"
  BY IssuesFinite
<1> HIDE DEF I
<1>2. IsFiniteSet(sets)
  <2> DEFINE f == [r \in I |-> noted(r)]
  <2>1. sets = {f[r] : r \in DOMAIN f} /\ DOMAIN f = I
    OBVIOUS
  <2> HIDE DEF f, sets, noted
  <2> QED
    BY <2>1, <1>1, FiniteRange
<1>3. \A r \in I : IsFiniteSet(noted(r))
  <2> SUFFICES ASSUME NEW r \in I PROVE IsFiniteSet(noted(r))
    OBVIOUS
  <2> DEFINE f == [c \in r.comments |-> <<c.key, [card |-> r.id, body |-> c.body]>>]
  <2>1. noted(r) = {f[c] : c \in DOMAIN f} /\ DOMAIN f = r.comments
    OBVIOUS
  <2>2. IsFiniteSet(r.comments)
    BY <1>1, CommentsFinite
  <2> HIDE DEF f, noted
  <2> QED
    BY <2>1, <2>2, FiniteRange
<1>4. IsFiniteSet(notes)
  <2>1. \A T \in sets : IsFiniteSet(T)
    BY <1>3
  <2> HIDE DEF sets
  <2> QED
    BY <1>2, <2>1, FS_UNION
<1>5. ASSUME NEW x \in notes
      PROVE  /\ x[1] # Native
             /\ DOMAIN x[2] = {"card", "body"} /\ x[2].card \in {r.id : r \in I}
  <2>1. PICK r \in I : \E c \in r.comments : x = <<c.key, [card |-> r.id, body |-> c.body]>>
    OBVIOUS
  <2>2. PICK c \in r.comments : x = <<c.key, [card |-> r.id, body |-> c.body]>>
    BY <2>1
  <2>3. c.key # Native
    BY <1>1, CommentsNotNative
  <2> QED
    BY <2>2, <2>3
<1>6. PlannedNotes(s) = ByName(notes)
  BY DEF PlannedNotes, NoteRecords, I
<1>7. DOMAIN PlannedCards(s) = {r.id : r \in I}
  <2> DEFINE records == CardRecords(s)
  <2>1. DOMAIN PlannedCards(s) = {x[1] : x \in records}
    BY NamedIs DEF PlannedCards
  <2> DEFINE record(r) == <<r.id, [text |-> r.text, status |-> r.status,
                                   worktree |-> r.worktree, labels |-> r.labels]>>
  <2>2. records = {record(r) : r \in I}
    BY DEF CardRecords, I
  <2>3. \A r \in I : record(r)[1] = r.id
    OBVIOUS
  <2> HIDE DEF record, records
  <2>4. {x[1] : x \in records} = {r.id : r \in I}
    BY <2>2, <2>3
  <2> QED
    BY <2>1, <2>4
<1> HIDE DEF notes
<1>8. IsFiniteSet({x[1] : x \in notes})
  BY <1>4, FiniteNames
<1> DEFINE P == ByName(notes)
<1>9. /\ DOMAIN P = {x[1] : x \in notes} /\ IsFunction(P)
      /\ \A k \in DOMAIN P : \E x \in notes : x[1] = k /\ P[k] = x[2]
  BY NamedIs
<1> HIDE DEF P
<1>10. /\ IsFiniteSet(DOMAIN P) /\ IsFunction(P) /\ Native \notin DOMAIN P
       /\ \A k \in DOMAIN P : NoteOK(P[k], {r.id : r \in I})
  BY <1>5, <1>8, <1>9 DEF NoteOK
<1> QED
  BY <1>6, <1>7, <1>10 DEF P

LEMMA PlannedMemoriesOK ==
  ASSUME NEW s \in Exports
  PROVE  /\ IsFunction(PlannedMemories(s)) /\ IsFiniteSet(DOMAIN PlannedMemories(s))
         /\ \A k \in DOMAIN PlannedMemories(s) : MemoryOK(PlannedMemories(s)[k])
<1> DEFINE kept == {r \in ToSet(s) : r.kind = "memory" /\ r.key # None}
           v(r) == [body |-> r.text, by |-> r.actor, created |-> r.created]
           records == {<<r.key, v(r)>> : r \in kept}
           P == ByName(records)
<1>1. PlannedMemories(s) = P
  BY DEF PlannedMemories, MemoryRecords
<1>2. \A x \in records : MemoryOK(x[2])
  <2> SUFFICES ASSUME NEW r \in kept PROVE MemoryOK(<<r.key, v(r)>>[2])
    OBVIOUS
  <2>1. r.actor # Native
    BY SourceNotNative
  <2> QED
    BY <2>1 DEF MemoryOK
<1>3. IsFiniteSet(records)
  <2> DEFINE f == [r \in kept |-> <<r.key, v(r)>>]
  <2>1. records = {f[r] : r \in DOMAIN f} /\ DOMAIN f = kept
    OBVIOUS
  <2>2. kept \in SUBSET ToSet(s)
    OBVIOUS
  <2> HIDE DEF f, kept, records
  <2>3. IsFiniteSet(kept)
    BY <2>2, RecordsFinite, FS_Subset
  <2> QED
    BY <2>1, <2>3, FiniteRange
<1> HIDE DEF records
<1>4. IsFiniteSet({x[1] : x \in records})
  BY <1>3, FiniteNames
<1>5. /\ DOMAIN P = {x[1] : x \in records} /\ IsFunction(P)
      /\ \A k \in DOMAIN P : \E x \in records : x[1] = k /\ P[k] = x[2]
  BY NamedIs
<1> HIDE DEF P
<1> QED
  BY <1>1, <1>2, <1>4, <1>5

LEMMA PlannedRunesOK ==
  ASSUME NEW s \in Exports
  PROVE  /\ IsFunction(PlannedRunes(s)) /\ IsFiniteSet(DOMAIN PlannedRunes(s))
         /\ \A l, m \in DOMAIN PlannedRunes(s) :
              PlannedRunes(s)[l].key = PlannedRunes(s)[m].key => l = m
         /\ None \notin DOMAIN PlannedRunes(s)
         /\ \A l \in DOMAIN PlannedRunes(s) :
              DOMAIN PlannedRunes(s)[l] = {"key", "text", "enabled"}
<1> DEFINE R == Roles(s)
           P == PlannedRunes(s)
<1>1. P = [legacy \in {r.id : r \in R} |->
             LET r == CHOOSE x \in R : x.id = legacy
             IN [key |-> r.key, text |-> r.text, enabled |-> r.status \notin {"closed", "done"}]]
  BY DEF PlannedRunes
<1>2. R \in SUBSET ToSet(s) /\ \A r \in R : r.id \in SafeId
  BY DEF Roles, IsRole, ToSet
<1>6. \A q, r \in R : q.key = r.key => q = r
  <2> DEFINE role(i) == IsRole(s[i]) /\ s[i].id \notin ConflictingRoleIDs(s)
  <2> SUFFICES ASSUME NEW q \in R, NEW r \in R, q.key = r.key PROVE q = r
    OBVIOUS
  <2>1. R = {s[i] : i \in {j \in DOMAIN s :
                          role(j) /\ \A h \in 1..(j - 1) : role(h) => s[h].key # s[j].key}}
    BY DEF Roles
  <2> HIDE DEF role, R
  <2>2. PICK i \in DOMAIN s : /\ q = s[i] /\ role(i)
                              /\ \A h \in 1..(i - 1) : role(h) => s[h].key # s[i].key
    BY <2>1
  <2>3. PICK j \in DOMAIN s : /\ r = s[j] /\ role(j)
                              /\ \A h \in 1..(j - 1) : role(h) => s[h].key # s[j].key
    BY <2>1
  <2>4. DOMAIN s = 1..Len(s) /\ Len(s) \in Nat
    <3>1. s \in Seq(ToSet(s))
      BY ExportsAssumption
    <3> QED
      BY <3>1
  <2>5. i = j
    <3>1. ~(i < j)
      BY <2>2, <2>3, <2>4
    <3>2. ~(j < i)
      BY <2>2, <2>3, <2>4
    <3> QED
      BY <2>4, <3>1, <3>2
  <2> QED
    BY <2>2, <2>3, <2>5
<1>7. IsFiniteSet({r.id : r \in R})
  <2> DEFINE f == [r \in R |-> r.id]
  <2>1. {r.id : r \in R} = {f[r] : r \in DOMAIN f} /\ DOMAIN f = R
    OBVIOUS
  <2> HIDE DEF f, R
  <2>2. IsFiniteSet(R)
    BY <1>2, RecordsFinite, FS_Subset
  <2> QED
    BY <2>1, <2>2, FiniteRange
<1> HIDE DEF R, P
<1>8. \A l \in DOMAIN P : \E r \in R : r.id = l /\ P[l].key = r.key
  <2> SUFFICES ASSUME NEW l \in DOMAIN P
               PROVE  \E r \in R : r.id = l /\ P[l].key = r.key
    OBVIOUS
  <2> DEFINE r == CHOOSE x \in R : x.id = l
  <2>1. l \in {x.id : x \in R}
    BY <1>1
  <2>2. r \in R /\ r.id = l
    BY <2>1
  <2>3. P[l] = [key |-> r.key, text |-> r.text, enabled |-> r.status \notin {"closed", "done"}]
    BY <1>1, <2>1
  <2> HIDE DEF r
  <2> QED
    BY <2>2, <2>3
<1>9. \A l, m \in DOMAIN P : P[l].key = P[m].key => l = m
  BY <1>6, <1>8
<1>3. DOMAIN P = {r.id : r \in R} /\ IsFunction(P)
  BY <1>1 DEF IsFunction
<1>4. None \notin DOMAIN P
  BY <1>2, <1>3, MapAssumption
<1>5. \A l \in DOMAIN P : DOMAIN P[l] = {"key", "text", "enabled"}
  BY <1>1
<1> QED
  BY <1>3, <1>4, <1>5, <1>7, <1>9 DEF P

PlannedCardsOK(s) ==
  /\ IsFunction(PlannedCards(s)) /\ IsFiniteSet(DOMAIN PlannedCards(s))
  /\ DOMAIN PlannedCards(s) = {r.id : r \in Issues(s)}
  /\ \A c \in DOMAIN PlannedCards(s) : CardOK(PlannedCards(s)[c], PlannedStatuses(s))

LEMMA PlannedCardsAre == ASSUME NEW s \in Exports PROVE PlannedCardsOK(s)
<1> DEFINE I == Issues(s)
           S == PlannedStatuses(s)
           v(r) == [text |-> r.text, status |-> r.status, worktree |-> r.worktree,
                    labels |-> r.labels]
           records == {<<r.id, v(r)>> : r \in I}
           P == ByName(records)
<1>1. PlannedCards(s) = P
  BY DEF PlannedCards, CardRecords
<1>2. IsFiniteSet(I)
  BY IssuesFinite
<1>3. \A r \in I : r.status \in BuiltInStatuses \cup DOMAIN S
  <2>1. \A r \in I : r.status \in BuiltInStatuses \/ Category(s, r.status) # None
    BY DEF Issues, BecomesCard
  <2> QED
    BY <2>1 DEF PlannedStatuses
<1> HIDE DEF I, S
<1>4. \A x \in records : CardOK(x[2], S)
  <2> SUFFICES ASSUME NEW r \in I PROVE CardOK(<<r.id, v(r)>>[2], S)
    OBVIOUS
  <2>1. DOMAIN v(r) = CardFields /\ IsFunction(v(r)) /\ v(r).status = r.status
    BY DEF CardFields, IsFunction
  <2> HIDE DEF v
  <2> QED
    BY <1>3, <2>1 DEF CardOK
<1>5. IsFiniteSet(records)
  <2> DEFINE f == [r \in I |-> <<r.id, v(r)>>]
  <2>1. records = {f[r] : r \in DOMAIN f} /\ DOMAIN f = I
    OBVIOUS
  <2> HIDE DEF f, records
  <2> QED
    BY <1>2, <2>1, FiniteRange
<1>6. {x[1] : x \in records} = {r.id : r \in I}
  <2> DEFINE record(r) == <<r.id, v(r)>>
  <2>1. records = {record(r) : r \in I}
    OBVIOUS
  <2>2. \A r \in I : record(r)[1] = r.id
    OBVIOUS
  <2> HIDE DEF record, records
  <2> QED
    BY <2>1, <2>2
<1> HIDE DEF records
<1>7. IsFiniteSet({x[1] : x \in records})
  BY <1>5, FiniteNames
<1>8. /\ DOMAIN P = {x[1] : x \in records} /\ IsFunction(P)
      /\ \A c \in DOMAIN P : \E x \in records : x[1] = c /\ P[c] = x[2]
  BY NamedIs
<1> HIDE DEF P
<1>9. /\ IsFunction(P) /\ IsFiniteSet(DOMAIN P) /\ DOMAIN P = {r.id : r \in I}
      /\ \A c \in DOMAIN P : CardOK(P[c], S)
  BY <1>4, <1>6, <1>7, <1>8
<1> QED
  BY <1>1, <1>9 DEF PlannedCardsOK, I, S

LEMMA PlansOK ==
  ASSUME NEW s \in Exports, PlanOf[s] # MapError
  PROVE  PlanOK(PlanOf[s])
<1> DEFINE P == PlanOf[s]
           I == Issues(s)
<1>1. P = Plan(s)
  BY DEF PlanOf
<1>8. Categories(s) # MapError /\ Acyclic(PlannedEdges(s))
  BY <1>1 DEF Plan
<1>2. P = [statuses |-> PlannedStatuses(s), cards |-> PlannedCards(s),
           notes |-> PlannedNotes(s), edges |-> PlannedEdges(s),
           runes |-> PlannedRunes(s), memories |-> PlannedMemories(s),
           disputed |-> [cards |-> Disputed(CardRecords(s)), notes |-> Disputed(NoteRecords(s)),
                         memories |-> Disputed(MemoryRecords(s))]]
  BY <1>1 DEF Plan
<1>3. IsFunction(PlannedStatuses(s))
  BY DEF IsFunction, PlannedStatuses
<1>4. DOMAIN PlannedCards(s) = {r.id : r \in I} /\ PlannedCardsOK(s)
  BY PlannedCardsAre DEF PlannedCardsOK
<1>5. \A e \in PlannedEdges(s) : /\ e = <<e[1], e[2]>>
                                  /\ {e[1], e[2]} \subseteq {r.id : r \in I}
  <2> SUFFICES ASSUME NEW e \in PlannedEdges(s)
               PROVE  e = <<e[1], e[2]>> /\ {e[1], e[2]} \subseteq {r.id : r \in I}
    OBVIOUS
  <2>1. \E r : /\ r.id \in {x.id : x \in I}
              /\ \E d \in r.deps : d.on \in {x.id : x \in I} /\ e = <<d.on, r.id>>
    BY DEF PlannedEdges
  <2> HIDE DEF I
  <2> QED
    BY <2>1, PairAt
<1> HIDE DEF I, P
<1>6. /\ P.statuses = PlannedStatuses(s) /\ P.cards = PlannedCards(s)
      /\ P.notes = PlannedNotes(s) /\ P.edges = PlannedEdges(s)
      /\ P.runes = PlannedRunes(s) /\ P.memories = PlannedMemories(s)
      /\ DOMAIN P = PlanFields /\ DOMAIN P.disputed = {"cards", "notes", "memories"}
  BY <1>2 DEF PlanFields
<1>7. PlanOK(P)
  <2>1. IsFunction(P.notes) /\ IsFiniteSet(DOMAIN P.notes)
        /\ \A k \in DOMAIN P.notes : NoteOK(P.notes[k], DOMAIN P.cards)
        /\ Native \notin DOMAIN P.notes
    <3>1. P.notes = PlannedNotes(s) /\ P.cards = PlannedCards(s)
      BY <1>6
    <3> QED
      BY <3>1, PlannedNotesOK
  <2>2. /\ IsFunction(P.statuses) /\ IsFunction(P.cards)
        /\ \A c \in DOMAIN P.cards : CardOK(P.cards[c], P.statuses)
        /\ IsFiniteSet(DOMAIN P.cards)
        /\ \A e \in P.edges : {e[1], e[2]} \subseteq DOMAIN P.cards
    BY <1>3, <1>4, <1>5, <1>6 DEF PlannedCardsOK
  <2>5. Acyclic(P.edges) /\ IsFiniteSet(P.edges)
    <3> DEFINE C == DOMAIN P.cards
               E == P.edges
    <3>1. IsFiniteSet(C) /\ E \in SUBSET (C \X C)
      BY <1>4, <1>5, <1>6 DEF PlannedCardsOK
    <3> HIDE DEF C, E
    <3>2. IsFiniteSet(C \X C)
      BY <3>1, FS_Product
    <3>3. IsFiniteSet(E)
      BY <3>1, <3>2, FS_Subset
    <3> QED
      BY <1>6, <1>8, <3>3 DEF E
  <2>3. /\ IsFunction(P.runes) /\ None \notin DOMAIN P.runes /\ IsFiniteSet(DOMAIN P.runes)
        /\ \A l, m \in DOMAIN P.runes : P.runes[l].key = P.runes[m].key => l = m
        /\ \A l \in DOMAIN P.runes : DOMAIN P.runes[l] = {"key", "text", "enabled"}
    BY <1>6, PlannedRunesOK
  <2>4. /\ IsFunction(P.memories) /\ IsFiniteSet(DOMAIN P.memories)
        /\ \A k \in DOMAIN P.memories : MemoryOK(P.memories[k])
    BY <1>6, PlannedMemoriesOK
  <2> QED
    BY <1>6, <2>1, <2>2, <2>3, <2>4, <2>5, Zenon DEF PlanOK
<1> QED
  BY <1>7 DEF P

-----------------------------------------------------------------------------
(* Functions laid over others, and the notes an import adds. *)

LEMMA OverIs ==
  ASSUME NEW f, NEW g
  PROVE  /\ DOMAIN Over(f, g) = DOMAIN f \cup DOMAIN g
         /\ \A x \in DOMAIN f : Over(f, g)[x] = f[x]
         /\ \A x \in DOMAIN g \ DOMAIN f : Over(f, g)[x] = g[x]
         /\ IsFunction(Over(f, g))
BY DEF Over, IsFunction

LEMMA WithIs ==
  ASSUME NEW f, NEW x, NEW v
  PROVE  /\ DOMAIN With(f, x, v) = DOMAIN f \cup {x}
         /\ With(f, x, v)[x] = v
         /\ \A y \in DOMAIN f \ {x} : With(f, x, v)[y] = f[y]
         /\ IsFunction(With(f, x, v))
BY DEF With, IsFunction

\* new is old and, at ids of its own, one note for each key of ks.
Adds(old, new, ks, bodies) ==
  /\ \A i \in DOMAIN old : i \in DOMAIN new /\ new[i] = old[i]
  /\ \A i \in DOMAIN new \ DOMAIN old :
       /\ new[i].from \in ks
       /\ new[i] = Over(bodies[new[i].from], [from |-> new[i].from])
  /\ \A i, j \in DOMAIN new \ DOMAIN old : new[i].from = new[j].from => i = j
  /\ \A k \in ks : \E i \in DOMAIN new \ DOMAIN old : new[i].from = k
  /\ \E m \in Nat : DOMAIN new \subseteq 1..m

LEMMA RowFrom ==
  ASSUME NEW v, DOMAIN v = {"card", "body"}, NEW k
  PROVE  LET row == Over(v, [from |-> k])
         IN /\ row.from = k /\ row.card = v.card /\ row.body = v.body
            /\ DOMAIN row = {"card", "body", "from"}
BY OverIs DEF Over

LEMMA NotesAdded ==
  ASSUME NEW db, NEW plan, NEW effective, NEW ks, ks = NewNotes(db, effective),
         {"notes", "noteProv"} \subseteq DOMAIN db,
         IsFiniteSet(ks), NEW n \in Nat, DOMAIN db.notes \subseteq 1..n,
         \A k \in ks : DOMAIN effective.notes[k] = {"card", "body"}
  PROVE  LET with == WithNotes(db, plan, effective)
         IN /\ Adds(db.notes, with.notes, ks, effective.notes)
            /\ DOMAIN with.noteProv = DOMAIN db.noteProv \cup ks
            /\ IsFunction(with.notes) /\ IsFunction(with.noteProv)
            /\ \A k \in ks : /\ with.noteProv[k].hash = plan.notes[k]
                             /\ with.noteProv[k].id \in DOMAIN with.notes \ DOMAIN db.notes
                             /\ with.notes[with.noteProv[k].id].from = k
            /\ \A k \in DOMAIN db.noteProv \ ks : with.noteProv[k] = db.noteProv[k]
            /\ \A f \in DOMAIN db \ {"notes", "noteProv"} : with[f] = db[f]
            /\ DOMAIN with = DOMAIN db
<1> DEFINE new == SetToSeq(ks)
           last == LastNote(db.notes)
           rows == [i \in (last + 1)..(last + Len(new)) |->
                      Over(effective.notes[new[i - last]], [from |-> new[i - last]])]
           owners == [k \in ks |->
                        [id |-> CHOOSE i \in DOMAIN rows : rows[i].from = k,
                         hash |-> plan.notes[k]]]
           with == WithNotes(db, plan, effective)
<1>1. with = [db EXCEPT !.notes = Over(@, rows), !.noteProv = Over(owners, @)]
  BY DEF WithNotes
<1>2. last \in Nat /\ DOMAIN db.notes \subseteq 1..last
  BY LastNoteBounds
<1>3. /\ new \in Seq(ks)
      /\ \A x \in ks : \E i \in 1..Len(new) : new[i] = x
      /\ \A i, j \in 1..Len(new) : new[i] = new[j] => i = j
  BY Listed
<1> HIDE DEF with, last, new
<1>4. Len(new) \in Nat /\ \A i \in 1..Len(new) : new[i] \in ks
  BY <1>3
<1>5. DOMAIN rows = (last + 1)..(last + Len(new)) /\ DOMAIN rows \cap DOMAIN db.notes = {}
  BY <1>2, <1>4
<1>6. \A i \in DOMAIN rows :
        /\ i - last \in 1..Len(new)
        /\ rows[i] = Over(effective.notes[new[i - last]], [from |-> new[i - last]])
  BY <1>2, <1>4
<1>7. \A i \in DOMAIN rows : /\ rows[i].from = new[i - last] /\ rows[i].from \in ks
                             /\ rows[i] = Over(effective.notes[rows[i].from],
                                               [from |-> rows[i].from])
  <2> SUFFICES ASSUME NEW i \in DOMAIN rows
               PROVE  /\ rows[i].from = new[i - last] /\ rows[i].from \in ks
                      /\ rows[i] = Over(effective.notes[rows[i].from],
                                        [from |-> rows[i].from])
    OBVIOUS
  <2> DEFINE k == new[i - last]
  <2>1. k \in ks /\ rows[i] = Over(effective.notes[k], [from |-> k])
    BY <1>4, <1>6
  <2> HIDE DEF k, rows
  <2>2. DOMAIN effective.notes[k] = {"card", "body"}
    BY <2>1
  <2>3. Over(effective.notes[k], [from |-> k]).from = k
    BY <2>2, RowFrom
  <2> QED
    BY <2>1, <2>3 DEF k
<1>8. \A k \in ks : \E i \in DOMAIN rows : rows[i].from = k
  <2> SUFFICES ASSUME NEW k \in ks PROVE \E i \in DOMAIN rows : rows[i].from = k
    OBVIOUS
  <2>1. PICK j \in 1..Len(new) : new[j] = k
    BY <1>3
  <2>2. last + j \in DOMAIN rows /\ (last + j) - last = j
    BY <1>2, <1>4, <1>5
  <2> QED
    BY <1>7, <2>1, <2>2
<1>9. \A i, j \in DOMAIN rows : rows[i].from = rows[j].from => i = j
  <2> SUFFICES ASSUME NEW i \in DOMAIN rows, NEW j \in DOMAIN rows, rows[i].from = rows[j].from
               PROVE  i = j
    OBVIOUS
  <2>1. i - last = j - last
    <3>1. i - last \in 1..Len(new) /\ j - last \in 1..Len(new)
      BY <1>6
    <3>2. new[i - last] = new[j - last]
      BY <1>7
    <3> HIDE DEF rows
    <3> QED
      BY <1>3, <3>1, <3>2
  <2> QED
    BY <2>1, <1>2, <1>4, <1>5
<1>10. with.notes = Over(db.notes, rows) /\ with.noteProv = Over(owners, db.noteProv)
       /\ DOMAIN with = DOMAIN db /\ \A f \in DOMAIN db \ {"notes", "noteProv"} : with[f] = db[f]
  BY <1>1
<1>11. /\ DOMAIN with.notes = DOMAIN db.notes \cup DOMAIN rows
       /\ \A i \in DOMAIN db.notes : with.notes[i] = db.notes[i]
       /\ \A i \in DOMAIN rows : with.notes[i] = rows[i]
       /\ IsFunction(with.notes)
  <2> HIDE DEF rows
  <2>1. /\ DOMAIN Over(db.notes, rows) = DOMAIN db.notes \cup DOMAIN rows
        /\ \A i \in DOMAIN db.notes : Over(db.notes, rows)[i] = db.notes[i]
        /\ \A i \in DOMAIN rows \ DOMAIN db.notes : Over(db.notes, rows)[i] = rows[i]
        /\ IsFunction(Over(db.notes, rows))
    BY OverIs
  <2> QED
    BY <1>5, <1>10, <2>1
<1>12. \E m \in Nat : DOMAIN with.notes \subseteq 1..m
  <2>1. last + Len(new) \in Nat /\ DOMAIN with.notes \subseteq 1..(last + Len(new))
    BY <1>2, <1>4, <1>5, <1>11
  <2> QED
    BY <2>1
<1>13. DOMAIN with.notes \ DOMAIN db.notes = DOMAIN rows
  BY <1>5, <1>11
<1> HIDE DEF rows
<1>14. Adds(db.notes, with.notes, ks, effective.notes)
  BY <1>7, <1>8, <1>9, <1>11, <1>12, <1>13 DEF Adds
<1>15. \A k \in ks : /\ owners[k].hash = plan.notes[k]
                     /\ owners[k].id \in DOMAIN rows
                     /\ rows[owners[k].id].from = k
  BY <1>8
<1>16. DOMAIN owners = ks
  OBVIOUS
<1> HIDE DEF owners
<1>17. /\ DOMAIN with.noteProv = DOMAIN db.noteProv \cup ks
       /\ IsFunction(with.noteProv)
       /\ \A k \in ks : with.noteProv[k] = owners[k]
       /\ \A k \in DOMAIN db.noteProv \ ks : with.noteProv[k] = db.noteProv[k]
  <2>1. /\ DOMAIN Over(owners, db.noteProv) = ks \cup DOMAIN db.noteProv
        /\ \A k \in ks : Over(owners, db.noteProv)[k] = owners[k]
        /\ \A k \in DOMAIN db.noteProv \ ks :
             Over(owners, db.noteProv)[k] = db.noteProv[k]
        /\ IsFunction(Over(owners, db.noteProv))
    <3> DEFINE old == db.noteProv
    <3> HIDE DEF old
    <3>1. /\ DOMAIN Over(owners, old) = DOMAIN owners \cup DOMAIN old
          /\ \A k \in DOMAIN owners : Over(owners, old)[k] = owners[k]
          /\ \A k \in DOMAIN old \ DOMAIN owners : Over(owners, old)[k] = old[k]
          /\ IsFunction(Over(owners, old))
      BY OverIs
    <3> QED
      BY <1>16, <3>1 DEF old
  <2> QED
    BY <1>10, <2>1
<1>18. \A k \in ks : /\ with.noteProv[k].hash = plan.notes[k]
                     /\ with.noteProv[k].id \in DOMAIN with.notes \ DOMAIN db.notes
                     /\ with.notes[with.noteProv[k].id].from = k
  BY <1>11, <1>13, <1>15, <1>17
<1> QED
  BY <1>10, <1>11, <1>14, <1>17, <1>18 DEF with

-----------------------------------------------------------------------------
(* What is prepared of a plan and what is written. *)

DbFields == {"statuses", "cards", "cardProv", "edges", "notes", "noteProv", "runes", "memories"}

IsDatabase(db) ==
  /\ DOMAIN db = DbFields /\ IsFunction(db)
  /\ IsFunction(db.statuses) /\ IsFunction(db.cards) /\ IsFunction(db.cardProv)
  /\ IsFunction(db.notes) /\ IsFunction(db.noteProv)
  /\ IsFunction(db.runes) /\ IsFunction(db.memories)

PreparedAs(effective, db, plan) ==
  /\ effective.statuses = plan.statuses
  /\ effective.cards = [c \in Accepted(db, plan) |-> EffectiveCard(db, plan.cards[c], c)]
  /\ effective.notes = [k \in {x \in DOMAIN plan.notes :
                                 plan.notes[x].card \in Accepted(db, plan)} |->
                          EffectiveNote(db, plan.notes[k], k)]
  /\ effective.edges = {e \in plan.edges : {e[1], e[2]} \subseteq Accepted(db, plan)}
  /\ effective.runes = [l \in AcceptedRunes(db, plan) |->
                          [plan.runes[l] EXCEPT !.key = RuneKeyOf(db, plan.runes[l], l)]]
  /\ effective.memories = plan.memories
  /\ effective.disputed.cards = plan.disputed.cards
  /\ effective.disputed.notes \subseteq plan.disputed.notes
  /\ effective.disputed.memories = plan.disputed.memories

LEMMA PreparedIs ==
  ASSUME NEW db, NEW plan, PlanOK(plan)
  PROVE  PreparedAs(Prepared(db, plan), db, plan)
<1> DEFINE ok == Accepted(db, plan)
           cards == [c \in ok |-> EffectiveCard(db, plan.cards[c], c)]
           notes == [k \in {x \in DOMAIN plan.notes : plan.notes[x].card \in ok} |->
                       EffectiveNote(db, plan.notes[k], k)]
           edges == {e \in plan.edges : e[1] \in ok /\ e[2] \in ok}
           runes == [l \in AcceptedRunes(db, plan) |->
                       [plan.runes[l] EXCEPT !.key = RuneKeyOf(db, plan.runes[l], l)]]
           disputed == [plan.disputed EXCEPT !.notes = @ \ DOMAIN db.noteProv]
           E == Prepared(db, plan)
<1>1. E = [plan EXCEPT !.cards = cards, !.notes = notes, !.edges = edges, !.runes = runes,
                       !.disputed = disputed]
  BY DEF Prepared
<1>2. DOMAIN plan = PlanFields
  BY DEF PlanOK
<1>5. /\ disputed.cards = plan.disputed.cards
      /\ disputed.notes \subseteq plan.disputed.notes
      /\ disputed.memories = plan.disputed.memories
  BY DEF PlanOK
<1>3. edges = {e \in plan.edges : {e[1], e[2]} \subseteq ok}
  OBVIOUS
<1> HIDE DEF ok, cards, notes, edges, runes, disputed, E
<1>4. /\ E.cards = cards /\ E.notes = notes /\ E.edges = edges /\ E.runes = runes
      /\ E.statuses = plan.statuses /\ E.memories = plan.memories
      /\ E.disputed = disputed
  BY <1>1, <1>2 DEF PlanFields
<1> QED
  BY <1>3, <1>4, <1>5 DEF PreparedAs, ok, cards, notes, runes, E

\* What a transaction does to a database.
WrittenAs(W, db, plan, effective) ==
  /\ W.statuses = Over(plan.statuses, db.statuses)
  /\ W.cards = Over(WrittenCards(db, plan, effective), db.cards)
  /\ W.cardProv = Over([c \in DOMAIN effective.cards |-> plan.cards[c]], db.cardProv)
  /\ W.edges = effective.edges \cup {e \in db.edges : ~Imported(W, e)}
  /\ Adds(db.notes, W.notes, NewNotes(db, effective), effective.notes)
  /\ DOMAIN W.noteProv = DOMAIN db.noteProv \cup DOMAIN effective.notes
  /\ \A k \in NewNotes(db, effective) :
       /\ W.noteProv[k].hash = plan.notes[k]
       /\ W.noteProv[k].id \in DOMAIN W.notes \ DOMAIN db.notes
       /\ W.notes[W.noteProv[k].id].from = k
  /\ \A k \in DOMAIN db.noteProv : W.noteProv[k] = db.noteProv[k]
  /\ W.runes = Over(WrittenRunes(db, effective), db.runes)
  /\ W.memories = Over(WrittenMemories(db, plan), db.memories)

LEMMA WrittenIs ==
  ASSUME NEW db, IsDatabase(db), NEW plan, NEW effective,
         NEW n \in Nat, DOMAIN db.notes \subseteq 1..n,
         IsFiniteSet(DOMAIN effective.notes),
         \A k \in DOMAIN effective.notes : DOMAIN effective.notes[k] = {"card", "body"}
  PROVE  /\ WrittenAs(Written(db, plan, effective), db, plan, effective)
         /\ IsDatabase(Written(db, plan, effective))
<1> DEFINE owners == [c \in DOMAIN effective.cards |-> plan.cards[c]]
           A == Over(plan.statuses, db.statuses)
           B == Over(WrittenCards(db, plan, effective), db.cards)
           C == Over(owners, db.cardProv)
           withCards == [db EXCEPT !.statuses = A, !.cards = B, !.cardProv = C]
           withNotes == WithNotes(withCards, plan, effective)
           R == Over(WrittenRunes(db, effective), db.runes)
           M == Over(WrittenMemories(db, plan), db.memories)
           W == Written(db, plan, effective)
           ks == NewNotes(db, effective)
<1>1. W = [withNotes EXCEPT !.edges = ReconciledEdges(withCards, effective),
                            !.runes = Over(WrittenRunes(db, effective), @),
                            !.memories = Over(WrittenMemories(db, plan), @)]
  BY DEF Written
<1>2. IsFunction(A) /\ IsFunction(B) /\ IsFunction(C) /\ IsFunction(R) /\ IsFunction(M)
  BY OverIs
<1> HIDE DEF A, B, C, R, M, W
<1>3. /\ DOMAIN withCards = DbFields
      /\ withCards.statuses = A /\ withCards.cards = B /\ withCards.cardProv = C
      /\ withCards.edges = db.edges /\ withCards.notes = db.notes
      /\ withCards.noteProv = db.noteProv
      /\ withCards.runes = db.runes /\ withCards.memories = db.memories
  BY DEF IsDatabase, DbFields
<1> HIDE DEF withCards
<1>4. NewNotes(withCards, effective) = ks
  BY <1>3 DEF NewNotes
<1>5. /\ IsFiniteSet(ks) /\ ks \subseteq DOMAIN effective.notes
      /\ DOMAIN effective.notes \subseteq ks \cup DOMAIN db.noteProv
      /\ ks \cap DOMAIN db.noteProv = {}
  <2>1. ks \subseteq DOMAIN effective.notes
    BY DEF NewNotes
  <2>2. IsFiniteSet(ks)
    <3> DEFINE S == DOMAIN effective.notes
    <3> HIDE DEF S, ks
    <3>1. IsFiniteSet(S) /\ ks \in SUBSET S
      BY <2>1 DEF S
    <3> QED
      BY <3>1, FS_Subset
  <2> QED
    BY <2>1, <2>2 DEF NewNotes
<1> HIDE DEF ks
<1>6. /\ Adds(db.notes, withNotes.notes, ks, effective.notes)
      /\ DOMAIN withNotes.noteProv = DOMAIN db.noteProv \cup ks
      /\ IsFunction(withNotes.notes) /\ IsFunction(withNotes.noteProv)
      /\ \A k \in ks : /\ withNotes.noteProv[k].hash = plan.notes[k]
                       /\ withNotes.noteProv[k].id \in DOMAIN withNotes.notes \ DOMAIN db.notes
                       /\ withNotes.notes[withNotes.noteProv[k].id].from = k
      /\ \A k \in DOMAIN db.noteProv \ ks : withNotes.noteProv[k] = db.noteProv[k]
      /\ \A f \in DbFields \ {"notes", "noteProv"} : withNotes[f] = withCards[f]
      /\ DOMAIN withNotes = DbFields
  <2>1. {"notes", "noteProv"} \subseteq DOMAIN withCards
    BY <1>3 DEF DbFields
  <2>2. \A k \in ks : DOMAIN effective.notes[k] = {"card", "body"}
    BY <1>5
  <2> QED
    BY <1>3, <1>4, <1>5, <2>1, <2>2, NotesAdded
<1> HIDE DEF withNotes
<1>7. /\ withNotes.runes = db.runes /\ withNotes.memories = db.memories
      /\ withNotes.statuses = A /\ withNotes.cards = B /\ withNotes.cardProv = C
  BY <1>3, <1>6 DEF DbFields
<1>8. /\ W.statuses = A /\ W.cards = B /\ W.cardProv = C
      /\ W.edges = ReconciledEdges(withCards, effective)
      /\ W.runes = R /\ W.memories = M
      /\ W.notes = withNotes.notes /\ W.noteProv = withNotes.noteProv
      /\ DOMAIN W = DbFields
  BY <1>1, <1>6, <1>7 DEF DbFields, R, M
<1>9. IsFunction(W)
  BY <1>1 DEF IsFunction
<1>10. IsDatabase(W)
  BY <1>2, <1>6, <1>8, <1>9 DEF IsDatabase
<1>11. W.edges = effective.edges \cup {e \in db.edges : ~Imported(W, e)}
  BY <1>3, <1>8 DEF ReconciledEdges, Imported
<1>12. WrittenAs(W, db, plan, effective)
  BY <1>5, <1>6, <1>8, <1>11 DEF WrittenAs, A, B, C, R, M, ks
<1> QED
  BY <1>10, <1>12 DEF W

-----------------------------------------------------------------------------
(* A comment is one note and a role one rune: what a transaction keeps. *)

\* A note is what its provenance says of it, as long as it is there; its id may
\* be another note's since.
NotesOfSource(db) ==
  /\ Native \notin DOMAIN db.noteProv
  /\ \A k \in DOMAIN db.noteProv :
       LET id == db.noteProv[k].id
           v == db.noteProv[k].hash
       IN id \in DOMAIN db.notes /\ db.notes[id].from = k =>
            db.notes[id].card = v.card /\ db.notes[id].body = v.body

NotesOK(db) ==
  /\ \E n \in Nat : DOMAIN db.notes \subseteq 1..n
  /\ NotesOfSource(db)
  /\ \A i \in DOMAIN db.notes :
       db.notes[i].from # Native => db.notes[i].from \in DOMAIN db.noteProv
  /\ \A i, j \in DOMAIN db.notes :
       db.notes[i].from = db.notes[j].from /\ db.notes[i].from # Native => i = j

RunesOnce(db) ==
  \A k, l \in DOMAIN db.runes :
    db.runes[k].legacy = db.runes[l].legacy /\ db.runes[k].legacy # None => k = l

LEMMA EffectiveNotesOK ==
  ASSUME NEW db, NEW plan, PlanOK(plan), NEW effective, PreparedAs(effective, db, plan),
         \A k \in DOMAIN effective.notes : effective.notes[k] # None
  PROVE  /\ IsFiniteSet(DOMAIN effective.notes)
         /\ \A k \in DOMAIN effective.notes : DOMAIN effective.notes[k] = {"card", "body"}
<1> DEFINE D == DOMAIN plan.notes
           K == {x \in D : plan.notes[x].card \in Accepted(db, plan)}
<1>1. effective.notes = [k \in K |-> EffectiveNote(db, plan.notes[k], k)]
  BY DEF PreparedAs
<1>2. IsFiniteSet(D) /\ K \in SUBSET D
  BY DEF PlanOK
<1>3. \A k \in D : DOMAIN plan.notes[k] = {"card", "body"}
  BY DEF PlanOK, NoteOK
<1> HIDE DEF D, K
<1>4. DOMAIN effective.notes = K /\ IsFiniteSet(K)
  BY <1>1, <1>2, FS_Subset
<1>5. ASSUME NEW k \in K PROVE DOMAIN effective.notes[k] = {"card", "body"}
  <2>1. effective.notes[k] = EffectiveNote(db, plan.notes[k], k) /\ effective.notes[k] # None
    BY <1>1, <1>4
  <2>2. DOMAIN plan.notes[k] = {"card", "body"}
    BY <1>2, <1>3
  <2> QED
    BY <2>1, <2>2 DEF EffectiveNote
<1> QED
  BY <1>4, <1>5

LEMMA NotesStayOnce ==
  ASSUME NEW db, NotesOK(db), NEW plan, PlanOK(plan),
         NEW effective, PreparedAs(effective, db, plan), NEW W,
         WrittenAs(W, db, plan, effective)
  PROVE  NotesOK(W)
<1> DEFINE old == db.notes
           new == W.notes
           ks == NewNotes(db, effective)
           prov == DOMAIN db.noteProv
<1>1. Adds(old, new, ks, effective.notes)
  BY DEF WrittenAs
<1>11. DOMAIN effective.notes \subseteq ks \cup prov
  BY DEF NewNotes
<1>2. ks \cap prov = {} /\ DOMAIN W.noteProv = prov \cup DOMAIN effective.notes
      /\ ks \subseteq DOMAIN effective.notes
  BY DEF WrittenAs, NewNotes
<1>3. /\ \A i \in DOMAIN old : old[i].from # Native => old[i].from \in prov
      /\ \A i, j \in DOMAIN old : old[i].from = old[j].from /\ old[i].from # Native => i = j
  BY DEF NotesOK
<1>7. /\ \A k \in ks : /\ W.noteProv[k].hash = plan.notes[k]
                       /\ W.noteProv[k].id \in DOMAIN new \ DOMAIN old
                       /\ new[W.noteProv[k].id].from = k
      /\ \A k \in prov : W.noteProv[k] = db.noteProv[k]
  BY DEF WrittenAs
<1>8. /\ Native \notin DOMAIN effective.notes /\ Native \notin prov
      /\ \A k \in ks : /\ effective.notes[k] = plan.notes[k]
                       /\ DOMAIN plan.notes[k] = {"card", "body"}
  <2> DEFINE K == {x \in DOMAIN plan.notes : plan.notes[x].card \in Accepted(db, plan)}
  <2>1. effective.notes = [k \in K |-> EffectiveNote(db, plan.notes[k], k)]
    BY DEF PreparedAs
  <2>2. DOMAIN effective.notes = K /\ K \subseteq DOMAIN plan.notes
    BY <2>1
  <2>3. \A k \in K : effective.notes[k] = EffectiveNote(db, plan.notes[k], k)
    BY <2>1
  <2> HIDE DEF K
  <2>4. /\ Native \notin DOMAIN plan.notes
        /\ \A k \in K : DOMAIN plan.notes[k] = {"card", "body"}
    BY <2>2 DEF PlanOK, NoteOK
  <2>5. \A k \in ks : k \in K /\ k \notin DOMAIN db.noteProv
    BY <2>2 DEF NewNotes
  <2>6. \A k \in ks : effective.notes[k] = plan.notes[k]
    BY <2>3, <2>5 DEF EffectiveNote
  <2>7. Native \notin prov
    BY DEF NotesOK, NotesOfSource
  <2> QED
    BY <2>2, <2>4, <2>5, <2>6, <2>7
<1>9. \A k \in prov :
        LET id == db.noteProv[k].id
            v == db.noteProv[k].hash
        IN id \in DOMAIN old /\ old[id].from = k =>
             old[id].card = v.card /\ old[id].body = v.body
  BY DEF NotesOK, NotesOfSource
<1> HIDE DEF old, new, ks, prov
<1>4. /\ \A i \in DOMAIN old : i \in DOMAIN new /\ new[i] = old[i]
      /\ \A i \in DOMAIN new \ DOMAIN old :
           new[i] = Over(effective.notes[new[i].from], [from |-> new[i].from])
      /\ \A i \in DOMAIN new \ DOMAIN old : new[i].from \in ks
      /\ \A i, j \in DOMAIN new \ DOMAIN old : new[i].from = new[j].from => i = j
      /\ \E m \in Nat : DOMAIN new \subseteq 1..m
  BY <1>1 DEF Adds
<1>5. \A i \in DOMAIN new : new[i].from # Native => new[i].from \in DOMAIN W.noteProv
  BY <1>2, <1>3, <1>4
<1>6. ASSUME NEW i \in DOMAIN new, NEW j \in DOMAIN new, new[i].from = new[j].from,
             new[i].from # Native
      PROVE  i = j
  <2>1. CASE i \in DOMAIN old /\ j \in DOMAIN old
    BY <1>3, <1>4, <1>6, <2>1
  <2>2. CASE i \notin DOMAIN old /\ j \notin DOMAIN old
    BY <1>4, <1>6, <2>2
  <2>3. CASE i \in DOMAIN old /\ j \notin DOMAIN old
    <3>1. new[i].from \in prov /\ new[j].from \in ks
      BY <1>3, <1>4, <1>6, <2>3
    <3> QED
      BY <1>2, <1>6, <3>1
  <2>4. CASE i \notin DOMAIN old /\ j \in DOMAIN old
    <3>1. new[j].from \in prov /\ new[i].from \in ks
      BY <1>3, <1>4, <1>6, <2>4
    <3> QED
      BY <1>2, <1>6, <3>1
  <2> QED
    BY <2>1, <2>2, <2>3, <2>4
<1>10. ASSUME NEW k \in DOMAIN W.noteProv, W.noteProv[k].id \in DOMAIN new,
              new[W.noteProv[k].id].from = k
       PROVE  LET id == W.noteProv[k].id
                  v == W.noteProv[k].hash
              IN new[id].card = v.card /\ new[id].body = v.body
  <2> DEFINE id == W.noteProv[k].id
  <2>1. CASE k \in ks
    <3>1. new[id] = Over(plan.notes[k], [from |-> k]) /\ W.noteProv[k].hash = plan.notes[k]
      BY <1>4, <1>7, <1>8, <2>1
    <3>2. DOMAIN plan.notes[k] = {"card", "body"}
      BY <1>8, <2>1
    <3>3. new[id].card = plan.notes[k].card /\ new[id].body = plan.notes[k].body
      BY <3>1, <3>2 DEF Over
    <3> QED
      BY <3>1, <3>3
  <2>2. CASE k \notin ks
    <3>1. k \in prov
      BY <1>2, <2>2, <1>11
    <3>2. id \in DOMAIN old
      BY <1>4, <1>10, <2>2
    <3> QED
      BY <1>4, <1>7, <1>9, <1>10, <3>1, <3>2
  <2> QED
    BY <2>1, <2>2
<1>12. NotesOfSource(W)
  BY <1>2, <1>8, <1>10 DEF NotesOfSource, new
<1> QED
  BY <1>4, <1>5, <1>6, <1>12 DEF NotesOK, new

\* What is written at a key is the rune of a role that the key is for.
RunesWrittenAs(db, plan, effective) ==
  /\ DOMAIN effective.runes = AcceptedRunes(db, plan)
  /\ \A l \in AcceptedRunes(db, plan) :
       effective.runes[l].key = RuneKeyOf(db, plan.runes[l], l)
  /\ DOMAIN WrittenRunes(db, effective)
       = {effective.runes[l].key : l \in DOMAIN effective.runes}
  /\ \A k \in DOMAIN WrittenRunes(db, effective) :
       \E l \in AcceptedRunes(db, plan) :
         /\ RuneKeyOf(db, plan.runes[l], l) = k
         /\ WrittenRunes(db, effective)[k] = WrittenRune(db, effective.runes[l], l)
         /\ WrittenRunes(db, effective)[k].legacy = l

LEMMA RunesWritten ==
  ASSUME NEW db, NEW plan, PlanOK(plan), NEW effective, PreparedAs(effective, db, plan)
  PROVE  RunesWrittenAs(db, plan, effective)
<1> DEFINE E == effective.runes
           ok == AcceptedRunes(db, plan)
           R == WrittenRunes(db, effective)
<1>1. E = [l \in ok |-> [plan.runes[l] EXCEPT !.key = RuneKeyOf(db, plan.runes[l], l)]]
  BY DEF PreparedAs
<1>2. \A l \in ok : DOMAIN plan.runes[l] = {"key", "text", "enabled"}
  BY DEF AcceptedRunes, PlanOK
<1>3. R = [k \in {E[l].key : l \in DOMAIN E} |->
             LET l == CHOOSE x \in DOMAIN E : E[x].key = k IN WrittenRune(db, E[l], l)]
  BY DEF WrittenRunes
<1> HIDE DEF E, ok, R
<1>4. DOMAIN E = ok /\ \A l \in ok : E[l].key = RuneKeyOf(db, plan.runes[l], l)
  BY <1>1, <1>2
<1>5. DOMAIN R = {E[l].key : l \in DOMAIN E}
  BY <1>3
<1>6. ASSUME NEW k \in DOMAIN R
      PROVE  \E l \in ok : /\ E[l].key = k /\ R[k] = WrittenRune(db, E[l], l)
                           /\ R[k].legacy = l
  <2> HIDE DEF ok
  <2> DEFINE l == CHOOSE x \in DOMAIN E : E[x].key = k
  <2>1. l \in DOMAIN E /\ E[l].key = k
    BY <1>5
  <2>2. R[k] = WrittenRune(db, E[l], l)
    BY <1>3, <1>5
  <2> HIDE DEF l
  <2>3. WrittenRune(db, E[l], l).legacy = l
    BY OverIs DEF WrittenRune, Over
  <2> QED
    BY <1>4, <2>1, <2>2, <2>3
<1>7. \A k \in DOMAIN R :
        \E l \in ok : /\ RuneKeyOf(db, plan.runes[l], l) = k
                     /\ R[k] = WrittenRune(db, E[l], l) /\ R[k].legacy = l
  <2> SUFFICES ASSUME NEW k \in DOMAIN R
               PROVE  \E l \in ok : /\ RuneKeyOf(db, plan.runes[l], l) = k
                                    /\ R[k] = WrittenRune(db, E[l], l) /\ R[k].legacy = l
    OBVIOUS
  <2>1. PICK l \in ok : /\ E[l].key = k /\ R[k] = WrittenRune(db, E[l], l)
                        /\ R[k].legacy = l
    BY <1>6
  <2> QED
    BY <1>4, <2>1
<1> QED
  BY <1>4, <1>5, <1>7 DEF E, ok, R, RunesWrittenAs

LEMMA RunesStayOnce ==
  ASSUME NEW db, RunesOnce(db), NEW plan, PlanOK(plan),
         NEW effective, PreparedAs(effective, db, plan), NEW W,
         WrittenAs(W, db, plan, effective)
  PROVE  RunesOnce(W)
<1> DEFINE old == db.runes
           R == WrittenRunes(db, effective)
           new == W.runes
           ok == AcceptedRunes(db, plan)
           key(l) == RuneKeyOf(db, plan.runes[l], l)
<1>1. /\ DOMAIN new = DOMAIN R \cup DOMAIN old
      /\ \A k \in DOMAIN R : new[k] = R[k]
      /\ \A k \in DOMAIN old \ DOMAIN R : new[k] = old[k]
  <2>1. new = Over(R, old)
    BY DEF WrittenAs
  <2> HIDE DEF old, R, new
  <2> QED
    BY <2>1 DEF Over
<1>2. \A k \in DOMAIN R : \E l \in ok : key(l) = k /\ R[k].legacy = l
  <2>1. RunesWrittenAs(db, plan, effective)
    BY RunesWritten
  <2> HIDE DEF old, new
  <2> QED
    BY <2>1 DEF RunesWrittenAs
<1>3. \A k, l \in DOMAIN old : old[k].legacy = old[l].legacy /\ old[k].legacy # None => k = l
  BY DEF RunesOnce
<1>4. ASSUME NEW l \in ok, l # None, NEW k \in DOMAIN old, old[k].legacy = l
      PROVE  key(l) = k
  <2>1. key(l) \in DOMAIN old => old[key(l)].legacy = l
    BY DEF AcceptedRunes
  <2>2. CASE key(l) \in DOMAIN old
    BY <1>3, <1>4, <2>1, <2>2
  <2>3. CASE key(l) \notin DOMAIN old
    <3>1. k \in ImportedRunes(db, l) /\ ImportedRunes(db, l) \subseteq DOMAIN old
      BY <1>4 DEF ImportedRunes
    <3>2. plan.runes[l].key \notin DOMAIN old
      BY <2>3 DEF RuneKeyOf
    <3>3. key(l) = CHOOSE x \in ImportedRunes(db, l) : TRUE
      BY <3>1, <3>2 DEF RuneKeyOf
    <3> QED
      BY <2>3, <3>1, <3>3
  <2> QED
    BY <2>2, <2>3
<1> HIDE DEF old, R, new, ok, key
<1>5. ASSUME NEW k \in DOMAIN new, NEW l \in DOMAIN new,
             new[k].legacy = new[l].legacy, new[k].legacy # None
      PROVE  k = l
  <2>1. CASE k \in DOMAIN R /\ l \in DOMAIN R
    BY <1>1, <1>2, <1>5, <2>1
  <2>2. CASE k \notin DOMAIN R /\ l \notin DOMAIN R
    BY <1>1, <1>3, <1>5, <2>2
  <2>3. CASE k \in DOMAIN R /\ l \notin DOMAIN R
    <3>1. PICK x \in ok : key(x) = k /\ new[k].legacy = x
      BY <1>1, <1>2, <2>3
    <3>2. l \in DOMAIN old /\ old[l].legacy = x
      BY <1>1, <1>5, <2>3, <3>1
    <3> QED
      BY <1>4, <1>5, <3>1, <3>2
  <2>4. CASE k \notin DOMAIN R /\ l \in DOMAIN R
    <3>1. PICK x \in ok : key(x) = l /\ new[l].legacy = x
      BY <1>1, <1>2, <2>4
    <3>2. k \in DOMAIN old /\ old[k].legacy = x
      BY <1>1, <1>5, <2>4, <3>1
    <3> QED
      BY <1>4, <1>5, <3>1, <3>2
  <2> QED
    BY <2>1, <2>2, <2>3, <2>4
<1> QED
  BY <1>5 DEF RunesOnce, new

-----------------------------------------------------------------------------
(* A database that a transaction or a user leaves is sound. *)

EdgesOK(db) == \A e \in db.edges : {e[1], e[2]} \subseteq DOMAIN db.cards

RowFields == {"body", "by", "created", "rev"}

MemoriesOK(db) == \A k \in DOMAIN db.memories : DOMAIN db.memories[k] = RowFields

\* What the search of an import is sure to keep of the graph.
GraphOK(edges) == IsFiniteSet(edges) /\ (Begins = {} => Acyclic(edges))

DbOK(db) ==
  /\ IsDatabase(db) /\ NotesOK(db) /\ RunesOnce(db) /\ MemoriesOK(db)
  /\ EdgesOK(db) /\ GraphOK(db.edges)

\* A part of a graph without cycles has none.
LEMMA AcyclicPart ==
  ASSUME NEW edges, NEW part, part \subseteq edges, Acyclic(edges)
  PROVE  Acyclic(part)
<1> DEFINE V(E) == UNION {{e[1], e[2]} : e \in E}
<1>1. V(part) \subseteq V(edges)
  OBVIOUS
<1>2. \A nodes \in (SUBSET V(edges)) \ {{}} : \E n \in nodes : \A p \in nodes : <<p, n>> \notin edges
  BY DEF Acyclic
<1> SUFFICES ASSUME NEW nodes \in (SUBSET V(part)) \ {{}}
             PROVE  \E n \in nodes : \A p \in nodes : <<p, n>> \notin part
  BY DEF Acyclic
<1>3. nodes \in (SUBSET V(edges)) \ {{}}
  BY <1>1
<1> HIDE DEF V
<1> QED
  BY <1>2, <1>3

LEMMA NoEdgesAcyclic == ASSUME NEW edges, \A e : e \notin edges PROVE Acyclic(edges)
<1> DEFINE V(E) == UNION {{e[1], e[2]} : e \in E}
<1>1. \A x : x \notin V(edges)
  OBVIOUS
<1>2. \A nodes \in (SUBSET V(edges)) \ {{}} :
        \E n \in nodes : \A p \in nodes : <<p, n>> \notin edges
  <2> HIDE DEF V
  <2> QED
    BY <1>1
<1> QED
  BY <1>2 DEF Acyclic

LEMMA NodesFinite ==
  ASSUME NEW edges, IsFiniteSet(edges)
  PROVE  IsFiniteSet(UNION {{e[1], e[2]} : e \in edges})
<1> DEFINE sets == {{e[1], e[2]} : e \in edges}
           f == [e \in edges |-> {e[1], e[2]}]
<1>1. sets = {f[e] : e \in DOMAIN f} /\ DOMAIN f = edges
  OBVIOUS
<1>2. \A T \in sets : IsFiniteSet(T)
  <2> SUFFICES ASSUME NEW e \in edges PROVE IsFiniteSet({e[1], e[2]})
    OBVIOUS
  <2>1. IsFiniteSet({e[1]})
    BY FS_Singleton
  <2>2. IsFiniteSet({e[1]} \cup {e[2]})
    BY <2>1, FS_AddElement
  <2>3. {e[1]} \cup {e[2]} = {e[1], e[2]}
    OBVIOUS
  <2> QED
    BY <2>2, <2>3
<1> HIDE DEF sets, f
<1>3. IsFiniteSet(sets)
  BY <1>1, FiniteRange
<1>4. IsFiniteSet(UNION sets)
  BY <1>2, <1>3, FS_UNION
<1> QED
  BY <1>4 DEF sets

\* The search reports no cycle where there is none.
LEMMA NoneIsFound ==
  ASSUME NEW edges, IsFiniteSet(edges), Acyclic(edges)
  PROVE  ~CycleFound(edges)
<1> DEFINE N == UNION {{e[1], e[2]} : e \in edges}
<1>1. Cardinality(N) \in Nat
  BY NodesFinite, FS_CardinalityType
<1>2. \A nodes \in (SUBSET N) \ {{}} : \E n \in nodes : \A p \in nodes : <<p, n>> \notin edges
  BY DEF Acyclic
<1> SUFFICES ASSUME NEW k \in 1..Cardinality(N), NEW path \in [0..k -> N],
                    path[0] = path[k], \A i \in 1..k : <<path[i - 1], path[i]>> \in edges
             PROVE  FALSE
  BY DEF CycleFound
<1> DEFINE S == {path[i] : i \in 1..k}
<1>3. k \in Nat /\ k \in 1..k
  BY <1>1
<1> HIDE DEF N
<1>4. S \subseteq N /\ path[k] \in S
  BY <1>3
<1>5. \A n \in S : \E p \in S : <<p, n>> \in edges
  <2> SUFFICES ASSUME NEW i \in 1..k PROVE \E p \in S : <<p, path[i]>> \in edges
    OBVIOUS
  <2>1. i - 1 = 0 \/ i - 1 \in 1..k
    BY <1>3
  <2>2. path[i - 1] \in S
    BY <1>4, <2>1
  <2> HIDE DEF S
  <2> QED
    BY <2>2
<1> HIDE DEF S
<1> QED
  BY <1>2, <1>4, <1>5

\* K nodes of S, each a child of the next.
Back(S, edges, K, p) ==
  /\ p \in [1..K -> S]
  /\ \A i, j \in 1..K : p[i] = p[j] => i = j
  /\ \A i \in 1..(K - 1) : <<p[i + 1], p[i]>> \in edges

LEMMA BackIsShort ==
  ASSUME NEW S, IsFiniteSet(S), NEW edges, NEW K \in Nat, NEW p, Back(S, edges, K, p)
  PROVE  K <= Cardinality(S)
<1>1. p \in Injection(1..K, S)
  BY DEF Back, Injection, IsInjective
<1>2. Cardinality(1..K) <= Cardinality(S)
  BY <1>1, FS_Injection
<1>3. Cardinality(1..K) = K
  BY FS_Interval
<1> QED
  BY <1>2, <1>3

\* Where no id begins with another the search finds a cycle: a walk from child
\* to parent, as long as there is one without a repetition, ends at a parent
\* that is on it.
LEMMA CycleIsFound ==
  ASSUME NEW edges, IsFiniteSet(edges), Begins = {}, ~Acyclic(edges)
  PROVE  CycleFound(edges)
<1> DEFINE N == UNION {{e[1], e[2]} : e \in edges}
<1>1. IsFiniteSet(N)
  BY NodesFinite
<1>2. PICK S \in (SUBSET N) \ {{}} : \A n \in S : \E p \in S : <<p, n>> \in edges
  BY DEF Acyclic
<1> DEFINE c == Cardinality(S)
           L == {K \in 1..c : \E p : Back(S, edges, K, p)}
<1> HIDE DEF N
<1>3. IsFiniteSet(S) /\ S \in SUBSET N
  BY <1>1, <1>2, FS_Subset
<1>4. c \in Nat
  BY <1>3, FS_CardinalityType
<1>5. c <= Cardinality(N) /\ Cardinality(N) \in Nat
  BY <1>1, <1>3, FS_Subset, FS_CardinalityType
<1> HIDE DEF c
<1>6. \A K \in Nat : K >= 1 /\ (\E p : Back(S, edges, K, p)) => K \in L
  <2> SUFFICES ASSUME NEW K \in Nat, K >= 1, NEW p, Back(S, edges, K, p) PROVE K \in 1..c
    OBVIOUS
  <2>1. K <= c
    BY <1>3, BackIsShort DEF c
  <2> QED
    BY <1>4, <2>1
<1>7. 1 \in L
  <2>1. PICK n \in S : TRUE
    BY <1>2
  <2> DEFINE p == [i \in 1..1 |-> n]
  <2>2. Back(S, edges, 1, p)
    BY DEF Back
  <2> HIDE DEF p, L
  <2> QED
    BY <1>6, <2>2
<1>8. PICK m \in L \cup {0} : \A x \in L \cup {0} : m >= x
  <2>1. L \subseteq 1..c
    OBVIOUS
  <2> HIDE DEF L
  <2> QED
    BY <1>4, <2>1, Greatest
<1>9. m \in 1..c /\ \E p : Back(S, edges, m, p)
  <2>1. m >= 1
    BY <1>7, <1>8
  <2>2. m \in L
    BY <1>8, <2>1
  <2> QED
    BY <2>2
<1>10. PICK p : Back(S, edges, m, p)
  BY <1>9
<1>11. /\ m \in Nat /\ m >= 1 /\ m <= c /\ p \in [1..m -> S]
       /\ \A i, j \in 1..m : p[i] = p[j] => i = j
       /\ \A i \in 1..(m - 1) : <<p[i + 1], p[i]>> \in edges
  BY <1>4, <1>9, <1>10 DEF Back
<1>12. PICK q \in S : <<q, p[m]>> \in edges
  <2>1. p[m] \in S
    BY <1>11
  <2> QED
    BY <1>2, <2>1
<1>13. PICK i \in 1..m : p[i] = q
  <2> SUFFICES ASSUME \A j \in 1..m : p[j] # q PROVE FALSE
    OBVIOUS
  <2> DEFINE longer == [j \in 1..(m + 1) |-> IF j <= m THEN p[j] ELSE q]
  <2>1. longer \in [1..(m + 1) -> S]
    BY <1>11
  <2>2. \A j \in 1..m : longer[j] = p[j]
    BY <1>11
  <2>3. longer[m + 1] = q
    BY <1>11
  <2>4. \A j \in 1..(m + 1) : j \in 1..m \/ j = m + 1
    BY <1>11
  <2>5. \A j \in 1..((m + 1) - 1) : (j \in 1..(m - 1) /\ j + 1 \in 1..m) \/ j = m
    BY <1>11
  <2> HIDE DEF longer
  <2>6. \A j, k \in 1..(m + 1) : longer[j] = longer[k] => j = k
    BY <1>11, <2>2, <2>3, <2>4
  <2>7. \A j \in 1..((m + 1) - 1) : <<longer[j + 1], longer[j]>> \in edges
    <3> SUFFICES ASSUME NEW j \in 1..((m + 1) - 1)
                 PROVE  <<longer[j + 1], longer[j]>> \in edges
      OBVIOUS
    <3>1. CASE j = m
      BY <3>1, <1>11, <1>12, <2>2, <2>3
    <3>2. CASE j \in 1..(m - 1) /\ j + 1 \in 1..m
      <4>1. j \in 1..m
        BY <1>11, <3>2
      <4>2. longer[j + 1] = p[j + 1] /\ longer[j] = p[j]
        BY <2>2, <3>2, <4>1
      <4> QED
        BY <1>11, <3>2, <4>2
    <3> QED
      BY <2>5, <3>1, <3>2
  <2>8. Back(S, edges, m + 1, longer)
    BY <2>1, <2>6, <2>7 DEF Back
  <2>9. m + 1 \in L
    <3>1. m + 1 \in Nat /\ m + 1 >= 1
      BY <1>11
    <3> HIDE DEF L
    <3> QED
      BY <1>6, <2>8, <3>1
  <2> QED
    BY <1>8, <1>11, <2>9
<1> DEFINE k == (m + 1) - i
           path == [j \in 0..k |-> IF j = 0 THEN q ELSE p[(m + 1) - j]]
<1>14. k \in Nat /\ k >= 1 /\ k <= m /\ (m + 1) - k = i
  BY <1>11
<1>15. \A j \in 1..k : (m + 1) - j \in 1..m
  BY <1>11, <1>14
<1>16. path[0] = q /\ \A j \in 1..k : path[j] = p[(m + 1) - j]
  BY <1>14
<1>17. path \in [0..k -> N]
  <2>1. q \in N /\ \A j \in 1..k : p[(m + 1) - j] \in N
    BY <1>3, <1>11, <1>15
  <2> HIDE DEF k
  <2>2. \A j \in 0..k : j = 0 \/ j \in 1..k
    BY <1>14
  <2> QED
    BY <2>1, <2>2
<1> HIDE DEF path
<1>18. path[0] = path[k]
  BY <1>13, <1>14, <1>16
<1>19. ASSUME NEW j \in 1..k PROVE <<path[j - 1], path[j]>> \in edges
  <2>1. path[j] = p[(m + 1) - j]
    BY <1>16
  <2>2. CASE j = 1
    <3>1. j - 1 = 0 /\ (m + 1) - j = m
      BY <1>11, <2>2
    <3> QED
      BY <1>12, <1>16, <2>1, <3>1
  <2>3. CASE j # 1
    <3> DEFINE a == (m + 1) - j
    <3>1. j - 1 \in 1..k /\ (m + 1) - (j - 1) = a + 1 /\ a \in 1..(m - 1)
      BY <1>11, <1>14, <2>3
    <3>2. path[j - 1] = p[a + 1]
      BY <1>16, <3>1
    <3>3. <<p[a + 1], p[a]>> \in edges
      BY <1>11, <3>1
    <3> QED
      BY <2>1, <3>2, <3>3
  <2> QED
    BY <2>2, <2>3
<1>20. ASSUME NEW j \in 1..k, NEW h \in 1..(j - 1)
       PROVE  path[h] # path[j] /\ <<path[h], path[j]>> \notin Begins
  <2>1. h \in 1..k /\ h # j /\ (m + 1) - h # (m + 1) - j
    BY <1>11, <1>14
  <2>2. path[h] = p[(m + 1) - h] /\ path[j] = p[(m + 1) - j]
    BY <1>16, <2>1
  <2>3. (m + 1) - h \in 1..m /\ (m + 1) - j \in 1..m
    BY <1>15, <2>1
  <2> QED
    BY <1>11, <2>1, <2>2, <2>3
<1>21. k \in 1..Cardinality(N)
  BY <1>4, <1>5, <1>11, <1>14
<1>22. \A j \in 1..k : <<path[j - 1], path[j]>> \in edges
  BY <1>19
<1>23. \A j \in 1..k : \A h \in 1..(j - 1) :
         path[h] # path[j] /\ <<path[h], path[j]>> \notin Begins
  BY <1>20
<1> HIDE DEF k
<1> QED
  BY <1>17, <1>18, <1>21, <1>22, <1>23 DEF CycleFound, N
LEMMA GraphPart ==
  ASSUME NEW edges, NEW part, part \subseteq edges, GraphOK(edges)
  PROVE  GraphOK(part)
<1>1. IsFiniteSet(part)
  <2>1. part \in SUBSET edges /\ IsFiniteSet(edges)
    BY DEF GraphOK
  <2> QED
    BY <2>1, FS_Subset
<1>2. Begins = {} => Acyclic(part)
  BY AcyclicPart DEF GraphOK
<1> QED
  BY <1>1, <1>2 DEF GraphOK

LEMMA NewDatabaseOK == DbOK(NewDatabase)
<1>1. DOMAIN Empty = {} /\ IsFunction(Empty)
  BY DEF Empty, IsFunction
<1>2. IsDatabase(NewDatabase)
  BY <1>1 DEF IsDatabase, NewDatabase, DbFields, IsFunction
<1>3. \E n \in Nat : DOMAIN Empty \subseteq 1..n
  BY <1>1
<1>4. /\ NotesOK(NewDatabase) /\ RunesOnce(NewDatabase) /\ EdgesOK(NewDatabase)
      /\ MemoriesOK(NewDatabase)
  BY <1>1, <1>3 DEF NotesOK, NotesOfSource, RunesOnce, MemoriesOK, EdgesOK, NewDatabase
<1>5. GraphOK(NewDatabase.edges)
  <2>1. NewDatabase.edges = {}
    BY DEF NewDatabase
  <2> QED
    BY <2>1, NoEdgesAcyclic, FS_EmptySet DEF GraphOK
<1> QED
  BY <1>2, <1>4, <1>5 DEF DbOK

LEMMA EdgesStayOK ==
  ASSUME NEW db, EdgesOK(db), NEW plan, NEW effective, PreparedAs(effective, db, plan),
         NEW W, WrittenAs(W, db, plan, effective)
  PROVE  EdgesOK(W)
<1> DEFINE C == WrittenCards(db, plan, effective)
           ok == Accepted(db, plan)
           cards == db.cards
<1>1. DOMAIN C = DOMAIN effective.cards /\ DOMAIN effective.cards = ok
  BY DEF WrittenCards, PreparedAs
<1>2. W.cards = Over(C, cards)
  BY DEF WrittenAs
<1>3. \A e \in W.edges : {e[1], e[2]} \subseteq ok \/ e \in db.edges
  BY DEF WrittenAs, PreparedAs
<1> HIDE DEF C, ok, cards
<1>4. DOMAIN W.cards = ok \cup DOMAIN cards
  BY <1>1, <1>2 DEF Over
<1>5. \A e \in db.edges : {e[1], e[2]} \subseteq DOMAIN cards
  BY DEF EdgesOK, cards
<1> QED
  BY <1>3, <1>4, <1>5 DEF EdgesOK

\* The row of a memory that was not known.
LEMMA MemoryRow ==
  ASSUME NEW db, NEW v, DOMAIN v = {"body", "by", "created"}, NEW k, k \notin DOMAIN db.memories
  PROVE  LET row == WrittenMemory(db, v, k)
         IN /\ DOMAIN row = RowFields /\ row.body = v.body /\ row.by = v.by
            /\ v.created = None \/ row.created = v.created
<1> DEFINE t == IF v.created = None THEN Native ELSE v.created
           dated == [v EXCEPT !.created = t]
           new == [rev |-> 1]
           row == WrittenMemory(db, v, k)
<1>1. row = Over(dated, new)
  BY DEF WrittenMemory
<1>2. /\ DOMAIN dated = {"body", "by", "created"}
      /\ dated.body = v.body /\ dated.by = v.by /\ dated.created = t
  OBVIOUS
<1>3. DOMAIN new = {"rev"}
  OBVIOUS
<1>4. v.created = None \/ t = v.created
  OBVIOUS
<1> HIDE DEF t, dated, new, row
<1>5. /\ DOMAIN Over(dated, new) = DOMAIN dated \cup DOMAIN new
      /\ \A x \in DOMAIN dated : Over(dated, new)[x] = dated[x]
  BY OverIs
<1> QED
  BY <1>1, <1>2, <1>3, <1>4, <1>5 DEF row, RowFields

LEMMA MemoriesStayOK ==
  ASSUME NEW db, MemoriesOK(db), NEW plan, PlanOK(plan),
         NEW effective, NEW W, WrittenAs(W, db, plan, effective)
  PROVE  MemoriesOK(W)
<1> DEFINE M == WrittenMemories(db, plan)
           old == db.memories
<1>1. W.memories = Over(M, old)
  BY DEF WrittenAs
<1>2. ASSUME NEW k \in DOMAIN M PROVE DOMAIN M[k] = RowFields
  <2>1. k \in DOMAIN plan.memories /\ M[k] = WrittenMemory(db, plan.memories[k], k)
    BY DEF WrittenMemories
  <2>2. DOMAIN plan.memories[k] = {"body", "by", "created"}
    BY <2>1 DEF PlanOK, MemoryOK
  <2>3. k \in DOMAIN old => DOMAIN old[k] = RowFields
    BY DEF MemoriesOK
  <2>4. CASE k \notin DOMAIN old
    BY <2>1, <2>2, <2>4, MemoryRow
  <2>5. CASE k \in DOMAIN old
    BY <2>1, <2>3, <2>5 DEF WrittenMemory
  <2> QED
    BY <2>4, <2>5
<1>3. \A k \in DOMAIN old : DOMAIN old[k] = RowFields
  BY DEF MemoriesOK
<1> HIDE DEF M, old
<1>4. /\ DOMAIN W.memories = DOMAIN M \cup DOMAIN old
      /\ \A k \in DOMAIN M : W.memories[k] = M[k]
      /\ \A k \in DOMAIN old \ DOMAIN M : W.memories[k] = old[k]
  BY <1>1 DEF Over
<1> QED
  BY <1>2, <1>3, <1>4 DEF MemoriesOK

\* A transaction that verifies leaves a sound database.
LEMMA WrittenOK ==
  ASSUME NEW db, DbOK(db), NEW plan, PlanOK(plan),
         NEW effective, effective = Prepared(db, plan),
         \A k \in DOMAIN effective.notes : effective.notes[k] # None,
         Verified(Written(db, plan, effective), effective)
  PROVE  /\ DbOK(Written(db, plan, effective))
         /\ PreparedAs(effective, db, plan)
         /\ WrittenAs(Written(db, plan, effective), db, plan, effective)
<1> DEFINE W == Written(db, plan, effective)
<1>1. PreparedAs(effective, db, plan)
  BY PreparedIs
<1>2. /\ IsFiniteSet(DOMAIN effective.notes)
      /\ \A k \in DOMAIN effective.notes : DOMAIN effective.notes[k] = {"card", "body"}
  BY <1>1, EffectiveNotesOK
<1>3. /\ IsDatabase(db) /\ NotesOK(db) /\ RunesOnce(db) /\ EdgesOK(db)
      /\ MemoriesOK(db)
  BY DEF DbOK
<1>4. PICK n \in Nat : DOMAIN db.notes \subseteq 1..n
  BY <1>3 DEF NotesOK
<1>5. WrittenAs(W, db, plan, effective) /\ IsDatabase(W)
  BY <1>2, <1>3, <1>4, WrittenIs
<1>12. ~CycleFound(W.edges)
  BY DEF Verified, FindsCycle
<1> HIDE DEF W
<1>6. GraphOK(W.edges)
  <2> DEFINE A == effective.edges
             B == {e \in db.edges : ~Imported(W, e)}
  <2>1. IsFiniteSet(db.edges) /\ IsFiniteSet(plan.edges)
    BY DEF DbOK, GraphOK, PlanOK
  <2>2. A \in SUBSET plan.edges /\ B \in SUBSET db.edges /\ W.edges = A \cup B
    BY <1>1, <1>5 DEF PreparedAs, WrittenAs
  <2> HIDE DEF A, B
  <2>3. IsFiniteSet(A) /\ IsFiniteSet(B)
    BY <2>1, <2>2, FS_Subset
  <2>4. IsFiniteSet(W.edges)
    BY <2>2, <2>3, FS_Union
  <2>5. Begins = {} => Acyclic(W.edges)
    <3> DEFINE E == W.edges
    <3> HIDE DEF E
    <3>1. IsFiniteSet(E) /\ ~CycleFound(E)
      BY <1>12, <2>4 DEF E
    <3>2. Begins = {} => Acyclic(E)
      BY <3>1, CycleIsFound
    <3> QED
      BY <3>2 DEF E
  <2> QED
    BY <2>4, <2>5 DEF GraphOK
<1>7. NotesOK(W)
  BY <1>1, <1>3, <1>5, NotesStayOnce
<1>11. MemoriesOK(W)
  BY <1>3, <1>5, MemoriesStayOK
<1>8. RunesOnce(W)
  BY <1>1, <1>3, <1>5, RunesStayOnce
<1>9. EdgesOK(W)
  BY <1>1, <1>3, <1>5, EdgesStayOK
<1>10. DbOK(W)
  BY <1>5, <1>6, <1>7, <1>8, <1>9, <1>11 DEF DbOK
<1> QED
  BY <1>1, <1>5, <1>10 DEF W

-----------------------------------------------------------------------------
(* What the users of a database do leaves it sound. *)

\* Rewrites of notes, of rows or of anything that is neither.
LEMMA NotesDropped ==
  ASSUME NEW db, NotesOK(db), NEW new, new.noteProv = db.noteProv,
         DOMAIN new.notes \subseteq DOMAIN db.notes,
         \A i \in DOMAIN new.notes : new.notes[i] = db.notes[i]
  PROVE  NotesOK(new)
BY DEF NotesOK, NotesOfSource

LEMMA NoteInserted ==
  ASSUME NEW db, NotesOK(db), NEW note, note.from = Native,
         NEW new, new.noteProv = db.noteProv, new.notes = InsertedNote(db.notes, note)
  PROVE  NotesOK(new)
<1> DEFINE id == NextNote(db.notes)
           old == db.notes
<1>1. PICK n \in Nat : DOMAIN old \subseteq 1..n
  BY DEF NotesOK
<1>2. LastNote(old) \in Nat /\ DOMAIN old \subseteq 1..LastNote(old)
  BY <1>1, LastNoteBounds
<1>3. id = LastNote(old) + 1
  BY DEF NextNote
<1>4. new.notes = With(old, id, note)
  BY DEF InsertedNote
<1> HIDE DEF id, old
<1>5. /\ DOMAIN new.notes = DOMAIN old \cup {id} /\ id \notin DOMAIN old
      /\ new.notes[id] = note
      /\ \A i \in DOMAIN old : new.notes[i] = old[i]
  BY <1>2, <1>3, <1>4 DEF With
<1>6. id \in Nat /\ DOMAIN new.notes \subseteq 1..id
  BY <1>2, <1>3, <1>5
<1>7. /\ \A i \in DOMAIN old : old[i].from # Native => old[i].from \in DOMAIN new.noteProv
      /\ \A i, j \in DOMAIN old : old[i].from = old[j].from /\ old[i].from # Native => i = j
  BY DEF NotesOK, old
<1>8. /\ \A i \in DOMAIN new.notes :
           new.notes[i].from # Native => i \in DOMAIN old /\ new.notes[i] = old[i]
      /\ \A i \in DOMAIN new.notes :
           new.notes[i].from # Native => new.notes[i].from \in DOMAIN new.noteProv
  BY <1>5, <1>7
<1>9. \A i, j \in DOMAIN new.notes :
        new.notes[i].from = new.notes[j].from /\ new.notes[i].from # Native => i = j
  BY <1>7, <1>8
<1>10. NotesOfSource(new)
  <2>1. NotesOfSource(db)
    BY DEF NotesOK
  <2>2. \A k \in DOMAIN new.noteProv : k # Native
    BY <2>1 DEF NotesOfSource
  <2> QED
    BY <1>5, <2>1, <2>2 DEF NotesOfSource, old
<1> QED
  BY <1>6, <1>8, <1>9, <1>10 DEF NotesOK

\* A change of rows, statuses or memories that takes no card away.
LEMMA RowsChanged ==
  ASSUME NEW db, DbOK(db), NEW new, IsDatabase(new),
         new.notes = db.notes, new.noteProv = db.noteProv,
         new.runes = db.runes, new.edges = db.edges, DOMAIN db.cards \subseteq DOMAIN new.cards,
         MemoriesOK(new)
  PROVE  DbOK(new)
<1>1. NotesOK(new) /\ RunesOnce(new)
  BY DEF DbOK, NotesOK, NotesOfSource, RunesOnce
<1>2. EdgesOK(new) /\ GraphOK(new.edges)
  BY DEF DbOK, EdgesOK
<1> QED
  BY <1>1, <1>2 DEF DbOK

LEMMA NativeStepOK ==
  ASSUME DbOK(dest), NativeStep
  PROVE  DbOK(dest')
<1>0. /\ IsDatabase(dest) /\ NotesOK(dest) /\ RunesOnce(dest) /\ EdgesOK(dest)
      /\ GraphOK(dest.edges) /\ MemoriesOK(dest)
  BY DEF DbOK
<1>14. dest'.memories = dest.memories => MemoriesOK(dest')
  BY <1>0 DEF MemoriesOK
<1>1. DOMAIN dest = DbFields /\ IsFunction(dest)
  BY <1>0 DEF IsDatabase
<1>2. ASSUME NEW x, dest' = [dest EXCEPT !.cards = x], IsFunction(x),
             DOMAIN dest.cards \subseteq DOMAIN x
      PROVE  DbOK(dest')
  <2>1. /\ dest'.cards = x /\ dest'.notes = dest.notes
        /\ dest'.noteProv = dest.noteProv /\ dest'.runes = dest.runes
        /\ dest'.edges = dest.edges /\ dest'.statuses = dest.statuses
        /\ dest'.cardProv = dest.cardProv /\ dest'.memories = dest.memories
        /\ DOMAIN dest' = DbFields /\ IsFunction(dest')
    BY <1>1, <1>2 DEF DbFields, IsFunction
  <2>2. IsDatabase(dest')
    BY <1>0, <1>2, <2>1 DEF IsDatabase
  <2> QED
    BY <1>2, <1>14, <2>1, <2>2, RowsChanged
<1>3. ASSUME NEW c \in CardId, NativeCreate(c) PROVE DbOK(dest')
  <2>1. PICK row : dest' = [dest EXCEPT !.cards = With(@, c, row)]
    BY <1>3 DEF NativeCreate, Uses
  <2> DEFINE x == With(dest.cards, c, row)
  <2>2. IsFunction(x) /\ DOMAIN dest.cards \subseteq DOMAIN x
    BY DEF With, IsFunction
  <2>3. dest' = [dest EXCEPT !.cards = x]
    BY <2>1
  <2> HIDE DEF x
  <2> QED
    BY <1>2, <2>2, <2>3
<1>4. ASSUME NEW c \in CardId, NativeUpdate(c) PROVE DbOK(dest')
  <2>1. PICK row : dest' = [dest EXCEPT !.cards[c] = row]
    BY <1>4 DEF NativeUpdate, Uses
  <2> DEFINE x == [dest.cards EXCEPT ![c] = row]
  <2>2. IsFunction(x) /\ DOMAIN dest.cards \subseteq DOMAIN x
    BY DEF IsFunction
  <2>3. dest' = [dest EXCEPT !.cards = x]
    BY <2>1
  <2> HIDE DEF x
  <2> QED
    BY <1>2, <2>2, <2>3
<1>5. ASSUME NEW c \in CardId, NativeDelete(c) PROVE DbOK(dest')
  <2> DEFINE cards == Without(dest.cards, c)
             edges == {e \in dest.edges : c \notin {e[1], e[2]}}
             notes == [i \in {x \in DOMAIN dest.notes : dest.notes[x].card # c} |-> dest.notes[i]]
  <2>1. dest' = [dest EXCEPT !.cards = cards, !.edges = edges, !.notes = notes]
    BY <1>5 DEF NativeDelete, Uses
  <2>2. IsFunction(cards) /\ DOMAIN cards = DOMAIN dest.cards \ {c}
    BY DEF Without, IsFunction
  <2>3. IsFunction(notes) /\ DOMAIN notes \subseteq DOMAIN dest.notes
        /\ \A i \in DOMAIN notes : notes[i] = dest.notes[i]
    BY DEF IsFunction
  <2>4. edges \subseteq dest.edges /\ \A e \in edges : c \notin {e[1], e[2]}
    OBVIOUS
  <2> HIDE DEF cards, edges, notes
  <2>5. /\ dest'.cards = cards /\ dest'.notes = notes
        /\ dest'.noteProv = dest.noteProv /\ dest'.runes = dest.runes
        /\ dest'.edges = edges /\ dest'.statuses = dest.statuses
        /\ dest'.cardProv = dest.cardProv /\ dest'.memories = dest.memories
        /\ DOMAIN dest' = DbFields /\ IsFunction(dest')
    BY <1>1, <2>1 DEF DbFields, IsFunction
  <2>6. IsDatabase(dest')
    BY <1>0, <2>2, <2>3, <2>5 DEF IsDatabase
  <2>7. NotesOK(dest')
    BY <1>0, <2>3, <2>5, NotesDropped
  <2>8. RunesOnce(dest') /\ EdgesOK(dest')
    BY <1>0, <2>2, <2>4, <2>5 DEF RunesOnce, EdgesOK
  <2>9. GraphOK(dest'.edges)
    BY <1>0, <2>4, <2>5, GraphPart
  <2> QED
    BY <1>14, <2>5, <2>6, <2>7, <2>8, <2>9 DEF DbOK
<1>6. ASSUME NEW c \in CardId, NativeNote(c) PROVE DbOK(dest')
  <2> DEFINE note == [card |-> c, body |-> Native, from |-> Native]
             notes == InsertedNote(dest.notes, note)
  <2>1. dest' = [dest EXCEPT !.notes = notes]
    BY <1>6 DEF NativeNote, Uses
  <2>2. note.from = Native
    OBVIOUS
  <2>3. IsFunction(notes)
    BY DEF InsertedNote, With, IsFunction
  <2> HIDE DEF note
  <2>4. /\ dest'.cards = dest.cards /\ dest'.notes = InsertedNote(dest.notes, note)
        /\ dest'.noteProv = dest.noteProv /\ dest'.runes = dest.runes
        /\ dest'.edges = dest.edges /\ dest'.statuses = dest.statuses
        /\ dest'.cardProv = dest.cardProv /\ dest'.memories = dest.memories
        /\ DOMAIN dest' = DbFields /\ IsFunction(dest')
    BY <1>1, <2>1 DEF DbFields, IsFunction
  <2>5. IsDatabase(dest')
    BY <1>0, <2>3, <2>4 DEF IsDatabase
  <2>6. NotesOK(dest')
    BY <1>0, <2>2, <2>4, NoteInserted
  <2>7. RunesOnce(dest') /\ EdgesOK(dest') /\ GraphOK(dest'.edges)
    BY <1>0, <2>4 DEF RunesOnce, EdgesOK
  <2> QED
    BY <1>14, <2>4, <2>5, <2>6, <2>7 DEF DbOK
<1>7. ASSUME NEW edges, dest' = [dest EXCEPT !.edges = edges], GraphOK(edges),
             \A e \in edges : {e[1], e[2]} \subseteq DOMAIN dest.cards
      PROVE  DbOK(dest')
  <2>1. /\ dest'.cards = dest.cards /\ dest'.notes = dest.notes
        /\ dest'.noteProv = dest.noteProv /\ dest'.runes = dest.runes
        /\ dest'.edges = edges /\ dest'.statuses = dest.statuses
        /\ dest'.cardProv = dest.cardProv /\ dest'.memories = dest.memories
        /\ DOMAIN dest' = DbFields /\ IsFunction(dest')
    BY <1>1, <1>7 DEF DbFields, IsFunction
  <2>2. IsDatabase(dest')
    BY <1>0, <2>1 DEF IsDatabase
  <2>3. NotesOK(dest')
    BY <1>0, <2>1, NotesDropped
  <2>4. RunesOnce(dest') /\ EdgesOK(dest') /\ GraphOK(dest'.edges)
    BY <1>0, <1>7, <2>1 DEF RunesOnce, EdgesOK
  <2> QED
    BY <1>14, <2>1, <2>2, <2>3, <2>4 DEF DbOK
<1>8. ASSUME NEW p \in CardId, NEW c \in CardId, NativeAddEdge(p, c) PROVE DbOK(dest')
  <2> DEFINE edges == dest.edges \cup {<<p, c>>}
  <2>1. /\ dest' = [dest EXCEPT !.edges = edges] /\ Acyclic(edges)
        /\ {p, c} \subseteq DOMAIN dest.cards
    BY <1>8 DEF NativeAddEdge, Uses
  <2>2. \A e \in edges : {e[1], e[2]} \subseteq DOMAIN dest.cards
    BY <1>0, <2>1, PairAt DEF EdgesOK
  <2>3. IsFiniteSet(edges)
    BY <1>0, FS_AddElement DEF GraphOK
  <2> HIDE DEF edges
  <2>4. GraphOK(edges)
    BY <2>1, <2>3 DEF GraphOK
  <2> QED
    BY <1>7, <2>1, <2>2, <2>4
<1>9. ASSUME NEW e \in dest.edges, NativeRemoveEdge(e) PROVE DbOK(dest')
  <2> DEFINE edges == dest.edges \ {e}
  <2>1. dest' = [dest EXCEPT !.edges = edges]
    BY <1>9 DEF NativeRemoveEdge, Uses
  <2>2. edges \subseteq dest.edges
    OBVIOUS
  <2> HIDE DEF edges
  <2>3. GraphOK(edges)
    BY <1>0, <2>2, GraphPart
  <2>4. \A x \in edges : {x[1], x[2]} \subseteq DOMAIN dest.cards
    BY <1>0, <2>2 DEF EdgesOK
  <2> QED
    BY <1>7, <2>1, <2>3, <2>4
<1>10. ASSUME NEW k \in RuneKey, NativePutRune(k) PROVE DbOK(dest')
  <2>1. PICK rev : dest' = [dest EXCEPT !.runes =
                              With(@, k, [text |-> Native, enabled |-> TRUE,
                                          legacy |-> None, rev |-> rev])]
    BY <1>10 DEF NativePutRune, Uses
  <2> DEFINE rune == [text |-> Native, enabled |-> TRUE, legacy |-> None, rev |-> rev]
             runes == With(dest.runes, k, rune)
  <2>2. rune.legacy = None
    OBVIOUS
  <2>3. dest' = [dest EXCEPT !.runes = runes]
    BY <2>1
  <2> HIDE DEF rune
  <2>4. /\ DOMAIN runes = DOMAIN dest.runes \cup {k} /\ IsFunction(runes) /\ runes[k] = rune
        /\ \A l \in DOMAIN dest.runes \ {k} : runes[l] = dest.runes[l]
    BY DEF With, IsFunction
  <2> HIDE DEF runes
  <2>5. /\ dest'.cards = dest.cards /\ dest'.notes = dest.notes
        /\ dest'.noteProv = dest.noteProv /\ dest'.runes = runes
        /\ dest'.edges = dest.edges /\ dest'.statuses = dest.statuses
        /\ dest'.cardProv = dest.cardProv /\ dest'.memories = dest.memories
        /\ DOMAIN dest' = DbFields /\ IsFunction(dest')
    BY <1>1, <2>3 DEF DbFields, IsFunction
  <2>6. IsDatabase(dest')
    BY <1>0, <2>4, <2>5 DEF IsDatabase
  <2>7. NotesOK(dest')
    BY <1>0, <2>5, NotesDropped
  <2>8. RunesOnce(dest')
    BY <1>0, <2>2, <2>4, <2>5 DEF RunesOnce
  <2>9. EdgesOK(dest') /\ GraphOK(dest'.edges)
    BY <1>0, <2>5 DEF EdgesOK
  <2> QED
    BY <1>14, <2>5, <2>6, <2>7, <2>8, <2>9 DEF DbOK
<1>11. ASSUME NEW x, dest' = [dest EXCEPT !.memories = x], IsFunction(x),
              \A k \in DOMAIN x : DOMAIN x[k] = RowFields
       PROVE  DbOK(dest')
  <2>1. /\ dest'.cards = dest.cards /\ dest'.notes = dest.notes
        /\ dest'.noteProv = dest.noteProv /\ dest'.runes = dest.runes
        /\ dest'.edges = dest.edges /\ dest'.statuses = dest.statuses
        /\ dest'.cardProv = dest.cardProv /\ dest'.memories = x
        /\ DOMAIN dest' = DbFields /\ IsFunction(dest')
    BY <1>1, <1>11 DEF DbFields, IsFunction
  <2>2. IsDatabase(dest')
    BY <1>0, <1>11, <2>1 DEF IsDatabase
  <2>3. MemoriesOK(dest')
    BY <1>11, <2>1 DEF MemoriesOK
  <2> QED
    BY <2>1, <2>2, <2>3, RowsChanged
<1>12. ASSUME NEW k \in MemoryKey, NativeRemember(k) PROVE DbOK(dest')
  <2> DEFINE x == IF k \in DOMAIN dest.memories
                  THEN [dest.memories EXCEPT ![k].body = Native, ![k].rev = @ + 1]
                  ELSE With(dest.memories, k,
                            [body |-> Native, by |-> Native, created |-> Native, rev |-> 1])
  <2>1. dest' = [dest EXCEPT !.memories = x]
    BY <1>12, SMTT(30) DEF NativeRemember, Uses
  <2>2. IsFunction(x)
    BY DEF With, IsFunction
  <2>3. \A l \in DOMAIN x : DOMAIN x[l] = RowFields
    <3> DEFINE old == dest.memories
               note == [body |-> Native, by |-> Native, created |-> Native, rev |-> 1]
    <3>1. \A l \in DOMAIN old : DOMAIN old[l] = RowFields
      BY <1>0 DEF MemoriesOK
    <3>2. DOMAIN note = RowFields
      BY DEF RowFields
    <3>3. CASE k \in DOMAIN old
      BY <3>1, <3>3
    <3>4. CASE k \notin DOMAIN old
      <4>1. x = With(old, k, note)
        BY <3>4
      <4> HIDE DEF x, note, old
      <4> QED
        BY <3>1, <3>2, <4>1 DEF With
    <3> QED
      BY <3>3, <3>4
  <2> HIDE DEF x
  <2> QED
    BY <1>11, <2>1, <2>2, <2>3
<1>13. ASSUME NEW n \in UserStatus, NativeStatus(n, "wip") PROVE DbOK(dest')
  <2> DEFINE x == With(dest.statuses, n, "wip")
  <2>1. dest' = [dest EXCEPT !.statuses = x]
    BY <1>13 DEF NativeStatus, Uses
  <2>2. IsFunction(x)
    BY DEF With, IsFunction
  <2> HIDE DEF x
  <2>3. /\ dest'.cards = dest.cards /\ dest'.notes = dest.notes
        /\ dest'.noteProv = dest.noteProv /\ dest'.runes = dest.runes
        /\ dest'.edges = dest.edges /\ dest'.statuses = x
        /\ dest'.cardProv = dest.cardProv /\ dest'.memories = dest.memories
        /\ DOMAIN dest' = DbFields /\ IsFunction(dest')
    BY <1>1, <2>1 DEF DbFields, IsFunction
  <2>4. IsDatabase(dest')
    BY <1>0, <2>2, <2>3 DEF IsDatabase
  <2> QED
    BY <1>14, <2>3, <2>4, RowsChanged
<1> QED
  BY <1>3, <1>4, <1>5, <1>6, <1>8, <1>9, <1>10, <1>12, <1>13 DEF NativeStep

-----------------------------------------------------------------------------
(* A new database holds all of the plan. *)

Complete(db, plan) ==
  /\ db.cardProv = plan.cards
  /\ [c \in DOMAIN db.cards |-> Projection(db.cards[c])] = plan.cards
  /\ db.edges = plan.edges
  /\ {db.notes[i].from : i \in DOMAIN db.notes} = DOMAIN plan.notes
  /\ {db.runes[k].legacy : k \in DOMAIN db.runes} = DOMAIN plan.runes
  /\ DOMAIN db.memories = DOMAIN plan.memories

LEMMA NewParts ==
  LET db == NewDatabase
  IN /\ db.statuses = Empty /\ db.cards = Empty /\ db.cardProv = Empty /\ db.edges = {}
     /\ db.notes = Empty /\ db.noteProv = Empty /\ db.runes = Empty /\ db.memories = Empty
     /\ DOMAIN Empty = {}
BY DEF NewDatabase, Empty

LEMMA PreparedForNew ==
  ASSUME NEW plan, PlanOK(plan), NEW effective, PreparedAs(effective, NewDatabase, plan)
  PROVE  /\ effective.cards = plan.cards /\ effective.edges = plan.edges
         /\ DOMAIN effective.notes = DOMAIN plan.notes
         /\ AcceptedRunes(NewDatabase, plan) = DOMAIN plan.runes
         /\ Accepted(NewDatabase, plan) = DOMAIN plan.cards
<1>1. Accepted(NewDatabase, plan) = DOMAIN plan.cards
  BY NewParts DEF Accepted, DestinationOwned
<1>2. \A c : EffectiveCard(NewDatabase, plan.cards[c], c) = plan.cards[c]
  BY NewParts DEF EffectiveCard
<1>3. effective.cards = [c \in DOMAIN plan.cards |-> plan.cards[c]]
  BY <1>1, <1>2 DEF PreparedAs
<1>4. effective.cards = plan.cards
  BY <1>3 DEF PlanOK, IsFunction
<1>5. effective.edges = plan.edges
  BY <1>1 DEF PreparedAs, PlanOK
<1>6. DOMAIN effective.notes = DOMAIN plan.notes
  BY <1>1 DEF PreparedAs, PlanOK, NoteOK
<1>7. AcceptedRunes(NewDatabase, plan) = DOMAIN plan.runes
  BY NewParts DEF AcceptedRunes
<1> QED
  BY <1>1, <1>4, <1>5, <1>6, <1>7

LEMMA NewIsComplete ==
  ASSUME NEW plan, PlanOK(plan), NEW effective, PreparedAs(effective, NewDatabase, plan),
         NEW W, IsDatabase(W), WrittenAs(W, NewDatabase, plan, effective), Verified(W, effective)
  PROVE  Complete(W, plan)
<1> DEFINE db == NewDatabase
<1>1. /\ effective.cards = plan.cards /\ effective.edges = plan.edges
      /\ DOMAIN effective.notes = DOMAIN plan.notes
      /\ AcceptedRunes(db, plan) = DOMAIN plan.runes
  BY PreparedForNew
<1>2. IsFunction(plan.cards)
  BY DEF PlanOK
<1>3. W.cardProv = plan.cards
  <2>1. W.cardProv = Over([c \in DOMAIN plan.cards |-> plan.cards[c]], Empty)
    BY <1>1, NewParts DEF WrittenAs
  <2> QED
    BY <1>2, <2>1, NewParts DEF Over, IsFunction
<1>4. [c \in DOMAIN W.cards |-> Projection(W.cards[c])] = plan.cards
  <2> DEFINE C == WrittenCards(db, plan, effective)
  <2>1. W.cards = Over(C, Empty)
    BY NewParts DEF WrittenAs
  <2>2. DOMAIN C = DOMAIN plan.cards
    BY <1>1 DEF WrittenCards
  <2> HIDE DEF C
  <2>3. DOMAIN W.cards = DOMAIN plan.cards
    BY <2>1, <2>2, NewParts DEF Over
  <2>4. \A c \in DOMAIN plan.cards : Projection(W.cards[c]) = plan.cards[c]
    BY <1>1 DEF Verified
  <2> QED
    BY <1>2, <2>3, <2>4 DEF IsFunction
<1>5. W.edges = plan.edges
  BY <1>1, NewParts DEF WrittenAs
<1>6. {W.notes[i].from : i \in DOMAIN W.notes} = DOMAIN plan.notes
  <2> DEFINE ks == NewNotes(db, effective)
  <2>1. ks = DOMAIN plan.notes
    BY <1>1, NewParts DEF NewNotes
  <2>2. Adds(Empty, W.notes, ks, effective.notes)
    BY NewParts DEF WrittenAs
  <2> HIDE DEF ks
  <2>3. /\ \A i \in DOMAIN W.notes : W.notes[i].from \in ks
        /\ \A k \in ks : \E i \in DOMAIN W.notes : W.notes[i].from = k
    BY <2>2, NewParts DEF Adds
  <2> QED
    BY <2>1, <2>3
<1>7. {W.runes[k].legacy : k \in DOMAIN W.runes} = DOMAIN plan.runes
  <2> DEFINE R == WrittenRunes(db, effective)
             ok == DOMAIN plan.runes
  <2>1. W.runes = Over(R, Empty)
    BY NewParts DEF WrittenAs
  <2>2. RunesWrittenAs(db, plan, effective)
    BY RunesWritten
  <2>3. /\ DOMAIN effective.runes = ok
        /\ DOMAIN R = {effective.runes[l].key : l \in DOMAIN effective.runes}
        /\ \A k \in DOMAIN R : R[k].legacy \in ok
    BY <1>1, <2>2 DEF RunesWrittenAs
  <2> HIDE DEF R
  <2>4. DOMAIN W.runes = DOMAIN R /\ \A k \in DOMAIN R : W.runes[k] = R[k]
    BY <2>1, NewParts DEF Over
  <2>5. \A l \in ok : W.runes[effective.runes[l].key].legacy = l
    BY <2>3 DEF Verified
  <2> QED
    BY <2>3, <2>4, <2>5
<1>8. DOMAIN W.memories = DOMAIN plan.memories
  BY NewParts DEF WrittenAs, Over, WrittenMemories
<1> QED
  BY <1>3, <1>4, <1>5, <1>6, <1>7, <1>8 DEF Complete

-----------------------------------------------------------------------------
(* The invariant of a run among its users. *)

Running == run.pc # "idle"

RunOK ==
  /\ {"pc", "outcome", "overtaken"} \subseteq DOMAIN run
  /\ run.pc \in {"idle", "init", "apply", "verify"}
  /\ Running => /\ {"new", "target", "plan"} \subseteq DOMAIN run
                /\ PlanOK(run.plan)
                /\ run.target \in {"temp", "dest"}
  /\ run.pc = "init" => run.target = "temp"

\* The database a run works on: sound, and complete once it is verified.
TargetOK ==
  /\ Running /\ run.target = "dest" => DbOK(dest)
  /\ run.pc = "apply" /\ run.target = "temp" => temp = NewDatabase
  /\ run.pc = "verify" /\ run.target = "temp" => DbOK(temp) /\ Complete(temp, run.plan)
  /\ Running /\ run.target = "temp" => InitMeanwhile \/ dest = Absent

MigrationInv ==
  /\ natives \in Nat
  /\ dest # Absent => DbOK(dest)
  /\ RunOK
  /\ TargetOK

LEMMA InitOK == Init => MigrationInv
<1> SUFFICES ASSUME Init PROVE MigrationInv
  OBVIOUS
<1>1. run = [pc |-> "idle", outcome |-> "none", overtaken |-> FALSE]
  BY DEF Init, Idle
<1>2. run.pc = "idle" /\ DOMAIN run = {"pc", "outcome", "overtaken"}
  BY <1>1
<1>3. dest # Absent => DbOK(dest)
  BY NewDatabaseOK DEF Init
<1> QED
  BY <1>2, <1>3 DEF Init, MigrationInv, RunOK, TargetOK, Running

LEMMA IdleIs ==
  ASSUME NEW outcome
  PROVE  /\ Idle(outcome).pc = "idle"
         /\ DOMAIN Idle(outcome) = {"pc", "outcome", "overtaken"}
         /\ \A x : /\ [Idle(outcome) EXCEPT !.overtaken = x].pc = "idle"
                   /\ DOMAIN [Idle(outcome) EXCEPT !.overtaken = x]
                        = {"pc", "outcome", "overtaken"}
BY DEF Idle

LEMMA OutcomeIs ==
  ASSUME NEW outcome
  PROVE  /\ Idle(outcome).outcome = outcome
         /\ \A x : [Idle(outcome) EXCEPT !.overtaken = x].outcome = outcome
BY DEF Idle

\* A step that ends the run and leaves a sound destination.
LEMMA RunEnds ==
  ASSUME run'.pc = "idle", {"pc", "outcome", "overtaken"} \subseteq DOMAIN run',
         natives' \in Nat, dest' # Absent => DbOK(dest')
  PROVE  MigrationInv'
BY DEF MigrationInv, RunOK, TargetOK, Running

LEMMA FailsOK ==
  ASSUME MigrationInv, NEW outcome, Fails(outcome)
  PROVE  MigrationInv'
<1>1. run'.pc = "idle" /\ {"pc", "outcome", "overtaken"} \subseteq DOMAIN run'
  BY IdleIs DEF Fails
<1>2. natives' \in Nat /\ (dest' # Absent => DbOK(dest'))
  BY DEF Fails, MigrationInv
<1> QED
  BY <1>1, <1>2, RunEnds

\* What Apply does when it commits.
Commits ==
  /\ run.pc = "apply"
  /\ LET db == At(run.target)
         effective == Prepared(db, run.plan)
         written == Written(db, run.plan, effective)
     IN /\ \A k \in DOMAIN effective.notes : effective.notes[k] # None
        /\ Verified(written, effective)
        /\ Put(written)
        /\ run' = Over([run EXCEPT !.pc = "verify"],
                       [effective |-> effective, todo |-> PublicReads(effective)])
        /\ settled' = IF run.target = "dest" THEN run.plan ELSE settled
        /\ UNCHANGED <<imports, natives>>

LEMMA ApplyIs == ASSUME Apply PROVE Fails("rejected") \/ Commits
<1> DEFINE db == At(run.target)
           effective == Prepared(db, run.plan)
           written == Written(db, run.plan, effective)
           unknown == \E k \in DOMAIN effective.notes : effective.notes[k] = None
<1> HIDE DEF db, effective, written
<1>1. IF unknown \/ Incompatible(db, run.plan) THEN Fails("rejected")
      ELSE IF ~Verified(written, effective) THEN Fails("rejected")
      ELSE /\ LastNote(written.notes) <= MaxNotes
           /\ Put(written)
           /\ run' = Over([run EXCEPT !.pc = "verify"],
                          [effective |-> effective, todo |-> PublicReads(effective)])
           /\ settled' = IF run.target = "dest" THEN run.plan ELSE settled
           /\ UNCHANGED <<imports, natives>>
  BY Zenon DEF Apply, db, effective, written
<1>2. run.pc = "apply"
  BY DEF Apply
<1>3. CASE unknown \/ Incompatible(db, run.plan) \/ ~Verified(written, effective)
  BY <1>1, <1>3
<1>4. CASE ~(unknown \/ Incompatible(db, run.plan) \/ ~Verified(written, effective))
  BY <1>1, <1>2, <1>4, Zenon DEF Commits, db, effective, written
<1> QED
  BY <1>3, <1>4

\* The run's record after a commit.
LEMMA CommittedRun ==
  ASSUME RunOK, run.pc = "apply", NEW effective, NEW todo,
         run' = Over([run EXCEPT !.pc = "verify"], [effective |-> effective, todo |-> todo])
  PROVE  /\ run'.pc = "verify" /\ DOMAIN run \subseteq DOMAIN run'
         /\ run'.target = run.target /\ run'.plan = run.plan /\ run'.new = run.new
         /\ run'.outcome = run.outcome /\ run'.overtaken = run.overtaken
         /\ {"effective", "todo"} \cap DOMAIN run = {} =>
              /\ {"effective", "todo"} \subseteq DOMAIN run'
              /\ run'.effective = effective /\ run'.todo = todo
<1> DEFINE f == [run EXCEPT !.pc = "verify"]
           g == [effective |-> effective, todo |-> todo]
<1>1. /\ f.pc = "verify" /\ DOMAIN f = DOMAIN run
      /\ f.target = run.target /\ f.plan = run.plan /\ f.new = run.new
      /\ f.outcome = run.outcome /\ f.overtaken = run.overtaken
      /\ {"pc", "target", "plan", "new", "outcome", "overtaken"} \subseteq DOMAIN f
  BY DEF RunOK, Running
<1>2. DOMAIN g = {"effective", "todo"} /\ g.effective = effective /\ g.todo = todo
  OBVIOUS
<1>3. run' = Over(f, g)
  OBVIOUS
<1> HIDE DEF f, g
<1> QED
  BY <1>1, <1>2, <1>3 DEF Over

LEMMA CommitsOK ==
  ASSUME MigrationInv, Commits
  PROVE  MigrationInv'
<1> DEFINE db == At(run.target)
           effective == Prepared(db, run.plan)
           W == Written(db, run.plan, effective)
<1>1. /\ run.pc = "apply" /\ Put(W) /\ Verified(W, effective)
      /\ \A k \in DOMAIN effective.notes : effective.notes[k] # None
      /\ natives' = natives
  BY DEF Commits
<1>2. RunOK /\ TargetOK /\ Running /\ natives \in Nat /\ (dest # Absent => DbOK(dest))
  BY <1>1 DEF MigrationInv, Running
<1>3. PlanOK(run.plan) /\ run.target \in {"temp", "dest"}
  BY <1>2 DEF RunOK
<1>4. DbOK(db)
  BY <1>1, <1>2, <1>3, NewDatabaseOK DEF TargetOK, At
<1>5. /\ run'.pc = "verify" /\ DOMAIN run \subseteq DOMAIN run'
      /\ run'.target = run.target /\ run'.plan = run.plan
  BY <1>1, <1>2, CommittedRun DEF Commits
<1>6. /\ DbOK(W) /\ PreparedAs(effective, db, run.plan)
      /\ WrittenAs(W, db, run.plan, effective)
  BY <1>1, <1>3, <1>4, WrittenOK
<1>7. run.target = "temp" => Complete(W, run.plan)
  <2> SUFFICES ASSUME run.target = "temp" PROVE Complete(W, run.plan)
    OBVIOUS
  <2>1. db = NewDatabase
    BY <1>1, <1>2 DEF TargetOK, At
  <2>2. IsDatabase(W)
    BY <1>6 DEF DbOK
  <2> HIDE DEF db, effective, W
  <2> QED
    BY <1>1, <1>3, <1>6, <2>1, <2>2, NewIsComplete
<1> HIDE DEF W
<1>8. /\ temp' = IF run.target = "temp" THEN W ELSE temp
      /\ dest' = IF run.target = "dest" THEN W ELSE dest
  BY <1>1 DEF Put
<1>9. RunOK'
  BY <1>2, <1>3, <1>5 DEF RunOK, Running
<1>10. TargetOK'
  BY <1>2, <1>3, <1>5, <1>6, <1>7, <1>8 DEF TargetOK, Running
<1> QED
  BY <1>1, <1>2, <1>6, <1>8, <1>9, <1>10 DEF MigrationInv

LEMMA StartOK ==
  ASSUME MigrationInv, NEW s \in Exports, Start(s)
  PROVE  MigrationInv'
<1>1. /\ dest' = dest /\ temp' = temp /\ natives' = natives /\ natives \in Nat
      /\ (dest # Absent => DbOK(dest))
  BY DEF Start, MigrationInv
<1>2. CASE PlanOf[s] = MapError
  <2>1. run' = Idle("refused")
    BY <1>2 DEF Start
  <2>2. run'.pc = "idle" /\ {"pc", "outcome", "overtaken"} \subseteq DOMAIN run'
    BY <2>1, IdleIs
  <2> QED
    BY <1>1, <2>2, RunEnds
<1>3. CASE PlanOf[s] # MapError
  <2>1. PlanOK(PlanOf[s])
    BY <1>3, PlansOK
  <2> DEFINE P == PlanOf[s]
             pc == IF dest = Absent THEN "init" ELSE "apply"
             target == IF dest = Absent THEN "temp" ELSE "dest"
             fresh == dest = Absent
  <2>2. run' = [pc |-> pc, outcome |-> "none", overtaken |-> FALSE,
                new |-> fresh, target |-> target, plan |-> P]
    BY <1>3 DEF Start, Target
  <2> HIDE DEF P, fresh
  <2>3. /\ run'.pc = pc /\ run'.target = target /\ run'.plan = P
        /\ DOMAIN run' = {"pc", "outcome", "overtaken", "new", "target", "plan"}
    BY <2>2
  <2>4. RunOK'
    BY <2>1, <2>3 DEF RunOK, Running, P
  <2>5. TargetOK'
    BY <1>1, <2>3 DEF TargetOK, Running
  <2> QED
    BY <1>1, <2>4, <2>5 DEF MigrationInv
<1> QED
  BY <1>2, <1>3

LEMMA ImportStepOK ==
  ASSUME MigrationInv, ImportStep
  PROVE  MigrationInv'
<1>0. /\ RunOK /\ TargetOK /\ natives \in Nat /\ (dest # Absent => DbOK(dest))
  BY DEF MigrationInv
<1>1. CASE \E s \in Exports : Start(s)
  BY <1>1, StartOK
<1>2. CASE InitTemp
  <2>1. /\ run.pc = "init" /\ run.target = "temp" /\ Running
        /\ dest' = dest /\ temp' = NewDatabase /\ natives' = natives
        /\ run' = [run EXCEPT !.pc = "apply"]
    BY <1>0, <1>2 DEF InitTemp, Put, RunOK, Running
  <2>2. /\ run'.pc = "apply" /\ DOMAIN run' = DOMAIN run
        /\ run'.target = run.target /\ run'.plan = run.plan
    BY <1>0, <2>1 DEF RunOK
  <2>3. RunOK'
    BY <1>0, <2>1, <2>2 DEF RunOK, Running
  <2>4. TargetOK'
    BY <1>0, <2>1, <2>2 DEF TargetOK, Running
  <2> QED
    BY <1>0, <2>1, <2>3, <2>4 DEF MigrationInv
<1>3. CASE Apply
  BY <1>3, ApplyIs, FailsOK, CommitsOK
<1>4. CASE VerifyPublic
  <2>1. CASE Fails("unverified")
    BY <2>1, FailsOK
  <2>2. CASE ~Fails("unverified")
    <3>1. /\ run.pc = "verify" /\ run' = [run EXCEPT !.todo = Tail(@)]
          /\ dest' = dest /\ temp' = temp /\ natives' = natives
      BY <1>4, <2>2 DEF VerifyPublic
    <3>2. /\ run'.pc = run.pc /\ DOMAIN run' = DOMAIN run
          /\ run'.target = run.target /\ run'.plan = run.plan
      BY <1>0, <3>1 DEF RunOK, Running
    <3>3. RunOK'
      BY <1>0, <3>2 DEF RunOK, Running
    <3>4. TargetOK'
      BY <1>0, <3>1, <3>2 DEF TargetOK, Running
    <3> QED
      BY <1>0, <3>1, <3>3, <3>4 DEF MigrationInv
  <2> QED
    BY <2>1, <2>2
<1>5. CASE Finish
  <2>1. run'.pc = "idle" /\ {"pc", "outcome", "overtaken"} \subseteq DOMAIN run'
    BY <1>5, IdleIs DEF Finish
  <2>2. natives' = natives /\ (dest' # Absent => DbOK(dest'))
    BY <1>0, <1>5 DEF Finish, TargetOK
  <2> QED
    BY <1>0, <2>1, <2>2, RunEnds
<1>6. CASE IOError
  BY <1>6, FailsOK DEF IOError
<1>7. CASE Crash
  <2>1. run'.pc = "idle" /\ {"pc", "outcome", "overtaken"} \subseteq DOMAIN run'
    BY <1>7, IdleIs DEF Crash
  <2> QED
    BY <1>0, <1>7, <2>1, RunEnds DEF Crash
<1> QED
  BY <1>1, <1>2, <1>3, <1>4, <1>5, <1>6, <1>7 DEF ImportStep

\* What a step of a user leaves as it is.
LEMMA UsesIs ==
  ASSUME RunOK, natives \in Nat, NEW db, Uses(db)
  PROVE  /\ dest' = db /\ temp' = temp /\ natives' = natives + 1 /\ settled' = None
         /\ run'.pc = run.pc /\ DOMAIN run' = DOMAIN run
         /\ Running => /\ run'.target = run.target /\ run'.plan = run.plan
                       /\ run'.new = run.new
<1>1. run' = [run EXCEPT !.overtaken = @ \/ run.pc # "idle"]
  BY DEF Uses
<1>2. /\ run'.pc = run.pc /\ DOMAIN run' = DOMAIN run
      /\ Running => /\ run'.target = run.target /\ run'.plan = run.plan
                    /\ run'.new = run.new
  BY <1>1 DEF RunOK, Running
<1> QED
  BY <1>2 DEF Uses

LEMMA NativeStepUses == ASSUME NativeStep PROVE dest # Absent /\ \E db : Uses(db)
<1>1. ASSUME NEW c \in CardId, NativeUpdate(c) PROVE \E db : Uses(db)
  BY <1>1 DEF NativeUpdate
<1>2. ASSUME NEW c \in CardId, NativeCreate(c) \/ NativeDelete(c) \/ NativeNote(c)
      PROVE  \E db : Uses(db)
  BY <1>2, Zenon DEF NativeCreate, NativeDelete, NativeNote
<1>3. ASSUME NEW p \in CardId, NEW c \in CardId, NativeAddEdge(p, c) PROVE \E db : Uses(db)
  BY <1>3, Zenon DEF NativeAddEdge
<1>4. ASSUME NEW e \in dest.edges, NativeRemoveEdge(e) PROVE \E db : Uses(db)
  BY <1>4, Zenon DEF NativeRemoveEdge
<1>5. ASSUME NEW k \in RuneKey, NativePutRune(k) PROVE \E db : Uses(db)
  BY <1>5, Zenon DEF NativePutRune
<1>6. ASSUME NEW k \in MemoryKey, NativeRemember(k) PROVE \E db : Uses(db)
  BY <1>6, Zenon DEF NativeRemember
<1>7. ASSUME NEW n \in UserStatus, NativeStatus(n, "wip") PROVE \E db : Uses(db)
  BY <1>7, Zenon DEF NativeStatus
<1> QED
  BY <1>1, <1>2, <1>3, <1>4, <1>5, <1>6, <1>7 DEF NativeStep

LEMMA UserStepOK ==
  ASSUME MigrationInv, NativeStep \/ NativeInit
  PROVE  MigrationInv'
<1>0. /\ RunOK /\ TargetOK /\ natives \in Nat /\ (dest # Absent => DbOK(dest))
  BY DEF MigrationInv
<1>1. PICK db : Uses(db)
  BY NativeStepUses DEF NativeInit
<1>2. DbOK(dest')
  <2>1. CASE NativeStep
    BY <1>0, <2>1, NativeStepUses, NativeStepOK
  <2>2. CASE NativeInit
    BY <2>2, NewDatabaseOK DEF NativeInit, Uses
  <2> QED
    BY <2>1, <2>2
<1>3. /\ temp' = temp /\ natives' = natives + 1
      /\ run'.pc = run.pc /\ DOMAIN run' = DOMAIN run
      /\ Running => run'.target = run.target /\ run'.plan = run.plan
  BY <1>0, <1>1, UsesIs
<1>4. Running /\ run.target = "temp" => InitMeanwhile
  <2>1. CASE NativeStep
    BY <1>0, <2>1, NativeStepUses DEF TargetOK
  <2>2. CASE NativeInit
    BY <2>2 DEF NativeInit, Running
  <2> QED
    BY <2>1, <2>2
<1>5. RunOK'
  BY <1>0, <1>3 DEF RunOK, Running
<1>6. TargetOK'
  BY <1>0, <1>2, <1>3, <1>4 DEF TargetOK, Running
<1> QED
  BY <1>0, <1>2, <1>3, <1>5, <1>6 DEF MigrationInv

LEMMA NextOK == ASSUME MigrationInv, [Next]_vars PROVE MigrationInv'
<1>1. CASE ImportStep
  BY <1>1, ImportStepOK
<1>2. CASE NativeInit \/ NativeStep
  BY <1>2, UserStepOK
<1>3. CASE UNCHANGED vars
  BY <1>3 DEF vars, MigrationInv, RunOK, TargetOK, Running
<1> QED
  BY <1>1, <1>2, <1>3 DEF Next

\* A run works on a sound database, and what it has verified of a new one is
\* complete (prepare, apply and verifyTx, sink.go and verify.go).
THEOREM MigrationInvariant == Spec => []MigrationInv
<1>1. Init => MigrationInv
  BY InitOK
<1>2. MigrationInv /\ [Next]_vars => MigrationInv'
  BY NextOK
<1> QED
  BY <1>1, <1>2, PTL DEF Spec

\* Where no id begins with another, the blocking graph has no cycle, whatever
\* was imported and whatever users did meanwhile: the edges there are and those
\* a run adds are searched together (verifyAcyclic), and what users add is
\* refused if it closes a cycle. Where some do, the search can miss one.
THEOREM GraphHasNoCycle == ASSUME Begins = {} PROVE Spec => []GraphStaysAcyclic
<1>1. MigrationInv => GraphStaysAcyclic
  BY DEF MigrationInv, DbOK, GraphOK, GraphStaysAcyclic
<1> QED
  BY <1>1, MigrationInvariant, PTL

\* A comment of the source is one note, a role one rune: the provenance of
\* every imported note is recorded and looked up by the key of the comment,
\* a rune is looked for by the role's id when its key is not there.
THEOREM OneOfEach == Spec => []ImportedOnce
<1>1. MigrationInv => ImportedOnce
  BY DEF MigrationInv, DbOK, NotesOK, RunesOnce, ImportedOnce
<1> QED
  BY <1>1, MigrationInvariant, PTL

-----------------------------------------------------------------------------
(* What the steps of a run do to the destination.                          *)

\* That no database lies at the destination is told from any database.
AbsentIsNoDatabase == \A d : DOMAIN d = DbFields => d # Absent

LEMMA DatabaseIsThere == ASSUME AbsentIsNoDatabase, NEW db, DbOK(db) PROVE db # Absent
BY DEF AbsentIsNoDatabase, DbOK, IsDatabase

\* Two steps of a run change the destination: the commit of one that works in
\* place, and the rename at the end of one that does not.
LEMMA ImportWrites ==
  ASSUME MigrationInv, [Next]_vars, natives' = natives, dest' # dest
  PROVE  \/ Commits /\ run.target = "dest"
         \/ Finish /\ run.target = "temp"
<1>0. RunOK /\ TargetOK /\ natives \in Nat
  BY DEF MigrationInv
<1>1. ASSUME NEW s \in Exports, Start(s) PROVE FALSE
  BY <1>1 DEF Start
<1>2. ASSUME InitTemp PROVE FALSE
  BY <1>0, <1>2 DEF InitTemp, Put, RunOK
<1>3. ASSUME NEW outcome, Fails(outcome) PROVE FALSE
  BY <1>3 DEF Fails
<1>4. ASSUME Apply PROVE Commits /\ run.target = "dest"
  <2>1. Commits
    BY <1>3, <1>4, ApplyIs
  <2>2. \E W : Put(W)
    <3> DEFINE effective == Prepared(At(run.target), run.plan)
    <3>1. Put(Written(At(run.target), run.plan, effective))
      BY <2>1 DEF Commits
    <3> HIDE DEF effective
    <3> QED
      BY <3>1
  <2>3. run.target = "dest"
    BY <2>2 DEF Put
  <2> QED
    BY <2>1, <2>3
<1>5. ASSUME VerifyPublic PROVE FALSE
  BY <1>3, <1>5 DEF VerifyPublic
<1>6. ASSUME Finish PROVE run.target = "temp"
  BY <1>6 DEF Finish
<1>7. ASSUME IOError \/ Crash PROVE FALSE
  BY <1>3, <1>7 DEF IOError, Crash
<1>8. ASSUME NativeInit \/ NativeStep PROVE FALSE
  <2>1. PICK db : Uses(db)
    BY <1>8, NativeStepUses DEF NativeInit
  <2>2. natives' = natives + 1
    BY <1>0, <2>1, UsesIs
  <2> QED
    BY <1>0, <2>2
<1>9. Next
  BY DEF vars
<1> QED
  BY <1>1, <1>2, <1>4, <1>5, <1>6, <1>7, <1>8, <1>9 DEF Next, ImportStep

\* A database appears at the destination only when it holds all of the plan,
\* whatever crashed or failed before: one that is built is out of sight until
\* it is verified (ApplyWithWarnings, sink.go:45-75).
THEOREM NewIsWhole == ASSUME AbsentIsNoDatabase PROVE Spec => AppearsComplete
<1> DEFINE Whole ==
      Importing /\ dest = Absent /\ dest' # Absent =>
        /\ run.pc = "verify" /\ run.todo = <<>>
        /\ dest'.cardProv = run.plan.cards
        /\ [c \in DOMAIN dest'.cards |-> Projection(dest'.cards[c])] = run.plan.cards
        /\ dest'.edges = run.plan.edges
        /\ {dest'.notes[i].from : i \in DOMAIN dest'.notes} = DOMAIN run.plan.notes
        /\ {dest'.runes[k].legacy : k \in DOMAIN dest'.runes} = DOMAIN run.plan.runes
        /\ DOMAIN dest'.memories = DOMAIN run.plan.memories
<1>1. MigrationInv /\ [Next]_vars => [Whole]_vars
  <2> SUFFICES ASSUME MigrationInv, Next, Importing, dest = Absent, dest' # Absent
               PROVE  Whole
    OBVIOUS
  <2>1. TargetOK
    BY DEF MigrationInv
  <2>2. \/ Commits /\ run.target = "dest"
        \/ Finish /\ run.target = "temp"
    BY ImportWrites DEF Importing
  <2>3. ~(Commits /\ run.target = "dest")
    BY <2>1, DatabaseIsThere DEF Commits, TargetOK, Running
  <2>4. Complete(dest', run.plan) /\ run.pc = "verify" /\ run.todo = <<>>
    BY <2>1, <2>2, <2>3 DEF Finish, TargetOK
  <2> QED
    BY <2>4 DEF Complete
<1> QED
  BY <1>1, MigrationInvariant, PTL DEF Spec, AppearsComplete

-----------------------------------------------------------------------------
(* What the destination owns.                                              *)

Kept(db, W) ==
  /\ DOMAIN db.cards \subseteq DOMAIN W.cards
  /\ \A c \in DOMAIN db.cards \ DOMAIN db.cardProv : W.cards[c] = db.cards[c]
  /\ \A e \in db.edges : ~Imported(db, e) => e \in W.edges
  /\ \A i \in DOMAIN db.notes : i \in DOMAIN W.notes /\ W.notes[i] = db.notes[i]
  /\ \A k \in DOMAIN db.runes : db.runes[k].legacy = None => W.runes[k] = db.runes[k]
  /\ \A k \in DOMAIN db.memories :
       db.memories[k].by = Native => W.memories[k] = db.memories[k]

\* The cards of a database that was written: those accepted, and the others as
\* they were; and the same of what is known of their origin.
LEMMA CardsWritten ==
  ASSUME NEW db, NEW plan, NEW effective, PreparedAs(effective, db, plan),
         NEW W, WrittenAs(W, db, plan, effective)
  PROVE  /\ DOMAIN effective.cards = Accepted(db, plan)
         /\ DOMAIN W.cards = Accepted(db, plan) \cup DOMAIN db.cards
         /\ \A c \in Accepted(db, plan) :
              W.cards[c] = WrittenCard(db, plan.cards[c], effective.cards[c], c)
         /\ \A c \in DOMAIN db.cards \ Accepted(db, plan) : W.cards[c] = db.cards[c]
         /\ DOMAIN W.cardProv = Accepted(db, plan) \cup DOMAIN db.cardProv
         /\ \A c \in Accepted(db, plan) : W.cardProv[c] = plan.cards[c]
         /\ \A c \in DOMAIN db.cardProv \ Accepted(db, plan) : W.cardProv[c] = db.cardProv[c]
<1> DEFINE C == WrittenCards(db, plan, effective)
           ok == Accepted(db, plan)
           owners == [c \in DOMAIN effective.cards |-> plan.cards[c]]
<1>1. DOMAIN effective.cards = ok
  BY DEF PreparedAs
<1>2. /\ DOMAIN C = ok /\ DOMAIN owners = ok
      /\ \A c \in ok : C[c] = WrittenCard(db, plan.cards[c], effective.cards[c], c)
      /\ \A c \in ok : owners[c] = plan.cards[c]
  BY <1>1 DEF WrittenCards
<1>3. W.cards = Over(C, db.cards) /\ W.cardProv = Over(owners, db.cardProv)
  BY DEF WrittenAs
<1> HIDE DEF C, ok, owners
<1>4. /\ DOMAIN W.cards = ok \cup DOMAIN db.cards
      /\ \A c \in ok : W.cards[c] = C[c]
      /\ \A c \in DOMAIN db.cards \ ok : W.cards[c] = db.cards[c]
  BY <1>2, <1>3 DEF Over
<1>5. /\ DOMAIN W.cardProv = ok \cup DOMAIN db.cardProv
      /\ \A c \in ok : W.cardProv[c] = owners[c]
      /\ \A c \in DOMAIN db.cardProv \ ok : W.cardProv[c] = db.cardProv[c]
  BY <1>2, <1>3 DEF Over
<1> QED
  BY <1>1, <1>2, <1>4, <1>5 DEF ok

\* The same of memories.
LEMMA MemoriesWritten ==
  ASSUME NEW db, NEW plan, NEW effective, NEW W, WrittenAs(W, db, plan, effective)
  PROVE  /\ DOMAIN W.memories = DOMAIN plan.memories \cup DOMAIN db.memories
         /\ \A k \in DOMAIN plan.memories :
              W.memories[k] = WrittenMemory(db, plan.memories[k], k)
         /\ \A k \in DOMAIN db.memories \ DOMAIN plan.memories :
              W.memories[k] = db.memories[k]
<1> DEFINE M == WrittenMemories(db, plan)
<1>1. /\ DOMAIN M = DOMAIN plan.memories
      /\ \A k \in DOMAIN plan.memories : M[k] = WrittenMemory(db, plan.memories[k], k)
  BY DEF WrittenMemories
<1>2. W.memories = Over(M, db.memories)
  BY DEF WrittenAs
<1> HIDE DEF M
<1> QED
  BY <1>1, <1>2 DEF Over

LEMMA RunesWrittenOver ==
  ASSUME NEW db, NEW plan, NEW effective, NEW W, WrittenAs(W, db, plan, effective)
  PROVE  LET R == WrittenRunes(db, effective)
         IN /\ DOMAIN W.runes = DOMAIN R \cup DOMAIN db.runes
            /\ \A k \in DOMAIN R : W.runes[k] = R[k]
            /\ \A k \in DOMAIN db.runes \ DOMAIN R : W.runes[k] = db.runes[k]
<1> DEFINE R == WrittenRunes(db, effective)
<1>1. W.runes = Over(R, db.runes)
  BY DEF WrittenAs
<1> HIDE DEF R
<1>2. /\ DOMAIN W.runes = DOMAIN R \cup DOMAIN db.runes
      /\ \A k \in DOMAIN R : W.runes[k] = R[k]
      /\ \A k \in DOMAIN db.runes \ DOMAIN R : W.runes[k] = db.runes[k]
  BY <1>1 DEF Over
<1> QED
  BY <1>2 DEF R

LEMMA WrittenKeeps ==
  ASSUME NEW db, DbOK(db), NEW plan, PlanOK(plan),
         NEW effective, PreparedAs(effective, db, plan),
         NEW W, WrittenAs(W, db, plan, effective), Verified(W, effective)
  PROVE  Kept(db, W)
<1> DEFINE ok == Accepted(db, plan)
<1>1. \A c : c \in ok <=> c \in DOMAIN plan.cards /\ ~DestinationOwned(db, c)
  BY DEF Accepted
<1>2. \A c \in DOMAIN db.cards \ DOMAIN db.cardProv : c \notin ok
  BY <1>1 DEF DestinationOwned
<1> HIDE DEF ok
<1>3. /\ DOMAIN db.cards \subseteq DOMAIN W.cards
      /\ \A c \in DOMAIN db.cards \ DOMAIN db.cardProv : W.cards[c] = db.cards[c]
  BY <1>2, CardsWritten DEF ok
<1>4. ASSUME NEW e \in db.edges, ~Imported(db, e) PROVE e \in W.edges
  <2>1. {e[1], e[2]} \subseteq DOMAIN db.cards
    BY DEF DbOK, EdgesOK
  <2>2. PICK x \in {e[1], e[2]} : x \notin DOMAIN db.cardProv
    BY <1>4 DEF Imported
  <2>3. x \notin ok /\ DOMAIN W.cardProv = ok \cup DOMAIN db.cardProv
    BY <1>2, <2>1, <2>2, CardsWritten DEF ok
  <2>4. ~Imported(W, e)
    BY <2>2, <2>3 DEF Imported
  <2> QED
    BY <2>4 DEF WrittenAs
<1>5. \A i \in DOMAIN db.notes : i \in DOMAIN W.notes /\ W.notes[i] = db.notes[i]
  BY DEF WrittenAs, Adds
<1>6. ASSUME NEW k \in DOMAIN db.runes, db.runes[k].legacy = None
      PROVE  W.runes[k] = db.runes[k]
  <2> DEFINE R == WrittenRunes(db, effective)
  <2>1. k \notin DOMAIN R
    <3> SUFFICES ASSUME k \in DOMAIN R PROVE FALSE
      OBVIOUS
    <3>3. RunesWrittenAs(db, plan, effective)
      BY RunesWritten
    <3>4. \E l \in AcceptedRunes(db, plan) : RuneKeyOf(db, plan.runes[l], l) = k
      BY <3>3 DEF RunesWrittenAs
    <3>1. PICK l \in AcceptedRunes(db, plan) : RuneKeyOf(db, plan.runes[l], l) = k
      BY <3>4
    <3>2. l \in DOMAIN plan.runes /\ db.runes[k].legacy = l
      BY <3>1 DEF AcceptedRunes
    <3> QED
      BY <1>6, <3>2 DEF PlanOK
  <2> QED
    BY <2>1, RunesWrittenOver
<1>7. ASSUME NEW k \in DOMAIN db.memories, db.memories[k].by = Native
      PROVE  W.memories[k] = db.memories[k]
  <2>1. CASE k \notin DOMAIN plan.memories
    BY <2>1, MemoriesWritten
  <2>2. CASE k \in DOMAIN plan.memories
    <3> DEFINE old == db.memories[k]
               v == plan.memories[k]
    <3>1. W.memories[k] = WrittenMemory(db, v, k)
      BY <2>2, MemoriesWritten
    <3>2. "by" \in DOMAIN old
      BY DEF DbOK, MemoriesOK, RowFields
    <3>3. WrittenMemory(db, v, k) \in {old, [old EXCEPT !.body = v.body, !.rev = @ + 1]}
      BY DEF WrittenMemory
    <3>4. W.memories[k].by = Native
      <4> HIDE DEF old
      <4>1. old.by = Native
        BY <1>7 DEF old
      <4> QED
        BY <3>1, <3>2, <3>3, <4>1
    <3>5. effective.memories = plan.memories
      BY DEF PreparedAs
    <3>6. W.memories[k].by = v.by
      BY <2>2, <3>5 DEF Verified, MemoryVerified
    <3>7. v.by # Native
      BY <2>2 DEF PlanOK, MemoryOK
    <3> QED
      BY <3>4, <3>6, <3>7
  <2> QED
    BY <2>1, <2>2
<1> QED
  BY <1>3, <1>4, <1>5, <1>6, <1>7 DEF Kept

\* Where a commit in place comes from.
LEMMA CommitWrites ==
  ASSUME MigrationInv, Commits
  PROVE  LET db == At(run.target)
             effective == Prepared(db, run.plan)
             W == Written(db, run.plan, effective)
         IN /\ DbOK(db) /\ PlanOK(run.plan) /\ DbOK(W)
            /\ PreparedAs(effective, db, run.plan)
            /\ WrittenAs(W, db, run.plan, effective)
            /\ Verified(W, effective)
            /\ run.target = "dest" => dest' = W /\ db = dest /\ temp' = temp
            /\ run.target = "temp" => temp' = W /\ dest' = dest
<1> DEFINE db == At(run.target)
           effective == Prepared(db, run.plan)
           W == Written(db, run.plan, effective)
<1>1. /\ run.pc = "apply" /\ Put(W) /\ Verified(W, effective)
      /\ \A k \in DOMAIN effective.notes : effective.notes[k] # None
  BY DEF Commits
<1>2. RunOK /\ TargetOK /\ Running
  BY <1>1 DEF MigrationInv, Running
<1>3. PlanOK(run.plan) /\ run.target \in {"temp", "dest"}
  BY <1>2 DEF RunOK
<1>4. DbOK(db)
  BY <1>1, <1>2, <1>3, NewDatabaseOK DEF TargetOK, At
<1>5. /\ DbOK(W) /\ PreparedAs(effective, db, run.plan)
      /\ WrittenAs(W, db, run.plan, effective)
  BY <1>1, <1>3, <1>4, WrittenOK
<1>6. run.target = "dest" => db = dest
  BY DEF At
<1> HIDE DEF W, effective, db
<1>7. /\ run.target = "dest" => dest' = W /\ temp' = temp
      /\ run.target = "temp" => temp' = W /\ dest' = dest
  BY <1>1, <1>3 DEF Put
<1>8. /\ DbOK(db) /\ PlanOK(run.plan) /\ DbOK(W)
      /\ PreparedAs(effective, db, run.plan)
      /\ WrittenAs(W, db, run.plan, effective)
      /\ Verified(W, effective)
      /\ run.target = "dest" => dest' = W /\ db = dest /\ temp' = temp
      /\ run.target = "temp" => temp' = W /\ dest' = dest
  BY <1>1, <1>3, <1>4, <1>5, <1>6, <1>7
<1> QED
  BY <1>8 DEF W, effective, db

\* An import leaves what is not of its making: cards, their edges and notes,
\* notes anyone wrote, and the runes and memories of others (prepare,
\* sink.go:176-275; reconcileEdges).  The name of the destination is not taken
\* by bdd init while a run builds a new one: such a database would be replaced.
THEOREM OthersKeepTheirs ==
  ASSUME AbsentIsNoDatabase, ~InitMeanwhile PROVE Spec => NativeKept
<1> DEFINE Stays ==
      Importing /\ dest # Absent =>
        /\ dest' # Absent
        /\ DOMAIN dest.cards \subseteq DOMAIN dest'.cards
        /\ \A c \in DOMAIN dest.cards \ DOMAIN dest.cardProv : dest'.cards[c] = dest.cards[c]
        /\ \A e \in dest.edges : ~Imported(dest, e) => e \in dest'.edges
        /\ \A i \in DOMAIN dest.notes : i \in DOMAIN dest'.notes /\ dest'.notes[i] = dest.notes[i]
        /\ \A k \in DOMAIN dest.runes :
             dest.runes[k].legacy = None => dest'.runes[k] = dest.runes[k]
        /\ \A k \in DOMAIN dest.memories :
             dest.memories[k].by = Native => dest'.memories[k] = dest.memories[k]
<1>1. MigrationInv /\ [Next]_vars => [Stays]_vars
  <2> SUFFICES ASSUME MigrationInv, [Next]_vars, Importing, dest # Absent PROVE Stays
    OBVIOUS
  <2>1. TargetOK
    BY DEF MigrationInv
  <2>2. CASE dest' = dest
    BY <2>2
  <2>3. CASE dest' # dest
    <3>1. Commits /\ run.target = "dest"
      <4>1. ~(Finish /\ run.target = "temp")
        BY <2>1 DEF TargetOK, Finish, Running
      <4> QED
        BY <2>3, <4>1, ImportWrites DEF Importing
    <3> DEFINE effective == Prepared(dest, run.plan)
               W == Written(dest, run.plan, effective)
    <3>2. /\ DbOK(dest) /\ PlanOK(run.plan) /\ DbOK(W)
          /\ PreparedAs(effective, dest, run.plan)
          /\ WrittenAs(W, dest, run.plan, effective)
          /\ Verified(W, effective) /\ dest' = W
      BY <3>1, CommitWrites
    <3> HIDE DEF effective, W
    <3>3. Kept(dest, dest')
      BY <3>2, WrittenKeeps
    <3>4. dest' # Absent
      BY <3>2, DatabaseIsThere
    <3> QED
      BY <3>3, <3>4 DEF Kept
  <2> QED
    BY <2>2, <2>3
<1> QED
  BY <1>1, MigrationInvariant, PTL DEF Spec, NativeKept

-----------------------------------------------------------------------------
(* A plan that a database was brought to changes nothing in it.            *)

SettledAt(db, plan) ==
  /\ \A n \in DOMAIN plan.statuses :
       n \in DOMAIN db.statuses /\ db.statuses[n] = plan.statuses[n]
  /\ \A c \in Accepted(db, plan) :
       /\ c \in DOMAIN db.cards /\ c \in DOMAIN db.cardProv
       /\ db.cardProv[c] = plan.cards[c]
       /\ ProjectionMatches(db.cards[c], plan.cards[c])
  /\ \A k \in DOMAIN plan.notes :
       plan.notes[k].card \in Accepted(db, plan) => k \in DOMAIN db.noteProv
  /\ {e \in db.edges : Imported(db, e)}
       = {e \in plan.edges : {e[1], e[2]} \subseteq Accepted(db, plan)}
  /\ \A l \in AcceptedRunes(db, plan) :
       LET k == RuneKeyOf(db, plan.runes[l], l)
       IN /\ k \in DOMAIN db.runes
          /\ db.runes[k].text = plan.runes[l].text
          /\ db.runes[k].enabled = plan.runes[l].enabled
  /\ \A k \in DOMAIN plan.memories :
       k \in DOMAIN db.memories /\ db.memories[k].body = plan.memories[k].body

\* A row that was written is what was to be written.
LEMMA ProjectionOver ==
  ASSUME NEW v, DOMAIN v = CardFields, IsFunction(v), NEW n
  PROVE  Projection(Over(v, [rev |-> n])) = v
<1> DEFINE row == Over(v, [rev |-> n])
<1>1. row.text = v.text /\ row.status = v.status
      /\ row.worktree = v.worktree /\ row.labels = v.labels
  BY DEF Over, CardFields
<1> HIDE DEF row
<1>2. Projection(row) = [text |-> v.text, status |-> v.status,
                         worktree |-> v.worktree, labels |-> v.labels]
  BY <1>1 DEF Projection
<1> QED
  BY <1>2 DEF row, CardFields, IsFunction

\* The worktree of the row stands in for one the source does not name.
LEMMA EffectiveCardIs ==
  ASSUME NEW db, NEW v, DOMAIN v = CardFields, IsFunction(v), NEW c
  PROVE  LET E == EffectiveCard(db, v, c)
         IN /\ DOMAIN E = CardFields /\ IsFunction(E) /\ E.status = v.status
            /\ \A row : Projection(row) = E => ProjectionMatches(row, v)
            /\ c \in DOMAIN db.cards /\ ProjectionMatches(db.cards[c], v) =>
                 Projection(db.cards[c]) = E
<1> DEFINE E == EffectiveCard(db, v, c)
           row == db.cards[c]
<1>1. DOMAIN E = CardFields /\ IsFunction(E) /\ E.status = v.status
  BY DEF EffectiveCard, CardFields, IsFunction
<1>2. /\ E.text = v.text /\ E.status = v.status /\ E.labels = v.labels
      /\ v.worktree # NoWorktree => E.worktree = v.worktree
      /\ v.worktree = NoWorktree /\ c \in DOMAIN db.cards => E.worktree = row.worktree
      /\ v.worktree = NoWorktree /\ c \notin DOMAIN db.cards => E.worktree = NoWorktree
  BY DEF EffectiveCard, CardFields
<1> HIDE DEF E
<1>3. \A r : ProjectionMatches(r, v)
             <=> /\ r.text = v.text /\ r.status = v.status /\ r.labels = v.labels
                 /\ v.worktree # NoWorktree => r.worktree = v.worktree
  <2> SUFFICES ASSUME NEW r
               PROVE  ProjectionMatches(r, v)
                      <=> /\ r.text = v.text /\ r.status = v.status /\ r.labels = v.labels
                          /\ v.worktree # NoWorktree => r.worktree = v.worktree
    OBVIOUS
  <2> DEFINE w == IF v.worktree = NoWorktree THEN NoWorktree ELSE r.worktree
             P == [text |-> r.text, status |-> r.status, worktree |-> w, labels |-> r.labels]
  <2>1. ProjectionMatches(r, v) <=> P = v
    BY DEF ProjectionMatches, Projection
  <2>2. DOMAIN P = CardFields /\ IsFunction(P)
        /\ P.text = r.text /\ P.status = r.status /\ P.worktree = w /\ P.labels = r.labels
    BY DEF CardFields, IsFunction
  <2> HIDE DEF P
  <2>3. P = v <=> /\ r.text = v.text /\ r.status = v.status /\ r.labels = v.labels
                  /\ w = v.worktree
    BY <2>2 DEF CardFields, IsFunction
  <2>4. w = v.worktree <=> (v.worktree # NoWorktree => r.worktree = v.worktree)
    OBVIOUS
  <2> QED
    BY <2>1, <2>3, <2>4
<1>4. \A r : Projection(r) = E
             <=> /\ r.text = E.text /\ r.status = E.status /\ r.labels = E.labels
                 /\ r.worktree = E.worktree
  <2> SUFFICES ASSUME NEW r
               PROVE  Projection(r) = E
                      <=> /\ r.text = E.text /\ r.status = E.status /\ r.labels = E.labels
                          /\ r.worktree = E.worktree
    OBVIOUS
  <2> DEFINE P == Projection(r)
  <2>1. DOMAIN P = CardFields /\ IsFunction(P)
        /\ P.text = r.text /\ P.status = r.status /\ P.worktree = r.worktree
        /\ P.labels = r.labels
    BY DEF Projection, CardFields, IsFunction
  <2> HIDE DEF P
  <2> QED
    BY <1>1, <2>1 DEF CardFields, IsFunction, P
<1>5. /\ \A r : Projection(r) = E => ProjectionMatches(r, v)
      /\ c \in DOMAIN db.cards /\ ProjectionMatches(row, v) => Projection(row) = E
  BY <1>2, <1>3, <1>4
<1> QED
  BY <1>1, <1>5 DEF E

\* Whom the destination's cards belong to does not change.
LEMMA SameAccepted ==
  ASSUME NEW db, NEW plan, NEW effective, PreparedAs(effective, db, plan),
         NEW W, WrittenAs(W, db, plan, effective)
  PROVE  Accepted(W, plan) = Accepted(db, plan)
<1>1. /\ DOMAIN W.cards = Accepted(db, plan) \cup DOMAIN db.cards
      /\ DOMAIN W.cardProv = Accepted(db, plan) \cup DOMAIN db.cardProv
  BY CardsWritten
<1> QED
  BY <1>1 DEF Accepted, DestinationOwned

\* Where the rune of a role is.
LEMMA KeyOfRune ==
  ASSUME NEW db, NEW v, NEW l
  PROVE  LET key == RuneKeyOf(db, v, l)
         IN /\ v.key \in DOMAIN db.runes => key = v.key
            /\ key # v.key => key \in DOMAIN db.runes /\ db.runes[key].legacy = l
            /\ key \notin DOMAIN db.runes =>
                 key = v.key /\ \A k \in DOMAIN db.runes : db.runes[k].legacy # l
<1> DEFINE I == ImportedRunes(db, l)
<1>1. \A k : k \in I <=> k \in DOMAIN db.runes /\ db.runes[k].legacy = l
  BY DEF ImportedRunes
<1> HIDE DEF I
<1>2. I # {} => (CHOOSE k \in I : TRUE) \in I
  OBVIOUS
<1>3. RuneKeyOf(db, v, l)
        = IF v.key \in DOMAIN db.runes \/ I = {} THEN v.key ELSE CHOOSE k \in I : TRUE
  BY DEF RuneKeyOf, I
<1> QED
  BY <1>1, <1>2, <1>3

\* Only the key of a role's rune may differ from the plan.
LEMMA EffectiveRunesAre ==
  ASSUME NEW db, NEW plan, PlanOK(plan), NEW effective, PreparedAs(effective, db, plan)
  PROVE  /\ DOMAIN effective.runes = AcceptedRunes(db, plan)
         /\ AcceptedRunes(db, plan) \subseteq DOMAIN plan.runes
         /\ \A l \in AcceptedRunes(db, plan) :
              /\ effective.runes[l].key = RuneKeyOf(db, plan.runes[l], l)
              /\ effective.runes[l].text = plan.runes[l].text
              /\ effective.runes[l].enabled = plan.runes[l].enabled
<1> DEFINE E == effective.runes
           ok == AcceptedRunes(db, plan)
<1>1. E = [l \in ok |-> [plan.runes[l] EXCEPT !.key = RuneKeyOf(db, plan.runes[l], l)]]
  BY DEF PreparedAs
<1>2. ok \subseteq DOMAIN plan.runes
  BY DEF AcceptedRunes
<1>3. \A l \in DOMAIN plan.runes : DOMAIN plan.runes[l] = {"key", "text", "enabled"}
  BY DEF PlanOK
<1> HIDE DEF E, ok
<1> QED
  BY <1>1, <1>2, <1>3 DEF E, ok

LEMMA RunesSettled ==
  ASSUME NEW db, NEW plan, PlanOK(plan), NEW effective, PreparedAs(effective, db, plan),
         NEW W, RunesOnce(W), WrittenAs(W, db, plan, effective), Verified(W, effective),
         NEW l \in AcceptedRunes(W, plan)
  PROVE  LET k == RuneKeyOf(W, plan.runes[l], l)
         IN /\ k \in DOMAIN W.runes
            /\ W.runes[k].text = plan.runes[l].text
            /\ W.runes[k].enabled = plan.runes[l].enabled
<1> DEFINE v == plan.runes[l]
           was == RuneKeyOf(db, v, l)
           is == RuneKeyOf(W, v, l)
           R == WrittenRunes(db, effective)
           ok == AcceptedRunes(db, plan)
<1>1. l \in DOMAIN plan.runes /\ (is \in DOMAIN W.runes => W.runes[is].legacy = l)
  BY DEF AcceptedRunes
<1>2. l # None
  BY <1>1 DEF PlanOK
<1>3. /\ v.key \in DOMAIN W.runes => is = v.key
      /\ is # v.key => is \in DOMAIN W.runes /\ W.runes[is].legacy = l
      /\ is \notin DOMAIN W.runes =>
           is = v.key /\ \A k \in DOMAIN W.runes : W.runes[k].legacy # l
  BY KeyOfRune
<1>4. /\ v.key \in DOMAIN db.runes => was = v.key
      /\ was # v.key => was \in DOMAIN db.runes /\ db.runes[was].legacy = l
      /\ was \notin DOMAIN db.runes =>
           was = v.key /\ \A k \in DOMAIN db.runes : db.runes[k].legacy # l
  BY KeyOfRune
<1>5. /\ DOMAIN W.runes = DOMAIN R \cup DOMAIN db.runes
      /\ \A k \in DOMAIN R : W.runes[k] = R[k]
      /\ \A k \in DOMAIN db.runes \ DOMAIN R : W.runes[k] = db.runes[k]
  BY RunesWrittenOver
<1>6. /\ DOMAIN effective.runes = ok
      /\ \A m \in ok : /\ effective.runes[m].key = RuneKeyOf(db, plan.runes[m], m)
                       /\ effective.runes[m].text = plan.runes[m].text
                       /\ effective.runes[m].enabled = plan.runes[m].enabled
  BY EffectiveRunesAre
<1>7. /\ DOMAIN R = {effective.runes[m].key : m \in DOMAIN effective.runes}
      /\ \A k \in DOMAIN R : \E m \in ok : RuneKeyOf(db, plan.runes[m], m) = k
                                           /\ R[k].legacy = m
  <2>1. RunesWrittenAs(db, plan, effective)
    BY RunesWritten
  <2> QED
    BY <2>1 DEF RunesWrittenAs
<1>8. \A m \in ok : LET key == RuneKeyOf(db, plan.runes[m], m)
                    IN key \in DOMAIN db.runes => db.runes[key].legacy = m
  BY DEF AcceptedRunes
<1>9. \A m \in DOMAIN effective.runes :
        LET x == effective.runes[m]
            r == W.runes[x.key]
        IN r.text = x.text /\ r.enabled = x.enabled /\ r.legacy = m
  BY DEF Verified
<1>10. \A k, m \in DOMAIN W.runes :
         W.runes[k].legacy = W.runes[m].legacy /\ W.runes[k].legacy # None => k = m
  BY DEF RunesOnce
<1>11. l \in ok <=> (was \in DOMAIN db.runes => db.runes[was].legacy = l)
  BY <1>1 DEF AcceptedRunes
<1> HIDE DEF R, ok, is, was
<1>12. l \in ok
  <2> SUFFICES ASSUME l \notin ok PROVE FALSE
    OBVIOUS
  <2>1. was \in DOMAIN db.runes /\ db.runes[was].legacy # l
    BY <1>11
  <2>2. was = v.key /\ v.key \in DOMAIN W.runes /\ is = v.key
    BY <1>3, <1>4, <1>5, <2>1
  <2>3. W.runes[was].legacy = l
    BY <1>1, <2>2
  <2>4. was \in DOMAIN R
    BY <1>5, <2>1, <2>3
  <2>5. PICK m \in ok : RuneKeyOf(db, plan.runes[m], m) = was /\ R[was].legacy = m
    BY <1>7, <2>4
  <2>6. db.runes[was].legacy = m
    BY <1>8, <2>1, <2>5
  <2> QED
    BY <1>5, <2>1, <2>3, <2>4, <2>5, <2>6
<1>13. /\ was \in DOMAIN W.runes /\ W.runes[was].legacy = l
       /\ W.runes[was].text = v.text /\ W.runes[was].enabled = v.enabled
  <2>1. effective.runes[l].key = was
    BY <1>6, <1>12 DEF was
  <2>2. was \in DOMAIN R
    BY <1>6, <1>7, <1>12, <2>1
  <2> QED
    BY <1>5, <1>6, <1>9, <1>12, <2>1, <2>2
<1>14. is = was
  BY <1>1, <1>2, <1>3, <1>10, <1>13
<1> QED
  BY <1>13, <1>14 DEF is

LEMMA WrittenIsSettled ==
  ASSUME NEW db, NEW plan, PlanOK(plan), NEW effective, PreparedAs(effective, db, plan),
         NEW W, RunesOnce(W), WrittenAs(W, db, plan, effective), Verified(W, effective)
  PROVE  SettledAt(W, plan)
<1> DEFINE ok == Accepted(db, plan)
<1>1. Accepted(W, plan) = ok
  BY SameAccepted
<1>2. \A n \in DOMAIN plan.statuses :
        n \in DOMAIN W.statuses /\ W.statuses[n] = plan.statuses[n]
  BY DEF WrittenAs, Over
<1>3. ASSUME NEW c \in ok
      PROVE  /\ c \in DOMAIN W.cards /\ c \in DOMAIN W.cardProv
             /\ W.cardProv[c] = plan.cards[c]
             /\ ProjectionMatches(W.cards[c], plan.cards[c])
  <2>1. /\ c \in DOMAIN W.cards /\ c \in DOMAIN W.cardProv
        /\ W.cardProv[c] = plan.cards[c] /\ c \in DOMAIN effective.cards
    BY CardsWritten
  <2>2. Projection(W.cards[c]) = effective.cards[c]
    BY <2>1 DEF Verified
  <2>3. effective.cards[c] = EffectiveCard(db, plan.cards[c], c)
    BY DEF PreparedAs
  <2>4. DOMAIN plan.cards[c] = CardFields /\ IsFunction(plan.cards[c])
    BY DEF Accepted, PlanOK, CardOK
  <2>5. \A row : Projection(row) = EffectiveCard(db, plan.cards[c], c) =>
                   ProjectionMatches(row, plan.cards[c])
    BY <2>4, EffectiveCardIs, ZenonT(40)
  <2> QED
    BY <2>1, <2>2, <2>3, <2>5
<1>4. \A k \in DOMAIN plan.notes : plan.notes[k].card \in ok => k \in DOMAIN W.noteProv
  BY DEF WrittenAs, PreparedAs
<1>5. {e \in W.edges : Imported(W, e)} = {e \in plan.edges : {e[1], e[2]} \subseteq ok}
  <2>1. {e \in W.edges : Imported(W, e)} = effective.edges
    BY DEF Verified
  <2>2. effective.edges = {e \in plan.edges : {e[1], e[2]} \subseteq ok}
    BY DEF PreparedAs
  <2> QED
    BY <2>1, <2>2
<1>6. \A l \in AcceptedRunes(W, plan) :
        LET k == RuneKeyOf(W, plan.runes[l], l)
        IN /\ k \in DOMAIN W.runes
           /\ W.runes[k].text = plan.runes[l].text
           /\ W.runes[k].enabled = plan.runes[l].enabled
  BY RunesSettled
<1>7. \A k \in DOMAIN plan.memories :
        k \in DOMAIN W.memories /\ W.memories[k].body = plan.memories[k].body
  <2>1. effective.memories = plan.memories
    BY DEF PreparedAs
  <2>2. DOMAIN plan.memories \subseteq DOMAIN W.memories
    BY MemoriesWritten
  <2> QED
    BY <2>1, <2>2 DEF Verified, MemoryVerified
<1> HIDE DEF ok
<1> QED
  BY <1>1, <1>2, <1>3, <1>4, <1>5, <1>6, <1>7 DEF SettledAt

LEMMA SettledIsFixed ==
  ASSUME NEW db, DbOK(db), NEW plan, PlanOK(plan), SettledAt(db, plan),
         NEW effective, PreparedAs(effective, db, plan),
         NEW W, IsDatabase(W), WrittenAs(W, db, plan, effective)
  PROVE  W = db
<1> DEFINE ok == Accepted(db, plan)
<1>0. IsDatabase(db)
  BY DEF DbOK
<1>1. W.statuses = db.statuses
  <2> DEFINE P == plan.statuses
             S == db.statuses
  <2>1. \A n \in DOMAIN P : n \in DOMAIN S /\ S[n] = P[n]
    BY DEF SettledAt
  <2>2. W.statuses = Over(P, S) /\ IsFunction(S)
    BY <1>0 DEF WrittenAs, IsDatabase
  <2> HIDE DEF P, S
  <2>3. W.statuses = S
    BY <2>1, <2>2 DEF Over, IsFunction
  <2> QED
    BY <2>3 DEF S
<1>2. \A c \in ok : /\ c \in DOMAIN db.cards /\ c \in DOMAIN db.cardProv
                    /\ db.cardProv[c] = plan.cards[c]
                    /\ ProjectionMatches(db.cards[c], plan.cards[c])
  BY DEF SettledAt
<1>11. /\ DOMAIN W.cards = ok \cup DOMAIN db.cards
       /\ \A c \in ok :
            W.cards[c] = WrittenCard(db, plan.cards[c], effective.cards[c], c)
       /\ \A c \in DOMAIN db.cards \ ok : W.cards[c] = db.cards[c]
       /\ DOMAIN W.cardProv = ok \cup DOMAIN db.cardProv
       /\ \A c \in ok : W.cardProv[c] = plan.cards[c]
       /\ \A c \in DOMAIN db.cardProv \ ok : W.cardProv[c] = db.cardProv[c]
  BY CardsWritten
<1>3. W.cards = db.cards
  <2>1. \A c \in ok : WrittenCard(db, plan.cards[c], effective.cards[c], c) = db.cards[c]
    BY <1>2 DEF WrittenCard
  <2> HIDE DEF ok
  <2>2. DOMAIN W.cards = DOMAIN db.cards /\ \A c \in DOMAIN W.cards : W.cards[c] = db.cards[c]
    BY <1>2, <1>11, <2>1
  <2>3. IsFunction(W.cards) /\ IsFunction(db.cards)
    BY <1>0 DEF IsDatabase
  <2> QED
    BY <2>2, <2>3 DEF IsFunction
<1>4. W.cardProv = db.cardProv
  <2> HIDE DEF ok
  <2>1. /\ DOMAIN W.cardProv = DOMAIN db.cardProv
        /\ \A c \in DOMAIN W.cardProv : W.cardProv[c] = db.cardProv[c]
    BY <1>2, <1>11
  <2>2. IsFunction(W.cardProv) /\ IsFunction(db.cardProv)
    BY <1>0 DEF IsDatabase
  <2> QED
    BY <2>1, <2>2 DEF IsFunction
<1>5. W.edges = db.edges
  <2>1. \A e : Imported(W, e) <=> Imported(db, e)
    BY <1>4 DEF Imported
  <2>2. effective.edges = {e \in plan.edges : {e[1], e[2]} \subseteq ok}
    BY DEF PreparedAs
  <2>3. effective.edges = {e \in db.edges : Imported(db, e)}
    BY <2>2 DEF SettledAt
  <2> HIDE DEF ok
  <2> QED
    BY <2>1, <2>3 DEF WrittenAs
<1>6. W.notes = db.notes /\ W.noteProv = db.noteProv
  <2>1. DOMAIN effective.notes \subseteq DOMAIN db.noteProv
    BY DEF PreparedAs, SettledAt
  <2>2. \A k : k \notin NewNotes(db, effective)
    BY <2>1 DEF NewNotes
  <2>3. /\ Adds(db.notes, W.notes, NewNotes(db, effective), effective.notes)
        /\ DOMAIN W.noteProv = DOMAIN db.noteProv \cup DOMAIN effective.notes
        /\ \A k \in DOMAIN db.noteProv : W.noteProv[k] = db.noteProv[k]
    BY DEF WrittenAs
  <2>4. /\ IsFunction(W.notes) /\ IsFunction(db.notes)
        /\ IsFunction(W.noteProv) /\ IsFunction(db.noteProv)
    BY <1>0 DEF IsDatabase
  <2>5. /\ \A i \in DOMAIN db.notes : i \in DOMAIN W.notes /\ W.notes[i] = db.notes[i]
        /\ DOMAIN W.notes \subseteq DOMAIN db.notes
    BY <2>2, <2>3 DEF Adds
  <2>6. W.notes = db.notes
    BY <2>4, <2>5 DEF IsFunction
  <2>7. W.noteProv = db.noteProv
    BY <2>1, <2>3, <2>4 DEF IsFunction
  <2> QED
    BY <2>6, <2>7
<1>7. W.runes = db.runes
  <2> DEFINE R == WrittenRunes(db, effective)
  <2>1. ASSUME NEW k \in DOMAIN R PROVE k \in DOMAIN db.runes /\ R[k] = db.runes[k]
    <3>1. RunesWrittenAs(db, plan, effective)
      BY RunesWritten
    <3>2. \E l \in AcceptedRunes(db, plan) :
            /\ RuneKeyOf(db, plan.runes[l], l) = k
            /\ R[k] = WrittenRune(db, effective.runes[l], l)
      BY <3>1 DEF RunesWrittenAs
    <3> HIDE DEF R
    <3>3. PICK l \in AcceptedRunes(db, plan) :
            /\ RuneKeyOf(db, plan.runes[l], l) = k
            /\ R[k] = WrittenRune(db, effective.runes[l], l)
      BY <3>2
    <3>4. /\ k \in DOMAIN db.runes
          /\ db.runes[k].text = plan.runes[l].text
          /\ db.runes[k].enabled = plan.runes[l].enabled
      BY <3>3 DEF SettledAt
    <3>5. db.runes[k].legacy = l
      BY <3>3, <3>4 DEF AcceptedRunes
    <3>6. /\ effective.runes[l].key = k
          /\ effective.runes[l].text = plan.runes[l].text
          /\ effective.runes[l].enabled = plan.runes[l].enabled
      BY <3>3, EffectiveRunesAre
    <3>7. WrittenRune(db, effective.runes[l], l) = db.runes[k]
      BY <3>4, <3>5, <3>6 DEF WrittenRune
    <3> QED
      BY <3>3, <3>4, <3>7
  <2>2. /\ DOMAIN W.runes = DOMAIN R \cup DOMAIN db.runes
        /\ \A k \in DOMAIN R : W.runes[k] = R[k]
        /\ \A k \in DOMAIN db.runes \ DOMAIN R : W.runes[k] = db.runes[k]
    BY RunesWrittenOver
  <2>3. IsFunction(W.runes) /\ IsFunction(db.runes)
    BY <1>0 DEF IsDatabase
  <2> HIDE DEF R
  <2> QED
    BY <2>1, <2>2, <2>3 DEF IsFunction
<1>8. W.memories = db.memories
  <2>1. \A k \in DOMAIN plan.memories :
          k \in DOMAIN db.memories /\ WrittenMemory(db, plan.memories[k], k) = db.memories[k]
    BY DEF SettledAt, WrittenMemory
  <2>2. IsFunction(W.memories) /\ IsFunction(db.memories)
    BY <1>0 DEF IsDatabase
  <2>3. /\ DOMAIN W.memories = DOMAIN db.memories
        /\ \A k \in DOMAIN W.memories : W.memories[k] = db.memories[k]
    BY <2>1, MemoriesWritten
  <2> QED
    BY <2>2, <2>3 DEF IsFunction
<1>9. DOMAIN W = DbFields /\ DOMAIN db = DbFields /\ IsFunction(W) /\ IsFunction(db)
  BY <1>0 DEF IsDatabase
<1>10. \A f \in DbFields : W[f] = db[f]
  BY <1>1, <1>3, <1>4, <1>5, <1>6, <1>7, <1>8 DEF DbFields
<1> QED
  BY <1>9, <1>10 DEF IsFunction

\* The plan a database was last brought to, and that of a verified new one.
SettledInv ==
  /\ settled # None => SettledAt(dest, settled)
  /\ run.pc = "verify" /\ run.target = "temp" => SettledAt(temp, run.plan)

\* The steps that write no database: they read it, or end the run.
LEMMA QuietImport ==
  ASSUME MigrationInv, ImportStep
  PROVE  \/ Commits
         \/ Finish
         \/ /\ UNCHANGED <<dest, settled>>
            /\ run'.pc # "verify"
         \/ /\ UNCHANGED <<dest, temp, settled>>
            /\ run.pc = "verify"
            /\ run.todo # <<>>
            /\ Found(At(run.target), run.effective, Head(run.todo))
            /\ run' = [run EXCEPT !.todo = Tail(@)]
<1>0. RunOK
  BY DEF MigrationInv
<1>1. ASSUME NEW s \in Exports, Start(s)
      PROVE  UNCHANGED <<dest, settled>> /\ run'.pc # "verify"
  <2>1. UNCHANGED <<dest, settled>>
    BY <1>1 DEF Start
  <2>2. CASE PlanOf[s] = MapError
    BY <1>1, <2>2, IdleIs DEF Start
  <2>3. CASE PlanOf[s] # MapError
    <3> DEFINE P == PlanOf[s]
               fresh == dest = Absent
               pc == IF dest = Absent THEN "init" ELSE "apply"
    <3>1. run' = [pc |-> pc, outcome |-> "none", overtaken |-> FALSE,
                  new |-> fresh, target |-> Target, plan |-> P]
      BY <1>1, <2>3 DEF Start
    <3> HIDE DEF P, fresh
    <3>2. run'.pc = pc
      BY <3>1
    <3> QED
      BY <2>1, <3>2
  <2> QED
    BY <2>1, <2>2, <2>3
<1>2. ASSUME InitTemp PROVE UNCHANGED <<dest, settled>> /\ run'.pc # "verify"
  BY <1>0, <1>2 DEF InitTemp, Put, RunOK
<1>3. ASSUME NEW outcome, Fails(outcome)
      PROVE  UNCHANGED <<dest, settled>> /\ run'.pc # "verify"
  BY <1>3, IdleIs DEF Fails
<1>4. ASSUME Crash PROVE UNCHANGED <<dest, settled>> /\ run'.pc # "verify"
  BY <1>4, IdleIs DEF Crash
<1>5. ASSUME Apply
      PROVE  Commits \/ (UNCHANGED <<dest, settled>> /\ run'.pc # "verify")
  BY <1>3, <1>5, ApplyIs
<1>6. ASSUME VerifyPublic
      PROVE  \/ UNCHANGED <<dest, settled>> /\ run'.pc # "verify"
             \/ /\ UNCHANGED <<dest, temp, settled>>
                /\ run.pc = "verify"
                /\ run.todo # <<>>
                /\ Found(At(run.target), run.effective, Head(run.todo))
                /\ run' = [run EXCEPT !.todo = Tail(@)]
  <2>1. CASE Found(At(run.target), run.effective, Head(run.todo))
    BY <1>6, <2>1 DEF VerifyPublic
  <2>2. CASE ~Found(At(run.target), run.effective, Head(run.todo))
    BY <1>3, <1>6, <2>2 DEF VerifyPublic
  <2> QED
    BY <2>1, <2>2
<1> QED
  BY <1>1, <1>2, <1>3, <1>4, <1>5, <1>6 DEF ImportStep, IOError

LEMMA SettledStep ==
  ASSUME MigrationInv, SettledInv, [Next]_vars
  PROVE  SettledInv'
<1>0. RunOK /\ TargetOK /\ natives \in Nat
  BY DEF MigrationInv
<1>1. CASE Commits
  <2> DEFINE db == At(run.target)
             effective == Prepared(db, run.plan)
             W == Written(db, run.plan, effective)
  <2>1. /\ DbOK(db) /\ PlanOK(run.plan) /\ DbOK(W)
        /\ PreparedAs(effective, db, run.plan)
        /\ WrittenAs(W, db, run.plan, effective)
        /\ Verified(W, effective)
        /\ run.target = "dest" => dest' = W /\ temp' = temp
        /\ run.target = "temp" => temp' = W /\ dest' = dest
    BY <1>1, CommitWrites
  <2>2. /\ run'.pc = "verify" /\ run'.target = run.target /\ run'.plan = run.plan
        /\ run.target \in {"temp", "dest"}
    BY <1>0, <1>1, CommittedRun DEF Commits, RunOK, Running
  <2>3. settled' = IF run.target = "dest" THEN run.plan ELSE settled
    BY <1>1 DEF Commits
  <2> HIDE DEF db, effective, W
  <2>4. RunesOnce(W)
    BY <2>1 DEF DbOK
  <2>5. SettledAt(W, run.plan)
    BY <2>1, <2>4, WrittenIsSettled
  <2> QED
    BY <2>1, <2>2, <2>3, <2>5 DEF SettledInv
<1>2. CASE Finish
  <2>1. run'.pc # "verify"
    BY <1>2, IdleIs DEF Finish
  <2> QED
    BY <1>0, <1>2, <2>1 DEF Finish, SettledInv, RunOK, Running
<1>3. CASE UNCHANGED <<dest, settled>> /\ run'.pc # "verify"
  BY <1>3 DEF SettledInv
<1>4. CASE /\ UNCHANGED <<dest, temp, settled>>
           /\ run.pc = "verify"
           /\ run' = [run EXCEPT !.todo = Tail(@)]
  <2>1. run'.pc = run.pc /\ run'.target = run.target /\ run'.plan = run.plan
    BY <1>0, <1>4 DEF RunOK, Running
  <2> QED
    BY <1>4, <2>1 DEF SettledInv
<1>5. CASE NativeInit \/ NativeStep
  <2>1. PICK db : Uses(db)
    BY <1>5, NativeStepUses DEF NativeInit
  <2>2. /\ temp' = temp /\ settled' = None /\ run'.pc = run.pc
        /\ Running => run'.target = run.target /\ run'.plan = run.plan
    BY <1>0, <2>1, UsesIs
  <2> QED
    BY <2>2 DEF SettledInv, Running
<1>6. CASE UNCHANGED vars
  BY <1>6 DEF vars, SettledInv
<1> QED
  BY <1>1, <1>2, <1>3, <1>4, <1>5, <1>6, QuietImport DEF Next

\* That there is no plan, or no note, is told from any plan and any note.
NoneIsNoRecord ==
  \A v : DOMAIN v \in {PlanFields, {"card", "body"}} => v # None

\* Importing again what a database was last brought to, with nothing done to it
\* since, writes nothing: every comparison that decides on a write (card,
\* note, rune and memory, sink.go:298-543) finds what the last import wrote,
\* retitled roles and worktrees of the destination's own included.
THEOREM RerunIsIdle == ASSUME NoneIsNoRecord PROVE Spec => RerunWritesNothing
<1> DEFINE Idles == Importing /\ run.pc = "apply" /\ run.plan = settled => dest' = dest
<1>1. Init => SettledInv
  BY IdleIs DEF Init, SettledInv
<1>2. MigrationInv /\ SettledInv /\ [Next]_vars => SettledInv'
  BY SettledStep
<1>3. MigrationInv /\ SettledInv /\ [Next]_vars => [Idles]_vars
  <2> SUFFICES ASSUME MigrationInv, SettledInv, [Next]_vars,
                      Importing, run.pc = "apply", run.plan = settled, dest' # dest
               PROVE  FALSE
    OBVIOUS
  <2>1. Commits /\ run.target = "dest"
    BY ImportWrites DEF Importing, Finish
  <2> DEFINE effective == Prepared(dest, run.plan)
             W == Written(dest, run.plan, effective)
  <2>2. /\ DbOK(dest) /\ PlanOK(run.plan) /\ DbOK(W)
        /\ PreparedAs(effective, dest, run.plan)
        /\ WrittenAs(W, dest, run.plan, effective)
        /\ dest' = W
    BY <2>1, CommitWrites
  <2> HIDE DEF effective, W
  <2>3. run.plan # None
    BY <2>2 DEF NoneIsNoRecord, PlanOK
  <2>4. SettledAt(dest, run.plan)
    BY <2>3 DEF SettledInv
  <2>5. IsDatabase(W)
    BY <2>2 DEF DbOK
  <2>6. W = dest
    BY <2>2, <2>4, <2>5, SettledIsFixed
  <2> QED
    BY <2>2, <2>6
<1> QED
  BY <1>1, <1>2, <1>3, MigrationInvariant, PTL DEF Spec, RerunWritesNothing

-----------------------------------------------------------------------------
(* What is written is what verification expects.                           *)

\* Nothing in a database that would make it refuse a plan.
NothingAmiss(db, plan) ==
  /\ \A k \in DOMAIN db.noteProv :
       LET id == db.noteProv[k].id
       IN id \in DOMAIN db.notes /\ db.notes[id].from = k
  /\ \A k \in DOMAIN db.memories \cap DOMAIN plan.memories :
       LET v == plan.memories[k]
       IN db.memories[k].by = v.by /\ v.created \in {None, db.memories[k].created}
  /\ \A e \in db.edges : Imported(db, e)

\* Nor in the plan: no two records of one name that differ.
Undisputed(plan) ==
  plan.disputed.cards = {} /\ plan.disputed.notes = {} /\ plan.disputed.memories = {}

LEMMA NewIsNotAmiss == \A plan : NothingAmiss(NewDatabase, plan)
BY NewParts DEF NothingAmiss

\* Two roles are not brought to one rune.
LEMMA RuneKeysDiffer ==
  ASSUME NEW db, NEW plan, PlanOK(plan),
         NEW l \in AcceptedRunes(db, plan), NEW m \in AcceptedRunes(db, plan),
         RuneKeyOf(db, plan.runes[l], l) = RuneKeyOf(db, plan.runes[m], m)
  PROVE  l = m
<1> DEFINE key == RuneKeyOf(db, plan.runes[l], l)
           other == RuneKeyOf(db, plan.runes[m], m)
<1>1. /\ l \in DOMAIN plan.runes /\ m \in DOMAIN plan.runes
      /\ key \in DOMAIN db.runes => db.runes[key].legacy = l
      /\ other \in DOMAIN db.runes => db.runes[other].legacy = m
  BY DEF AcceptedRunes
<1>2. key \notin DOMAIN db.runes => key = plan.runes[l].key
  BY KeyOfRune
<1>3. other \notin DOMAIN db.runes => other = plan.runes[m].key
  BY KeyOfRune
<1>4. \A x, y \in DOMAIN plan.runes : plan.runes[x].key = plan.runes[y].key => x = y
  BY DEF PlanOK
<1>5. key = other
  OBVIOUS
<1> HIDE DEF key, other
<1> QED
  BY <1>1, <1>2, <1>3, <1>4, <1>5

LEMMA EffectiveNotesAre ==
  ASSUME NEW db, NEW plan, PlanOK(plan), NEW effective, PreparedAs(effective, db, plan),
         NEW k \in DOMAIN effective.notes
  PROVE  /\ k \in DOMAIN plan.notes
         /\ DOMAIN plan.notes[k] = {"card", "body"}
         /\ effective.notes[k] = EffectiveNote(db, plan.notes[k], k)
BY DEF PreparedAs, PlanOK, NoteOK

LEMMA NothingUnknown ==
  ASSUME NoneIsNoRecord, NEW db, NEW plan, PlanOK(plan), NothingAmiss(db, plan),
         NEW effective, PreparedAs(effective, db, plan), NEW k \in DOMAIN effective.notes
  PROVE  effective.notes[k] # None
<1>1. /\ effective.notes[k] = EffectiveNote(db, plan.notes[k], k)
      /\ DOMAIN plan.notes[k] = {"card", "body"}
  BY EffectiveNotesAre
<1>2. k \in DOMAIN db.noteProv => db.noteProv[k].id \in DOMAIN db.notes
  BY DEF NothingAmiss
<1>3. DOMAIN effective.notes[k] = {"card", "body"}
  BY <1>1, <1>2 DEF EffectiveNote
<1> QED
  BY <1>3 DEF NoneIsNoRecord

LEMMA CardsVerified ==
  ASSUME NEW db, NEW plan, PlanOK(plan), NEW effective, PreparedAs(effective, db, plan),
         NEW W, WrittenAs(W, db, plan, effective), NEW c \in DOMAIN effective.cards
  PROVE  Projection(W.cards[c]) = effective.cards[c]
<1> DEFINE v == plan.cards[c]
           E == EffectiveCard(db, v, c)
<1>1. /\ c \in Accepted(db, plan) /\ effective.cards[c] = E
      /\ W.cards[c] = WrittenCard(db, v, effective.cards[c], c)
  <2>1. /\ DOMAIN effective.cards = Accepted(db, plan)
        /\ effective.cards[c] = EffectiveCard(db, plan.cards[c], c)
    BY DEF PreparedAs
  <2>2. W.cards[c] = WrittenCard(db, plan.cards[c], effective.cards[c], c)
    BY CardsWritten
  <2> QED
    BY <2>1, <2>2
<1>2. DOMAIN v = CardFields /\ IsFunction(v)
  BY <1>1 DEF Accepted, PlanOK, CardOK
<1>3. /\ DOMAIN E = CardFields /\ IsFunction(E)
      /\ c \in DOMAIN db.cards /\ ProjectionMatches(db.cards[c], v) =>
           Projection(db.cards[c]) = E
  BY <1>2, EffectiveCardIs
<1> HIDE DEF E, v
<1>4. \/ \E n : W.cards[c] = Over(E, [rev |-> n])
      \/ /\ c \in DOMAIN db.cards /\ ProjectionMatches(db.cards[c], v)
         /\ W.cards[c] = db.cards[c]
  BY <1>1 DEF WrittenCard
<1>5. CASE \E n : W.cards[c] = Over(E, [rev |-> n])
  BY <1>1, <1>3, <1>5, ProjectionOver
<1>6. CASE /\ c \in DOMAIN db.cards /\ ProjectionMatches(db.cards[c], v)
           /\ W.cards[c] = db.cards[c]
  BY <1>1, <1>3, <1>6
<1> QED
  BY <1>4, <1>5, <1>6

LEMMA NotesVerified ==
  ASSUME NEW db, DbOK(db), NEW plan, PlanOK(plan), NothingAmiss(db, plan),
         NEW effective, PreparedAs(effective, db, plan),
         NEW W, WrittenAs(W, db, plan, effective), NEW k \in DOMAIN effective.notes
  PROVE  NoteVerified(W, effective.notes[k], k)
<1> DEFINE v == effective.notes[k]
           id == W.noteProv[k].id
           ks == NewNotes(db, effective)
<1>1. /\ DOMAIN plan.notes[k] = {"card", "body"}
      /\ v = EffectiveNote(db, plan.notes[k], k)
  <2> HIDE DEF v, id, ks
  <2>1. /\ k \in DOMAIN plan.notes
        /\ DOMAIN plan.notes[k] = {"card", "body"}
        /\ effective.notes[k] = EffectiveNote(db, plan.notes[k], k)
    BY DEF PreparedAs, PlanOK, NoteOK
  <2> USE DEF v
  <2> QED
    BY <2>1
<1>2. k \in DOMAIN W.noteProv
  BY DEF WrittenAs
<1>3. Adds(db.notes, W.notes, ks, effective.notes)
  BY DEF WrittenAs
<1>4. CASE k \in ks
  <2>1. /\ id \in DOMAIN W.notes \ DOMAIN db.notes /\ W.notes[id].from = k
        /\ k \notin DOMAIN db.noteProv
    BY <1>4 DEF WrittenAs, NewNotes
  <2> HIDE DEF id, ks, v
  <2>2. W.notes[id] = Over(v, [from |-> k])
    BY <1>3, <2>1 DEF Adds, v
  <2>3. v = plan.notes[k]
    BY <1>1, <2>1 DEF EffectiveNote
  <2>4. DOMAIN v = {"card", "body"}
    BY <1>1, <2>3
  <2>5. W.notes[id].card = v.card /\ W.notes[id].body = v.body
    BY <2>2, <2>4 DEF Over
  <2> QED
    BY <1>2, <2>1, <2>5 DEF NoteVerified, v, id
<1>5. CASE k \notin ks
  <2> DEFINE was == db.noteProv[k]
  <2>1. k \in DOMAIN db.noteProv /\ W.noteProv[k] = was
    BY <1>5 DEF NewNotes, WrittenAs
  <2>2. was.id \in DOMAIN db.notes /\ db.notes[was.id].from = k
    BY <2>1 DEF NothingAmiss
  <2>3. db.notes[was.id].card = was.hash.card /\ db.notes[was.id].body = was.hash.body
    BY <2>1, <2>2 DEF DbOK, NotesOK, NotesOfSource
  <2>4. was.id \in DOMAIN W.notes /\ W.notes[was.id] = db.notes[was.id]
    BY <1>3, <2>2 DEF Adds
  <2>5. db.notes[was.id].card = v.card /\ db.notes[was.id].body = v.body
    BY <1>1, <2>1, <2>2, <2>3 DEF EffectiveNote
  <2> QED
    BY <1>2, <2>1, <2>4, <2>5 DEF NoteVerified
<1> QED
  BY <1>4, <1>5

LEMMA RunesVerified ==
  ASSUME NEW db, NEW plan, PlanOK(plan), NEW effective, PreparedAs(effective, db, plan),
         NEW W, WrittenAs(W, db, plan, effective), NEW l \in DOMAIN effective.runes
  PROVE  LET v == effective.runes[l]
             r == W.runes[v.key]
         IN /\ v.key \in DOMAIN W.runes
            /\ r.text = v.text /\ r.enabled = v.enabled /\ r.legacy = l
<1> DEFINE v == effective.runes[l]
           R == WrittenRunes(db, effective)
           ok == AcceptedRunes(db, plan)
<1>1. RunesWrittenAs(db, plan, effective)
  BY RunesWritten
<1>2. v.key \in DOMAIN R
  BY <1>1 DEF RunesWrittenAs
<1>3. \E m \in ok : /\ RuneKeyOf(db, plan.runes[m], m) = v.key
                    /\ R[v.key] = WrittenRune(db, effective.runes[m], m)
  <2> HIDE DEF v
  <2> QED
    BY <1>1, <1>2 DEF RunesWrittenAs
<1>4. l \in ok /\ v.key = RuneKeyOf(db, plan.runes[l], l)
  BY EffectiveRunesAre
<1>5. PICK m \in ok : /\ RuneKeyOf(db, plan.runes[m], m) = v.key
                      /\ R[v.key] = WrittenRune(db, effective.runes[m], m)
  BY <1>3
<1>6. m = l
  BY <1>4, <1>5, RuneKeysDiffer
<1>7. v.key \in DOMAIN W.runes /\ W.runes[v.key] = WrittenRune(db, v, l)
  <2>1. DOMAIN W.runes = DOMAIN R \cup DOMAIN db.runes /\ \A k \in DOMAIN R : W.runes[k] = R[k]
    BY RunesWrittenOver
  <2> HIDE DEF R
  <2> QED
    BY <1>2, <1>5, <1>6, <2>1
<1> HIDE DEF v
<1>8. LET r == WrittenRune(db, v, l)
      IN r.text = v.text /\ r.enabled = v.enabled /\ r.legacy = l
  BY DEF WrittenRune, Over
<1> QED
  BY <1>7, <1>8 DEF v

LEMMA MemoriesVerified ==
  ASSUME NEW db, DbOK(db), NEW plan, PlanOK(plan), NothingAmiss(db, plan),
         NEW effective, PreparedAs(effective, db, plan),
         NEW W, WrittenAs(W, db, plan, effective), NEW k \in DOMAIN plan.memories
  PROVE  MemoryVerified(W, plan.memories[k], k)
<1> DEFINE v == plan.memories[k]
           old == db.memories[k]
           row == W.memories[k]
<1>1. row = WrittenMemory(db, v, k)
  BY MemoriesWritten
<1>2. DOMAIN v = {"body", "by", "created"}
  BY DEF PlanOK, MemoryOK
<1>3. k \in DOMAIN db.memories =>
        /\ old.by = v.by /\ v.created \in {None, old.created}
        /\ DOMAIN old = RowFields
  BY DEF NothingAmiss, DbOK, MemoriesOK
<1>6. k \in DOMAIN db.memories =>
        \/ row = old /\ old.body = v.body
        \/ row = [old EXCEPT !.body = v.body, !.rev = @ + 1]
  BY <1>1 DEF WrittenMemory
<1> HIDE DEF v, old, row
<1>4. CASE k \notin DOMAIN db.memories
  <2>1. row.body = v.body /\ row.by = v.by /\ (v.created = None \/ row.created = v.created)
    BY <1>1, <1>2, <1>4, MemoryRow
  <2> QED
    BY <2>1 DEF MemoryVerified, v, row
<1>5. CASE k \in DOMAIN db.memories
  <2>1. row.body = v.body /\ row.by = old.by /\ row.created = old.created
    BY <1>3, <1>5, <1>6 DEF RowFields
  <2> QED
    BY <1>3, <1>5, <2>1 DEF MemoryVerified, v, row
<1> QED
  BY <1>4, <1>5

LEMMA EdgesVerified ==
  ASSUME NEW db, NEW plan, PlanOK(plan), NothingAmiss(db, plan),
         NEW effective, PreparedAs(effective, db, plan),
         NEW W, WrittenAs(W, db, plan, effective)
  PROVE  /\ {e \in W.edges : Imported(W, e)} = effective.edges
         /\ ~CycleFound(W.edges)
<1> DEFINE ok == Accepted(db, plan)
<1>1. DOMAIN W.cardProv = ok \cup DOMAIN db.cardProv
  <2>1. DOMAIN W.cardProv = Accepted(db, plan) \cup DOMAIN db.cardProv
    BY CardsWritten
  <2> QED
    BY <2>1
<1> HIDE DEF ok
<1>2. \A e \in effective.edges : {e[1], e[2]} \subseteq ok
  BY DEF PreparedAs, ok
<1>3. \A e \in db.edges : Imported(W, e)
  BY <1>1 DEF NothingAmiss, Imported
<1>4. W.edges = effective.edges
  BY <1>3 DEF WrittenAs
<1>5. \A e \in W.edges : Imported(W, e)
  BY <1>1, <1>2, <1>4 DEF Imported
<1> DEFINE A == effective.edges
           P == plan.edges
<1>6. A \in SUBSET P /\ Acyclic(P) /\ IsFiniteSet(P)
  BY DEF PreparedAs, PlanOK
<1> HIDE DEF A, P
<1>7. Acyclic(A)
  BY <1>6, AcyclicPart
<1>8. IsFiniteSet(A)
  BY <1>6, FS_Subset
<1>9. ~CycleFound(A)
  BY <1>7, <1>8, NoneIsFound
<1> QED
  BY <1>4, <1>5, <1>9 DEF A

LEMMA NothingAmissVerified ==
  ASSUME NEW db, DbOK(db), NEW plan, PlanOK(plan), NothingAmiss(db, plan), Undisputed(plan),
         NEW effective, PreparedAs(effective, db, plan),
         NEW W, WrittenAs(W, db, plan, effective)
  PROVE  Verified(W, effective)
<1>1. \A c \in DOMAIN effective.cards : Projection(W.cards[c]) = effective.cards[c]
  BY CardsVerified
<1>2. \A k \in DOMAIN effective.notes : NoteVerified(W, effective.notes[k], k)
  BY NotesVerified
<1>3. ASSUME NEW l \in DOMAIN effective.runes
      PROVE  LET v == effective.runes[l]
                 r == W.runes[v.key]
             IN <<r.text, r.enabled, r.legacy>> = <<v.text, v.enabled, l>>
  <2>1. LET v == effective.runes[l]
            r == W.runes[v.key]
        IN /\ v.key \in DOMAIN W.runes
           /\ r.text = v.text /\ r.enabled = v.enabled /\ r.legacy = l
    BY RunesVerified
  <2> QED
    BY <2>1
<1>4. ASSUME NEW k \in DOMAIN effective.memories
      PROVE  MemoryVerified(W, effective.memories[k], k)
  <2>1. effective.memories = plan.memories
    BY DEF PreparedAs
  <2>2. k \in DOMAIN plan.memories
    BY <2>1
  <2>3. MemoryVerified(W, plan.memories[k], k)
    BY <2>2, MemoriesVerified
  <2> QED
    BY <2>1, <2>3
<1>5. /\ {e \in W.edges : Imported(W, e)} = effective.edges
      /\ ~CycleFound(W.edges)
  BY EdgesVerified
<1>6. /\ effective.disputed.cards \cap DOMAIN effective.cards = {}
      /\ effective.disputed.notes \cap DOMAIN effective.notes = {}
      /\ effective.disputed.memories = {}
  BY DEF PreparedAs, Undisputed
<1> QED
  BY <1>1, <1>2, <1>3, <1>4, <1>5, <1>6, Zenon DEF Verified, FindsCycle

\* An import is not refused without a cause in the database or in the plan.
LEMMA NotRefused ==
  ASSUME NoneIsNoRecord, NEW db, DbOK(db), NEW plan, PlanOK(plan), NothingAmiss(db, plan),
         Undisputed(plan)
  PROVE  LET effective == Prepared(db, plan)
         IN /\ \A k \in DOMAIN effective.notes : effective.notes[k] # None
            /\ Verified(Written(db, plan, effective), effective)
<1> DEFINE effective == Prepared(db, plan)
           W == Written(db, plan, effective)
<1>1. PreparedAs(effective, db, plan)
  BY PreparedIs
<1> HIDE DEF effective
<1>2. \A k \in DOMAIN effective.notes : effective.notes[k] # None
  BY <1>1, NothingUnknown
<1>3. /\ IsFiniteSet(DOMAIN effective.notes)
      /\ \A k \in DOMAIN effective.notes : DOMAIN effective.notes[k] = {"card", "body"}
  BY <1>1, <1>2, EffectiveNotesOK
<1>4. IsDatabase(db) /\ NotesOK(db)
  BY DEF DbOK
<1>5. PICK n \in Nat : DOMAIN db.notes \subseteq 1..n
  BY <1>4 DEF NotesOK
<1>6. WrittenAs(W, db, plan, effective)
  BY <1>3, <1>4, <1>5, WrittenIs
<1> HIDE DEF W
<1>7. Verified(W, effective)
  BY <1>1, <1>6, NothingAmissVerified
<1> QED
  BY <1>2, <1>7 DEF W, effective

\* The run's record: it has no outcome yet, and is new if it builds a database.
NamedOK ==
  /\ Running => run.outcome = "none" /\ run.new = (run.target = "temp")
  /\ run.pc \in {"init", "apply"} => {"effective", "todo"} \cap DOMAIN run = {}

LEMMA NamedStep ==
  ASSUME MigrationInv, NamedOK, [Next]_vars
  PROVE  NamedOK'
<1>0. RunOK /\ natives \in Nat
  BY DEF MigrationInv
<1>1. ASSUME NEW s \in Exports, Start(s) PROVE NamedOK'
  <2>1. CASE PlanOf[s] = MapError
    <3>1. run'.pc = "idle"
      BY <1>1, <2>1, IdleIs DEF Start
    <3> QED
      BY <3>1 DEF NamedOK, Running
  <2>2. CASE PlanOf[s] # MapError
    <3> DEFINE P == PlanOf[s]
               fresh == dest = Absent
               pc == IF dest = Absent THEN "init" ELSE "apply"
               target == IF dest = Absent THEN "temp" ELSE "dest"
    <3>1. run' = [pc |-> pc, outcome |-> "none", overtaken |-> FALSE,
                  new |-> fresh, target |-> target, plan |-> P]
      BY <1>1, <2>2 DEF Start, Target
    <3> HIDE DEF P, pc, target, fresh
    <3>2. /\ run'.outcome = "none" /\ run'.new = fresh /\ run'.target = target
          /\ DOMAIN run' = {"pc", "outcome", "overtaken", "new", "target", "plan"}
      BY <3>1
    <3>3. fresh = (target = "temp")
      BY DEF fresh, target
    <3> QED
      BY <3>2, <3>3 DEF NamedOK
  <2> QED
    BY <2>1, <2>2
<1>2. ASSUME InitTemp PROVE NamedOK'
  <2>1. run.pc = "init" /\ Running /\ run' = [run EXCEPT !.pc = "apply"]
    BY <1>2 DEF InitTemp, Running
  <2>2. /\ run'.outcome = run.outcome /\ run'.new = run.new /\ run'.target = run.target
        /\ DOMAIN run' = DOMAIN run
    BY <1>0, <2>1 DEF RunOK
  <2> QED
    BY <2>1, <2>2 DEF NamedOK
<1>3. ASSUME run'.pc = "idle" PROVE NamedOK'
  BY <1>3 DEF NamedOK, Running
<1>4. ASSUME NEW outcome, Fails(outcome) PROVE NamedOK'
  <2>1. run'.pc = "idle"
    BY <1>4, IdleIs DEF Fails
  <2> QED
    BY <1>3, <2>1
<1>5. ASSUME Commits PROVE NamedOK'
  <2>1. /\ run'.outcome = run.outcome /\ run'.new = run.new /\ run'.target = run.target
        /\ run'.pc = "verify"
    BY <1>0, <1>5, CommittedRun DEF Commits
  <2>2. Running
    BY <1>5 DEF Commits, Running
  <2> QED
    BY <2>1, <2>2 DEF NamedOK
<1>6. ASSUME VerifyPublic PROVE NamedOK'
  <2>1. CASE Found(At(run.target), run.effective, Head(run.todo))
    <3>1. run.pc = "verify" /\ Running /\ run' = [run EXCEPT !.todo = Tail(@)]
      BY <1>6, <2>1 DEF VerifyPublic, Running
    <3>2. /\ run'.outcome = run.outcome /\ run'.new = run.new /\ run'.target = run.target
          /\ run'.pc = run.pc
      BY <1>0, <3>1 DEF RunOK
    <3> QED
      BY <3>1, <3>2 DEF NamedOK
  <2>2. CASE ~Found(At(run.target), run.effective, Head(run.todo))
    BY <1>4, <1>6, <2>2 DEF VerifyPublic
  <2> QED
    BY <2>1, <2>2
<1>7. ASSUME Finish \/ Crash PROVE NamedOK'
  <2>1. run'.pc = "idle"
    BY <1>7, IdleIs DEF Finish, Crash
  <2> QED
    BY <1>3, <2>1
<1>8. ASSUME NativeInit \/ NativeStep PROVE NamedOK'
  <2>1. PICK db : Uses(db)
    BY <1>8, NativeStepUses DEF NativeInit
  <2>2. run' = [run EXCEPT !.overtaken = @ \/ run.pc # "idle"]
    BY <2>1 DEF Uses
  <2>3. /\ run'.pc = run.pc /\ run'.outcome = run.outcome /\ DOMAIN run' = DOMAIN run
        /\ Running => run'.new = run.new /\ run'.target = run.target
    BY <1>0, <2>2 DEF RunOK
  <2> QED
    BY <2>3 DEF NamedOK, Running
<1>9. ASSUME UNCHANGED vars PROVE NamedOK'
  BY <1>9 DEF vars, NamedOK, Running
<1> QED
  BY <1>1, <1>2, <1>4, <1>5, <1>6, <1>7, <1>8, <1>9, ApplyIs DEF Next, ImportStep, IOError

\* What the library can be asked to read of what was prepared.
PublicRead(E) ==
  ({"card", "ready"} \X DOMAIN E.cards) \cup ({"note"} \X DOMAIN E.notes)
    \cup ({"rune"} \X DOMAIN E.runes) \cup ({"memory"} \X DOMAIN E.memories)

\* A database that holds what was prepared.
Holds(db, E) ==
  /\ Verified(db, E)
  /\ \A n \in DOMAIN E.statuses : n \in DOMAIN db.statuses /\ db.statuses[n] = E.statuses[n]
  /\ \A c \in DOMAIN E.cards :
       /\ c \in DOMAIN db.cards
       /\ E.cards[c].status \in BuiltInStatuses \cup DOMAIN E.statuses
  /\ \A e \in E.edges : {e[1], e[2]} \subseteq DOMAIN E.cards
  /\ \A l \in DOMAIN E.runes : E.runes[l].key \in DOMAIN db.runes
  /\ DOMAIN E.memories \subseteq DOMAIN db.memories

\* What remains to be read is of what was prepared, and it is there, unless
\* somebody wrote meanwhile.
ReadsOK ==
  run.pc = "verify" =>
    /\ {"effective", "todo"} \subseteq DOMAIN run
    /\ run.todo \in Seq(PublicRead(run.effective))
    /\ ~run.overtaken => Holds(At(run.target), run.effective)

LEMMA PublicReadsAre ==
  ASSUME NEW E, IsFiniteSet(DOMAIN E.cards), IsFiniteSet(DOMAIN E.notes),
         IsFiniteSet(DOMAIN E.runes), IsFiniteSet(DOMAIN E.memories)
  PROVE  PublicReads(E) \in Seq(PublicRead(E))
<1> DEFINE over(S, kind) == SetToSeq({<<kind, x>> : x \in S})
           cards == SetToSeq(DOMAIN E.cards)
           first == [i \in 1..(2 * Len(cards)) |->
                       <<IF i % 2 = 1 THEN "card" ELSE "ready", cards[(i + 1) \div 2]>>]
           R == PublicRead(E)
<1>1. ASSUME NEW S, IsFiniteSet(S), NEW kind, {kind} \X S \subseteq R
      PROVE  over(S, kind) \in Seq(R)
  <2> DEFINE T == {<<kind, x>> : x \in S}
             f == [x \in S |-> <<kind, x>>]
  <2>1. T = {f[x] : x \in DOMAIN f} /\ DOMAIN f = S
    OBVIOUS
  <2>2. T \subseteq R
    BY <1>1
  <2> HIDE DEF T, f, R
  <2>3. IsFiniteSet(T)
    BY <1>1, <2>1, FiniteRange
  <2>4. SetToSeq(T) \in Seq(T)
    BY <2>3, Listed
  <2>5. SetToSeq(T) \in Seq(R)
    <3> DEFINE s == SetToSeq(T)
    <3> HIDE DEF s
    <3>1. s \in Seq(T) => s \in Seq(R)
      BY <2>2
    <3> QED
      BY <2>4, <3>1 DEF s
  <2> QED
    BY <2>5 DEF T
<1>2. /\ {"note"} \X DOMAIN E.notes \subseteq R /\ {"rune"} \X DOMAIN E.runes \subseteq R
      /\ {"memory"} \X DOMAIN E.memories \subseteq R
      /\ {"card", "ready"} \X DOMAIN E.cards \subseteq R
  BY DEF PublicRead
<1>3. cards \in Seq(DOMAIN E.cards)
  BY Listed
<1> HIDE DEF cards
<1>4. first \in Seq(R)
  <2>1. Len(cards) \in Nat
    BY <1>3
  <2>2. ASSUME NEW i \in 1..(2 * Len(cards))
        PROVE  <<IF i % 2 = 1 THEN "card" ELSE "ready", cards[(i + 1) \div 2]>> \in R
    <3>1. (i + 1) \div 2 \in 1..Len(cards)
      BY <2>1
    <3>2. cards[(i + 1) \div 2] \in DOMAIN E.cards
      BY <1>3, <3>1
    <3> QED
      BY <1>2, <3>2
  <2> HIDE DEF R
  <2>3. first \in [1..(2 * Len(cards)) -> R]
    BY <2>2
  <2>4. 2 * Len(cards) \in Nat
    BY <2>1
  <2> DEFINE n == 2 * Len(cards)
  <2> HIDE DEF n, first
  <2> QED
    BY <2>3, <2>4 DEF n
<1>5. /\ over(DOMAIN E.notes, "note") \in Seq(R)
      /\ over(DOMAIN E.runes, "rune") \in Seq(R)
      /\ over(DOMAIN E.memories, "memory") \in Seq(R)
  <2> HIDE DEF over, R
  <2> QED
    BY <1>1, <1>2
<1>6. PublicReads(E) = first \o over(DOMAIN E.notes, "note") \o over(DOMAIN E.runes, "rune")
                        \o over(DOMAIN E.memories, "memory")
  BY DEF PublicReads, first, over, cards
<1> HIDE DEF first, over, R
<1> QED
  BY <1>4, <1>5, <1>6 DEF R

LEMMA PreparedFinite ==
  ASSUME NEW db, NEW plan, PlanOK(plan), NEW effective, PreparedAs(effective, db, plan)
  PROVE  /\ IsFiniteSet(DOMAIN effective.cards) /\ IsFiniteSet(DOMAIN effective.notes)
         /\ IsFiniteSet(DOMAIN effective.runes) /\ IsFiniteSet(DOMAIN effective.memories)
<1> DEFINE C == DOMAIN effective.cards
           N == DOMAIN effective.notes
           R == DOMAIN effective.runes
           M == DOMAIN effective.memories
           PC == DOMAIN plan.cards
           PN == DOMAIN plan.notes
           PR == DOMAIN plan.runes
<1>1. C \in SUBSET PC /\ N \in SUBSET PN /\ R \in SUBSET PR
  BY DEF PreparedAs, Accepted, AcceptedRunes
<1>2. IsFiniteSet(PC) /\ IsFiniteSet(PN) /\ IsFiniteSet(PR) /\ IsFiniteSet(M)
  BY DEF PlanOK, PreparedAs
<1> HIDE DEF C, N, R, M, PC, PN, PR
<1>3. IsFiniteSet(C) /\ IsFiniteSet(N) /\ IsFiniteSet(R) /\ IsFiniteSet(M)
  BY <1>1, <1>2, FS_Subset
<1> QED
  BY <1>3 DEF C, N, R, M

LEMMA WrittenHolds ==
  ASSUME NEW db, NEW plan, PlanOK(plan), NEW effective, PreparedAs(effective, db, plan),
         NEW W, WrittenAs(W, db, plan, effective), Verified(W, effective)
  PROVE  Holds(W, effective)
<1>1. ASSUME NEW n \in DOMAIN effective.statuses
      PROVE  n \in DOMAIN W.statuses /\ W.statuses[n] = effective.statuses[n]
  <2>1. effective.statuses = plan.statuses
    BY DEF PreparedAs
  <2>2. W.statuses = Over(plan.statuses, db.statuses)
    BY DEF WrittenAs
  <2> QED
    BY <2>1, <2>2 DEF Over
<1>2. ASSUME NEW c \in DOMAIN effective.cards
      PROVE  /\ c \in DOMAIN W.cards
             /\ effective.cards[c].status \in BuiltInStatuses \cup DOMAIN effective.statuses
  <2>1. /\ DOMAIN effective.cards = Accepted(db, plan)
        /\ DOMAIN W.cards = Accepted(db, plan) \cup DOMAIN db.cards
    BY CardsWritten
  <2> DEFINE v == plan.cards[c]
             E == EffectiveCard(db, v, c)
  <2>2. effective.cards[c] = E /\ effective.statuses = plan.statuses
    BY <2>1 DEF PreparedAs
  <2>3. c \in DOMAIN plan.cards
    BY <2>1 DEF Accepted
  <2>4. CardOK(v, plan.statuses)
    BY <2>3 DEF PlanOK
  <2>5. E.status = v.status
    <3>1. DOMAIN v = CardFields /\ IsFunction(v)
      BY <2>4 DEF CardOK
    <3> HIDE DEF v
    <3> QED
      BY <3>1, EffectiveCardIs, ZenonT(40)
  <2> QED
    BY <2>1, <2>2, <2>4, <2>5 DEF CardOK
<1>3. ASSUME NEW e \in effective.edges PROVE {e[1], e[2]} \subseteq DOMAIN effective.cards
  <2>1. DOMAIN effective.cards = Accepted(db, plan)
    BY CardsWritten
  <2> QED
    BY <2>1 DEF PreparedAs
<1>4. ASSUME NEW l \in DOMAIN effective.runes PROVE effective.runes[l].key \in DOMAIN W.runes
  <2>1. LET v == effective.runes[l]
            r == W.runes[v.key]
        IN /\ v.key \in DOMAIN W.runes
           /\ r.text = v.text /\ r.enabled = v.enabled /\ r.legacy = l
    BY RunesVerified
  <2> QED
    BY <2>1
<1>5. DOMAIN effective.memories \subseteq DOMAIN W.memories
  <2>1. DOMAIN W.memories = DOMAIN plan.memories \cup DOMAIN db.memories
    BY MemoriesWritten
  <2> QED
    BY <2>1 DEF PreparedAs
<1> QED
  BY <1>1, <1>2, <1>3, <1>4, <1>5 DEF Holds

\* A card that was prepared is as ready as the database says, when all edges
\* that block it were imported.
LEMMA ReadyAgrees ==
  ASSUME NEW db, NEW E, Holds(db, E), \A e \in db.edges : Imported(db, e),
         NEW c \in DOMAIN E.cards
  PROVE  ReadyAt(db, c) = ExpectedReady(E, c)
<1>1. db.edges = E.edges
  BY DEF Holds, Verified
<1>2. ASSUME NEW x \in DOMAIN E.cards
      PROVE  /\ db.cards[x].status = E.cards[x].status
             /\ db.cards[x].labels = E.cards[x].labels
  <2>1. Projection(db.cards[x]) = E.cards[x]
    BY DEF Holds, Verified
  <2> QED
    BY <2>1 DEF Projection
<1>3. ASSUME NEW x \in DOMAIN E.cards
      PROVE  CategoryAt(db.statuses, db.cards[x].status)
               = CategoryAt(E.statuses, E.cards[x].status)
  <2> DEFINE s == E.cards[x].status
  <2>1. s \in BuiltInStatuses \cup DOMAIN E.statuses
    BY DEF Holds
  <2>2. s \in DOMAIN E.statuses => db.statuses[s] = E.statuses[s]
    BY DEF Holds
  <2>3. db.cards[x].status = s
    BY <1>2
  <2> HIDE DEF s
  <2> QED
    BY <2>1, <2>2, <2>3 DEF CategoryAt, s
<1>4. \A e \in E.edges : e[1] \in DOMAIN E.cards
  BY DEF Holds
<1>5. (\A e \in db.edges : e[2] = c => CategoryAt(db.statuses, db.cards[e[1]].status) = "done")
        <=> (\A e \in E.edges :
               e[2] = c => CategoryAt(E.statuses, E.cards[e[1]].status) = "done")
  BY <1>1, <1>3, <1>4
<1>6. ReadyAt(db, c) <=> ExpectedReady(E, c)
  BY <1>2, <1>3, <1>5 DEF ReadyAt, ExpectedReady
<1> QED
  BY <1>6 DEF ReadyAt, ExpectedReady

LEMMA FoundIfHeld ==
  ASSUME NEW db, NEW E, Holds(db, E), \A e \in db.edges : Imported(db, e),
         NEW read \in PublicRead(E)
  PROVE  Found(db, E, read)
<1> DEFINE x == read[2]
<1>1. CASE read[1] = "card" /\ x \in DOMAIN E.cards
  <2>1. x \in DOMAIN db.cards /\ Projection(db.cards[x]) = E.cards[x]
    BY <1>1 DEF Holds, Verified
  <2>2. E.edges \subseteq db.edges
    BY DEF Holds, Verified
  <2> QED
    BY <1>1, <2>1, <2>2 DEF Found
<1>2. CASE read[1] = "ready" /\ x \in DOMAIN E.cards
  <2>1. x \in DOMAIN db.cards
    BY <1>2 DEF Holds
  <2>2. ReadyAt(db, x) = ExpectedReady(E, x)
    BY <1>2, ReadyAgrees
  <2> QED
    BY <1>2, <2>1, <2>2 DEF Found
<1>3. CASE read[1] = "note" /\ x \in DOMAIN E.notes
  <2>1. NoteVerified(db, E.notes[x], x)
    BY <1>3 DEF Holds, Verified
  <2> QED
    BY <1>3, <2>1 DEF Found, NoteVerified
<1>4. CASE read[1] = "rune" /\ x \in DOMAIN E.runes
  BY <1>4 DEF Found, Holds, Verified
<1>5. CASE read[1] = "memory" /\ x \in DOMAIN E.memories
  <2>1. MemoryVerified(db, E.memories[x], x) /\ x \in DOMAIN db.memories
    BY <1>5 DEF Holds, Verified
  <2> QED
    BY <1>5, <2>1 DEF Found
<1>6. \/ read[1] \in {"card", "ready"} /\ x \in DOMAIN E.cards
      \/ read[1] = "note" /\ x \in DOMAIN E.notes
      \/ read[1] = "rune" /\ x \in DOMAIN E.runes
      \/ read[1] = "memory" /\ x \in DOMAIN E.memories
  BY DEF PublicRead
<1> QED
  BY <1>1, <1>2, <1>3, <1>4, <1>5, <1>6

LEMMA ReadsStep ==
  ASSUME MigrationInv, NamedOK, ReadsOK, [Next]_vars
  PROVE  ReadsOK'
<1>0. RunOK /\ natives \in Nat
  BY DEF MigrationInv
<1>1. CASE Commits
  <2> DEFINE db == At(run.target)
             effective == Prepared(db, run.plan)
             W == Written(db, run.plan, effective)
  <2>1. /\ PlanOK(run.plan) /\ PreparedAs(effective, db, run.plan)
        /\ WrittenAs(W, db, run.plan, effective)
        /\ Verified(W, effective)
        /\ run.target = "dest" => dest' = W
        /\ run.target = "temp" => temp' = W
    BY <1>1, CommitWrites
  <2>2. /\ run.pc = "apply"
        /\ run' = Over([run EXCEPT !.pc = "verify"],
                       [effective |-> effective, todo |-> PublicReads(effective)])
    BY <1>1 DEF Commits
  <2> HIDE DEF db, effective, W
  <2>3. /\ run.target \in {"temp", "dest"}
        /\ {"effective", "todo"} \cap DOMAIN run = {}
    BY <1>0, <2>2 DEF RunOK, Running, NamedOK
  <2>4. /\ run'.target = run.target /\ {"effective", "todo"} \subseteq DOMAIN run'
        /\ run'.effective = effective /\ run'.todo = PublicReads(effective)
    BY <1>0, <2>2, <2>3, CommittedRun
  <2>5. At(run.target)' = W
    BY <2>1, <2>3, <2>4 DEF At
  <2>6. Holds(W, effective)
    BY <2>1, WrittenHolds
  <2>7. PublicReads(effective) \in Seq(PublicRead(effective))
    <3>1. /\ IsFiniteSet(DOMAIN effective.cards) /\ IsFiniteSet(DOMAIN effective.notes)
          /\ IsFiniteSet(DOMAIN effective.runes) /\ IsFiniteSet(DOMAIN effective.memories)
      BY <2>1, PreparedFinite
    <3> QED
      BY <3>1, PublicReadsAre
  <2>8. run'.todo \in Seq(PublicRead(run'.effective)) /\ Holds(At(run.target)', run'.effective)
    BY <2>4, <2>5, <2>6, <2>7
  <2> QED
    BY <2>4, <2>8 DEF ReadsOK
<1>2. CASE run'.pc # "verify"
  BY <1>2 DEF ReadsOK
<1>3. CASE /\ UNCHANGED <<dest, temp, settled>>
           /\ run.pc = "verify"
           /\ run.todo # <<>>
           /\ run' = [run EXCEPT !.todo = Tail(@)]
  <2>1. /\ {"effective", "todo"} \subseteq DOMAIN run
        /\ run.todo \in Seq(PublicRead(run.effective))
        /\ ~run.overtaken => Holds(At(run.target), run.effective)
    BY <1>3 DEF ReadsOK
  <2>2. /\ DOMAIN run' = DOMAIN run /\ run'.effective = run.effective
        /\ run'.target = run.target /\ run'.overtaken = run.overtaken
        /\ run'.todo = Tail(run.todo)
    BY <1>0, <1>3, <2>1 DEF RunOK, Running
  <2>3. run'.todo \in Seq(PublicRead(run.effective))
    <3> DEFINE R == PublicRead(run.effective)
    <3> HIDE DEF R
    <3>1. run.todo \in Seq(R) => Tail(run.todo) \in Seq(R)
      BY <1>3
    <3> QED
      BY <2>1, <2>2, <3>1 DEF R
  <2>4. At(run.target)' = At(run.target)
    BY <1>3, <2>2 DEF At
  <2> QED
    BY <2>1, <2>2, <2>3, <2>4 DEF ReadsOK
<1>4. CASE NativeInit \/ NativeStep
  <2>1. PICK db : Uses(db)
    BY <1>4, NativeStepUses DEF NativeInit
  <2>2. CASE run.pc # "verify"
    <3>1. run'.pc = run.pc
      BY <1>0, <2>1, UsesIs
    <3> QED
      BY <1>2, <2>2, <3>1
  <2>3. CASE run.pc = "verify"
    <3>1. run' = [run EXCEPT !.overtaken = @ \/ run.pc # "idle"]
      BY <2>1 DEF Uses
    <3>2. {"effective", "todo"} \subseteq DOMAIN run
      BY <2>3 DEF ReadsOK
    <3>3. /\ DOMAIN run' = DOMAIN run /\ run'.effective = run.effective
          /\ run'.todo = run.todo
      BY <1>0, <3>1, <3>2 DEF RunOK
    <3>4. run'.overtaken
      BY <1>0, <2>3, <3>1 DEF RunOK
    <3> QED
      BY <2>3, <3>2, <3>3, <3>4 DEF ReadsOK
  <2> QED
    BY <2>2, <2>3
<1>5. CASE UNCHANGED vars
  <2>1. run' = run /\ dest' = dest /\ temp' = temp
    BY <1>5 DEF vars
  <2>2. At(run.target)' = At(run.target)
    BY <2>1 DEF At
  <2> QED
    BY <2>1, <2>2 DEF ReadsOK
<1>6. CASE ImportStep
  <2>1. CASE Finish
    <3>1. run'.pc # "verify"
      BY <2>1, IdleIs DEF Finish
    <3> QED
      BY <1>2, <3>1
  <2> QED
    BY <1>1, <1>2, <1>3, <1>6, <2>1, QuietImport
<1> QED
  BY <1>4, <1>5, <1>6 DEF Next

\* A run is refused by its transaction.
LEMMA RefusedByApply ==
  ASSUME RunOK, NamedOK, Next, Running, run'.outcome = "rejected"
  PROVE  /\ run.pc = "apply"
         /\ LET db == At(run.target)
                effective == Prepared(db, run.plan)
            IN \/ \E k \in DOMAIN effective.notes : effective.notes[k] = None
               \/ Incompatible(db, run.plan)
               \/ ~Verified(Written(db, run.plan, effective), effective)
<1> DEFINE db == At(run.target)
           effective == Prepared(db, run.plan)
           W == Written(db, run.plan, effective)
           unknown == \E k \in DOMAIN effective.notes : effective.notes[k] = None
<1>1. run.outcome = "none"
  BY DEF NamedOK
<1>2. ASSUME NEW outcome, Fails(outcome) PROVE outcome = "rejected"
  BY <1>2, OutcomeIs DEF Fails
<1>3. ASSUME NEW s \in Exports, Start(s) PROVE FALSE
  BY <1>3 DEF Start, Running
<1>4. ASSUME InitTemp PROVE FALSE
  BY <1>1, <1>4 DEF InitTemp, RunOK
<1>5. ASSUME Apply PROVE unknown \/ Incompatible(db, run.plan) \/ ~Verified(W, effective)
  <2> SUFFICES ASSUME ~unknown, ~Incompatible(db, run.plan), Verified(W, effective)
               PROVE  FALSE
    OBVIOUS
  <2> HIDE DEF db, effective, W
  <2>1. run' = Over([run EXCEPT !.pc = "verify"],
                    [effective |-> effective, todo |-> PublicReads(effective)])
    BY <1>5, Zenon DEF Apply, db, effective, W
  <2>2. run.pc = "apply"
    BY <1>5 DEF Apply
  <2>3. run'.outcome = run.outcome
    BY <2>1, <2>2, CommittedRun
  <2> QED
    BY <1>1, <2>3
<1>6. ASSUME VerifyPublic PROVE FALSE
  <2>1. CASE Found(At(run.target), run.effective, Head(run.todo))
    <3>1. run' = [run EXCEPT !.todo = Tail(@)]
      BY <1>6, <2>1 DEF VerifyPublic
    <3>2. run'.outcome = run.outcome
      BY <3>1 DEF RunOK
    <3> QED
      BY <1>1, <3>2
  <2>2. CASE ~Found(At(run.target), run.effective, Head(run.todo))
    BY <1>2, <1>6, <2>2 DEF VerifyPublic
  <2> QED
    BY <2>1, <2>2
<1>7. ASSUME Finish PROVE FALSE
  <2>1. run' = [Idle("imported") EXCEPT !.overtaken = run.overtaken]
    BY <1>7 DEF Finish
  <2>2. run'.outcome = "imported"
    BY <2>1, OutcomeIs
  <2> QED
    BY <2>2
<1>11. ASSUME Crash PROVE FALSE
  <2>1. run' = Idle("crashed")
    BY <1>11 DEF Crash
  <2>2. run'.outcome = "crashed"
    BY <2>1, OutcomeIs
  <2> QED
    BY <2>2
<1>8. ASSUME IOError PROVE FALSE
  BY <1>2, <1>8 DEF IOError
<1>9. ASSUME NativeInit \/ NativeStep PROVE FALSE
  <2>1. PICK d : Uses(d)
    BY <1>9, NativeStepUses DEF NativeInit
  <2>2. run' = [run EXCEPT !.overtaken = @ \/ run.pc # "idle"]
    BY <2>1 DEF Uses
  <2> QED
    BY <1>1, <2>2 DEF RunOK
<1>10. Apply
  BY <1>3, <1>4, <1>6, <1>7, <1>8, <1>9, <1>11 DEF Next, ImportStep
<1> QED
  BY <1>5, <1>10 DEF Apply

\* And found wrong by the reads that follow.
LEMMA UnverifiedByReads ==
  ASSUME RunOK, NamedOK, Next, Running, run'.outcome = "unverified"
  PROVE  /\ run.pc = "verify" /\ run.todo # <<>>
         /\ ~Found(At(run.target), run.effective, Head(run.todo))
<1>1. run.outcome = "none"
  BY DEF NamedOK
<1>2. ASSUME NEW outcome, Fails(outcome) PROVE outcome = "unverified"
  BY <1>2, OutcomeIs DEF Fails
<1>3. ASSUME NEW s \in Exports, Start(s) PROVE FALSE
  BY <1>3 DEF Start, Running
<1>4. ASSUME InitTemp PROVE FALSE
  BY <1>1, <1>4 DEF InitTemp, RunOK
<1>5. ASSUME Apply PROVE FALSE
  <2>1. CASE Fails("rejected")
    BY <1>2, <2>1
  <2>2. CASE Commits
    <3> DEFINE effective == Prepared(At(run.target), run.plan)
    <3>1. /\ run.pc = "apply"
          /\ run' = Over([run EXCEPT !.pc = "verify"],
                         [effective |-> effective, todo |-> PublicReads(effective)])
      BY <2>2 DEF Commits
    <3> HIDE DEF effective
    <3>2. run'.outcome = run.outcome
      BY <3>1, CommittedRun
    <3> QED
      BY <1>1, <3>2
  <2> QED
    BY <1>5, <2>1, <2>2, ApplyIs
<1>6. ASSUME VerifyPublic
      PROVE  ~Found(At(run.target), run.effective, Head(run.todo))
  <2>1. CASE Found(At(run.target), run.effective, Head(run.todo))
    <3>1. run' = [run EXCEPT !.todo = Tail(@)]
      BY <1>6, <2>1 DEF VerifyPublic
    <3>2. run'.outcome = run.outcome
      BY <3>1 DEF RunOK
    <3> QED
      BY <1>1, <3>2
  <2> QED
    BY <2>1
<1>7. ASSUME Finish PROVE FALSE
  <2>1. run' = [Idle("imported") EXCEPT !.overtaken = run.overtaken]
    BY <1>7 DEF Finish
  <2>2. run'.outcome = "imported"
    BY <2>1, OutcomeIs
  <2> QED
    BY <2>2
<1>11. ASSUME Crash PROVE FALSE
  <2>1. run' = Idle("crashed")
    BY <1>11 DEF Crash
  <2>2. run'.outcome = "crashed"
    BY <2>1, OutcomeIs
  <2> QED
    BY <2>2
<1>8. ASSUME IOError PROVE FALSE
  BY <1>2, <1>8 DEF IOError
<1>9. ASSUME NativeInit \/ NativeStep PROVE FALSE
  <2>1. PICK d : Uses(d)
    BY <1>9, NativeStepUses DEF NativeInit
  <2>2. run' = [run EXCEPT !.overtaken = @ \/ run.pc # "idle"]
    BY <2>1 DEF Uses
  <2> QED
    BY <1>1, <2>2 DEF RunOK
<1>10. VerifyPublic
  BY <1>3, <1>4, <1>5, <1>7, <1>8, <1>9, <1>11 DEF Next, ImportStep
<1> QED
  BY <1>6, <1>10 DEF VerifyPublic

\* An import is refused, or found wrong afterwards, only for what it met, and
\* one that builds a new database only if two records of one name differ: what
\* apply writes of a plan is what verifyTx and verifyPublic compare it with,
\* whatever was imported and done to the database before.
THEOREM RefusedForCause ==
  ASSUME AbsentIsNoDatabase, NoneIsNoRecord PROVE Spec => RefusalHasCause
<1> DEFINE foreignEdges == IF dest = Absent THEN {} ELSE {e \in dest.edges : ~Imported(dest, e)}
           lost(k) == \/ dest.noteProv[k].id \notin DOMAIN dest.notes
                      \/ dest.notes[dest.noteProv[k].id].from # k
           differs(k) == LET v == run.plan.memories[k]
                         IN \/ dest.memories[k].by # v.by
                            \/ v.created \notin {None, dest.memories[k].created}
           disputed == \E kind \in DOMAIN run.plan.disputed : run.plan.disputed[kind] # {}
           Caused ==
             run.pc # "idle" =>
               /\ run'.outcome = "rejected" =>
                    \/ disputed
                    \/ /\ ~run.new
                       /\ \/ Incompatible(dest, run.plan)
                          \/ \E k \in DOMAIN dest.noteProv : lost(k)
                          \/ \E k \in DOMAIN dest.memories \cap DOMAIN run.plan.memories :
                               differs(k)
                          \/ foreignEdges # {}
               /\ run'.outcome = "unverified" => run.overtaken \/ foreignEdges # {}
<1>1. Init => NamedOK /\ ReadsOK
  BY IdleIs DEF Init, NamedOK, ReadsOK, Running
<1>2. MigrationInv /\ NamedOK /\ [Next]_vars => NamedOK'
  BY NamedStep
<1>3. MigrationInv /\ NamedOK /\ ReadsOK /\ [Next]_vars => ReadsOK'
  BY ReadsStep
<1>4. ASSUME MigrationInv, NamedOK, Next, Running, run'.outcome = "rejected",
             Undisputed(run.plan)
      PROVE  /\ ~run.new
             /\ dest # Absent
             /\ Incompatible(dest, run.plan) \/ ~NothingAmiss(dest, run.plan)
  <2>0. RunOK /\ TargetOK
    BY <1>4 DEF MigrationInv
  <2> DEFINE db == At(run.target)
  <2>1. /\ run.pc = "apply"
        /\ LET effective == Prepared(db, run.plan)
           IN \/ \E k \in DOMAIN effective.notes : effective.notes[k] = None
              \/ Incompatible(db, run.plan)
              \/ ~Verified(Written(db, run.plan, effective), effective)
    BY <1>4, <2>0, RefusedByApply
  <2>2. PlanOK(run.plan) /\ run.target \in {"temp", "dest"}
    BY <1>4, <2>0 DEF RunOK
  <2>3. /\ run.target = "temp" => db = NewDatabase
        /\ run.target = "dest" => db = dest /\ DbOK(dest)
    BY <1>4, <2>0, <2>1 DEF TargetOK, At
  <2>4. DbOK(db)
    BY <2>2, <2>3, NewDatabaseOK
  <2> HIDE DEF db
  <2>5. Incompatible(db, run.plan) \/ ~NothingAmiss(db, run.plan)
    BY <1>4, <2>1, <2>2, <2>4, NotRefused
  <2>6. ~Incompatible(NewDatabase, run.plan)
    BY NewParts DEF Incompatible
  <2>7. run.target = "dest"
    BY <2>2, <2>3, <2>5, <2>6, NewIsNotAmiss
  <2>8. ~run.new
    BY <1>4, <2>7 DEF NamedOK
  <2> QED
    BY <2>3, <2>5, <2>7, <2>8, DatabaseIsThere
<1>5. ASSUME MigrationInv, NamedOK, ReadsOK, Next, Running, run'.outcome = "unverified",
             ~run.overtaken
      PROVE  dest # Absent /\ \E e \in dest.edges : ~Imported(dest, e)
  <2>0. RunOK /\ TargetOK
    BY <1>5 DEF MigrationInv
  <2> DEFINE db == At(run.target)
  <2>1. /\ run.pc = "verify" /\ run.todo # <<>>
        /\ ~Found(db, run.effective, Head(run.todo))
    BY <1>5, <2>0, UnverifiedByReads
  <2>2. Holds(db, run.effective) /\ run.todo \in Seq(PublicRead(run.effective))
    BY <1>5, <2>1 DEF ReadsOK
  <2>3. Head(run.todo) \in PublicRead(run.effective)
    <3> DEFINE R == PublicRead(run.effective)
    <3> HIDE DEF R
    <3>1. run.todo \in Seq(R) => Head(run.todo) \in R
      BY <2>1
    <3> QED
      BY <2>2, <3>1 DEF R
  <2>4. PICK e \in db.edges : ~Imported(db, e)
    <3> HIDE DEF db
    <3> QED
      BY <2>1, <2>2, <2>3, FoundIfHeld
  <2>5. PlanOK(run.plan) /\ run.target \in {"temp", "dest"}
    BY <1>5, <2>0 DEF RunOK
  <2>6. run.target # "temp"
    <3> SUFFICES ASSUME run.target = "temp" PROVE FALSE
      OBVIOUS
    <3>1. db = temp /\ Complete(temp, run.plan)
      BY <2>0, <2>1 DEF TargetOK, At
    <3>2. DOMAIN temp.cardProv = DOMAIN run.plan.cards /\ temp.edges = run.plan.edges
      BY <3>1 DEF Complete
    <3>3. e \in run.plan.edges /\ {e[1], e[2]} \subseteq DOMAIN run.plan.cards
      BY <2>5, <3>1, <3>2 DEF PlanOK
    <3> QED
      BY <2>4, <3>1, <3>2, <3>3 DEF Imported
  <2>7. db = dest /\ DbOK(dest)
    BY <1>5, <2>0, <2>5, <2>6 DEF TargetOK, At
  <2> HIDE DEF db
  <2> QED
    BY <2>4, <2>7, DatabaseIsThere
<1>6. MigrationInv /\ NamedOK /\ ReadsOK /\ [Next]_vars => [Caused]_vars
  <2> SUFFICES ASSUME MigrationInv, NamedOK, ReadsOK, Next, Running PROVE Caused
    BY DEF Running
  <2>1. ASSUME run'.outcome = "rejected"
        PROVE  \/ disputed
               \/ /\ ~run.new
                  /\ \/ Incompatible(dest, run.plan)
                     \/ \E k \in DOMAIN dest.noteProv : lost(k)
                     \/ \E k \in DOMAIN dest.memories \cap DOMAIN run.plan.memories :
                          differs(k)
                     \/ foreignEdges # {}
    <3>1. CASE Undisputed(run.plan)
      <4>1. /\ ~run.new
            /\ dest # Absent
            /\ Incompatible(dest, run.plan) \/ ~NothingAmiss(dest, run.plan)
        BY <1>4, <2>1, <3>1
      <4> QED
        BY <4>1 DEF NothingAmiss
    <3>2. CASE ~Undisputed(run.plan)
      <4>1. DOMAIN run.plan.disputed = {"cards", "notes", "memories"}
        BY DEF MigrationInv, RunOK, PlanOK
      <4> QED
        BY <3>2, <4>1 DEF Undisputed
    <3> QED
      BY <3>1, <3>2
  <2>2. ASSUME run'.outcome = "unverified", ~run.overtaken PROVE foreignEdges # {}
    BY <1>5, <2>2
  <2> QED
    BY <2>1, <2>2
<1> QED
  BY <1>1, <1>2, <1>3, <1>6, MigrationInvariant, PTL DEF Spec, RefusalHasCause
=============================================================================
