----------------------------- MODULE Hooks_proofs -----------------------------
(***************************************************************************)
(* Theorems of Hooks, for any number of processes and cards and whatever   *)
(* the commands, the handlers and hooks.yaml are.                          *)
(***************************************************************************)
EXTENDS Hooks, CardStore_proofs, FiniteSetTheorems

-----------------------------------------------------------------------------
(* The hooks of one event, in file order.                                  *)

\* Some numbers, listed in order.
InOrder(I, s) ==
  /\ s \in [1..Cardinality(I) -> I]
  /\ \A i, j \in DOMAIN s : i < j => s[i] < s[j]

LEMMA Positions ==
  ASSUME NEW n \in Nat, NEW I \in SUBSET (1..n)
  PROVE  /\ \A k \in I : k \in Int /\ k \in 1..n
         /\ IsFiniteSet(I) /\ Cardinality(I) \in Nat
         /\ IsFiniteSet(1..Cardinality(I))
         /\ Cardinality(1..Cardinality(I)) = Cardinality(I)
<1>1. IsFiniteSet(1..n)
  BY FS_Interval
<1>2. IsFiniteSet(I) /\ Cardinality(I) \in Nat
  BY <1>1, FS_Subset, FS_CardinalityType
<1> QED
  BY <1>2, FS_Interval

\* A list in order has each number once, and all of them.
LEMMA ListedOnce ==
  ASSUME NEW n \in Nat, NEW I \in SUBSET (1..n), NEW s, InOrder(I, s)
  PROVE  /\ \A i, j \in 1..Cardinality(I) : i # j => s[i] # s[j]
         /\ \A k \in I : \E i \in 1..Cardinality(I) : s[i] = k
<1> DEFINE N == Cardinality(I)
<1>1. N \in Nat /\ IsFiniteSet(I) /\ IsFiniteSet(1..N) /\ Cardinality(1..N) = N
  BY Positions
<1>2. \A k \in I : k \in Int
  BY Positions
<1>3. s \in [1..N -> I] /\ \A i, j \in 1..N : i < j => s[i] < s[j]
  BY DEF InOrder
<1> HIDE DEF N
<1>4. ASSUME NEW i \in 1..N, NEW j \in 1..N, i # j PROVE s[i] # s[j]
  <2>1. s[i] \in Int /\ s[j] \in Int
    BY <1>2, <1>3
  <2>2. CASE i < j
    BY <1>3, <2>1, <2>2
  <2>3. CASE j < i
    BY <1>3, <2>1, <2>3
  <2> QED
    BY <1>1, <1>4, <2>2, <2>3
<1>5. s \in Injection(1..N, I)
  BY <1>3, <1>4 DEF Injection, IsInjective
<1>6. s \in Surjection(1..N, I)
  BY <1>1, <1>5, FS_Injection DEF N
<1> QED
  BY <1>4, <1>6 DEF N, Surjection

\* There is one: a number is at the place the count of those up to it says.
LEMMA ListedInOrder ==
  ASSUME NEW n \in Nat, NEW I \in SUBSET (1..n)
  PROVE  \E s : InOrder(I, s)
<1> DEFINE N == Cardinality(I)
           Upto(k) == {j \in I : j <= k}
           rank == [k \in I |-> Cardinality(Upto(k))]
<1>0. /\ \A k \in I : k \in Int
      /\ N \in Nat /\ IsFiniteSet(I) /\ IsFiniteSet(1..N) /\ Cardinality(1..N) = N
  BY Positions
<1> HIDE DEF N
<1>1. ASSUME NEW k \in I
      PROVE  IsFiniteSet(Upto(k)) /\ Cardinality(Upto(k)) \in 1..N
  <2>1. /\ IsFiniteSet(Upto(k)) /\ Cardinality(Upto(k)) <= N
        /\ Cardinality(Upto(k)) \in Nat
    BY <1>0, FS_Subset, FS_CardinalityType DEF N
  <2>2. k \in Upto(k)
    BY <1>0
  <2>3. Cardinality(Upto(k)) # 0
    BY <2>1, <2>2, FS_EmptySet
  <2> HIDE DEF Upto
  <2>4. Cardinality(Upto(k)) \in 1..N
    BY <1>0, <2>1, <2>3
  <2> QED
    BY <2>1, <2>4
<1>2. ASSUME NEW j \in I, NEW k \in I, j < k
      PROVE  Cardinality(Upto(j)) < Cardinality(Upto(k))
  <2>0. \A i \in I : i \in Int
    BY <1>0
  <2>1. Upto(j) \subseteq Upto(k)
    <3> SUFFICES ASSUME NEW i \in I, i <= j PROVE i <= k
      OBVIOUS
    <3> QED
      BY <2>0, <1>2
  <2>2. k \in Upto(k) /\ k \notin Upto(j)
    BY <1>0, <1>2
  <2>3. /\ Cardinality(Upto(j)) <= Cardinality(Upto(k))
        /\ Cardinality(Upto(j)) # Cardinality(Upto(k))
    BY <1>1, <2>1, <2>2, FS_Subset
  <2>4. Cardinality(Upto(j)) \in 1..N /\ Cardinality(Upto(k)) \in 1..N
    BY <1>1
  <2> HIDE DEF Upto
  <2> QED
    BY <1>0, <2>3, <2>4
<1>3. /\ rank \in [I -> 1..N]
      /\ \A j, k \in I : j < k => rank[j] < rank[k]
  BY <1>1, <1>2
<1> HIDE DEF rank
<1>4. ASSUME NEW j \in I, NEW k \in I, rank[j] = rank[k] PROVE j = k
  BY <1>0, <1>3, <1>4
<1>5. rank \in Injection(I, 1..N)
  BY <1>3, <1>4 DEF Injection, IsInjective
<1>6. rank \in Surjection(I, 1..N)
  BY <1>0, <1>5, FS_Injection DEF N
<1> DEFINE place == [i \in 1..N |-> CHOOSE k \in I : rank[k] = i]
<1>7. place \in [1..N -> I] /\ \A i \in 1..N : rank[place[i]] = i
  BY <1>6 DEF Surjection
<1> HIDE DEF place
<1>8. ASSUME NEW i \in 1..N, NEW j \in 1..N, i < j PROVE place[i] < place[j]
  <2>1. PICK a \in I : a = place[i] /\ rank[a] = i
    BY <1>7
  <2>2. PICK b \in I : b = place[j] /\ rank[b] = j
    BY <1>7
  <2>3. a # b /\ ~(b < a)
    BY <1>0, <1>3, <1>8, <2>1, <2>2
  <2> QED
    BY <1>0, <2>1, <2>2, <2>3
<1> QED
  BY <1>7, <1>8 DEF InOrder, N

-----------------------------------------------------------------------------
(* What MatchHooks returns.                                                *)

HookEventRecord ==
  [event : HookEvent, type : Type, revision : Nat,
   from : Status \cup {""}, to : Status \cup {""},
   added : SUBSET AllLabel, removed : SUBSET AllLabel]

\* A hook that is to run, and the event it is told.
Firing == [entry : Nat, hook : RawHook, event : HookEventRecord]

\* It is an entry of the file, and its event is one it asks for.
FiringOf(hooks, ev, f) ==
  /\ f.entry \in DOMAIN hooks /\ f.hook = hooks[f.entry]
  /\ hookMatches(f.hook, ev) /\ f.event = ev

\* In the order of the file.
Ordered(m) == \A i, j \in DOMAIN m : i < j => m[i].entry < m[j].entry

Matching(hooks, ev) == {i \in DOMAIN hooks : hookMatches(hooks[i], ev)}

\* s lists the places of the entries MatchHooks takes.
Listing(hooks, ev, s) ==
  /\ InOrder(Matching(hooks, ev), s)
  /\ MatchHooks(hooks, ev)
       = [i \in DOMAIN s |->
            [entry |-> s[i], hook |-> hooks[s[i]], event |-> ev]]

LEMMA MatchesListed ==
  ASSUME NEW hooks, NEW n \in Nat, DOMAIN hooks = 1..n, NEW ev
  PROVE  \E s : Listing(hooks, ev, s)
<1> DEFINE I == Matching(hooks, ev)
           chosen == CHOOSE s \in [1..Cardinality(I) -> I] :
                       \A i, j \in DOMAIN s : i < j => s[i] < s[j]
<1>1. MatchHooks(hooks, ev)
        = [i \in DOMAIN chosen |->
             [entry |-> chosen[i], hook |-> hooks[chosen[i]], event |-> ev]]
  BY DEF MatchHooks, Matching
<1>2. I \in SUBSET (1..n)
  BY DEF Matching
<1> HIDE DEF I
<1>3. \E s : InOrder(I, s)
  BY <1>2, ListedInOrder
<1>4. InOrder(I, chosen)
  BY <1>3 DEF InOrder
<1> HIDE DEF chosen
<1>5. Listing(hooks, ev, chosen)
  BY <1>1, <1>4 DEF Listing, I
<1> QED
  BY <1>5

\* Each entry that matches is there, and nothing else, in order.
LEMMA Matches ==
  ASSUME NEW hooks \in Seq(RawHook), NEW ev \in HookEventRecord
  PROVE  LET m == MatchHooks(hooks, ev) IN
         /\ m \in Seq(Firing)
         /\ \A i \in DOMAIN m : FiringOf(hooks, ev, m[i])
         /\ \A n \in DOMAIN hooks :
              hookMatches(hooks[n], ev) => \E i \in DOMAIN m : m[i].entry = n
         /\ Ordered(m)
<1> DEFINE I == Matching(hooks, ev)
           m == MatchHooks(hooks, ev)
<1>1. Len(hooks) \in Nat /\ DOMAIN hooks = 1..Len(hooks)
  OBVIOUS
<1>0. PICK s : Listing(hooks, ev, s)
  BY <1>1, MatchesListed
<1>2. /\ InOrder(I, s)
      /\ m = [i \in DOMAIN s |->
                [entry |-> s[i], hook |-> hooks[s[i]], event |-> ev]]
  BY <1>0 DEF Listing
<1>3. I \in SUBSET (1..Len(hooks))
  BY <1>1 DEF Matching
<1>4. /\ \A k \in I : /\ hooks[k] \in RawHook /\ k \in Nat
                      /\ k \in DOMAIN hooks /\ hookMatches(hooks[k], ev)
      /\ \A n \in DOMAIN hooks : hookMatches(hooks[n], ev) => n \in I
  BY <1>1 DEF Matching
<1> HIDE DEF I, m
<1>5. Cardinality(I) \in Nat
  BY <1>1, <1>3, Positions
<1>10. \A k \in I : \E i \in 1..Cardinality(I) : s[i] = k
  BY <1>1, <1>2, <1>3, ListedOnce, ZenonT(40)
<1>6. /\ s \in [1..Cardinality(I) -> I]
      /\ \A i, j \in 1..Cardinality(I) : i < j => s[i] < s[j]
  BY <1>2 DEF InOrder
<1>7. /\ DOMAIN m = 1..Cardinality(I)
      /\ \A i \in DOMAIN m :
           /\ m[i] = [entry |-> s[i], hook |-> hooks[s[i]], event |-> ev]
           /\ s[i] \in I
  BY <1>2, <1>6
<1>8. m \in Seq(Firing)
  <2>1. m = [i \in 1..Cardinality(I) |->
               [entry |-> s[i], hook |-> hooks[s[i]], event |-> ev]]
    BY <1>2, <1>6
  <2>2. \A i \in 1..Cardinality(I) :
          [entry |-> s[i], hook |-> hooks[s[i]], event |-> ev] \in Firing
    BY <1>4, <1>6 DEF Firing
  <2> QED
    BY <1>5, <2>1, <2>2
<1>9. \A i \in DOMAIN m : /\ m[i].entry = s[i] /\ m[i].hook = hooks[s[i]]
                           /\ m[i].event = ev
  BY <1>7
<1>11. \A i \in DOMAIN m : FiringOf(hooks, ev, m[i])
  BY <1>4, <1>7, <1>9 DEF FiringOf
<1>12. Ordered(m)
  BY <1>6, <1>7, <1>9 DEF Ordered
<1>13. \A n \in DOMAIN hooks :
         hookMatches(hooks[n], ev) => \E i \in DOMAIN m : m[i].entry = n
  BY <1>4, <1>7, <1>9, <1>10
<1> QED
  BY <1>8, <1>11, <1>12, <1>13 DEF m

LEMMA NoHooksMatch ==
  ASSUME NEW ev
  PROVE  MatchHooks(<<>>, ev) = <<>>
<1>1. DOMAIN <<>> = 1..0
  OBVIOUS
<1>2. PICK s : Listing(<<>>, ev, s)
  BY <1>1, MatchesListed
<1>3. Matching(<<>>, ev) = {}
  BY <1>1 DEF Matching
<1>4. DOMAIN s = 1..0
  BY <1>2, <1>3, FS_EmptySet DEF InOrder, Listing
<1>5. MatchHooks(<<>>, ev)
        = [i \in 1..0 |->
             [entry |-> s[i], hook |-> <<>>[s[i]], event |-> ev]]
  BY <1>2, <1>4 DEF Listing
<1> QED
  BY <1>5

-----------------------------------------------------------------------------
(* Two lists one after the other.                                          *)

LEMMA Joined ==
  ASSUME NEW S, NEW a \in Seq(S), NEW b \in Seq(S)
  PROVE  /\ a \o b \in Seq(S)
         /\ DOMAIN (a \o b) = 1..(Len(a) + Len(b))
         /\ \A i \in DOMAIN a : i \in DOMAIN (a \o b) /\ (a \o b)[i] = a[i]
         /\ \A i \in DOMAIN b : /\ Len(a) + i \in DOMAIN (a \o b)
                                /\ (a \o b)[Len(a) + i] = b[i]
         /\ \A i \in DOMAIN (a \o b) :
              \/ i \in DOMAIN a
              \/ \E k \in DOMAIN b : i = Len(a) + k
<1>1. a \o b \in Seq(S) /\ Len(a \o b) = Len(a) + Len(b)
  OBVIOUS
<1>2. Len(a) \in Nat /\ Len(b) \in Nat
  OBVIOUS
<1>3. DOMAIN (a \o b) = 1..(Len(a) + Len(b))
  BY <1>1
<1>4. ASSUME NEW i \in DOMAIN a
      PROVE  i \in DOMAIN (a \o b) /\ (a \o b)[i] = a[i]
  BY <1>2, <1>3
<1>5. ASSUME NEW i \in DOMAIN b
      PROVE  Len(a) + i \in DOMAIN (a \o b) /\ (a \o b)[Len(a) + i] = b[i]
  BY <1>2, <1>3
<1>6. ASSUME NEW i \in DOMAIN (a \o b), i \notin DOMAIN a
      PROVE  \E k \in DOMAIN b : i = Len(a) + k
  <2>1. i - Len(a) \in 1..Len(b) /\ i = Len(a) + (i - Len(a))
    BY <1>2, <1>3, <1>6
  <2> QED
    BY <2>1
<1> QED
  BY <1>1, <1>3, <1>4, <1>5, <1>6

\* A list nobody is in.
LEMMA NobodyListed ==
  ASSUME NEW S, NEW a \in Seq(S), \A i \in DOMAIN a : FALSE
  PROVE  a = <<>>
<1>1. Len(a) \in Nat /\ DOMAIN a = 1..Len(a)
  OBVIOUS
<1>2. Len(a) = 0
  BY <1>1, SMTT(30)
<1> QED
  BY <1>2

LEMMA BackInFront ==
  ASSUME NEW S, NEW b \in Seq(S), b # <<>>, NEW h \in Seq(S)
  PROVE  Len(h) = 1 /\ h[1] = b[1] => h \o Tail(b) = b
<1> DEFINE l == h \o Tail(b)
<1>1. Tail(b) \in Seq(S) /\ Len(Tail(b)) = Len(b) - 1 /\ Len(b) \in Nat \ {0}
  OBVIOUS
<1>2. \A i \in 1..(Len(b) - 1) : Tail(b)[i] = b[i + 1]
  OBVIOUS
<1>3. /\ l \in Seq(S) /\ Len(l) = Len(h) + (Len(b) - 1) /\ Len(h) \in Nat
      /\ \A i \in 1..Len(h) : l[i] = h[i]
      /\ \A i \in 1..(Len(b) - 1) : l[Len(h) + i] = Tail(b)[i]
  BY <1>1
<1> HIDE DEF l
<1> SUFFICES ASSUME Len(h) = 1, h[1] = b[1] PROVE l = b
  BY DEF l
<1>4. ASSUME NEW i \in 1..Len(b) PROVE l[i] = b[i]
  <2>1. CASE i = 1
    BY <1>3, <2>1
  <2>2. CASE i > 1
    <3>1. i - 1 \in 1..(Len(b) - 1) /\ 1 + (i - 1) = i /\ (i - 1) + 1 = i
      BY <1>1, <2>2
    <3>2. l[1 + (i - 1)] = Tail(b)[i - 1] /\ Tail(b)[i - 1] = b[(i - 1) + 1]
      BY <1>2, <1>3, <3>1
    <3> QED
      BY <3>1, <3>2
  <2> QED
    BY <1>1, <2>1, <2>2
<1> QED
  BY <1>1, <1>3, <1>4

\* The first of what is left becomes the last of what is done.
LEMMA HeadMoves ==
  ASSUME NEW S, NEW a \in Seq(S), NEW b \in Seq(S), b # <<>>
  PROVE  /\ Append(a, Head(b)) \in Seq(S) /\ Tail(b) \in Seq(S)
         /\ Append(a, Head(b)) \o Tail(b) = a \o b
         /\ \A i \in DOMAIN Tail(b) : i + 1 \in DOMAIN b /\ Tail(b)[i] = b[i + 1]
         /\ Tail(b) # <<>> <=> Len(b) > 1
<1>1. /\ Append(a, Head(b)) \in Seq(S) /\ Tail(b) \in Seq(S)
      /\ Len(Append(a, Head(b))) = Len(a) + 1 /\ Len(Tail(b)) = Len(b) - 1
      /\ Len(a) \in Nat /\ Len(b) \in Nat /\ Len(b) >= 1
  OBVIOUS
<1>2. \A i \in DOMAIN Tail(b) : i + 1 \in DOMAIN b /\ Tail(b)[i] = b[i + 1]
  OBVIOUS
<1>3. Append(a, Head(b)) \o Tail(b) = a \o b
  <2> DEFINE l == Append(a, Head(b)) \o Tail(b)
             r == a \o b
  <2>1. /\ l \in Seq(S) /\ r \in Seq(S)
        /\ Len(l) = Len(a) + Len(b) /\ Len(r) = Len(a) + Len(b)
    BY <1>1
  <2>2. ASSUME NEW i \in 1..(Len(a) + Len(b)) PROVE l[i] = r[i]
    <3>1. CASE i <= Len(a)
      BY <1>1, <3>1
    <3>2. CASE i = Len(a) + 1
      BY <1>1, <3>2
    <3>3. CASE i > Len(a) + 1
      <4>1. /\ l[i] = Tail(b)[i - (Len(a) + 1)] /\ r[i] = b[i - Len(a)]
            /\ i - (Len(a) + 1) \in DOMAIN Tail(b)
        BY <1>1, <3>3
      <4> QED
        BY <1>1, <1>2, <4>1
    <3> QED
      BY <1>1, <3>1, <3>2, <3>3
  <2> HIDE DEF l, r
  <2>3. l = r
    BY <2>1, <2>2
  <2> QED
    BY <2>3 DEF l, r
<1>4. Tail(b) # <<>> <=> Len(b) > 1
  <2> DEFINE t == Tail(b)
  <2>0. t \in Seq(S) /\ Len(t) = Len(b) - 1
    BY <1>1
  <2> HIDE DEF t
  <2>1. t = <<>> => Len(t) = 0
    OBVIOUS
  <2>2. Len(t) = 0 => t = <<>>
    BY <2>0, NobodyListed
  <2> QED
    BY <1>1, <2>0, <2>1, <2>2 DEF t
<1> QED
  BY <1>1, <1>2, <1>3, <1>4

LEMMA HeadBack ==
  ASSUME NEW S, NEW b \in Seq(S), b # <<>>
  PROVE  <<Head(b)>> \in Seq(S) /\ <<Head(b)>> \o Tail(b) = b
<1> DEFINE h == <<Head(b)>>
<1>1. Head(b) \in S /\ Head(b) = b[1]
  OBVIOUS
<1>2. h \in Seq(S)
  BY <1>1
<1>3. Len(h) = 1 /\ h[1] = b[1]
  BY <1>1
<1> HIDE DEF h
<1>4. h \o Tail(b) = b
  BY <1>2, <1>3, BackInFront
<1> QED
  BY <1>2, <1>4 DEF h

-----------------------------------------------------------------------------
(* What a command fires for a change of its card.                          *)

LEMMA EventTypes ==
  ASSUME NEW pre \in CardView \cup {NoView}, NEW post \in CardView
  PROVE  /\ StatusEvent(pre, post) \in HookEventRecord
         /\ pre # NoView => LabelEvent(pre, post) \in HookEventRecord
<1>1. pre # NoView => pre.status \in Status \cup {""}
  BY DEF CardView
<1>2. (IF pre = NoView THEN "" ELSE pre.status) \in Status \cup {""}
  BY <1>1
<1>3. post.status \in Status /\ post.type \in Type /\ post.revision \in Nat
  BY DEF CardView
<1>4. StatusEvent(pre, post) \in HookEventRecord
  BY <1>2, <1>3 DEF StatusEvent, HookEventRecord, HookEvent
<1>5. pre # NoView => LabelEvent(pre, post) \in HookEventRecord
  BY <1>3 DEF LabelEvent, HookEventRecord, HookEvent, CardView
<1> QED
  BY <1>4, <1>5

StatusChanged(pre, post) == pre = NoView \/ pre.status # post.status
LabelsChanged(pre, post) == pre # NoView /\ pre.labels # post.labels

\* What a command may do to its card: create makes one, delete removes it,
\* and the others change what they look for hooks about, and no more.
OwnCall(c, pre, post) ==
  /\ c \in Commands \cup HandlerCommands
  /\ pre \in CardView \cup {NoView} /\ post \in CardView \cup {NoView}
  /\ pre = NoView <=> c.op = "create"
  /\ post = NoView <=> c.op = "delete"
  /\ c.op \in HookedOps =>
       /\ StatusChanged(pre, post) => "status-change" \in Candidates(c)
       /\ LabelsChanged(pre, post) => "label-change" \in Candidates(c)

\* An event that reports a change from pre to post.
OwnEvent(ev, pre, post) ==
  \/ ev = StatusEvent(pre, post) /\ StatusChanged(pre, post)
  \/ LabelsChanged(pre, post) /\ ev = LabelEvent(pre, post)

\* Those for the status first, and each kind in the order of the file.
InTurn(f) ==
  \A i, j \in DOMAIN f : i < j =>
    \/ /\ f[i].event.event = f[j].event.event
       /\ f[i].entry < f[j].entry
    \/ /\ f[i].event.event = "status-change"
       /\ f[j].event.event = "label-change"

LEMMA FiresNothing ==
  ASSUME NEW c, NEW pre, NEW post
  PROVE  Fired(c, <<>>, pre, post) = <<>>
BY NoHooksMatch DEF Fired

LEMMA CandidateOps ==
  ASSUME NEW c
  PROVE  /\ "status-change" \in Candidates(c) => c.op # "label"
         /\ "label-change" \in Candidates(c) => c.op \in {"update", "label"}
BY DEF Candidates

\* The two halves of what a command fires.
StatusHalf(hooks, pre, post) ==
  IF StatusChanged(pre, post) THEN MatchHooks(hooks, StatusEvent(pre, post))
                              ELSE <<>>
LabelHalf(hooks, pre, post) ==
  IF LabelsChanged(pre, post) THEN MatchHooks(hooks, LabelEvent(pre, post))
                              ELSE <<>>

LEMMA FiredHalves ==
  ASSUME NEW c, NEW hooks, NEW pre, NEW post, OwnCall(c, pre, post),
         c.op \in HookedOps
  PROVE  /\ Fired(c, hooks, pre, post)
              = StatusHalf(hooks, pre, post) \o LabelHalf(hooks, pre, post)
         /\ post \in CardView
<1>1. StatusChanged(pre, post) => c.op # "label"
  BY CandidateOps DEF OwnCall
<1>2. LabelsChanged(pre, post) => c.op \in {"update", "label"}
  BY CandidateOps DEF OwnCall
<1>3. c.op \in {"update", "label"} => pre # NoView
  BY DEF OwnCall
<1>4. post \in CardView
  BY DEF OwnCall, HookedOps
<1> QED
  BY <1>1, <1>2, <1>3, <1>4
  DEF Fired, StatusHalf, LabelHalf, StatusChanged, LabelsChanged

HalvesAre(hooks, pre, post, a, b) ==
  /\ a \in Seq(Firing) /\ Ordered(a) /\ b \in Seq(Firing) /\ Ordered(b)
  /\ \A i \in DOMAIN a :
       StatusChanged(pre, post) /\ FiringOf(hooks, StatusEvent(pre, post), a[i])
  /\ \A i \in DOMAIN b :
       LabelsChanged(pre, post) /\ FiringOf(hooks, LabelEvent(pre, post), b[i])
  /\ \A n \in DOMAIN hooks :
       /\ StatusChanged(pre, post) /\ hookMatches(hooks[n], StatusEvent(pre, post))
            => \E i \in DOMAIN a : a[i].entry = n
       /\ LabelsChanged(pre, post) /\ hookMatches(hooks[n], LabelEvent(pre, post))
            => \E i \in DOMAIN b : b[i].entry = n

LEMMA Halves ==
  ASSUME NEW hooks \in Seq(RawHook), NEW pre \in CardView \cup {NoView},
         NEW post \in CardView
  PROVE  HalvesAre(hooks, pre, post, StatusHalf(hooks, pre, post),
                   LabelHalf(hooks, pre, post))
<1> DEFINE a == StatusHalf(hooks, pre, post)
           b == LabelHalf(hooks, pre, post)
<1>1. StatusEvent(pre, post) \in HookEventRecord
  BY EventTypes
<1>2. LabelsChanged(pre, post) => LabelEvent(pre, post) \in HookEventRecord
  BY EventTypes DEF LabelsChanged
<1>3. /\ a \in Seq(Firing) /\ Ordered(a)
      /\ \A i \in DOMAIN a : StatusChanged(pre, post) /\ FiringOf(hooks, StatusEvent(pre, post), a[i])
      /\ \A n \in DOMAIN hooks :
           StatusChanged(pre, post) /\ hookMatches(hooks[n], StatusEvent(pre, post))
             => \E i \in DOMAIN a : a[i].entry = n
  <2>1. CASE StatusChanged(pre, post)
    <3>1. a = MatchHooks(hooks, StatusEvent(pre, post))
      BY <2>1 DEF StatusHalf
    <3> HIDE DEF a
    <3> QED
      BY <1>1, <2>1, <3>1, Matches
  <2>2. CASE ~StatusChanged(pre, post)
    <3>1. a = <<>>
      BY <2>2 DEF StatusHalf
    <3> HIDE DEF a
    <3> QED
      BY <2>2, <3>1 DEF Ordered
  <2> QED
    BY <2>1, <2>2
<1>4. /\ b \in Seq(Firing) /\ Ordered(b)
      /\ \A i \in DOMAIN b : LabelsChanged(pre, post) /\ FiringOf(hooks, LabelEvent(pre, post), b[i])
      /\ \A n \in DOMAIN hooks :
           LabelsChanged(pre, post) /\ hookMatches(hooks[n], LabelEvent(pre, post))
             => \E i \in DOMAIN b : b[i].entry = n
  <2>1. CASE LabelsChanged(pre, post)
    <3>1. b = MatchHooks(hooks, LabelEvent(pre, post))
      BY <2>1 DEF LabelHalf
    <3> HIDE DEF b
    <3> QED
      BY <1>2, <2>1, <3>1, Matches
  <2>2. CASE ~LabelsChanged(pre, post)
    <3>1. b = <<>>
      BY <2>2 DEF LabelHalf
    <3> HIDE DEF b
    <3> QED
      BY <2>2, <3>1 DEF Ordered
  <2> QED
    BY <2>1, <2>2
<1> HIDE DEF a, b
<1>5. HalvesAre(hooks, pre, post, a, b)
  BY <1>3, <1>4 DEF HalvesAre
<1> QED
  BY <1>5 DEF a, b

\* f is what is to be fired for the change.
FiresRight(hooks, pre, post, f) ==
  /\ f \in Seq(Firing)
  /\ \A i \in DOMAIN f : /\ OwnEvent(f[i].event, pre, post)
                         /\ f[i].hook = hooks[f[i].entry]
  /\ {f[i].entry : i \in DOMAIN f} = Concerned(hooks, pre, post)
  /\ InTurn(f)

\* The hooks a command fires are those that ask for its change.
LEMMA FiredIs ==
  ASSUME NEW c, NEW hooks \in Seq(RawHook), NEW pre, NEW post,
         OwnCall(c, pre, post), c.op \in HookedOps
  PROVE  FiresRight(hooks, pre, post, Fired(c, hooks, pre, post))
<1> DEFINE a == StatusHalf(hooks, pre, post)
           b == LabelHalf(hooks, pre, post)
           f == a \o b
           SE == StatusEvent(pre, post)
           LE == LabelEvent(pre, post)
           S == StatusChanged(pre, post)
           L == LabelsChanged(pre, post)
<1>1. Fired(c, hooks, pre, post) = f /\ post \in CardView
  BY FiredHalves
<1>2. pre \in CardView \cup {NoView}
  BY DEF OwnCall
<1>3. /\ a \in Seq(Firing) /\ Ordered(a) /\ b \in Seq(Firing) /\ Ordered(b)
      /\ \A i \in DOMAIN a : S /\ FiringOf(hooks, SE, a[i])
      /\ \A i \in DOMAIN b : L /\ FiringOf(hooks, LE, b[i])
      /\ \A n \in DOMAIN hooks :
           /\ S /\ hookMatches(hooks[n], SE) => \E i \in DOMAIN a : a[i].entry = n
           /\ L /\ hookMatches(hooks[n], LE) => \E i \in DOMAIN b : b[i].entry = n
  <2>1. HalvesAre(hooks, pre, post, a, b)
    BY <1>1, <1>2, Halves
  <2> HIDE DEF a, b
  <2> QED
    BY <2>1 DEF HalvesAre
<1>4. SE.event = "status-change" /\ LE.event = "label-change"
  BY DEF StatusEvent, LabelEvent
<1>5. /\ \A h : hookMatches(h, SE) => h.event = "status-change"
      /\ \A h : hookMatches(h, LE) => h.event = "label-change"
  BY <1>4 DEF hookMatches
<1>6. \A h : Concerns(h, pre, post)
               <=> (S /\ hookMatches(h, SE)) \/ (L /\ hookMatches(h, LE))
  BY <1>5 DEF Concerns, StatusChanged, LabelsChanged
<1>7. Concerned(hooks, pre, post)
        = {n \in DOMAIN hooks : Concerns(hooks[n], pre, post)}
  BY DEF Concerned
<1>8. /\ \A ev : L /\ ev = LE => OwnEvent(ev, pre, post)
      /\ \A ev : S /\ ev = SE => OwnEvent(ev, pre, post)
  BY DEF OwnEvent
<1> HIDE DEF a, b, SE, LE, S, L
<1>9. /\ \A i \in DOMAIN a :
           /\ OwnEvent(a[i].event, pre, post) /\ a[i].hook = hooks[a[i].entry]
           /\ a[i].entry \in Concerned(hooks, pre, post)
           /\ a[i].event.event = "status-change"
      /\ \A i \in DOMAIN b :
           /\ OwnEvent(b[i].event, pre, post) /\ b[i].hook = hooks[b[i].entry]
           /\ b[i].entry \in Concerned(hooks, pre, post)
           /\ b[i].event.event = "label-change"
  BY <1>3, <1>4, <1>6, <1>7, <1>8 DEF FiringOf
<1>10. /\ f \in Seq(Firing)
       /\ \A i \in DOMAIN a : i \in DOMAIN f /\ f[i] = a[i]
       /\ \A i \in DOMAIN b : Len(a) + i \in DOMAIN f /\ f[Len(a) + i] = b[i]
       /\ \A i \in DOMAIN f :
            \/ i \in DOMAIN a
            \/ \E k \in DOMAIN b : i = Len(a) + k
  BY <1>3, Joined
<1> HIDE DEF f
<1>11. \A i \in DOMAIN f :
         /\ OwnEvent(f[i].event, pre, post) /\ f[i].hook = hooks[f[i].entry]
         /\ f[i].entry \in Concerned(hooks, pre, post)
  BY <1>9, <1>10
<1>13. ASSUME NEW n \in Concerned(hooks, pre, post)
       PROVE  \E i \in DOMAIN f : f[i].entry = n
  <2>1. /\ n \in DOMAIN hooks
        /\ (S /\ hookMatches(hooks[n], SE)) \/ (L /\ hookMatches(hooks[n], LE))
    BY <1>6, <1>7
  <2>2. CASE S /\ hookMatches(hooks[n], SE)
    <3>1. PICK i \in DOMAIN a : a[i].entry = n
      BY <1>3, <2>1, <2>2
    <3> QED
      BY <1>10, <3>1
  <2>3. CASE L /\ hookMatches(hooks[n], LE)
    <3>1. PICK i \in DOMAIN b : b[i].entry = n
      BY <1>3, <2>1, <2>3
    <3> QED
      BY <1>10, <3>1
  <2> QED
    BY <2>1, <2>2, <2>3
<1>14. {f[i].entry : i \in DOMAIN f} = Concerned(hooks, pre, post)
  BY <1>11, <1>13
<1>15. InTurn(f)
  <2> SUFFICES ASSUME NEW i \in DOMAIN f, NEW j \in DOMAIN f, i < j
               PROVE  \/ /\ f[i].event.event = f[j].event.event
                         /\ f[i].entry < f[j].entry
                      \/ /\ f[i].event.event = "status-change"
                         /\ f[j].event.event = "label-change"
    BY DEF InTurn
  <2>0. Len(a) \in Nat /\ DOMAIN a = 1..Len(a) /\ Len(b) \in Nat /\ DOMAIN b = 1..Len(b)
    BY <1>3
  <2>1. ASSUME i \in DOMAIN a, j \in DOMAIN a
        PROVE  /\ f[i].event.event = f[j].event.event
               /\ f[i].entry < f[j].entry
    <3>1. f[i] = a[i] /\ f[j] = a[j]
      BY <1>10, <2>1
    <3>2. a[i].entry < a[j].entry
      BY <1>3, <2>1 DEF Ordered
    <3> QED
      BY <1>9, <2>1, <3>1, <3>2
  <2>2. ASSUME i \in DOMAIN a, NEW k \in DOMAIN b, j = Len(a) + k
        PROVE  /\ f[i].event.event = "status-change"
               /\ f[j].event.event = "label-change"
    <3>1. f[i] = a[i] /\ f[j] = b[k]
      BY <1>10, <2>2
    <3> QED
      BY <1>9, <2>2, <3>1
  <2>3. ASSUME NEW m \in DOMAIN b, i = Len(a) + m,
               NEW k \in DOMAIN b, j = Len(a) + k
        PROVE  /\ f[i].event.event = f[j].event.event
               /\ f[i].entry < f[j].entry
    <3>1. f[i] = b[m] /\ f[j] = b[k]
      BY <1>10, <2>3
    <3>2. m < k
      BY <2>0, <2>3
    <3>3. b[m].entry < b[k].entry
      BY <1>3, <3>2 DEF Ordered
    <3> QED
      BY <1>9, <3>1, <3>3
  <2>4. ~(\E m \in DOMAIN b : i = Len(a) + m /\ j \in DOMAIN a)
    BY <2>0
  <2> QED
    BY <1>10, <2>1, <2>2, <2>3, <2>4
<1>16. FiresRight(hooks, pre, post, f)
  BY <1>10, <1>11, <1>14, <1>15 DEF FiresRight
<1> QED
  BY <1>1, <1>16

\* Hooks that were not loaded would not have fired.
LEMMA NotLoaded ==
  ASSUME NEW c, NEW hooks \in Seq(RawHook), NEW pre, NEW post,
         OwnCall(c, pre, post), c.op \in HookedOps,
         \A n \in DOMAIN hooks : hooks[n].event \notin Candidates(c)
  PROVE  Fired(c, hooks, pre, post) = <<>>
<1> DEFINE f == Fired(c, hooks, pre, post)
<1>1. /\ f \in Seq(Firing)
      /\ {f[i].entry : i \in DOMAIN f} = Concerned(hooks, pre, post)
  BY FiredIs DEF FiresRight
<1>2. ASSUME NEW n \in Concerned(hooks, pre, post) PROVE FALSE
  <2>1. n \in DOMAIN hooks /\ Concerns(hooks[n], pre, post)
    BY DEF Concerned
  <2>2. \/ hooks[n].event = "status-change" /\ StatusChanged(pre, post)
        \/ hooks[n].event = "label-change" /\ LabelsChanged(pre, post)
    BY <2>1 DEF Concerns, StatusChanged, LabelsChanged
  <2>3. hooks[n].event \in Candidates(c)
    BY <2>2 DEF OwnCall
  <2> QED
    BY <2>1, <2>3
<1> HIDE DEF f
<1>3. f = <<>>
  BY <1>1, <1>2, NobodyListed
<1> QED
  BY <1>3 DEF f

-----------------------------------------------------------------------------
(* What the call of a command does to what is seen of the cards.           *)

LEMMA CommandTypes ==
  ASSUME NEW c \in Commands \cup HandlerCommands
  PROVE  /\ c.id \in CardId /\ c.in \in UpdateInput /\ c.in \in Update
         /\ c.in.addLabels \subseteq AllLabel
         /\ c.op = "label" => c.in.status = Keep /\ c.in.claim = Nobody
         /\ c.op \in {"create", "update", "label", "close", "reopen", "defer",
                      "human", "delete"}
<1>1. c \in Command
  BY CommandsAssumption
<1>2. c.in \in Update
  BY <1>1, UpdateInputAssumption DEF Command
<1> QED
  BY <1>1, <1>2, CommandsAssumption DEF Command, Update

LEMMA ViewType ==
  ASSUME NEW rows, rows \in [DOMAIN rows -> Row], NEW lbls, NEW id
  PROVE  /\ id \in DOMAIN rows =>
              /\ ViewIn(rows, lbls, id) \in CardView
              /\ ViewIn(rows, lbls, id) # NoView
              /\ ViewIn(rows, lbls, id).status = rows[id].status
              /\ ViewIn(rows, lbls, id).labels
                   = {l \in AllLabel : <<id, l>> \in lbls}
         /\ id \notin DOMAIN rows => ViewIn(rows, lbls, id) = NoView
<1>1. ASSUME id \in DOMAIN rows PROVE ViewIn(rows, lbls, id) \in CardView
  <2>1. rows[id] \in Row
    BY <1>1
  <2> QED
    BY <1>1, <2>1 DEF ViewIn, CardView, Row
<1>2. ASSUME id \in DOMAIN rows
      PROVE  /\ ViewIn(rows, lbls, id).status = rows[id].status
             /\ ViewIn(rows, lbls, id).labels
                  = {l \in AllLabel : <<id, l>> \in lbls}
  BY <1>2 DEF ViewIn
<1> QED
  BY <1>1, <1>2, NoViewAssumption DEF ViewIn

\* A call of a command is a call of the library.
LEMMA ApplyIsNext ==
  ASSUME NEW c \in Commands \cup HandlerCommands, Apply(c)
  PROVE  Next
<1>1. /\ c.id \in CardId /\ c.in \in UpdateInput
      /\ c.in.addLabels \in SUBSET AllLabel
  BY CommandTypes
<1>2. CASE CreateCard(c.id, BuiltinType, c.in.addLabels, FALSE, {})
  <2>1. BuiltinType \in Type /\ FALSE \in Reasons /\ {} \in SUBSET CardId
    BY CommandsAssumption DEF Type
  <2>2. \E id \in CardId, type \in Type, lbls \in SUBSET AllLabel,
           note \in Reasons, parents \in SUBSET CardId :
          CreateCard(id, type, lbls, note, parents)
    BY <1>1, <1>2, <2>1
  <2> QED
    BY <2>2 DEF Next
<1>3. CASE UpdateCard(c.id, c.in)
  BY <1>1, <1>3 DEF Next
<1>4. CASE CloseCard(c.id, FALSE)
  BY <1>1, <1>4, CommandsAssumption DEF Next
<1>5. CASE ReopenCard(c.id)
  BY <1>1, <1>5 DEF Next
<1>6. CASE DeferCard(c.id, FALSE)
  <2>1. \E id \in CardId, until \in BOOLEAN : DeferCard(id, until)
    BY <1>1, <1>6
  <2> QED
    BY <2>1 DEF Next
<1>7. CASE HumanCard(c.id, FALSE)
  BY <1>1, <1>7, CommandsAssumption DEF Next
<1>8. CASE DeleteCard(c.id)
  BY <1>1, <1>8 DEF Next
<1> QED
  BY <1>2, <1>3, <1>4, <1>5, <1>6, <1>7, <1>8 DEF Apply

\* The rows and labels of the other cards stay.
OnlyCard(id) ==
  /\ \A d \in CardId \ {id} : /\ d \in Live' <=> d \in Live
                              /\ d \in Live => cards'[d] = cards[d]
  /\ \A d \in CardId \ {id} : \A l \in AllLabel :
       <<d, l>> \in labels' <=> <<d, l>> \in labels

LEMMA OthersSeenTheSame ==
  ASSUME NEW id, OnlyCard(id), NEW d \in CardId \ {id}
  PROVE  ViewAfter(d) = View(d)
<1>1. {l \in AllLabel : <<d, l>> \in labels'}
        = {l \in AllLabel : <<d, l>> \in labels}
  BY DEF OnlyCard
<1>2. (d \in DOMAIN cards' <=> d \in DOMAIN cards)
      /\ (d \in DOMAIN cards => cards'[d] = cards[d])
  BY DEF OnlyCard, Live
<1> QED
  BY <1>1, <1>2 DEF View, ViewAfter, ViewIn

LEMMA WriteOnly ==
  ASSUME TypeOK, NEW id \in CardId, LifecycleCall(id)
  PROVE  OnlyCard(id) /\ id \in Live /\ id \in Live'
<1>1. /\ id \in Live
      /\ labels' = labels \/ labels' = labels \cup {<<id, HumanLabel>>}
  BY LifecycleWrites
<1>2. PICK row \in Row, action \in EventAction \ {"none", "delete"},
           noted \in BOOLEAN : Write(id, row, action, noted)
  BY LifecycleWrites
<1>3. Live' = Live /\ \A d \in Live : d # id => cards'[d] = cards[d]
  BY <1>1, <1>2, WriteTypes
<1> QED
  BY <1>1, <1>3 DEF OnlyCard

LEMMA UpdateOnly ==
  ASSUME TypeOK, NEW id \in CardId, NEW in \in UpdateInput, UpdateCard(id, in)
  PROVE  /\ OnlyCard(id) /\ id \in Live /\ id \in Live'
         /\ in.status = Keep /\ in.claim = Nobody =>
              cards'[id].status = cards[id].status
         /\ in.addLabels \cup in.removeLabels = {} => labels' = labels
<1>1. /\ id \in Live
      /\ cards' = [cards EXCEPT ![id] = UpdatedRow(id, in)]
      /\ labels' = (labels \cup {<<id, l>> : l \in in.addLabels})
                      \ {<<id, l>> : l \in in.removeLabels}
  BY DEF UpdateCard, UpdateAllowed, UpdateWrites, Writable
<1>2. /\ Live' = Live /\ cards'[id] = UpdatedRow(id, in)
      /\ \A d \in Live : d # id => cards'[d] = cards[d]
  BY <1>1 DEF TypeOK, Live
<1>3. in.addLabels \cup in.removeLabels = {} => labels' = labels
  BY <1>1
<1>4. ASSUME in.status = Keep, in.claim = Nobody
      PROVE  UpdatedRow(id, in).status = cards[id].status
  <2>1. ~Claiming(id, in) /\ cards[id] \in Row
    BY <1>1, <1>4 DEF Claiming, TypeOK
  <2>2. Bumped(cards[id]) \in Row
        /\ Bumped(cards[id]).status = cards[id].status
    BY <2>1 DEF Bumped, Row
  <2> QED
    BY <1>4, <2>1, <2>2 DEF UpdatedRow, Row
<1>5. \A d \in CardId \ {id} : \A l \in AllLabel :
        <<d, l>> \in labels' <=> <<d, l>> \in labels
  BY <1>1
<1> QED
  BY <1>1, <1>2, <1>3, <1>4, <1>5 DEF OnlyCard

LEMMA CallOnly ==
  ASSUME TypeOK, NEW c \in Commands \cup HandlerCommands, Apply(c)
  PROVE  /\ OnlyCard(c.id)
         /\ c.id \in Live <=> c.op # "create"
         /\ c.id \in Live' <=> c.op # "delete"
         /\ c.op \in HookedOps \ {"create"} =>
              /\ cards'[c.id].status # cards[c.id].status
                   => "status-change" \in Candidates(c)
              /\ labels' # labels => "label-change" \in Candidates(c)
<1>1. c.id \in CardId /\ c.in \in UpdateInput
  BY CommandTypes
<1>2. CASE c.op = "create"
             /\ CreateCard(c.id, BuiltinType, c.in.addLabels, FALSE, {})
  <2>1. /\ c.id \notin Live
        /\ cards' = [d \in Live \cup {c.id} |->
                       IF d = c.id THEN NewRow(BuiltinType) ELSE cards[d]]
        /\ labels' = labels \cup {<<c.id, l>> : l \in c.in.addLabels}
    BY <1>2 DEF CreateCard
  <2>2. Live' = Live \cup {c.id} /\ \A d \in Live : cards'[d] = cards[d]
    BY <2>1 DEF Live
  <2>3. \A d \in CardId \ {c.id} : \A l \in AllLabel :
          <<d, l>> \in labels' <=> <<d, l>> \in labels
    BY <2>1
  <2> QED
    BY <1>2, <2>1, <2>2, <2>3 DEF OnlyCard
<1>3. CASE c.op \in {"update", "label"} /\ UpdateCard(c.id, c.in)
  <2>1. /\ OnlyCard(c.id) /\ c.id \in Live /\ c.id \in Live'
        /\ c.in.status = Keep /\ c.in.claim = Nobody =>
             cards'[c.id].status = cards[c.id].status
        /\ c.in.addLabels \cup c.in.removeLabels = {} => labels' = labels
    BY <1>1, <1>3, UpdateOnly
  <2>2. CASE c.op = "update"
    BY <2>1, <2>2 DEF Candidates, HookEvent
  <2>3. CASE c.op = "label"
    <3>1. cards'[c.id].status = cards[c.id].status
      BY <2>1, <2>3, CommandTypes
    <3> QED
      BY <2>1, <2>3, <3>1 DEF Candidates
  <2> QED
    BY <1>3, <2>2, <2>3
<1>4. CASE \/ c.op = "close" /\ CloseCard(c.id, FALSE)
           \/ c.op = "reopen" /\ ReopenCard(c.id)
           \/ c.op = "defer" /\ DeferCard(c.id, FALSE)
  <2>1. LifecycleCall(c.id)
    BY <1>4, CommandsAssumption DEF LifecycleCall
  <2>2. labels' = labels
    BY <1>4 DEF CloseCard, ReopenCard, DeferCard
  <2> QED
    BY <1>1, <1>4, <2>1, <2>2, WriteOnly DEF Candidates
<1>5. CASE c.op = "human" /\ HumanCard(c.id, FALSE)
  <2>1. LifecycleCall(c.id)
    BY <1>5, CommandsAssumption DEF LifecycleCall
  <2> QED
    BY <1>1, <1>5, <2>1, WriteOnly DEF HookedOps
<1>6. CASE c.op = "delete" /\ DeleteCard(c.id)
  <2>1. /\ c.id \in Live
        /\ cards' = [d \in Live \ {c.id} |-> cards[d]]
        /\ labels' = {l \in labels : l[1] # c.id}
    BY <1>6 DEF DeleteCard
  <2>2. Live' = Live \ {c.id} /\ \A d \in Live' : cards'[d] = cards[d]
    BY <2>1 DEF Live
  <2>3. \A d \in CardId \ {c.id} : \A l \in AllLabel :
          <<d, l>> \in labels' <=> <<d, l>> \in labels
    BY <2>1
  <2> QED
    BY <1>6, <2>1, <2>2, <2>3 DEF OnlyCard, HookedOps
<1> QED
  BY <1>2, <1>3, <1>4, <1>5, <1>6 DEF Apply

\* The step of a command's own call, seen from outside.
LEMMA CallEffects ==
  ASSUME StoreInv, NEW c \in Commands \cup HandlerCommands, Apply(c)
  PROVE  /\ Next /\ StoreInv'
         /\ OwnCall(c, View(c.id), ViewAfter(c.id))
         /\ \A d \in CardId \ {c.id} : ViewAfter(d) = View(d)
<1>1. Next
  BY ApplyIsNext
<1>2. StoreInv' /\ TypeOK /\ TypeOK'
  BY <1>1, StoreStep DEF StoreInv
<1>3. /\ OnlyCard(c.id)
      /\ c.id \in Live <=> c.op # "create"
      /\ c.id \in Live' <=> c.op # "delete"
      /\ c.op \in HookedOps \ {"create"} =>
           /\ cards'[c.id].status # cards[c.id].status
                => "status-change" \in Candidates(c)
           /\ labels' # labels => "label-change" \in Candidates(c)
  BY <1>2, CallOnly
<1>4. cards \in [DOMAIN cards -> Row] /\ cards' \in [DOMAIN cards' -> Row]
  BY <1>2 DEF TypeOK, Live
<1>5. /\ c.id \in Live =>
           /\ View(c.id) \in CardView /\ View(c.id) # NoView
           /\ View(c.id).status = cards[c.id].status
           /\ View(c.id).labels = {l \in AllLabel : <<c.id, l>> \in labels}
      /\ c.id \notin Live => View(c.id) = NoView
  BY <1>4, ViewType DEF View, Live
<1>6. /\ c.id \in Live' =>
           /\ ViewAfter(c.id) \in CardView /\ ViewAfter(c.id) # NoView
           /\ ViewAfter(c.id).status = cards'[c.id].status
           /\ ViewAfter(c.id).labels
                = {l \in AllLabel : <<c.id, l>> \in labels'}
      /\ c.id \notin Live' => ViewAfter(c.id) = NoView
  BY <1>4, ViewType DEF ViewAfter, Live
<1>7. c.op = "create" => /\ "status-change" \in Candidates(c)
                         /\ ~LabelsChanged(View(c.id), ViewAfter(c.id))
  BY <1>3, <1>5 DEF Candidates, LabelsChanged
<1>8. c.op \in HookedOps \ {"create"} =>
        /\ StatusChanged(View(c.id), ViewAfter(c.id))
             => "status-change" \in Candidates(c)
        /\ LabelsChanged(View(c.id), ViewAfter(c.id))
             => "label-change" \in Candidates(c)
  <2> SUFFICES ASSUME c.op \in HookedOps \ {"create"}
               PROVE  /\ StatusChanged(View(c.id), ViewAfter(c.id))
                           => "status-change" \in Candidates(c)
                      /\ LabelsChanged(View(c.id), ViewAfter(c.id))
                           => "label-change" \in Candidates(c)
    OBVIOUS
  <2>1. c.op # "create" /\ c.op # "delete"
    BY DEF HookedOps
  <2>2. /\ View(c.id) # NoView
        /\ View(c.id).status = cards[c.id].status
        /\ View(c.id).labels = {l \in AllLabel : <<c.id, l>> \in labels}
        /\ ViewAfter(c.id).status = cards'[c.id].status
        /\ ViewAfter(c.id).labels = {l \in AllLabel : <<c.id, l>> \in labels'}
    BY <1>3, <1>5, <1>6, <2>1
  <2> QED
    BY <1>3, <2>2 DEF StatusChanged, LabelsChanged
<1>9. OwnCall(c, View(c.id), ViewAfter(c.id))
  BY <1>3, <1>5, <1>6, <1>7, <1>8 DEF OwnCall
<1> QED
  BY <1>1, <1>2, <1>3, <1>9, OthersSeenTheSame

-----------------------------------------------------------------------------
(* The hooks a command loads.                                              *)

\* The hooks in force for c.
InForce(c, active) ==
  /\ active \in HookFiles \cup {<<>>}
  /\ c.op \notin HookedOps => active = <<>>

\* A command loads the hooks in force, or none if no event it may cause is
\* asked for.
Chosen(c, hooks, active) ==
  /\ InForce(c, active)
  /\ \/ hooks = active
     \/ /\ hooks = <<>>
        /\ \A n \in DOMAIN active : active[n].event \notin Candidates(c)

LEMMA FilesAreLists ==
  ASSUME NEW active \in HookFiles \cup {<<>>}
  PROVE  active \in Seq(RawHook)
<1>1. <<>> \in Seq(RawHook)
  OBVIOUS
<1>2. active \in HookFiles => active \in Seq(RawHook)
  BY HookFilesAssumption
<1> QED
  BY <1>1, <1>2

LEMMA Loads ==
  ASSUME file \in HookFiles, NEW c
  PROVE  /\ Chosen(c, loadHookSource(c, 0), ActiveHooks(c))
         /\ loadHookSource(c, 1) = <<>>
<1> DEFINE hooks == LoadHooksFile(file)
<1>1. hooks \in HookFiles \cup {<<>>}
  BY DEF LoadHooksFile
<1>2. loadHookSource(c, 1) = <<>>
  BY DEF loadHookSource, HooksActive
<1>3. c.op \notin HookedOps => Candidates(c) = {}
  BY DEF HookedOps, Candidates
<1>4. /\ loadHookSource(c, 0)
           = IF /\ HooksActive(0, c.noHooks)
                /\ \E i \in DOMAIN hooks : hooks[i].event \in Candidates(c)
             THEN hooks ELSE <<>>
      /\ ActiveHooks(c)
           = IF c.op \in HookedOps /\ HooksActive(0, c.noHooks)
             THEN hooks ELSE <<>>
  BY DEF loadHookSource, ActiveHooks
<1> HIDE DEF hooks
<1>5. CASE c.op \notin HookedOps \/ ~HooksActive(0, c.noHooks)
  <2>1. loadHookSource(c, 0) = <<>> /\ ActiveHooks(c) = <<>>
    BY <1>3, <1>4, <1>5
  <2> QED
    BY <1>2, <2>1 DEF Chosen, InForce
<1>6. CASE c.op \in HookedOps /\ HooksActive(0, c.noHooks)
  <2>1. ActiveHooks(c) = hooks
    BY <1>4, <1>6
  <2>2. CASE \E i \in DOMAIN hooks : hooks[i].event \in Candidates(c)
    <3>1. loadHookSource(c, 0) = hooks
      BY <1>4, <1>6, <2>2
    <3> QED
      BY <1>1, <1>2, <1>6, <2>1, <3>1 DEF Chosen, InForce
  <2>3. CASE ~\E i \in DOMAIN hooks : hooks[i].event \in Candidates(c)
    <3>1. loadHookSource(c, 0) = <<>>
      BY <1>4, <2>3
    <3> QED
      BY <1>1, <1>2, <1>6, <2>1, <2>3, <3>1 DEF Chosen, InForce
  <2> QED
    BY <2>2, <2>3
<1> QED
  BY <1>5, <1>6

\* It fires what the hooks in force ask for.
LEMMA FiredInForce ==
  ASSUME NEW c, NEW hooks, NEW active, Chosen(c, hooks, active),
         NEW pre, NEW post, OwnCall(c, pre, post)
  PROVE  /\ Fired(c, hooks, pre, post) = Fired(c, active, pre, post)
         /\ hooks = <<>> => Fired(c, active, pre, post) = <<>>
         /\ Fired(c, active, pre, post) \in Seq(Firing)
<1>1. active \in Seq(RawHook)
  BY FilesAreLists DEF Chosen, InForce
<1>2. CASE c.op \notin HookedOps
  <2>1. active = <<>> /\ hooks = <<>>
    BY <1>2 DEF Chosen, InForce
  <2>2. Fired(c, hooks, pre, post) = <<>> /\ Fired(c, active, pre, post) = <<>>
    BY <2>1, FiresNothing
  <2>3. <<>> \in Seq(Firing)
    OBVIOUS
  <2> QED
    BY <2>2, <2>3
<1>3. CASE c.op \in HookedOps
  <2>1. Fired(c, active, pre, post) \in Seq(Firing)
    BY <1>1, <1>3, FiredIs DEF FiresRight
  <2>2. CASE hooks = active
    BY <2>1, <2>2, FiresNothing
  <2>3. CASE hooks = <<>>
               /\ \A n \in DOMAIN active : active[n].event \notin Candidates(c)
    <3>1. Fired(c, active, pre, post) = <<>>
      BY <1>1, <1>3, <2>3, NotLoaded
    <3>2. Fired(c, hooks, pre, post) = <<>>
      BY <2>3, FiresNothing
    <3> QED
      BY <2>1, <3>1, <3>2
  <2> QED
    BY <2>2, <2>3 DEF Chosen
<1> QED
  BY <1>2, <1>3

-----------------------------------------------------------------------------
(* What holds of a command in each of its stages.                          *)

Stage == {"idle", "opened", "loaded", "created", "firing", "handler", "woken"}
FiringStage == {"firing", "handler", "woken"}

RunRecord ==
  [pc : Stage, command : Commands \cup {NoCommand},
   hooks : Seq(RawHook), active : Seq(RawHook),
   pre : CardView \cup {NoView}, from : CardView \cup {NoView},
   to : CardView \cup {NoView}, todo : Seq(Firing), ran : Seq(Firing)]

\* The hooks run and the hooks to run are together, and in this order, what
\* the command fired for the change it made.
RunOK(R) ==
  /\ R \in RunRecord
  /\ R.pc # "idle" => R.command \in Commands
  /\ R.pc \notin FiringStage => R.from = NoView /\ R.todo = <<>> /\ R.ran = <<>>
  /\ R.pc = "loaded" => /\ R.command.op # "create"
                        /\ Chosen(R.command, R.hooks, R.active)
  /\ R.pc = "created" => /\ R.to \in CardView
                         /\ OwnCall(R.command, NoView, R.to)
  /\ R.pc \in FiringStage =>
       /\ InForce(R.command, R.active)
       /\ OwnCall(R.command, R.from, R.to)
       /\ R.ran \o R.todo = Fired(R.command, R.active, R.from, R.to)
  /\ R.pc \in {"handler", "woken"} => R.todo # <<>>

RunsOK ==
  /\ file \in HookFiles
  /\ run \in [Proc -> RunRecord]
  /\ \A p \in Proc : RunOK(run[p])

LEMMA RunChanged ==
  ASSUME RunsOK, file' \in HookFiles, NEW p \in Proc, NEW R, RunOK(R),
         run' = [run EXCEPT ![p] = R]
  PROVE  RunsOK'
<1>1. R \in RunRecord
  BY DEF RunOK
<1>2. /\ run' \in [Proc -> RunRecord] /\ run'[p] = R
      /\ \A q \in Proc \ {p} : run'[q] = run[q]
  BY <1>1 DEF RunsOK
<1>3. \A q \in Proc : RunOK(run'[q])
  BY <1>2 DEF RunsOK
<1> QED
  BY <1>2, <1>3 DEF RunsOK

LEMMA IdleOK == RunOK(Idle)
<1>1. <<>> \in Seq(RawHook) /\ <<>> \in Seq(Firing)
  OBVIOUS
<1>2. Idle \in RunRecord
  BY <1>1 DEF Idle, RunRecord, Stage
<1> QED
  BY <1>2 DEF RunOK, Idle, FiringStage

\* A command begins.
LEMMA BeginRun ==
  ASSUME NEW R, RunOK(R), R.pc = "idle", NEW c \in Commands
  PROVE  RunOK([R EXCEPT !.pc = "opened", !.command = c])
<1> DEFINE N == [R EXCEPT !.pc = "opened", !.command = c]
<1>1. R \in RunRecord
  BY DEF RunOK
<1>2. /\ N \in RunRecord /\ N.pc = "opened" /\ N.command = c
      /\ N.from = R.from /\ N.todo = R.todo /\ N.ran = R.ran
  BY <1>1 DEF RunRecord, Stage
<1> HIDE DEF N
<1>3. RunOK(N)
  BY <1>2 DEF RunOK, FiringStage
<1> QED
  BY <1>3 DEF N

\* It loads its hooks.
LEMMA LoadRun ==
  ASSUME NEW R, RunOK(R), R.pc = "opened", R.command.op # "create",
         NEW hooks, NEW active, Chosen(R.command, hooks, active)
  PROVE  RunOK([R EXCEPT !.pc = "loaded", !.hooks = hooks, !.active = active])
<1> DEFINE N == [R EXCEPT !.pc = "loaded", !.hooks = hooks, !.active = active]
<1>1. R \in RunRecord /\ R.command \in Commands
  BY DEF RunOK
<1>2. active \in Seq(RawHook) /\ <<>> \in Seq(RawHook)
  BY FilesAreLists DEF Chosen, InForce
<1>3. hooks \in Seq(RawHook)
  BY <1>2 DEF Chosen
<1>4. /\ N \in RunRecord /\ N.pc = "loaded" /\ N.command = R.command
      /\ N.hooks = hooks /\ N.active = active
      /\ N.from = R.from /\ N.todo = R.todo /\ N.ran = R.ran
  BY <1>1, <1>2, <1>3 DEF RunRecord, Stage
<1> HIDE DEF N
<1>5. RunOK(N)
  BY <1>1, <1>4 DEF RunOK, FiringStage
<1> QED
  BY <1>5 DEF N

\* The attempt that commits: what is to be run is what the change fires.
LEMMA CallRun ==
  ASSUME NEW R, RunOK(R), R.pc = "loaded", NEW from, NEW to,
         OwnCall(R.command, from, to), NEW todo,
         todo = IF R.hooks = <<>> THEN <<>>
                ELSE Fired(R.command, R.hooks, from, to)
  PROVE  RunOK([R EXCEPT !.pc = "firing", !.from = from, !.to = to,
                         !.pre = NoView, !.hooks = <<>>, !.todo = todo])
<1> DEFINE N == [R EXCEPT !.pc = "firing", !.from = from, !.to = to,
                          !.pre = NoView, !.hooks = <<>>, !.todo = todo]
<1>1. /\ R \in RunRecord /\ R.command \in Commands /\ R.ran = <<>>
      /\ Chosen(R.command, R.hooks, R.active)
  BY DEF RunOK, FiringStage
<1>2. /\ todo = Fired(R.command, R.active, from, to)
      /\ todo \in Seq(Firing)
  BY <1>1, FiredInForce
<1>3. from \in CardView \cup {NoView} /\ to \in CardView \cup {NoView}
  BY DEF OwnCall
<1>4. <<>> \in Seq(RawHook)
  OBVIOUS
<1>5. /\ N \in RunRecord /\ N.pc = "firing" /\ N.command = R.command
      /\ N.active = R.active /\ N.from = from /\ N.to = to
      /\ N.todo = todo /\ N.ran = <<>>
  BY <1>1, <1>2, <1>3, <1>4 DEF RunRecord, Stage
<1>6. <<>> \o todo = todo
  BY <1>2
<1> HIDE DEF N
<1>7. RunOK(N)
  BY <1>1, <1>2, <1>5, <1>6 DEF RunOK, FiringStage, Chosen
<1> QED
  BY <1>7 DEF N

\* create commits.
LEMMA CreateRun ==
  ASSUME NEW R, RunOK(R), R.pc = "opened", R.command.op = "create",
         NEW to, OwnCall(R.command, NoView, to)
  PROVE  RunOK([R EXCEPT !.pc = "created", !.to = to])
<1> DEFINE N == [R EXCEPT !.pc = "created", !.to = to]
<1>1. R \in RunRecord /\ R.command \in Commands
  BY DEF RunOK
<1>2. to \in CardView
  BY DEF OwnCall
<1>3. /\ N \in RunRecord /\ N.pc = "created" /\ N.command = R.command
      /\ N.to = to /\ N.from = R.from /\ N.todo = R.todo /\ N.ran = R.ran
  BY <1>1, <1>2 DEF RunRecord, Stage
<1> HIDE DEF N
<1>4. RunOK(N)
  BY <1>1, <1>2, <1>3 DEF RunOK, FiringStage
<1> QED
  BY <1>4 DEF N

\* create loads its hooks.
LEMMA LoadCreateRun ==
  ASSUME NEW R, RunOK(R), R.pc = "created",
         NEW hooks, NEW active, Chosen(R.command, hooks, active),
         NEW todo, todo = Fired(R.command, hooks, NoView, R.to)
  PROVE  RunOK([R EXCEPT !.pc = "firing", !.active = active, !.todo = todo])
<1> DEFINE N == [R EXCEPT !.pc = "firing", !.active = active, !.todo = todo]
<1>1. /\ R \in RunRecord /\ R.command \in Commands
      /\ R.from = NoView /\ R.ran = <<>>
      /\ OwnCall(R.command, NoView, R.to)
  BY DEF RunOK, FiringStage
<1>2. /\ todo = Fired(R.command, active, NoView, R.to)
      /\ todo \in Seq(Firing)
  BY <1>1, FiredInForce
<1>3. active \in Seq(RawHook)
  BY FilesAreLists DEF Chosen, InForce
<1>4. /\ N \in RunRecord /\ N.pc = "firing" /\ N.command = R.command
      /\ N.active = active /\ N.from = NoView /\ N.to = R.to
      /\ N.todo = todo /\ N.ran = <<>>
  BY <1>1, <1>2, <1>3 DEF RunRecord, Stage
<1>5. <<>> \o todo = todo
  BY <1>2
<1> HIDE DEF N
<1>6. RunOK(N)
  BY <1>1, <1>2, <1>4, <1>5 DEF RunOK, FiringStage, Chosen
<1> QED
  BY <1>6 DEF N

\* An attempt that is repeated.
LEMMA BusyRun ==
  ASSUME NEW R, RunOK(R), R.pc = "loaded", NEW v \in CardView \cup {NoView}
  PROVE  RunOK([R EXCEPT !.pre = v])
<1> DEFINE N == [R EXCEPT !.pre = v]
<1>1. R \in RunRecord
  BY DEF RunOK
<1>2. /\ N \in RunRecord /\ N.pc = "loaded" /\ N.command = R.command
      /\ N.hooks = R.hooks /\ N.active = R.active
      /\ N.from = R.from /\ N.todo = R.todo /\ N.ran = R.ran
  BY <1>1 DEF RunRecord
<1> HIDE DEF N
<1>3. RunOK(N)
  BY <1>2 DEF RunOK, FiringStage
<1> QED
  BY <1>3 DEF N

\* A hook starts, and its handler reads the card.
LEMMA HookRun ==
  ASSUME NEW R, RunOK(R), R.pc \in FiringStage, R.todo # <<>>,
         NEW pc \in {"handler", "woken"}
  PROVE  RunOK([R EXCEPT !.pc = pc])
<1> DEFINE N == [R EXCEPT !.pc = pc]
<1>1. R \in RunRecord /\ R.pc # "idle"
  BY DEF RunOK, FiringStage
<1>2. /\ N \in RunRecord /\ N.pc = pc /\ N.command = R.command
      /\ N.active = R.active /\ N.from = R.from /\ N.to = R.to
      /\ N.todo = R.todo /\ N.ran = R.ran
  BY <1>1 DEF RunRecord, Stage
<1> HIDE DEF N
<1>3. RunOK(N)
  BY <1>1, <1>2 DEF RunOK, FiringStage
<1> QED
  BY <1>3 DEF N

\* A hook ends.
LEMMA EndRun ==
  ASSUME NEW R, RunOK(R), R.pc \in {"handler", "woken"}
  PROVE  RunOK([R EXCEPT !.pc = "firing", !.todo = Tail(R.todo),
                         !.ran = Append(R.ran, Head(R.todo))])
<1> DEFINE N == [R EXCEPT !.pc = "firing", !.todo = Tail(R.todo),
                          !.ran = Append(R.ran, Head(R.todo))]
<1>1. /\ R \in RunRecord /\ R.pc \in FiringStage /\ R.todo # <<>>
      /\ R.todo \in Seq(Firing) /\ R.ran \in Seq(Firing)
  BY DEF RunOK, FiringStage, RunRecord
<1>2. /\ Append(R.ran, Head(R.todo)) \in Seq(Firing)
      /\ Tail(R.todo) \in Seq(Firing)
      /\ Append(R.ran, Head(R.todo)) \o Tail(R.todo) = R.ran \o R.todo
  <2> DEFINE a == R.ran
             b == R.todo
  <2>1. a \in Seq(Firing) /\ b \in Seq(Firing) /\ b # <<>>
    BY <1>1
  <2> HIDE DEF a, b
  <2>2. /\ Append(a, Head(b)) \in Seq(Firing) /\ Tail(b) \in Seq(Firing)
        /\ Append(a, Head(b)) \o Tail(b) = a \o b
    BY <2>1, HeadMoves
  <2> QED
    BY <2>2 DEF a, b
<1>3. /\ N \in RunRecord /\ N.pc = "firing" /\ N.command = R.command
      /\ N.active = R.active /\ N.from = R.from /\ N.to = R.to
      /\ N.ran \o N.todo = R.ran \o R.todo
  BY <1>1, <1>2 DEF RunRecord, Stage
<1> HIDE DEF N
<1>4. RunOK(N)
  BY <1>1, <1>3 DEF RunOK, FiringStage
<1> QED
  BY <1>4 DEF N

\* A handler's command fires nothing, so what is left to run stays.
LEMMA NothingInserted ==
  ASSUME NEW R, RunOK(R), R.pc = "woken"
  PROVE  <<Head(R.todo)>> \o <<>> \o Tail(R.todo) = R.todo
<1> DEFINE h == <<Head(R.todo)>>
<1>1. R.todo \in Seq(Firing) /\ R.todo # <<>>
  BY DEF RunOK, RunRecord
<1>2. h \in Seq(Firing) /\ h \o Tail(R.todo) = R.todo
  BY <1>1, HeadBack
<1> HIDE DEF h
<1>3. h \o <<>> = h
  BY <1>2
<1>4. h \o <<>> \o Tail(R.todo) = R.todo
  BY <1>2, <1>3
<1> QED
  BY <1>4 DEF h

LEMMA CardsSeen ==
  ASSUME TypeOK, NEW id
  PROVE  /\ View(id) \in CardView \cup {NoView}
         /\ id \in Live => /\ View(id) \in CardView /\ View(id) # NoView
                           /\ View(id).status = cards[id].status
<1>1. cards \in [DOMAIN cards -> Row]
  BY DEF TypeOK, Live
<1> QED
  BY <1>1, ViewType DEF View, Live

LEMMA RunsInit == HooksInit => RunsOK
<1> SUFFICES ASSUME HooksInit PROVE RunsOK
  OBVIOUS
<1>1. Idle \in RunRecord
  BY IdleOK DEF RunOK
<1> QED
  BY <1>1, IdleOK DEF HooksInit, RunsOK

\* The steps of a process but the calls, which only move its own stage.
Bookkeeping(p) ==
  \/ \E c \in Commands : Begin(p, c)
  \/ Load(p) \/ LoadAfterCreate(p) \/ Refused(p) \/ StartHook(p)
  \/ HookFails(p) \/ Return(p) \/ BusyAttempt(p) \/ HandlerRead(p)
  \/ HandlerExit(p) \/ Crash(p)

LEMMA BookkeepingRuns ==
  ASSUME RunsOK, TypeOK, NEW p \in Proc, Bookkeeping(p)
  PROVE  RunsOK'
<1> DEFINE R == run[p]
<1>0. /\ RunOK(R) /\ R \in RunRecord /\ file \in HookFiles
      /\ run \in [Proc -> RunRecord]
  BY DEF RunsOK
<1>1. ASSUME NEW c \in Commands, Begin(p, c) PROVE RunsOK'
  <2> DEFINE N == [R EXCEPT !.pc = "opened", !.command = c]
  <2>1. run' = [run EXCEPT ![p] = N] /\ file' = file /\ R.pc = "idle"
    BY <1>0, <1>1 DEF Begin, InFlight
  <2> QED
    BY <1>0, <2>1, BeginRun, RunChanged
<1>2. CASE Load(p)
  <2> DEFINE hooks == loadHookSource(R.command, 0)
             active == ActiveHooks(R.command)
             N == [R EXCEPT !.pc = "loaded", !.hooks = hooks,
                            !.active = active]
  <2>1. /\ run' = [run EXCEPT ![p] = N] /\ file' = file
        /\ R.pc = "opened" /\ R.command.op # "create"
    BY <1>0, <1>2 DEF Load
  <2>2. Chosen(R.command, hooks, active)
    BY <1>0, Loads
  <2>3. RunOK(N)
    BY <1>0, <2>1, <2>2, LoadRun
  <2> QED
    BY <1>0, <2>1, <2>3, RunChanged
<1>3. CASE LoadAfterCreate(p)
  <2> DEFINE hooks == loadHookSource(R.command, 0)
             active == ActiveHooks(R.command)
             todo == Fired(R.command, hooks, NoView, R.to)
             N == [R EXCEPT !.pc = "firing", !.active = active, !.todo = todo]
  <2>1. run' = [run EXCEPT ![p] = N] /\ file' = file /\ R.pc = "created"
    BY <1>0, <1>3 DEF LoadAfterCreate
  <2>2. Chosen(R.command, hooks, active)
    BY <1>0, Loads
  <2>3. RunOK(N)
    BY <1>0, <2>1, <2>2, LoadCreateRun
  <2> QED
    BY <1>0, <2>1, <2>3, RunChanged
<1>4. CASE Refused(p) \/ Return(p) \/ Crash(p)
  <2>1. run' = [run EXCEPT ![p] = Idle] /\ file' = file
    BY <1>4 DEF Refused, Return, Crash
  <2> QED
    BY <1>0, <2>1, IdleOK, RunChanged
<1>5. CASE StartHook(p)
  <2> DEFINE N == [R EXCEPT !.pc = "handler"]
  <2>1. /\ run' = [run EXCEPT ![p] = N] /\ file' = file
        /\ R.pc \in FiringStage /\ R.todo # <<>>
    BY <1>0, <1>5 DEF StartHook, FiringStage
  <2>2. RunOK(N)
    BY <1>0, <2>1, HookRun
  <2> QED
    BY <1>0, <2>1, <2>2, RunChanged
<1>6. CASE HandlerRead(p)
  <2> DEFINE N == [R EXCEPT !.pc = "woken"]
  <2>1. /\ run' = [run EXCEPT ![p] = N] /\ file' = file
        /\ R.pc \in FiringStage /\ R.todo # <<>>
    BY <1>0, <1>6 DEF HandlerRead, FiringStage, RunOK
  <2>2. RunOK(N)
    BY <1>0, <2>1, HookRun
  <2> QED
    BY <1>0, <2>1, <2>2, RunChanged
<1>7. CASE HookFails(p) \/ HandlerExit(p)
  <2> DEFINE N == [R EXCEPT !.pc = "firing", !.todo = Tail(R.todo),
                            !.ran = Append(R.ran, Head(R.todo))]
  <2>1. /\ run' = [run EXCEPT ![p] = N] /\ file' = file
        /\ R.pc \in {"handler", "woken"}
    BY <1>0, <1>7 DEF HookFails, HandlerExit, EndHook
  <2>2. RunOK(N)
    BY <1>0, <2>1, EndRun
  <2> QED
    BY <1>0, <2>1, <2>2, RunChanged
<1>8. CASE BusyAttempt(p)
  <2> DEFINE N == [R EXCEPT !.pre = View(R.command.id)]
  <2>1. run' = [run EXCEPT ![p] = N] /\ file' = file /\ R.pc = "loaded"
    BY <1>0, <1>8 DEF BusyAttempt
  <2>2. RunOK(N)
    BY <1>0, <2>1, BusyRun, CardsSeen
  <2> QED
    BY <1>0, <2>1, <2>2, RunChanged
<1> QED
  BY <1>1, <1>2, <1>3, <1>4, <1>5, <1>6, <1>7, <1>8 DEF Bookkeeping

\* The steps that call the library.
LEMMA CallRuns ==
  ASSUME RunsOK, StoreInv, NEW p \in Proc, Call(p) \/ Create(p)
  PROVE  /\ RunsOK' /\ run[p].command \in Commands /\ Apply(run[p].command)
<1> DEFINE R == run[p]
           c == R.command
<1>0. /\ RunOK(R) /\ R \in RunRecord /\ file \in HookFiles
      /\ run \in [Proc -> RunRecord]
  BY DEF RunsOK
<1>1. R.pc # "idle" /\ Apply(c) /\ file' = file
  BY DEF Call, Create
<1>2. c \in Commands
  BY <1>0, <1>1 DEF RunOK
<1>3. OwnCall(c, View(c.id), ViewAfter(c.id))
  BY <1>1, <1>2, CallEffects
<1>4. CASE Call(p)
  <2> DEFINE from == View(c.id)
             to == ViewAfter(c.id)
             todo == IF R.hooks = <<>> THEN <<>>
                     ELSE Fired(c, R.hooks, from, to)
             N == [R EXCEPT !.pc = "firing", !.from = from, !.to = to,
                            !.pre = NoView, !.hooks = <<>>, !.todo = todo]
  <2>1. run' = [run EXCEPT ![p] = N] /\ R.pc = "loaded"
    BY <1>0, <1>4 DEF Call, Captured
  <2> HIDE DEF from, to
  <2>2. OwnCall(c, from, to)
    BY <1>3 DEF from, to
  <2>3. RunOK(N)
    BY <1>0, <2>1, <2>2, CallRun
  <2> QED
    BY <1>0, <1>1, <1>2, <2>1, <2>3, RunChanged
<1>5. CASE Create(p)
  <2> DEFINE to == ViewAfter(c.id)
             N == [R EXCEPT !.pc = "created", !.to = to]
  <2>1. run' = [run EXCEPT ![p] = N] /\ R.pc = "opened" /\ c.op = "create"
    BY <1>0, <1>5 DEF Create
  <2>2. OwnCall(c, NoView, to)
    BY <1>3, <2>1 DEF OwnCall
  <2>3. RunOK(N)
    BY <1>0, <2>1, <2>2, CreateRun
  <2> QED
    BY <1>0, <1>1, <1>2, <2>1, <2>3, RunChanged
<1> QED
  BY <1>4, <1>5

LEMMA HandlerRuns ==
  ASSUME RunsOK, NEW p \in Proc, NEW c \in HandlerCommands,
         HandlerCommand(p, c)
  PROVE  /\ RunsOK' /\ run' = run /\ Apply(c)
<1> DEFINE R == run[p]
<1>0. /\ RunOK(R) /\ R \in RunRecord /\ file \in HookFiles
      /\ run \in [Proc -> RunRecord]
  BY DEF RunsOK
<1>1. loadHookSource(c, 1) = <<>>
  BY <1>0, Loads
<1>2. /\ R.pc = "woken" /\ Apply(c) /\ file' = file
      /\ run' = [run EXCEPT ![p].todo = <<Head(@)>> \o <<>> \o Tail(@)]
  BY <1>1 DEF HandlerCommand
<1>3. <<Head(R.todo)>> \o <<>> \o Tail(R.todo) = R.todo
  BY <1>0, <1>2, NothingInserted
<1>4. run' = [run EXCEPT ![p].todo = R.todo]
  BY <1>2, <1>3
<1>5. run' = run
  BY <1>0, <1>4 DEF RunRecord
<1> QED
  BY <1>2, <1>5 DEF RunsOK

LEMMA ReleaseEffects ==
  ASSUME StoreInv, NEW id \in CardId, ReleaseCard(id, FALSE)
  PROVE  /\ Next /\ StoreInv' /\ id \in Live /\ id \in Live'
         /\ \A d \in CardId \ {id} : ViewAfter(d) = View(d)
         /\ ViewAfter(id).labels = View(id).labels
<1>1. Next
  BY CommandsAssumption DEF Next
<1>2. StoreInv' /\ TypeOK /\ TypeOK'
  BY <1>1, StoreStep DEF StoreInv
<1>3. LifecycleCall(id)
  BY CommandsAssumption DEF LifecycleCall
<1>4. OnlyCard(id) /\ id \in Live /\ id \in Live'
  BY <1>2, <1>3, WriteOnly
<1>5. cards \in [DOMAIN cards -> Row] /\ cards' \in [DOMAIN cards' -> Row]
  BY <1>2 DEF TypeOK, Live
<1>6. labels' = labels
  BY DEF ReleaseCard
<1>7. View(id).labels = {l \in AllLabel : <<id, l>> \in labels}
  BY <1>4, <1>5, ViewType DEF View, Live
<1>8. ViewAfter(id).labels = {l \in AllLabel : <<id, l>> \in labels'}
  BY <1>4, <1>5, ViewType DEF ViewAfter, Live
<1> QED
  BY <1>1, <1>2, <1>4, <1>6, <1>7, <1>8, OthersSeenTheSame

\* Every step keeps RunsOK, and is a step of CardStore or none at all.
LEMMA RunsStep ==
  ASSUME RunsOK, StoreInv, [HooksNext]_allVars
  PROVE  RunsOK' /\ [Next]_vars
<1>0. TypeOK
  BY DEF StoreInv
<1>1. ASSUME NEW p \in Proc, Bookkeeping(p) PROVE RunsOK' /\ [Next]_vars
  <2>1. UNCHANGED vars
    BY <1>1 DEF Bookkeeping, Begin, Load, LoadAfterCreate, Refused, StartHook,
                HookFails, Return, BusyAttempt, HandlerRead, HandlerExit, Crash
  <2> QED
    BY <1>0, <1>1, <2>1, BookkeepingRuns
<1>2. ASSUME NEW p \in Proc, Call(p) \/ Create(p) PROVE RunsOK' /\ [Next]_vars
  <2>1. RunsOK' /\ run[p].command \in Commands /\ Apply(run[p].command)
    BY <1>2, CallRuns
  <2> QED
    BY <2>1, ApplyIsNext
<1>3. ASSUME NEW p \in Proc, NEW c \in HandlerCommands, HandlerCommand(p, c)
      PROVE  RunsOK' /\ [Next]_vars
  <2>1. RunsOK' /\ Apply(c)
    BY <1>3, HandlerRuns
  <2> QED
    BY <2>1, ApplyIsNext
<1>4. CASE Configure
  BY <1>4 DEF Configure, RunsOK
<1>5. ASSUME NEW id \in CardId, LibraryCall(id) PROVE RunsOK' /\ [Next]_vars
  <2>1. ReleaseCard(id, FALSE) /\ file' = file /\ run' = run
    BY <1>5 DEF LibraryCall
  <2> QED
    BY <2>1, ReleaseEffects DEF RunsOK
<1>6. CASE UNCHANGED allVars
  BY <1>6 DEF allVars, hookVars, RunsOK
<1> QED
  BY <1>1, <1>2, <1>3, <1>4, <1>5, <1>6 DEF HooksNext, Step, Bookkeeping

-----------------------------------------------------------------------------
(* What the handlers know.                                                 *)

\* A handler will still read card id for this command.
Pending(R, id) ==
  /\ R.command \in Commands /\ R.command.id = id
  /\ \/ R.pc = "created"
     \/ R.pc \in {"firing", "handler"} /\ R.todo # <<>>
     \/ R.pc = "woken" /\ Len(R.todo) > 1

Agreed(gist, v, e) ==
  /\ gist # NoView
  /\ e = "status-change" => gist.status = v.status
  /\ e = "label-change" => gist.labels = v.labels

HeardOK ==
  /\ heard \in [CardId -> CardGist \cup {NoView}]
  /\ missed \in [CardId -> SUBSET HookEvent]

\* What was not lost is known, or a handler will still read it.
WakeInv ==
  \A d \in Live : \A e \in HookEvent \ missed[d] :
    \/ Agreed(heard[d], View(d), e)
    \/ \E p \in Proc : Pending(run[p], d)

\* The step loses nothing of what the handlers know of d.
StaysKnown(d, e) ==
  /\ d \in Live /\ e \notin missed[d] /\ heard'[d] = heard[d]
  /\ e = "status-change" => ViewAfter(d).status = View(d).status
  /\ e = "label-change" => ViewAfter(d).labels = View(d).labels
  /\ \A p \in Proc : Pending(run[p], d) => Pending(run'[p], d)

LEMMA WakeKept ==
  ASSUME WakeInv,
         \A d \in Live' : \A e \in HookEvent \ missed'[d] :
           \/ StaysKnown(d, e)
           \/ Agreed(heard'[d], ViewAfter(d), e)
           \/ \E p \in Proc : Pending(run'[p], d)
  PROVE  WakeInv'
<1> SUFFICES ASSUME NEW d \in Live', NEW e \in HookEvent \ missed'[d]
             PROVE  \/ Agreed(heard'[d], ViewAfter(d), e)
                    \/ \E p \in Proc : Pending(run'[p], d)
  BY DEF WakeInv, View, ViewAfter
<1>1. CASE StaysKnown(d, e)
  <2>1. \/ Agreed(heard[d], View(d), e)
        \/ \E p \in Proc : Pending(run[p], d)
    BY <1>1 DEF StaysKnown, WakeInv
  <2>2. CASE Agreed(heard[d], View(d), e)
    BY <1>1, <2>2 DEF StaysKnown, Agreed
  <2>3. CASE \E p \in Proc : Pending(run[p], d)
    BY <1>1, <2>3 DEF StaysKnown
  <2> QED
    BY <2>1, <2>2, <2>3
<1> QED
  BY <1>1

\* Whether a command that fires nothing changed anything a hook asks for.
LEMMA FiredConcerned ==
  ASSUME NEW c, NEW active, InForce(c, active), NEW pre, NEW post,
         OwnCall(c, pre, post), Fired(c, active, pre, post) = <<>>
  PROVE  Concerned(active, pre, post) = {}
<1>1. active \in Seq(RawHook)
  BY FilesAreLists DEF InForce
<1>2. CASE c.op \in HookedOps
  <2> DEFINE f == Fired(c, active, pre, post)
  <2>1. FiresRight(active, pre, post, f) /\ f = <<>>
    BY <1>1, <1>2, FiredIs
  <2> HIDE DEF f
  <2>2. {f[i].entry : i \in DOMAIN f} = Concerned(active, pre, post)
    BY <2>1 DEF FiresRight
  <2>3. DOMAIN f = {}
    BY <2>1
  <2> QED
    BY <2>2, <2>3
<1>3. CASE c.op \notin HookedOps
  <2>1. active = <<>>
    BY <1>3 DEF InForce
  <2> QED
    BY <2>1 DEF Concerned
<1> QED
  BY <1>2, <1>3

\* m is what is missed after a change that adds nothing but what nobody was
\* told of.
MissedAfter(c, active, pre, post, m) ==
  /\ m \in [CardId -> SUBSET HookEvent]
  /\ \A d \in CardId : missed[d] \subseteq m[d]
  /\ Concerned(active, pre, post) = {} /\ post # NoView =>
       \A e \in HookEvent \ m[c.id] :
         /\ pre # NoView
         /\ e = "status-change" => pre.status = post.status
         /\ e = "label-change" => pre.labels = post.labels

LEMMA UnheardKinds ==
  ASSUME HeardOK, NEW c, c.id \in CardId, NEW active, NEW pre, NEW post
  PROVE  MissedAfter(c, active, pre, post, Unheard(c, active, pre, post))
<1>1. Kinds(pre, post) \subseteq HookEvent
  BY DEF Kinds, HookEvent
<1>2. post # NoView => \A e \in HookEvent \ Kinds(pre, post) :
        /\ pre # NoView
        /\ e = "status-change" => pre.status = post.status
        /\ e = "label-change" => pre.labels = post.labels
  BY DEF Kinds
<1> DEFINE m == Unheard(c, active, pre, post)
<1>3. CASE Concerned(active, pre, post) = {}
  <2>1. m = [missed EXCEPT ![c.id] = @ \cup Kinds(pre, post)]
    BY <1>3 DEF Unheard
  <2>2. /\ m \in [CardId -> SUBSET HookEvent]
        /\ m[c.id] = missed[c.id] \cup Kinds(pre, post)
        /\ \A d \in CardId : missed[d] \subseteq m[d]
    BY <1>1, <2>1 DEF HeardOK
  <2> HIDE DEF m
  <2>3. \A e \in HookEvent \ m[c.id] : e \in HookEvent \ Kinds(pre, post)
    BY <2>2
  <2>4. post # NoView =>
          \A e \in HookEvent \ m[c.id] :
            /\ pre # NoView
            /\ e = "status-change" => pre.status = post.status
            /\ e = "label-change" => pre.labels = post.labels
    BY <1>2, <2>3
  <2> QED
    BY <2>2, <2>4 DEF m, MissedAfter
<1>4. CASE Concerned(active, pre, post) # {}
  <2>1. m = missed
    BY <1>4 DEF Unheard
  <2> QED
    BY <1>4, <2>1 DEF HeardOK, MissedAfter
<1> QED
  BY <1>3, <1>4

\* A step of p that tells and loses nothing: what p owed it still owes.
LEMMA QuietStep ==
  ASSUME RunsOK, WakeInv, HeardOK, NEW p \in Proc, UNCHANGED vars,
         heard' = heard,
         \A d \in CardId : missed[d] \subseteq missed'[d],
         run' = [run EXCEPT ![p] = run'[p]],
         \A d \in CardId : \/ Pending(run[p], d) => Pending(run'[p], d)
                           \/ missed'[d] = HookEvent,
         TypeOK
  PROVE  WakeInv'
<1>1. Live' = Live /\ \A d \in CardId : ViewAfter(d) = View(d)
  BY DEF vars, Live, View, ViewAfter
<1>2. \A q \in Proc \ {p} : run'[q] = run[q]
  BY DEF RunsOK
<1>3. ASSUME NEW d \in Live', NEW e \in HookEvent \ missed'[d]
      PROVE  StaysKnown(d, e)
  <2>1. d \in Live /\ d \in CardId
    BY <1>1 DEF TypeOK
  <2>2. Pending(run[p], d) => Pending(run'[p], d)
    BY <1>3, <2>1
  <2>3. \A q \in Proc : Pending(run[q], d) => Pending(run'[q], d)
    BY <1>2, <2>2
  <2> QED
    BY <1>1, <2>1, <2>3 DEF StaysKnown
<1> QED
  BY <1>3, WakeKept

\* The steps of a process but the calls and the handler's reading.
LEMMA BookkeepingWakes ==
  ASSUME RunsOK, WakeInv, HeardOK, TypeOK, NEW p \in Proc, Bookkeeping(p),
         ~HandlerRead(p)
  PROVE  WakeInv' /\ HeardOK'
<1> DEFINE R == run[p]
           id == R.command.id
<1>0. /\ RunOK(R) /\ R \in RunRecord /\ file \in HookFiles
      /\ run \in [Proc -> RunRecord]
  BY DEF RunsOK
<1>1. UNCHANGED vars /\ heard' = heard
  BY DEF Bookkeeping, Begin, Load, LoadAfterCreate, Refused, StartHook,
         HookFails, Return, BusyAttempt, HandlerExit, Crash
<1>2. R.pc # "idle" => R.command \in Commands /\ id \in CardId
  BY <1>0, CommandTypes DEF RunOK
<1>3. CASE \/ \E c \in Commands : Begin(p, c)
           \/ Load(p) \/ Refused(p) \/ StartHook(p) \/ Return(p)
           \/ BusyAttempt(p)
  <2>1. missed' = missed
    BY <1>3 DEF Begin, Load, Refused, StartHook, Return, BusyAttempt
  <2>2. run' = [run EXCEPT ![p] = run'[p]]
    BY <1>0, <1>3 DEF Begin, Load, Refused, StartHook, Return, BusyAttempt
  <2>3. ASSUME NEW d \in CardId, Pending(R, d) PROVE Pending(run'[p], d)
    <3>1. R.pc \in FiringStage \/ R.pc = "created"
      BY <2>3 DEF Pending, FiringStage
    <3>2. StartHook(p)
      BY <1>3, <2>3, <3>1 DEF Begin, Load, Refused, Return, BusyAttempt,
                              InFlight, FiringStage, Pending
    <3>3. run'[p] = [R EXCEPT !.pc = "handler"] /\ R.todo # <<>>
      BY <1>0, <3>2 DEF StartHook
    <3> QED
      BY <1>0, <2>3, <3>3 DEF Pending, RunRecord
  <2>4. HeardOK'
    BY <1>1, <2>1 DEF HeardOK
  <2> QED
    BY <1>1, <2>1, <2>2, <2>3, <2>4, QuietStep
<1>4. CASE LoadAfterCreate(p)
  <2> DEFINE c == R.command
             hooks == loadHookSource(c, 0)
             active == ActiveHooks(c)
             todo == Fired(c, hooks, NoView, R.to)
             N == [R EXCEPT !.pc = "firing", !.active = active, !.todo = todo]
  <2>1. /\ R.pc = "created" /\ run' = [run EXCEPT ![p] = N]
        /\ missed' = Unheard(c, active, NoView, R.to)
    BY <1>0, <1>4 DEF LoadAfterCreate
  <2>2. /\ OwnCall(c, NoView, R.to) /\ R.to # NoView
        /\ Chosen(c, hooks, active)
    BY <1>0, <2>1, Loads, NoViewAssumption DEF RunOK
  <2>3. run'[p] = N /\ run' = [run EXCEPT ![p] = run'[p]]
    BY <1>0, <2>1
  <2>4. N.pc = "firing" /\ N.command = c /\ N.todo = todo
    BY <1>0 DEF RunRecord
  <2> HIDE DEF N
  <2>5. c \in Commands /\ c.id \in CardId
    BY <1>2, <2>1
  <2>6. todo = Fired(c, active, NoView, R.to)
    BY <2>2, FiredInForce
  <2>7. InForce(c, active)
    BY <2>2 DEF Chosen
  <2> HIDE DEF todo, active, hooks
  <2>8. /\ missed' \in [CardId -> SUBSET HookEvent]
        /\ \A d \in CardId : missed[d] \subseteq missed'[d]
        /\ Concerned(active, NoView, R.to) = {} => missed'[c.id] = HookEvent
    <3>1. MissedAfter(c, active, NoView, R.to, missed')
      BY <2>1, <2>5, UnheardKinds
    <3> QED
      BY <2>2, <2>5, <3>1 DEF MissedAfter
  <2>9. ASSUME NEW d \in CardId, Pending(R, d)
        PROVE  Pending(run'[p], d) \/ missed'[d] = HookEvent
    <3>1. c.id = d
      BY <2>9 DEF Pending
    <3>2. CASE todo = <<>>
      <4>1. Concerned(active, NoView, R.to) = {}
        BY <2>2, <2>6, <2>7, <3>2, FiredConcerned
      <4> QED
        BY <2>8, <3>1, <4>1
    <3>3. CASE todo # <<>>
      BY <2>3, <2>4, <2>5, <3>1, <3>3 DEF Pending
    <3> QED
      BY <3>2, <3>3
  <2>10. HeardOK'
    BY <1>1, <2>8 DEF HeardOK
  <2> QED
    BY <1>1, <2>3, <2>8, <2>9, <2>10, QuietStep
<1>5. CASE HookFails(p) \/ HandlerExit(p)
  <2> DEFINE N == [R EXCEPT !.pc = "firing", !.todo = Tail(R.todo),
                            !.ran = Append(R.ran, Head(R.todo))]
  <2>1. /\ R.pc \in {"handler", "woken"} /\ run' = [run EXCEPT ![p] = N]
        /\ missed' = [missed EXCEPT ![id] = HookEvent] \/ missed' = missed
        /\ R.pc = "handler" => missed' = [missed EXCEPT ![id] = HookEvent]
    BY <1>0, <1>5 DEF HookFails, HandlerExit, EndHook
  <2>2. R.todo \in Seq(Firing) /\ R.todo # <<>>
    BY <1>0, <2>1 DEF RunOK, RunRecord
  <2>3. Tail(R.todo) # <<>> <=> Len(R.todo) > 1
    BY <2>2, HeadMoves
  <2>4. run'[p] = N /\ run' = [run EXCEPT ![p] = run'[p]]
    BY <1>0, <2>1
  <2>5. N.pc = "firing" /\ N.command = R.command /\ N.todo = Tail(R.todo)
    BY <1>0 DEF RunRecord
  <2> HIDE DEF N
  <2>6. /\ \A d \in CardId : missed[d] \subseteq missed'[d]
        /\ missed' \in [CardId -> SUBSET HookEvent]
        /\ R.pc = "handler" => missed'[id] = HookEvent
    BY <1>2, <2>1 DEF HeardOK
  <2>7. ASSUME NEW d \in CardId, Pending(R, d)
        PROVE  Pending(run'[p], d) \/ missed'[d] = HookEvent
    <3>1. id = d
      BY <2>7 DEF Pending
    <3>2. CASE R.pc = "handler"
      BY <2>6, <3>1, <3>2
    <3>3. CASE R.pc = "woken"
      BY <2>3, <2>4, <2>5, <2>7, <3>3 DEF Pending
    <3> QED
      BY <2>1, <3>2, <3>3
  <2>8. HeardOK'
    BY <1>1, <2>6 DEF HeardOK
  <2> QED
    BY <1>1, <2>4, <2>6, <2>7, <2>8, QuietStep
<1>6. CASE Crash(p)
  <2>1. /\ R.pc # "idle" /\ run' = [run EXCEPT ![p] = Idle]
        /\ missed' = IF R.pc = "created" \/ R.todo # <<>>
                     THEN [missed EXCEPT ![id] = HookEvent] ELSE missed
    BY <1>6 DEF Crash, InFlight
  <2>2. run' = [run EXCEPT ![p] = run'[p]]
    BY <1>0, <2>1
  <2>3. /\ \A d \in CardId : missed[d] \subseteq missed'[d]
        /\ missed' \in [CardId -> SUBSET HookEvent]
        /\ R.pc = "created" \/ R.todo # <<>> => missed'[id] = HookEvent
    BY <1>2, <2>1 DEF HeardOK
  <2>4. ASSUME NEW d \in CardId, Pending(R, d) PROVE missed'[d] = HookEvent
    <3>1. id = d /\ (R.pc = "created" \/ R.todo # <<>>)
      BY <1>0, <2>4 DEF Pending, RunOK
    <3> QED
      BY <2>3, <3>1
  <2>5. HeardOK'
    BY <1>1, <2>3 DEF HeardOK
  <2> QED
    BY <1>1, <2>2, <2>3, <2>4, <2>5, QuietStep
<1> QED
  BY <1>3, <1>4, <1>5, <1>6 DEF Bookkeeping

LEMMA SeenIsLive ==
  ASSUME NEW d
  PROVE  /\ View(d) # NoView => d \in Live
         /\ ViewAfter(d) # NoView => d \in Live'
BY DEF View, ViewAfter, ViewIn, Live

\* A call loses nothing but what it adds to missed, if it fires what it
\* should.
LEMMA CallWakes ==
  ASSUME StoreInv, WakeInv, HeardOK,
         NEW c \in Commands \cup HandlerCommands, Apply(c), heard' = heard,
         missed' \in [CardId -> SUBSET HookEvent],
         \A d \in CardId : missed[d] \subseteq missed'[d],
         \A d \in CardId : \A q \in Proc :
           Pending(run[q], d) => Pending(run'[q], d),
         \/ \E q \in Proc : Pending(run'[q], c.id)
         \/ ViewAfter(c.id) = NoView
         \/ \A e \in HookEvent \ missed'[c.id] :
              /\ View(c.id) # NoView
              /\ e = "status-change" => View(c.id).status = ViewAfter(c.id).status
              /\ e = "label-change" => View(c.id).labels = ViewAfter(c.id).labels
  PROVE  WakeInv' /\ HeardOK'
<1>1. StoreInv' /\ \A d \in CardId \ {c.id} : ViewAfter(d) = View(d)
  BY CallEffects
<1>2. ASSUME NEW d \in Live', NEW e \in HookEvent \ missed'[d]
      PROVE  StaysKnown(d, e) \/ \E q \in Proc : Pending(run'[q], d)
  <2>1. d \in CardId /\ e \notin missed[d]
    BY <1>1, <1>2 DEF StoreInv, TypeOK
  <2>2. ViewAfter(d) # NoView
    <3>1. TypeOK'
      BY <1>1 DEF StoreInv
    <3>2. cards' \in [DOMAIN cards' -> Row]
      BY <3>1 DEF TypeOK, Live
    <3> QED
      BY <1>2, <3>2, ViewType DEF ViewAfter, Live
  <2>3. CASE d # c.id
    <3>1. ViewAfter(d) = View(d)
      BY <1>1, <2>1, <2>3
    <3>2. d \in Live
      BY <2>2, <3>1, SeenIsLive
    <3> QED
      BY <2>1, <3>1, <3>2 DEF StaysKnown
  <2>4. CASE d = c.id /\ ~(\E q \in Proc : Pending(run'[q], c.id))
    <3>1. /\ View(d) # NoView
          /\ e = "status-change" => View(d).status = ViewAfter(d).status
          /\ e = "label-change" => View(d).labels = ViewAfter(d).labels
      BY <1>2, <2>2, <2>4
    <3>2. d \in Live
      BY <3>1, SeenIsLive
    <3> QED
      BY <2>1, <3>1, <3>2 DEF StaysKnown
  <2> QED
    BY <2>3, <2>4
<1>3. WakeInv'
  BY <1>2, WakeKept
<1> QED
  BY <1>3 DEF HeardOK

LEMMA CallStepWakes ==
  ASSUME RunsOK, StoreInv, WakeInv, HeardOK, NEW p \in Proc, Call(p)
  PROVE  WakeInv' /\ HeardOK'
<1> DEFINE R == run[p]
           c == R.command
           from == View(c.id)
           to == ViewAfter(c.id)
           N == run'[p]
<1>0. /\ RunOK(R) /\ R \in RunRecord /\ run \in [Proc -> RunRecord]
  BY DEF RunsOK
<1>1. /\ R.pc = "loaded" /\ Apply(c) /\ heard' = heard
      /\ missed' = Unheard(c, R.active, from, to)
      /\ \A q \in Proc \ {p} : run'[q] = run[q]
      /\ N.pc = "firing" /\ N.command = c /\ N.active = R.active
      /\ N.from = from /\ N.to = to
  BY <1>0 DEF Call, RunRecord
<1>2. RunsOK' /\ c \in Commands
  BY CallRuns
<1>3. /\ RunOK(N) /\ N.todo \in Seq(Firing)
      /\ N.ran \o N.todo = Fired(c, R.active, from, to)
      /\ InForce(c, R.active) /\ OwnCall(c, from, to)
  BY <1>1, <1>2 DEF RunsOK, RunOK, FiringStage, RunRecord
<1>4. N.ran = <<>>
  BY <1>0, <1>1 DEF Call, RunOK, FiringStage, RunRecord
<1>5. N.todo = Fired(c, R.active, from, to)
  <2>1. <<>> \o N.todo = N.todo
    BY <1>3
  <2> QED
    BY <1>3, <1>4, <2>1
<1>6. c.id \in CardId
  BY <1>2, CommandTypes
<1> HIDE DEF N, from, to
<1>7. MissedAfter(c, R.active, from, to, missed')
  BY <1>1, <1>6, UnheardKinds
<1>8. N.todo # <<>> => Pending(N, c.id)
  BY <1>1, <1>2 DEF Pending
<1>9. N.todo = <<>> /\ to # NoView =>
        \A e \in HookEvent \ missed'[c.id] :
          /\ from # NoView
          /\ e = "status-change" => from.status = to.status
          /\ e = "label-change" => from.labels = to.labels
  BY <1>3, <1>5, <1>7, FiredConcerned DEF MissedAfter
<1>10. \A d \in CardId : \A q \in Proc :
         Pending(run[q], d) => Pending(run'[q], d)
  BY <1>1 DEF Pending
<1>11. /\ missed' \in [CardId -> SUBSET HookEvent]
       /\ \A d \in CardId : missed[d] \subseteq missed'[d]
  BY <1>7 DEF MissedAfter
<1>12. CASE N.todo # <<>>
  <2>1. \E q \in Proc : Pending(run'[q], c.id)
    BY <1>8, <1>12 DEF N
  <2> QED
    BY <1>1, <1>2, <1>10, <1>11, <2>1, CallWakes
<1>13. CASE N.todo = <<>> /\ to # NoView
  <2>1. \A e \in HookEvent \ missed'[c.id] :
          /\ View(c.id) # NoView
          /\ e = "status-change" => View(c.id).status = ViewAfter(c.id).status
          /\ e = "label-change" => View(c.id).labels = ViewAfter(c.id).labels
    BY <1>9, <1>13 DEF from, to
  <2> QED
    BY <1>1, <1>2, <1>10, <1>11, <2>1, CallWakes
<1>14. CASE to = NoView
  BY <1>1, <1>2, <1>10, <1>11, <1>14, CallWakes DEF to
<1> QED
  BY <1>12, <1>13, <1>14

LEMMA CreateStepWakes ==
  ASSUME RunsOK, StoreInv, WakeInv, HeardOK, NEW p \in Proc, Create(p)
  PROVE  WakeInv' /\ HeardOK'
<1> DEFINE R == run[p]
           c == R.command
<1>0. /\ RunOK(R) /\ R \in RunRecord /\ run \in [Proc -> RunRecord]
  BY DEF RunsOK
<1>1. /\ R.pc = "opened" /\ Apply(c) /\ heard' = heard /\ missed' = missed
      /\ \A q \in Proc \ {p} : run'[q] = run[q]
      /\ run'[p].pc = "created" /\ run'[p].command = c
  BY <1>0 DEF Create, RunRecord
<1>2. c \in Commands
  BY CallRuns
<1>3. \E q \in Proc : Pending(run'[q], c.id)
  BY <1>1, <1>2 DEF Pending
<1>4. \A d \in CardId : \A q \in Proc :
        Pending(run[q], d) => Pending(run'[q], d)
  BY <1>1 DEF Pending
<1>5. /\ missed' \in [CardId -> SUBSET HookEvent]
      /\ \A d \in CardId : missed[d] \subseteq missed'[d]
  BY <1>1 DEF HeardOK
<1> QED
  BY <1>1, <1>2, <1>3, <1>4, <1>5, CallWakes

LEMMA HandlerStepWakes ==
  ASSUME RunsOK, StoreInv, WakeInv, HeardOK, NEW p \in Proc,
         NEW c \in HandlerCommands, HandlerCommand(p, c)
  PROVE  WakeInv' /\ HeardOK'
<1> DEFINE from == View(c.id)
           to == ViewAfter(c.id)
<1>1. /\ run' = run /\ Apply(c) /\ heard' = heard
      /\ missed' = Unheard(c, <<>>, from, to)
  BY HandlerRuns DEF HandlerCommand
<1>2. c.id \in CardId
  BY CommandTypes
<1>3. Concerned(<<>>, from, to) = {}
  BY DEF Concerned
<1> HIDE DEF from, to
<1>4. MissedAfter(c, <<>>, from, to, missed')
  BY <1>1, <1>2, UnheardKinds
<1>5. to # NoView =>
        \A e \in HookEvent \ missed'[c.id] :
          /\ from # NoView
          /\ e = "status-change" => from.status = to.status
          /\ e = "label-change" => from.labels = to.labels
  BY <1>3, <1>4 DEF MissedAfter
<1>6. /\ missed' \in [CardId -> SUBSET HookEvent]
      /\ \A d \in CardId : missed[d] \subseteq missed'[d]
  BY <1>4 DEF MissedAfter
<1>7. \A d \in CardId : \A q \in Proc :
        Pending(run[q], d) => Pending(run'[q], d)
  BY <1>1
<1>8. \/ ViewAfter(c.id) = NoView
      \/ \A e \in HookEvent \ missed'[c.id] :
           /\ View(c.id) # NoView
           /\ e = "status-change" => View(c.id).status = ViewAfter(c.id).status
           /\ e = "label-change" => View(c.id).labels = ViewAfter(c.id).labels
  BY <1>5 DEF from, to
<1> QED
  BY <1>1, <1>6, <1>7, <1>8, CallWakes

\* A handler that reads a card knows it.
LEMMA ReadStepWakes ==
  ASSUME RunsOK, StoreInv, WakeInv, HeardOK, NEW p \in Proc, HandlerRead(p)
  PROVE  WakeInv' /\ HeardOK'
<1> DEFINE R == run[p]
           id == R.command.id
           gist == Gist(View(id))
<1>0. /\ RunOK(R) /\ R \in RunRecord /\ run \in [Proc -> RunRecord] /\ TypeOK
  BY DEF RunsOK, StoreInv
<1>1. /\ R.pc = "handler" /\ UNCHANGED vars
      /\ heard' = [heard EXCEPT ![id] = gist]
      /\ missed' = [missed EXCEPT ![id] = {}]
      /\ \A q \in Proc \ {p} : run'[q] = run[q]
  BY <1>0 DEF HandlerRead
<1>2. id \in CardId
  BY <1>0, <1>1, CommandTypes DEF RunOK
<1>3. /\ gist \in CardGist \cup {NoView}
      /\ id \in Live =>
           /\ gist # NoView /\ gist.status = View(id).status
           /\ gist.labels = View(id).labels
  <2>1. View(id) \in CardView =>
          /\ [status |-> View(id).status, labels |-> View(id).labels] \in CardGist
    BY DEF CardView, CardGist
  <2> QED
    BY <1>0, <2>1, CardsSeen, NoViewAssumption DEF Gist
<1> HIDE DEF gist
<1>4. HeardOK'
  BY <1>1, <1>2, <1>3 DEF HeardOK
<1>5. Live' = Live /\ \A d \in CardId : ViewAfter(d) = View(d)
  BY <1>1 DEF vars, Live, View, ViewAfter
<1>6. ASSUME NEW d \in Live', NEW e \in HookEvent \ missed'[d]
      PROVE  StaysKnown(d, e) \/ Agreed(heard'[d], ViewAfter(d), e)
  <2>1. d \in Live /\ d \in CardId
    BY <1>0, <1>5 DEF TypeOK
  <2>2. CASE d = id
    <3>1. heard'[d] = gist
      BY <1>1, <1>2, <2>2 DEF HeardOK
    <3> QED
      BY <1>3, <1>5, <2>1, <2>2, <3>1 DEF Agreed
  <2>3. CASE d # id
    <3>1. heard'[d] = heard[d] /\ missed'[d] = missed[d]
      BY <1>1, <2>1, <2>3 DEF HeardOK
    <3>2. \A q \in Proc : Pending(run[q], d) => Pending(run'[q], d)
      BY <1>1, <2>3 DEF Pending
    <3> QED
      BY <1>5, <2>1, <3>1, <3>2 DEF StaysKnown
  <2> QED
    BY <2>2, <2>3
<1>7. WakeInv'
  BY <1>6, WakeKept
<1> QED
  BY <1>4, <1>7

\* The library fires nothing; what it changes is missed.
LEMMA LibraryStepWakes ==
  ASSUME StoreInv, WakeInv, HeardOK, NEW id \in CardId, LibraryCall(id)
  PROVE  WakeInv' /\ HeardOK'
<1>1. /\ ReleaseCard(id, FALSE) /\ heard' = heard /\ run' = run
      /\ missed' = [missed EXCEPT ![id] = @ \cup {"status-change"}]
  BY DEF LibraryCall
<1>2. /\ StoreInv' /\ id \in Live
      /\ \A d \in CardId \ {id} : ViewAfter(d) = View(d)
      /\ ViewAfter(id).labels = View(id).labels
  BY <1>1, ReleaseEffects
<1>3. HeardOK'
  BY <1>1 DEF HeardOK, HookEvent
<1>4. ASSUME NEW d \in Live', NEW e \in HookEvent \ missed'[d]
      PROVE  StaysKnown(d, e)
  <2>1. TypeOK' /\ d \in CardId
    BY <1>2 DEF StoreInv, TypeOK
  <2>2. e \notin missed[d] /\ (d = id => e # "status-change")
    BY <1>1, <1>4, <2>1 DEF HeardOK
  <2>3. ViewAfter(d) # NoView
    <3>1. cards' \in [DOMAIN cards' -> Row]
      BY <2>1 DEF TypeOK, Live
    <3> QED
      BY <3>1, ViewType DEF ViewAfter, Live
  <2>4. CASE d = id
    BY <1>1, <1>2, <2>2, <2>4 DEF StaysKnown
  <2>5. CASE d # id
    <3>1. ViewAfter(d) = View(d)
      BY <1>2, <2>1, <2>5
    <3>2. d \in Live
      BY <2>3, <3>1, SeenIsLive
    <3> QED
      BY <1>1, <2>2, <3>1, <3>2 DEF StaysKnown
  <2> QED
    BY <2>4, <2>5
<1>5. WakeInv'
  BY <1>4, WakeKept
<1> QED
  BY <1>3, <1>5

-----------------------------------------------------------------------------
(* The theorems.                                                           *)

\* The cards are right, each command has run and will run what it should,
\* and what handlers do not know was lost or is on its way.
HooksInv == StoreInv /\ RunsOK /\ HeardOK /\ WakeInv

LEMMA HooksInvInit == HooksInit => HooksInv
<1> SUFFICES ASSUME HooksInit PROVE HooksInv
  OBVIOUS
<1>1. Init /\ StoreInv /\ RunsOK
  BY StoreInit, RunsInit DEF HooksInit
<1>2. HeardOK
  BY DEF HooksInit, HeardOK
<1>3. WakeInv
  BY <1>1 DEF Init, WakeInv, Live
<1> QED
  BY <1>1, <1>2, <1>3 DEF HooksInv

LEMMA HooksInvStep ==
  ASSUME HooksInv, [HooksNext]_allVars
  PROVE  HooksInv'
<1>0. StoreInv /\ RunsOK /\ HeardOK /\ WakeInv /\ TypeOK
  BY DEF HooksInv, StoreInv
<1>1. RunsOK' /\ [Next]_vars
  BY <1>0, RunsStep
<1>2. StoreInv'
  BY <1>0, <1>1, StoreStep
<1>3. ASSUME UNCHANGED <<vars, run, heard, missed>>
      PROVE  WakeInv' /\ HeardOK'
  <2>1. /\ cards' = cards /\ labels' = labels
        /\ run' = run /\ heard' = heard /\ missed' = missed
    BY <1>3 DEF vars
  <2>2. HeardOK'
    BY <1>0, <2>1 DEF HeardOK
  <2>3. Live' = Live /\ \A d \in CardId : ViewAfter(d) = View(d)
    BY <2>1 DEF Live, View, ViewAfter
  <2>4. ASSUME NEW d \in Live', NEW e \in HookEvent \ missed'[d]
        PROVE  StaysKnown(d, e)
    <3>1. d \in Live /\ d \in CardId
      BY <1>0, <2>3 DEF TypeOK
    <3> QED
      BY <2>1, <2>3, <2>4, <3>1 DEF StaysKnown
  <2>5. WakeInv'
    BY <1>0, <2>4, WakeKept
  <2> QED
    BY <2>2, <2>5
<1>4. ASSUME NEW p \in Proc, HandlerRead(p) PROVE WakeInv' /\ HeardOK'
  BY <1>0, <1>4, ReadStepWakes
<1>5. ASSUME NEW p \in Proc, Bookkeeping(p) PROVE WakeInv' /\ HeardOK'
  <2>1. CASE HandlerRead(p)
    BY <1>4, <2>1
  <2>2. CASE ~HandlerRead(p)
    BY <1>0, <1>5, <2>2, BookkeepingWakes
  <2> QED
    BY <2>1, <2>2
<1>6. ASSUME NEW p \in Proc, Call(p) PROVE WakeInv' /\ HeardOK'
  BY <1>0, <1>6, CallStepWakes
<1>7. ASSUME NEW p \in Proc, Create(p) PROVE WakeInv' /\ HeardOK'
  BY <1>0, <1>7, CreateStepWakes
<1>8. ASSUME NEW p \in Proc, NEW c \in HandlerCommands, HandlerCommand(p, c)
      PROVE  WakeInv' /\ HeardOK'
  BY <1>0, <1>8, HandlerStepWakes
<1>9. ASSUME NEW id \in CardId, LibraryCall(id) PROVE WakeInv' /\ HeardOK'
  BY <1>0, <1>9, LibraryStepWakes
<1>10. ASSUME Configure \/ UNCHANGED allVars
       PROVE  WakeInv' /\ HeardOK'
  <2>1. UNCHANGED <<vars, run, heard, missed>>
    BY <1>10 DEF Configure, allVars, hookVars
  <2> QED
    BY <1>3, <2>1
<1>11. WakeInv' /\ HeardOK'
  BY <1>5, <1>6, <1>7, <1>8, <1>9, <1>10
  DEF HooksNext, Step, Bookkeeping
<1> QED
  BY <1>1, <1>2, <1>11 DEF HooksInv

\* HooksInv holds of every reachable state.
THEOREM HooksInvariant == HooksSpec => []HooksInv
<1>1. HooksInv /\ [HooksNext]_allVars => HooksInv'
  BY HooksInvStep
<1> QED
  BY <1>1, HooksInvInit, PTL DEF HooksSpec

\* Commands with hooks, handlers and all, do to the cards what calls of the
\* library do, one at a time: what is proved of CardStore holds for them.
THEOREM CommandsAreCalls == HooksSpec => Spec
<1>1. HooksInit => Init
  BY DEF HooksInit
<1>2. HooksInv /\ [HooksNext]_allVars => [Next]_vars
  BY RunsStep DEF HooksInv
<1> QED
  BY <1>1, <1>2, HooksInvariant, PTL DEF HooksSpec, Spec

\* What a command has run and has still to run is what its hooks ask for.
LEMMA RunFired ==
  ASSUME NEW R, RunOK(R), R.pc \in FiringStage
  PROVE  FiresRight(R.active, R.from, R.to, R.ran \o R.todo)
<1> DEFINE c == R.command
           f == Fired(c, R.active, R.from, R.to)
<1>1. /\ InForce(c, R.active) /\ OwnCall(c, R.from, R.to)
      /\ R.ran \o R.todo = f
  BY DEF RunOK
<1>2. R.active \in HookFiles \cup {<<>>} /\ R.active \in Seq(RawHook)
  BY <1>1, FilesAreLists DEF InForce
<1>3. CASE c.op \in HookedOps
  BY <1>1, <1>2, <1>3, FiredIs
<1>4. CASE c.op \notin HookedOps
  <2>1. R.active = <<>> /\ f = <<>>
    BY <1>1, <1>4, FiresNothing DEF InForce
  <2>2. Concerned(<<>>, R.from, R.to) = {}
    BY DEF Concerned
  <2>3. <<>> \in Seq(Firing) /\ DOMAIN <<>> = {}
    OBVIOUS
  <2>4. FiresRight(<<>>, R.from, R.to, <<>>)
    BY <2>2, <2>3 DEF FiresRight, InTurn
  <2> QED
    BY <1>1, <1>2, <2>1, <2>4
<1> QED
  BY <1>3, <1>4

\* An event reports what its own command did to the card, no more and no
\* less, whatever other processes and handlers commit in between.
THEOREM EventsReportOwnChanges == HooksSpec => []EventsAreOwnChanges
<1>1. HooksInv => EventsAreOwnChanges
  <2> SUFFICES ASSUME HooksInv, NEW p \in Proc, NEW i \in DOMAIN run[p].todo
               PROVE  OwnEvent(run[p].todo[i].event, run[p].from, run[p].to)
    BY DEF EventsAreOwnChanges, OwnEvent, StatusChanged, LabelsChanged
  <2> DEFINE R == run[p]
             ran == R.ran
             todo == R.todo
  <2>1. RunOK(R) /\ ran \in Seq(Firing) /\ todo \in Seq(Firing)
    BY DEF HooksInv, RunsOK, RunOK, RunRecord
  <2>2. R.pc \in FiringStage
    <3>1. todo # <<>>
      OBVIOUS
    <3> QED
      BY <2>1, <3>1 DEF RunOK
  <2>3. FiresRight(R.active, R.from, R.to, ran \o todo)
    BY <2>1, <2>2, RunFired
  <2> HIDE DEF ran, todo
  <2>4. /\ Len(ran) + i \in DOMAIN (ran \o todo)
        /\ (ran \o todo)[Len(ran) + i] = todo[i]
    BY <2>1, Joined DEF todo
  <2>5. OwnEvent(todo[i].event, R.from, R.to)
    BY <2>3, <2>4 DEF FiresRight
  <2> QED
    BY <2>5 DEF todo
<1> QED
  BY <1>1, HooksInvariant, PTL

\* A command that returns has run every entry of its hooks.yaml that asks
\* for its change, and no other: those for the status first and then those
\* for the labels, each in the order of the file.
THEOREM EveryHookRunFirst == HooksSpec => []SynchronousDelivery
<1>1. HooksInv => SynchronousDelivery
  <2> SUFFICES ASSUME HooksInv, NEW p \in Proc,
                      run[p].pc = "firing", run[p].todo = <<>>
               PROVE  LET ran == run[p].ran
                          active == run[p].active
                      IN
                      /\ {ran[i].entry : i \in DOMAIN ran}
                           = Concerned(active, run[p].from, run[p].to)
                      /\ \A i \in DOMAIN ran : ran[i].hook = active[ran[i].entry]
                      /\ InTurn(ran)
    BY DEF SynchronousDelivery, InTurn
  <2> DEFINE R == run[p]
             ran == R.ran
  <2>1. RunOK(R) /\ ran \in Seq(Firing) /\ R.pc \in FiringStage
    BY DEF HooksInv, RunsOK, RunOK, RunRecord, FiringStage
  <2>2. FiresRight(R.active, R.from, R.to, R.ran \o R.todo)
    BY <2>1, RunFired
  <2>3. R.ran \o R.todo = ran
    BY <2>1
  <2>4. FiresRight(R.active, R.from, R.to, ran)
    BY <2>2, <2>3
  <2> HIDE DEF ran
  <2>5. /\ {ran[i].entry : i \in DOMAIN ran} = Concerned(R.active, R.from, R.to)
        /\ \A i \in DOMAIN ran : ran[i].hook = R.active[ran[i].entry]
        /\ InTurn(ran)
    BY <2>4 DEF FiresRight
  <2> QED
    BY <2>5 DEF ran
<1> QED
  BY <1>1, HooksInvariant, PTL

\* The wake signal is enough: when no command on a card is in flight, the
\* handlers know its status and its labels, unless the last change of them
\* fired nothing or was lost.
THEOREM WakeSignalsSuffice == HooksSpec => []WakeSignal
<1>1. HooksInv => WakeSignal
  <2> SUFFICES ASSUME HooksInv, NEW c \in Live,
                      \A p \in Proc : InFlight(p) => run[p].command.id # c
               PROVE  /\ "status-change" \notin missed[c] =>
                           /\ heard[c] # NoView
                           /\ heard[c].status = cards[c].status
                      /\ "label-change" \notin missed[c] =>
                           heard[c] # NoView /\ heard[c].labels = View(c).labels
    BY DEF WakeSignal
  <2>1. \A p \in Proc : ~Pending(run[p], c)
    BY DEF InFlight, Pending
  <2>2. \A e \in HookEvent \ missed[c] : Agreed(heard[c], View(c), e)
    BY <2>1 DEF HooksInv, WakeInv
  <2>3. View(c).status = cards[c].status
    BY CardsSeen DEF HooksInv, StoreInv
  <2> QED
    BY <2>2, <2>3 DEF Agreed, HookEvent
<1> QED
  BY <1>1, HooksInvariant, PTL
=============================================================================
