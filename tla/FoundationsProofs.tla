-------------------------- MODULE FoundationsProofs --------------------------
(***************************************************************************)
(* What is proved of the parts that everything else is built on: the task  *)
(* schedule with its preallocated lists, the linked list and its sorted    *)
(* copy, the datarefs that DRCI provides, DRMU and the settings.  Each     *)
(* part has an inductive invariant of its own; the parts share no state.   *)
(***************************************************************************)
EXTENDS TaskQueue, LinkedList, DatarefValues, DatarefUpdate, SettingsManager, TLAPS,
        FiniteSetTheorems, SequenceTheorems, NaturalsInduction, WellFoundedInduction

-----------------------------------------------------------------------------
(* Links, and sequences of items.                                            *)

\* Every set of naturals has a smallest member.
LEMMA Smallest == ASSUME NEW S, S \subseteq Nat, S # {}
                  PROVE  \E m \in S : \A k \in S : m <= k
<1>1. PICK m \in S : \A k \in S : ~(<<k, m>> \in OpToRel(<, Nat))
  <2> HIDE DEF OpToRel
  <2> QED BY NatLessThanWellFounded, WFMin, Zenon
<1>2. \A k \in S : ~(k < m)  BY <1>1 DEF OpToRel
<1> QED BY <1>2

\* A set with 0 that goes from each member to the next has all naturals.
LEMMA AllNaturals == ASSUME NEW S, 0 \in S, \A n \in Nat : n \in S => n + 1 \in S
                     PROVE  Nat \subseteq S
<1> SUFFICES ASSUME Nat \ S # {} PROVE FALSE  OBVIOUS
<1>1. PICK m \in Nat \ S : \A k \in Nat \ S : m <= k
  <2>1. Nat \ S \subseteq Nat  OBVIOUS
  <2> QED BY <2>1, Smallest
<1>2. m # 0 /\ m - 1 \in Nat /\ m - 1 < m  OBVIOUS
<1>3. m - 1 \in S  BY <1>1, <1>2
<1>4. (m - 1) + 1 \in S  BY <1>2, <1>3
<1> QED BY <1>4, <1>2

\* c lists the items from i on along link.
Leads(items, i, link, c) ==
  /\ c \in Seq(1 .. Len(items)) /\ Len(c) <= Len(items)
  /\ i = IF Len(c) = 0 THEN 0 ELSE c[1]
  /\ \A k \in 1 .. Len(c) : items[c[k]][link] = IF k = Len(c) THEN 0 ELSE c[k + 1]

\* Walking along the links passes the items of c and stays at NULL.
LEMMA WalkFollows ==
  ASSUME NEW items, NEW i, NEW link, NEW c, Len(items) \in Nat, Leads(items, i, link, c)
  PROVE  Walk(items, i, link) = [k \in 0 .. Len(items) |-> IF k < Len(c) THEN c[k + 1] ELSE 0]
<1> DEFINE n == Len(items)
           Step(f, k) == IF k = 0 THEN i ELSE IF f[k - 1] = 0 THEN 0 ELSE items[f[k - 1]][link]
           at == CHOOSE f : f = [k \in 0 .. n |-> Step(f, k)]
           w == [k \in 0 .. n |-> IF k < Len(c) THEN c[k + 1] ELSE 0]
<1>0. n \in Nat /\ Len(c) \in Nat /\ Len(c) <= n /\ \A k \in 1 .. Len(c) : c[k] \in 1 .. n
  BY DEF Leads
<1>1. Walk(items, i, link) = at
  BY Zenon DEF Walk
<1>2. ASSUME NEW k \in 0 .. n PROVE w[k] = Step(w, k)
  <2>1. CASE k = 0
    BY <2>1, <1>0 DEF Leads
  <2>2. CASE k # 0 /\ k - 1 >= Len(c)
    BY <2>2, <1>0
  <2>3. CASE k # 0 /\ k - 1 < Len(c)
    <3>1. k - 1 \in 0 .. n /\ w[k - 1] = c[k] /\ c[k] # 0 /\ k \in 1 .. Len(c)
      BY <2>3, <1>0
    <3>2. Step(w, k) = items[c[k]][link]
      BY <3>1, <2>3
    <3>3. items[c[k]][link] = IF k = Len(c) THEN 0 ELSE c[k + 1]
      BY <3>1 DEF Leads
    <3>4. w[k] = IF k = Len(c) THEN 0 ELSE c[k + 1]
      BY <3>1, <1>0
    <3> QED BY <3>2, <3>3, <3>4
  <2> QED BY <2>1, <2>2, <2>3, <1>0
<1>3. w = [k \in 0 .. n |-> Step(w, k)]
  <2>1. w = [k \in 0 .. n |-> w[k]]
    OBVIOUS
  <2> HIDE DEF w, Step
  <2> QED BY <1>2, <2>1
<1>4. at = [k \in 0 .. n |-> Step(at, k)]
  <2> HIDE DEF w, Step
  <2> QED BY <1>3
<1>5. \A k \in 0 .. n : at[k] = Step(at, k)
  <2> HIDE DEF Step, at
  <2> QED BY <1>4
<1> HIDE DEF at
<1> DEFINE S == {k \in Nat : k <= n => at[k] = w[k]}
<1>6. 0 \in S
  <2>1. 0 \in 0 .. n
    BY <1>0
  <2>2. at[0] = Step(at, 0) /\ w[0] = Step(w, 0)
    BY <2>1, <1>2, <1>5
  <2>3. Step(at, 0) = Step(w, 0)
    BY Zenon
  <2> HIDE DEF w, Step
  <2> QED BY <2>2, <2>3
<1>7. ASSUME NEW k \in Nat, k \in S PROVE k + 1 \in S
  <2>1. SUFFICES ASSUME k + 1 <= n PROVE at[k + 1] = w[k + 1]
    OBVIOUS
  <2>2. k \in 0 .. n /\ k + 1 \in 0 .. n /\ at[k] = w[k] /\ (k + 1) - 1 = k /\ k + 1 # 0
    BY <2>1, <1>7, <1>0
  <2>3. at[k + 1] = Step(at, k + 1) /\ w[k + 1] = Step(w, k + 1)
    BY <2>2, <1>2, <1>5
  <2>4. Step(at, k + 1) = Step(w, k + 1)
    <3> HIDE DEF w
    <3> QED BY <2>2
  <2> QED BY <2>3, <2>4
<1>8. \A k \in 0 .. n : at[k] = w[k]
  <2>1. Nat \subseteq S
    <3> HIDE DEF S
    <3> QED BY <1>6, <1>7, AllNaturals
  <2> HIDE DEF w
  <2>2. \A k \in 0 .. n : k \in S /\ k <= n
    <3> HIDE DEF S
    <3> QED BY <2>1, <1>0
  <2> QED BY <2>2
<1>9. at = w
  <2>1. w = [k \in 0 .. n |-> w[k]] /\ at = [k \in 0 .. n |-> at[k]]
    <3>1. w = [k \in 0 .. n |-> w[k]]
      OBVIOUS
    <3>2. at = [k \in 0 .. n |-> at[k]]
      <4> HIDE DEF Step
      <4> QED BY <1>4
    <3> QED BY <3>1, <3>2
  <2> HIDE DEF w
  <2> QED BY <2>1, <1>8
<1> QED BY <1>1, <1>9

\* The loops over a list find exactly the items its links lead along.
LEMMA Followed ==
  ASSUME NEW items, NEW i, NEW link, NEW c, Len(items) \in Nat, Leads(items, i, link, c)
  PROVE  Follow(items, i, link) = c
<1> DEFINE n == Len(items)
           w == [k \in 0 .. n |-> IF k < Len(c) THEN c[k + 1] ELSE 0]
           d == UntilNull(w, n)
<1>0. n \in Nat /\ Len(c) \in Nat /\ Len(c) <= n /\ \A k \in 1 .. Len(c) : c[k] \in 1 .. n
  BY DEF Leads
<1>1. Walk(items, i, link) = w
  BY WalkFollows
<1>2. ASSUME NEW k \in 0 .. n - 1 PROVE w[k] # 0 <=> k < Len(c)
  <2>1. k \in 0 .. n
    BY <1>0
  <2>2. CASE k < Len(c)
    <3>1. k + 1 \in 1 .. Len(c)
      BY <2>2, <1>0
    <3>2. c[k + 1] # 0
      BY <3>1, <1>0
    <3> QED BY <2>1, <2>2, <3>2
  <2>3. CASE ~(k < Len(c))
    BY <2>1, <2>3
  <2> QED BY <2>2, <2>3
<1> DEFINE Q(m) == \A k \in 0 .. n - 1 : w[k] # 0 <=> k < m
<1>3. d = CHOOSE m \in 0 .. n : Q(m)
  BY Zenon DEF UntilNull
<1>4. Len(c) \in 0 .. n /\ Q(Len(c))
  BY <1>0, <1>2
<1>5. d \in 0 .. n /\ Q(d)
  <2> HIDE DEF Q, d
  <2> QED BY <1>3, <1>4
<1>6. d = Len(c)
  <2> HIDE DEF d, w
  <2>1. ~(d < Len(c))
    <3>1. SUFFICES ASSUME d < Len(c) PROVE FALSE
      OBVIOUS
    <3>2. d \in 0 .. n - 1
      BY <3>1, <1>0, <1>5
    <3> QED BY <3>1, <3>2, <1>4, <1>5
  <2>2. ~(Len(c) < d)
    <3>1. SUFFICES ASSUME Len(c) < d PROVE FALSE
      OBVIOUS
    <3>2. Len(c) \in 0 .. n - 1
      BY <3>1, <1>0, <1>5
    <3> QED BY <3>1, <3>2, <1>4, <1>5
  <2> QED BY <2>1, <2>2, <1>0, <1>5
<1>7. Follow(items, i, link) = [k \in 1 .. d |-> w[k - 1]]
  BY <1>1, Zenon DEF Follow
<1>8. \A k \in 1 .. Len(c) : w[k - 1] = c[k]
  BY <1>0
<1>9. c = [k \in 1 .. Len(c) |-> c[k]]
  BY DEF Leads
<1> HIDE DEF w, d
<1> QED BY <1>6, <1>7, <1>8, <1>9

\* A function on 1 .. n with values in S is a sequence over S.
LEMMA SequenceOf ==
  ASSUME NEW n \in Nat, NEW S, NEW f, f = [k \in 1 .. n |-> f[k]], \A k \in 1 .. n : f[k] \in S
  PROVE  f \in Seq(S) /\ Len(f) = n /\ DOMAIN f = 1 .. n
<1>1. f \in [1 .. n -> S]
  OBVIOUS
<1>2. f \in Seq(S)
  BY <1>1, IsASeq
<1> QED BY <1>1, <1>2, LenProperties

\* What is known of every sequence.
LEMMA SequenceParts ==
  ASSUME NEW S, NEW s \in Seq(S)
  PROVE  /\ Len(s) \in Nat /\ DOMAIN s = 1 .. Len(s) /\ s = [k \in 1 .. Len(s) |-> s[k]]
         /\ \A k \in 1 .. Len(s) : s[k] \in S
  OBVIOUS

\* As many different items as there are positions, at most.
LEMMA Injected ==
  ASSUME NEW n \in Nat, NEW m \in Nat, NEW c, \A k \in 1 .. m : c[k] \in 1 .. n,
         \A j, k \in 1 .. m : c[j] = c[k] => j = k
  PROVE  m <= n
<1> DEFINE f == [k \in 1 .. m |-> c[k]]
<1>1. SUFFICES ASSUME m > n PROVE FALSE
  OBVIOUS
<1>2. IsFiniteSet(1 .. m) /\ IsFiniteSet(1 .. n) /\ Cardinality(1 .. n) < Cardinality(1 .. m)
  <2>1. \A k \in Nat : IsFiniteSet(1 .. k) /\ Cardinality(1 .. k) = IF 1 > k THEN 0 ELSE k - 1 + 1
    BY FS_Interval
  <2>2. \A k \in Nat : IsFiniteSet(1 .. k) /\ Cardinality(1 .. k) = k
    BY <2>1
  <2> QED BY <1>1, <2>2
<1>3. f \in [1 .. m -> 1 .. n]
  OBVIOUS
<1>4. \E x, y \in 1 .. m : x # y /\ f[x] = f[y]
  <2> HIDE DEF f
  <2> QED BY <1>2, <1>3, FS_PigeonHole
<1> QED BY <1>4

\* The links of the list l lead along the items c, forwards and backwards.
LinksLead(items, c) ==
  \A k \in 1 .. Len(c) : /\ items[c[k]].next = IF k = Len(c) THEN 0 ELSE c[k + 1]
                         /\ items[c[k]].prev = IF k = 1 THEN 0 ELSE c[k - 1]

\* c has different ones of n items.
Orderly(c, n) == c \in Seq(1 .. n) /\ \A j, k \in 1 .. Len(c) : c[j] = c[k] => j = k

\* The part of c from k on.
From(c, k) == [j \in 1 .. Len(c) - k + 1 |-> c[k + j - 1]]

\* A sequence in opposite order.
Backwards(c) == [k \in 1 .. Len(c) |-> c[Len(c) + 1 - k]]

\* The sequence without its member at position h.
Dropped(c, h) == [k \in 1 .. Len(c) - 1 |-> IF k < h THEN c[k] ELSE c[k + 1]]

\* d has the members of c, all in S, in their order, except the one at h.
DropsAt(d, c, h, S) ==
  /\ d \in Seq(S) /\ Len(d) = Len(c) - 1 /\ Len(c) - 1 \in Nat
  /\ \A k \in 1 .. Len(c) - 1 : k \in 1 .. Len(c) /\ k + 1 \in 1 .. Len(c)
  /\ \A k \in 1 .. Len(c) - 1 : k < h => d[k] = c[k]
  /\ \A k \in 1 .. Len(c) - 1 : k >= h => d[k] = c[k + 1]

\* Dropping a member of a sequence of different items.
LEMMA DroppedParts ==
  ASSUME NEW S, NEW c \in Seq(S), NEW h \in 1 .. Len(c)
  PROVE  DropsAt(Dropped(c, h), c, h, S)
<1> DEFINE m == Len(c) - 1
           d == Dropped(c, h)
<1>1. Len(c) \in Nat /\ m \in Nat /\ \A k \in 1 .. Len(c) : c[k] \in S
  OBVIOUS
<1>2. \A k \in 1 .. m : k \in 1 .. Len(c) /\ k + 1 \in 1 .. Len(c)
  BY <1>1
<1>3. \A k \in 1 .. m : d[k] = IF k < h THEN c[k] ELSE c[k + 1]
  BY DEF Dropped
<1>4. d = [k \in 1 .. m |-> d[k]]
  BY DEF Dropped
<1> HIDE DEF d
<1>5. \A k \in 1 .. m : d[k] \in S
  BY <1>1, <1>2, <1>3
<1>6. d \in Seq(S) /\ Len(d) = m
  <2> HIDE DEF m
  <2> QED BY <1>1, <1>4, <1>5, SequenceOf
<1>7. ASSUME NEW k \in 1 .. m
      PROVE  (k < h => d[k] = c[k]) /\ (k >= h => d[k] = c[k + 1])
  BY <1>1, <1>2, <1>3
<1> QED BY <1>1, <1>2, <1>6, <1>7 DEF d, DropsAt

\* The part of a sequence from position k on, member by member.
LEMMA FromParts ==
  ASSUME NEW S, NEW v \in Seq(S), NEW k \in 1 .. Len(v) + 1
  PROVE  /\ From(v, k) \in Seq(S) /\ Len(From(v, k)) = Len(v) - k + 1 /\ Len(v) - k + 1 \in Nat
         /\ \A j \in 1 .. Len(v) - k + 1 : From(v, k)[j] = v[k + j - 1] /\ k + j - 1 \in 1 .. Len(v)
<1> DEFINE f == From(v, k)
           m == Len(v) - k + 1
<1>1. Len(v) \in Nat /\ \A j \in 1 .. Len(v) : v[j] \in S
  OBVIOUS
<1>2. m \in Nat
  BY <1>1
<1>3. \A j \in 1 .. m : f[j] = v[k + j - 1] /\ k + j - 1 \in 1 .. Len(v)
  BY <1>1 DEF From
<1>4. f = [j \in 1 .. m |-> f[j]]
  BY DEF From
<1>5. \A j \in 1 .. m : f[j] \in S
  BY <1>1, <1>3
<1>6. f \in Seq(S) /\ Len(f) = m
  <2> HIDE DEF f, m
  <2> QED BY <1>2, <1>4, <1>5, SequenceOf
<1> QED BY <1>2, <1>3, <1>6

\* From the first position on it is everything, behind the last one nothing.
LEMMA FromEnds ==
  ASSUME NEW S, NEW v \in Seq(S)
  PROVE  From(v, 1) = v /\ From(v, Len(v) + 1) = << >>
<1> DEFINE f == From(v, 1)
           e == From(v, Len(v) + 1)
<1>1. Len(v) \in Nat /\ 1 \in 1 .. Len(v) + 1 /\ Len(v) + 1 \in 1 .. Len(v) + 1
  OBVIOUS
<1>2. f \in Seq(S) /\ Len(f) = Len(v) - 1 + 1 /\ \A j \in 1 .. Len(v) - 1 + 1 : f[j] = v[1 + j - 1]
  BY <1>1, FromParts
<1>3. e \in Seq(S) /\ Len(e) = Len(v) - (Len(v) + 1) + 1
  BY <1>1, FromParts
<1> HIDE DEF f, e
<1>4. f = v
  <2>1. Len(f) = Len(v)
    BY <1>1, <1>2
  <2>2. \A j \in 1 .. Len(v) : f[j] = v[j]
    BY <1>1, <1>2
  <2> QED BY <1>2, <2>1, <2>2, SeqEqual
<1>5. e = << >>
  <2>1. Len(e) = 0
    BY <1>1, <1>3
  <2> QED BY <1>3, <2>1, EmptySeq
<1> QED BY <1>4, <1>5 DEF f, e

\* The first of what is left from position k on is called, ...
LEMMA FromTail ==
  ASSUME NEW S, NEW v \in Seq(S), NEW k \in 1 .. Len(v), NEW w \in Seq(S)
  PROVE  Tail(From(v, k) \o w) = From(v, k + 1) \o w
<1> DEFINE f == From(v, k)
           g == From(v, k + 1)
           m == Len(v) - k
<1>1. Len(v) \in Nat /\ k \in 1 .. Len(v) + 1 /\ k + 1 \in 1 .. Len(v) + 1 /\ m \in Nat
      /\ m + 1 = Len(v) - k + 1 /\ m = Len(v) - (k + 1) + 1
  OBVIOUS
<1>2. f \in Seq(S) /\ Len(f) = m + 1 /\ \A j \in 1 .. m + 1 : f[j] = v[k + j - 1]
  BY <1>1, FromParts
<1>3. g \in Seq(S) /\ Len(g) = m /\ \A j \in 1 .. m : g[j] = v[k + 1 + j - 1]
  BY <1>1, FromParts
<1> DEFINE x == f \o w
           y == g \o w
           n == Len(w)
<1> HIDE DEF f, g, m
<1>4. n \in Nat /\ \A j \in 1 .. n : w[j] \in S
  OBVIOUS
<1>5. x \in Seq(S) /\ Len(x) = m + 1 + n
  <2>1. f \in Seq(S) /\ w \in Seq(S)
    BY <1>2
  <2>2. x \in Seq(S) /\ Len(x) = Len(f) + Len(w)
    BY <2>1, ConcatProperties
  <2> HIDE DEF x
  <2> QED BY <2>2, <1>2
<1>6. y \in Seq(S) /\ Len(y) = m + n
  BY <1>3, ConcatProperties
<1>7. ASSUME NEW j \in 1 .. m + n PROVE x[j + 1] = y[j]
  <2>1. CASE j <= m
    <3>1. j \in 1 .. m /\ j + 1 \in 1 .. m + 1
      BY <2>1, <1>1, <1>4
    <3>2. x[j + 1] = f[j + 1] /\ y[j] = g[j]
      BY <3>1, <1>1, <1>2, <1>3, <1>4
    <3>3. k + (j + 1) - 1 = k + 1 + j - 1
      OBVIOUS
    <3> QED BY <3>1, <3>2, <3>3, <1>2, <1>3
  <2>2. CASE j > m
    <3>1. j + 1 - (m + 1) = j - m /\ j + 1 > m + 1
      BY <2>2, <1>1
    <3>2. x[j + 1] = w[j - m]
      <4>1. \A h \in 1 .. Len(f) + Len(w) : x[h] = IF h <= Len(f) THEN f[h] ELSE w[h - Len(f)]
        BY <1>2, ConcatProperties
      <4>2. j + 1 \in 1 .. (m + 1) + n /\ ~ (j + 1 <= m + 1)
        BY <2>2, <1>1, <1>4
      <4>3. Len(f) = m + 1 /\ Len(w) = n
        BY <1>2
      <4> HIDE DEF x, n
      <4>4. x[j + 1] = w[j + 1 - (m + 1)]
        BY <4>1, <4>2, <4>3
      <4> QED BY <4>4, <3>1
    <3>3. y[j] = w[j - m]
      <4>1. \A h \in 1 .. Len(g) + Len(w) : y[h] = IF h <= Len(g) THEN g[h] ELSE w[h - Len(g)]
        BY <1>3, ConcatProperties
      <4>2. ~ (j <= m)
        BY <2>2, <1>1
      <4>3. Len(g) = m /\ Len(w) = n
        BY <1>3
      <4> HIDE DEF y, n
      <4> QED BY <4>1, <4>2, <4>3
    <3> QED BY <3>2, <3>3
  <2>3. j \in Int /\ m \in Int
    BY <1>1
  <2> HIDE DEF n, x, y
  <2>4. j <= m \/ j > m
    BY <2>3
  <2> QED BY <2>1, <2>2, <2>4
<1> HIDE DEF x, y, n
<1>8. Tail(x) \in Seq(S) /\ Len(Tail(x)) = m + n /\ \A j \in 1 .. m + n : Tail(x)[j] = x[j + 1]
  <2>1. Len(x) # 0 /\ Len(x) - 1 = m + n
    BY <1>1, <1>4, <1>5
  <2>2. x # << >>
    BY <2>1
  <2> QED BY <2>1, <2>2, <1>5, HeadTailProperties
<1>9. Tail(x) = y
  BY <1>6, <1>7, <1>8, SeqEqual
<1> QED BY <1>9 DEF x, y, f, g

\* ... and what it leaves behind, when it goes, is the same.
LEMMA FromDropped ==
  ASSUME NEW S, NEW v \in Seq(S), NEW h \in 1 .. Len(v)
  PROVE  From(Dropped(v, h), h) = From(v, h + 1)
<1> DEFINE d == Dropped(v, h)
           f == From(d, h)
           g == From(v, h + 1)
           m == Len(v) - h
<1>1. Len(v) \in Nat /\ h + 1 \in 1 .. Len(v) + 1 /\ m \in Nat /\ m = Len(v) - (h + 1) + 1
  OBVIOUS
<1>2. /\ d \in Seq(S) /\ Len(d) = Len(v) - 1
      /\ \A k \in 1 .. Len(v) - 1 : k >= h => d[k] = v[k + 1]
  BY DroppedParts DEF DropsAt
<1>3. g \in Seq(S) /\ Len(g) = m /\ \A j \in 1 .. m : g[j] = v[h + 1 + j - 1]
  BY <1>1, FromParts
<1> HIDE DEF d
<1>4. h \in 1 .. Len(d) + 1 /\ Len(d) - h + 1 = m
  BY <1>1, <1>2
<1>5. f \in Seq(S) /\ Len(f) = m /\ \A j \in 1 .. m : f[j] = d[h + j - 1] /\ h + j - 1 \in 1 .. Len(d)
  BY <1>2, <1>4, FromParts
<1> HIDE DEF f, g, m
<1>6. ASSUME NEW j \in 1 .. m PROVE f[j] = g[j]
  <2>1. h + j - 1 \in 1 .. Len(v) - 1 /\ h + j - 1 >= h /\ h + j - 1 + 1 = h + 1 + j - 1
    BY <1>1, <1>2, <1>5
  <2>2. d[h + j - 1] = v[h + j - 1 + 1]
    BY <2>1, <1>2
  <2> QED BY <2>1, <2>2, <1>3, <1>5
<1>7. f = g
  BY <1>3, <1>5, <1>6, SeqEqual
<1> QED BY <1>7 DEF f, g, d

\* The ends of a list with the items c.
EndsAre(first, last, c) ==
  /\ first = IF Len(c) = 0 THEN 0 ELSE c[1]
  /\ last = IF Len(c) = 0 THEN 0 ELSE c[Len(c)]

\* The chain is the same in both directions.
LEMMA BothWays ==
  ASSUME NEW items, Len(items) \in Nat, NEW c, Orderly(c, Len(items)), LinksLead(items, c),
         NEW first, NEW last, EndsAre(first, last, c)
  PROVE  Follow(items, first, "next") = c /\ Follow(items, last, "prev") = Backwards(c)
<1> DEFINE n == Len(items)
           d == Backwards(c)
<1>1. /\ n \in Nat /\ Len(c) \in Nat /\ Len(c) <= n /\ \A j \in 1 .. Len(c) : c[j] \in 1 .. n
      /\ c \in Seq(1 .. n)
  <2>1. c \in Seq(1 .. n)
    BY DEF Orderly
  <2>2. n \in Nat /\ Len(c) \in Nat /\ \A j \in 1 .. Len(c) : c[j] \in 1 .. n
    BY <2>1, SequenceParts
  <2>3. \A j, k \in 1 .. Len(c) : c[j] = c[k] => j = k
    BY DEF Orderly
  <2> HIDE DEF n
  <2>4. Len(c) <= n
    BY <2>2, <2>3, Injected
  <2> QED BY <2>1, <2>2, <2>4
<1>2. Follow(items, first, "next") = c
  <2>1. Leads(items, first, "next", c)
    BY <1>1 DEF Leads, LinksLead, EndsAre
  <2> QED BY <2>1, <1>1, Followed
<1>3. \A j \in 1 .. Len(c) : d[j] = c[Len(c) + 1 - j] /\ Len(c) + 1 - j \in 1 .. Len(c)
  BY <1>1 DEF Backwards
<1>4. d = [j \in 1 .. Len(c) |-> d[j]]
  BY DEF Backwards
<1> HIDE DEF d
<1>5. d \in Seq(1 .. n) /\ Len(d) = Len(c)
  <2>1. \A j \in 1 .. Len(c) : d[j] \in 1 .. n
    BY <1>1, <1>3
  <2> HIDE DEF n
  <2> QED BY <1>1, <1>4, <2>1, SequenceOf
<1>6. last = IF Len(d) = 0 THEN 0 ELSE d[1]
  BY <1>1, <1>3, <1>5 DEF EndsAre
<1>7. ASSUME NEW j \in 1 .. Len(d) PROVE items[d[j]]["prev"] = IF j = Len(d) THEN 0 ELSE d[j + 1]
  <2>1. j \in 1 .. Len(c)
    BY <1>5
  <2>2. d[j] = c[Len(c) + 1 - j] /\ Len(c) + 1 - j \in 1 .. Len(c)
    BY <1>3, <2>1
  <2>3. items[c[Len(c) + 1 - j]].prev = IF Len(c) + 1 - j = 1 THEN 0 ELSE c[Len(c) + 1 - j - 1]
    BY <2>2 DEF LinksLead
  <2>4. CASE j = Len(d)
    BY <2>2, <2>3, <2>4, <1>1, <1>5
  <2>5. CASE j # Len(d)
    <3>1. j + 1 \in 1 .. Len(c) /\ Len(c) + 1 - j # 1 /\ Len(c) + 1 - (j + 1) = Len(c) + 1 - j - 1
      BY <2>5, <1>1, <1>5, <2>1
    <3>2. d[j + 1] = c[Len(c) + 1 - j - 1]
      BY <3>1, <1>3
    <3> QED BY <2>2, <2>3, <2>5, <3>1, <3>2
  <2> QED BY <2>4, <2>5
<1>8. Leads(items, last, "prev", d)
  BY <1>1, <1>5, <1>6, <1>7 DEF Leads
<1> QED BY <1>1, <1>2, <1>8, Followed DEF d

\* The items x are those of the list with the one at position h passed over.
PassedOver(items, x, n, c, h) ==
  LET before == IF h = 1 THEN 0 ELSE c[h - 1]
      after == IF h = Len(c) THEN 0 ELSE c[h + 1]
  IN  \A j \in 1 .. n : /\ x[j].value = items[j].value
                        /\ x[j].next = IF j = before THEN after ELSE items[j].next
                        /\ x[j].prev = IF j = after THEN before ELSE items[j].prev

\* Once the neighbours of an item point past it, the links lead along the
\* other items in both directions (unlinking in lists.c).
LEMMA LinksDropped ==
  ASSUME NEW items, NEW n \in Nat, NEW c, Orderly(c, n), LinksLead(items, c), NEW h \in 1 .. Len(c),
         NEW x, PassedOver(items, x, n, c, h)
  PROVE  Orderly(Dropped(c, h), n) /\ LinksLead(x, Dropped(c, h))
<1> DEFINE m == Len(c)
           i == c[h]
           d == Dropped(c, h)
           before == IF h = 1 THEN 0 ELSE c[h - 1]
           after == IF h = m THEN 0 ELSE c[h + 1]
<1>1. m \in Nat /\ (\A j \in 1 .. m : c[j] \in 1 .. n) /\ c \in Seq(1 .. n)
  BY SequenceParts DEF Orderly
<1>2. \A j, k \in 1 .. m : c[j] = c[k] => j = k
  BY DEF Orderly
<1>3. /\ d \in Seq(1 .. n) /\ Len(d) = m - 1 /\ m - 1 \in Nat
      /\ \A k \in 1 .. m - 1 : k \in 1 .. m /\ k + 1 \in 1 .. m
      /\ \A k \in 1 .. m - 1 : k < h => d[k] = c[k]
      /\ \A k \in 1 .. m - 1 : k >= h => d[k] = c[k + 1]
  <2>1. c \in Seq(1 .. n) /\ h \in 1 .. Len(c)
    BY <1>1
  <2>2. DropsAt(d, c, h, 1 .. n)
    BY ONLY <2>1, DroppedParts
  <2> HIDE DEF d
  <2> QED BY ONLY <2>2 DEF DropsAt
<1>4. \A j \in 1 .. n : /\ x[j].next = IF j = before THEN after ELSE items[j].next
                        /\ x[j].prev = IF j = after THEN before ELSE items[j].prev
  BY DEF PassedOver
<1>5. \A k \in 1 .. m : /\ items[c[k]].next = IF k = m THEN 0 ELSE c[k + 1]
                       /\ items[c[k]].prev = IF k = 1 THEN 0 ELSE c[k - 1]
  BY DEF LinksLead
<1>6. ASSUME NEW k \in 1 .. m PROVE (c[k] = before <=> k = h - 1) /\ (c[k] = after <=> k = h + 1)
  <2>0. c[k] # 0
    BY <1>1
  <2>1. c[k] = before <=> k = h - 1
    <3>1. CASE h = 1
      BY <3>1, <2>0
    <3>2. CASE h # 1
      <4>1. h - 1 \in 1 .. m
        BY <3>2, <1>1
      <4> QED BY <4>1, <3>2, <1>2
    <3> QED BY <3>1, <3>2
  <2>2. c[k] = after <=> k = h + 1
    <3>1. CASE h = m
      BY <3>1, <2>0, <1>1
    <3>2. CASE h # m
      <4>1. h + 1 \in 1 .. m
        BY <3>2, <1>1
      <4> QED BY <4>1, <3>2, <1>2
    <3> QED BY <3>1, <3>2
  <2> QED BY <2>1, <2>2
<1> HIDE DEF d, after, before
<1>12. Orderly(d, n)
  <2> SUFFICES ASSUME NEW j \in 1 .. m - 1, NEW k \in 1 .. m - 1, d[j] = d[k] PROVE j = k
    BY <1>3 DEF Orderly
  <2>1. CASE j < h /\ k < h
    BY <2>1, <1>2, <1>3
  <2>2. CASE j < h /\ k >= h
    <3>1. c[j] = c[k + 1] /\ j \in 1 .. m /\ k + 1 \in 1 .. m
      BY <2>2, <1>3
    <3>2. j = k + 1
      BY <3>1, <1>2
    <3> QED BY <3>2, <2>2
  <2>3. CASE j >= h /\ k < h
    <3>1. c[j + 1] = c[k] /\ j + 1 \in 1 .. m /\ k \in 1 .. m
      BY <2>3, <1>3
    <3>2. j + 1 = k
      BY <3>1, <1>2
    <3> QED BY <3>2, <2>3
  <2>4. CASE j >= h /\ k >= h
    <3>1. c[j + 1] = c[k + 1] /\ j + 1 \in 1 .. m /\ k + 1 \in 1 .. m
      BY <2>4, <1>3
    <3>2. j + 1 = k + 1
      BY <3>1, <1>2
    <3> QED BY <3>2
  <2> QED BY <2>1, <2>2, <2>3, <2>4
<1>14. LinksLead(x, d)
  <2> SUFFICES ASSUME NEW k \in 1 .. m - 1
               PROVE  /\ x[d[k]].next = IF k = m - 1 THEN 0 ELSE d[k + 1]
                      /\ x[d[k]].prev = IF k = 1 THEN 0 ELSE d[k - 1]
    BY <1>3 DEF LinksLead
  <2>1. CASE k < h
    <3>1. d[k] = c[k] /\ k \in 1 .. m /\ c[k] \in 1 .. n
      BY <2>1, <1>1, <1>3
    <3>2. /\ x[c[k]].next = IF k = h - 1 THEN after ELSE IF k = m THEN 0 ELSE c[k + 1]
          /\ x[c[k]].prev = IF k = 1 THEN 0 ELSE c[k - 1]
      <4>1. (c[k] = before <=> k = h - 1) /\ c[k] # after
        <5>1. (c[k] = before <=> k = h - 1) /\ (c[k] = after <=> k = h + 1)
          BY <3>1, <1>6, Zenon
        <5> QED BY <5>1, <2>1, <1>1
      <4>2. /\ x[c[k]].next = IF c[k] = before THEN after ELSE items[c[k]].next
            /\ x[c[k]].prev = IF c[k] = after THEN before ELSE items[c[k]].prev
        BY <3>1, <1>4
      <4>3. /\ items[c[k]].next = IF k = m THEN 0 ELSE c[k + 1]
            /\ items[c[k]].prev = IF k = 1 THEN 0 ELSE c[k - 1]
        BY <3>1, <1>5
      <4> QED BY <4>1, <4>2, <4>3, Zenon
    <3>3. k # 1 => d[k - 1] = c[k - 1]
      <4>1. k # 1 => k - 1 \in 1 .. m - 1 /\ k - 1 < h
        BY <2>1, <1>1
      <4> QED BY <4>1, <1>3
    <3>4. CASE k = h - 1
      <4>1. k = m - 1 <=> h = m
        BY <3>4, <1>1
      <4>2. k # m - 1 => k + 1 \in 1 .. m - 1 /\ k + 1 >= h /\ (k + 1) + 1 = h + 1
        BY <3>4, <1>1
      <4>3. k # m - 1 => d[k + 1] = c[h + 1]
        BY <4>2, <1>3
      <4> QED BY <3>1, <3>2, <3>3, <3>4, <4>1, <4>3 DEF after
    <3>5. CASE k # h - 1
      <4>1. k + 1 \in 1 .. m - 1 /\ k + 1 < h /\ k # m /\ k # m - 1
        BY <3>5, <2>1, <1>1
      <4>2. d[k + 1] = c[k + 1]
        BY <4>1, <1>3
      <4> QED BY <3>1, <3>2, <3>3, <3>5, <4>1, <4>2
    <3> QED BY <3>4, <3>5
  <2>2. CASE k >= h
    <3>1. d[k] = c[k + 1] /\ k + 1 \in 1 .. m /\ c[k + 1] \in 1 .. n
      BY <2>2, <1>1, <1>3
    <3>2. /\ x[c[k + 1]].next = IF k + 1 = m THEN 0 ELSE c[(k + 1) + 1]
          /\ x[c[k + 1]].prev = IF k + 1 = h + 1 THEN before ELSE IF k + 1 = 1 THEN 0 ELSE c[(k + 1) - 1]
      <4>1. c[k + 1] # before /\ (c[k + 1] = after <=> k + 1 = h + 1)
        <5>1. (c[k + 1] = before <=> k + 1 = h - 1) /\ (c[k + 1] = after <=> k + 1 = h + 1)
          BY <3>1, <1>6, Zenon
        <5> QED BY <5>1, <2>2, <1>1
      <4>2. /\ x[c[k + 1]].next = IF c[k + 1] = before THEN after ELSE items[c[k + 1]].next
            /\ x[c[k + 1]].prev = IF c[k + 1] = after THEN before ELSE items[c[k + 1]].prev
        BY <3>1, <1>4
      <4>3. /\ items[c[k + 1]].next = IF k + 1 = m THEN 0 ELSE c[(k + 1) + 1]
            /\ items[c[k + 1]].prev = IF k + 1 = 1 THEN 0 ELSE c[(k + 1) - 1]
        BY <3>1, <1>5
      <4> QED BY <4>1, <4>2, <4>3, Zenon
    <3>3. k # m - 1 => d[k + 1] = c[(k + 1) + 1]
      <4>1. k # m - 1 => k + 1 \in 1 .. m - 1 /\ k + 1 >= h
        BY <2>2, <1>1
      <4> QED BY <4>1, <1>3
    <3>4. k + 1 = m <=> k = m - 1
      BY <1>1
    <3>5. CASE k = h
      <4>1. k # 1 => k - 1 \in 1 .. m - 1 /\ k - 1 < h
        BY <3>5, <1>1
      <4>2. k # 1 => d[k - 1] = c[h - 1]
        BY <4>1, <1>3, <3>5
      <4> QED BY <3>1, <3>2, <3>3, <3>4, <3>5, <4>2 DEF before
    <3>6. CASE k # h
      <4>1. k - 1 \in 1 .. m - 1 /\ k - 1 >= h /\ (k - 1) + 1 = k /\ (k + 1) - 1 = k /\ k # 1 /\ k + 1 # 1 /\ k + 1 # h + 1
        BY <2>2, <3>6, <1>1
      <4>2. d[k - 1] = c[k]
        BY <4>1, <1>3
      <4> QED BY <3>1, <3>2, <3>3, <3>4, <4>1, <4>2
    <3> QED BY <3>5, <3>6
  <2> QED BY <2>1, <2>2
<1> QED BY <1>12, <1>14 DEF d

-----------------------------------------------------------------------------
(* The schedule: preallocated lists (lists.c), ...                           *)

\* Quotient and remainder, with the facts the solver does not know by itself.
LEMMA Division ==
  ASSUME NEW v \in Int, NEW n \in Nat \ {0}
  PROVE  /\ v \div n \in Int /\ v % n \in 0..(n - 1)
         /\ v = (v \div n) * n + (v % n)
<1>1. v \div n \in Int /\ v % n \in 0..(n - 1)
  OBVIOUS
<1>2. v = n * (v \div n) + (v % n)
  OBVIOUS
<1>3. n * (v \div n) = (v \div n) * n
  BY <1>1
<1> QED BY <1>1, <1>2, <1>3

-----------------------------------------------------------------------------

\* Types of the items and lists of the schedule (prealloc_list_item_t).
QueueItems == [in_use : BOOLEAN, value : Tasks, prev : Nat, next : Nat]

QueueLists == [items : Seq(QueueItems), first : Nat, last : Nat, size : Nat, dirty : BOOLEAN, blocks : Nat]

\* The items in use are those of the chain c.
InUse(items, c) == \A j \in 1 .. Len(items) : items[j].in_use <=> \E k \in 1 .. Len(c) : c[k] = j

\* First, last and size of a list with the chain c.
Ends(l, c) ==
  /\ l.first = IF Len(c) = 0 THEN 0 ELSE c[1]
  /\ l.last = IF Len(c) = 0 THEN 0 ELSE c[Len(c)]
  /\ l.size = Len(c)

\* The list l has the chain c.
ListOK(l, c) ==
  /\ l \in QueueLists
  /\ Orderly(c, Len(l.items)) /\ InUse(l.items, c) /\ LinksLead(l.items, c)
  /\ Ends(l, c)
  /\ Len(l.items) <= l.blocks * BlockSize

\* The tasks along the chain c.
ValuesAt(l, c) == [k \in 1 .. Len(c) |-> l.items[c[k]].value]

\* The types of a preallocated list and of the chain of its items.
LEMMA ListParts ==
  ASSUME NEW l, NEW c, ListOK(l, c)
  PROVE  /\ l.items \in Seq(QueueItems) /\ Len(l.items) \in Nat /\ DOMAIN l.items = 1 .. Len(l.items)
         /\ l.items = [j \in 1 .. Len(l.items) |-> l.items[j]]
         /\ \A j \in 1 .. Len(l.items) : l.items[j] \in QueueItems
         /\ c \in Seq(1 .. Len(l.items)) /\ Len(c) \in Nat /\ DOMAIN c = 1 .. Len(c)
         /\ c = [k \in 1 .. Len(c) |-> c[k]]
         /\ \A k \in 1 .. Len(c) : c[k] \in 1 .. Len(l.items)
         /\ Len(c) <= Len(l.items)
<1>1. l.items \in Seq(QueueItems) /\ c \in Seq(1 .. Len(l.items))
  BY DEF ListOK, Orderly, QueueLists
<1>2. /\ Len(l.items) \in Nat /\ DOMAIN l.items = 1 .. Len(l.items)
      /\ l.items = [j \in 1 .. Len(l.items) |-> l.items[j]]
      /\ \A j \in 1 .. Len(l.items) : l.items[j] \in QueueItems
  BY <1>1, SequenceParts
<1>3. /\ Len(c) \in Nat /\ DOMAIN c = 1 .. Len(c) /\ c = [k \in 1 .. Len(c) |-> c[k]]
      /\ \A k \in 1 .. Len(c) : c[k] \in 1 .. Len(l.items)
  BY <1>1, SequenceParts
<1>4. Len(c) <= Len(l.items)
  BY <1>2, <1>3, Injected DEF ListOK, Orderly
<1> QED BY <1>1, <1>2, <1>3, <1>4

\* What a loop finds that begins at an item in use.
LEMMA ReachedFrom ==
  ASSUME NEW l, NEW c, ListOK(l, c), NEW k \in 1 .. Len(c)
  PROVE  Reached(l, c[k], "next") = From(c, k)
<1> DEFINE d == From(c, k)
           n == Len(l.items)
<1>1. n \in Nat /\ Len(c) \in Nat /\ Len(c) <= n /\ \A j \in 1 .. Len(c) : c[j] \in 1 .. n
  BY ListParts
<1>2. Len(c) - k + 1 \in Nat /\ Len(c) - k + 1 >= 1
  BY <1>1
<1>3. \A j \in 1 .. Len(c) - k + 1 : d[j] = c[k + j - 1] /\ k + j - 1 \in 1 .. Len(c)
  BY <1>1 DEF From
<1>4. d = [j \in 1 .. Len(c) - k + 1 |-> d[j]]
  BY DEF From
<1> HIDE DEF d
<1>5. \A j \in 1 .. Len(c) - k + 1 : d[j] \in 1 .. n
  BY <1>1, <1>3
<1>6. d \in Seq(1 .. n) /\ Len(d) = Len(c) - k + 1
  <2> DEFINE m == Len(c) - k + 1
  <2> HIDE DEF m, n
  <2>1. m \in Nat /\ d = [j \in 1 .. m |-> d[j]] /\ \A j \in 1 .. m : d[j] \in 1 .. n
    BY <1>2, <1>4, <1>5 DEF m
  <2>2. d \in Seq(1 .. n) /\ Len(d) = m
    BY <2>1, SequenceOf
  <2> QED BY <2>2 DEF m
<1>7. d[1] = c[k]
  BY <1>1, <1>2, <1>3
<1>8. ASSUME NEW j \in 1 .. Len(d) PROVE l.items[d[j]]["next"] = IF j = Len(d) THEN 0 ELSE d[j + 1]
  <2>1. j \in 1 .. Len(c) - k + 1
    BY <1>6
  <2>2. d[j] = c[k + j - 1] /\ k + j - 1 \in 1 .. Len(c)
    BY <1>3, <2>1
  <2>3. l.items[c[k + j - 1]].next = IF k + j - 1 = Len(c) THEN 0 ELSE c[k + j - 1 + 1]
    BY <2>2 DEF ListOK, LinksLead
  <2>4. CASE j = Len(d)
    BY <2>2, <2>3, <2>4, <1>1, <1>6
  <2>5. CASE j # Len(d)
    <3>1. j + 1 \in 1 .. Len(c) - k + 1 /\ k + j - 1 # Len(c) /\ k + (j + 1) - 1 = k + j - 1 + 1
      <4> DEFINE m == Len(c) - k + 1
      <4>1. m \in Nat /\ j \in 1 .. m /\ j # m
        BY <2>5, <1>2, <1>6, <2>1
      <4>2. j + 1 \in 1 .. m
        <5> HIDE DEF m
        <5> QED BY <4>1
      <4> QED BY <4>1, <4>2, <1>1
    <3>2. d[j + 1] = c[k + j - 1 + 1]
      BY <3>1, <1>3
    <3> QED BY <2>2, <2>3, <2>5, <3>1, <3>2
  <2> QED BY <2>4, <2>5
<1>9. Leads(l.items, c[k], "next", d)
  <2>1. Len(d) <= n /\ Len(d) # 0
    BY <1>1, <1>2, <1>6
  <2> QED BY <2>1, <1>6, <1>7, <1>8 DEF Leads
<1> QED BY <1>1, <1>9, Followed DEF Reached, d

\* From both ends all items in use are reached, in opposite order.
LEMMA ReachedAll ==
  ASSUME NEW l, NEW c, ListOK(l, c)
  PROVE  Reached(l, l.first, "next") = c /\ Reached(l, l.last, "prev") = Backwards(c)
<1>1. Len(l.items) \in Nat /\ EndsAre(l.first, l.last, c) /\ Orderly(c, Len(l.items)) /\ LinksLead(l.items, c)
  BY ListParts DEF ListOK, Ends, EndsAre
<1> QED BY <1>1, BothWays DEF Reached

\* What a loop over a queue sees is the sequence of the values along its chain.
LEMMA ContentsOf ==
  ASSUME NEW l, NEW c, ListOK(l, c)
  PROVE  /\ Contents(l) = ValuesAt(l, c) /\ Contents(l) \in Seq(Tasks) /\ Len(Contents(l)) = Len(c)
         /\ ValuesFrom(l, 0, "next") = << >>
         /\ \A k \in 1 .. Len(c) : ValuesFrom(l, c[k], "next") = From(Contents(l), k)
<1> DEFINE v == ValuesAt(l, c)
<1>0. /\ Len(c) \in Nat /\ DOMAIN c = 1 .. Len(c) /\ \A k \in 1 .. Len(c) : c[k] \in 1 .. Len(l.items)
      /\ Len(l.items) \in Nat
      /\ \A j \in 1 .. Len(l.items) : l.items[j] \in QueueItems
  BY ListParts
<1>1. Contents(l) = v
  BY <1>0, ReachedAll DEF Contents, ValuesFrom, ValuesAt
<1>2. v = [k \in 1 .. Len(c) |-> v[k]] /\ \A k \in 1 .. Len(c) : v[k] = l.items[c[k]].value
  BY DEF ValuesAt
<1>3. \A k \in 1 .. Len(c) : v[k] \in Tasks
  BY <1>0, <1>2 DEF QueueItems
<1>4. v \in Seq(Tasks) /\ Len(v) = Len(c)
  BY <1>0, <1>2, <1>3, SequenceOf
<1> HIDE DEF v
<1>5. ValuesFrom(l, 0, "next") = << >>
  <2>1. Leads(l.items, 0, "next", << >>)
    BY <1>0 DEF Leads
  <2>2. Reached(l, 0, "next") = << >>
    BY <2>1, <1>0, Followed DEF Reached
  <2> QED BY <2>2 DEF ValuesFrom
<1>6. ASSUME NEW k \in 1 .. Len(c) PROVE ValuesFrom(l, c[k], "next") = From(v, k)
  <2> DEFINE d == From(c, k)
  <2>1. Reached(l, c[k], "next") = d
    BY ReachedFrom
  <2>2. DOMAIN d = 1 .. Len(c) - k + 1 /\ \A j \in 1 .. Len(c) - k + 1 : d[j] = c[k + j - 1]
    BY DEF From
  <2>3. \A j \in 1 .. Len(c) - k + 1 : k + j - 1 \in 1 .. Len(c)
    BY <1>0
  <2> HIDE DEF d
  <2>4. ValuesFrom(l, c[k], "next") = [j \in 1 .. Len(c) - k + 1 |-> l.items[d[j]].value]
    BY <2>1, <2>2 DEF ValuesFrom
  <2>5. \A j \in 1 .. Len(c) - k + 1 : l.items[d[j]].value = v[k + j - 1]
    BY <2>2, <2>3, <1>2
  <2>6. From(v, k) = [j \in 1 .. Len(c) - k + 1 |-> v[k + j - 1]]
    BY <1>4 DEF From
  <2> QED BY <2>4, <2>5, <2>6
<1> QED BY <1>1, <1>4, <1>5, <1>6 DEF v

-----------------------------------------------------------------------------

\* create_preallocated_list makes an empty list.
LEMMA CreatedOK == ListOK(create_preallocated_list, << >>)
<1> DEFINE l == create_preallocated_list
<1>1. l.items = << >> /\ l.first = 0 /\ l.last = 0 /\ l.size = 0 /\ l.blocks = 1 /\ l.dirty = FALSE
  BY DEF create_preallocated_list
<1>2. l \in QueueLists
  BY DEF create_preallocated_list, QueueLists
<1> HIDE DEF l
<1>3. Len(l.items) = 0 /\ Len(l.items) <= l.blocks * BlockSize
  BY <1>1, BlockSizeAssumption
<1> QED BY <1>1, <1>2, <1>3 DEF ListOK, Orderly, InUse, LinksLead, Ends, l

\* prealloc_list_append adds its item at the end.
LEMMA AppendOK ==
  ASSUME NEW l, NEW c, ListOK(l, c), NEW t \in Tasks
  PROVE  LET a == prealloc_list_append(l, t)
         IN  /\ ListOK(a, Append(c, Len(l.items) + 1))
             /\ ValuesAt(a, Append(c, Len(l.items) + 1)) = Append(ValuesAt(l, c), t)
<1> DEFINE n == Len(l.items)
           i == n + 1
           a == prealloc_list_append(l, t)
           d == Append(c, i)
           m == Len(c)
           x == Linked(l, i)
           y == NewItem(l, t)
<1>1. /\ n \in Nat /\ m \in Nat /\ m <= n /\ \A j \in 1 .. m : c[j] \in 1 .. n
      /\ c \in Seq(1 .. n) /\ l.items \in Seq(QueueItems) /\ \A j \in 1 .. n : l.items[j] \in QueueItems
      /\ DOMAIN l.items = 1 .. n
  BY ListParts
<1>2. l.last \in Nat /\ (l.last # 0 <=> m # 0) /\ (m # 0 => l.last = c[m]) /\ (m # 0 => c[m] \in 1 .. n)
  BY <1>1 DEF ListOK, Ends
<1>3. y = [in_use |-> TRUE, value |-> t, prev |-> l.last, next |-> 0] /\ y \in QueueItems
  BY <1>2 DEF NewItem, QueueItems
<1>4. /\ x \in Seq(QueueItems) /\ Len(x) = n
      /\ \A j \in 1 .. n : /\ x[j].in_use = l.items[j].in_use /\ x[j].value = l.items[j].value
                           /\ x[j].prev = l.items[j].prev
                           /\ x[j].next = IF m # 0 /\ j = c[m] THEN i ELSE l.items[j].next
  <2>1. CASE m = 0
    <3>1. x = l.items
      BY <2>1, <1>2 DEF Linked
    <3> QED BY <3>1, <2>1, <1>1
  <2>2. CASE m # 0
    <3> DEFINE z == [l.items[c[m]] EXCEPT !.next = i]
    <3>1. x = [l.items EXCEPT ![c[m]] = z]
      BY <2>2, <1>2 DEF Linked
    <3>2. z \in QueueItems /\ z.in_use = l.items[c[m]].in_use /\ z.value = l.items[c[m]].value
          /\ z.prev = l.items[c[m]].prev /\ z.next = i
      <4>1. l.items[c[m]] \in QueueItems /\ i \in Nat
        BY <2>2, <1>1, <1>2
      <4> QED BY <4>1 DEF QueueItems
    <3> HIDE DEF z
    <3>3. x \in Seq(QueueItems) /\ Len(x) = n
      <4>1. c[m] \in 1 .. Len(l.items)
        BY <2>2, <1>2
      <4> DEFINE q == l.items
                 h == c[m]
      <4>2. q \in Seq(QueueItems) /\ h \in 1 .. Len(q) /\ Len(q) = n /\ x = [q EXCEPT ![h] = z]
        BY <4>1, <3>1, <1>1
      <4> HIDE DEF q, h, x, n
      <4>3. [q EXCEPT ![h] = z] \in Seq(QueueItems) /\ Len([q EXCEPT ![h] = z]) = Len(q)
        BY <4>2, <3>2, ExceptSeq
      <4> QED BY <4>2, <4>3
    <3>4. \A j \in 1 .. n : x[j] = IF j = c[m] THEN z ELSE l.items[j]
      BY <3>1, <1>1
    <3> QED BY <3>2, <3>3, <3>4, <2>2
  <2> QED BY <2>1, <2>2
<1> HIDE DEF x, y
<1> DEFINE its == Append(x, y)
<1>5. /\ its \in Seq(QueueItems) /\ Len(its) = i /\ its[i] = y
      /\ \A j \in 1 .. n : its[j] = x[j]
  <2>1. x \in Seq(QueueItems) /\ y \in QueueItems /\ Len(x) = n
    BY <1>3, <1>4
  <2>2. /\ its \in Seq(QueueItems) /\ Len(its) = Len(x) + 1 /\ its[Len(x) + 1] = y
        /\ \A j \in 1 .. Len(x) : its[j] = x[j]
    BY <2>1, AppendProperties
  <2> QED BY <2>1, <2>2
<1>6. /\ d \in Seq(1 .. i) /\ Len(d) = m + 1 /\ d[m + 1] = i
      /\ \A k \in 1 .. m : d[k] = c[k]
  <2>1. c \in Seq(1 .. i) /\ i \in 1 .. i
    <3>1. 1 .. n \subseteq 1 .. i /\ i \in 1 .. i
      BY <1>1
    <3> QED BY <3>1, <1>1, SeqMonotonic
  <2> HIDE DEF i
  <2> QED BY <2>1, AppendProperties
<1>7. /\ a.items = its /\ a.first = (IF l.first = 0 THEN i ELSE l.first) /\ a.last = i
      /\ a.size = l.size + 1 /\ a.blocks = (IF BlockFull(l) THEN l.blocks + 1 ELSE l.blocks)
      /\ a.dirty = l.dirty
  BY DEF prealloc_list_append, ListOK, QueueLists, x, y
<1>8. a \in QueueLists
  <2>1. l \in QueueLists
    BY DEF ListOK
  <2> DEFINE f == IF l.first = 0 THEN i ELSE l.first
             b == IF BlockFull(l) THEN l.blocks + 1 ELSE l.blocks
             s == l.size + 1
  <2>2. f \in Nat /\ b \in Nat /\ i \in Nat /\ s \in Nat
    BY <2>1, <1>1 DEF QueueLists
  <2>3. a = [l EXCEPT !.items = its, !.first = f, !.last = i, !.size = s, !.blocks = b]
    BY DEF prealloc_list_append, x, y
  <2> HIDE DEF its, f, b, i, a, s
  <2> QED BY <2>1, <2>2, <2>3, <1>5 DEF QueueLists
<1> HIDE DEF a, d, its
<1>9. \A j \in 1 .. i : its[j] = IF j = i THEN y ELSE x[j]
  BY <1>1, <1>5
<1>10. Orderly(d, i)
  <2> SUFFICES ASSUME NEW j \in 1 .. m + 1, NEW k \in 1 .. m + 1, d[j] = d[k] PROVE j = k
    BY <1>6 DEF Orderly
  <2>1. \A h \in 1 .. m + 1 : (h \in 1 .. m /\ d[h] = c[h] /\ d[h] # i) \/ (h = m + 1 /\ d[h] = i)
    <3>1. \A h \in 1 .. m : c[h] # i
      BY <1>1
    <3>2. \A h \in 1 .. m + 1 : h \in 1 .. m \/ h = m + 1
      BY <1>1
    <3>3. d[m + 1] = i /\ \A h \in 1 .. m : d[h] = c[h]
      BY <1>6
    <3> HIDE DEF i, m
    <3> QED BY ONLY <3>1, <3>2, <3>3
  <2> QED BY <2>1 DEF ListOK, Orderly
<1>11. InUse(its, d)
  <2> SUFFICES ASSUME NEW j \in 1 .. i PROVE its[j].in_use <=> \E k \in 1 .. m + 1 : d[k] = j
    BY <1>5, <1>6 DEF InUse
  <2>1. CASE j = i
    <3>1. its[j].in_use
      BY <2>1, <1>3, <1>9
    <3>2. m + 1 \in 1 .. m + 1 /\ d[m + 1] = j
      BY <2>1, <1>1, <1>6
    <3> QED BY <3>1, <3>2
  <2>2. CASE j # i
    <3>1. j \in 1 .. n
      BY <2>2, <1>1
    <3>2. its[j].in_use = l.items[j].in_use
      BY <3>1, <2>2, <1>4, <1>9
    <3>3. l.items[j].in_use <=> \E k \in 1 .. m : c[k] = j
      BY <3>1 DEF ListOK, InUse
    <3>4. (\E k \in 1 .. m : c[k] = j) <=> \E k \in 1 .. m + 1 : d[k] = j
      <4>1. \A k \in 1 .. m + 1 : k \in 1 .. m \/ k = m + 1
        BY <1>1
      <4>2. \A k \in 1 .. m : k \in 1 .. m + 1
        BY <1>1
      <4>3. d[m + 1] # j
        BY <2>2, <1>6
      <4> QED BY <4>1, <4>2, <4>3, <1>6, Zenon
    <3> QED BY <3>2, <3>3, <3>4
  <2> QED BY <2>1, <2>2
<1>12. LinksLead(its, d)
  <2> SUFFICES ASSUME NEW k \in 1 .. m + 1
               PROVE  /\ its[d[k]].next = IF k = m + 1 THEN 0 ELSE d[k + 1]
                      /\ its[d[k]].prev = IF k = 1 THEN 0 ELSE d[k - 1]
    BY <1>6 DEF LinksLead
  <2>1. CASE k = m + 1
    <3>1. its[d[k]] = y
      BY <2>1, <1>5, <1>6
    <3>2. k # 1 => k - 1 \in 1 .. m /\ k - 1 = m /\ d[k - 1] = c[m]
      BY <2>1, <1>1, <1>6
    <3>3. l.last = IF k = 1 THEN 0 ELSE d[k - 1]
      BY <2>1, <3>2, <1>1, <1>2
    <3> QED BY <2>1, <3>1, <3>3, <1>3
  <2>2. CASE k # m + 1
    <3>0. k \in 1 .. m
      BY <2>2, <1>1
    <3>x. c[k] \in 1 .. n /\ n \in Nat /\ i = n + 1
      BY <3>0, <1>1
    <3>y. d[k] = c[k]
      BY <3>0, <1>6
    <3>1. k \in 1 .. m /\ d[k] = c[k] /\ c[k] \in 1 .. n /\ c[k] # i
      BY ONLY <3>0, <3>x, <3>y
    <3>2. its[d[k]] = x[c[k]]
      BY <3>1, <1>5
    <3>3. /\ l.items[c[k]].next = IF k = m THEN 0 ELSE c[k + 1]
          /\ l.items[c[k]].prev = IF k = 1 THEN 0 ELSE c[k - 1]
      BY <3>1 DEF ListOK, LinksLead
    <3>4. x[c[k]].prev = l.items[c[k]].prev /\ x[c[k]].next = IF m # 0 /\ c[k] = c[m] THEN i ELSE l.items[c[k]].next
      BY <3>1, <1>4
    <3>5. c[k] = c[m] <=> k = m
      BY <3>1, <1>1 DEF ListOK, Orderly
    <3>6. k # m => d[k + 1] = c[k + 1]
      <4>1. k # m => k + 1 \in 1 .. m
        BY <3>1, <1>1
      <4> QED BY <4>1, <1>6
    <3>7. k # 1 => d[k - 1] = c[k - 1]
      <4>1. k # 1 => k - 1 \in 1 .. m
        BY <3>1, <1>1
      <4> QED BY <4>1, <1>6
    <3>8. k = m => d[k + 1] = i
      BY <1>6
    <3> QED BY <2>2, <3>1, <3>2, <3>3, <3>4, <3>5, <3>6, <3>7, <3>8
  <2> QED BY <2>1, <2>2
<1>13. Ends(a, d)
  <2>1. m = 0 => l.first = 0 /\ d[1] = i
    BY <1>1, <1>6 DEF ListOK, Ends
  <2>2. m # 0 => l.first = c[1] /\ c[1] # 0 /\ d[1] = c[1]
    BY <1>1, <1>6 DEF ListOK, Ends
  <2>3. l.size = m
    BY DEF ListOK, Ends
  <2> QED BY <2>1, <2>2, <2>3, <1>1, <1>6, <1>7 DEF Ends
<1>14. Len(a.items) <= a.blocks * BlockSize
  <2>1. l.blocks \in Nat /\ BlockSize \in Nat \ {0} /\ n <= l.blocks * BlockSize
    BY BlockSizeAssumption DEF ListOK, QueueLists
  <2>2. CASE BlockFull(l)
    <3>1. (l.blocks + 1) * BlockSize = l.blocks * BlockSize + BlockSize
      BY <2>1
    <3>2. l.blocks * BlockSize \in Nat
      BY <2>1
    <3> QED BY <2>1, <2>2, <3>1, <3>2, <1>1, <1>5, <1>7
  <2>3. CASE ~BlockFull(l)
    <3>1. l.blocks * BlockSize \in Nat
      BY <2>1
    <3>2. n < l.blocks * BlockSize
      BY <2>3, <3>1, <1>1 DEF BlockFull
    <3> QED BY <2>3, <3>1, <3>2, <1>1, <1>5, <1>7
  <2> QED BY <2>2, <2>3
<1>15. ListOK(a, d)
  BY <1>5, <1>7, <1>8, <1>10, <1>11, <1>12, <1>13, <1>14 DEF ListOK
<1>16. ValuesAt(a, d) = Append(ValuesAt(l, c), t)
  <2> DEFINE v == ValuesAt(l, c)
             w == ValuesAt(a, d)
             z == Append(v, t)
  <2>1. v \in Seq(Tasks) /\ Len(v) = m /\ w \in Seq(Tasks) /\ Len(w) = m + 1
    BY <1>6, <1>15, ContentsOf
  <2>2. z \in Seq(Tasks) /\ Len(z) = m + 1 /\ z[m + 1] = t /\ \A k \in 1 .. m : z[k] = v[k]
    <3> HIDE DEF v
    <3> QED BY <2>1, AppendProperties
  <2>3. \A k \in 1 .. m : v[k] = l.items[c[k]].value
    BY DEF ValuesAt
  <2>4. \A k \in 1 .. m + 1 : w[k] = its[d[k]].value
    BY <1>6, <1>7 DEF ValuesAt
  <2> HIDE DEF v, w, z
  <2>5. ASSUME NEW k \in 1 .. m + 1 PROVE w[k] = z[k]
    <3>1. CASE k = m + 1
      BY <3>1, <2>2, <2>4, <1>3, <1>5, <1>6
    <3>2. CASE k # m + 1
      <4>1. k \in 1 .. m /\ c[k] \in 1 .. n
        BY <3>2, <1>1
      <4>2. its[d[k]].value = l.items[c[k]].value
        BY <4>1, <1>4, <1>5, <1>6
      <4> QED BY <4>1, <4>2, <2>2, <2>3, <2>4
    <3> QED BY <3>1, <3>2
  <2>6. w = z
    BY <2>1, <2>2, <2>5, SeqEqual
  <2> QED BY <2>6 DEF w, z, v
<1> QED BY <1>15, <1>16 DEF a, d

-----------------------------------------------------------------------------
\* The items x are those of its, but the one at i is out of use and its
\* neighbours before and after point past it.
LinkedPast(x, its, i, before, after) ==
  /\ x \in Seq(QueueItems) /\ Len(x) = Len(its)
  /\ \A j \in 1 .. Len(its) :
       /\ x[j].in_use <=> its[j].in_use /\ j # i
       /\ x[j].value = its[j].value
       /\ x[j].next = IF j = before THEN after ELSE its[j].next
       /\ x[j].prev = IF j = after THEN before ELSE its[j].prev

\* The items after item c[h] was unlinked.
LEMMA UnlinkedItems ==
  ASSUME NEW l, NEW c, ListOK(l, c), NEW h \in 1 .. Len(c)
  PROVE  LET x == Unlinked(l, c[h])
             before == IF h = 1 THEN 0 ELSE c[h - 1]
             after == IF h = Len(c) THEN 0 ELSE c[h + 1]
         IN  LinkedPast(x, l.items, c[h], before, after)
<1> DEFINE n == Len(l.items)
           i == c[h]
           x == Unlinked(l, i)
           before == IF h = 1 THEN 0 ELSE c[h - 1]
           after == IF h = Len(c) THEN 0 ELSE c[h + 1]
<1>1. /\ n \in Nat /\ Len(c) \in Nat /\ \A j \in 1 .. Len(c) : c[j] \in 1 .. n
      /\ \A j \in 1 .. n : l.items[j] \in QueueItems
      /\ DOMAIN l.items = 1 .. n
  BY ListParts
<1>2. l.items[i].next = after /\ l.items[i].prev = before
  BY DEF ListOK, LinksLead
<1>3. before \in Nat /\ after \in Nat
  <2>1. i \in 1 .. n
    BY <1>1
  <2>2. l.items[i] \in QueueItems
    BY <2>1, <1>1
  <2> HIDE DEF i, before, after
  <2> QED BY <2>2, <1>2 DEF QueueItems
<1> HIDE DEF before, after, i, n
<1>4. x = [j \in 1 .. n |-> x[j]] /\
      \A j \in 1 .. n : x[j] = [l.items[j] EXCEPT !.in_use = @ /\ j # i, !.next = IF j = before THEN after ELSE @,
                                                 !.prev = IF j = after THEN before ELSE @]
  BY <1>1, <1>2 DEF Unlinked
<1> HIDE DEF x
<1>5. ASSUME NEW j \in 1 .. n
      PROVE  /\ x[j] \in QueueItems
             /\ x[j].in_use <=> l.items[j].in_use /\ j # i
             /\ x[j].value = l.items[j].value
             /\ x[j].next = IF j = before THEN after ELSE l.items[j].next
             /\ x[j].prev = IF j = after THEN before ELSE l.items[j].prev
  <2> DEFINE o == l.items[j]
             u == o.in_use /\ j # i
             nx == IF j = before THEN after ELSE o.next
             pv == IF j = after THEN before ELSE o.prev
  <2>1. o \in QueueItems
    BY <1>1
  <2>2. nx \in Nat /\ pv \in Nat
    BY <2>1, <1>3 DEF QueueItems
  <2>3. u \in BOOLEAN
    BY Zenon
  <2>4. x[j] = [o EXCEPT !.in_use = u, !.next = nx, !.prev = pv]
    BY <1>4, Zenon
  <2>5. u <=> (l.items[j].in_use /\ j # i)
    OBVIOUS
  <2> HIDE DEF o, u, nx, pv
  <2>6. x[j] \in QueueItems /\ x[j].value = o.value /\ x[j].next = nx /\ x[j].prev = pv
    BY <2>1, <2>2, <2>3, <2>4 DEF QueueItems
  <2>7. x[j].in_use = u
    BY <2>1, <2>4, Zenon DEF QueueItems
  <2> QED BY <2>5, <2>6, <2>7 DEF o, nx, pv
<1>6. x \in Seq(QueueItems) /\ Len(x) = n
  <2>1. x = [j \in 1 .. n |-> x[j]] /\ n \in Nat /\ \A j \in 1 .. n : x[j] \in QueueItems
    BY <1>1, <1>4, <1>5
  <2> QED BY <2>1, SequenceOf
<1>7. LinkedPast(x, l.items, i, before, after)
  BY <1>5, <1>6 DEF LinkedPast, n
<1> QED BY ONLY <1>7 DEF x, before, after, i

\* prealloc_list_delete_item takes its item out, and leaves its links alone.
LEMMA DeleteOK ==
  ASSUME NEW l, NEW c, ListOK(l, c), NEW h \in 1 .. Len(c)
  PROVE  LET a == prealloc_list_delete_item(l, c[h])
         IN  /\ ListOK(a, Dropped(c, h))
             /\ ValuesAt(a, Dropped(c, h)) = Dropped(ValuesAt(l, c), h)
             /\ a.items[c[h]].next = IF h = Len(c) THEN 0 ELSE c[h + 1]
<1> DEFINE n == Len(l.items)
           m == Len(c)
           i == c[h]
           a == prealloc_list_delete_item(l, i)
           x == Unlinked(l, i)
           d == Dropped(c, h)
           before == IF h = 1 THEN 0 ELSE c[h - 1]
           after == IF h = m THEN 0 ELSE c[h + 1]
<1>1. /\ n \in Nat /\ m \in Nat /\ m <= n /\ \A j \in 1 .. m : c[j] \in 1 .. n
      /\ c \in Seq(1 .. n)
  BY ListParts
<1>2. \A j, k \in 1 .. m : c[j] = c[k] => j = k
  BY DEF ListOK, Orderly
<1>3. /\ d \in Seq(1 .. n) /\ Len(d) = m - 1 /\ m - 1 \in Nat
      /\ \A k \in 1 .. m - 1 : k \in 1 .. m /\ k + 1 \in 1 .. m
      /\ \A k \in 1 .. m - 1 : k < h => d[k] = c[k]
      /\ \A k \in 1 .. m - 1 : k >= h => d[k] = c[k + 1]
  <2>1. c \in Seq(1 .. n) /\ h \in 1 .. Len(c)
    BY <1>1
  <2>2. DropsAt(d, c, h, 1 .. n)
    BY ONLY <2>1, DroppedParts
  <2> HIDE DEF d
  <2> QED BY ONLY <2>2 DEF DropsAt
<1>4. /\ x \in Seq(QueueItems) /\ Len(x) = n
      /\ \A j \in 1 .. n :
                  /\ x[j].in_use <=> l.items[j].in_use /\ j # i
                  /\ x[j].value = l.items[j].value
                  /\ x[j].next = IF j = before THEN after ELSE l.items[j].next
                  /\ x[j].prev = IF j = after THEN before ELSE l.items[j].prev
  <2>1. LinkedPast(x, l.items, i, before, after)
    BY UnlinkedItems
  <2> HIDE DEF x, before, after, i
  <2> QED BY ONLY <2>1 DEF LinkedPast
<1>5. \A k \in 1 .. m : /\ l.items[c[k]].next = IF k = m THEN 0 ELSE c[k + 1]
                       /\ l.items[c[k]].prev = IF k = 1 THEN 0 ELSE c[k - 1]
  BY DEF ListOK, LinksLead
<1>6. ASSUME NEW k \in 1 .. m PROVE (c[k] = before <=> k = h - 1) /\ (c[k] = after <=> k = h + 1)
  <2>0. c[k] # 0
    BY <1>1
  <2>1. c[k] = before <=> k = h - 1
    <3>1. CASE h = 1
      BY <3>1, <2>0
    <3>2. CASE h # 1
      <4>1. h - 1 \in 1 .. m
        BY <3>2, <1>1
      <4> QED BY <4>1, <3>2, <1>2
    <3> QED BY <3>1, <3>2
  <2>2. c[k] = after <=> k = h + 1
    <3>1. CASE h = m
      BY <3>1, <2>0, <1>1
    <3>2. CASE h # m
      <4>1. h + 1 \in 1 .. m
        BY <3>2, <1>1
      <4> QED BY <4>1, <3>2, <1>2
    <3> QED BY <3>1, <3>2
  <2> QED BY <2>1, <2>2
<1>7. l \in QueueLists /\ l.size = m /\ l.first = c[1] /\ l.last = c[m] /\ l.first \in Nat /\ l.last \in Nat
  BY <1>1 DEF ListOK, Ends, QueueLists
<1>8. l.items[i].next = after /\ l.items[i].prev = before /\ after \in Nat /\ before \in Nat
  <2>1. l.items[i].next = after /\ l.items[i].prev = before
    BY <1>5
  <2>2. l.items[i] \in QueueItems
    BY <1>1, ListParts
  <2> HIDE DEF after, before, i
  <2> QED BY <2>1, <2>2 DEF QueueItems
<1> DEFINE first == IF l.first = i THEN after ELSE l.first
           last == IF l.last = i THEN before ELSE l.last
<1>9. a = [l EXCEPT !.items = x, !.first = first, !.last = last, !.size = l.size - 1, !.dirty = TRUE]
  BY <1>8 DEF prealloc_list_delete_item
<1> HIDE DEF x, d, after, before
<1>10. first \in Nat /\ last \in Nat /\ l.size - 1 \in Nat
  BY <1>3, <1>7, <1>8
<1>11. /\ a \in QueueLists /\ a.items = x /\ a.first = first /\ a.last = last /\ a.size = m - 1
       /\ a.blocks = l.blocks
  <2> HIDE DEF first, last, i, m, a
  <2> QED BY <1>4, <1>7, <1>9, <1>10 DEF QueueLists
<1> HIDE DEF a
<1>z. PassedOver(l.items, x, n, c, h)
  BY <1>4 DEF PassedOver, before, after
<1>12. Orderly(d, n) /\ LinksLead(x, d)
  BY <1>1, <1>z, LinksDropped DEF ListOK, d
<1>13. InUse(x, d)
  <2> SUFFICES ASSUME NEW j \in 1 .. n PROVE x[j].in_use <=> \E k \in 1 .. m - 1 : d[k] = j
    BY <1>3, <1>4 DEF InUse
  <2>1. x[j].in_use <=> (\E k \in 1 .. m : c[k] = j) /\ j # i
    BY <1>4 DEF ListOK, InUse
  <2>2. ASSUME NEW k \in 1 .. m, c[k] = j, j # i PROVE \E q \in 1 .. m - 1 : d[q] = j
    <3>1. k # h
      BY <2>2
    <3>2. CASE k < h
      <4>1. k \in 1 .. m - 1
        BY <3>2, <1>1
      <4> QED BY <4>1, <3>2, <1>3, <2>2
    <3>3. CASE k > h
      <4>1. k - 1 \in 1 .. m - 1 /\ k - 1 >= h /\ (k - 1) + 1 = k
        BY <3>3, <1>1
      <4>2. d[k - 1] = c[(k - 1) + 1]
        BY <4>1, <1>3
      <4> QED BY <4>1, <4>2, <2>2
    <3> QED BY <3>1, <3>2, <3>3, <1>1
  <2>3. ASSUME NEW k \in 1 .. m - 1, d[k] = j PROVE (\E q \in 1 .. m : c[q] = j) /\ j # i
    <3>1. CASE k < h
      <4>1. k \in 1 .. m /\ c[k] = j /\ k # h
        BY <3>1, <1>3, <2>3
      <4> QED BY <4>1, <1>2
    <3>2. CASE k >= h
      <4>1. k + 1 \in 1 .. m /\ c[k + 1] = j /\ k + 1 # h
        BY <3>2, <1>3, <2>3
      <4> QED BY <4>1, <1>2
    <3> QED BY <3>1, <3>2
  <2> QED BY <2>1, <2>2, <2>3
<1>15. Ends(a, d)
  <2>1. l.first = i <=> h = 1
    BY <1>1, <1>2, <1>7
  <2>2. l.last = i <=> h = m
    BY <1>1, <1>2, <1>7
  <2>3. first = IF m - 1 = 0 THEN 0 ELSE d[1]
    <3>1. CASE h = 1
      <4>1. m - 1 # 0 => 1 \in 1 .. m - 1 /\ d[1] = c[1 + 1]
        BY <3>1, <1>1, <1>3
      <4> QED BY <3>1, <2>1, <4>1, <1>1 DEF after
    <3>2. CASE h # 1
      <4>0. m - 1 # 0 /\ 1 \in 1 .. m - 1 /\ 1 < h
        BY <3>2, <1>1
      <4>1. m - 1 # 0 /\ d[1] = c[1]
        BY <4>0, <1>3
      <4> QED BY <3>2, <2>1, <4>1, <1>7
    <3> QED BY <3>1, <3>2
  <2>4. last = IF m - 1 = 0 THEN 0 ELSE d[m - 1]
    <3>1. CASE h = m
      <4>0. m - 1 # 0 => m - 1 \in 1 .. m - 1 /\ m - 1 < h
        BY <3>1, <1>1
      <4>1. m - 1 # 0 => d[m - 1] = c[m - 1]
        BY <4>0, <1>3
      <4> QED BY <3>1, <2>2, <4>1, <1>1 DEF before
    <3>2. CASE h # m
      <4>1. m - 1 # 0 /\ m - 1 \in 1 .. m - 1 /\ m - 1 >= h /\ (m - 1) + 1 = m
        BY <3>2, <1>1
      <4>2. d[m - 1] = c[m]
        BY <4>1, <1>3
      <4> QED BY <3>2, <2>2, <4>1, <4>2, <1>7
    <3> QED BY <3>1, <3>2
  <2> HIDE DEF first, last
  <2> QED BY <2>3, <2>4, <1>3, <1>11 DEF Ends
<1>16. ListOK(a, d)
  <2>1. Len(x) <= a.blocks * BlockSize
    BY <1>4, <1>11 DEF ListOK
  <2> QED BY <2>1, <1>4, <1>11, <1>12, <1>13, <1>15 DEF ListOK
<1>17. a.items[i].next = after
  <2>1. i \in 1 .. n
    BY <1>1
  <2>2. i # before
    <3>1. c[h] = before <=> h = h - 1
      BY <1>6
    <3> QED BY <3>1, <1>1
  <2> QED BY <2>1, <2>2, <1>4, <1>8, <1>11
<1>18. ValuesAt(a, d) = Dropped(ValuesAt(l, c), h)
  <2> DEFINE v == ValuesAt(l, c)
             w == ValuesAt(a, d)
             z == Dropped(v, h)
  <2>1. v \in Seq(Tasks) /\ Len(v) = m /\ w \in Seq(Tasks) /\ Len(w) = m - 1
    BY <1>3, <1>16, ContentsOf
  <2>2. \A k \in 1 .. m : v[k] = l.items[c[k]].value
    BY DEF ValuesAt
  <2>3. \A k \in 1 .. m - 1 : w[k] = x[d[k]].value
    BY <1>3, <1>11 DEF ValuesAt
  <2> HIDE DEF v, w
  <2>4. /\ z \in Seq(Tasks) /\ Len(z) = m - 1
        /\ \A k \in 1 .. m - 1 : k < h => z[k] = v[k]
        /\ \A k \in 1 .. m - 1 : k >= h => z[k] = v[k + 1]
    BY <2>1, DroppedParts DEF DropsAt
  <2> HIDE DEF z
  <2>5. ASSUME NEW k \in 1 .. m - 1 PROVE w[k] = z[k]
    <3>1. CASE k < h
      <4>1. k \in 1 .. m /\ c[k] \in 1 .. n /\ d[k] = c[k]
        BY <3>1, <1>1, <1>3
      <4> QED BY <4>1, <3>1, <2>2, <2>3, <2>4, <1>4
    <3>2. CASE k >= h
      <4>1. k + 1 \in 1 .. m /\ c[k + 1] \in 1 .. n /\ d[k] = c[k + 1]
        BY <3>2, <1>1, <1>3
      <4> QED BY <4>1, <3>2, <2>2, <2>3, <2>4, <1>4
    <3> QED BY <3>1, <3>2
  <2>6. w = z
    BY <2>1, <2>4, <2>5, SeqEqual
  <2> QED BY <2>6 DEF w, z, v
<1> QED BY <1>16, <1>17, <1>18 DEF a, d, after

-----------------------------------------------------------------------------
\* Enough blocks for n items.
LEMMA BlocksSuffice ==
  ASSUME NEW n \in Nat
  PROVE  BlocksFor(n) \in Nat /\ n <= BlocksFor(n) * BlockSize
<1>1. BlockSize \in Nat \ {0}
  BY BlockSizeAssumption
<1>2. CASE n = 0
  BY <1>1, <1>2 DEF BlocksFor
<1>3. CASE n # 0
  <2> DEFINE v == n + BlockSize - 1
             q == v \div BlockSize
  <2>1. v \in Nat /\ BlocksFor(n) = q
    BY <1>1, <1>3 DEF BlocksFor
  <2> HIDE DEF v
  <2>2. q \in Int /\ v = q * BlockSize + (v % BlockSize) /\ v % BlockSize \in 0 .. (BlockSize - 1)
    BY <2>1, <1>1, Division
  <2>3. q >= 0
    <3>1. SUFFICES ASSUME q <= -1 PROVE FALSE
      BY <2>2
    <3> DEFINE e == v % BlockSize
    <3> HIDE DEF q, e
    <3>2. q * BlockSize <= -BlockSize
      BY <3>1, <2>2, <1>1
    <3>3. v = q * BlockSize + e /\ e \in 0 .. (BlockSize - 1)
      BY <2>2 DEF e
    <3> QED BY <3>2, <3>3, <2>1, <2>2, <1>1
  <2>4. n <= q * BlockSize
    <3> DEFINE e == v % BlockSize
               w == q * BlockSize
    <3>1. v = w + e /\ e \in 0 .. (BlockSize - 1) /\ w \in Int
      BY <2>2, <1>1
    <3> HIDE DEF e, w
    <3> QED BY <3>1, <1>1 DEF v, w
  <2> QED BY <2>1, <2>2, <2>3, <2>4
<1> QED BY <1>2, <1>3

\* prealloc_list_compact keeps the contents.
LEMMA CompactOK ==
  ASSUME NEW l, NEW c, ListOK(l, c)
  PROVE  \E d : /\ ListOK(prealloc_list_compact(l), d)
               /\ ValuesAt(prealloc_list_compact(l), d) = ValuesAt(l, c)
<1>1. CASE ~l.dirty
  BY <1>1 DEF prealloc_list_compact
<1>2. CASE l.dirty
  <2> DEFINE v == ValuesAt(l, c)
             m == Len(c)
             a == Compacted(l, v)
             d == [k \in 1 .. m |-> k]
             Item(k) == [in_use |-> TRUE, value |-> v[k], prev |-> k - 1, next |-> IF k = m THEN 0 ELSE k + 1]
  <2>1. v \in Seq(Tasks) /\ Len(v) = m /\ Contents(l) = v /\ m \in Nat /\ \A k \in 1 .. m : v[k] \in Tasks
    BY ContentsOf, ListParts
  <2>2. prealloc_list_compact(l) = a
    BY <1>2, <2>1 DEF prealloc_list_compact
  <2>3. l.size = m /\ l \in QueueLists /\ (m = 0 => l.first = 0 /\ l.last = 0)
    BY DEF ListOK, Ends
  <2> HIDE DEF v
  <2>4. a = [items |-> [k \in 1 .. m |-> Item(k)], first |-> IF m > 0 THEN 1 ELSE l.first,
             last |-> IF m > 0 THEN m ELSE l.last, size |-> m, dirty |-> FALSE, blocks |-> BlocksFor(m)]
    BY <2>1, <2>3 DEF Compacted
  <2> DEFINE its == [k \in 1 .. m |-> Item(k)]
  <2>5. \A k \in 1 .. m : /\ its[k] = Item(k) /\ its[k] \in QueueItems
    BY <2>1 DEF QueueItems
  <2>6. its = [k \in 1 .. m |-> its[k]]
    OBVIOUS
  <2>7. \A k \in 1 .. m : /\ its[k].in_use /\ its[k].value = v[k] /\ its[k].prev = k - 1
                          /\ its[k].next = IF k = m THEN 0 ELSE k + 1
    BY <2>5
  <2> HIDE DEF its
  <2>8. its \in Seq(QueueItems) /\ Len(its) = m
    BY <2>1, <2>5, <2>6, SequenceOf
  <2>9. /\ a.items = its /\ a.first = (IF m > 0 THEN 1 ELSE 0) /\ a.last = (IF m > 0 THEN m ELSE 0)
        /\ a.size = m /\ a.blocks = BlocksFor(m) /\ a.dirty = FALSE
    BY <2>1, <2>3, <2>4 DEF its
  <2>10. a \in QueueLists
    <3> DEFINE f == IF m > 0 THEN 1 ELSE l.first
               g == IF m > 0 THEN m ELSE l.last
               b == BlocksFor(m)
    <3>1. f \in Nat /\ g \in Nat /\ b \in Nat
      BY <2>1, <2>3, BlocksSuffice
    <3>2. a = [items |-> its, first |-> f, last |-> g, size |-> m, dirty |-> FALSE, blocks |-> b]
      BY <2>4 DEF its
    <3> HIDE DEF f, g, b, m
    <3> QED BY <2>1, <2>8, <3>1, <3>2 DEF QueueLists
  <2> HIDE DEF a
  <2>11. d = [k \in 1 .. m |-> d[k]] /\ \A k \in 1 .. m : d[k] = k
    OBVIOUS
  <2> HIDE DEF d
  <2>12. d \in Seq(1 .. m) /\ Len(d) = m
    <3> HIDE DEF m
    <3> QED BY <2>1, <2>11, SequenceOf
  <2>13. Orderly(d, m) /\ InUse(its, d)
    BY <2>7, <2>8, <2>11, <2>12 DEF Orderly, InUse
  <2>14. LinksLead(its, d)
    <3> SUFFICES ASSUME NEW k \in 1 .. m
                 PROVE  /\ its[d[k]].next = IF k = m THEN 0 ELSE d[k + 1]
                        /\ its[d[k]].prev = IF k = 1 THEN 0 ELSE d[k - 1]
      BY <2>12 DEF LinksLead
    <3>1. d[k] = k /\ (k # m => d[k + 1] = k + 1) /\ (k # 1 => d[k - 1] = k - 1)
      BY <2>1, <2>11
    <3> QED BY <3>1, <2>1, <2>7
  <2>15. Ends(a, d)
    BY <2>1, <2>9, <2>11, <2>12 DEF Ends
  <2>16. m <= a.blocks * BlockSize
    BY <2>1, <2>9, BlocksSuffice
  <2>17. ListOK(a, d)
    BY <2>8, <2>9, <2>10, <2>12, <2>13, <2>14, <2>15, <2>16 DEF ListOK
  <2>18. ValuesAt(a, d) = v
    <3>1. ValuesAt(a, d) = [k \in 1 .. m |-> its[d[k]].value]
      BY <2>9, <2>12 DEF ValuesAt
    <3>2. \A k \in 1 .. m : its[d[k]].value = v[k]
      BY <2>7, <2>11
    <3>3. v = [k \in 1 .. m |-> v[k]]
      BY <2>1
    <3> QED BY <3>1, <3>2, <3>3
  <2> QED BY <2>2, <2>17, <2>18 DEF v
<1> QED BY <1>1, <1>2

\* Deleting the items of a list one after the other.
LEMMA EmptiedStep ==
  ASSUME NEW l, NEW c \in Seq(Nat)
  PROVE  /\ Emptied(l, c) = [k \in 0 .. Len(c) |->
                               IF k = 0 THEN l ELSE prealloc_list_delete_item(Emptied(l, c)[k - 1], c[k])]
<1> DEFINE m == Len(c)
           Step(f, k) == IF k = 0 THEN l ELSE prealloc_list_delete_item(f[k - 1], c[k])
           rest == CHOOSE f : f = [k \in 0 .. m |-> Step(f, k)]
           S == {n \in Nat : \E f : f = [k \in 0 .. n |-> Step(f, k)]}
<1>0. m \in Nat
  OBVIOUS
<1>1. Emptied(l, c) = rest
  BY Zenon DEF Emptied
<1>2. 0 \in S
  <2> DEFINE f == [k \in 0 .. 0 |-> l]
  <2>1. \A k \in 0 .. 0 : k = 0
    OBVIOUS
  <2>2. \A k \in 0 .. 0 : Step(f, k) = l
    BY <2>1
  <2>3. f = [k \in 0 .. 0 |-> Step(f, k)]
    <3> HIDE DEF Step
    <3> QED BY <2>2
  <2> QED BY <2>3
<1>3. ASSUME NEW n \in Nat, n \in S PROVE n + 1 \in S
  <2>1. PICK f : f = [k \in 0 .. n |-> Step(f, k)]
    BY <1>3
  <2> DEFINE g == [k \in 0 .. n + 1 |-> IF k <= n THEN f[k] ELSE Step(f, n + 1)]
  <2>2. ASSUME NEW k \in 0 .. n + 1 PROVE g[k] = Step(g, k)
    <3>1. CASE k = 0
      <4>1. g[k] = f[0] /\ 0 \in 0 .. n
        BY <3>1
      <4>2. f[0] = Step(f, 0)
        <5> HIDE DEF Step
        <5> QED BY <2>1, <4>1
      <4> QED BY <3>1, <4>1, <4>2
    <3>2. CASE k # 0 /\ k <= n
      <4>1. k \in 0 .. n /\ k - 1 \in 0 .. n + 1 /\ k - 1 <= n
        BY <3>2
      <4>2. g[k] = f[k] /\ g[k - 1] = f[k - 1]
        BY <3>2, <4>1
      <4>3. f[k] = Step(f, k)
        <5> HIDE DEF Step
        <5> QED BY <2>1, <4>1
      <4> HIDE DEF g
      <4> QED BY <3>2, <4>2, <4>3
    <3>3. CASE k = n + 1
      <4>1. g[k] = Step(f, n + 1)
        <5> HIDE DEF Step
        <5> QED BY <3>3
      <4>2. n \in 0 .. n + 1 /\ k - 1 = n /\ k # 0 /\ (n + 1) - 1 = n /\ n + 1 # 0
        BY <3>3
      <4>3. g[n] = f[n]
        BY <4>2
      <4> HIDE DEF g
      <4>4. Step(g, k) = prealloc_list_delete_item(g[n], c[k])
        BY <4>2
      <4>5. Step(f, n + 1) = prealloc_list_delete_item(f[n], c[n + 1])
        BY <4>2
      <4> QED BY <4>1, <4>3, <4>4, <4>5, <3>3
    <3> QED BY <3>1, <3>2, <3>3
  <2>3. g = [k \in 0 .. n + 1 |-> g[k]]
    OBVIOUS
  <2> HIDE DEF g, Step
  <2>4. g = [k \in 0 .. n + 1 |-> Step(g, k)]
    BY <2>2, <2>3
  <2> QED BY <2>4
<1>4. m \in S
  <2> HIDE DEF S
  <2> QED BY <1>0, <1>2, <1>3, AllNaturals
<1>5. rest = [k \in 0 .. m |-> Step(rest, k)]
  <2> HIDE DEF Step
  <2> QED BY <1>4
<1> HIDE DEF rest
<1> QED BY <1>1, <1>5, Zenon

\* Deleting all items one after the other leaves an empty list (unschedule of
\* everything that is left).
LEMMA EmptiedOK ==
  ASSUME NEW l, NEW c, ListOK(l, c)
  PROVE  ListOK(AllUnscheduled(l), << >>)
<1> DEFINE n == Len(l.items)
           m == Len(c)
           e == Emptied(l, c)
           S == {k \in Nat : k <= m => ListOK(e[k], From(c, k + 1))}
<1>1. m \in Nat /\ n \in Nat /\ c \in Seq(1 .. n) /\ c = [k \in 1 .. m |-> c[k]]
  BY ListParts
<1>2. c \in Seq(Nat)
  <2>1. 1 .. n \subseteq Nat
    BY <1>1
  <2> QED BY <1>1, <2>1, SeqMonotonic
<1>3. e = [k \in 0 .. m |-> IF k = 0 THEN l ELSE prealloc_list_delete_item(e[k - 1], c[k])]
  BY <1>2, EmptiedStep
<1> HIDE DEF e
<1>4. e[0] = l /\ \A k \in 1 .. m : e[k] = prealloc_list_delete_item(e[k - 1], c[k])
  <2>0. m \in Nat
    BY <1>1
  <2> HIDE DEF m
  <2>1. 0 \in 0 .. m /\ \A k \in 1 .. m : k \in 0 .. m /\ k # 0
    BY <2>0
  <2> QED BY <2>1, <1>3
<1>5. 0 \in S
  <2>1. From(c, 1) = c
    <3>1. From(c, 1) = [k \in 1 .. m |-> c[k]]
      BY <1>1 DEF From
    <3> QED BY <3>1, <1>1
  <2> QED BY <2>1, <1>4
<1>6. ASSUME NEW k \in Nat, k \in S PROVE k + 1 \in S
  <2>1. SUFFICES ASSUME k + 1 <= m PROVE ListOK(e[k + 1], From(c, k + 2))
    <3>1. k + 1 + 1 = k + 2
      OBVIOUS
    <3> QED BY <3>1
  <2> DEFINE d == From(c, k + 1)
  <2>2. ListOK(e[k], d)
    BY <1>6, <2>1, <1>1
  <2>3. m - k \in Nat /\ m - k >= 1 /\ m - (k + 1) + 1 = m - k
    <3>1. m \in Nat
      BY <1>1
    <3> HIDE DEF m
    <3> QED BY <3>1, <2>1
  <2>4. d = [j \in 1 .. m - k |-> c[k + 1 + j - 1]]
    BY <2>3 DEF From
  <2>5. Len(d) = m - k /\ \A j \in 1 .. m - k : d[j] = c[k + 1 + j - 1]
    <3> DEFINE q == m - k
    <3>1. DOMAIN d = 1 .. q /\ q \in Nat
      BY <2>3, <2>4
    <3>2. DOMAIN d = 1 .. Len(d) /\ Len(d) \in Nat
      BY <2>2, ListParts
    <3> HIDE DEF q, d
    <3>3. Len(d) = q
      BY <3>1, <3>2
    <3> QED BY <3>3, <2>4 DEF q
  <2> HIDE DEF d
  <2>6. 1 \in 1 .. Len(d) /\ d[1] = c[k + 1]
    BY <2>3, <2>5
  <2>7. ListOK(prealloc_list_delete_item(e[k], c[k + 1]), Dropped(d, 1))
    BY <2>2, <2>6, DeleteOK
  <2>8. e[k + 1] = prealloc_list_delete_item(e[k], c[k + 1])
    <3>1. k + 1 \in 1 .. m /\ (k + 1) - 1 = k
      BY <2>1, <1>1
    <3> QED BY <3>1, <1>4
  <2>9. Dropped(d, 1) = From(c, k + 2)
    <3>1. Len(d) - 1 = m - (k + 2) + 1 /\ Len(d) - 1 = m - k - 1
      BY <2>5, <1>1
    <3>2. Dropped(d, 1) = [j \in 1 .. m - k - 1 |-> d[j + 1]]
      <4>1. \A j \in 1 .. Len(d) - 1 : ~(j < 1)
        OBVIOUS
      <4> QED BY <4>1, <3>1 DEF Dropped
    <3>3. From(c, k + 2) = [j \in 1 .. m - k - 1 |-> c[k + 2 + j - 1]]
      BY <3>1 DEF From
    <3>4. \A j \in 1 .. m - k - 1 : d[j + 1] = c[k + 2 + j - 1]
      <4> TAKE j \in 1 .. m - k - 1
      <4>0. m \in Nat
        BY <1>1
      <4>1. j + 1 \in 1 .. m - k /\ k + 1 + (j + 1) - 1 = k + 2 + j - 1
        <5> HIDE DEF m
        <5> QED BY <4>0
      <4> QED BY <4>1, <2>5
    <3> QED BY <3>2, <3>3, <3>4
  <2> QED BY <2>7, <2>8, <2>9
<1>7. ListOK(e[m], From(c, m + 1))
  <2>1. m \in S
    <3> HIDE DEF S
    <3> QED BY <1>1, <1>5, <1>6, AllNaturals
  <2> QED BY <2>1, <1>1
<1>8. From(c, m + 1) = << >>
  <2>1. m - (m + 1) + 1 = 0
    BY <1>1
  <2> QED BY <2>1 DEF From
<1>9. AllUnscheduled(l) = e[m]
  BY ReachedAll DEF AllUnscheduled, e
<1> QED BY <1>7, <1>8, <1>9

-----------------------------------------------------------------------------
(* ... the queues of both phases (task_schedule.c) ...                       *)

\* The chain of a list.
ChainOf(l) == Reached(l, l.first, "next")

\* The chain a list is known by is the one its first item leads to.
LEMMA ListHolds ==
  ASSUME NEW l, NEW c, ListOK(l, c)
  PROVE  ChainOf(l) = c /\ ListOK(l, ChainOf(l)) /\ Contents(l) = ValuesAt(l, c)
  BY ReachedAll, ContentsOf DEF ChainOf

\* The queues of both phases, whose tasks are different ones of the set held.
QueuesOK(q, held) ==
  /\ q = [p \in Phases |-> q[p]]
  /\ \A p \in Phases : ListOK(q[p], ChainOf(q[p]))
  /\ \A p \in Phases : \A k \in 1 .. Len(Contents(q[p])) : Contents(q[p])[k] \in held
  /\ \A p, o \in Phases : \A j \in 1 .. Len(Contents(q[p])) : \A k \in 1 .. Len(Contents(q[o])) :
       Contents(q[p])[j] = Contents(q[o])[k] => p = o /\ j = k

\* Contents and chain of a queue correspond position by position.
LEMMA QueueParts ==
  ASSUME NEW q, NEW held, QueuesOK(q, held), NEW p \in Phases
  PROVE  /\ Contents(q[p]) \in Seq(Tasks) /\ Len(Contents(q[p])) = Len(ChainOf(q[p]))
         /\ Len(ChainOf(q[p])) \in Nat
         /\ \A k \in 1 .. Len(ChainOf(q[p])) : Contents(q[p])[k] = q[p].items[ChainOf(q[p])[k]].value
<1> DEFINE l == q[p]
           c == ChainOf(l)
<1>1. ListOK(l, c)
  BY DEF QueuesOK
<1>2. Len(c) \in Nat
  BY <1>1, ListParts
<1>3. Contents(l) = ValuesAt(l, c) /\ Contents(l) \in Seq(Tasks) /\ Len(Contents(l)) = Len(c)
  BY <1>1, ContentsOf
<1>4. \A k \in 1 .. Len(c) : ValuesAt(l, c)[k] = l.items[c[k]].value
  BY DEF ValuesAt
<1> QED BY <1>2, <1>3, <1>4

\* The list l has different tasks, none of them in another queue than p.
Fits(q, p, l, c, wanted) ==
  /\ \A k \in 1 .. Len(c) : ValuesAt(l, c)[k] \in wanted
  /\ \A j, k \in 1 .. Len(c) : ValuesAt(l, c)[j] = ValuesAt(l, c)[k] => j = k
  /\ \A o \in Phases \ {p} : \A k \in 1 .. Len(Contents(q[o])) :
       /\ Contents(q[o])[k] \in wanted
       /\ \A j \in 1 .. Len(c) : ValuesAt(l, c)[j] # Contents(q[o])[k]

\* The queues r are those of q but for the list l in the place of p.
Replaced(q, p, l, c, wanted, r) ==
  /\ QueuesOK(r, wanted) /\ r[p] = l /\ ChainOf(r[p]) = c /\ Contents(r[p]) = ValuesAt(l, c)
  /\ \A o \in Phases \ {p} : r[o] = q[o]
  /\ [o \in Phases |-> Contents(r[o])] = [[o \in Phases |-> Contents(q[o])] EXCEPT ![p] = ValuesAt(l, c)]

\* Replacing one queue by one of other, different tasks.
LEMMA QueueReplaced ==
  ASSUME NEW q, NEW held, QueuesOK(q, held), NEW p \in Phases, NEW l, NEW c, ListOK(l, c), NEW wanted,
         Fits(q, p, l, c, wanted), NEW r, r = [q EXCEPT ![p] = l]
  PROVE  Replaced(q, p, l, c, wanted, r)
<1> DEFINE n == [q EXCEPT ![p] = l]
           v == ValuesAt(l, c)
<1>1. q = [o \in Phases |-> q[o]]
  BY DEF QueuesOK
<1>2. n = [o \in Phases |-> n[o]] /\ n[p] = l /\ \A o \in Phases \ {p} : n[o] = q[o]
  BY <1>1
<1>3. ChainOf(l) = c /\ ListOK(l, ChainOf(l)) /\ Contents(l) = v /\ Len(v) = Len(c)
  BY ListHolds, ContentsOf
<1> HIDE DEF n, v
<1>4. \A o \in Phases : ListOK(n[o], ChainOf(n[o]))
  BY <1>2, <1>3 DEF QueuesOK
<1>5. \A o \in Phases : \A k \in 1 .. Len(Contents(n[o])) : Contents(n[o])[k] \in wanted
  <2> SUFFICES ASSUME NEW o \in Phases, NEW k \in 1 .. Len(Contents(n[o])) PROVE Contents(n[o])[k] \in wanted
    OBVIOUS
  <2>1. CASE o = p
    BY <2>1, <1>2, <1>3 DEF v, Fits
  <2>2. CASE o # p
    BY <2>2, <1>2 DEF Fits
  <2> QED BY <2>1, <2>2
<1>6. ASSUME NEW a \in Phases, NEW o \in Phases, NEW j \in 1 .. Len(Contents(n[a])), NEW k \in 1 .. Len(Contents(n[o])),
             Contents(n[a])[j] = Contents(n[o])[k]
      PROVE  a = o /\ j = k
  <2>1. CASE a = p /\ o = p
    BY <2>1, <1>2, <1>3, <1>6 DEF v, Fits
  <2>2. CASE a = p /\ o # p
    BY <2>2, <1>2, <1>3, <1>6 DEF v, Fits
  <2>3. CASE a # p /\ o = p
    BY <2>3, <1>2, <1>3, <1>6 DEF v, Fits
  <2>4. CASE a # p /\ o # p
    BY <2>4, <1>2, <1>6 DEF QueuesOK
  <2> QED BY <2>1, <2>2, <2>3, <2>4
<1>7. QueuesOK(n, wanted)
  BY <1>2, <1>4, <1>5, <1>6 DEF QueuesOK
<1>8. [o \in Phases |-> Contents(n[o])] = [[o \in Phases |-> Contents(q[o])] EXCEPT ![p] = v]
  BY <1>2, <1>3
<1> QED BY <1>2, <1>3, <1>7, <1>8 DEF n, v, Replaced

\* The queues g are those of q with the task t at the end of p.
Appended(q, held, p, t, g) ==
  /\ QueuesOK(g, held \union {t})
  /\ [o \in Phases |-> Contents(g[o])] = [[o \in Phases |-> Contents(q[o])] EXCEPT ![p] = Append(@, t)]

\* schedule_task
LEMMA QueueAppended ==
  ASSUME NEW q, NEW held, QueuesOK(q, held), NEW p \in Phases, NEW t \in Tasks, t \notin held,
         NEW g, g = [q EXCEPT ![p] = prealloc_list_append(@, t)]
  PROVE  Appended(q, held, p, t, g)
<1> DEFINE l == q[p]
           c == ChainOf(l)
           a == prealloc_list_append(l, t)
           d == Append(c, Len(l.items) + 1)
           v == Contents(l)
           w == Append(v, t)
           m == Len(c)
<1>0. QueuesOK(q, held) /\ p \in Phases
  OBVIOUS
<1>1. ListOK(l, c)
  BY DEF QueuesOK
<1>2. v = ValuesAt(l, c) /\ v \in Seq(Tasks) /\ Len(v) = m /\ m \in Nat
  BY <1>1, ContentsOf, ListParts
<1>3. ListOK(a, d) /\ ValuesAt(a, d) = w
  BY <1>1, <1>2, AppendOK
<1> HIDE DEF l, c, v, a, d
<1>4. Len(w) = m + 1 /\ w[m + 1] = t /\ \A k \in 1 .. m : w[k] = v[k]
  BY <1>2, AppendProperties
<1>5. Len(d) = m + 1
  <2>1. Len(ValuesAt(a, d)) = Len(d)
    BY <1>3, ContentsOf
  <2> QED BY <2>1, <1>3, <1>4
<1>6. \A k \in 1 .. m : v[k] \in held
  BY <1>2 DEF QueuesOK, v, l
<1>7. \A j, k \in 1 .. m : v[j] = v[k] => j = k
  BY <1>2 DEF QueuesOK, v, l
<1> HIDE DEF w
<1>8. \A k \in 1 .. m + 1 : (k \in 1 .. m /\ w[k] = v[k] /\ w[k] # t) \/ (k = m + 1 /\ w[k] = t)
  <2> TAKE k \in 1 .. m + 1
  <2>1. k \in 1 .. m \/ k = m + 1
    BY <1>2
  <2> QED BY <2>1, <1>4, <1>6
<1>9. \A k \in 1 .. Len(d) : w[k] \in held \union {t}
  BY <1>5, <1>6, <1>8
<1>10. \A j, k \in 1 .. Len(d) : w[j] = w[k] => j = k
  <2> SUFFICES ASSUME NEW j \in 1 .. m + 1, NEW k \in 1 .. m + 1, w[j] = w[k] PROVE j = k
    BY <1>5
  <2> QED BY <1>7, <1>8, Zenon
<1>11. ASSUME NEW o \in Phases \ {p}, NEW k \in 1 .. Len(Contents(q[o]))
       PROVE  /\ Contents(q[o])[k] \in held \union {t}
              /\ \A j \in 1 .. Len(d) : w[j] # Contents(q[o])[k]
  <2>1. Contents(q[o])[k] \in held
    BY DEF QueuesOK
  <2>2. \A j \in 1 .. m : v[j] # Contents(q[o])[k]
    BY <1>2 DEF QueuesOK, v, l
  <2>3. ASSUME NEW j \in 1 .. m + 1 PROVE w[j] # Contents(q[o])[k]
    BY <2>1, <2>2, <1>8
  <2> QED BY <2>1, <2>3, <1>5
<1>12. [q EXCEPT ![p] = prealloc_list_append(@, t)] = [q EXCEPT ![p] = a]
  BY DEF a, l
<1> DEFINE n == [q EXCEPT ![p] = a]
<1>13. /\ QueuesOK(n, held \union {t})
       /\ [o \in Phases |-> Contents(n[o])] = [[o \in Phases |-> Contents(q[o])] EXCEPT ![p] = w]
  <2> DEFINE x == held \union {t}
  <2>1. /\ \A k \in 1 .. Len(d) : ValuesAt(a, d)[k] \in x
        /\ \A j, k \in 1 .. Len(d) : ValuesAt(a, d)[j] = ValuesAt(a, d)[k] => j = k
    BY <1>3, <1>9, <1>10
  <2>2. \A o \in Phases \ {p} : \A k \in 1 .. Len(Contents(q[o])) :
          /\ Contents(q[o])[k] \in x
          /\ \A j \in 1 .. Len(d) : ValuesAt(a, d)[j] # Contents(q[o])[k]
    BY <1>3, <1>11
  <2> HIDE DEF x
  <2>4. Fits(q, p, a, d, x)
    BY <2>1, <2>2 DEF Fits
  <2>3. /\ QueuesOK(n, x)
        /\ [o \in Phases |-> Contents(n[o])] = [[o \in Phases |-> Contents(q[o])] EXCEPT ![p] = ValuesAt(a, d)]
    <3>1. n = [q EXCEPT ![p] = a]
      OBVIOUS
    <3> HIDE DEF n
    <3>2. Replaced(q, p, a, d, x, n)
      BY <1>0, <1>3, <2>4, <3>1, QueueReplaced
    <3> QED BY <3>2, Zenon DEF Replaced
  <2> QED BY <2>3, <1>3, Zenon DEF x
<1>14. [[o \in Phases |-> Contents(q[o])] EXCEPT ![p] = w] = [[o \in Phases |-> Contents(q[o])] EXCEPT ![p] = Append(@, t)]
  BY DEF w, v, l
<1>15. g = n
  BY <1>12, Zenon
<1> QED BY <1>13, <1>14, <1>15, Zenon DEF Appended

\* The queues g are those of q without the task at position h of p.
Deleted(q, held, p, h, g) ==
  /\ QueuesOK(g, held \ {Contents(q[p])[h]})
  /\ ChainOf(g[p]) = Dropped(ChainOf(q[p]), h)
  /\ Contents(g[p]) = Dropped(Contents(q[p]), h)
  /\ \A o \in Phases \ {p} : g[o] = q[o]
  /\ [o \in Phases |-> Contents(g[o])] = [[o \in Phases |-> Contents(q[o])] EXCEPT ![p] = Dropped(@, h)]
  /\ g[p].items[ChainOf(q[p])[h]].next = IF h = Len(ChainOf(q[p])) THEN 0 ELSE ChainOf(q[p])[h + 1]

\* unschedule_task, at position h of the queue.
LEMMA QueueDeleted ==
  ASSUME NEW q, NEW held, QueuesOK(q, held), NEW p \in Phases, NEW h \in 1 .. Len(ChainOf(q[p])),
         NEW g, g = [q EXCEPT ![p] = prealloc_list_delete_item(@, ItemOf(@, Contents(q[p])[h]))]
  PROVE  Deleted(q, held, p, h, g)
<1> DEFINE l == q[p]
           c == ChainOf(l)
           v == Contents(l)
           m == Len(c)
           t == v[h]
           i == c[h]
           a == prealloc_list_delete_item(l, i)
           d == Dropped(c, h)
           w == Dropped(v, h)
<1>0. QueuesOK(q, held) /\ p \in Phases
  OBVIOUS
<1>1. ListOK(l, c)
  BY DEF QueuesOK
<1>2. v = ValuesAt(l, c) /\ v \in Seq(Tasks) /\ Len(v) = m /\ m \in Nat /\ h \in 1 .. m
  BY <1>1, ContentsOf, ListParts
<1>3. ListOK(a, d) /\ ValuesAt(a, d) = w /\ a.items[i].next = IF h = m THEN 0 ELSE c[h + 1]
  BY <1>1, <1>2, DeleteOK
<1>4. \A k \in 1 .. m : v[k] \in held
  BY <1>2 DEF QueuesOK
<1>5. \A j, k \in 1 .. m : v[j] = v[k] => j = k
  BY <1>2 DEF QueuesOK
<1>6. ItemOf(l, t) = i
  <2>1. \A k \in 1 .. m : v[k] = l.items[c[k]].value
    BY <1>2 DEF ValuesAt
  <2>2. DOMAIN l.items = 1 .. Len(l.items) /\ \A k \in 1 .. m : c[k] \in 1 .. Len(l.items)
    BY <1>1, ListParts
  <2>3. \A j \in 1 .. Len(l.items) : l.items[j].in_use <=> \E k \in 1 .. m : c[k] = j
    BY <1>1 DEF ListOK, InUse
  <2> HIDE DEF l, c, v, m
  <2>4. i \in DOMAIN l.items /\ l.items[i].in_use /\ l.items[i].value = t
    BY <2>1, <2>2, <2>3, <1>2
  <2>5. \A j \in DOMAIN l.items : l.items[j].in_use /\ l.items[j].value = t => j = i
    BY <2>1, <2>2, <2>3, <1>2, <1>5
  <2> HIDE DEF i, t
  <2> QED BY <2>4, <2>5 DEF ItemOf
<1>7. [q EXCEPT ![p] = prealloc_list_delete_item(@, ItemOf(@, t))] = [q EXCEPT ![p] = a]
  BY <1>6
<1>8. Len(d) = m - 1
  <2>1. Len(ValuesAt(a, d)) = Len(d)
    BY <1>3, ContentsOf
  <2>2. Len(w) = m - 1
    BY <1>2, DroppedParts DEF DropsAt
  <2> QED BY <2>1, <2>2, <1>3
<1>9. /\ \A k \in 1 .. m - 1 : k \in 1 .. m /\ k + 1 \in 1 .. m
      /\ \A k \in 1 .. m - 1 : k < h => w[k] = v[k]
      /\ \A k \in 1 .. m - 1 : k >= h => w[k] = v[k + 1]
  <2> HIDE DEF v, m
  <2>1. h \in 1 .. Len(v) /\ Len(v) = m
    BY <1>2
  <2>2. /\ \A k \in 1 .. Len(v) - 1 : k \in 1 .. Len(v) /\ k + 1 \in 1 .. Len(v)
        /\ \A k \in 1 .. Len(v) - 1 : k < h => w[k] = v[k]
        /\ \A k \in 1 .. Len(v) - 1 : k >= h => w[k] = v[k + 1]
    BY <1>2, <2>1, DroppedParts, Zenon DEF DropsAt
  <2> QED BY <2>1, <2>2
<1> HIDE DEF l, c, v, a, d, w, m, i
<1>10. \A k \in 1 .. m - 1 : \E j \in 1 .. m : w[k] = v[j] /\ j # h /\ j = IF k < h THEN k ELSE k + 1
  <2> TAKE k \in 1 .. m - 1
  <2>1. CASE k < h
    BY <2>1, <1>9
  <2>2. CASE k >= h
    BY <2>2, <1>9
  <2> QED BY <2>1, <2>2, <1>2
<1>11. \A k \in 1 .. Len(d) : w[k] \in held \ {t}
  BY <1>2, <1>4, <1>5, <1>8, <1>10
<1>12. \A j, k \in 1 .. Len(d) : w[j] = w[k] => j = k
  <2> SUFFICES ASSUME NEW j \in 1 .. m - 1, NEW k \in 1 .. m - 1, w[j] = w[k] PROVE j = k
    BY <1>8
  <2>1. PICK x \in 1 .. m : w[j] = v[x] /\ x = IF j < h THEN j ELSE j + 1
    BY <1>10
  <2>2. PICK y \in 1 .. m : w[k] = v[y] /\ y = IF k < h THEN k ELSE k + 1
    BY <1>10
  <2>3. x = y
    BY <2>1, <2>2, <1>5
  <2> QED BY <2>1, <2>2, <2>3, <1>2
<1>13. ASSUME NEW o \in Phases \ {p}, NEW k \in 1 .. Len(Contents(q[o]))
       PROVE  /\ Contents(q[o])[k] \in held \ {t}
              /\ \A j \in 1 .. Len(d) : w[j] # Contents(q[o])[k]
  <2>1. \A j \in 1 .. m : v[j] # Contents(q[o])[k]
    BY <1>2 DEF QueuesOK, v, l
  <2>2. Contents(q[o])[k] \in held
    BY DEF QueuesOK
  <2> QED BY <2>1, <2>2, <1>2, <1>8, <1>10
<1> DEFINE n == [q EXCEPT ![p] = a]
<1>14. /\ QueuesOK(n, held \ {t}) /\ n[p] = a /\ ChainOf(n[p]) = d /\ Contents(n[p]) = w
       /\ \A o \in Phases \ {p} : n[o] = q[o]
       /\ [o \in Phases |-> Contents(n[o])] = [[o \in Phases |-> Contents(q[o])] EXCEPT ![p] = w]
  <2> DEFINE x == held \ {t}
  <2>1. /\ \A k \in 1 .. Len(d) : ValuesAt(a, d)[k] \in x
        /\ \A j, k \in 1 .. Len(d) : ValuesAt(a, d)[j] = ValuesAt(a, d)[k] => j = k
    BY <1>3, <1>11, <1>12
  <2>2. \A o \in Phases \ {p} : \A k \in 1 .. Len(Contents(q[o])) :
          /\ Contents(q[o])[k] \in x
          /\ \A j \in 1 .. Len(d) : ValuesAt(a, d)[j] # Contents(q[o])[k]
    BY <1>3, <1>13
  <2> HIDE DEF x
  <2>4. Fits(q, p, a, d, x)
    BY <2>1, <2>2 DEF Fits
  <2>3. /\ QueuesOK(n, x) /\ n[p] = a /\ ChainOf(n[p]) = d /\ Contents(n[p]) = ValuesAt(a, d)
        /\ \A o \in Phases \ {p} : n[o] = q[o]
        /\ [o \in Phases |-> Contents(n[o])] = [[o \in Phases |-> Contents(q[o])] EXCEPT ![p] = ValuesAt(a, d)]
    <3>1. n = [q EXCEPT ![p] = a]
      OBVIOUS
    <3> HIDE DEF n
    <3>2. Replaced(q, p, a, d, x, n)
      BY <1>0, <1>3, <2>4, <3>1, QueueReplaced
    <3> QED BY <3>2, Zenon DEF Replaced
  <2> QED BY <2>3, <1>3, Zenon DEF x
<1>15. [[o \in Phases |-> Contents(q[o])] EXCEPT ![p] = w] = [[o \in Phases |-> Contents(q[o])] EXCEPT ![p] = Dropped(@, h)]
  BY DEF w, v, l
<1>16. n[p].items[i].next = IF h = m THEN 0 ELSE c[h + 1]
  BY <1>3, <1>14
<1> HIDE DEF n
<1>17. /\ QueuesOK(n, held \ {t}) /\ ChainOf(n[p]) = Dropped(c, h) /\ Contents(n[p]) = Dropped(v, h)
       /\ \A o \in Phases \ {p} : n[o] = q[o]
       /\ [o \in Phases |-> Contents(n[o])] = [[o \in Phases |-> Contents(q[o])] EXCEPT ![p] = Dropped(@, h)]
       /\ n[p].items[c[h]].next = IF h = m THEN 0 ELSE c[h + 1]
  BY <1>14, <1>15, <1>16, Zenon DEF d, w, i
<1>18. [q EXCEPT ![p] = prealloc_list_delete_item(@, ItemOf(@, t))] = n
  BY <1>7, Zenon DEF n
<1>19. g = n
  BY <1>18, Zenon DEF t, v, l
<1> QED BY <1>17, <1>19, Zenon DEF l, c, v, m, t, Deleted

-----------------------------------------------------------------------------
(* ... and the runs over them.                                               *)

-----------------------------------------------------------------------------
\* The queues a run has still to visit.
LeftOK(left) == left \in Seq(Phases) /\ Len(left) \in {1, 2} /\ (Len(left) = 2 => left[1] # left[2])

\* What is due in the queue after the current one.
RestOf(q, left) == IF Len(left) = 1 THEN << >> ELSE Contents(q[left[2]])

\* A run stands at position k of the first of them, or behind its last task.
StandsAt(q, r, k) ==
  /\ k \in 1 .. Len(ChainOf(q[r.left[1]])) + 1
  /\ r.at = IF k = Len(ChainOf(q[r.left[1]])) + 1 THEN 0 ELSE ChainOf(q[r.left[1]])[k]
  /\ r.due = From(Contents(q[r.left[1]]), k) \o RestOf(q, r.left)

\* The record of a run under way.
RunFields(r) == r = [post |-> r.post, left |-> r.left, at |-> r.at, due |-> r.due]

\* A run under way stands somewhere.
RunOK(q, r) == r # NoRun => RunFields(r) /\ LeftOK(r.left) /\ \E k \in Nat : StandsAt(q, r, k)

\* The inductive invariant of the schedule.
QueueInv ==
  /\ QueuesOK(queues, accepted)
  /\ accepted \subseteq allocated /\ allocated \subseteq Tasks
  /\ RunOK(queues, taskRun)
  /\ destruction # "failed"

\* A run has one or two queues left, and they are different ones.
LEMMA LeftParts ==
  ASSUME NEW left, LeftOK(left)
  PROVE  /\ left[1] \in Phases /\ Head(left) = left[1] /\ Len(left) \in {1, 2}
         /\ Len(left) = 2 => /\ left[2] \in Phases /\ left[1] # left[2]
                             /\ LeftOK(Tail(left)) /\ Tail(left)[1] = left[2] /\ Len(Tail(left)) = 1
<1>1. left \in Seq(Phases) /\ Len(left) \in {1, 2}
  BY DEF LeftOK
<1>2. left[1] \in Phases /\ Head(left) = left[1]
  BY <1>1
<1>3. ASSUME Len(left) = 2
      PROVE  left[2] \in Phases /\ left[1] # left[2] /\ LeftOK(Tail(left)) /\ Tail(left)[1] = left[2] /\ Len(Tail(left)) = 1
  <2>1. left[2] \in Phases /\ left # << >>
    <3>1. 2 \in 1 .. Len(left)
      BY <1>3
    <3> QED BY <3>1, <1>1, <1>3, SequenceParts
  <2>2. Tail(left) \in Seq(Phases) /\ Len(Tail(left)) = 1
    BY <1>1, <1>3, <2>1, HeadTailProperties
  <2>3. Tail(left)[1] = left[2]
    <3>1. \A j \in 1 .. Len(left) - 1 : Tail(left)[j] = left[j + 1]
      BY <1>1, <2>1, HeadTailProperties
    <3>2. 1 \in 1 .. Len(left) - 1
      BY <1>3
    <3> QED BY <3>1, <3>2
  <2> QED BY <1>3, <2>1, <2>2, <2>3 DEF LeftOK
<1> QED BY <1>1, <1>2, <1>3

\* What the run has to call in the queue after the one it is in.
LEMMA RestParts ==
  ASSUME NEW q, NEW held, QueuesOK(q, held), NEW left, LeftOK(left)
  PROVE  RestOf(q, left) \in Seq(Tasks)
<1>1. CASE Len(left) = 1
  BY <1>1 DEF RestOf
<1>2. CASE Len(left) = 2
  <2>1. left[2] \in Phases
    BY <1>2, LeftParts
  <2> QED BY <1>2, <2>1, QueueParts DEF RestOf
<1> QED BY <1>1, <1>2 DEF LeftOK

\* The callback of the task at position k returns.
LEMMA TaskCalled ==
  ASSUME NEW q, NEW held, QueuesOK(q, held), NEW r, RunFields(r), LeftOK(r.left), r.at # 0,
         NEW k \in Nat, StandsAt(q, r, k),
         NEW l, l.items[r.at].next = q[r.left[1]].items[r.at].next,
         NEW n, n = [r EXCEPT !.at = l.items[@].next, !.due = Tail(@)]
  PROVE  RunFields(n) /\ LeftOK(n.left) /\ StandsAt(q, n, k + 1)
<1> DEFINE p == r.left[1]
           c == ChainOf(q[p])
           v == Contents(q[p])
           m == Len(c)
<1>1. p \in Phases
  BY LeftParts
<1>2. v \in Seq(Tasks) /\ Len(v) = m /\ m \in Nat
  BY <1>1, QueueParts
<1>3. k \in 1 .. m /\ r.at = c[k] /\ r.due = From(v, k) \o RestOf(q, r.left)
  <2>1. /\ k \in 1 .. m + 1 /\ r.at = (IF k = m + 1 THEN 0 ELSE c[k])
        /\ r.due = From(v, k) \o RestOf(q, r.left)
    BY DEF StandsAt
  <2> HIDE DEF m, c, v, p
  <2> QED BY <2>1, <1>2
<1>4. q[p].items[r.at].next = IF k = m THEN 0 ELSE c[k + 1]
  <2>1. ListOK(q[p], c)
    BY <1>1 DEF QueuesOK
  <2> QED BY <2>1, <1>3 DEF ListOK, LinksLead
<1>5. n.left = r.left /\ n.post = r.post /\ n.at = l.items[r.at].next /\ n.due = Tail(r.due) /\ RunFields(n)
  BY DEF RunFields
<1>6. n.due = From(v, k + 1) \o RestOf(q, r.left)
  <2>1. RestOf(q, r.left) \in Seq(Tasks)
    BY RestParts
  <2>2. k \in 1 .. Len(v)
    BY <1>2, <1>3
  <2> HIDE DEF v
  <2>3. Tail(From(v, k) \o RestOf(q, r.left)) = From(v, k + 1) \o RestOf(q, r.left)
    BY <2>1, <2>2, <1>2, FromTail
  <2> QED BY <2>3, <1>3, <1>5
<1>7. n.at = IF k + 1 = m + 1 THEN 0 ELSE c[k + 1]
  <2>1. n.at = IF k = m THEN 0 ELSE c[k + 1]
    BY <1>4, <1>5
  <2>2. k \in 1 .. m /\ m \in Nat
    BY <1>2, <1>3
  <2> HIDE DEF m, c
  <2>3. k + 1 = m + 1 <=> k = m
    BY <2>2
  <2> QED BY <2>1, <2>3
<1>8. k + 1 \in 1 .. m + 1
  <2>1. m \in Nat /\ k \in 1 .. m
    BY <1>2, <1>3
  <2> HIDE DEF m, c, v, p
  <2> QED BY <2>1
<1> QED BY <1>5, <1>6, <1>7, <1>8 DEF StandsAt

\* The run r has begun with the first queue it has left.
RunStarts(q, r) ==
  /\ RunFields(r) /\ LeftOK(r.left)
  /\ r.at = q[r.left[1]].first /\ r.due = Contents(q[r.left[1]]) \o RestOf(q, r.left)

\* run_tasks begins.
LEMMA RunBegins ==
  ASSUME NEW q, NEW held, QueuesOK(q, held), NEW r, RunStarts(q, r)
  PROVE  RunFields(r) /\ LeftOK(r.left) /\ StandsAt(q, r, 1)
<1> DEFINE p == r.left[1]
           c == ChainOf(q[p])
           v == Contents(q[p])
           m == Len(c)
<1>1. p \in Phases /\ LeftOK(r.left)
  BY LeftParts DEF RunStarts
<1>2. v \in Seq(Tasks) /\ Len(v) = m /\ m \in Nat
  BY <1>1, QueueParts
<1>3. r.at = q[p].first /\ RunFields(r) /\ r.due = v \o RestOf(q, r.left)
  BY DEF RunStarts
<1>4. From(v, 1) = v
  <2> HIDE DEF v
  <2> QED BY <1>2, FromEnds
<1>5. q[p].first = IF m = 0 THEN 0 ELSE c[1]
  <2>1. ListOK(q[p], c)
    BY <1>1 DEF QueuesOK
  <2> QED BY <2>1 DEF ListOK, Ends
<1>6. 1 \in 1 .. m + 1 /\ r.at = (IF 1 = m + 1 THEN 0 ELSE c[1])
  <2>1. r.at = IF m = 0 THEN 0 ELSE c[1]
    BY <1>3, <1>5
  <2> HIDE DEF m, c
  <2> QED BY <2>1, <1>2
<1> QED BY <1>1, <1>3, <1>4, <1>6 DEF StandsAt

\* The next queue.
LEMMA RunChanges ==
  ASSUME NEW q, NEW held, QueuesOK(q, held), NEW r, RunFields(r), LeftOK(r.left), r.at = 0,
         NEW k \in Nat, StandsAt(q, r, k), Len(r.left) = 2,
         NEW n, n = [r EXCEPT !.left = Tail(@), !.at = q[r.left[2]].first]
  PROVE  RunFields(n) /\ LeftOK(n.left) /\ StandsAt(q, n, 1)
<1> DEFINE p == r.left[1]
           o == r.left[2]
           c == ChainOf(q[p])
           v == Contents(q[p])
           m == Len(c)
           w == Contents(q[o])
<1>1. p \in Phases /\ o \in Phases /\ LeftOK(Tail(r.left)) /\ Tail(r.left)[1] = o /\ Len(Tail(r.left)) = 1
  BY LeftParts
<1>2. v \in Seq(Tasks) /\ Len(v) = m /\ m \in Nat /\ w \in Seq(Tasks)
  BY <1>1, QueueParts
<1>3. ListOK(q[p], c)
  BY <1>1 DEF QueuesOK
<1>4. k = m + 1
  <2>1. k \in 1 .. m + 1 /\ r.at = (IF k = m + 1 THEN 0 ELSE c[k])
    BY DEF StandsAt
  <2>2. \A j \in 1 .. m : c[j] # 0
    <3>1. \A j \in 1 .. m : c[j] \in 1 .. Len(q[p].items)
      BY <1>3, ListParts
    <3> QED BY <3>1
  <2> HIDE DEF m, c
  <2> QED BY <2>1, <2>2, <1>2
<1>5. r.due = w
  <2>1. r.due = From(v, m + 1) \o w
    BY <1>4 DEF StandsAt, RestOf
  <2> HIDE DEF v, w, m
  <2>2. From(v, m + 1) = << >>
    BY <1>2, FromEnds
  <2> QED BY <2>1, <2>2, <1>2, ConcatEmptySeq
<1>6. n.left = Tail(r.left) /\ n.post = r.post /\ n.at = q[o].first /\ n.due = r.due /\ RunFields(n)
  BY DEF RunFields
<1>7. RestOf(q, n.left) = << >>
  BY <1>1, <1>6 DEF RestOf
<1>8. n.due = w \o RestOf(q, n.left)
  <2> HIDE DEF w
  <2> QED BY <1>2, <1>5, <1>6, <1>7, ConcatEmptySeq
<1>9. RunStarts(q, n)
  BY <1>1, <1>6, <1>8 DEF RunStarts
<1> QED BY <1>9, RunBegins

\* A task is in one place of its queue.
LEMMA HeldAt ==
  ASSUME NEW q, NEW held, QueuesOK(q, held), NEW p \in Phases, NEW t, Holds(q[p], t)
  PROVE  \E h \in 1 .. Len(ChainOf(q[p])) : Contents(q[p])[h] = t
<1> DEFINE c == ChainOf(q[p])
           l == q[p]
<1>1. ListOK(l, c)
  BY DEF QueuesOK
<1>2. PICK i \in DOMAIN l.items : l.items[i].in_use /\ l.items[i].value = t
  BY DEF Holds
<1>3. i \in 1 .. Len(l.items)
  BY <1>1, ListParts
<1>4. PICK h \in 1 .. Len(c) : c[h] = i
  BY <1>1, <1>2, <1>3 DEF ListOK, InUse
<1>5. Contents(l)[h] = l.items[c[h]].value
  BY QueueParts
<1> QED BY <1>2, <1>4, <1>5

\* call_ending_task
Ending(q, r, p, t, g, n) ==
  /\ p = r.left[1] /\ t = q[p].items[r.at].value
  /\ g = [q EXCEPT ![p] = prealloc_list_delete_item(@, ItemOf(@, t))]
  /\ n = [r EXCEPT !.at = g[p].items[@].next, !.due = Tail(@)]

\* What call_ending_task leaves: the queues g, the run n at position k.
Ended(q, held, p, t, g, n, k) ==
  /\ QueuesOK(g, held \ {t}) /\ RunFields(n) /\ LeftOK(n.left) /\ StandsAt(g, n, k)
  /\ p \in Phases /\ k \in 1 .. Len(Contents(q[p])) /\ Contents(q[p])[k] = t
  /\ [o \in Phases |-> Contents(g[o])] = [[o \in Phases |-> Contents(q[o])] EXCEPT ![p] = Dropped(@, k)]

\* The callback of the task at position k unschedules it.
LEMMA TaskEnded ==
  ASSUME NEW q, NEW held, QueuesOK(q, held), NEW r, RunFields(r), LeftOK(r.left), r.at # 0,
         NEW k \in Nat, StandsAt(q, r, k), NEW p, NEW t, NEW g, NEW n, Ending(q, r, p, t, g, n)
  PROVE  Ended(q, held, p, t, g, n, k)
<1>0. QueuesOK(q, held) /\ p = r.left[1]
  BY DEF Ending
<1>1. p \in Phases
  BY <1>0, LeftParts
<1> PICK c : c = ChainOf(q[p])
  OBVIOUS
<1> PICK v : v = Contents(q[p])
  OBVIOUS
<1> PICK m : m = Len(c)
  OBVIOUS
<1>2. v \in Seq(Tasks) /\ Len(v) = m /\ m \in Nat
  BY <1>1, QueueParts
<1>x. \A j \in 1 .. m : v[j] = q[p].items[c[j]].value
  BY <1>1, QueueParts
<1>3. k \in 1 .. m /\ r.at = c[k] /\ r.due = From(v, k) \o RestOf(q, r.left)
  <2>1. /\ k \in 1 .. m + 1 /\ r.at = (IF k = m + 1 THEN 0 ELSE c[k])
        /\ r.due = From(v, k) \o RestOf(q, r.left)
    BY <1>0 DEF StandsAt
  <2>2. k # m + 1
    BY <2>1
  <2>3. k \in 1 .. m
    BY <2>1, <2>2, <1>2
  <2> QED BY <2>1, <2>2, <2>3
<1>4. t = v[k]
  BY <1>x, <1>3 DEF Ending
<1>5. g = [q EXCEPT ![p] = prealloc_list_delete_item(@, ItemOf(@, v[k]))]
  BY <1>4 DEF Ending
<1>y. k \in 1 .. Len(ChainOf(q[p])) /\ g = [q EXCEPT ![p] = prealloc_list_delete_item(@, ItemOf(@, Contents(q[p])[k]))]
  BY <1>3, <1>5
<1>6. /\ QueuesOK(g, held \ {v[k]}) /\ ChainOf(g[p]) = Dropped(c, k) /\ Contents(g[p]) = Dropped(v, k)
      /\ \A o \in Phases \ {p} : g[o] = q[o]
      /\ [o \in Phases |-> Contents(g[o])] = [[o \in Phases |-> Contents(q[o])] EXCEPT ![p] = Dropped(@, k)]
      /\ g[p].items[c[k]].next = IF k = m THEN 0 ELSE c[k + 1]
  <2>1. Deleted(q, held, p, k, g)
    BY <1>0, <1>1, <1>y, QueueDeleted
  <2> QED BY <2>1 DEF Deleted
<1>7. n.left = r.left /\ n.post = r.post /\ n.at = g[p].items[r.at].next /\ n.due = Tail(r.due) /\ RunFields(n)
  BY DEF RunFields, Ending
<1>8. Len(ChainOf(g[p])) = m - 1
  <2>1. c \in Seq(1 .. Len(q[p].items))
    <3>1. ListOK(q[p], c)
      BY <1>1 DEF QueuesOK
    <3> QED BY <3>1, ListParts
  <2>2. Len(Dropped(c, k)) = Len(c) - 1
    <3>1. DropsAt(Dropped(c, k), c, k, 1 .. Len(q[p].items))
      BY <2>1, <1>3, DroppedParts
    <3> QED BY ONLY <3>1 DEF DropsAt
  <2> QED BY <2>2, <1>6
<1>9. k < m => Dropped(c, k)[k] = c[k + 1]
  <2>1. k < m => k \in 1 .. m - 1
    BY <1>2, <1>3
  <2>2. k \in 1 .. m - 1 => Dropped(c, k)[k] = c[k + 1]
    BY DEF Dropped
  <2> QED BY <2>1, <2>2
<1>10. k \in 1 .. m - 1 + 1 /\ n.at = (IF k = m - 1 + 1 THEN 0 ELSE Dropped(c, k)[k])
  <2>1. n.at = IF k = m THEN 0 ELSE c[k + 1]
    BY <1>3, <1>6, <1>7
  <2>2. m - 1 + 1 = m /\ (k = m \/ k < m)
    BY <1>2, <1>3
  <2> QED BY <2>1, <2>2, <1>3, <1>9
<1>11. RestOf(g, r.left) = RestOf(q, r.left) /\ RestOf(q, r.left) \in Seq(Tasks)
  <2>1. RestOf(q, r.left) \in Seq(Tasks)
    BY RestParts
  <2>2. CASE Len(r.left) = 1
    BY <2>1, <2>2 DEF RestOf
  <2>3. CASE Len(r.left) = 2
    <3>1. r.left[2] \in Phases \ {p}
      BY <1>0, <2>3, LeftParts
    <3>2. g[r.left[2]] = q[r.left[2]]
      BY <3>1, <1>6
    <3> QED BY <2>1, <3>2 DEF RestOf
  <2> QED BY <2>2, <2>3 DEF LeftOK
<1>12. n.due = From(Dropped(v, k), k) \o RestOf(g, r.left)
  <2>1. k \in 1 .. Len(v)
    BY <1>2, <1>3
  <2>2. Tail(From(v, k) \o RestOf(q, r.left)) = From(v, k + 1) \o RestOf(q, r.left)
    BY <2>1, <1>2, <1>11, FromTail
  <2>3. From(Dropped(v, k), k) = From(v, k + 1)
    BY <2>1, <1>2, FromDropped
  <2> QED BY <2>2, <2>3, <1>3, <1>7, <1>11
<1>13. StandsAt(g, n, k)
  <2>1. /\ k \in 1 .. Len(ChainOf(g[p])) + 1
        /\ n.at = IF k = Len(ChainOf(g[p])) + 1 THEN 0 ELSE ChainOf(g[p])[k]
        /\ n.due = From(Contents(g[p]), k) \o RestOf(g, r.left)
    BY <1>6, <1>8, <1>10, <1>12
  <2>2. n.left = r.left /\ r.left[1] = p
    BY <1>0, <1>7
  <2> QED BY <2>1, <2>2, Zenon DEF StandsAt
<1>14. RunFields(n) /\ LeftOK(n.left)
  BY <1>7
<1>15. k \in 1 .. Len(Contents(q[p])) /\ Contents(q[p])[k] = t /\ QueuesOK(g, held \ {t})
  BY <1>2, <1>3, <1>4, <1>6
<1> QED BY <1>1, <1>6, <1>13, <1>14, <1>15 DEF Ended

\* The invariant holds afterwards, and the abstract queue took a step or none.
QueueStep == QueueInv' /\ [Sequence!Next]_<<[p \in Phases |-> Contents(queues[p])], accepted>>

\* Steps that touch neither queues nor run are no steps of the abstract queue.
LEMMA QueueUnchanged ==
  ASSUME QueueInv, UNCHANGED <<queues, allocated, accepted, taskRun>>, destruction' # "failed"
  PROVE  QueueStep
<1>1. QueueInv'
  BY DEF QueueInv
<1>2. UNCHANGED <<[p \in Phases |-> Contents(queues[p])], accepted>>
  OBVIOUS
<1> QED BY <1>1, <1>2 DEF QueueStep

\* Both queues are created empty.
LEMMA QueueInitially ==
  ASSUME QueueInit
  PROVE  QueueInv /\ Sequence!Init
<1>1. queues = [p \in Phases |-> create_preallocated_list] /\ accepted = {} /\ allocated = {} /\ taskRun = NoRun
      /\ destruction = "no"
  BY DEF QueueInit
<1>2. \A p \in Phases : queues[p] = create_preallocated_list
  BY <1>1
<1>3. /\ ListOK(create_preallocated_list, ChainOf(create_preallocated_list))
      /\ Contents(create_preallocated_list) = ValuesAt(create_preallocated_list, << >>)
  BY CreatedOK, ListHolds
<1>4. ValuesAt(create_preallocated_list, << >>) = << >>
  <2>1. Len(ValuesAt(create_preallocated_list, << >>)) = Len(<< >>) /\ ValuesAt(create_preallocated_list, << >>) \in Seq(Tasks)
    BY CreatedOK, ContentsOf
  <2> QED BY <2>1, EmptySeq
<1>5. \A p \in Phases : Contents(queues[p]) = << >> /\ Len(Contents(queues[p])) = 0
  BY <1>2, <1>3, <1>4
<1>6. QueuesOK(queues, accepted)
  <2>1. \A p \in Phases : ListOK(queues[p], ChainOf(queues[p]))
    BY <1>2, <1>3
  <2>2. queues = [p \in Phases |-> queues[p]]
    BY <1>1
  <2> QED BY <1>5, <2>1, <2>2 DEF QueuesOK
<1>7. QueueInv
  BY <1>1, <1>6 DEF QueueInv, RunOK
<1>8. [p \in Phases |-> Contents(queues[p])] = [p \in Phases |-> << >>]
  BY <1>5
<1> QED BY <1>1, <1>7, <1>8 DEF Sequence!Init

\* schedule_task adds a task at the end of one queue.
LEMMA ScheduleStep ==
  ASSUME QueueInv, NEW t \in Tasks, NEW p \in Phases, schedule_task(t, p)
  PROVE  QueueStep
<1>1. /\ t \notin accepted /\ queues' = [queues EXCEPT ![p] = prealloc_list_append(@, t)]
      /\ accepted' = accepted \union {t} /\ allocated' = allocated \union {t}
      /\ taskRun = NoRun /\ taskRun' = taskRun /\ destruction' = destruction
  BY DEF schedule_task, QueueInv, Unlocked
<1>2. QueuesOK(queues, accepted)
  BY DEF QueueInv
<1>3. /\ QueuesOK(queues', accepted')
      /\ [o \in Phases |-> Contents(queues'[o])] = [[o \in Phases |-> Contents(queues[o])] EXCEPT ![p] = Append(@, t)]
  <2>1. Appended(queues, accepted, p, t, queues')
    BY <1>1, <1>2, QueueAppended
  <2> QED BY <2>1, <1>1 DEF Appended
<1>4. QueueInv'
  BY <1>1, <1>3 DEF QueueInv, RunOK
<1>5. Sequence!Schedule(t, p)
  BY <1>1, <1>3, Zenon DEF Sequence!Schedule
<1>6. Sequence!Next
  BY <1>5, Zenon DEF Sequence!Next
<1> QED BY <1>4, <1>6 DEF QueueStep

\* A task that could not be scheduled is in no queue.
LEMMA ScheduleFailsStep ==
  ASSUME QueueInv, NEW t \in Tasks, NEW p \in Phases, schedule_fails(t, p)
  PROVE  QueueStep
<1>1. QueueInv'
  BY DEF schedule_fails, QueueInv
<1>2. UNCHANGED <<[o \in Phases |-> Contents(queues[o])], accepted>>
  BY DEF schedule_fails
<1> QED BY <1>1, <1>2 DEF QueueStep

\* A task leaves the abstract sequence.
LEMMA Leaves ==
  ASSUME QueueInv, NEW p \in Phases, NEW h \in 1 .. Len(Contents(queues[p])), NEW t, Contents(queues[p])[h] = t,
         accepted' = accepted \ {t},
         [o \in Phases |-> Contents(queues'[o])] = [[o \in Phases |-> Contents(queues[o])] EXCEPT ![p] = Dropped(@, h)]
  PROVE  Sequence!Next
<1>1. QueuesOK(queues, accepted) /\ accepted \subseteq Tasks
  BY DEF QueueInv
<1>2. t \in accepted /\ t \in Tasks
  BY <1>1 DEF QueuesOK
<1> DEFINE w == [o \in Phases |-> Contents(queues[o])]
<1>3. w[p] = Contents(queues[p])
  OBVIOUS
<1>4. DOMAIN w[p] = 1 .. Len(Contents(queues[p]))
  <2>1. Contents(queues[p]) \in Seq(Tasks)
    BY <1>1, QueueParts
  <2> QED BY <1>3, <2>1
<1>5. [w EXCEPT ![p] = Dropped(@, h)] = [w EXCEPT ![p] = Sequence!Without(@, h)]
  BY DEF Dropped, Sequence!Without
<1>6. h \in DOMAIN w[p] /\ w[p][h] = t /\ w' = [w EXCEPT ![p] = Sequence!Without(@, h)]
  BY <1>3, <1>4, <1>5
<1>7. Sequence!Unschedule(t, p)
  BY <1>2, <1>6, Zenon DEF Sequence!Unschedule
<1> QED BY <1>2, <1>7, Zenon DEF Sequence!Next

\* unschedule_task takes a task out of one queue, wherever it is in it.
LEMMA UnscheduleStep ==
  ASSUME QueueInv, NEW t \in Tasks, NEW p \in Phases, unschedule_task(t, p)
  PROVE  QueueStep
<1>1. /\ Holds(queues[p], t) /\ queues' = [queues EXCEPT ![p] = prealloc_list_delete_item(@, ItemOf(@, t))]
      /\ accepted' = accepted \ {t} /\ allocated' = allocated
      /\ taskRun = NoRun /\ taskRun' = taskRun /\ destruction' = destruction
  BY DEF unschedule_task, Unscheduled, Unlocked
<1>2. QueuesOK(queues, accepted)
  BY DEF QueueInv
<1>3. PICK h \in 1 .. Len(ChainOf(queues[p])) : Contents(queues[p])[h] = t
  BY <1>1, <1>2, HeldAt
<1>4. queues' = [queues EXCEPT ![p] = prealloc_list_delete_item(@, ItemOf(@, Contents(queues[p])[h]))]
  BY <1>1, <1>3
<1>5. Deleted(queues, accepted, p, h, queues')
  BY <1>2, <1>4, QueueDeleted
<1>6. /\ QueuesOK(queues', accepted \ {t})
      /\ [o \in Phases |-> Contents(queues'[o])] = [[o \in Phases |-> Contents(queues[o])] EXCEPT ![p] = Dropped(@, h)]
  BY <1>3, <1>5, Zenon DEF Deleted
<1>7. QueueInv'
  BY <1>1, <1>6 DEF QueueInv, RunOK
<1>8. h \in 1 .. Len(Contents(queues[p]))
  BY <1>2, <1>3, QueueParts
<1>9. Sequence!Next
  BY <1>1, <1>3, <1>6, <1>8, Leaves
<1> QED BY <1>7, <1>9 DEF QueueStep

\* A step of a run that leaves the queues alone.
LEMMA RunStep ==
  ASSUME QueueInv, RunOK(queues, taskRun'), UNCHANGED <<queues, allocated, accepted, destruction>>
  PROVE  QueueStep
<1>1. QueueInv'
  BY DEF QueueInv
<1>2. UNCHANGED <<[p \in Phases |-> Contents(queues[p])], accepted>>
  OBVIOUS
<1> QED BY <1>1, <1>2 DEF QueueStep

\* A run begins with the first task of the first queue of its order.
LEMMA RunTasksStep ==
  ASSUME QueueInv, NEW order, LeftOK(order), run_tasks(order)
  PROVE  QueueStep
<1>1. UNCHANGED <<queues, allocated, accepted, destruction>>
  BY DEF run_tasks
<1>2. QueuesOK(queues, accepted)
  BY DEF QueueInv
<1>3. order[1] \in Phases /\ Head(order) = order[1] /\ Len(order) \in {1, 2}
  BY LeftParts
<1>4. Contents(queues[order[1]]) \in Seq(Tasks)
  BY <1>2, <1>3, QueueParts
<1>5. taskRun'.due = Contents(queues[order[1]]) \o RestOf(queues, order)
  <2>1. CASE Len(order) = 1
    BY <2>1, <1>4, ConcatEmptySeq DEF run_tasks, RestOf
  <2>2. CASE Len(order) = 2
    BY <2>2 DEF run_tasks, RestOf
  <2> QED BY <2>1, <2>2, <1>3
<1>6. RunFields(taskRun') /\ taskRun'.left = order /\ taskRun'.at = queues[order[1]].first
  BY <1>3 DEF run_tasks, RunFields
<1>7. RunStarts(queues, taskRun')
  BY <1>5, <1>6 DEF RunStarts
<1>8. RunFields(taskRun') /\ LeftOK(taskRun'.left) /\ StandsAt(queues, taskRun', 1)
  BY <1>2, <1>7, RunBegins
<1>9. RunOK(queues, taskRun')
  BY <1>8 DEF RunOK
<1> QED BY <1>1, <1>9, RunStep

\* A task is called and stays; the run goes on to the one after it.
LEMMA CallTaskStep ==
  ASSUME QueueInv, call_task
  PROVE  QueueStep
<1>1. /\ taskRun # NoRun /\ taskRun.at # 0 /\ UNCHANGED <<queues, allocated, accepted, destruction>>
      /\ taskRun' = [taskRun EXCEPT !.at = queues[Head(taskRun.left)].items[@].next, !.due = Tail(@)]
  BY DEF call_task, Visiting, Unlocked, GoesOn, Current
<1>2. QueuesOK(queues, accepted)
  BY DEF QueueInv
<1>3. RunFields(taskRun) /\ LeftOK(taskRun.left)
  BY <1>1 DEF QueueInv, RunOK
<1>4. PICK k \in Nat : StandsAt(queues, taskRun, k)
  BY <1>1 DEF QueueInv, RunOK
<1>5. Head(taskRun.left) = taskRun.left[1]
  BY <1>3, LeftParts
<1>6. RunFields(taskRun') /\ LeftOK(taskRun'.left) /\ StandsAt(queues, taskRun', k + 1)
  BY <1>1, <1>2, <1>3, <1>4, <1>5, TaskCalled
<1>7. k + 1 \in Nat
  OBVIOUS
<1>8. RunOK(queues, taskRun')
  BY <1>6, <1>7 DEF RunOK
<1> QED BY <1>1, <1>8, RunStep

\* At the end of a queue the run goes on with the next one, or ends.
LEMMA NextQueueStep ==
  ASSUME QueueInv, next_queue
  PROVE  QueueStep
<1>1. /\ taskRun # NoRun /\ taskRun.at = 0 /\ UNCHANGED <<queues, allocated, accepted, destruction>>
      /\ taskRun' = IF Len(taskRun.left) = 1 THEN NoRun
                    ELSE [taskRun EXCEPT !.left = Tail(@), !.at = queues[taskRun.left[2]].first]
  BY DEF next_queue, Unlocked
<1>2. QueuesOK(queues, accepted)
  BY DEF QueueInv
<1>3. RunFields(taskRun) /\ LeftOK(taskRun.left)
  BY <1>1 DEF QueueInv, RunOK
<1>4. PICK k \in Nat : StandsAt(queues, taskRun, k)
  BY <1>1 DEF QueueInv, RunOK
<1>5. CASE Len(taskRun.left) = 1
  <2>1. RunOK(queues, taskRun')
    BY <1>1, <1>5 DEF RunOK
  <2> QED BY <1>1, <2>1, RunStep
<1>6. CASE Len(taskRun.left) = 2
  <2>1. RunFields(taskRun') /\ LeftOK(taskRun'.left) /\ StandsAt(queues, taskRun', 1)
    <3>1. taskRun' = [taskRun EXCEPT !.left = Tail(@), !.at = queues[taskRun.left[2]].first]
      BY <1>1, <1>6
    <3> QED BY <1>1, <1>2, <1>3, <1>4, <1>6, <3>1, RunChanges
  <2>2. RunOK(queues, taskRun')
    BY <2>1 DEF RunOK
  <2> QED BY <1>1, <2>2, RunStep
<1> QED BY <1>3, <1>5, <1>6 DEF LeftOK

\* A task that ends itself is taken out while the run stands at it: the run
\* goes on to the item its link still leads to.
LEMMA CallEndingTaskStep ==
  ASSUME QueueInv, call_ending_task
  PROVE  QueueStep
<1> DEFINE p == Head(taskRun.left)
           t == queues[p].items[taskRun.at].value
<1>1. /\ taskRun # NoRun /\ taskRun.at # 0 /\ UNCHANGED <<allocated, destruction>>
      /\ queues' = [queues EXCEPT ![p] = prealloc_list_delete_item(@, ItemOf(@, t))]
      /\ accepted' = accepted \ {t}
      /\ taskRun' = [taskRun EXCEPT !.at = queues'[p].items[@].next, !.due = Tail(@)]
  BY DEF call_ending_task, Visiting, Unlocked, GoesOn, Current, Unscheduled
<1>2. QueuesOK(queues, accepted)
  BY DEF QueueInv
<1>3. RunFields(taskRun) /\ LeftOK(taskRun.left)
  BY <1>1 DEF QueueInv, RunOK
<1>4. PICK k \in Nat : StandsAt(queues, taskRun, k)
  BY <1>1 DEF QueueInv, RunOK
<1>5. Head(taskRun.left) = taskRun.left[1]
  BY <1>3, LeftParts
<1>6. Ending(queues, taskRun, p, t, queues', taskRun')
  BY <1>1, <1>5, Zenon DEF Ending
<1> HIDE DEF p, t
<1>7. /\ QueuesOK(queues', accepted \ {t}) /\ RunFields(taskRun') /\ LeftOK(taskRun'.left)
      /\ StandsAt(queues', taskRun', k)
      /\ p \in Phases /\ k \in 1 .. Len(Contents(queues[p])) /\ Contents(queues[p])[k] = t
      /\ [o \in Phases |-> Contents(queues'[o])] = [[o \in Phases |-> Contents(queues[o])] EXCEPT ![p] = Dropped(@, k)]
  <2>1. taskRun.at # 0
    BY <1>1
  <2>2. Ended(queues, accepted, p, t, queues', taskRun', k)
    BY <2>1, <1>2, <1>3, <1>4, <1>6, TaskEnded
  <2> QED BY <2>2, Zenon DEF Ended
<1>8. RunOK(queues', taskRun')
  BY <1>4, <1>7, Zenon DEF RunOK
<1>9. QueueInv'
  BY <1>1, <1>7, <1>8 DEF QueueInv
<1>10. Sequence!Next
  BY <1>1, <1>7, Leaves
<1> QED BY <1>9, <1>10 DEF QueueStep

\* Other lists with the same tasks.
LEMMA QueuesSame ==
  ASSUME NEW q, NEW held, QueuesOK(q, held), NEW n, n = [p \in Phases |-> n[p]],
         \A p \in Phases : ListOK(n[p], ChainOf(n[p])) /\ Contents(n[p]) = Contents(q[p])
  PROVE  QueuesOK(n, held)
  BY DEF QueuesOK

\* Compacting a queue that is empty or dirty keeps its tasks.
LEMMA CleanStep ==
  ASSUME QueueInv, clean_schedule
  PROVE  QueueStep
<1>1. UNCHANGED <<allocated, accepted, taskRun, destruction>> /\ taskRun = NoRun
  BY DEF clean_schedule, Unlocked
<1>2. QueuesOK(queues, accepted)
  BY DEF QueueInv
<1>3. PICK done : queues' = [p \in Phases |-> IF p \in done THEN prealloc_list_compact(queues[p]) ELSE queues[p]]
  BY DEF clean_schedule
<1>4. queues' = [p \in Phases |-> queues'[p]]
  BY <1>3
<1>5. ASSUME NEW p \in Phases
      PROVE  ListOK(queues'[p], ChainOf(queues'[p])) /\ Contents(queues'[p]) = Contents(queues[p])
  <2>1. ListOK(queues[p], ChainOf(queues[p]))
    BY <1>2 DEF QueuesOK
  <2>2. CASE p \in done
    <3>1. queues'[p] = prealloc_list_compact(queues[p])
      BY <1>3, <2>2
    <3>2. PICK d : /\ ListOK(prealloc_list_compact(queues[p]), d)
                   /\ ValuesAt(prealloc_list_compact(queues[p]), d) = ValuesAt(queues[p], ChainOf(queues[p]))
      BY <2>1, CompactOK
    <3>3. /\ ListOK(prealloc_list_compact(queues[p]), ChainOf(prealloc_list_compact(queues[p])))
          /\ Contents(prealloc_list_compact(queues[p])) = ValuesAt(prealloc_list_compact(queues[p]), d)
      BY <3>2, ListHolds
    <3>4. Contents(queues[p]) = ValuesAt(queues[p], ChainOf(queues[p]))
      BY <2>1, ListHolds
    <3> QED BY <3>1, <3>2, <3>3, <3>4
  <2>3. CASE p \notin done
    BY <1>3, <2>1, <2>3
  <2> QED BY <2>2, <2>3
<1>6. QueuesOK(queues', accepted)
  BY <1>2, <1>4, <1>5, QueuesSame
<1>7. QueueInv'
  BY <1>1, <1>6 DEF QueueInv, RunOK
<1>8. UNCHANGED <<[p \in Phases |-> Contents(queues[p])], accepted>>
  BY <1>1, <1>5
<1> QED BY <1>7, <1>8 DEF QueueStep

\* Announcing the destruction changes no queue.
LEMMA PendingStep ==
  ASSUME QueueInv, destruction_pending
  PROVE  QueueStep
  BY QueueUnchanged DEF destruction_pending

\* destroy_task_schedule empties both queues and hands the tasks back.
LEMMA DestroyStep ==
  ASSUME QueueInv, destroy_task_schedule
  PROVE  QueueStep
<1>1. /\ queues' = [p \in Phases |-> AllUnscheduled(queues[p])] /\ accepted' = {}
      /\ destruction' = (IF \A p \in Phases : queues'[p].size = 0 THEN "done" ELSE "failed")
      /\ taskRun = NoRun /\ taskRun' = taskRun /\ allocated' = allocated
  BY DEF destroy_task_schedule, Unlocked
<1>2. QueuesOK(queues, accepted)
  BY DEF QueueInv
<1>3. ASSUME NEW p \in Phases
      PROVE  /\ ListOK(queues'[p], ChainOf(queues'[p])) /\ Contents(queues'[p]) = << >>
             /\ Len(Contents(queues'[p])) = 0 /\ queues'[p].size = 0
  <2>1. ListOK(queues[p], ChainOf(queues[p]))
    BY <1>2 DEF QueuesOK
  <2>2. queues'[p] = AllUnscheduled(queues[p])
    BY <1>1
  <2>3. ListOK(queues'[p], << >>)
    BY <2>1, <2>2, EmptiedOK
  <2>4. ListOK(queues'[p], ChainOf(queues'[p]))
    BY <2>3, ListHolds
  <2>5. Contents(queues'[p]) \in Seq(Tasks) /\ Len(Contents(queues'[p])) = Len(<< >>)
    BY <2>3, ContentsOf
  <2>6. Contents(queues'[p]) = << >> /\ Len(Contents(queues'[p])) = 0
    BY <2>5, EmptySeq
  <2>7. queues'[p].size = 0
    BY <2>3 DEF ListOK, Ends
  <2> QED BY <2>4, <2>6, <2>7
<1>4. queues' = [p \in Phases |-> queues'[p]]
  BY <1>1
<1>5. QueuesOK(queues', {})
  BY <1>3, <1>4 DEF QueuesOK
<1>6. destruction' = "done"
  BY <1>1, <1>3
<1>7. QueueInv'
  BY <1>1, <1>5, <1>6 DEF QueueInv, RunOK
<1>8. [p \in Phases |-> Contents(queues'[p])] = [p \in Phases |-> << >>]
  BY <1>3
<1>9. Sequence!Next
  BY <1>1, <1>8, Zenon DEF Sequence!Next, Sequence!Destroy
<1> QED BY <1>7, <1>9 DEF QueueStep

\* Every step keeps the invariant, and is a step of the abstract queue or none
\* at all.
LEMMA QueueNextStep ==
  ASSUME QueueInv, [QueueNext]_queueVars
  PROVE  QueueStep
<1>1. CASE UNCHANGED queueVars
  <2>1. UNCHANGED <<queues, allocated, accepted, taskRun>> /\ destruction' # "failed"
    BY <1>1 DEF queueVars, QueueInv
  <2> QED BY <2>1, QueueUnchanged
<1>2. CASE QueueNext
  <2>1. CASE \E t \in Tasks, p \in Phases : schedule_task(t, p) \/ schedule_fails(t, p) \/ unschedule_task(t, p)
    BY <2>1, ScheduleStep, ScheduleFailsStep, UnscheduleStep
  <2>2. CASE run_phase
    <3>1. PICK p \in Phases : run_tasks(<<p>>)
      BY <2>2 DEF run_phase
    <3>2. LeftOK(<<p>>)
      BY DEF LeftOK
    <3> QED BY <3>1, <3>2, RunTasksStep
  <2>3. CASE run_post_processing
    <3>1. LeftOK(QueueOrder)
      BY DEF LeftOK, QueueOrder, Phases
    <3> QED BY <2>3, <3>1, RunTasksStep DEF run_post_processing
  <2>4. CASE call_task
    BY <2>4, CallTaskStep
  <2>5. CASE call_ending_task
    BY <2>5, CallEndingTaskStep
  <2>6. CASE next_queue
    BY <2>6, NextQueueStep
  <2>7. CASE clean_schedule
    BY <2>7, CleanStep
  <2>8. CASE destruction_pending
    BY <2>8, PendingStep
  <2>9. CASE destroy_task_schedule
    BY <2>9, DestroyStep
  <2> QED BY <1>2, <2>1, <2>2, <2>3, <2>4, <2>5, <2>6, <2>7, <2>8, <2>9 DEF QueueNext
<1> QED BY <1>1, <1>2

\* The inductive invariant of the schedule: the links of both preallocated
\* lists lead along the items in use in both directions, no task is in two
\* places, and a run under way stands at a position of its queue behind which
\* exactly the tasks follow that are still due (task_schedule.c, lists.c).
THEOREM QueueInvariant == QueueSpec => []QueueInv
<1>1. QueueInit => QueueInv
  BY QueueInitially
<1>2. QueueInv /\ [QueueNext]_queueVars => QueueInv'
  BY QueueNextStep DEF QueueStep
<1> QED BY <1>1, <1>2, PTL DEF QueueSpec

\* With blocks of whatever size, compacting and tasks that take themselves out
\* during a run, the preallocated lists of the schedule implement two plain
\* sequences of tasks (schedule_task, unschedule_task, run_tasks).
THEOREM QueueImplementsSequence == QueueSpec => QueueIsSequence
<1>1. QueueInit => Sequence!Init
  BY QueueInitially
<1>2. QueueInv /\ [QueueNext]_queueVars => [Sequence!Next]_<<[p \in Phases |-> Contents(queues[p])], accepted>>
  BY QueueNextStep DEF QueueStep
<1> QED BY <1>1, <1>2, QueueInvariant, PTL DEF QueueSpec, QueueIsSequence, Sequence!Spec

\* The tasks due are what a loop over the remaining items finds.
LEMMA RunCallsNow ==
  ASSUME QueueInv
  PROVE  RunCallsEachTask
<1>1. QueuesOK(queues, accepted) /\ destruction # "failed"
  BY DEF QueueInv
<1>2. ASSUME NEW p \in Phases
      PROVE  LET l == queues[p]
                 chain == Reached(l, l.first, "next")
                 back == Reached(l, l.last, "prev")
             IN  /\ l.size = Len(chain) /\ Len(back) = Len(chain)
                 /\ \A k \in DOMAIN chain : back[Len(chain) + 1 - k] = chain[k]
                 /\ Len(l.items) <= l.blocks * BlockSize
  <2> DEFINE l == queues[p]
             c == ChainOf(l)
             b == Backwards(c)
             m == Len(c)
  <2>1. ListOK(l, c)
    BY <1>1 DEF QueuesOK
  <2>2. Reached(l, l.first, "next") = c /\ Reached(l, l.last, "prev") = b
    BY <2>1, ReachedAll
  <2>3. l.size = m /\ Len(l.items) <= l.blocks * BlockSize
    BY <2>1 DEF ListOK, Ends
  <2>4. m \in Nat /\ DOMAIN c = 1 .. m
    BY <2>1, ListParts
  <2>5. b = [k \in 1 .. m |-> c[m + 1 - k]]
    BY DEF Backwards
  <2> HIDE DEF l, c, b, m
  <2>6. Len(b) = m
    BY <2>4, <2>5
  <2>7. ASSUME NEW k \in 1 .. m PROVE b[m + 1 - k] = c[k]
    <3>1. m + 1 - k \in 1 .. m /\ m + 1 - (m + 1 - k) = k
      BY <2>4
    <3> QED BY <3>1, <2>5
  <2> QED BY <2>2, <2>3, <2>4, <2>6, <2>7 DEF l, m
<1>3. ASSUME ~Unlocked
      PROVE  taskRun.due = ValuesFrom(Current, taskRun.at, "next")
                     \o (IF Len(taskRun.left) = 1 THEN << >> ELSE Contents(queues[taskRun.left[2]]))
  <2> DEFINE p == taskRun.left[1]
             c == ChainOf(queues[p])
             v == Contents(queues[p])
  <2>1. LeftOK(taskRun.left)
    BY <1>3 DEF QueueInv, RunOK, Unlocked
  <2>2. PICK k \in Nat : StandsAt(queues, taskRun, k)
    BY <1>3 DEF QueueInv, RunOK, Unlocked
  <2>3. p \in Phases /\ Head(taskRun.left) = p
    BY <2>1, LeftParts
  <2>4. ListOK(queues[p], c) /\ v \in Seq(Tasks) /\ Len(v) = Len(c) /\ Len(c) \in Nat
    BY <1>1, <2>3, QueueParts DEF QueuesOK
  <2>5. /\ k \in 1 .. Len(c) + 1 /\ taskRun.at = (IF k = Len(c) + 1 THEN 0 ELSE c[k])
        /\ taskRun.due = From(v, k) \o RestOf(queues, taskRun.left)
    BY <2>2 DEF StandsAt
  <2>6. ValuesFrom(queues[p], taskRun.at, "next") = From(v, k)
    <3>1. CASE k = Len(c) + 1
      <4>1. From(v, k) = << >>
        <5> HIDE DEF v, c
        <5> QED BY <3>1, <2>4, FromEnds
      <4>2. ValuesFrom(queues[p], 0, "next") = << >>
        BY <2>4, ContentsOf
      <4> QED BY <3>1, <4>1, <4>2, <2>5
    <3>2. CASE k # Len(c) + 1
      <4>1. k \in 1 .. Len(c) /\ taskRun.at = c[k]
        <5> HIDE DEF c, v
        <5> QED BY <3>2, <2>4, <2>5
      <4>2. ValuesFrom(queues[p], c[k], "next") = From(v, k)
        BY <2>4, <4>1, ContentsOf
      <4> QED BY <4>1, <4>2
    <3> QED BY <3>1, <3>2
  <2> QED BY <2>3, <2>5, <2>6 DEF Current, RestOf
<1> QED BY <1>1, <1>2, <1>3 DEF RunCallsEachTask

\* A run calls each task that is scheduled, once and in order, although tasks
\* unschedule themselves while the loop stands at them (run_tasks).
THEOREM RunCallsAll == QueueSpec => []RunCallsEachTask
<1>1. QueueInv => RunCallsEachTask
  BY RunCallsNow
<1> QED BY <1>1, QueueInvariant, PTL

-----------------------------------------------------------------------------
(* The linked list (lists.c), ...                                            *)

\* Types of the nodes of a list (list_item_t).
ListNodes == [value : Values, prev : Nat, next : Nat]

\* The links of the list l lead along the nodes c, in both directions.
NodesOK(l, c) ==
  /\ l.node \in Seq(ListNodes)
  /\ Orderly(c, Len(l.node)) /\ LinksLead(l.node, c)
  /\ EndsAre(l.head, l.tail, c) /\ l.size = Len(c)

\* The nodes c have the values s.
ValuesAre(l, c, s) ==
  /\ s \in Seq(Values) /\ Len(s) = Len(c)
  /\ \A k \in 1 .. Len(s) : l.node[c[k]].value = s[k]

\* The list l reads as the sequence s.
ListReads(l, s) == \E c : NodesOK(l, c) /\ ValuesAre(l, c, s)

\* The types of a list and of the chain of its nodes.
LEMMA NodesParts ==
  ASSUME NEW l, NEW c, NodesOK(l, c)
  PROVE  /\ Len(l.node) \in Nat /\ DOMAIN l.node = 1 .. Len(l.node)
         /\ \A j \in 1 .. Len(l.node) : l.node[j] \in ListNodes
         /\ c \in Seq(1 .. Len(l.node)) /\ Len(c) \in Nat
         /\ \A k \in 1 .. Len(c) : c[k] \in 1 .. Len(l.node)
<1>1. l.node \in Seq(ListNodes) /\ c \in Seq(1 .. Len(l.node))
  BY DEF NodesOK, Orderly
<1>2. Len(l.node) \in Nat /\ DOMAIN l.node = 1 .. Len(l.node)
      /\ \A j \in 1 .. Len(l.node) : l.node[j] \in ListNodes
  BY <1>1, SequenceParts
<1>3. Len(c) \in Nat /\ \A k \in 1 .. Len(c) : c[k] \in 1 .. Len(l.node)
  <2> DEFINE N == 1 .. Len(l.node)
  <2> HIDE DEF N
  <2>1. c \in Seq(N)
    BY <1>1 DEF N
  <2>2. Len(c) \in Nat /\ \A k \in 1 .. Len(c) : c[k] \in N
    BY <2>1, SequenceParts
  <2> QED BY <2>2 DEF N
<1> QED BY <1>1, <1>2, <1>3

\* The loops over a list find the nodes its links lead along.
LEMMA ChainIs ==
  ASSUME NEW l, NEW c, NodesOK(l, c)
  PROVE  Chain(l, l.head, "next") = c /\ Chain(l, l.tail, "prev") = Backwards(c)
<1>1. Len(l.node) \in Nat
  BY NodesParts
<1> QED BY <1>1, BothWays DEF NodesOK, Chain

\* The item n + 1 with the values and links of y follows the last one, ...
LinkedAfter(node, n, c, x, y) ==
  LET m == Len(c)
  IN  /\ x[n + 1] = y /\ y.next = 0 /\ y.prev = IF m = 0 THEN 0 ELSE c[m]
      /\ \A j \in 1 .. n : /\ x[j].value = node[j].value /\ x[j].prev = node[j].prev
                           /\ x[j].next = IF m # 0 /\ j = c[m] THEN n + 1 ELSE node[j].next

\* A new node is linked behind the last one (list_append).
LEMMA LinksAppended ==
  ASSUME NEW node, NEW n \in Nat, NEW c, Orderly(c, n), LinksLead(node, c),
         NEW x, NEW y, LinkedAfter(node, n, c, x, y)
  PROVE  Orderly(Append(c, n + 1), n + 1) /\ LinksLead(x, Append(c, n + 1))
<1> DEFINE i == n + 1
           m == Len(c)
           d == Append(c, i)
<1>1. m \in Nat /\ c \in Seq(1 .. n) /\ \A k \in 1 .. m : c[k] \in 1 .. n
  <2>1. c \in Seq(1 .. n)
    BY DEF Orderly
  <2> QED BY <2>1, SequenceParts
<1>2. /\ d \in Seq(1 .. i) /\ Len(d) = m + 1 /\ d[m + 1] = i
      /\ \A k \in 1 .. m : d[k] = c[k]
  <2>1. c \in Seq(1 .. i) /\ i \in 1 .. i
    <3>1. 1 .. n \subseteq 1 .. i /\ i \in 1 .. i
      BY <1>1
    <3> QED BY <3>1, <1>1, SeqMonotonic
  <2> HIDE DEF i
  <2> QED BY <2>1, AppendProperties
<1> HIDE DEF d
<1>3. Orderly(d, i)
  <2> SUFFICES ASSUME NEW j \in 1 .. m + 1, NEW k \in 1 .. m + 1, d[j] = d[k] PROVE j = k
    BY <1>2 DEF Orderly
  <2>1. \A h \in 1 .. m + 1 : (h \in 1 .. m /\ d[h] = c[h] /\ d[h] # i) \/ (h = m + 1 /\ d[h] = i)
    <3>1. \A h \in 1 .. m : c[h] # i
      BY <1>1
    <3>2. \A h \in 1 .. m + 1 : h \in 1 .. m \/ h = m + 1
      BY <1>1
    <3> HIDE DEF i, m
    <3> QED BY <3>1, <3>2, <1>2
  <2> QED BY <2>1 DEF Orderly
<1>4. LinksLead(x, d)
  <2> SUFFICES ASSUME NEW k \in 1 .. m + 1
               PROVE  /\ x[d[k]].next = IF k = m + 1 THEN 0 ELSE d[k + 1]
                      /\ x[d[k]].prev = IF k = 1 THEN 0 ELSE d[k - 1]
    BY <1>2 DEF LinksLead
  <2>1. CASE k = m + 1
    <3>1. d[k] = i /\ x[i].next = 0 /\ x[i].prev = IF m = 0 THEN 0 ELSE c[m]
      BY <2>1, <1>2 DEF LinkedAfter
    <3>2. (k = 1 <=> m = 0) /\ (k # 1 => d[k - 1] = c[m])
      BY <2>1, <1>1, <1>2
    <3> QED BY <2>1, <3>1, <3>2
  <2>2. CASE k # m + 1
    <3>1. k \in 1 .. m /\ d[k] = c[k] /\ c[k] \in 1 .. n /\ m # 0 /\ m \in 1 .. m
      BY <2>2, <1>1, <1>2
    <3>2. /\ node[c[k]].next = IF k = m THEN 0 ELSE c[k + 1]
          /\ node[c[k]].prev = IF k = 1 THEN 0 ELSE c[k - 1]
      BY <3>1 DEF LinksLead
    <3>3. /\ x[c[k]].prev = node[c[k]].prev
          /\ x[c[k]].next = IF c[k] = c[m] THEN i ELSE node[c[k]].next
      BY <3>1 DEF LinkedAfter
    <3>4. c[k] = c[m] <=> k = m
      BY <3>1 DEF Orderly
    <3>5. k # 1 => d[k - 1] = c[k - 1]
      <4>1. k # 1 => k - 1 \in 1 .. m
        BY <3>1, <1>1
      <4> QED BY <4>1, <1>2
    <3>6. d[k + 1] = IF k = m THEN i ELSE c[k + 1]
      <4>1. k # m => k + 1 \in 1 .. m
        BY <3>1, <1>1
      <4> QED BY <4>1, <1>2
    <3> QED BY <2>2, <3>1, <3>2, <3>3, <3>4, <3>5, <3>6
  <2> QED BY <2>1, <2>2
<1> QED BY <1>3, <1>4 DEF d

\* ... or goes before the first one.
LinkedBefore(node, n, c, x, y) ==
  LET m == Len(c)
  IN  /\ x[n + 1] = y /\ y.prev = 0 /\ y.next = IF m = 0 THEN 0 ELSE c[1]
      /\ \A j \in 1 .. n : /\ x[j].value = node[j].value /\ x[j].next = node[j].next
                           /\ x[j].prev = IF m # 0 /\ j = c[1] THEN n + 1 ELSE node[j].prev

\* A sequence with one more member in front.
LEMMA Preceded ==
  ASSUME NEW S, NEW v \in S, NEW s \in Seq(S)
  PROVE  /\ <<v>> \o s \in Seq(S) /\ Len(<<v>> \o s) = Len(s) + 1 /\ (<<v>> \o s)[1] = v
         /\ \A k \in 1 .. Len(s) : (<<v>> \o s)[k + 1] = s[k]
<1>1. <<v>> \in Seq(S) /\ Len(<<v>>) = 1 /\ <<v>>[1] = v
  OBVIOUS
<1> DEFINE u == <<v>>
<1>2. u \in Seq(S) /\ Len(u) = 1 /\ u[1] = v
  BY <1>1
<1> HIDE DEF u
<1>3. /\ u \o s \in Seq(S) /\ Len(u \o s) = 1 + Len(s)
      /\ \A i \in 1 .. 1 + Len(s) : (u \o s)[i] = IF i <= 1 THEN u[i] ELSE s[i - 1]
  <2>1. /\ u \o s \in Seq(S) /\ Len(u \o s) = Len(u) + Len(s)
        /\ \A i \in 1 .. Len(u) + Len(s) : (u \o s)[i] = IF i <= Len(u) THEN u[i] ELSE s[i - Len(u)]
    BY <1>2, ConcatProperties
  <2> QED BY <2>1, <1>2
<1>4. Len(s) \in Nat
  OBVIOUS
<1> DEFINE w == u \o s
<1> HIDE DEF w
<1>5. \A k \in 1 .. Len(s) : w[k + 1] = s[k]
  BY <1>3, <1>4 DEF w
<1> QED BY <1>2, <1>3, <1>4, <1>5 DEF u, w

\* A new node is linked before the first one (list_prepend).
LEMMA LinksPrepended ==
  ASSUME NEW node, NEW n \in Nat, NEW c, Orderly(c, n), LinksLead(node, c),
         NEW x, NEW y, LinkedBefore(node, n, c, x, y)
  PROVE  Orderly(<<n + 1>> \o c, n + 1) /\ LinksLead(x, <<n + 1>> \o c)
<1> DEFINE i == n + 1
           m == Len(c)
           d == <<i>> \o c
<1>1. m \in Nat /\ c \in Seq(1 .. n) /\ \A k \in 1 .. m : c[k] \in 1 .. n
  <2>1. c \in Seq(1 .. n)
    BY DEF Orderly
  <2> QED BY <2>1, SequenceParts
<1>2. /\ d \in Seq(1 .. i) /\ Len(d) = m + 1 /\ d[1] = i
      /\ \A k \in 1 .. m : d[k + 1] = c[k]
  <2>1. c \in Seq(1 .. i) /\ i \in 1 .. i
    <3>1. 1 .. n \subseteq 1 .. i /\ i \in 1 .. i
      BY <1>1
    <3> QED BY <3>1, <1>1, SeqMonotonic
  <2> HIDE DEF i
  <2> QED BY <2>1, Preceded
<1> HIDE DEF d
<1>3. \A h \in 1 .. m + 1 : h # 1 => h - 1 \in 1 .. m /\ d[h] = c[h - 1]
  <2> SUFFICES ASSUME NEW h \in 1 .. m + 1, h # 1 PROVE h - 1 \in 1 .. m /\ d[h] = c[h - 1]
    OBVIOUS
  <2>1. h - 1 \in 1 .. m /\ (h - 1) + 1 = h
    BY <1>1
  <2> QED BY <2>1, <1>2
<1>4. Orderly(d, i)
  <2> SUFFICES ASSUME NEW j \in 1 .. m + 1, NEW k \in 1 .. m + 1, d[j] = d[k] PROVE j = k
    BY <1>2 DEF Orderly
  <2>1. \A h \in 1 .. m + 1 : (h - 1 \in 1 .. m /\ d[h] = c[h - 1] /\ d[h] # i) \/ (h = 1 /\ d[h] = i)
    <3>1. \A h \in 1 .. m : c[h] # i
      BY <1>1
    <3> HIDE DEF i, m
    <3> QED BY <3>1, <1>2, <1>3
  <2>2. (j - 1 \in 1 .. m /\ k - 1 \in 1 .. m /\ c[j - 1] = c[k - 1]) \/ (j = 1 /\ k = 1)
    BY <2>1
  <2>3. j - 1 = k - 1 \/ (j = 1 /\ k = 1)
    BY <2>2 DEF Orderly
  <2> QED BY <2>3
<1>5. LinksLead(x, d)
  <2> SUFFICES ASSUME NEW k \in 1 .. m + 1
               PROVE  /\ x[d[k]].next = IF k = m + 1 THEN 0 ELSE d[k + 1]
                      /\ x[d[k]].prev = IF k = 1 THEN 0 ELSE d[k - 1]
    BY <1>2 DEF LinksLead
  <2>1. CASE k = 1
    <3>1. d[k] = i /\ x[i].prev = 0 /\ x[i].next = IF m = 0 THEN 0 ELSE c[1]
      BY <2>1, <1>2 DEF LinkedBefore
    <3>2. (k = m + 1 <=> m = 0) /\ (m # 0 => d[k + 1] = c[1])
      BY <2>1, <1>1, <1>2
    <3> QED BY <2>1, <3>1, <3>2
  <2>2. CASE k # 1
    <3> DEFINE h == k - 1
    <3>1. h \in 1 .. m /\ d[k] = c[h] /\ c[h] \in 1 .. n /\ m # 0 /\ 1 \in 1 .. m /\ k = h + 1
      BY <2>2, <1>1, <1>3
    <3> HIDE DEF h
    <3>2. /\ node[c[h]].next = IF h = m THEN 0 ELSE c[h + 1]
          /\ node[c[h]].prev = IF h = 1 THEN 0 ELSE c[h - 1]
      BY <3>1 DEF LinksLead
    <3>3. /\ x[c[h]].next = node[c[h]].next
          /\ x[c[h]].prev = IF c[h] = c[1] THEN i ELSE node[c[h]].prev
      BY <3>1 DEF LinkedBefore
    <3>4. c[h] = c[1] <=> h = 1
      BY <3>1 DEF Orderly
    <3>5. d[h] = IF h = 1 THEN i ELSE c[h - 1]
      <4>1. h # 1 => h \in 1 .. m + 1
        BY <3>1, <1>1
      <4> QED BY <4>1, <1>2, <1>3
    <3>6. h # m => d[k + 1] = c[h + 1]
      <4>1. h # m => h + 1 \in 1 .. m
        BY <3>1, <1>1
      <4> QED BY <4>1, <3>1, <1>2
    <3>7. (k = m + 1 <=> h = m) /\ k - 1 = h
      BY <3>1, <1>1
    <3> QED BY <2>2, <3>1, <3>2, <3>3, <3>4, <3>5, <3>6, <3>7
  <2> QED BY <2>1, <2>2
<1> QED BY <1>4, <1>5 DEF d

\* After list_append the list reads as the sequence with one more value.
LEMMA ListAppends ==
  ASSUME NEW l, NEW s, ListReads(l, s), NEW v \in Values
  PROVE  ListReads(list_append(l, v), Append(s, v))
<1>1. PICK c : NodesOK(l, c) /\ ValuesAre(l, c, s)
  BY DEF ListReads
<1> DEFINE n == Len(l.node)
           m == Len(c)
           y == [value |-> v, prev |-> l.tail, next |-> 0]
           x == IF l.tail = 0 THEN l.node ELSE [l.node EXCEPT ![l.tail].next = n + 1]
           w == Append(x, y)
           a == list_append(l, v)
           d == Append(c, n + 1)
           t == Append(s, v)
<1>2. /\ n \in Nat /\ DOMAIN l.node = 1 .. n /\ \A j \in 1 .. n : l.node[j] \in ListNodes
      /\ c \in Seq(1 .. n) /\ m \in Nat /\ \A k \in 1 .. m : c[k] \in 1 .. n
  BY <1>1, NodesParts
<1>3. /\ l.node \in Seq(ListNodes) /\ Orderly(c, n) /\ LinksLead(l.node, c)
      /\ l.head = (IF m = 0 THEN 0 ELSE c[1]) /\ l.tail = (IF m = 0 THEN 0 ELSE c[m]) /\ l.size = m
  BY <1>1 DEF NodesOK, EndsAre
<1>4. l.tail \in Nat /\ (m # 0 => l.tail = c[m] /\ c[m] \in 1 .. n /\ c[1] \in 1 .. n) /\ (m = 0 => l.tail = 0)
  BY <1>2, <1>3
<1>5. /\ a.node = w /\ a.head = (IF l.head = 0 THEN n + 1 ELSE l.head) /\ a.tail = n + 1
      /\ a.size = l.size + 1
  BY DEF list_append
<1>6. y \in ListNodes /\ y.value = v /\ y.prev = l.tail /\ y.next = 0
  BY <1>4 DEF ListNodes
<1>7. /\ x \in Seq(ListNodes) /\ Len(x) = n
      /\ \A j \in 1 .. n : /\ x[j].value = l.node[j].value /\ x[j].prev = l.node[j].prev
                           /\ x[j].next = IF m # 0 /\ j = c[m] THEN n + 1 ELSE l.node[j].next
  <2>1. CASE m = 0
    BY <2>1, <1>2, <1>3, <1>4
  <2>2. CASE m # 0
    <3> DEFINE z == [l.node[c[m]] EXCEPT !.next = n + 1]
    <3>1. x = [l.node EXCEPT ![c[m]] = z]
      <4>1. l.tail = c[m] /\ c[m] # 0
        BY <2>2, <1>2, <1>4
      <4>2. x = [l.node EXCEPT ![l.tail].next = n + 1]
        BY <4>1
      <4> QED BY <4>1, <4>2
    <3>2. z \in ListNodes /\ z.value = l.node[c[m]].value /\ z.prev = l.node[c[m]].prev /\ z.next = n + 1
      <4>1. l.node[c[m]] \in ListNodes /\ n + 1 \in Nat
        BY <2>2, <1>2, <1>4
      <4> QED BY <4>1 DEF ListNodes
    <3> HIDE DEF z, x
    <3>3. x \in Seq(ListNodes) /\ Len(x) = n
      <4> DEFINE q == l.node
                 h == c[m]
      <4>1. q \in Seq(ListNodes) /\ h \in 1 .. Len(q) /\ Len(q) = n /\ x = [q EXCEPT ![h] = z]
        BY <2>2, <3>1, <1>3, <1>4
      <4> HIDE DEF q, h, n
      <4>2. [q EXCEPT ![h] = z] \in Seq(ListNodes) /\ Len([q EXCEPT ![h] = z]) = Len(q)
        BY <4>1, <3>2, ExceptSeq
      <4> QED BY <4>1, <4>2
    <3>4. \A j \in 1 .. n : x[j] = IF j = c[m] THEN z ELSE l.node[j]
      BY <3>1, <1>2
    <3> QED BY <3>2, <3>3, <3>4, <2>2
  <2> QED BY <2>1, <2>2
<1> HIDE DEF x, y
<1>8. w \in Seq(ListNodes) /\ Len(w) = n + 1 /\ w[n + 1] = y /\ \A j \in 1 .. n : w[j] = x[j]
  <2>1. /\ w \in Seq(ListNodes) /\ Len(w) = Len(x) + 1 /\ w[Len(x) + 1] = y
        /\ \A j \in 1 .. Len(x) : w[j] = x[j]
    BY <1>6, <1>7, AppendProperties
  <2> QED BY <2>1, <1>7
<1> HIDE DEF w
<1>9. LinkedAfter(l.node, n, c, w, y)
  BY <1>3, <1>6, <1>7, <1>8 DEF LinkedAfter
<1>10. Orderly(d, n + 1) /\ LinksLead(w, d)
  BY <1>2, <1>3, <1>9, LinksAppended
<1>11. Len(d) = m + 1 /\ d[m + 1] = n + 1 /\ \A k \in 1 .. m : d[k] = c[k]
  BY <1>2, AppendProperties
<1> HIDE DEF d, a
<1>12. EndsAre(a.head, a.tail, d)
  <2>1. m # 0 => d[1] = c[1] /\ c[1] # 0
    BY <1>2, <1>4, <1>11
  <2>2. m = 0 => d[1] = n + 1
    BY <1>11
  <2>3. m + 1 # 0
    BY <1>2
  <2> QED BY <2>1, <2>2, <2>3, <1>3, <1>5, <1>11 DEF EndsAre
<1>13. NodesOK(a, d)
  BY <1>3, <1>5, <1>8, <1>10, <1>11, <1>12 DEF NodesOK
<1>14. s \in Seq(Values) /\ Len(s) = m /\ \A k \in 1 .. m : l.node[c[k]].value = s[k]
  BY <1>1 DEF ValuesAre
<1>15. t \in Seq(Values) /\ Len(t) = m + 1 /\ t[m + 1] = v /\ \A k \in 1 .. m : t[k] = s[k]
  <2>1. t \in Seq(Values) /\ Len(t) = Len(s) + 1 /\ t[Len(s) + 1] = v /\ \A k \in 1 .. Len(s) : t[k] = s[k]
    BY <1>14, AppendProperties
  <2> QED BY <2>1, <1>14
<1> HIDE DEF t
<1>16. ASSUME NEW k \in 1 .. m + 1 PROVE w[d[k]].value = t[k]
  <2>1. CASE k = m + 1
    BY <2>1, <1>6, <1>8, <1>11, <1>15
  <2>2. CASE k # m + 1
    <3>1. k \in 1 .. m
      BY <2>2, <1>2
    <3>2. c[k] \in 1 .. n
      BY <3>1, <1>2
    <3>3. w[c[k]].value = l.node[c[k]].value
      BY <3>2, <1>7, <1>8
    <3> QED BY <3>1, <3>3, <1>11, <1>14, <1>15
  <2> QED BY <2>1, <2>2
<1>17. ValuesAre(a, d, t)
  BY <1>5, <1>11, <1>15, <1>16 DEF ValuesAre
<1> QED BY <1>13, <1>17 DEF ListReads, a, t

\* After list_prepend the list reads as the sequence with a value in front.
LEMMA ListPrepends ==
  ASSUME NEW l, NEW s, ListReads(l, s), NEW v \in Values
  PROVE  ListReads(list_prepend(l, v), <<v>> \o s)
<1>1. PICK c : NodesOK(l, c) /\ ValuesAre(l, c, s)
  BY DEF ListReads
<1> DEFINE n == Len(l.node)
           m == Len(c)
           y == [value |-> v, prev |-> 0, next |-> l.head]
           x == IF l.head = 0 THEN l.node ELSE [l.node EXCEPT ![l.head].prev = n + 1]
           w == Append(x, y)
           a == list_prepend(l, v)
           d == <<n + 1>> \o c
           t == <<v>> \o s
<1>2. /\ n \in Nat /\ DOMAIN l.node = 1 .. n /\ \A j \in 1 .. n : l.node[j] \in ListNodes
      /\ c \in Seq(1 .. n) /\ m \in Nat /\ \A k \in 1 .. m : c[k] \in 1 .. n
  BY <1>1, NodesParts
<1>3. /\ l.node \in Seq(ListNodes) /\ Orderly(c, n) /\ LinksLead(l.node, c)
      /\ l.head = (IF m = 0 THEN 0 ELSE c[1]) /\ l.tail = (IF m = 0 THEN 0 ELSE c[m]) /\ l.size = m
  BY <1>1 DEF NodesOK, EndsAre
<1>4. l.head \in Nat /\ (m # 0 => l.head = c[1] /\ c[m] \in 1 .. n /\ c[1] \in 1 .. n) /\ (m = 0 => l.head = 0)
  BY <1>2, <1>3
<1>5. /\ a.node = w /\ a.head = n + 1 /\ a.tail = (IF l.tail = 0 THEN n + 1 ELSE l.tail)
      /\ a.size = l.size + 1
  BY DEF list_prepend
<1>6. y \in ListNodes /\ y.value = v /\ y.prev = 0 /\ y.next = l.head
  BY <1>4 DEF ListNodes
<1>7. /\ x \in Seq(ListNodes) /\ Len(x) = n
      /\ \A j \in 1 .. n : /\ x[j].value = l.node[j].value /\ x[j].next = l.node[j].next
                           /\ x[j].prev = IF m # 0 /\ j = c[1] THEN n + 1 ELSE l.node[j].prev
  <2>1. CASE m = 0
    BY <2>1, <1>2, <1>3, <1>4
  <2>2. CASE m # 0
    <3> DEFINE z == [l.node[c[1]] EXCEPT !.prev = n + 1]
    <3>1. x = [l.node EXCEPT ![c[1]] = z]
      <4>1. l.head = c[1] /\ c[1] # 0
        BY <2>2, <1>2, <1>4
      <4>2. x = [l.node EXCEPT ![l.head].prev = n + 1]
        BY <4>1
      <4> QED BY <4>1, <4>2
    <3>2. z \in ListNodes /\ z.value = l.node[c[1]].value /\ z.next = l.node[c[1]].next /\ z.prev = n + 1
      <4>1. l.node[c[1]] \in ListNodes /\ n + 1 \in Nat
        BY <2>2, <1>2, <1>4
      <4> QED BY <4>1 DEF ListNodes
    <3> HIDE DEF z, x
    <3>3. x \in Seq(ListNodes) /\ Len(x) = n
      <4> DEFINE q == l.node
                 h == c[1]
      <4>1. q \in Seq(ListNodes) /\ h \in 1 .. Len(q) /\ Len(q) = n /\ x = [q EXCEPT ![h] = z]
        BY <2>2, <3>1, <1>3, <1>4
      <4> HIDE DEF q, h, n
      <4>2. [q EXCEPT ![h] = z] \in Seq(ListNodes) /\ Len([q EXCEPT ![h] = z]) = Len(q)
        BY <4>1, <3>2, ExceptSeq
      <4> QED BY <4>1, <4>2
    <3>4. \A j \in 1 .. n : x[j] = IF j = c[1] THEN z ELSE l.node[j]
      BY <3>1, <1>2
    <3> QED BY <3>2, <3>3, <3>4, <2>2
  <2> QED BY <2>1, <2>2
<1> HIDE DEF x, y
<1>8. w \in Seq(ListNodes) /\ Len(w) = n + 1 /\ w[n + 1] = y /\ \A j \in 1 .. n : w[j] = x[j]
  <2>1. /\ w \in Seq(ListNodes) /\ Len(w) = Len(x) + 1 /\ w[Len(x) + 1] = y
        /\ \A j \in 1 .. Len(x) : w[j] = x[j]
    BY <1>6, <1>7, AppendProperties
  <2> QED BY <2>1, <1>7
<1> HIDE DEF w
<1>9. LinkedBefore(l.node, n, c, w, y)
  BY <1>3, <1>6, <1>7, <1>8 DEF LinkedBefore
<1>10. Orderly(d, n + 1) /\ LinksLead(w, d)
  BY <1>2, <1>3, <1>9, LinksPrepended
<1>11. Len(d) = m + 1 /\ d[1] = n + 1 /\ \A k \in 1 .. m : d[k + 1] = c[k]
  <2>1. c \in Seq(Nat) /\ n + 1 \in Nat
    <3>1. 1 .. n \subseteq Nat
      OBVIOUS
    <3> QED BY <3>1, <1>2, SeqMonotonic
  <2> DEFINE i == n + 1
  <2> HIDE DEF i
  <2>2. <<i>> \o c \in Seq(Nat) /\ Len(<<i>> \o c) = Len(c) + 1 /\ (<<i>> \o c)[1] = i
         /\ \A k \in 1 .. Len(c) : (<<i>> \o c)[k + 1] = c[k]
    BY <2>1, Preceded DEF i
  <2> QED BY <2>2 DEF i
<1> HIDE DEF d, a
<1>12. EndsAre(a.head, a.tail, d)
  <2>1. m # 0 => d[m + 1] = c[m] /\ c[m] # 0
    BY <1>2, <1>4, <1>11
  <2>2. m = 0 => d[m + 1] = n + 1
    BY <1>11
  <2>3. m + 1 # 0
    BY <1>2
  <2> QED BY <2>1, <2>2, <2>3, <1>3, <1>5, <1>11 DEF EndsAre
<1>13. NodesOK(a, d)
  BY <1>3, <1>5, <1>8, <1>10, <1>11, <1>12 DEF NodesOK
<1>14. s \in Seq(Values) /\ Len(s) = m /\ \A k \in 1 .. m : l.node[c[k]].value = s[k]
  BY <1>1 DEF ValuesAre
<1>15. t \in Seq(Values) /\ Len(t) = m + 1 /\ t[1] = v /\ \A k \in 1 .. m : t[k + 1] = s[k]
  <2>1. t \in Seq(Values) /\ Len(t) = Len(s) + 1 /\ t[1] = v /\ \A k \in 1 .. Len(s) : t[k + 1] = s[k]
    BY <1>14, Preceded
  <2> QED BY <2>1, <1>14
<1> HIDE DEF t
<1>16. ASSUME NEW k \in 1 .. m + 1 PROVE w[d[k]].value = t[k]
  <2>1. CASE k = 1
    BY <2>1, <1>6, <1>8, <1>11, <1>15
  <2>2. CASE k # 1
    <3> DEFINE h == k - 1
    <3>1. h \in 1 .. m /\ k = h + 1
      BY <2>2, <1>2
    <3> HIDE DEF h
    <3>2. c[h] \in 1 .. n
      BY <3>1, <1>2
    <3>3. w[c[h]].value = l.node[c[h]].value
      BY <3>2, <1>7, <1>8
    <3> QED BY <3>1, <3>3, <1>11, <1>14, <1>15
  <2> QED BY <2>1, <2>2
<1>17. ValuesAre(a, d, t)
  BY <1>5, <1>11, <1>15, <1>16 DEF ValuesAre
<1> QED BY <1>13, <1>17 DEF ListReads, a, t

\* Deleting leaves the values of the nodes as they are.
SameValues(l, r) ==
  Len(r.node) = Len(l.node) /\ \A j \in 1 .. Len(l.node) : r.node[j].value = l.node[j].value

\* list_delete_item: the links lead along the other nodes, ends included.
LEMMA NodeDeleted ==
  ASSUME NEW l, NEW c, NodesOK(l, c), NEW h \in 1 .. Len(c)
  PROVE  LET r == list_delete_item(l, c[h]) IN NodesOK(r, Dropped(c, h)) /\ SameValues(l, r)
<1> DEFINE n == Len(l.node)
           m == Len(c)
           r == list_delete_item(l, c[h])
           x == r.node
           i == c[h]
           d == Dropped(c, h)
           before == IF h = 1 THEN 0 ELSE c[h - 1]
           after == IF h = m THEN 0 ELSE c[h + 1]
<1>2. /\ n \in Nat /\ DOMAIN l.node = 1 .. n /\ \A j \in 1 .. n : l.node[j] \in ListNodes
      /\ c \in Seq(1 .. n) /\ m \in Nat /\ \A k \in 1 .. m : c[k] \in 1 .. n
  BY NodesParts
<1>3. /\ l.node \in Seq(ListNodes) /\ Orderly(c, n) /\ LinksLead(l.node, c)
      /\ l.head = (IF m = 0 THEN 0 ELSE c[1]) /\ l.tail = (IF m = 0 THEN 0 ELSE c[m]) /\ l.size = m
  BY DEF NodesOK, EndsAre
<1>4. l.node[i].next = after /\ l.node[i].prev = before /\ i \in 1 .. n
  BY <1>2, <1>3 DEF LinksLead
<1>5. before \in Nat /\ after \in Nat
  <2>1. l.node[i] \in ListNodes
    BY <1>2, <1>4
  <2> HIDE DEF before, after, i
  <2> QED BY <2>1, <1>4 DEF ListNodes
<1> HIDE DEF before, after
<1>6. /\ x = [j \in 1 .. n |-> x[j]]
      /\ \A j \in 1 .. n : x[j] = [l.node[j] EXCEPT !.next = IF j = before THEN after ELSE @,
                                                    !.prev = IF j = after THEN before ELSE @]
      /\ r.head = (IF l.head = i THEN after ELSE l.head)
      /\ r.tail = (IF l.tail = i THEN before ELSE l.tail)
      /\ r.size = l.size - 1
  BY <1>2, <1>4 DEF list_delete_item
<1> HIDE DEF r
<1>7. ASSUME NEW j \in 1 .. n
      PROVE  /\ x[j] \in ListNodes /\ x[j].value = l.node[j].value
             /\ x[j].next = IF j = before THEN after ELSE l.node[j].next
             /\ x[j].prev = IF j = after THEN before ELSE l.node[j].prev
  <2> DEFINE o == l.node[j]
             nx == IF j = before THEN after ELSE o.next
             pv == IF j = after THEN before ELSE o.prev
  <2>1. o \in ListNodes
    BY <1>2
  <2>2. nx \in Nat /\ pv \in Nat
    BY <2>1, <1>5 DEF ListNodes
  <2>3. x[j] = [o EXCEPT !.next = nx, !.prev = pv]
    BY <1>6
  <2> HIDE DEF o, nx, pv
  <2>4. x[j] \in ListNodes /\ x[j].value = o.value /\ x[j].next = nx /\ x[j].prev = pv
    BY <2>1, <2>2, <2>3 DEF ListNodes
  <2> QED BY <2>4 DEF o, nx, pv
<1>8. x \in Seq(ListNodes) /\ Len(x) = n
  <2>1. n \in Nat /\ x = [j \in 1 .. n |-> x[j]] /\ \A j \in 1 .. n : x[j] \in ListNodes
    BY <1>2, <1>6, <1>7
  <2> HIDE DEF n, x
  <2> QED BY ONLY <2>1, SequenceOf
<1>9. PassedOver(l.node, x, n, c, h)
  BY <1>7 DEF PassedOver, before, after
<1>10. Orderly(d, n) /\ LinksLead(x, d)
  BY <1>2, <1>3, <1>9, LinksDropped
<1>11. /\ d \in Seq(1 .. n) /\ Len(d) = m - 1 /\ m - 1 \in Nat
       /\ \A k \in 1 .. m - 1 : k < h => d[k] = c[k]
       /\ \A k \in 1 .. m - 1 : k >= h => d[k] = c[k + 1]
  <2>1. c \in Seq(1 .. n) /\ h \in 1 .. Len(c)
    BY <1>2
  <2>2. DropsAt(d, c, h, 1 .. n)
    BY ONLY <2>1, DroppedParts
  <2> HIDE DEF d
  <2> QED BY ONLY <2>2 DEF DropsAt
<1> HIDE DEF d
<1>12. EndsAre(r.head, r.tail, d)
  <2>0. m \in Nat /\ h \in Nat /\ 1 <= h /\ h <= m
    BY <1>2
  <2>1. m # 0 /\ 1 \in 1 .. m /\ m \in 1 .. m
    BY <2>0
  <2>2. (c[1] = i <=> h = 1) /\ (c[m] = i <=> h = m)
    BY <2>1, <1>3 DEF Orderly
  <2>3. r.head = IF m - 1 = 0 THEN 0 ELSE d[1]
    <3>1. CASE m - 1 = 0
      <4>1. h = 1 /\ h = m
        <5> HIDE DEF m
        <5> QED BY <3>1, <2>0
      <4>2. after = 0
        BY <4>1 DEF after
      <4>3. l.head = i
        BY <4>1, <2>1, <2>2, <1>3
      <4> QED BY <3>1, <4>2, <4>3, <1>6
    <3>2. CASE m - 1 # 0 /\ h = 1
      <4>1. 1 \in 1 .. m - 1 /\ m # 1
        <5> HIDE DEF m
        <5> QED BY <3>2, <2>0
      <4>2. after = c[1 + 1]
        BY <3>2, <4>1 DEF after
      <4>3. d[1] = c[1 + 1]
        <5>1. \A k \in 1 .. m - 1 : k >= h => d[k] = c[k + 1]
          BY <1>11
        <5> HIDE DEF m
        <5> QED BY <5>1, <3>2, <4>1
      <4>4. l.head = i
        BY <3>2, <2>1, <2>2, <1>3
      <4> QED BY <3>2, <4>2, <4>3, <4>4, <1>6
    <3>3. CASE m - 1 # 0 /\ h # 1
      <4>1. 1 \in 1 .. m - 1 /\ 1 < h
        BY <3>3, <1>2
      <4> QED BY <3>3, <4>1, <2>1, <2>2, <1>3, <1>6, <1>11
    <3> QED BY <3>1, <3>2, <3>3
  <2>4. r.tail = IF m - 1 = 0 THEN 0 ELSE d[m - 1]
    <3>1. CASE m - 1 = 0
      <4>1. h = 1 /\ h = m
        <5> HIDE DEF m
        <5> QED BY <3>1, <2>0
      <4>2. before = 0
        BY <4>1 DEF before
      <4>3. l.tail = i
        BY <4>1, <2>1, <2>2, <1>3
      <4> QED BY <3>1, <4>2, <4>3, <1>6
    <3>2. CASE m - 1 # 0 /\ h = m
      <4>1. m - 1 \in 1 .. m - 1 /\ h # 1 /\ m - 1 < h
        BY <3>2, <1>2
      <4> QED BY <3>2, <4>1, <2>1, <2>2, <1>3, <1>6, <1>11 DEF before
    <3>3. CASE m - 1 # 0 /\ h # m
      <4>1. m - 1 \in 1 .. m - 1 /\ m - 1 >= h /\ (m - 1) + 1 = m
        BY <3>3, <1>2
      <4> QED BY <3>3, <4>1, <2>1, <2>2, <1>3, <1>6, <1>11
    <3> QED BY <3>1, <3>2, <3>3
  <2> QED BY <2>3, <2>4, <1>11 DEF EndsAre
<1>13. NodesOK(r, d)
  BY <1>3, <1>6, <1>8, <1>10, <1>11, <1>12 DEF NodesOK
<1>14. SameValues(l, r)
  BY <1>7, <1>8 DEF SameValues
<1> QED BY <1>13, <1>14 DEF r, d

\* After list_delete_item the list reads as the sequence without that member.
LEMMA ListDeletes ==
  ASSUME NEW l, NEW c, NEW s, NodesOK(l, c), ValuesAre(l, c, s), NEW h \in 1 .. Len(s)
  PROVE  ListReads(list_delete_item(l, c[h]), Dropped(s, h))
<1> DEFINE r == list_delete_item(l, c[h])
           d == Dropped(c, h)
           t == Dropped(s, h)
           n == Len(l.node)
           m == Len(c)
<1>1. s \in Seq(Values) /\ Len(s) = m /\ \A k \in 1 .. m : l.node[c[k]].value = s[k]
  BY DEF ValuesAre
<1>2. c \in Seq(1 .. n) /\ m \in Nat /\ \A k \in 1 .. m : c[k] \in 1 .. n
  BY NodesParts
<1>3. h \in 1 .. m
  BY <1>1
<1>4. NodesOK(r, d) /\ SameValues(l, r)
  BY <1>3, NodeDeleted
<1>5. /\ Len(d) = m - 1
      /\ \A k \in 1 .. m - 1 : k \in 1 .. m /\ k + 1 \in 1 .. m
      /\ \A k \in 1 .. m - 1 : k < h => d[k] = c[k]
      /\ \A k \in 1 .. m - 1 : k >= h => d[k] = c[k + 1]
  BY <1>2, <1>3, DroppedParts DEF DropsAt
<1>6. /\ t \in Seq(Values) /\ Len(t) = m - 1
      /\ \A k \in 1 .. m - 1 : k < h => t[k] = s[k]
      /\ \A k \in 1 .. m - 1 : k >= h => t[k] = s[k + 1]
  <2>1. /\ t \in Seq(Values) /\ Len(t) = Len(s) - 1
        /\ \A k \in 1 .. Len(s) - 1 : k < h => t[k] = s[k]
        /\ \A k \in 1 .. Len(s) - 1 : k >= h => t[k] = s[k + 1]
    BY <1>1, DroppedParts DEF DropsAt
  <2> HIDE DEF t, m
  <2> QED BY <2>1, <1>1
<1> HIDE DEF d, t, r
<1>7. ASSUME NEW k \in 1 .. m - 1 PROVE r.node[d[k]].value = t[k]
  <2>1. k \in 1 .. m /\ k + 1 \in 1 .. m
    BY <1>5
  <2>2. c[k] \in 1 .. n /\ c[k + 1] \in 1 .. n
    BY <2>1, <1>2
  <2>3. r.node[c[k]].value = s[k] /\ r.node[c[k + 1]].value = s[k + 1]
    BY <2>1, <2>2, <1>1, <1>4 DEF SameValues
  <2>4. CASE k < h
    BY <2>3, <2>4, <1>5, <1>6
  <2>5. CASE k >= h
    BY <2>3, <2>5, <1>5, <1>6
  <2> QED BY <2>4, <2>5, <1>3
<1>8. ValuesAre(r, d, t)
  BY <1>5, <1>6, <1>7 DEF ValuesAre
<1> QED BY <1>4, <1>8 DEF ListReads, r, t

\* The first of some positions is one of them.
LEMMA FirstIs ==
  ASSUME NEW S, S \subseteq Nat, S # {}
  PROVE  FirstOf(S) \in S
<1>1. \E k \in S : \A h \in S : k <= h
  BY Smallest
<1> QED BY <1>1 DEF FirstOf

\* Where a sequence has the value v.
PlacesOf(s, v) == {k \in DOMAIN s : s[k] = v}

\* The node that list_find returns is the one at the first place of the value.
LEMMA NodeFound ==
  ASSUME NEW l, NEW c, NEW s, NodesOK(l, c), ValuesAre(l, c, s), NEW v, list_find(l, {v}) # 0,
         NEW h, h = FirstOf(PlacesOf(s, v))
  PROVE  h \in 1 .. Len(s) /\ list_find(l, {v}) = c[h]
<1> DEFINE H == PlacesOf(s, v)
           G == {k \in DOMAIN c : l.node[c[k]].value \in {v}}
<1>1. Chain(l, l.head, "next") = c
  BY ChainIs
<1>2. DOMAIN s = 1 .. Len(s) /\ DOMAIN c = 1 .. Len(s) /\ \A k \in 1 .. Len(s) : l.node[c[k]].value = s[k]
  BY NodesParts DEF ValuesAre
<1>3. G = H
  BY <1>2 DEF PlacesOf
<1>4. list_find(l, {v}) = IF G = {} THEN 0 ELSE c[FirstOf(G)]
  BY <1>1, Zenon DEF list_find
<1>5. H # {} /\ H \subseteq Nat /\ list_find(l, {v}) = c[FirstOf(H)]
  <2>1. H \subseteq Nat
    BY <1>2 DEF PlacesOf
  <2> HIDE DEF G, H
  <2> QED BY <1>3, <1>4, <2>1
<1>6. FirstOf(H) \in H
  <2> HIDE DEF H
  <2> QED BY <1>5, FirstIs
<1> QED BY <1>2, <1>5, <1>6 DEF PlacesOf

-----------------------------------------------------------------------------

\* The kept items K followed by those of c that come after position k.
Joined(c, K, k) == [j \in 1 .. Len(K) + (Len(c) - k) |-> IF j <= Len(K) THEN K[j] ELSE c[j - Len(K) + k]]

\* What Joined makes of c, K and k.
IsJoined(f, S, c, K, k, n) ==
  /\ f \in Seq(S) /\ Len(f) = n /\ n \in Nat
  /\ \A j \in 1 .. n : j <= Len(K) => f[j] = K[j]
  /\ \A j \in 1 .. n : j > Len(K) => f[j] = c[j - Len(K) + k]

\* The kept items and those not seen yet, member by member.
LEMMA JoinedParts ==
  ASSUME NEW S, NEW c \in Seq(S), NEW K \in Seq(S), NEW k \in 0 .. Len(c),
         NEW n, n = Len(K) + (Len(c) - k)
  PROVE  IsJoined(Joined(c, K, k), S, c, K, k, n)
<1> DEFINE f == Joined(c, K, k)
<1>1. Len(K) \in Nat /\ Len(c) \in Nat /\ (\A j \in 1 .. Len(K) : K[j] \in S) /\ (\A j \in 1 .. Len(c) : c[j] \in S)
  OBVIOUS
<1>2. n \in Nat
  BY <1>1
<1>3. f = [j \in 1 .. n |-> f[j]] /\ \A j \in 1 .. n : f[j] = IF j <= Len(K) THEN K[j] ELSE c[j - Len(K) + k]
  BY DEF Joined
<1>4. ASSUME NEW j \in 1 .. n
      PROVE  (j <= Len(K) => j \in 1 .. Len(K)) /\ (j > Len(K) => j - Len(K) + k \in 1 .. Len(c))
             /\ (j <= Len(K) <=> ~(j > Len(K)))
  BY <1>1
<1> HIDE DEF f
<1>5. ASSUME NEW j \in 1 .. n
      PROVE  /\ f[j] \in S /\ (j <= Len(K) => f[j] = K[j])
             /\ (j > Len(K) => f[j] = c[j - Len(K) + k])
  <2> DEFINE e == j - Len(K) + k
  <2>1. f[j] = IF j <= Len(K) THEN K[j] ELSE c[e]
    BY <1>3
  <2>2. (j <= Len(K) => j \in 1 .. Len(K)) /\ (j > Len(K) => e \in 1 .. Len(c)) /\ (j <= Len(K) <=> ~(j > Len(K)))
    BY <1>4
  <2> HIDE DEF e
  <2> QED BY <2>1, <2>2, <1>1 DEF e
<1>6. f \in Seq(S) /\ Len(f) = n
  BY <1>2, <1>3, <1>5, SequenceOf
<1>7. IsJoined(f, S, c, K, k, n)
  BY <1>2, <1>5, <1>6 DEF IsJoined
<1> QED BY <1>7 DEF f

\* At first all are there, ...
LEMMA JoinedFirst ==
  ASSUME NEW S, NEW c \in Seq(S)
  PROVE  Joined(c, << >>, 0) = c
<1> DEFINE e == << >>
           f == Joined(c, e, 0)
<1>1. e \in Seq(S) /\ Len(e) = 0 /\ Len(c) \in Nat /\ 0 \in 0 .. Len(c)
  OBVIOUS
<1> HIDE DEF e
<1>2. IsJoined(f, S, c, e, 0, Len(c))
  <2>1. Len(c) = Len(e) + (Len(c) - 0)
    BY <1>1
  <2> QED BY <1>1, <2>1, JoinedParts
<1> HIDE DEF f
<1>3. f \in Seq(S) /\ Len(f) = Len(c)
  BY <1>2 DEF IsJoined
<1>4. \A j \in 1 .. Len(c) : f[j] = c[j]
  <2>1. \A j \in 1 .. Len(c) : j > Len(e) /\ j - Len(e) + 0 = j
    BY <1>1
  <2> QED BY <2>1, <1>2 DEF IsJoined
<1>5. f = c
  BY <1>3, <1>4, SeqEqual
<1> QED BY <1>5 DEF f, e

\* ... in the end only the kept ones.
LEMMA JoinedLast ==
  ASSUME NEW S, NEW c \in Seq(S), NEW K \in Seq(S)
  PROVE  Joined(c, K, Len(c)) = K
<1> DEFINE f == Joined(c, K, Len(c))
<1>1. Len(K) \in Nat /\ Len(c) \in Nat /\ Len(c) \in 0 .. Len(c)
  OBVIOUS
<1>2. IsJoined(f, S, c, K, Len(c), Len(K))
  <2>1. Len(K) = Len(K) + (Len(c) - Len(c))
    BY <1>1
  <2> QED BY <1>1, <2>1, JoinedParts
<1> HIDE DEF f
<1>3. f \in Seq(S) /\ Len(f) = Len(K)
  BY <1>2 DEF IsJoined
<1>4. \A j \in 1 .. Len(K) : f[j] = K[j]
  BY <1>1, <1>2 DEF IsJoined
<1>5. f = K
  BY <1>3, <1>4, SeqEqual
<1> QED BY <1>5 DEF f

\* The next one is kept, ...
LEMMA JoinedKept ==
  ASSUME NEW S, NEW c \in Seq(S), NEW K \in Seq(S), NEW k \in 0 .. Len(c), k + 1 <= Len(c)
  PROVE  Joined(c, Append(K, c[k + 1]), k + 1) = Joined(c, K, k)
<1> DEFINE L == Append(K, c[k + 1])
           f == Joined(c, K, k)
           g == Joined(c, L, k + 1)
           n == Len(K) + (Len(c) - k)
<1>1. Len(K) \in Nat /\ Len(c) \in Nat /\ k + 1 \in 1 .. Len(c) /\ k + 1 \in 0 .. Len(c) /\ c[k + 1] \in S
  OBVIOUS
<1>2. L \in Seq(S) /\ Len(L) = Len(K) + 1 /\ L[Len(K) + 1] = c[k + 1] /\ \A j \in 1 .. Len(K) : L[j] = K[j]
  BY <1>1, AppendProperties
<1> HIDE DEF L
<1>3. /\ f \in Seq(S) /\ Len(f) = n /\ n \in Nat
      /\ \A j \in 1 .. n : j <= Len(K) => f[j] = K[j]
      /\ \A j \in 1 .. n : j > Len(K) => f[j] = c[j - Len(K) + k]
  <2>1. IsJoined(f, S, c, K, k, n)
    BY JoinedParts
  <2> QED BY <2>1 DEF IsJoined
<1>4. n = Len(L) + (Len(c) - (k + 1)) /\ Len(L) \in Nat
  <2>1. Len(L) = Len(K) + 1
    BY <1>2
  <2>2. k \in Nat
    OBVIOUS
  <2> QED BY <2>1, <2>2, <1>1
<1>5. /\ g \in Seq(S) /\ Len(g) = n
      /\ \A j \in 1 .. n : j <= Len(L) => g[j] = L[j]
      /\ \A j \in 1 .. n : j > Len(L) => g[j] = c[j - Len(L) + (k + 1)]
  <2>1. IsJoined(g, S, c, L, k + 1, n)
    BY <1>1, <1>2, <1>4, JoinedParts
  <2> HIDE DEF g, n
  <2> QED BY <2>1 DEF IsJoined
<1> HIDE DEF f, g
<1>6. ASSUME NEW j \in 1 .. n PROVE f[j] = g[j]
  <2>1. CASE j <= Len(K)
    <3>1. j \in 1 .. Len(K) /\ j <= Len(L)
      BY <2>1, <1>1, <1>2
    <3> QED BY <2>1, <3>1, <1>2, <1>3, <1>5
  <2>2. CASE j = Len(K) + 1
    <3>1. j > Len(K) /\ j <= Len(L) /\ j - Len(K) + k = k + 1
      BY <2>2, <1>1, <1>2
    <3> QED BY <2>2, <3>1, <1>2, <1>3, <1>5
  <2>3. CASE j > Len(K) + 1
    <3>1. j > Len(K) /\ j > Len(L) /\ j - Len(K) + k = j - Len(L) + (k + 1)
      <4>1. Len(L) = Len(K) + 1
        BY <1>2
      <4>2. k \in Nat /\ j \in Int
        BY <1>3
      <4> QED BY <4>1, <4>2, <2>3, <1>1
    <3> QED BY <3>1, <1>3, <1>5
  <2>4. j <= Len(K) \/ j = Len(K) + 1 \/ j > Len(K) + 1
    BY <1>1
  <2> QED BY <2>1, <2>2, <2>3, <2>4
<1> HIDE DEF n
<1>7. f = g
  BY <1>3, <1>5, <1>6, SeqEqual
<1> QED BY <1>7 DEF f, g, L

\* ... or it is dropped.
LEMMA JoinedDropped ==
  ASSUME NEW S, NEW c \in Seq(S), NEW K \in Seq(S), NEW k \in 0 .. Len(c), k + 1 <= Len(c)
  PROVE  /\ Len(K) + 1 \in 1 .. Len(Joined(c, K, k)) /\ Joined(c, K, k)[Len(K) + 1] = c[k + 1]
         /\ Dropped(Joined(c, K, k), Len(K) + 1) = Joined(c, K, k + 1)
<1> DEFINE f == Joined(c, K, k)
           g == Joined(c, K, k + 1)
           h == Len(K) + 1
           d == Dropped(f, h)
           n == Len(K) + (Len(c) - k)
<1>1. Len(K) \in Nat /\ Len(c) \in Nat /\ k + 1 \in 1 .. Len(c) /\ k + 1 \in 0 .. Len(c)
  OBVIOUS
<1>3. /\ f \in Seq(S) /\ Len(f) = n /\ n \in Nat
      /\ \A j \in 1 .. n : j <= Len(K) => f[j] = K[j]
      /\ \A j \in 1 .. n : j > Len(K) => f[j] = c[j - Len(K) + k]
  <2>1. IsJoined(f, S, c, K, k, n)
    BY JoinedParts
  <2> QED BY <2>1 DEF IsJoined
<1>4. n - 1 = Len(K) + (Len(c) - (k + 1)) /\ h \in 1 .. n /\ h - Len(K) + k = k + 1 /\ h > Len(K)
  BY <1>1
<1>5. /\ g \in Seq(S) /\ Len(g) = n - 1
      /\ \A j \in 1 .. n - 1 : j <= Len(K) => g[j] = K[j]
      /\ \A j \in 1 .. n - 1 : j > Len(K) => g[j] = c[j - Len(K) + (k + 1)]
  <2>1. IsJoined(g, S, c, K, k + 1, n - 1)
    BY <1>1, <1>4, JoinedParts
  <2> HIDE DEF g, n
  <2> QED BY <2>1 DEF IsJoined
<1> HIDE DEF f, g
<1>6. /\ d \in Seq(S) /\ Len(d) = n - 1
      /\ \A j \in 1 .. n - 1 : j \in 1 .. n /\ j + 1 \in 1 .. n
      /\ \A j \in 1 .. n - 1 : j < h => d[j] = f[j]
      /\ \A j \in 1 .. n - 1 : j >= h => d[j] = f[j + 1]
  <2>1. h \in 1 .. Len(f)
    BY <1>3, <1>4
  <2>2. /\ d \in Seq(S) /\ Len(d) = Len(f) - 1
        /\ \A j \in 1 .. Len(f) - 1 : j \in 1 .. Len(f) /\ j + 1 \in 1 .. Len(f)
        /\ \A j \in 1 .. Len(f) - 1 : j < h => d[j] = f[j]
        /\ \A j \in 1 .. Len(f) - 1 : j >= h => d[j] = f[j + 1]
    BY <2>1, <1>3, DroppedParts DEF DropsAt
  <2> HIDE DEF d, n, h
  <2> QED BY <2>2, <1>3
<1> HIDE DEF d
<1>7. ASSUME NEW j \in 1 .. n - 1 PROVE d[j] = g[j]
  <2>1. CASE j <= Len(K)
    <3>1. j < h /\ j \in 1 .. n
      BY <2>1, <1>1, <1>6
    <3> QED BY <2>1, <3>1, <1>3, <1>5, <1>6
  <2>2. CASE j > Len(K)
    <3>1. j >= h /\ j + 1 \in 1 .. n /\ j + 1 > Len(K) /\ (j + 1) - Len(K) + k = j - Len(K) + (k + 1)
      BY <2>2, <1>1, <1>6
    <3>2. d[j] = f[j + 1] /\ f[j + 1] = c[(j + 1) - Len(K) + k]
      BY <3>1, <1>3, <1>6
    <3> QED BY <2>2, <3>1, <3>2, <1>5
  <2>4. j <= Len(K) \/ j > Len(K)
    BY <1>1
  <2> QED BY <2>1, <2>2, <2>4
<1>8. d = g
  <2>1. n - 1 \in Nat
    BY <1>3, <1>4
  <2> HIDE DEF n
  <2> QED BY <2>1, <1>5, <1>6, <1>7, SeqEqual
<1>9. f[h] = c[k + 1]
  BY <1>3, <1>4
<1>10. h \in 1 .. Len(f)
  BY <1>3, <1>4
<1> QED BY <1>8, <1>9, <1>10 DEF d, f, g

DeletesAlong(f, l, c, T) ==
  f = [k \in 0 .. Len(c) |-> IF k = 0 THEN l
                             ELSE IF l.node[c[k]].value \in T THEN list_delete_item(f[k - 1], c[k])
                             ELSE f[k - 1]]

\* The loop of list_delete_items_where, unfolded.
LEMMA DeletedStep ==
  ASSUME NEW l, NEW c \in Seq(Nat), NEW T
  PROVE  DeletesAlong(DeletedUpTo(l, c, T), l, c, T)
<1> DEFINE m == Len(c)
           Step(f, k) == IF k = 0 THEN l ELSE IF l.node[c[k]].value \in T THEN list_delete_item(f[k - 1], c[k]) ELSE f[k - 1]
           rest == CHOOSE f : f = [k \in 0 .. m |-> Step(f, k)]
           S == {n \in Nat : \E f : f = [k \in 0 .. n |-> Step(f, k)]}
<1>0. m \in Nat
  OBVIOUS
<1>1. DeletedUpTo(l, c, T) = rest
  BY Zenon DEF DeletedUpTo
<1>2. 0 \in S
  <2> DEFINE f == [k \in 0 .. 0 |-> l]
  <2>1. \A k \in 0 .. 0 : k = 0
    OBVIOUS
  <2>2. \A k \in 0 .. 0 : Step(f, k) = l
    BY <2>1
  <2>3. f = [k \in 0 .. 0 |-> Step(f, k)]
    <3> HIDE DEF Step
    <3> QED BY <2>2
  <2> QED BY <2>3
<1>3. ASSUME NEW n \in Nat, n \in S PROVE n + 1 \in S
  <2>1. PICK f : f = [k \in 0 .. n |-> Step(f, k)]
    BY <1>3
  <2> DEFINE g == [k \in 0 .. n + 1 |-> IF k <= n THEN f[k] ELSE Step(f, n + 1)]
  <2>2. ASSUME NEW k \in 0 .. n + 1 PROVE g[k] = Step(g, k)
    <3>1. CASE k = 0
      <4>1. g[k] = f[0] /\ 0 \in 0 .. n
        BY <3>1
      <4>2. f[0] = Step(f, 0)
        <5> HIDE DEF Step
        <5> QED BY <2>1, <4>1
      <4> QED BY <3>1, <4>1, <4>2
    <3>2. CASE k # 0 /\ k <= n
      <4>1. k \in 0 .. n /\ k - 1 \in 0 .. n + 1 /\ k - 1 <= n
        BY <3>2
      <4>2. g[k] = f[k] /\ g[k - 1] = f[k - 1]
        BY <3>2, <4>1
      <4>3. f[k] = Step(f, k)
        <5> HIDE DEF Step
        <5> QED BY <2>1, <4>1
      <4> HIDE DEF g
      <4> QED BY <3>2, <4>2, <4>3
    <3>3. CASE k = n + 1
      <4>1. g[k] = Step(f, n + 1)
        <5> HIDE DEF Step
        <5> QED BY <3>3
      <4>2. n \in 0 .. n + 1 /\ k - 1 = n /\ k # 0 /\ (n + 1) - 1 = n /\ n + 1 # 0
        BY <3>3
      <4>3. g[k - 1] = f[(n + 1) - 1]
        BY <4>2
      <4> HIDE DEF g
      <4>4. Step(g, k) = Step(f, n + 1)
        BY <4>2, <4>3, <3>3, Zenon
      <4> QED BY <4>1, <4>4
    <3> QED BY <3>1, <3>2, <3>3
  <2>3. g = [k \in 0 .. n + 1 |-> g[k]]
    OBVIOUS
  <2> HIDE DEF g, Step
  <2>4. g = [k \in 0 .. n + 1 |-> Step(g, k)]
    BY <2>2, <2>3
  <2> QED BY <2>4
<1>4. m \in S
  <2> HIDE DEF S
  <2> QED BY <1>0, <1>2, <1>3, AllNaturals
<1>5. rest = [k \in 0 .. m |-> Step(rest, k)]
  <2> HIDE DEF Step
  <2> QED BY <1>4
<1> HIDE DEF rest
<1> QED BY <1>1, <1>5, Zenon DEF DeletesAlong

\* The values that are kept, unfolded.
LEMMA KeptStep ==
  ASSUME NEW s \in Seq(Values), NEW T
  PROVE  KeptUpTo(s, T)
           = [k \in 0 .. Len(s) |->
                IF k = 0 THEN << >>
                ELSE IF s[k] \in T THEN KeptUpTo(s, T)[k - 1]
                ELSE Append(KeptUpTo(s, T)[k - 1], s[k])]
<1> DEFINE m == Len(s)
           Step(f, k) == IF k = 0 THEN << >> ELSE IF s[k] \in T THEN f[k - 1] ELSE Append(f[k - 1], s[k])
           rest == CHOOSE f : f = [k \in 0 .. m |-> Step(f, k)]
           S == {n \in Nat : \E f : f = [k \in 0 .. n |-> Step(f, k)]}
<1>0. m \in Nat
  OBVIOUS
<1>1. KeptUpTo(s, T) = rest
  BY Zenon DEF KeptUpTo
<1>2. 0 \in S
  <2> DEFINE f == [k \in 0 .. 0 |-> << >>]
  <2>1. \A k \in 0 .. 0 : k = 0
    OBVIOUS
  <2>2. \A k \in 0 .. 0 : Step(f, k) = << >>
    BY <2>1
  <2>3. f = [k \in 0 .. 0 |-> Step(f, k)]
    <3> HIDE DEF Step
    <3> QED BY <2>2
  <2> QED BY <2>3
<1>3. ASSUME NEW n \in Nat, n \in S PROVE n + 1 \in S
  <2>1. PICK f : f = [k \in 0 .. n |-> Step(f, k)]
    BY <1>3
  <2> DEFINE g == [k \in 0 .. n + 1 |-> IF k <= n THEN f[k] ELSE Step(f, n + 1)]
  <2>2. ASSUME NEW k \in 0 .. n + 1 PROVE g[k] = Step(g, k)
    <3>1. CASE k = 0
      <4>1. g[k] = f[0] /\ 0 \in 0 .. n
        BY <3>1
      <4>2. f[0] = Step(f, 0)
        <5> HIDE DEF Step
        <5> QED BY <2>1, <4>1
      <4> QED BY <3>1, <4>1, <4>2
    <3>2. CASE k # 0 /\ k <= n
      <4>1. k \in 0 .. n /\ k - 1 \in 0 .. n + 1 /\ k - 1 <= n
        BY <3>2
      <4>2. g[k] = f[k] /\ g[k - 1] = f[k - 1]
        BY <3>2, <4>1
      <4>3. f[k] = Step(f, k)
        <5> HIDE DEF Step
        <5> QED BY <2>1, <4>1
      <4> HIDE DEF g
      <4> QED BY <3>2, <4>2, <4>3
    <3>3. CASE k = n + 1
      <4>1. g[k] = Step(f, n + 1)
        <5> HIDE DEF Step
        <5> QED BY <3>3
      <4>2. n \in 0 .. n + 1 /\ k - 1 = n /\ k # 0 /\ (n + 1) - 1 = n /\ n + 1 # 0
        BY <3>3
      <4>3. g[k - 1] = f[(n + 1) - 1]
        BY <4>2
      <4> HIDE DEF g
      <4>4. Step(g, k) = Step(f, n + 1)
        BY <4>2, <4>3, <3>3, Zenon
      <4> QED BY <4>1, <4>4
    <3> QED BY <3>1, <3>2, <3>3
  <2>3. g = [k \in 0 .. n + 1 |-> g[k]]
    OBVIOUS
  <2> HIDE DEF g, Step
  <2>4. g = [k \in 0 .. n + 1 |-> Step(g, k)]
    BY <2>2, <2>3
  <2> QED BY <2>4
<1>4. m \in S
  <2> HIDE DEF S
  <2> QED BY <1>0, <1>2, <1>3, AllNaturals
<1>5. rest = [k \in 0 .. m |-> Step(rest, k)]
  <2> HIDE DEF Step
  <2> QED BY <1>4
<1> HIDE DEF rest
<1> QED BY <1>1, <1>5, Zenon

\* After k items of the loop over the nodes c, r is what the list has become
\* and s the values that were kept.
WhereOK(l, c, k, r, s) ==
  \E K \in Seq(1 .. Len(l.node)) :
    /\ NodesOK(r, Joined(c, K, k)) /\ SameValues(l, r)
    /\ s \in Seq(Values) /\ Len(s) = Len(K) /\ \A j \in 1 .. Len(K) : l.node[K[j]].value = s[j]

\* Before the loop nothing is deleted.
LEMMA WhereBegins ==
  ASSUME NEW l, NEW c, NodesOK(l, c)
  PROVE  WhereOK(l, c, 0, l, << >>)
<1> DEFINE N == 1 .. Len(l.node)
           e == << >>
<1>1. c \in Seq(N)
  BY NodesParts
<1> HIDE DEF N
<1>2. Joined(c, e, 0) = c
  BY <1>1, JoinedFirst
<1>3. e \in Seq(N) /\ e \in Seq(Values) /\ Len(e) = 0
  OBVIOUS
<1>4. SameValues(l, l)
  BY DEF SameValues
<1>5. \A j \in 1 .. Len(e) : l.node[e[j]].value = e[j]
  BY <1>3
<1> HIDE DEF e
<1> QED BY <1>2, <1>3, <1>4, <1>5 DEF WhereOK, N, e

\* The node at hand does not pass the test: its value is kept, ...
LEMMA WhereKeeps ==
  ASSUME NEW l, NEW c, NodesOK(l, c), NEW k \in 0 .. Len(c), k + 1 <= Len(c),
         NEW r, NEW s, WhereOK(l, c, k, r, s)
  PROVE  WhereOK(l, c, k + 1, r, Append(s, l.node[c[k + 1]].value))
<1> DEFINE N == 1 .. Len(l.node)
           v == l.node[c[k + 1]].value
           t == Append(s, v)
<1>1. /\ c \in Seq(N) /\ Len(c) \in Nat /\ (\A j \in 1 .. Len(c) : c[j] \in N)
      /\ \A j \in N : l.node[j] \in ListNodes
  BY NodesParts
<1>2. k + 1 \in 1 .. Len(c)
  BY <1>1
<1>3. v \in Values /\ c[k + 1] \in N
  <2>1. c[k + 1] \in N
    BY <1>1, <1>2
  <2>2. l.node[c[k + 1]] \in ListNodes
    BY <2>1, <1>1
  <2> QED BY <2>1, <2>2 DEF ListNodes
<1> HIDE DEF N, v
<1>4. PICK K \in Seq(N) : /\ NodesOK(r, Joined(c, K, k)) /\ SameValues(l, r)
                          /\ s \in Seq(Values) /\ Len(s) = Len(K) /\ \A j \in 1 .. Len(K) : l.node[K[j]].value = s[j]
  BY DEF WhereOK, N
<1> DEFINE L == Append(K, c[k + 1])
<1>5. /\ L \in Seq(N) /\ Len(L) = Len(K) + 1 /\ L[Len(K) + 1] = c[k + 1]
      /\ \A j \in 1 .. Len(K) : L[j] = K[j]
  BY <1>3, <1>4, AppendProperties
<1>6. t \in Seq(Values) /\ Len(t) = Len(K) + 1 /\ t[Len(K) + 1] = v /\ \A j \in 1 .. Len(K) : t[j] = s[j]
  <2>1. t \in Seq(Values) /\ Len(t) = Len(s) + 1 /\ t[Len(s) + 1] = v /\ \A j \in 1 .. Len(s) : t[j] = s[j]
    BY <1>3, <1>4, AppendProperties
  <2> QED BY <2>1, <1>4
<1>7. Joined(c, L, k + 1) = Joined(c, K, k)
  BY <1>1, <1>4, JoinedKept
<1> HIDE DEF L, t
<1>8. ASSUME NEW j \in 1 .. Len(L) PROVE l.node[L[j]].value = t[j]
  <2>1. Len(K) \in Nat
    BY <1>4
  <2>2. j \in 1 .. Len(K) \/ j = Len(K) + 1
    BY <2>1, <1>5
  <2>3. CASE j \in 1 .. Len(K)
    BY <2>3, <1>4, <1>5, <1>6
  <2>4. CASE j = Len(K) + 1
    BY <2>4, <1>5, <1>6 DEF v
  <2> QED BY <2>2, <2>3, <2>4
<1>9. WhereOK(l, c, k + 1, r, t)
  <2>1. Len(t) = Len(L) /\ NodesOK(r, Joined(c, L, k + 1))
    BY <1>4, <1>5, <1>6, <1>7
  <2> QED BY <2>1, <1>4, <1>5, <1>6, <1>8 DEF WhereOK, N
<1> QED BY <1>9 DEF t, v

\* ... or it does: list_delete_item takes it out, and the next one is still known.
LEMMA WhereDeletes ==
  ASSUME NEW l, NEW c, NodesOK(l, c), NEW k \in 0 .. Len(c), k + 1 <= Len(c),
         NEW r, NEW s, WhereOK(l, c, k, r, s)
  PROVE  WhereOK(l, c, k + 1, list_delete_item(r, c[k + 1]), s)
<1> DEFINE N == 1 .. Len(l.node)
           q == list_delete_item(r, c[k + 1])
<1>1. c \in Seq(N) /\ Len(c) \in Nat
  BY NodesParts
<1> HIDE DEF N
<1>2. PICK K \in Seq(N) : /\ NodesOK(r, Joined(c, K, k)) /\ SameValues(l, r)
                          /\ s \in Seq(Values) /\ Len(s) = Len(K) /\ \A j \in 1 .. Len(K) : l.node[K[j]].value = s[j]
  BY DEF WhereOK, N
<1> DEFINE f == Joined(c, K, k)
           h == Len(K) + 1
<1>3. h \in 1 .. Len(f) /\ f[h] = c[k + 1] /\ Dropped(f, h) = Joined(c, K, k + 1)
  BY <1>1, <1>2, JoinedDropped
<1> HIDE DEF f, h
<1>4. NodesOK(r, f)
  BY <1>2 DEF f
<1>5. NodesOK(q, Dropped(f, h)) /\ SameValues(r, q)
  BY <1>3, <1>4, NodeDeleted
<1>6. SameValues(l, q)
  BY <1>2, <1>5 DEF SameValues
<1> HIDE DEF q
<1>7. WhereOK(l, c, k + 1, q, s)
  BY <1>2, <1>3, <1>5, <1>6 DEF WhereOK, N
<1> QED BY <1>7 DEF q

\* list_delete_items_where leaves the values that do not pass the test.
LEMMA WhereDeleted ==
  ASSUME NEW l, NEW s, ListReads(l, s), NEW T
  PROVE  ListReads(list_delete_items_where(l, T), KeptUpTo(s, T)[Len(s)])
<1>1. PICK c : NodesOK(l, c) /\ ValuesAre(l, c, s)
  BY DEF ListReads
<1> DEFINE N == 1 .. Len(l.node)
           m == Len(c)
           rest == DeletedUpTo(l, c, T)
           kept == KeptUpTo(s, T)
           G == {k \in Nat : k <= m => WhereOK(l, c, k, rest[k], kept[k])}
<1>2. c \in Seq(N) /\ m \in Nat /\ c \in Seq(Nat)
  <2>1. c \in Seq(N) /\ m \in Nat /\ N \subseteq Nat
    BY <1>1, NodesParts
  <2> HIDE DEF N
  <2> QED BY <2>1, SeqMonotonic
<1>3. s \in Seq(Values) /\ Len(s) = m /\ \A k \in 1 .. m : l.node[c[k]].value = s[k]
  BY <1>1 DEF ValuesAre
<1>4. list_delete_items_where(l, T) = rest[m]
  <2>1. Chain(l, l.head, "next") = c
    BY <1>1, ChainIs
  <2> QED BY <2>1, Zenon DEF list_delete_items_where
<1>5. rest = [k \in 0 .. m |-> IF k = 0 THEN l
                               ELSE IF l.node[c[k]].value \in T THEN list_delete_item(rest[k - 1], c[k])
                               ELSE rest[k - 1]]
  <2>1. c \in Seq(Nat)
    BY <1>2
  <2>2. DeletesAlong(rest, l, c, T)
    BY <2>1, DeletedStep
  <2> HIDE DEF rest
  <2> QED BY ONLY <2>2, Zenon DEF DeletesAlong
<1>6. kept = [k \in 0 .. m |-> IF k = 0 THEN << >>
                               ELSE IF s[k] \in T THEN kept[k - 1] ELSE Append(kept[k - 1], s[k])]
  <2> DEFINE n == Len(s)
  <2>1. kept = [k \in 0 .. n |-> IF k = 0 THEN << >>
                                ELSE IF s[k] \in T THEN kept[k - 1] ELSE Append(kept[k - 1], s[k])]
    BY <1>3, KeptStep
  <2>2. n = m
    BY <1>3
  <2> HIDE DEF n, m, kept
  <2> QED BY <2>1, <2>2
<1> HIDE DEF rest, kept
<1>7. 0 \in G
  <2>1. 0 \in 0 .. m
    BY <1>2
  <2>2. rest[0] = l /\ kept[0] = << >>
    BY <2>1, <1>5, <1>6
  <2> QED BY <2>2, <1>1, WhereBegins
<1>8. ASSUME NEW k \in Nat, k \in G PROVE k + 1 \in G
  <2> SUFFICES ASSUME k + 1 <= m PROVE WhereOK(l, c, k + 1, rest[k + 1], kept[k + 1])
    OBVIOUS
  <2>1. k \in 0 .. m /\ k + 1 \in 0 .. m /\ k + 1 \in 1 .. m /\ k <= m /\ k + 1 # 0 /\ (k + 1) - 1 = k
    BY <1>2
  <2>2. WhereOK(l, c, k, rest[k], kept[k])
    BY <1>8, <2>1
  <2>3. l.node[c[k + 1]].value = s[k + 1]
    BY <2>1, <1>3
  <2>4. CASE s[k + 1] \in T
    <3>1. rest[k + 1] = list_delete_item(rest[k], c[k + 1])
      BY <2>1, <2>3, <2>4, <1>5
    <3>2. kept[k + 1] = kept[k]
      BY <2>1, <2>4, <1>6
    <3> QED BY <3>1, <3>2, <2>1, <2>2, <1>1, WhereDeletes
  <2>5. CASE s[k + 1] \notin T
    <3>1. rest[k + 1] = rest[k]
      BY <2>1, <2>3, <2>5, <1>5
    <3>2. kept[k + 1] = Append(kept[k], l.node[c[k + 1]].value)
      BY <2>1, <2>3, <2>5, <1>6
    <3>3. WhereOK(l, c, k + 1, rest[k], Append(kept[k], l.node[c[k + 1]].value))
      BY <2>1, <2>2, <1>1, WhereKeeps
    <3> QED BY <3>1, <3>2, <3>3
  <2> QED BY <2>4, <2>5
<1>9. m \in G
  <2> HIDE DEF G
  <2> QED BY <1>2, <1>7, <1>8, AllNaturals
<1>10. WhereOK(l, c, m, rest[m], kept[m])
  BY <1>2, <1>9
<1> HIDE DEF N
<1>11. PICK K \in Seq(N) :
         /\ NodesOK(rest[m], Joined(c, K, m)) /\ SameValues(l, rest[m])
         /\ kept[m] \in Seq(Values) /\ Len(kept[m]) = Len(K)
         /\ \A j \in 1 .. Len(K) : l.node[K[j]].value = kept[m][j]
  BY <1>10 DEF WhereOK, N
<1>12. Joined(c, K, m) = K
  BY <1>2, <1>11, JoinedLast
<1>13. ValuesAre(rest[m], K, kept[m])
  <2> DEFINE r == rest[m]
             t == kept[m]
  <2>1. /\ SameValues(l, r) /\ t \in Seq(Values) /\ Len(t) = Len(K)
        /\ \A j \in 1 .. Len(K) : l.node[K[j]].value = t[j]
    BY <1>11
  <2> HIDE DEF r, t
  <2>2. \A j \in 1 .. Len(K) : K[j] \in N
    BY <1>11
  <2>3. \A j \in 1 .. Len(K) : r.node[K[j]].value = t[j]
    BY <2>1, <2>2 DEF SameValues, N
  <2>4. ValuesAre(r, K, t)
    BY <2>1, <2>3 DEF ValuesAre
  <2> QED BY <2>4 DEF r, t
<1>14. ListReads(rest[m], kept[m])
  BY <1>11, <1>12, <1>13 DEF ListReads
<1> QED BY <1>3, <1>4, <1>14 DEF rest, kept

-----------------------------------------------------------------------------
(* ... its sorted copy ...                                                   *)

\* The ranges still to be sorted follow each other up to the end of the n items.
RangesOK(stack, n) ==
  /\ stack \in Seq([lower : Nat, upper : Nat])
  /\ \A k \in 1 .. Len(stack) : stack[k].lower <= stack[k].upper /\ stack[k].upper < n
  /\ \A k \in 1 .. Len(stack) - 1 : stack[k + 1].lower = stack[k].upper + 1
  /\ \A j, k \in 1 .. Len(stack) : j < k => stack[j].upper < stack[k].lower
  /\ Len(stack) # 0 => stack[Len(stack)].upper = n - 1

\* What is in one of the ranges, or before it, is not above what follows it;
\* what was before the first one is in order.
Ordered(items, stack, n) ==
  /\ \A k \in 1 .. Len(stack) : \A a, b \in 1 .. n :
       a <= stack[k].upper + 1 /\ stack[k].upper + 1 < b => items[a] <= items[b]
  /\ \A a, b \in 1 .. n :
       a < b /\ (Len(stack) # 0 => a <= stack[1].lower) => items[a] <= items[b]

\* Hoare's partition of lo .. hi around p has dealt with what is up to si and
\* from sj on.
Split(items, lo, hi, si, sj, p) ==
  /\ lo < hi
  /\ \/ si = lo - 1 /\ sj = hi + 1 /\ items[lo] = p
     \/ lo <= si /\ si < sj /\ sj <= hi /\ items[si] <= p /\ p <= items[sj]
  /\ \A a \in lo .. si : items[a] <= p
  /\ \A b \in sj .. hi : p <= items[b]

\* The inner loops stopped at i and j.
Stopped(items, n, si, sj, p, i, j) ==
  /\ i \in si + 1 .. n /\ items[i] >= p /\ \A h \in si + 1 .. i - 1 : items[h] < p
  /\ j \in 1 .. sj - 1 /\ items[j] <= p /\ \A h \in j + 1 .. sj - 1 : items[h] > p

\* The first n items are numbers.
NumbersIn(items, n) == n \in Nat /\ \A k \in 1 .. n : items[k] \in Nat

\* Where the inner loops may stop: they do not leave the range.
LEMMA StoppedWhere ==
  ASSUME NEW items, NEW n, NumbersIn(items, n), NEW lo \in 1 .. n, NEW hi \in 1 .. n,
         NEW si \in Int, NEW sj \in Int, NEW p \in Nat,
         Split(items, lo, hi, si, sj, p), NEW i, NEW j, Stopped(items, n, si, sj, p, i, j)
  PROVE  /\ i \in Int /\ j \in Int /\ si < i /\ j < sj /\ lo <= i /\ i <= sj /\ i <= hi
         /\ si <= j /\ lo <= j /\ j <= hi
         /\ (si = lo - 1 => i = lo)
<1>1. n \in Nat /\ \A k \in 1 .. n : items[k] \in Nat
  BY DEF NumbersIn
<1>2. /\ i \in Int /\ j \in Int /\ si < i /\ i <= n /\ 1 <= j /\ j < sj
      /\ \A h \in si + 1 .. i - 1 : items[h] < p
      /\ \A h \in j + 1 .. sj - 1 : items[h] > p
  BY <1>1 DEF Stopped
<1>3. CASE si = lo - 1 /\ sj = hi + 1 /\ items[lo] = p
  <2>3. lo < hi
    BY DEF Split
  <2>1. ~(lo < i)
    <3>1. lo < i => lo \in si + 1 .. i - 1
      BY <1>1, <1>2, <1>3
    <3>2. lo < i => items[lo] < p
      BY <3>1, <1>2
    <3> QED BY <3>2, <1>3
  <2>2. ~(j < lo)
    <3>1. j < lo => lo \in j + 1 .. sj - 1
      BY <1>1, <1>2, <1>3, <2>3
    <3>2. j < lo => items[lo] > p
      BY <3>1, <1>2
    <3> QED BY <3>2, <1>3
  <2> QED BY <2>1, <2>2, <2>3, <1>1, <1>2, <1>3
<1>4. CASE lo <= si /\ si < sj /\ sj <= hi /\ items[si] <= p /\ p <= items[sj]
  <2>1. si \in 1 .. n /\ sj \in 1 .. n
    BY <1>1, <1>4
  <2>2. items[si] \in Nat /\ items[sj] \in Nat
    BY <2>1, <1>1
  <2>3. ~(sj < i)
    <3>1. sj < i => sj \in si + 1 .. i - 1
      BY <1>1, <1>2, <1>4
    <3>2. sj < i => items[sj] < p
      BY <3>1, <1>2
    <3> QED BY <3>2, <2>2, <1>4
  <2>4. ~(j < si)
    <3>1. j < si => si \in j + 1 .. sj - 1
      BY <1>1, <1>2, <1>4
    <3>2. j < si => items[si] > p
      BY <3>1, <1>2
    <3> QED BY <3>2, <2>2, <1>4
  <2> QED BY <2>3, <2>4, <1>1, <1>2, <1>4
<1> QED BY <1>3, <1>4 DEF Split

\* The loops do stop: the pivot, or an item that was exchanged, ends them.
LEMMA LoopsStop ==
  ASSUME NEW items, NEW n, NumbersIn(items, n), NEW lo \in 1 .. n, NEW hi \in 1 .. n,
         NEW si \in Int, NEW sj \in Int, NEW p \in Nat, Split(items, lo, hi, si, sj, p)
  PROVE  /\ \E i \in si + 1 .. n : items[i] >= p /\ \A h \in si + 1 .. i - 1 : items[h] < p
         /\ \E j \in 1 .. sj - 1 : items[j] <= p /\ \A h \in j + 1 .. sj - 1 : items[h] > p
<1>1. n \in Nat /\ \A k \in 1 .. n : items[k] \in Nat
  BY DEF NumbersIn
<1>0. lo < hi /\ lo - 1 <= si /\ sj <= hi + 1
  BY DEF Split
<1>2. PICK e \in si + 1 .. n : items[e] >= p
  <2>1. CASE si = lo - 1 /\ sj = hi + 1 /\ items[lo] = p
    <3>1. lo \in si + 1 .. n /\ items[lo] >= p
      BY <2>1, <1>1
    <3> QED BY <3>1
  <2>2. CASE lo <= si /\ si < sj /\ sj <= hi /\ items[si] <= p /\ p <= items[sj]
    <3>1. sj \in si + 1 .. n /\ sj \in 1 .. n
      BY <2>2, <1>1
    <3>2. items[sj] >= p
      BY <2>2, <3>1, <1>1
    <3> QED BY <3>1, <3>2
  <2> QED BY <2>1, <2>2 DEF Split
<1>3. PICK f \in 1 .. sj - 1 : items[f] <= p
  <2>1. CASE si = lo - 1 /\ sj = hi + 1 /\ items[lo] = p
    <3>1. lo \in 1 .. sj - 1 /\ items[lo] <= p
      BY <2>1, <1>0, <1>1
    <3> QED BY <3>1
  <2>2. CASE lo <= si /\ si < sj /\ sj <= hi /\ items[si] <= p /\ p <= items[sj]
    <3>1. si \in 1 .. sj - 1 /\ items[si] <= p
      BY <2>2, <1>1
    <3> QED BY <3>1
  <2> QED BY <2>1, <2>2 DEF Split
<1>4. \E i \in si + 1 .. n : items[i] >= p /\ \A h \in si + 1 .. i - 1 : items[h] < p
  <2> DEFINE S == {h \in si + 1 .. n : items[h] >= p}
  <2>1. S \subseteq Nat /\ S # {}
    BY <1>0, <1>1, <1>2
  <2>2. PICK i \in S : \A h \in S : i <= h
    <3> HIDE DEF S
    <3> QED BY <2>1, Smallest
  <2>3. ASSUME NEW h \in si + 1 .. i - 1 PROVE items[h] < p
    <3>1. h \in si + 1 .. n /\ h < i /\ h \in 1 .. n
      BY <2>2, <1>0, <1>1
    <3>2. h \notin S
      <4> HIDE DEF S
      <4>1. h \in S => i <= h
        BY <2>2
      <4>2. i \in Nat
        BY <2>1, <2>2
      <4> QED BY <3>1, <4>1, <4>2
    <3> QED BY <3>1, <3>2, <1>1
  <2> QED BY <2>2, <2>3
<1>5. \E j \in 1 .. sj - 1 : items[j] <= p /\ \A h \in j + 1 .. sj - 1 : items[h] > p
  <2> DEFINE S == {k \in Nat : sj - k \in 1 .. sj - 1 /\ items[sj - k] <= p}
  <2>1. S \subseteq Nat /\ S # {}
    <3>1. sj - f \in Nat /\ sj - (sj - f) = f
      BY <1>3
    <3>2. sj - f \in S
      BY <3>1, <1>3
    <3> QED BY <3>2
  <2>2. PICK k \in S : \A h \in S : k <= h
    <3> HIDE DEF S
    <3> QED BY <2>1, Smallest
  <2> DEFINE j == sj - k
  <2>3. j \in 1 .. sj - 1 /\ items[j] <= p /\ k \in Nat /\ k = sj - j
    BY <2>2
  <2> HIDE DEF j
  <2>4. ASSUME NEW h \in j + 1 .. sj - 1 PROVE items[h] > p
    <3>1. sj - h \in Nat /\ sj - (sj - h) = h /\ sj - h < k /\ h \in 1 .. sj - 1 /\ h \in 1 .. n
      BY <2>3, <1>0, <1>1
    <3>2. sj - h \notin S
      <4> DEFINE z == sj - h
      <4>1. z < k /\ z \in Nat
        BY <3>1
      <4> HIDE DEF S, z
      <4>2. z \in S => k <= z
        BY <2>2
      <4>3. z \notin S
        BY <2>3, <4>1, <4>2
      <4> QED BY <4>3 DEF z
    <3>3. ~(items[h] <= p)
      BY <3>1, <3>2
    <3> QED BY <3>1, <3>3, <1>1
  <2> QED BY <2>3, <2>4
<1> QED BY <1>4, <1>5

\* The loops met: everything up to j is not above the pivot, the rest not below.
LEMMA LoopsMeet ==
  ASSUME NEW items, NEW n, NumbersIn(items, n), NEW lo \in 1 .. n, NEW hi \in 1 .. n,
         NEW si \in Int, NEW sj \in Int, NEW p \in Nat,
         Split(items, lo, hi, si, sj, p), NEW i, NEW j, Stopped(items, n, si, sj, p, i, j), i >= j
  PROVE  /\ j \in lo .. hi - 1
         /\ \A a \in lo .. j : items[a] <= p
         /\ \A b \in j + 1 .. hi : p <= items[b]
<1>1. n \in Nat /\ \A k \in 1 .. n : items[k] \in Nat
  BY DEF NumbersIn
<1>2. /\ i \in Int /\ j \in Int /\ si < i /\ j < sj /\ lo <= i /\ i <= sj /\ i <= hi
      /\ si <= j /\ lo <= j /\ j <= hi /\ (si = lo - 1 => i = lo)
  BY StoppedWhere
<1>3. /\ items[j] <= p
      /\ \A h \in si + 1 .. i - 1 : items[h] < p
      /\ \A h \in j + 1 .. sj - 1 : items[h] > p
  BY DEF Stopped
<1>4. /\ lo < hi /\ (\A a \in lo .. si : items[a] <= p) /\ (\A b \in sj .. hi : p <= items[b])
      /\ (si = lo - 1 \/ sj <= hi)
  BY DEF Split
<1>5. j \in lo .. hi - 1
  BY <1>2, <1>4
<1>6. ASSUME NEW a \in lo .. j PROVE items[a] <= p
  <2>1. a \in lo .. si \/ a \in si + 1 .. i - 1 \/ a = j
    BY <1>2
  <2>2. a \in 1 .. n
    BY <1>1, <1>2
  <2> QED BY <2>1, <2>2, <1>1, <1>3, <1>4
<1>7. ASSUME NEW b \in j + 1 .. hi PROVE p <= items[b]
  <2>1. b \in sj .. hi \/ b \in j + 1 .. sj - 1
    BY <1>2
  <2>2. b \in 1 .. n
    BY <1>1, <1>2
  <2> QED BY <2>1, <2>2, <1>1, <1>3, <1>4
<1> QED BY <1>5, <1>6, <1>7

\* x has the items with those at i and j exchanged.
Exchanged(items, x, n, i, j) ==
  \A k \in 1 .. n : x[k] = IF k = j THEN items[i] ELSE IF k = i THEN items[j] ELSE items[k]

\* The loops stopped before they met: the items they stopped at change places.
LEMMA LoopsExchange ==
  ASSUME NEW items, NEW n, NumbersIn(items, n), NEW lo \in 1 .. n, NEW hi \in 1 .. n,
         NEW si \in Int, NEW sj \in Int, NEW p \in Nat,
         Split(items, lo, hi, si, sj, p), NEW i, NEW j, Stopped(items, n, si, sj, p, i, j), i < j,
         NEW x, Exchanged(items, x, n, i, j)
  PROVE  i \in lo .. hi /\ j \in lo .. hi /\ Split(x, lo, hi, i, j, p)
<1>1. n \in Nat /\ \A k \in 1 .. n : items[k] \in Nat
  BY DEF NumbersIn
<1>2. /\ i \in Int /\ j \in Int /\ si < i /\ j < sj /\ lo <= i /\ i <= sj /\ i <= hi
      /\ si <= j /\ lo <= j /\ j <= hi /\ (si = lo - 1 => i = lo)
  BY StoppedWhere
<1>3. /\ items[j] <= p /\ items[i] >= p
      /\ \A h \in si + 1 .. i - 1 : items[h] < p
      /\ \A h \in j + 1 .. sj - 1 : items[h] > p
  BY DEF Stopped
<1>4. /\ lo < hi /\ (\A a \in lo .. si : items[a] <= p) /\ (\A b \in sj .. hi : p <= items[b])
  BY DEF Split
<1>5. i \in lo .. hi /\ j \in lo .. hi /\ i \in 1 .. n /\ j \in 1 .. n
  BY <1>1, <1>2
<1>6. x[i] = items[j] /\ x[j] = items[i] /\ items[i] \in Nat /\ items[j] \in Nat
  BY <1>1, <1>2, <1>5 DEF Exchanged
<1>7. ASSUME NEW a \in lo .. i PROVE x[a] <= p
  <2>1. CASE a = i
    BY <2>1, <1>3, <1>6
  <2>2. CASE a # i
    <3>1. (a \in lo .. si \/ a \in si + 1 .. i - 1) /\ a \in 1 .. n /\ a # j
      BY <2>2, <1>1, <1>2
    <3>2. x[a] = items[a] /\ items[a] \in Nat
      BY <2>2, <3>1, <1>1 DEF Exchanged
    <3> QED BY <3>1, <3>2, <1>3, <1>4
  <2> QED BY <2>1, <2>2
<1>8. ASSUME NEW b \in j .. hi PROVE p <= x[b]
  <2>1. CASE b = j
    BY <2>1, <1>3, <1>6
  <2>2. CASE b # j
    <3>1. (b \in sj .. hi \/ b \in j + 1 .. sj - 1) /\ b \in 1 .. n /\ b # i
      BY <2>2, <1>1, <1>2
    <3>2. x[b] = items[b] /\ items[b] \in Nat
      BY <2>2, <3>1, <1>1 DEF Exchanged
    <3> QED BY <3>1, <3>2, <1>3, <1>4
  <2> QED BY <2>1, <2>2
<1>9. Split(x, lo, hi, i, j, p)
  <2>1. lo <= i /\ i < j /\ j <= hi /\ x[i] <= p /\ p <= x[j]
    BY <1>2, <1>3, <1>6
  <2> QED BY <2>1, <1>4, <1>7, <1>8 DEF Split
<1> QED BY <1>5, <1>9

\* Exchanging two items changes nothing about how often a value occurs.
LEMMA OccurrencesKept ==
  ASSUME NEW S, NEW items \in Seq(S), NEW x \in Seq(S), NEW n, Len(items) = n, Len(x) = n,
         NEW i \in 1 .. n, NEW j \in 1 .. n, i # j, Exchanged(items, x, n, i, j), NEW v
  PROVE  Occurrences(x, v) = Occurrences(items, v)
<1> DEFINE A == {k \in 1 .. n : items[k] = v}
           B == {k \in 1 .. n : x[k] = v}
           f == [k \in A |-> IF k = i THEN j ELSE IF k = j THEN i ELSE k]
<1>1. n \in Nat /\ DOMAIN items = 1 .. n /\ DOMAIN x = 1 .. n
  OBVIOUS
<1>2. x[i] = items[j] /\ x[j] = items[i] /\ \A k \in 1 .. n : k # i /\ k # j => x[k] = items[k]
  BY DEF Exchanged
<1>3. IsFiniteSet(A)
  <2>1. IsFiniteSet(1 .. n)
    BY <1>1, FS_Interval
  <2>2. A \in SUBSET (1 .. n)
    OBVIOUS
  <2> HIDE DEF A
  <2> QED BY <2>1, <2>2, FS_Subset
<1>4. f \in [A -> B]
  <2> SUFFICES ASSUME NEW k \in A PROVE (IF k = i THEN j ELSE IF k = j THEN i ELSE k) \in B
    OBVIOUS
  <2> QED BY <1>2
<1>5. \A a, b \in A : f[a] = f[b] => a = b
  <2> SUFFICES ASSUME NEW a \in A, NEW b \in A, f[a] = f[b] PROVE a = b
    OBVIOUS
  <2>1. f[a] = (IF a = i THEN j ELSE IF a = j THEN i ELSE a) /\ f[b] = (IF b = i THEN j ELSE IF b = j THEN i ELSE b)
    OBVIOUS
  <2> HIDE DEF A, f
  <2> QED BY <2>1
<1>6. ASSUME NEW b \in B PROVE \E a \in A : f[a] = b
  <2> DEFINE a == IF b = i THEN j ELSE IF b = j THEN i ELSE b
  <2>1. a \in A
    BY <1>2
  <2>2. f[a] = IF a = i THEN j ELSE IF a = j THEN i ELSE a
    <3> HIDE DEF a, A
    <3> QED BY <2>1
  <2>3. f[a] = b
    <3> HIDE DEF f
    <3> QED BY <2>2
  <2> HIDE DEF a, A, f
  <2> QED BY <2>1, <2>3
<1>7. f \in Bijection(A, B)
  <2> HIDE DEF A, B
  <2>1. DOMAIN f = A
    OBVIOUS
  <2> HIDE DEF f
  <2> QED BY <2>1, <1>4, <1>5, <1>6 DEF Bijection, Injection, Surjection, IsInjective
<1>8. Cardinality(A) = Cardinality(B)
  <2>1. ExistsBijection(A, B)
    <3> HIDE DEF A, B, f
    <3> QED BY <1>7 DEF ExistsBijection
  <2> HIDE DEF A, B, f
  <2> QED BY <2>1, <1>3, FS_Bijection
<1> QED BY <1>1, <1>8 DEF Occurrences

\* A range of one item is in order.
LEMMA RangeDone ==
  ASSUME NEW n \in Nat, NEW items, NEW stack, RangesOK(stack, n), Ordered(items, stack, n),
         Len(stack) # 0, stack[1].lower >= stack[1].upper
  PROVE  RangesOK(Tail(stack), n) /\ Ordered(items, Tail(stack), n)
<1> DEFINE R == [lower : Nat, upper : Nat]
           t == Tail(stack)
           m == Len(stack)
<1>1. stack \in Seq(R) /\ m \in Nat /\ m # 0 /\ 1 \in 1 .. m
  BY DEF RangesOK
<1>2. t \in Seq(R) /\ Len(t) = m - 1 /\ \A k \in 1 .. m - 1 : t[k] = stack[k + 1]
  <2> HIDE DEF R
  <2>1. stack # << >>
    BY <1>1
  <2>2. t \in Seq(R) /\ Len(t) = m - 1
    BY <1>1, <2>1, HeadTailProperties
  <2> QED BY <1>1, <2>1, <2>2
<1>3. /\ \A k \in 1 .. m : stack[k] \in R
      /\ \A k \in 1 .. m : stack[k].lower <= stack[k].upper /\ stack[k].upper < n
      /\ \A k \in 1 .. m - 1 : stack[k + 1].lower = stack[k].upper + 1
      /\ \A j, k \in 1 .. m : j < k => stack[j].upper < stack[k].lower
      /\ stack[m].upper = n - 1
  <2>1. \A k \in 1 .. m : stack[k] \in R
    <3> HIDE DEF R
    <3> QED BY <1>1
  <2> QED BY <1>1, <2>1 DEF RangesOK
<1> HIDE DEF t
<1>4. \A k \in 1 .. m - 1 : k + 1 \in 1 .. m /\ k \in 1 .. m
  <2>1. m \in Nat
    BY <1>1
  <2> HIDE DEF m
  <2> QED BY ONLY <2>1
<1>5. RangesOK(t, n)
  <2>1. \A k \in 1 .. m - 1 : t[k].lower <= t[k].upper /\ t[k].upper < n
    BY <1>2, <1>3, <1>4
  <2>2. \A k \in 1 .. (m - 1) - 1 : t[k + 1].lower = t[k].upper + 1
    <3> SUFFICES ASSUME NEW k \in 1 .. (m - 1) - 1 PROVE t[k + 1].lower = t[k].upper + 1
      OBVIOUS
    <3>1. k \in 1 .. m - 1 /\ k + 1 \in 1 .. m - 1
      BY <1>1
    <3> QED BY <3>1, <1>2, <1>3
  <2>3. \A j, k \in 1 .. m - 1 : j < k => t[j].upper < t[k].lower
    <3> SUFFICES ASSUME NEW j \in 1 .. m - 1, NEW k \in 1 .. m - 1, j < k PROVE t[j].upper < t[k].lower
      OBVIOUS
    <3>1. j + 1 \in 1 .. m /\ k + 1 \in 1 .. m /\ j + 1 < k + 1
      BY <1>4
    <3> QED BY <3>1, <1>2, <1>3
  <2>4. m - 1 # 0 => t[m - 1].upper = n - 1
    <3>1. m - 1 # 0 => m - 1 \in 1 .. m - 1 /\ (m - 1) + 1 = m
      <4> HIDE DEF m
      <4> QED BY <1>1
    <3> QED BY <3>1, <1>2, <1>3
  <2> QED BY <2>1, <2>2, <2>3, <2>4, <1>2 DEF RangesOK
<1>6. Ordered(items, t, n)
  <2>1. /\ \A k \in 1 .. m : \A a, b \in 1 .. n :
             a <= stack[k].upper + 1 /\ stack[k].upper + 1 < b => items[a] <= items[b]
        /\ \A a, b \in 1 .. n : a < b /\ a <= stack[1].lower => items[a] <= items[b]
    BY <1>1 DEF Ordered
  <2>2. \A k \in 1 .. m - 1 : \A a, b \in 1 .. n :
          a <= t[k].upper + 1 /\ t[k].upper + 1 < b => items[a] <= items[b]
    BY <2>1, <1>2, <1>4
  <2>3. ASSUME NEW a \in 1 .. n, NEW b \in 1 .. n, a < b, m - 1 # 0 => a <= t[1].lower
        PROVE  items[a] <= items[b]
    <3> DEFINE lo == stack[1].lower
               hi == stack[1].upper
    <3>1. lo \in Nat /\ hi \in Nat /\ lo = hi /\ hi < n
      BY <1>1, <1>3, SMTT(20)
    <3>2. a <= hi + 1
      <4>1. CASE m - 1 = 0
        <5>1. m = 1
          <6> HIDE DEF m
          <6> QED BY <4>1, <1>1
        <5>2. hi = n - 1
          BY <5>1, <1>3
        <5> QED BY <5>2, <3>1
      <4>2. CASE m - 1 # 0
        <5>1. 1 \in 1 .. m - 1
          <6> HIDE DEF m
          <6> QED BY <4>2, <1>1
        <5>2. t[1] = stack[1 + 1] /\ stack[1 + 1].lower = hi + 1
          BY <5>1, <1>2, <1>3
        <5> QED BY <4>2, <5>2, <2>3
      <4> QED BY <4>1, <4>2
    <3>3. CASE a <= lo
      BY <3>3, <2>1, <2>3
    <3>4. CASE a > lo
      <4>1. a <= hi + 1 /\ hi + 1 < b
        BY <3>1, <3>2, <3>4, <2>3
      <4> QED BY <4>1, <2>1, <1>1
    <3> QED BY <3>1, <3>3, <3>4
  <2> QED BY <2>2, <2>3, <1>2 DEF Ordered
<1> QED BY <1>5, <1>6 DEF t

\* An exchange inside the first range leaves in order what was.
LEMMA OrderedExchanged ==
  ASSUME NEW n \in Nat, NEW items, NEW stack, RangesOK(stack, n), Ordered(items, stack, n),
         Len(stack) # 0, NEW i, NEW j,
         i \in stack[1].lower + 1 .. stack[1].upper + 1, j \in stack[1].lower + 1 .. stack[1].upper + 1,
         NEW x, Exchanged(items, x, n, i, j)
  PROVE  Ordered(x, stack, n)
<1> DEFINE m == Len(stack)
           lo == stack[1].lower
           hi == stack[1].upper
<1>1. stack \in Seq([lower : Nat, upper : Nat]) /\ m \in Nat /\ m # 0 /\ 1 \in 1 .. m
  BY DEF RangesOK
<1>2. /\ \A k \in 1 .. m : stack[k].lower \in Nat /\ stack[k].upper \in Nat
      /\ \A k \in 1 .. m : stack[k].lower <= stack[k].upper /\ stack[k].upper < n
      /\ \A h, k \in 1 .. m : h < k => stack[h].upper < stack[k].lower
  <2>1. \A k \in 1 .. m : stack[k] \in [lower : Nat, upper : Nat]
    BY <1>1, SequenceParts
  <2> QED BY <2>1 DEF RangesOK
<1>3. lo \in Nat /\ hi \in Nat /\ lo <= hi /\ hi < n
  BY <1>1, <1>2
<1>4. i \in lo + 1 .. hi + 1 /\ j \in lo + 1 .. hi + 1
  OBVIOUS
<1>5. /\ \A k \in 1 .. m : \A a, b \in 1 .. n :
           a <= stack[k].upper + 1 /\ stack[k].upper + 1 < b => items[a] <= items[b]
      /\ \A a, b \in 1 .. n : a < b /\ a <= lo => items[a] <= items[b]
  BY <1>1 DEF Ordered
<1>6. \A k \in 1 .. m : hi <= stack[k].upper
  <2> SUFFICES ASSUME NEW k \in 1 .. m PROVE hi <= stack[k].upper
    OBVIOUS
  <2>1. CASE k = 1
    BY <2>1, <1>3
  <2>2. CASE k # 1
    <3>1. 1 < k
      BY <2>2
    <3>2. stack[1].upper < stack[k].lower /\ stack[k].lower <= stack[k].upper
      BY <3>1, <1>1, <1>2
    <3>3. stack[k].lower \in Nat /\ stack[k].upper \in Nat
      BY <1>2
    <3> QED BY <3>2, <3>3, <1>3
  <2> QED BY <2>1, <2>2
<1> HIDE DEF lo, hi
\* Where an item of x was.
<1>7. ASSUME NEW a \in 1 .. n
      PROVE  \E c \in 1 .. n : /\ x[a] = items[c] /\ (a <= lo \/ a > hi + 1 => c = a)
                               /\ (lo < a /\ a <= hi + 1 => lo < c /\ c <= hi + 1)
  <2>1. i \in 1 .. n /\ j \in 1 .. n /\ lo < i /\ i <= hi + 1 /\ lo < j /\ j <= hi + 1
    BY <1>3, <1>4
  <2>2. CASE a = j
    <3>1. x[a] = items[i]
      BY <2>2 DEF Exchanged
    <3> QED BY <2>1, <2>2, <3>1, <1>3
  <2>3. CASE a # j /\ a = i
    <3>1. x[a] = items[j]
      BY <2>3 DEF Exchanged
    <3> QED BY <2>1, <2>3, <3>1, <1>3
  <2>4. CASE a # j /\ a # i
    <3>1. x[a] = items[a]
      BY <2>4 DEF Exchanged
    <3> QED BY <3>1
  <2> QED BY <2>2, <2>3, <2>4
<1>8. ASSUME NEW k \in 1 .. m, NEW a \in 1 .. n, NEW b \in 1 .. n,
             a <= stack[k].upper + 1, stack[k].upper + 1 < b
      PROVE  x[a] <= x[b]
  <2> DEFINE u == stack[k].upper
  <2>1. u \in Nat /\ hi <= u
    BY <1>2, <1>6
  <2>2. PICK c \in 1 .. n : /\ x[a] = items[c] /\ (a <= lo \/ a > hi + 1 => c = a)
                            /\ (lo < a /\ a <= hi + 1 => lo < c /\ c <= hi + 1)
    BY <1>7
  <2>3. PICK d \in 1 .. n : /\ x[b] = items[d] /\ (b <= lo \/ b > hi + 1 => d = b)
    BY <1>7
  <2>4. d = b
    BY <2>1, <2>3, <1>3, <1>8
  <2>5. c <= u + 1
    BY <2>1, <2>2, <1>3, <1>8
  <2> QED BY <2>2, <2>3, <2>4, <2>5, <1>5, <1>8
<1>9. ASSUME NEW a \in 1 .. n, NEW b \in 1 .. n, a < b, a <= lo PROVE x[a] <= x[b]
  <2>2. PICK c \in 1 .. n : x[a] = items[c] /\ (a <= lo \/ a > hi + 1 => c = a)
    BY <1>7
  <2>3. PICK d \in 1 .. n : /\ x[b] = items[d] /\ (b <= lo \/ b > hi + 1 => d = b)
                            /\ (lo < b /\ b <= hi + 1 => lo < d /\ d <= hi + 1)
    BY <1>7
  <2>4. c = a
    BY <2>2, <1>9
  <2>5. a < d
    <3>1. b <= lo \/ b > hi + 1 \/ (lo < b /\ b <= hi + 1)
      BY <1>3
    <3> QED BY <3>1, <2>3, <1>3, <1>9
  <2> QED BY <2>2, <2>3, <2>4, <2>5, <1>5, <1>9
<1> QED BY <1>1, <1>8, <1>9 DEF Ordered, lo

\* t has the first range of the stack divided after position e.
Divided(stack, t, e) ==
  /\ Len(t) = Len(stack) + 1
  /\ t[1] = [lower |-> stack[1].lower, upper |-> e]
  /\ t[2] = [lower |-> e + 1, upper |-> stack[1].upper]
  /\ \A k \in 2 .. Len(stack) : t[k + 1] = stack[k]

\* The stack after the first range was divided.
DividedStack(stack, e) ==
  <<[lower |-> stack[1].lower, upper |-> e], [lower |-> e + 1, upper |-> stack[1].upper]>> \o Tail(stack)

\* Two ranges in the place of the first one.
LEMMA StackDivided ==
  ASSUME NEW R, NEW stack \in Seq(R), Len(stack) # 0, NEW e,
         [lower |-> stack[1].lower, upper |-> e] \in R, [lower |-> e + 1, upper |-> stack[1].upper] \in R
  PROVE  DividedStack(stack, e) \in Seq(R) /\ Divided(stack, DividedStack(stack, e), e)
<1> DEFINE m == Len(stack)
           x == [lower |-> stack[1].lower, upper |-> e]
           y == [lower |-> e + 1, upper |-> stack[1].upper]
           u == <<x, y>>
           w == Tail(stack)
           t == u \o w
<1>1. m \in Nat /\ m # 0 /\ stack # << >>
  OBVIOUS
<1>2. w \in Seq(R) /\ Len(w) = m - 1 /\ \A k \in 1 .. m - 1 : w[k] = stack[k + 1]
  <2>1. w \in Seq(R) /\ Len(w) = m - 1
    BY <1>1, HeadTailProperties
  <2> QED BY <2>1, <1>1
<1>3. x \in R /\ y \in R
  OBVIOUS
<1> HIDE DEF x, y, w
<1>4. u \in Seq(R) /\ Len(u) = 2 /\ u[1] = x /\ u[2] = y
  BY <1>3
<1> HIDE DEF u
<1>5. /\ t \in Seq(R) /\ Len(t) = 2 + (m - 1)
      /\ \A k \in 1 .. 2 + (m - 1) : t[k] = IF k <= 2 THEN u[k] ELSE w[k - 2]
  <2>1. /\ t \in Seq(R) /\ Len(t) = Len(u) + Len(w)
        /\ \A k \in 1 .. Len(u) + Len(w) : t[k] = IF k <= Len(u) THEN u[k] ELSE w[k - Len(u)]
    BY <1>2, <1>4, ConcatProperties
  <2>2. Len(u) = 2 /\ Len(w) = m - 1
    BY <1>2, <1>4
  <2> HIDE DEF t, m
  <2> QED BY <2>1, <2>2
<1> HIDE DEF t
<1>6. Len(t) = m + 1 /\ t[1] = x /\ t[2] = y
  <2>1. 1 \in 1 .. 2 + (m - 1) /\ 2 \in 1 .. 2 + (m - 1) /\ 2 + (m - 1) = m + 1
    BY <1>1
  <2>2. t[1] = u[1] /\ t[2] = u[2]
    BY <2>1, <1>5
  <2> QED BY <2>1, <2>2, <1>4, <1>5
<1>7. ASSUME NEW k \in 2 .. m PROVE t[k + 1] = stack[k]
  <2>1. k + 1 \in 1 .. 2 + (m - 1) /\ ~(k + 1 <= 2) /\ (k + 1) - 2 = k - 1 /\ k - 1 \in 1 .. m - 1 /\ (k - 1) + 1 = k
    BY <1>1
  <2>2. t[k + 1] = w[k - 1]
    BY <2>1, <1>5
  <2>3. w[k - 1] = stack[(k - 1) + 1]
    BY <2>1, <1>2
  <2> QED BY <2>1, <2>2, <2>3
<1>8. Divided(stack, t, e)
  BY <1>6, <1>7 DEF Divided, x, y
<1>9. DividedStack(stack, e) = t
  BY DEF DividedStack, t, u, x, y, w
<1> QED BY <1>5, <1>8, <1>9

\* The two recursive calls: both ranges are apart from each other and from the
\* rest.
LEMMA RangeDivided ==
  ASSUME NEW n \in Nat, NEW items, NumbersIn(items, n), NEW stack, RangesOK(stack, n), Ordered(items, stack, n),
         Len(stack) # 0, NEW p \in Nat, NEW e \in Nat, stack[1].lower <= e, e < stack[1].upper,
         \A a \in stack[1].lower + 1 .. e + 1 : items[a] <= p,
         \A b \in e + 2 .. stack[1].upper + 1 : p <= items[b],
         NEW t, t \in Seq([lower : Nat, upper : Nat]), Divided(stack, t, e)
  PROVE  RangesOK(t, n) /\ Ordered(items, t, n)
<1> DEFINE m == Len(stack)
           lo == stack[1].lower
           hi == stack[1].upper
<1>1. stack \in Seq([lower : Nat, upper : Nat]) /\ m \in Nat /\ m # 0 /\ 1 \in 1 .. m
  BY DEF RangesOK
<1>2. /\ \A k \in 1 .. m : stack[k].lower \in Nat /\ stack[k].upper \in Nat
      /\ \A k \in 1 .. m : stack[k].lower <= stack[k].upper /\ stack[k].upper < n
      /\ \A k \in 1 .. m - 1 : stack[k + 1].lower = stack[k].upper + 1
      /\ \A h, k \in 1 .. m : h < k => stack[h].upper < stack[k].lower
      /\ stack[m].upper = n - 1
  <2>1. \A k \in 1 .. m : stack[k] \in [lower : Nat, upper : Nat]
    BY <1>1, SequenceParts
  <2> QED BY <1>1, <2>1 DEF RangesOK
<1>3. lo \in Nat /\ hi \in Nat /\ lo <= e /\ e < hi /\ hi < n
  BY <1>1, <1>2
<1>4. /\ Len(t) = m + 1
      /\ t[1].lower = lo /\ t[1].upper = e /\ t[2].lower = e + 1 /\ t[2].upper = hi
      /\ \A k \in 2 .. m : t[k + 1] = stack[k]
  BY DEF Divided
<1>5. /\ \A k \in 1 .. m : \A a, b \in 1 .. n :
           a <= stack[k].upper + 1 /\ stack[k].upper + 1 < b => items[a] <= items[b]
      /\ \A a, b \in 1 .. n : a < b /\ a <= lo => items[a] <= items[b]
  BY <1>1 DEF Ordered
<1>6. /\ \A a \in lo + 1 .. e + 1 : items[a] <= p
      /\ \A b \in e + 2 .. hi + 1 : p <= items[b]
  OBVIOUS
<1> HIDE DEF lo, hi, m
<1>7. \A k \in 1 .. m + 1 : k = 1 \/ k = 2 \/ (k - 1 \in 2 .. m /\ t[k] = stack[k - 1])
  <2> SUFFICES ASSUME NEW k \in 1 .. m + 1, k # 1, k # 2 PROVE k - 1 \in 2 .. m /\ t[k] = stack[k - 1]
    OBVIOUS
  <2>1. k - 1 \in 2 .. m /\ (k - 1) + 1 = k
    BY <1>1
  <2> QED BY <2>1, <1>4
<1>8. \A k \in 2 .. m : k \in 1 .. m /\ 1 < k
  OBVIOUS
<1>9. RangesOK(t, n)
  <2>1. ASSUME NEW k \in 1 .. m + 1 PROVE t[k].lower <= t[k].upper /\ t[k].upper < n
    <3>1. CASE k = 1
      BY <3>1, <1>3, <1>4
    <3>2. CASE k = 2
      BY <3>2, <1>3, <1>4
    <3>3. CASE k - 1 \in 2 .. m /\ t[k] = stack[k - 1]
      BY <3>3, <1>2, <1>8
    <3> QED BY <3>1, <3>2, <3>3, <1>7
  <2>2. ASSUME NEW k \in 1 .. m PROVE t[k + 1].lower = t[k].upper + 1
    <3>1. CASE k = 1
      BY <3>1, <1>4
    <3>2. CASE k = 2
      <4>1. 2 \in 2 .. m /\ 1 \in 1 .. m - 1
        BY <3>2, <1>1
      <4>2. t[2 + 1] = stack[2] /\ stack[1 + 1].lower = hi + 1
        BY <4>1, <1>2, <1>4 DEF hi
      <4> QED BY <3>2, <4>2, <1>4
    <3>3. CASE k # 1 /\ k # 2
      <4>1. k \in 2 .. m /\ k - 1 \in 2 .. m /\ (k - 1) + 1 = k /\ k - 1 \in 1 .. m - 1
        BY <3>3, <1>1
      <4>2. t[k + 1] = stack[k] /\ t[(k - 1) + 1] = stack[k - 1] /\ stack[(k - 1) + 1].lower = stack[k - 1].upper + 1
        BY <4>1, <1>2, <1>4
      <4> QED BY <4>1, <4>2
    <3> QED BY <3>1, <3>2, <3>3
  <2>3. ASSUME NEW h \in 1 .. m + 1, NEW k \in 1 .. m + 1, h < k PROVE t[h].upper < t[k].lower
    <3>1. k # 1
      BY <2>3
    <3>2. CASE k = 2
      <4>1. h = 1
        BY <2>3, <3>2
      <4> QED BY <3>2, <4>1, <1>3, <1>4
    <3>3. CASE k - 1 \in 2 .. m /\ t[k] = stack[k - 1]
      <4>1. k - 1 \in 1 .. m /\ 1 < k - 1 /\ stack[k - 1].lower \in Nat
        BY <3>3, <1>2, <1>8
      <4>2. hi < stack[k - 1].lower
        BY <4>1, <1>1, <1>2 DEF hi
      <4>3. CASE h = 1
        <5> DEFINE z == stack[k - 1].lower
        <5>1. z \in Nat /\ hi < z
          BY <4>1, <4>2
        <5> HIDE DEF z
        <5>2. e < z
          BY <5>1, <1>3
        <5> QED BY <5>2, <3>3, <4>3, <1>4 DEF z
      <4>4. CASE h = 2
        BY <3>3, <4>2, <4>4, <1>4
      <4>5. CASE h - 1 \in 2 .. m /\ t[h] = stack[h - 1]
        <5>1. h - 1 \in 1 .. m /\ h - 1 < k - 1
          BY <2>3, <4>5, <1>8
        <5>2. stack[h - 1].upper < stack[k - 1].lower
          BY <5>1, <4>1, <1>2
        <5> QED BY <5>2, <3>3, <4>5
      <4> QED BY <4>3, <4>4, <4>5, <1>7
    <3> QED BY <3>1, <3>2, <3>3, <1>7
  <2>4. t[m + 1].upper = n - 1
    <3>1. CASE m = 1
      BY <3>1, <1>2, <1>4 DEF hi
    <3>2. CASE m # 1
      <4>1. m \in 2 .. m
        BY <3>2, <1>1
      <4> QED BY <4>1, <1>2, <1>4
    <3> QED BY <3>1, <3>2
  <2>5. Len(t) - 1 = m
    BY <1>1, <1>4
  <2> QED BY <2>1, <2>2, <2>3, <2>4, <2>5, <1>4 DEF RangesOK
<1>10. ASSUME NEW k \in 1 .. m + 1, NEW a \in 1 .. n, NEW b \in 1 .. n,
              a <= t[k].upper + 1, t[k].upper + 1 < b
       PROVE  items[a] <= items[b]
  <2>1. CASE k = 1
    <3>1. a <= e + 1 /\ e + 1 < b
      BY <2>1, <1>4, <1>10
    <3>2. CASE a <= lo
      BY <3>1, <3>2, <1>3, <1>5
    <3>3. CASE b > hi + 1
      <4>1. a <= hi + 1
        BY <3>1, <1>3
      <4> QED BY <4>1, <3>3, <1>1, <1>3, <1>5 DEF hi
    <3>4. CASE a > lo /\ b <= hi + 1
      <4>1. a \in lo + 1 .. e + 1 /\ b \in e + 2 .. hi + 1
        BY <3>1, <3>4, <1>3
      <4>2. items[a] <= p /\ p <= items[b] /\ items[a] \in Nat /\ items[b] \in Nat
        BY <4>1, <1>6 DEF NumbersIn
      <4> QED BY <4>2
    <3> QED BY <3>2, <3>3, <3>4, <1>3
  <2>2. CASE k = 2
    <3>1. a <= hi + 1 /\ hi + 1 < b
      BY <2>2, <1>4, <1>10
    <3> QED BY <3>1, <1>1, <1>5 DEF hi
  <2>3. CASE k - 1 \in 2 .. m /\ t[k] = stack[k - 1]
    <3>1. k - 1 \in 1 .. m /\ a <= stack[k - 1].upper + 1 /\ stack[k - 1].upper + 1 < b
      BY <2>3, <1>8, <1>10
    <3> QED BY <3>1, <1>5
  <2> QED BY <2>1, <2>2, <2>3, <1>7
<1>11. ASSUME NEW a \in 1 .. n, NEW b \in 1 .. n, a < b, a <= t[1].lower PROVE items[a] <= items[b]
  BY <1>4, <1>5, <1>11
<1>12. m + 1 # 0
  BY <1>1
<1> QED BY <1>4, <1>9, <1>10, <1>11, <1>12 DEF Ordered

\* Types of a sort.
SortStates == [items : Seq(Values), stack : Seq([lower : Nat, upper : Nat]), i : Int, j : Int,
               pivot : Nat, pc : {"idle", "range", "partition"}]

\* What a sort under way has done so far to a copy of the values s.
Sorting(q, s) ==
  /\ Len(q.items) = Len(s) /\ \A v \in Values : Occurrences(q.items, v) = Occurrences(s, v)
  /\ RangesOK(q.stack, Len(s)) /\ Ordered(q.items, q.stack, Len(s))
  /\ q.pc = "partition" =>
       /\ Len(q.stack) # 0
       /\ Split(q.items, q.stack[1].lower + 1, q.stack[1].upper + 1, q.i + 1, q.j + 1, q.pivot)

\* The inductive invariant of the list and its sort.
ListInv ==
  /\ ListReads(linked, mirror)
  /\ sort \in SortStates /\ (sort.pc # "idle" => Sorting(sort, mirror))

\* The types of a sort and of its first range.
LEMMA SortParts ==
  ASSUME NEW q \in SortStates, NEW s, Sorting(q, s)
  PROVE  /\ Len(s) \in Nat /\ NumbersIn(q.items, Len(s)) /\ q.items \in Seq(Values)
         /\ q.i \in Int /\ q.j \in Int /\ q.pivot \in Nat
         /\ q.stack \in Seq([lower : Nat, upper : Nat])
         /\ Len(q.stack) # 0 => /\ Head(q.stack) = q.stack[1] /\ q.stack # << >>
                                /\ q.stack[1].lower \in Nat /\ q.stack[1].upper \in Nat
                                /\ q.stack[1].lower <= q.stack[1].upper /\ q.stack[1].upper < Len(s)
         /\ Len(q.stack) = 0 => q.stack = << >>
<1>1. /\ q.items \in Seq(Values) /\ q.i \in Int /\ q.j \in Int /\ q.pivot \in Nat
      /\ q.stack \in Seq([lower : Nat, upper : Nat])
  BY DEF SortStates
<1>2. Len(q.items) = Len(s) /\ RangesOK(q.stack, Len(s))
  BY DEF Sorting
<1>3. Len(s) \in Nat /\ NumbersIn(q.items, Len(s))
  <2>1. Values \subseteq Nat
    BY LinkedListAssumption
  <2>2. Len(q.items) \in Nat /\ \A k \in 1 .. Len(q.items) : q.items[k] \in Values
    BY <1>1, SequenceParts
  <2> QED BY <2>1, <2>2, <1>2 DEF NumbersIn
<1>4. ASSUME Len(q.stack) # 0
      PROVE  /\ Head(q.stack) = q.stack[1] /\ q.stack # << >>
             /\ q.stack[1].lower \in Nat /\ q.stack[1].upper \in Nat
             /\ q.stack[1].lower <= q.stack[1].upper /\ q.stack[1].upper < Len(s)
  <2> DEFINE R == [lower : Nat, upper : Nat]
             t == q.stack
  <2>1. t \in Seq(R) /\ Len(t) # 0
    BY <1>1, <1>4
  <2>2. Len(t) \in Nat /\ \A k \in 1 .. Len(t) : t[k] \in R
    <3> HIDE DEF t, R
    <3> QED BY <2>1, SequenceParts
  <2>3. 1 \in 1 .. Len(t)
    BY <2>1, <2>2
  <2>4. t[1] \in R
    BY <2>2, <2>3
  <2>5. Head(t) = t[1] /\ t # << >>
    <3> HIDE DEF t, R
    <3> QED BY <2>1
  <2> QED BY <2>3, <2>4, <2>5, <1>2 DEF RangesOK
<1>5. Len(q.stack) = 0 => q.stack = << >>
  BY <1>1, EmptySeq
<1> QED BY <1>1, <1>3, <1>4, <1>5

\* create_list makes an empty list.
LEMMA ListInitially == ListInit => ListInv
<1> SUFFICES ASSUME ListInit PROVE ListInv
  OBVIOUS
<1>1. linked = create_list /\ mirror = << >> /\ sort = NoSort
  BY DEF ListInit
<1> DEFINE e == << >>
<1>2. e \in Seq(ListNodes) /\ e \in Seq(1 .. 0) /\ e \in Seq(Values) /\ Len(e) = 0
  OBVIOUS
<1>3. linked.node = e /\ linked.head = 0 /\ linked.tail = 0 /\ linked.size = 0
  BY <1>1 DEF create_list
<1> HIDE DEF e
<1>4. Orderly(e, 0) /\ LinksLead(linked.node, e) /\ EndsAre(0, 0, e)
  BY <1>2 DEF Orderly, LinksLead, EndsAre
<1>5. NodesOK(linked, e)
  BY <1>2, <1>3, <1>4 DEF NodesOK
<1>6. ValuesAre(linked, e, e)
  BY <1>2 DEF ValuesAre
<1>7. ListReads(linked, mirror)
  BY <1>1, <1>5, <1>6 DEF ListReads, e
<1>8. sort \in SortStates /\ sort.pc = "idle"
  BY <1>1 DEF NoSort, SortStates
<1> QED BY <1>7, <1>8 DEF ListInv

\* copy_list_sorted: the array has the values of the list.
LEMMA SortBeginStep == ListInv /\ SortBegin => ListInv'
<1> SUFFICES ASSUME ListInv, SortBegin PROVE ListInv'
  OBVIOUS
<1>1. PICK c : NodesOK(linked, c) /\ ValuesAre(linked, c, mirror)
  BY DEF ListInv, ListReads
<1> DEFINE n == Len(mirror)
           x == [k \in DOMAIN c |-> linked.node[c[k]].value]
           r == [lower |-> 0, upper |-> linked.size - 1]
           t == <<r>>
<1>2. /\ mirror \in Seq(Values) /\ Len(c) = n /\ linked.size = n /\ n \in Nat /\ n > 0
      /\ \A k \in 1 .. n : linked.node[c[k]].value = mirror[k]
  <2>1. /\ mirror \in Seq(Values) /\ Len(c) = n /\ linked.size = n
        /\ \A k \in 1 .. n : linked.node[c[k]].value = mirror[k]
    BY <1>1 DEF ValuesAre, NodesOK
  <2>2. n \in Nat
    BY <2>1
  <2>3. linked.size > 0
    BY DEF SortBegin
  <2> QED BY <2>1, <2>2, <2>3
<1>3. DOMAIN c = 1 .. n
  <2>1. c \in Seq(1 .. Len(linked.node))
    BY <1>1, NodesParts
  <2> QED BY <2>1, <1>2
<1>4. x = mirror
  <2>1. mirror = [k \in 1 .. n |-> mirror[k]]
    BY <1>2, SequenceParts
  <2> QED BY <2>1, <1>2, <1>3
<1>5. /\ sort' = [NoSort EXCEPT !.items = x, !.stack = t, !.pc = "range"]
      /\ linked' = linked /\ mirror' = mirror
  <2>1. Chain(linked, linked.head, "next") = c
    BY <1>1, ChainIs
  <2> QED BY <2>1 DEF SortBegin
<1>6. t \in Seq([lower : Nat, upper : Nat]) /\ Len(t) = 1 /\ t[1] = r /\ r.lower = 0 /\ r.upper = n - 1
  <2>1. r \in [lower : Nat, upper : Nat] /\ r.lower = 0 /\ r.upper = n - 1
    BY <1>2
  <2> HIDE DEF r
  <2> QED BY <2>1
<1> HIDE DEF t, x, r
<1>7. /\ sort' \in SortStates /\ sort'.pc = "range" /\ sort'.items = mirror /\ sort'.stack = t
  <2>1. sort' = [items |-> x, stack |-> t, i |-> 0, j |-> 0, pivot |-> 0, pc |-> "range"]
    BY <1>5 DEF NoSort
  <2> QED BY <2>1, <1>2, <1>4, <1>6 DEF SortStates
<1>8. RangesOK(t, n)
  <2>1. \A k \in 1 .. Len(t) : k = 1
    BY <1>6
  <2>2. 1 .. Len(t) - 1 = {}
    BY <1>6
  <2> QED BY <2>1, <2>2, <1>2, <1>6 DEF RangesOK
<1>9. Ordered(mirror, t, n)
  <2>1. \A k \in 1 .. Len(t) : k = 1
    BY <1>6
  <2>2. \A b \in 1 .. n : ~(t[1].upper + 1 < b)
    BY <1>2, <1>6
  <2>3. \A a \in 1 .. n : ~(a <= t[1].lower)
    BY <1>6
  <2> QED BY <2>1, <2>2, <2>3, <1>6 DEF Ordered
<1>10. Sorting(sort', mirror)
  BY <1>7, <1>8, <1>9 DEF Sorting
<1> QED BY <1>5, <1>7, <1>10 DEF ListInv

\* A range of one item is done; a longer one is partitioned.
LEMMA SortRangeStep == ListInv /\ SortRange => ListInv'
<1> SUFFICES ASSUME ListInv, SortRange PROVE ListInv'
  OBVIOUS
<1> DEFINE n == Len(mirror)
           lo == sort.stack[1].lower
           hi == sort.stack[1].upper
<1>1. sort \in SortStates /\ sort.pc = "range" /\ Sorting(sort, mirror) /\ ListReads(linked, mirror)
  BY DEF ListInv, SortRange
<1>2. sort.stack # << >> /\ linked' = linked /\ mirror' = mirror
  BY DEF SortRange
<1>3. /\ n \in Nat /\ NumbersIn(sort.items, n) /\ sort.items \in Seq(Values)
      /\ sort.stack \in Seq([lower : Nat, upper : Nat]) /\ Len(sort.stack) # 0
      /\ Head(sort.stack) = sort.stack[1] /\ lo \in Nat /\ hi \in Nat /\ lo <= hi /\ hi < n
  BY <1>1, <1>2, SortParts
<1>4. /\ Len(sort.items) = n /\ \A v \in Values : Occurrences(sort.items, v) = Occurrences(mirror, v)
      /\ RangesOK(sort.stack, n) /\ Ordered(sort.items, sort.stack, n)
  BY <1>1 DEF Sorting
<1>5. sort' = IF lo >= hi THEN [sort EXCEPT !.stack = Tail(@)]
              ELSE [sort EXCEPT !.pivot = sort.items[lo + 1], !.i = lo - 1, !.j = hi + 1, !.pc = "partition"]
  BY <1>3 DEF SortRange, CurrentRange, At
<1>6. CASE lo >= hi
  <2> DEFINE t == Tail(sort.stack)
  <2>1. RangesOK(t, n) /\ Ordered(sort.items, t, n)
    BY <1>3, <1>4, <1>6, RangeDone
  <2>2. t \in Seq([lower : Nat, upper : Nat])
    BY <2>1 DEF RangesOK
  <2>3. sort' = [sort EXCEPT !.stack = t]
    BY <1>5, <1>6
  <2> HIDE DEF t
  <2>4. sort' \in SortStates /\ sort'.pc = "range" /\ sort'.items = sort.items /\ sort'.stack = t
    BY <1>1, <2>2, <2>3 DEF SortStates
  <2>5. Sorting(sort', mirror)
    BY <2>1, <2>4, <1>4 DEF Sorting
  <2> QED BY <2>4, <2>5, <1>1, <1>2 DEF ListInv
<1>7. CASE ~(lo >= hi)
  <2> DEFINE p == sort.items[lo + 1]
  <2>1. lo < hi /\ lo + 1 \in 1 .. n
    <3>1. lo \in Nat /\ hi \in Nat /\ n \in Nat /\ hi < n
      BY <1>3
    <3> HIDE DEF lo, hi, n
    <3> QED BY <3>1, <1>7
  <2>2. p \in Nat
    BY <2>1, <1>3 DEF NumbersIn
  <2> DEFINE a == lo - 1
             b == hi + 1
  <2>3. a \in Int /\ b \in Int
    BY <1>3
  <2>4. sort' = [sort EXCEPT !.pivot = p, !.i = a, !.j = b, !.pc = "partition"]
    BY <1>5, <1>7
  <2> HIDE DEF p, a, b
  <2>5. /\ sort' \in SortStates /\ sort'.pc = "partition" /\ sort'.items = sort.items /\ sort'.stack = sort.stack
        /\ sort'.i = a /\ sort'.j = b /\ sort'.pivot = p
    BY <1>1, <2>2, <2>3, <2>4 DEF SortStates
  <2>6. Split(sort.items, lo + 1, hi + 1, a + 1, b + 1, p)
    <3>0. lo \in Nat /\ hi \in Nat /\ lo < hi /\ a = lo - 1 /\ b = hi + 1
      BY <2>1, <1>3 DEF a, b
    <3>1. lo + 1 < hi + 1 /\ a + 1 = (lo + 1) - 1 /\ b + 1 = (hi + 1) + 1
      <4> HIDE DEF lo, hi
      <4> QED BY <3>0
    <3>2. lo + 1 .. a + 1 = {} /\ b + 1 .. hi + 1 = {}
      <4> HIDE DEF lo, hi
      <4> QED BY <3>0
    <3>3. sort.items[lo + 1] = p
      BY DEF p
    <3> QED BY <3>1, <3>2, <3>3 DEF Split
  <2>7. Sorting(sort', mirror)
    BY <2>5, <2>6, <1>3, <1>4 DEF Sorting
  <2> QED BY <2>5, <2>7, <1>1, <1>2 DEF ListInv
<1> QED BY <1>6, <1>7

\* A round of the partition exchanges two items or ends with two ranges.
LEMMA SortPartitionStep == ListInv /\ SortPartition => ListInv'
<1> SUFFICES ASSUME ListInv, SortPartition PROVE ListInv'
  OBVIOUS
<1> DEFINE n == Len(mirror)
           s == sort.items
           p == sort.pivot
           lo == sort.stack[1].lower
           hi == sort.stack[1].upper
           i == FirstFrom(sort.i)
           j == LastBefore(sort.j)
<1>1. /\ sort \in SortStates /\ sort.pc = "partition" /\ Sorting(sort, mirror) /\ ListReads(linked, mirror)
      /\ linked' = linked /\ mirror' = mirror
  BY DEF ListInv, SortPartition
<1>2. /\ Len(s) = n /\ (\A v \in Values : Occurrences(s, v) = Occurrences(mirror, v))
      /\ RangesOK(sort.stack, n) /\ Ordered(s, sort.stack, n)
      /\ Len(sort.stack) # 0 /\ Split(s, lo + 1, hi + 1, sort.i + 1, sort.j + 1, p)
  BY <1>1 DEF Sorting
<1>3. /\ n \in Nat /\ NumbersIn(s, n) /\ s \in Seq(Values) /\ sort.i \in Int /\ sort.j \in Int /\ p \in Nat
      /\ sort.stack \in Seq([lower : Nat, upper : Nat])
      /\ Head(sort.stack) = sort.stack[1] /\ lo \in Nat /\ hi \in Nat /\ lo <= hi /\ hi < n
  BY <1>1, <1>2, SortParts
<1>4. lo + 1 \in 1 .. n /\ hi + 1 \in 1 .. n /\ sort.i + 1 \in Int /\ sort.j + 1 \in Int
  <2>1. lo \in Nat /\ hi \in Nat /\ n \in Nat /\ lo <= hi /\ hi < n /\ sort.i \in Int /\ sort.j \in Int
    BY <1>3
  <2> HIDE DEF lo, hi, n
  <2> QED BY <2>1
<1>5. /\ \E k \in (sort.i + 1) + 1 .. n : s[k] >= p /\ \A h \in (sort.i + 1) + 1 .. k - 1 : s[h] < p
      /\ \E k \in 1 .. (sort.j + 1) - 1 : s[k] <= p /\ \A h \in k + 1 .. (sort.j + 1) - 1 : s[h] > p
  BY <1>2, <1>3, <1>4, LoopsStop
<1>6. i \in sort.i + 1 .. n - 1 /\ s[i + 1] >= p /\ \A h \in sort.i + 1 .. i - 1 : s[h + 1] < p
  <2> DEFINE P(k) == s[k + 1] >= p /\ \A h \in sort.i + 1 .. k - 1 : s[h + 1] < p
             K == sort.i + 1 .. n - 1
  <2>1. i = CHOOSE k \in K : P(k)
    BY <1>2, Zenon DEF FirstFrom, At
  <2>2. PICK k \in (sort.i + 1) + 1 .. n : s[k] >= p /\ \A h \in (sort.i + 1) + 1 .. k - 1 : s[h] < p
    BY <1>5
  <2>x. sort.i \in Int /\ n \in Nat /\ k \in (sort.i + 1) + 1 .. n
    BY <1>3, <2>2
  <2>3. k - 1 \in K /\ (k - 1) + 1 = k
    <3> HIDE DEF n
    <3> QED BY ONLY <2>x
  <2>4. ASSUME NEW h \in sort.i + 1 .. (k - 1) - 1 PROVE s[h + 1] < p
    <3>0. h \in sort.i + 1 .. (k - 1) - 1
      OBVIOUS
    <3>1. h + 1 \in (sort.i + 1) + 1 .. k - 1
      <4> HIDE DEF n
      <4> QED BY ONLY <2>x, <3>0
    <3> QED BY <3>1, <2>2
  <2>5. P(k - 1)
    BY <2>2, <2>3, <2>4
  <2>6. i \in K /\ P(i)
    <3> HIDE DEF P, K, i
    <3> QED BY <2>1, <2>3, <2>5
  <2> QED BY <2>6
<1>7. j \in 0 .. sort.j - 1 /\ s[j + 1] <= p /\ \A h \in j + 1 .. sort.j - 1 : s[h + 1] > p
  <2> DEFINE P(k) == s[k + 1] <= p /\ \A h \in k + 1 .. sort.j - 1 : s[h + 1] > p
             K == 0 .. sort.j - 1
  <2>1. j = CHOOSE k \in K : P(k)
    BY Zenon DEF LastBefore, At
  <2>2. PICK k \in 1 .. (sort.j + 1) - 1 : s[k] <= p /\ \A h \in k + 1 .. (sort.j + 1) - 1 : s[h] > p
    BY <1>5
  <2>x. sort.j \in Int /\ k \in 1 .. (sort.j + 1) - 1
    BY <1>3, <2>2
  <2>3. k - 1 \in K /\ (k - 1) + 1 = k
    BY ONLY <2>x
  <2>4. ASSUME NEW h \in (k - 1) + 1 .. sort.j - 1 PROVE s[h + 1] > p
    <3>0. h \in (k - 1) + 1 .. sort.j - 1
      OBVIOUS
    <3>1. h + 1 \in k + 1 .. (sort.j + 1) - 1
      BY ONLY <2>x, <3>0
    <3> QED BY <3>1, <2>2
  <2>5. P(k - 1)
    BY <2>2, <2>3, <2>4
  <2>6. j \in K /\ P(j)
    <3> HIDE DEF P, K, j
    <3> QED BY <2>1, <2>3, <2>5
  <2> QED BY <2>6
<1>8. sort' = IF i >= j
              THEN [sort EXCEPT !.pc = "range", !.stack = DividedStack(sort.stack, j)]
              ELSE [sort EXCEPT !.items = [s EXCEPT ![i + 1] = s[j + 1], ![j + 1] = s[i + 1]],
                                !.i = i, !.j = j]
  BY <1>3 DEF SortPartition, CurrentRange, At, DividedStack
<1> HIDE DEF i, j
<1>9. Stopped(s, n, sort.i + 1, sort.j + 1, p, i + 1, j + 1)
  <2>1. i + 1 \in (sort.i + 1) + 1 .. n /\ j + 1 \in 1 .. (sort.j + 1) - 1
    <3>1. /\ n \in Nat /\ sort.i \in Int /\ sort.j \in Int
          /\ i \in sort.i + 1 .. n - 1 /\ j \in 0 .. sort.j - 1
      BY <1>3, <1>6, <1>7
    <3> HIDE DEF n
    <3> QED BY <3>1
  <2>2. ASSUME NEW h \in (sort.i + 1) + 1 .. (i + 1) - 1 PROVE s[h] < p
    <3>1. h - 1 \in sort.i + 1 .. i - 1 /\ (h - 1) + 1 = h
      <4>1. sort.i \in Int /\ i \in Int /\ h \in (sort.i + 1) + 1 .. (i + 1) - 1
        BY <2>1, <1>3, <1>6
      <4> QED BY ONLY <4>1
    <3>2. s[(h - 1) + 1] < p
      BY <3>1, <1>6
    <3> QED BY <3>1, <3>2
  <2>3. ASSUME NEW h \in (j + 1) + 1 .. (sort.j + 1) - 1 PROVE s[h] > p
    <3>1. h - 1 \in j + 1 .. sort.j - 1 /\ (h - 1) + 1 = h
      <4>1. sort.j \in Int /\ j \in Int /\ h \in (j + 1) + 1 .. (sort.j + 1) - 1
        BY <2>1, <1>3, <1>7
      <4> QED BY ONLY <4>1
    <3>2. s[(h - 1) + 1] > p
      BY <3>1, <1>7
    <3> QED BY <3>1, <3>2
  <2> QED BY <2>1, <2>2, <2>3, <1>6, <1>7 DEF Stopped
<1>10. i \in Int /\ j \in Nat
  BY <1>3, <1>6, <1>7
<1>11. CASE i >= j
  <2> DEFINE t == DividedStack(sort.stack, j)
  <2>1. /\ j + 1 \in lo + 1 .. (hi + 1) - 1
        /\ \A a \in lo + 1 .. j + 1 : s[a] <= p
        /\ \A b \in (j + 1) + 1 .. hi + 1 : p <= s[b]
    <3> DEFINE L == lo + 1
               H == hi + 1
               A == sort.i + 1
               B == sort.j + 1
               I == i + 1
               J == j + 1
    <3>1. I >= J
      BY <1>10, <1>11
    <3>2. L \in 1 .. n /\ H \in 1 .. n /\ A \in Int /\ B \in Int /\ Split(s, L, H, A, B, p)
          /\ Stopped(s, n, A, B, p, I, J) /\ NumbersIn(s, n) /\ p \in Nat
      BY <1>2, <1>3, <1>4, <1>9
    <3> HIDE DEF L, H, A, B, I, J, s, p, n
    <3>3. /\ J \in L .. H - 1
          /\ \A a \in L .. J : s[a] <= p
          /\ \A b \in J + 1 .. H : p <= s[b]
      BY <3>1, <3>2, LoopsMeet
    <3> QED BY <3>3 DEF L, H, J
  <2>2. lo <= j /\ j < hi /\ \A b \in j + 2 .. hi + 1 : p <= s[b]
    <3>0. lo \in Nat /\ hi \in Nat /\ j \in Nat /\ j + 1 \in lo + 1 .. (hi + 1) - 1
      BY <2>1, <1>3, <1>10
    <3>1. lo <= j /\ j < hi /\ (j + 1) + 1 = j + 2
      <4> HIDE DEF lo, hi
      <4> QED BY <3>0
    <3> QED BY <3>1, <2>1
  <2>3. t \in Seq([lower : Nat, upper : Nat]) /\ Divided(sort.stack, t, j)
    <3> DEFINE R == [lower : Nat, upper : Nat]
    <3>1. [lower |-> lo, upper |-> j] \in R /\ [lower |-> j + 1, upper |-> hi] \in R
      BY <1>3, <1>10
    <3>2. sort.stack \in Seq(R)
      BY <1>3
    <3> HIDE DEF R
    <3>3. t \in Seq(R) /\ Divided(sort.stack, t, j)
      BY <3>1, <3>2, <1>2, StackDivided
    <3> QED BY <3>3 DEF R
  <2> HIDE DEF t
  <2>4. RangesOK(t, n) /\ Ordered(s, t, n)
    BY <2>1, <2>2, <2>3, <1>2, <1>3, <1>10, RangeDivided
  <2>5. sort' = [sort EXCEPT !.pc = "range", !.stack = t]
    BY <1>8, <1>11 DEF t
  <2>6. sort' \in SortStates /\ sort'.pc = "range" /\ sort'.items = s /\ sort'.stack = t
    BY <1>1, <2>3, <2>5 DEF SortStates
  <2>7. Sorting(sort', mirror)
    BY <2>4, <2>6, <1>2 DEF Sorting
  <2> QED BY <2>6, <2>7, <1>1 DEF ListInv
<1>12. CASE ~(i >= j)
  <2> DEFINE x == [s EXCEPT ![i + 1] = s[j + 1], ![j + 1] = s[i + 1]]
             I == i + 1
             J == j + 1
  <2>1. I \in Int /\ J \in Int /\ I < J
    BY <1>10, <1>12
  <2>2. Stopped(s, n, sort.i + 1, sort.j + 1, p, I, J)
    BY <1>9
  <2> HIDE DEF I, J
  <2>3. lo + 1 <= I /\ J <= hi + 1 /\ I \in 1 .. n /\ J \in 1 .. n /\ I # J
    <3> DEFINE L == lo + 1
               H == hi + 1
               A == sort.i + 1
               B == sort.j + 1
    <3>1. L \in 1 .. n /\ H \in 1 .. n /\ A \in Int /\ B \in Int /\ Split(s, L, H, A, B, p)
          /\ Stopped(s, n, A, B, p, I, J) /\ NumbersIn(s, n) /\ p \in Nat
      BY <1>2, <1>3, <1>4, <2>2
    <3> HIDE DEF L, H, A, B, s, p, n
    <3>2. L <= I /\ I <= H /\ L <= J /\ J <= H
      BY <3>1, StoppedWhere
    <3>3. I \in 1 .. n /\ J \in 1 .. n /\ I # J
      BY <3>1, <3>2, <2>1, <1>3
    <3> QED BY <3>2, <3>3 DEF L, H
  <2>4. x = [s EXCEPT ![I] = s[J], ![J] = s[I]]
    BY DEF I, J
  <2>5. x \in Seq(Values) /\ Len(x) = n /\ Exchanged(s, x, n, I, J)
    <3>1. s \in Seq(Values) /\ Len(s) = n /\ s[I] \in Values /\ s[J] \in Values
      <4>1. s \in Seq(Values) /\ Len(s) = n
        BY <1>2, <1>3
      <4>2. I \in 1 .. n /\ J \in 1 .. n
        BY <2>3
      <4> HIDE DEF s, n
      <4> QED BY ONLY <4>1, <4>2
    <3> DEFINE y == [s EXCEPT ![I] = s[J]]
    <3>2. x = [y EXCEPT ![J] = s[I]]
      BY <2>4
    <3> HIDE DEF x, s, n
    <3>3. y \in Seq(Values) /\ Len(y) = n
      BY <3>1, <2>3, ExceptSeq
    <3>4. DOMAIN s = 1 .. n
      BY <3>1
    <3>5. \A k \in 1 .. n : y[k] = IF k = I THEN s[J] ELSE s[k]
      BY <3>4
    <3> HIDE DEF y
    <3>6. x \in Seq(Values) /\ Len(x) = n
      BY <3>1, <3>2, <3>3, <2>3, ExceptSeq
    <3>7. \A k \in 1 .. n : x[k] = IF k = J THEN s[I] ELSE y[k]
      <4>1. DOMAIN y = 1 .. n
        BY <3>3
      <4> QED BY <4>1, <3>2
    <3> QED BY <3>5, <3>6, <3>7 DEF Exchanged
  <2> HIDE DEF x
  <2>6. I \in lo + 1 .. hi + 1 /\ J \in lo + 1 .. hi + 1 /\ Split(x, lo + 1, hi + 1, I, J, p)
    <3> DEFINE L == lo + 1
               H == hi + 1
               A == sort.i + 1
               B == sort.j + 1
    <3>1. L \in 1 .. n /\ H \in 1 .. n /\ A \in Int /\ B \in Int /\ Split(s, L, H, A, B, p)
          /\ Stopped(s, n, A, B, p, I, J) /\ NumbersIn(s, n) /\ p \in Nat
      BY <1>2, <1>3, <1>4, <2>2
    <3> HIDE DEF L, H, A, B, s, p, n
    <3>2. I \in L .. H /\ J \in L .. H /\ Split(x, L, H, I, J, p)
      BY <3>1, <2>1, <2>5, LoopsExchange
    <3> QED BY <3>2 DEF L, H
  <2>7. Ordered(x, sort.stack, n)
    BY <2>5, <2>6, <1>2, <1>3, OrderedExchanged
  <2>8. \A v \in Values : Occurrences(x, v) = Occurrences(mirror, v)
    <3>1. \A v : Occurrences(x, v) = Occurrences(s, v)
      <4>1. s \in Seq(Values) /\ Len(s) = n
        BY <1>2, <1>3
      <4> HIDE DEF s, n
      <4> QED BY <4>1, <2>3, <2>5, OccurrencesKept
    <3> QED BY <3>1, <1>2
  <2>9. sort' = [sort EXCEPT !.items = x, !.i = i, !.j = j]
    BY <1>8, <1>12 DEF x
  <2>10. /\ sort' \in SortStates /\ sort'.pc = "partition" /\ sort'.items = x /\ sort'.stack = sort.stack
         /\ sort'.i = i /\ sort'.j = j /\ sort'.pivot = p
    <3>1. i \in Int /\ j \in Int /\ x \in Seq(Values) /\ sort \in SortStates /\ sort.pc = "partition"
      BY <1>1, <1>10, <2>5
    <3> QED BY <3>1, <2>9 DEF SortStates
  <2>11. Split(x, lo + 1, hi + 1, i + 1, j + 1, p)
    BY <2>6 DEF I, J
  <2>12. Sorting(sort', mirror)
    BY <2>5, <2>7, <2>8, <2>10, <2>11, <1>2 DEF Sorting
  <2> QED BY <2>10, <2>12, <1>1 DEF ListInv
<1> QED BY <1>11, <1>12

-----------------------------------------------------------------------------
(* ... and the invariant of both.                                            *)

\* The invariant speaks of the list, its values and the sort only.
LEMMA ListStutters == ListInv /\ UNCHANGED listVars => ListInv'
  BY Zenon DEF ListInv, listVars, ListReads, NodesOK, ValuesAre, Sorting

\* The list is changed only while nothing is being sorted.
LEMMA ListChangeStep ==
  ASSUME ListInv, Idle, sort' = sort, ListReads(linked', mirror')
  PROVE  ListInv'
  BY DEF ListInv, Idle

\* list_find and list_delete_item take out the first occurrence of a value.
LEMMA DeleteValueStep ==
  ASSUME ListInv, NEW v \in Values, DeleteValue(v)
  PROVE  ListInv'
<1> DEFINE n == list_find(linked, {v})
           h == FirstIndex(v)
<1>1. PICK c : NodesOK(linked, c) /\ ValuesAre(linked, c, mirror)
  BY DEF ListInv, ListReads
<1>2. /\ Idle /\ n # 0 /\ linked' = list_delete_item(linked, n) /\ mirror' = Dropped(mirror, h) /\ sort' = sort
  BY DEF DeleteValue, Dropped
<1>3. h \in 1 .. Len(mirror) /\ n = c[h]
  <2>1. h = FirstOf(PlacesOf(mirror, v))
    BY Zenon DEF FirstIndex, PlacesOf
  <2>2. list_find(linked, {v}) # 0
    BY <1>2
  <2> HIDE DEF h
  <2>3. h \in 1 .. Len(mirror) /\ list_find(linked, {v}) = c[h]
    BY <2>1, <2>2, <1>1, NodeFound
  <2> QED BY <2>3
<1>4. ListReads(linked', mirror')
  <2> HIDE DEF h, n
  <2>1. ListReads(list_delete_item(linked, c[h]), Dropped(mirror, h))
    BY <1>1, <1>3, ListDeletes
  <2> QED BY <2>1, <1>2, <1>3
<1> QED BY <1>2, <1>4, ListChangeStep

\* The sorted copy is handed over.
LEMMA SortEndStep == ListInv /\ SortEnd => ListInv'
<1> SUFFICES ASSUME ListInv, SortEnd PROVE ListInv'
  OBVIOUS
<1>1. sort' = NoSort /\ linked' = linked /\ mirror' = mirror
  BY DEF SortEnd
<1>2. sort' \in SortStates /\ sort'.pc = "idle"
  BY <1>1 DEF NoSort, SortStates
<1> QED BY <1>1, <1>2 DEF ListInv

\* Every step keeps the invariant.
LEMMA ListStep == ListInv /\ [ListNext]_listVars => ListInv'
<1> SUFFICES ASSUME ListInv, [ListNext]_listVars PROVE ListInv'
  OBVIOUS
<1>0. ListReads(linked, mirror)
  BY DEF ListInv
<1>1. ASSUME NEW v \in Values, AppendValue(v) PROVE ListInv'
  <2>1. Idle /\ linked' = list_append(linked, v) /\ mirror' = Append(mirror, v) /\ sort' = sort
    BY <1>1 DEF AppendValue
  <2>2. ListReads(linked', mirror')
    BY <1>0, <2>1, ListAppends
  <2> QED BY <2>1, <2>2, ListChangeStep
<1>2. ASSUME NEW v \in Values, PrependValue(v) PROVE ListInv'
  <2>1. Idle /\ linked' = list_prepend(linked, v) /\ mirror' = <<v>> \o mirror /\ sort' = sort
    BY <1>2 DEF PrependValue
  <2>2. ListReads(linked', mirror')
    BY <1>0, <2>1, ListPrepends
  <2> QED BY <2>1, <2>2, ListChangeStep
<1>3. ASSUME NEW v \in Values, DeleteValue(v) PROVE ListInv'
  BY <1>3, DeleteValueStep
<1>4. ASSUME NEW T \in SUBSET Values, DeleteWhere(T) PROVE ListInv'
  <2>1. /\ Idle /\ linked' = list_delete_items_where(linked, T) /\ sort' = sort
        /\ mirror' = KeptUpTo(mirror, T)[Len(mirror)]
    BY <1>4 DEF DeleteWhere
  <2>2. ListReads(linked', mirror')
    BY <1>0, <2>1, WhereDeleted
  <2> QED BY <2>1, <2>2, ListChangeStep
<1> QED BY <1>1, <1>2, <1>3, <1>4, SortBeginStep, SortRangeStep, SortPartitionStep, SortEndStep,
           ListStutters DEF ListNext

\* The links of the list lead in both directions along nodes with the values
\* its callers have put into it, and a sort has the items up to the first range
\* in order, each range apart from what follows it, and the two sides of the
\* partition under way apart from the pivot (lists.c).
THEOREM ListInvariant == ListSpec => []ListInv
  BY ListInitially, ListStep, PTL DEF ListSpec

\* The invariant is what the callers rely on.
LEMMA ListMatches == ListInv => ListMatchesSequence
<1> SUFFICES ASSUME ListInv PROVE ListMatchesSequence
  OBVIOUS
<1> DEFINE n == Len(mirror)
           d == Chain(linked, linked.tail, "prev")
<1>1. PICK c : NodesOK(linked, c) /\ ValuesAre(linked, c, mirror)
  BY DEF ListInv, ListReads
<1>2. Chain(linked, linked.head, "next") = c /\ d = Backwards(c)
  BY <1>1, ChainIs
<1>3. /\ mirror \in Seq(Values) /\ n \in Nat /\ Len(c) = n /\ linked.size = n
      /\ \A k \in 1 .. n : linked.node[c[k]].value = mirror[k]
  <2>1. mirror \in Seq(Values) /\ Len(c) = n /\ linked.size = n
        /\ \A k \in 1 .. n : linked.node[c[k]].value = mirror[k]
    BY <1>1 DEF ValuesAre, NodesOK
  <2> QED BY <2>1
<1>4. Len(d) = n /\ \A k \in 1 .. n : d[n + 1 - k] = c[k]
  <2>1. d = [k \in 1 .. n |-> c[n + 1 - k]]
    BY <1>2, <1>3 DEF Backwards
  <2>2. \A k \in 1 .. n : n + 1 - k \in 1 .. n /\ n + 1 - (n + 1 - k) = k
    BY <1>3
  <2> HIDE DEF d, n
  <2>3. Len(d) = n
    BY <1>3, <2>1
  <2> QED BY <2>1, <2>2, <2>3
<1>5. ASSUME ~Idle
      PROVE  /\ \A v \in Values : Occurrences(sort.items, v) = Occurrences(mirror, v)
             /\ sort.stack # << >> => 0 <= CurrentRange.lower /\ CurrentRange.upper < n
             /\ sort.stack = << >> => \A k \in 1 .. n - 1 : sort.items[k] <= sort.items[k + 1]
  <2>1. sort \in SortStates /\ Sorting(sort, mirror)
    BY <1>5 DEF ListInv, Idle
  <2>2. \A v \in Values : Occurrences(sort.items, v) = Occurrences(mirror, v)
    BY <2>1 DEF Sorting
  <2>3. sort.stack # << >> => 0 <= CurrentRange.lower /\ CurrentRange.upper < n
    <3>1. /\ Len(sort.stack) # 0 => /\ Head(sort.stack) = sort.stack[1]
                                   /\ sort.stack[1].lower \in Nat /\ sort.stack[1].upper < n
          /\ Len(sort.stack) = 0 => sort.stack = << >>
      BY <2>1, SortParts
    <3> QED BY <3>1 DEF CurrentRange
  <2>4. ASSUME sort.stack = << >>, NEW k \in 1 .. n - 1 PROVE sort.items[k] <= sort.items[k + 1]
    <3>1. Len(sort.stack) = 0
      BY <2>4
    <3>2. k \in 1 .. n /\ k + 1 \in 1 .. n /\ k < k + 1
      BY <1>3
    <3>3. Ordered(sort.items, sort.stack, n)
      BY <2>1 DEF Sorting
    <3> QED BY <3>1, <3>2, <3>3 DEF Ordered
  <2> QED BY <2>2, <2>3, <2>4
<1> HIDE DEF d
<1> QED BY <1>2, <1>3, <1>4, <1>5, Zenon DEF ListMatchesSequence, d

\* In both directions the list reads as its callers expect, and the sorted copy
\* has the same values, in order when the sort is done (lists.c), whatever the
\* values are and however many nodes there are.
THEOREM ListReadsRight == ListSpec => []ListMatchesSequence
  BY ListInvariant, ListMatches, PTL

-----------------------------------------------------------------------------
(* Datarefs that DRCI provides (command_drci.c).                             *)

\* Values are numbers of halves: the even ones are the integers.
LEMMA ParityOf ==
  ASSUME NEW h \in Int
  PROVE  /\ h % 2 \in {0, 1} /\ (Even(h) <=> h % 2 = 0)
         /\ (Even(h + 1) <=> ~Even(h)) /\ (Even(h - 1) <=> ~Even(h))
  BY DEF Even

\* A number of halves becomes the integer its mode asks for.
LEMMA Rounds ==
  ASSUME NEW h \in Int, NEW mode \in IntConvModes
  PROVE  Rounded(h, mode) = IntegerOf(h, mode)
<1> DEFINE P(e) == /\ Even(e)
                   /\ mode = "floor" => e <= h
                   /\ mode = "ceil" => e >= h
                   /\ mode = "round" => Distance(e, 0) >= Distance(h, 0)
           x == Rounded(h, mode)
<1>1. mode = "floor" \/ mode = "ceil" \/ mode = "round"
  BY DEF IntConvModes
<1>2. /\ (Even(h + 1) <=> ~Even(h)) /\ (Even(h - 1) <=> ~Even(h))
  BY ParityOf
<1>3. x \in h - 1 .. h + 1 /\ Even(x) /\ (Even(h) => x = h)
      /\ (mode = "floor" /\ ~Even(h) => x = h - 1) /\ (mode = "ceil" /\ ~Even(h) => x = h + 1)
      /\ (mode = "round" /\ ~Even(h) => x = IF h > 0 THEN h + 1 ELSE h - 1)
  <2>1. CASE Even(h)
    BY <1>1, <2>1 DEF Rounded, lround
  <2>2. CASE ~Even(h)
    BY <1>1, <1>2, <2>2 DEF Rounded, lround
  <2> QED BY <2>1, <2>2
<1> HIDE DEF x
<1>4. P(x)
  BY <1>1, <1>2, <1>3 DEF Distance
<1>5. ASSUME NEW e \in h - 1 .. h + 1, P(e) PROVE e = x
  <2>1. e = h - 1 \/ e = h \/ e = h + 1
    OBVIOUS
  <2>2. CASE Even(h)
    BY <1>2, <1>3, <1>5, <2>1, <2>2
  <2>3. CASE ~Even(h) /\ mode # "round"
    BY <1>1, <1>2, <1>3, <1>5, <2>1, <2>3
  <2>4. CASE ~Even(h) /\ mode = "round"
    BY <1>2, <1>3, <1>5, <2>1, <2>4, ParityOf DEF Distance
  <2> QED BY <2>2, <2>3, <2>4
<1> HIDE DEF P
<1>6. (CHOOSE e \in h - 1 .. h + 1 : P(e)) = x
  BY <1>3, <1>4, <1>5
<1>7. IntegerOf(h, mode) = CHOOSE e \in h - 1 .. h + 1 : P(e)
  BY DEF IntegerOf, P
<1> QED BY <1>3, <1>6, <1>7 DEF x

\* Whatever the mode, an integer is converted to itself.
LEMMA RoundsEven ==
  ASSUME NEW h \in Int, NEW mode \in IntConvModes, Even(h)
  PROVE  IntegerOf(h, mode) = h
<1>1. Rounded(h, mode) = h
  BY DEF Rounded, lround, IntConvModes
<1> QED BY <1>1, Rounds
-----------------------------------------------------------------------------
\* A sequence that has each member of R once.
Enumerates(s, R) ==
  /\ s \in Seq(R)
  /\ \A r \in R : \E n \in 1 .. Len(s) : s[n] = r
  /\ \A n, m \in 1 .. Len(s) : s[n] = s[m] => n = m

\* encode_types_add adds the name of a type that is among them.
LEMMA EnumeratesMore ==
  ASSUME NEW types, NEW s, NEW R, Enumerates(s, R), NEW t, t \notin R
  PROVE  Enumerates(s \o encode_types_add(types, t), R \union (types \intersect {t}))
<1>1. CASE t \notin types
  <2>1. encode_types_add(types, t) = << >> /\ R \union (types \intersect {t}) = R
    BY <1>1 DEF encode_types_add
  <2>2. s \in Seq(R)
    BY DEF Enumerates
  <2>3. s \o << >> = s
    BY <2>2, ConcatEmptySeq
  <2> QED BY <2>1, <2>3
<1>2. CASE t \in types
  <2> DEFINE Q == R \union {t}
             z == s \o <<t>>
             m == Len(s)
  <2>1. encode_types_add(types, t) = <<t>> /\ R \union (types \intersect {t}) = Q
    BY <1>2 DEF encode_types_add
  <2>2. s \in Seq(R) /\ m \in Nat /\ \A n \in 1 .. m : s[n] \in R
    BY DEF Enumerates
  <2>3. s \in Seq(Q)
    BY <2>2
  <2>x. <<t>> \in Seq(Q) /\ Len(<<t>>) = 1 /\ <<t>>[1] = t
    OBVIOUS
  <2>4. /\ z \in Seq(Q) /\ Len(z) = m + 1
        /\ \A i \in 1 .. m + 1 : z[i] = IF i <= m THEN s[i] ELSE <<t>>[i - m]
    BY <2>3, <2>x, ConcatProperties
  <2> HIDE DEF z, m
  <2>5. (\A i \in 1 .. m : z[i] = s[i]) /\ z[m + 1] = t
    <3>1. m + 1 - m = 1 /\ m + 1 \in 1 .. m + 1 /\ ~(m + 1 <= m)
      BY <2>2
    <3>2. z[m + 1] = t
      <4> DEFINE j == m + 1
      <4>1. j \in 1 .. m + 1 /\ ~(j <= m) /\ j - m = 1
        BY <2>2
      <4> HIDE DEF j
      <4>2. z[j] = <<t>>[j - m]
        BY <4>1, <2>4
      <4> QED BY <4>1, <4>2, <2>x DEF j
    <3>3. ASSUME NEW i \in 1 .. m PROVE z[i] = s[i]
      BY <2>2, <2>4
    <3> QED BY <3>2, <3>3
  <2>6. \A i \in 1 .. m + 1 : i \in 1 .. m \/ i = m + 1
    BY <2>2
  <2>7. \A r \in Q : \E n \in 1 .. Len(z) : z[n] = r
    <3> SUFFICES ASSUME NEW r \in Q PROVE \E n \in 1 .. m + 1 : z[n] = r
      BY <2>4
    <3>1. CASE r = t
      <4>1. m + 1 \in 1 .. m + 1
        BY <2>2
      <4> QED BY <3>1, <4>1, <2>5
    <3>2. CASE r \in R
      <4>1. PICK n \in 1 .. m : s[n] = r
        BY <3>2 DEF Enumerates, m
      <4>2. n \in 1 .. m + 1
        BY <2>2
      <4> QED BY <4>1, <4>2, <2>5
    <3> QED BY <3>1, <3>2
  <2>8. \A n, k \in 1 .. Len(z) : z[n] = z[k] => n = k
    <3> SUFFICES ASSUME NEW n \in 1 .. m + 1, NEW k \in 1 .. m + 1, z[n] = z[k] PROVE n = k
      BY <2>4
    <3>1. CASE n \in 1 .. m /\ k \in 1 .. m
      BY <3>1, <2>5 DEF Enumerates, m
    <3>2. CASE n = m + 1 \/ k = m + 1
      BY <3>2, <2>2, <2>5, <2>6
    <3> QED BY <3>1, <3>2, <2>6
  <2>9. Enumerates(z, Q)
    BY <2>4, <2>7, <2>8 DEF Enumerates
  <2> QED BY <2>1, <2>9 DEF z
<1> QED BY <1>1, <1>2

\* xprc_encode_types names each of the types once.
LEMMA TypesEncoded ==
  ASSUME NEW types, types \subseteq simple_types \union array_types
  PROVE  Enumerates(xprc_encode_types(types), types)
<1> DEFINE a(t) == encode_types_add(types, t)
           R(t) == types \intersect {t}
           E1 == a("int")
           E2 == E1 \o a("float")
           E3 == E2 \o a("double")
           E4 == E3 \o a("int[]")
           E5 == E4 \o a("float[]")
           E6 == E5 \o a("blob")
           S1 == R("int")
           S2 == S1 \union R("float")
           S3 == S2 \union R("double")
           S4 == S3 \union R("int[]")
           S5 == S4 \union R("float[]")
           S6 == S5 \union R("blob")
<1>1. Enumerates(E1, S1)
  <2>1. CASE "int" \in types
    <3>1. E1 = <<"int">> /\ S1 = {"int"}
      BY <2>1 DEF encode_types_add
    <3> HIDE DEF E1, S1
    <3>2. Len(E1) = 1 /\ E1[1] = "int" /\ E1 \in Seq(S1) /\ 1 \in 1 .. Len(E1)
      BY <3>1
    <3>3. \A n \in 1 .. Len(E1) : n = 1
      BY <3>2
    <3> QED BY <3>1, <3>2, <3>3 DEF Enumerates
  <2>2. CASE "int" \notin types
    <3>1. E1 = << >> /\ S1 = {}
      BY <2>2 DEF encode_types_add
    <3> HIDE DEF E1, S1
    <3>2. Len(E1) = 0 /\ E1 \in Seq(S1)
      BY <3>1
    <3>3. 1 .. Len(E1) = {}
      BY <3>2
    <3> QED BY <3>1, <3>2, <3>3 DEF Enumerates
  <2> QED BY <2>1, <2>2
<1>2. "float" \notin S1 /\ "double" \notin S2 /\ "int[]" \notin S3 /\ "float[]" \notin S4 /\ "blob" \notin S5
  OBVIOUS
<1>3. S6 = types
  BY DEF simple_types, array_types
<1>4. xprc_encode_types(types) = E6
  BY DEF xprc_encode_types
<1> HIDE DEF E1, S1, a, R
<1>5. Enumerates(E2, S2)
  BY <1>1, <1>2, EnumeratesMore DEF a, R
<1> HIDE DEF E2, S2
<1>6. Enumerates(E3, S3)
  BY <1>5, <1>2, EnumeratesMore DEF a, R
<1> HIDE DEF E3, S3
<1>7. Enumerates(E4, S4)
  BY <1>6, <1>2, EnumeratesMore DEF a, R
<1> HIDE DEF E4, S4
<1>8. Enumerates(E5, S5)
  BY <1>7, <1>2, EnumeratesMore DEF a, R
<1> HIDE DEF E5, S5
<1>9. Enumerates(E6, S6)
  BY <1>8, <1>2, EnumeratesMore DEF a, R
<1> HIDE DEF E6, S6
<1> QED BY <1>3, <1>4, <1>9
-----------------------------------------------------------------------------
\* What a view shows of a write.
Shown(v, w, mode) ==
  IF IsInteger(v) THEN ToInt(IntegerOf(w.value, mode))
  ELSE IF IsFloat(v) THEN ToFloat(w.value)
  ELSE w.value

\* A number that was written through type is one the type holds.
ValueFits(type, value) ==
  /\ value \in Int
  /\ IsInteger(type) => Even(value) /\ ToInt(value) = value
  /\ IsFloat(type) => ToFloat(value) = value

\* The positions a dataref has.
Kept(d) == PositionsOf(d.types, d.length)

\* The record of a dataref.
DataFields(d) == d = [types |-> d.types, length |-> d.length, echo |-> d.echo, mode |-> d.mode, stored |-> d.stored]

\* Every view shows the last writes w.
DataOK(d, w) ==
  /\ DataFields(d)
  /\ d.length \in Int /\ d.mode \in IntConvModes /\ AcceptsTypes(d.types, d.length)
  /\ w = [k \in Kept(d) |-> w[k]]
  /\ d.stored = [v \in Views(d.types) |-> [k \in Kept(d) |-> Shown(v, w[k], d.mode)]]

\* The inductive invariant of a dataref.
ViewInv ==
  /\ dataref = NoDataref => written = << >> /\ echoed = << >>
  /\ dataref # NoDataref => DataOK(dataref, written) /\ (echoed # << >> => echoed = dump_values(dataref))

\* The last writes after one more.
WrittenAt(w, type, value, k) == [w EXCEPT ![k] = [type |-> type, value |-> value]]

\* apply_value
LEMMA ValueApplied ==
  ASSUME NEW d, NEW w, DataOK(d, w), NEW type, NEW value, ValueFits(type, value), NEW k \in Kept(d)
  PROVE  /\ DataOK(apply_value(d, type, value, k), WrittenAt(w, type, value, k))
         /\ Kept(apply_value(d, type, value, k)) = Kept(d)
         /\ apply_value(d, type, value, k).types = d.types
<1> DEFINE n == WrittenAt(w, type, value, k)
           c(v) == Converted(v, type, value, d.mode)
           x == [v \in DOMAIN d.stored |-> [d.stored[v] EXCEPT ![k] = c(v)]]
           y == [v \in Views(d.types) |-> [j \in Kept(d) |-> Shown(v, n[j], d.mode)]]
           a == [d EXCEPT !.stored = x]
<1>1. w = [j \in Kept(d) |-> w[j]] /\ d.mode \in IntConvModes
  BY DEF DataOK
<1>2. n = [j \in Kept(d) |-> n[j]] /\ n[k] = [type |-> type, value |-> value] /\ \A j \in Kept(d) \ {k} : n[j] = w[j]
  BY <1>1 DEF WrittenAt
<1>3. ASSUME NEW v PROVE c(v) = Shown(v, n[k], d.mode)
  <2>1. Shown(v, n[k], d.mode) = IF IsInteger(v) THEN ToInt(IntegerOf(value, d.mode))
                                 ELSE IF IsFloat(v) THEN ToFloat(value) ELSE value
    BY <1>2 DEF Shown
  <2>2. value \in Int /\ (IsInteger(type) => Even(value) /\ ToInt(value) = value)
        /\ (IsFloat(type) => ToFloat(value) = value)
    BY DEF ValueFits
  <2>3. c(v) = IF IsInteger(v) /\ ~IsInteger(type) THEN ToInt(Rounded(value, d.mode))
               ELSE IF IsFloat(v) /\ ~IsFloat(type) THEN ToFloat(value) ELSE value
    BY DEF Converted, ToInteger
  <2>4. ~(IsInteger(v) /\ IsFloat(v))
    BY DEF IsInteger, IsFloat
  <2>5. Rounded(value, d.mode) = IntegerOf(value, d.mode) /\ (Even(value) => IntegerOf(value, d.mode) = value)
    BY <1>1, <2>2, Rounds, RoundsEven
  <2> HIDE DEF n, c
  <2>6. CASE IsInteger(v)
    BY <2>1, <2>2, <2>3, <2>4, <2>5, <2>6
  <2>7. CASE ~IsInteger(v)
    BY <2>1, <2>2, <2>3, <2>7
  <2> QED BY <2>6, <2>7
<1> HIDE DEF n, c
<1>4. d.stored = [v \in Views(d.types) |-> [j \in Kept(d) |-> Shown(v, w[j], d.mode)]]
  BY DEF DataOK
<1>5. ASSUME NEW v \in Views(d.types) PROVE [d.stored[v] EXCEPT ![k] = c(v)] = [j \in Kept(d) |-> Shown(v, n[j], d.mode)]
  <2>1. d.stored[v] = [j \in Kept(d) |-> Shown(v, w[j], d.mode)]
    BY <1>4
  <2> QED BY <2>1, <1>2, <1>3
<1>6. x = y
  <2>1. DOMAIN d.stored = Views(d.types)
    BY <1>4
  <2> QED BY <2>1, <1>5
<1> HIDE DEF x, y
<1>7. DataFields(d)
  BY DEF DataOK
<1>8. a.types = d.types /\ a.length = d.length /\ a.mode = d.mode /\ a.stored = x /\ DataFields(a)
  BY <1>7 DEF DataFields
<1>9. Kept(a) = Kept(d)
  BY <1>8 DEF Kept
<1>10. apply_value(d, type, value, k) = a
  BY DEF apply_value, x, c
<1> HIDE DEF a
<1>11. DataOK(a, n)
  <2>1. a.stored = [v \in Views(a.types) |-> [j \in Kept(a) |-> Shown(v, n[j], a.mode)]]
    BY <1>6, <1>8, <1>9 DEF y
  <2>2. n = [j \in Kept(a) |-> n[j]]
    BY <1>2, <1>9
  <2>3. a.length \in Int /\ a.mode \in IntConvModes /\ AcceptsTypes(a.types, a.length)
    BY <1>8 DEF DataOK
  <2> QED BY <2>1, <2>2, <2>3, <1>8 DEF DataOK
<1> QED BY <1>8, <1>9, <1>10, <1>11 DEF n

\* The recursion of drci_array_update, unfolded.
LEMMA AppliedStep ==
  ASSUME NEW d, NEW type, NEW values, NEW offset, NEW m \in Nat
  PROVE  Applied(d, type, values, offset, m) =
           [k \in 0 .. m |-> IF k = 0 THEN d
                             ELSE apply_value(Applied(d, type, values, offset, m)[k - 1], type, values[k], offset + k - 1)]
<1> DEFINE Step(f, k) == IF k = 0 THEN d ELSE apply_value(f[k - 1], type, values[k], offset + k - 1)
           rest == CHOOSE f : f = [k \in 0 .. m |-> Step(f, k)]
           S == {n \in Nat : \E f : f = [k \in 0 .. n |-> Step(f, k)]}
<1>1. Applied(d, type, values, offset, m) = rest
  BY Zenon DEF Applied
<1>2. 0 \in S
  <2> DEFINE f == [k \in 0 .. 0 |-> d]
  <2>1. \A k \in 0 .. 0 : k = 0
    OBVIOUS
  <2>2. \A k \in 0 .. 0 : Step(f, k) = d
    BY <2>1
  <2>3. f = [k \in 0 .. 0 |-> Step(f, k)]
    <3> HIDE DEF Step
    <3> QED BY <2>2
  <2> QED BY <2>3
<1>3. ASSUME NEW n \in Nat, n \in S PROVE n + 1 \in S
  <2>1. PICK f : f = [k \in 0 .. n |-> Step(f, k)]
    BY <1>3
  <2> DEFINE g == [k \in 0 .. n + 1 |-> IF k <= n THEN f[k] ELSE Step(f, n + 1)]
  <2>2. ASSUME NEW k \in 0 .. n + 1 PROVE g[k] = Step(g, k)
    <3>1. CASE k = 0
      <4>1. g[k] = f[0] /\ 0 \in 0 .. n
        BY <3>1
      <4>2. f[0] = Step(f, 0)
        <5> HIDE DEF Step
        <5> QED BY <2>1, <4>1
      <4> QED BY <3>1, <4>1, <4>2
    <3>2. CASE k # 0 /\ k <= n
      <4>1. k \in 0 .. n /\ k - 1 \in 0 .. n + 1 /\ k - 1 <= n
        BY <3>2
      <4>2. g[k] = f[k] /\ g[k - 1] = f[k - 1]
        BY <3>2, <4>1
      <4>3. f[k] = Step(f, k)
        <5> HIDE DEF Step
        <5> QED BY <2>1, <4>1
      <4> HIDE DEF g
      <4> QED BY <3>2, <4>2, <4>3
    <3>3. CASE k = n + 1
      <4>1. g[k] = Step(f, n + 1)
        <5> HIDE DEF Step
        <5> QED BY <3>3
      <4>2. n \in 0 .. n + 1 /\ k - 1 = n /\ k # 0 /\ (n + 1) - 1 = n /\ n + 1 # 0
        BY <3>3
      <4>3. g[n] = f[n]
        BY <4>2
      <4> HIDE DEF g
      <4>4. Step(g, k) = apply_value(g[n], type, values[k], offset + k - 1)
        BY <4>2
      <4>5. Step(f, n + 1) = apply_value(f[n], type, values[n + 1], offset + (n + 1) - 1)
        BY <4>2
      <4> QED BY <4>1, <4>3, <4>4, <4>5, <3>3
    <3> QED BY <3>1, <3>2, <3>3
  <2>3. g = [k \in 0 .. n + 1 |-> g[k]]
    OBVIOUS
  <2> HIDE DEF g, Step
  <2>4. g = [k \in 0 .. n + 1 |-> Step(g, k)]
    BY <2>2, <2>3
  <2> QED BY <2>4
<1>4. m \in S
  <2> HIDE DEF S
  <2> QED BY <1>2, <1>3, AllNaturals
<1>5. rest = [k \in 0 .. m |-> Step(rest, k)]
  <2> HIDE DEF Step
  <2> QED BY <1>4
<1> HIDE DEF rest
<1> QED BY <1>1, <1>5, Zenon

\* The last writes after the first n of the values.
WrittenTo(w, type, values, offset, n) ==
  [k \in DOMAIN w |-> IF k \in offset .. offset + n - 1
                      THEN [type |-> type, value |-> values[k - offset + 1]] ELSE w[k]]

\* drci_array_update
LEMMA ValuesApplied ==
  ASSUME NEW d, NEW w, DataOK(d, w), NEW type, NEW values, NEW offset \in Nat, NEW m \in Nat,
         \A k \in 1 .. m : ValueFits(type, values[k]) /\ offset + k - 1 \in Kept(d)
  PROVE  /\ DataOK(Applied(d, type, values, offset, m)[m], WrittenTo(w, type, values, offset, m))
         /\ Applied(d, type, values, offset, m)[m].types = d.types
<1> DEFINE f == Applied(d, type, values, offset, m)
           W(n) == WrittenTo(w, type, values, offset, n)
           Good(n) == DataOK(f[n], W(n)) /\ Kept(f[n]) = Kept(d) /\ f[n].types = d.types
           S == {n \in Nat : n <= m => Good(n)}
<1>0. w = [k \in Kept(d) |-> w[k]] /\ DOMAIN w = Kept(d)
  BY DEF DataOK
<1>1. f = [k \in 0 .. m |-> IF k = 0 THEN d ELSE apply_value(f[k - 1], type, values[k], offset + k - 1)]
  BY AppliedStep
<1> HIDE DEF f
<1>2. f[0] = d /\ \A k \in 1 .. m : f[k] = apply_value(f[k - 1], type, values[k], offset + k - 1)
  <2>1. 0 \in 0 .. m /\ \A k \in 1 .. m : k \in 0 .. m /\ k # 0
    OBVIOUS
  <2> QED BY <2>1, <1>1
<1>3. 0 \in S
  <2>1. offset .. offset + 0 - 1 = {}
    OBVIOUS
  <2>2. W(0) = [k \in DOMAIN w |-> w[k]]
    BY <2>1 DEF WrittenTo
  <2>3. W(0) = w
    BY <2>2, <1>0
  <2> QED BY <2>3, <1>2
<1>4. ASSUME NEW n \in Nat, n \in S PROVE n + 1 \in S
  <2> SUFFICES ASSUME n + 1 <= m PROVE Good(n + 1)
    OBVIOUS
  <2>1. n <= m /\ n + 1 \in 1 .. m /\ (n + 1) - 1 = n /\ offset + (n + 1) - 1 = offset + n
    OBVIOUS
  <2>2. Good(n)
    BY <1>4, <2>1
  <2>3. f[n + 1] = apply_value(f[n], type, values[n + 1], offset + n)
    BY <1>2, <2>1
  <2>4. ValueFits(type, values[n + 1]) /\ offset + n \in Kept(d)
    BY <2>1
  <2>5. W(n + 1) = WrittenAt(W(n), type, values[n + 1], offset + n)
    <3> DEFINE u == W(n)
               r == [type |-> type, value |-> values[n + 1]]
    <3>1. DOMAIN u = Kept(d)
      BY <1>0 DEF WrittenTo
    <3>2. u = [k \in Kept(d) |-> u[k]]
      BY <1>0 DEF WrittenTo
    <3>3. WrittenAt(u, type, values[n + 1], offset + n) = [k \in Kept(d) |-> IF k = offset + n THEN r ELSE u[k]]
      <4> HIDE DEF u, r
      <4> QED BY <3>2, <2>4 DEF WrittenAt, r
    <3>4. W(n + 1) = [k \in Kept(d) |-> IF k \in offset .. offset + (n + 1) - 1
                                        THEN [type |-> type, value |-> values[k - offset + 1]] ELSE w[k]]
      BY <1>0 DEF WrittenTo
    <3>5. ASSUME NEW k \in Kept(d)
          PROVE  (IF k \in offset .. offset + (n + 1) - 1
                  THEN [type |-> type, value |-> values[k - offset + 1]] ELSE w[k])
                 = (IF k = offset + n THEN r ELSE u[k])
      <4>1. CASE k = offset + n
        <5>1. k \in offset .. offset + (n + 1) - 1 /\ k - offset + 1 = n + 1
          BY <4>1
        <5> QED BY <4>1, <5>1
      <4>2. CASE k # offset + n
        <5>1. k \in offset .. offset + (n + 1) - 1 <=> k \in offset .. offset + n - 1
          BY <4>2
        <5>2. u[k] = IF k \in offset .. offset + n - 1
                     THEN [type |-> type, value |-> values[k - offset + 1]] ELSE w[k]
          BY <1>0 DEF WrittenTo
        <5> HIDE DEF u, r
        <5> QED BY <4>2, <5>1, <5>2
      <4> QED BY <4>1, <4>2
    <3> HIDE DEF u, r
    <3>6. W(n + 1) = [k \in Kept(d) |-> IF k = offset + n THEN r ELSE u[k]]
      <4> HIDE DEF W
      <4> QED BY <3>4, <3>5
    <3> QED BY <3>3, <3>6, Zenon DEF u
  <2> HIDE DEF W
  <2>6. offset + n \in Kept(f[n])
    BY <2>2, <2>4
  <2>7. /\ DataOK(f[n + 1], W(n + 1)) /\ Kept(f[n + 1]) = Kept(f[n]) /\ f[n + 1].types = f[n].types
    <3>1. DataOK(f[n], W(n))
      BY <2>2
    <3> DEFINE x == values[n + 1]
               j == offset + n
               e == f[n]
               u == W(n)
    <3>2. ValueFits(type, x) /\ j \in Kept(e) /\ DataOK(e, u)
      BY <2>4, <2>6, <3>1
    <3> HIDE DEF x, j, e, u
    <3>3. /\ DataOK(apply_value(e, type, x, j), WrittenAt(u, type, x, j))
          /\ Kept(apply_value(e, type, x, j)) = Kept(e)
          /\ apply_value(e, type, x, j).types = e.types
      BY <3>2, ValueApplied
    <3> QED BY <3>3, <2>3, <2>5, Zenon DEF x, j, e, u
  <2> QED BY <2>2, <2>7
<1>5. m \in S
  <2> HIDE DEF S
  <2> QED BY <1>3, <1>4, AllNaturals
<1> QED BY <1>5 DEF f

\* There is no dataref at first.
LEMMA ViewInitially == DatarefInit => ViewInv
  BY DEF DatarefInit, ViewInv

\* The invariant speaks of the dataref and what was written only.
LEMMA ViewStutters == ViewInv /\ UNCHANGED datarefVars => ViewInv'
  BY DEF ViewInv, datarefVars

\* A dataref has either one value or an array, and its positions accordingly.
LEMMA TypesKnown ==
  ASSUME NEW d, NEW w, DataOK(d, w)
  PROVE  /\ d.types # {} /\ d.types \subseteq simple_types \union array_types
         /\ d.types \subseteq simple_types \/ d.types \subseteq array_types
         /\ d.types \subseteq simple_types => Kept(d) = {0}
         /\ d.types \subseteq array_types => Kept(d) = 0 .. d.length - 1 /\ d.length >= 0
         /\ d.types \subseteq Views(d.types) /\ d # NoDataref
<1>1. AcceptsTypes(d.types, d.length)
  BY DEF DataOK
<1>2. d.types # {} /\ (d.types \subseteq simple_types \/ d.types \subseteq array_types)
  BY <1>1 DEF AcceptsTypes
<1>3. d.types \subseteq simple_types => Kept(d) = {0}
  BY DEF Kept, PositionsOf
<1>4. ASSUME d.types \subseteq array_types PROVE Kept(d) = 0 .. d.length - 1 /\ d.length >= 0
  <2>1. ~(d.types \subseteq simple_types)
    BY <1>2, <1>4 DEF simple_types, array_types
  <2> QED BY <2>1, <1>1, <1>4 DEF Kept, PositionsOf, AcceptsTypes
<1>5. d.types \subseteq Views(d.types)
  BY DEF Views
<1>6. d # NoDataref
  BY <1>2 DEF NoDataref
<1> QED BY <1>2, <1>3, <1>4, <1>5, <1>6

\* The lengths that are asked for are integers.
LEMMA LengthGiven == {NoLength} \union (-1 .. MaxLength) \subseteq Int /\ 0 \in Int /\ Even(0)
  BY DatarefValuesAssumption DEF NoLength, Even

\* drci_create: all views show the initial value.
LEMMA CreateStep ==
  ASSUME ViewInv, Create
  PROVE  ViewInv'
<1>1. dataref = NoDataref
  BY DEF Create
<1>2. PICK n \in 1 .. 3 : \E names \in [1 .. n -> simple_types \union array_types \union {"?"}],
        length \in {NoLength} \union (-1 .. MaxLength), commaInName \in BOOLEAN,
        echo \in EchoModes \union {"", "?"}, intConv \in IntConvModes \union {"", "?"} :
          drci_create(names, commaInName, length, echo, intConv)
  BY DEF Create
<1>x. PICK names \in [1 .. n -> simple_types \union array_types \union {"?"}],
        length \in {NoLength} \union (-1 .. MaxLength), commaInName \in BOOLEAN,
        echo \in EchoModes \union {"", "?"}, intConv \in IntConvModes \union {"", "?"} :
          drci_create(names, commaInName, length, echo, intConv)
  BY <1>2
<1>y. length \in Int
  BY LengthGiven
<1> DEFINE types == xprc_parse_types(names, commaInName)
           mode == IntConvMode(intConv)
           pos == PositionsOf(types, length)
           stored == [v \in Views(types) |-> [k \in pos |-> 0]]
           d == [types |-> types, length |-> length, echo |-> EchoMode(echo), mode |-> mode, stored |-> stored]
           w == [k \in pos |-> NoWrite]
<1>3. dataref' = d /\ written' = w /\ echoed' = echoed /\ AcceptsTypes(types, length)
      /\ AcceptsOptions(types, echo, intConv)
  BY <1>x DEF drci_create
<1>4. mode \in IntConvModes
  BY <1>3 DEF AcceptsOptions, IntConvMode, IntConvModes
<1> HIDE DEF types, mode
<1>5. d.types = types /\ d.length = length /\ d.mode = mode /\ d.stored = stored /\ DataFields(d)
  BY DEF DataFields
<1>6. Kept(d) = pos
  BY <1>5 DEF Kept
<1>7. \A v \in Views(types), k \in pos : Shown(v, w[k], mode) = 0
  <2>1. 0 \in Int /\ Even(0)
    BY LengthGiven
  <2>2. IntegerOf(0, mode) = 0
    BY <1>4, <2>1, RoundsEven
  <2>3. \A k \in pos : w[k].value = 0
    BY DEF NoWrite
  <2>4. ToInt(0) = 0 /\ ToFloat(0) = 0
    BY DatarefValuesAssumption
  <2> HIDE DEF w, pos
  <2> QED BY <2>2, <2>3, <2>4 DEF Shown
<1>8. DataOK(d, w)
  <2>1. d.stored = [v \in Views(d.types) |-> [k \in Kept(d) |-> Shown(v, w[k], d.mode)]]
    <3>1. d.stored = [v \in Views(types) |-> [k \in pos |-> 0]]
      BY <1>5
    <3> HIDE DEF pos, w, d
    <3>2. d.stored = [v \in Views(types) |-> [k \in pos |-> Shown(v, w[k], mode)]]
      BY ONLY <3>1, <1>7
    <3>3. d.types = types /\ d.mode = mode /\ Kept(d) = pos
      BY <1>5, <1>6
    <3> QED BY <3>2, <3>3
  <2>2. w = [k \in Kept(d) |-> w[k]]
    BY <1>6
  <2>3. d.length \in Int /\ d.mode \in IntConvModes /\ AcceptsTypes(d.types, d.length)
    BY <1>3, <1>4, <1>5, <1>y
  <2> HIDE DEF d, w
  <2> QED BY <1>5, <2>1, <2>2, <2>3 DEF DataOK
<1> HIDE DEF d, w
<1>9. d # NoDataref
  BY <1>8, TypesKnown
<1>10. echoed' = << >>
  BY <1>1, <1>3 DEF ViewInv
<1> QED BY <1>3, <1>8, <1>9, <1>10 DEF ViewInv

\* A write that leaves the views right echoes them.
LEMMA WroteStep ==
  ASSUME NEW d, NEW source, Wrote(d, source), DataOK(d, written')
  PROVE  ViewInv'
<1>1. dataref' = d /\ (echoed' # << >> => echoed' = dump_values(d))
  BY DEF Wrote
<1>2. d # NoDataref
  BY TypesKnown
<1> QED BY <1>1, <1>2 DEF ViewInv

\* A value that is written to an integer type is an integer.
LEMMA SuitableValues ==
  ASSUME NEW type, NEW value \in Suitable(type)
  PROVE  ValueFits(type, value)
  BY DatarefValuesAssumption DEF Suitable, ValueFits, Even

\* drci_simple_update and drci_array_update: all views show the values written.
LEMMA WriteStep ==
  ASSUME ViewInv, Write
  PROVE  ViewInv'
<1>1. dataref # NoDataref /\ DataOK(dataref, written)
  BY DEF Write, ViewInv
<1>2. PICK type \in dataref.types, source \in {"owner", "other", "xplane"} :
         \/ \E value \in Suitable(type) : drci_simple_set(type, value, source)
         \/ \E n \in 1 .. MaxLength + 1 : \E values \in [1 .. n -> Suitable(type)], offset \in 0 .. MaxLength :
              drci_array_update(type, values, offset, source)
  BY DEF Write
<1>3. CASE \E value \in Suitable(type) : drci_simple_set(type, value, source)
  <2>1. PICK value \in Suitable(type) : drci_simple_set(type, value, source)
    BY <1>3
  <2>2. ValueFits(type, value)
    BY SuitableValues
  <2>3. type \in simple_types /\ Wrote(apply_value(dataref, type, value, 0), source)
        /\ written' = WrittenAt(written, type, value, 0)
    BY <2>1 DEF drci_simple_set, WrittenAt
  <2>4. 0 \in Kept(dataref)
    <3>1. dataref.types \subseteq simple_types
      BY <2>3, <1>1, TypesKnown DEF simple_types, array_types
    <3> QED BY <3>1, <1>1, TypesKnown
  <2>5. DataOK(apply_value(dataref, type, value, 0), WrittenAt(written, type, value, 0))
    BY <1>1, <2>2, <2>4, ValueApplied
  <2> QED BY <2>3, <2>5, WroteStep
<1>4. CASE \E n \in 1 .. MaxLength + 1 : \E values \in [1 .. n -> Suitable(type)], offset \in 0 .. MaxLength :
              drci_array_update(type, values, offset, source)
  <2>1. PICK n \in 1 .. MaxLength + 1, offset \in 0 .. MaxLength :
           \E values \in [1 .. n -> Suitable(type)] : drci_array_update(type, values, offset, source)
    BY <1>4
  <2>2. PICK values \in [1 .. n -> Suitable(type)] : drci_array_update(type, values, offset, source)
    BY <2>1
  <2>3. n \in Nat /\ offset \in Nat
    BY DatarefValuesAssumption
  <2>4. Len(values) = n
    BY <2>3
  <2> DEFINE m == Available(dataref, offset, n)
  <2>5. type \in array_types /\ m > 0 /\ Wrote(Applied(dataref, type, values, offset, m)[m], source)
        /\ written' = WrittenTo(written, type, values, offset, m)
    BY <2>2, <2>4 DEF drci_array_update, WrittenTo
  <2>6. dataref.types \subseteq array_types /\ dataref.length \in Int
    BY <2>5, <1>1, TypesKnown DEF simple_types, array_types, DataOK
  <2>7. Kept(dataref) = 0 .. dataref.length - 1
    BY <2>6, <1>1, TypesKnown
  <2>8. m \in Nat /\ m <= n /\ m <= dataref.length - offset
    BY <2>3, <2>5, <2>6 DEF Available
  <2> HIDE DEF m
  <2>9. ASSUME NEW k \in 1 .. m
        PROVE  ValueFits(type, values[k]) /\ offset + k - 1 \in Kept(dataref)
    <3>1. k \in 1 .. n
      BY <2>3, <2>8
    <3>2. values[k] \in Suitable(type)
      BY <3>1
    <3>3. offset + k - 1 \in 0 .. dataref.length - 1
      BY <2>3, <2>6, <2>8
    <3> QED BY <3>2, <3>3, <2>7, SuitableValues
  <2>10. DataOK(Applied(dataref, type, values, offset, m)[m], WrittenTo(written, type, values, offset, m))
    BY <1>1, <2>3, <2>8, <2>9, ValuesApplied
  <2> QED BY <2>5, <2>10, WroteStep
<1> QED BY <1>2, <1>3, <1>4

\* Every step keeps the invariant.
LEMMA ViewStep == ViewInv /\ [DatarefNext]_datarefVars => ViewInv'
<1> SUFFICES ASSUME ViewInv, [DatarefNext]_datarefVars PROVE ViewInv'
  OBVIOUS
<1>1. CASE Create
  BY <1>1, CreateStep
<1>2. CASE Write
  BY <1>2, WriteStep
<1>3. CASE drci_destroy
  BY <1>3 DEF drci_destroy, ViewInv
<1>4. CASE UNCHANGED datarefVars
  BY <1>4, ViewStutters
<1> QED BY <1>1, <1>2, <1>3, <1>4 DEF DatarefNext

\* The inductive invariant of a dataref that DRCI provides: every view shows
\* the last value written at every position, converted as its mode asks for
\* (command_drci.c).
THEOREM ViewInvariant == DatarefSpec => []ViewInv
  BY ViewInitially, ViewStep, PTL DEF DatarefSpec

-----------------------------------------------------------------------------
\* What a view shows at a position.
LEMMA ViewAt ==
  ASSUME DataOK(dataref, written), NEW type \in dataref.types, NEW k \in Kept(dataref)
  PROVE  dataref.stored[type][k] = ExpectedView(type, k)
<1>1. type \in Views(dataref.types)
  BY TypesKnown
<1>2. dataref.stored = [v \in Views(dataref.types) |-> [j \in Kept(dataref) |-> Shown(v, written[j], dataref.mode)]]
  BY DEF DataOK
<1>3. dataref.stored[type][k] = Shown(type, written[k], dataref.mode)
  BY <1>1, <1>2
<1> QED BY <1>3 DEF Shown, ExpectedView

\* drci_simple_get returns what the view shows.
LEMMA SimpleReads ==
  ASSUME DataOK(dataref, written), NEW type \in dataref.types \intersect simple_types
  PROVE  drci_simple_get(type) = [ok |-> TRUE, values |-> <<ExpectedView(type, 0)>>]
<1>1. dataref.types \subseteq simple_types
  BY TypesKnown DEF simple_types, array_types
<1>2. 0 \in Kept(dataref)
  BY <1>1, TypesKnown
<1>3. dataref.stored[type][0] = ExpectedView(type, 0)
  BY <1>2, ViewAt
<1> QED BY <1>3 DEF drci_simple_get

\* Reading count values from offset on returns what the view shows there.
ReadsRight(type, offset, count) ==
  LET r == drci_array_get(type, offset, count)
      inside == {k \in DOMAIN written : offset <= k /\ k < offset + count}
  IN  /\ r.ok = (count = 0 \/ inside # {})
      /\ DOMAIN r.values = {k - offset + 1 : k \in inside}
      /\ \A k \in inside : r.values[k - offset + 1] = ExpectedView(type, k)
      /\ drci_array_length(type) = dataref.length

\* drci_array_get returns what the view shows, cut at the end of the array.
LEMMA ArrayReads ==
  ASSUME DataOK(dataref, written), NEW type \in dataref.types \intersect array_types, NEW offset \in Nat, NEW count \in Nat
  PROVE  ReadsRight(type, offset, count)
<1> DEFINE r == drci_array_get(type, offset, count)
           inside == {k \in DOMAIN written : offset <= k /\ k < offset + count}
           length == dataref.length
           n == Available(dataref, offset, count)
<1>1. dataref.types \subseteq array_types /\ length \in Int
  BY TypesKnown DEF simple_types, array_types, DataOK
<1>2. Kept(dataref) = 0 .. length - 1 /\ length \in Nat
  BY <1>1, TypesKnown
<1>3. DOMAIN written = 0 .. length - 1
  BY <1>2 DEF DataOK
<1>4. drci_array_length(type) = length
  BY DEF drci_array_length
<1>5. n \in Nat /\ n <= count /\ (n > 0 => n <= length - offset)
      /\ (n = 0 <=> (count = 0 \/ length - offset < 1))
      /\ \A k \in Int : (k \in 0 .. length - 1 /\ offset <= k /\ k < offset + count) <=> (offset <= k /\ k < offset + n)
  BY <1>2 DEF Available
<1> HIDE DEF n, length
<1>6. inside = offset .. offset + n - 1
  <2>1. \A k \in inside : k \in offset .. offset + n - 1
    BY <1>2, <1>3, <1>5
  <2>2. \A k \in offset .. offset + n - 1 : k \in inside
    BY <1>2, <1>3, <1>5
  <2> QED BY <2>1, <2>2
<1> HIDE DEF inside
<1>7. {k - offset + 1 : k \in inside} = 1 .. n
  <2>1. \A k \in inside : k - offset + 1 \in 1 .. n
    BY <1>5, <1>6
  <2>2. \A j \in 1 .. n : offset + j - 1 \in inside /\ (offset + j - 1) - offset + 1 = j
    BY <1>5, <1>6
  <2> QED BY <2>1, <2>2
<1>8. CASE n = 0
  <2>1. r.values = << >> /\ r.ok = (count = 0)
    BY <1>5, <1>8 DEF drci_array_get, ReadError, n
  <2>2. inside = {}
    BY <1>6, <1>8
  <2>3. DOMAIN r.values = 1 .. n
    BY <2>1, <1>8
  <2> QED BY <2>1, <2>2, <2>3, <1>4, <1>7 DEF ReadsRight, inside, length
<1>9. CASE n # 0
  <2>1. count # 0
    BY <1>5, <1>9
  <2>2. r.ok = TRUE /\ r.values = [k \in 1 .. n |-> dataref.stored[type][offset + k - 1]]
    BY <2>1, <1>9 DEF drci_array_get, n
  <2>3. inside # {}
    <3>1. offset \in inside
      BY <1>5, <1>6, <1>9
    <3> QED BY <3>1
  <2>4. ASSUME NEW k \in inside PROVE r.values[k - offset + 1] = ExpectedView(type, k)
    <3>1. k - offset + 1 \in 1 .. n /\ offset + (k - offset + 1) - 1 = k
      BY <1>5, <1>6
    <3>2. k \in Kept(dataref)
      BY <1>2, <1>3 DEF inside
    <3>3. dataref.stored[type][k] = ExpectedView(type, k)
      BY <3>2, ViewAt
    <3> QED BY <3>1, <3>3, <2>2
  <2>5. DOMAIN r.values = 1 .. n
    BY <2>2
  <2> HIDE DEF r
  <2> QED BY <2>1, <2>2, <2>3, <2>4, <2>5, <1>4, <1>7 DEF ReadsRight, inside, length, r
<1> QED BY <1>8, <1>9

\* What is sent to the owner names each type once, with the values its view
\* shows.
LEMMA EchoReads ==
  ASSUME DataOK(dataref, written), echoed = dump_values(dataref)
  PROVE  \E order \in [1 .. Len(echoed) -> dataref.types] :
           /\ \A type \in dataref.types : \E n \in DOMAIN order : order[n] = type
           /\ xprc_parse_types(order, FALSE) = dataref.types
           /\ \A n \in DOMAIN order : \A k \in DOMAIN written : echoed[n][k] = ExpectedView(order[n], k)
<1> DEFINE types == dataref.types
           order == xprc_encode_types(types)
           m == Len(order)
<1>1. types \subseteq simple_types \union array_types
  BY TypesKnown
<1>2. Enumerates(order, types)
  BY <1>1, TypesEncoded
<1> HIDE DEF order
<1>3. order \in Seq(types) /\ m \in Nat /\ DOMAIN order = 1 .. m /\ order \in [1 .. m -> types]
  BY <1>2 DEF Enumerates
<1>4. echoed = [n \in 1 .. m |-> dataref.stored[order[n]]]
  BY <1>3 DEF dump_values, order
<1> HIDE DEF m, types
<1>5. Len(echoed) = m
  BY <1>3, <1>4
<1>6. (\A type \in types : \E n \in 1 .. m : order[n] = type) /\ \A n, k \in 1 .. m : order[n] = order[k] => n = k
  BY <1>2 DEF Enumerates, m
<1>7. xprc_parse_types(order, FALSE) = types
  <2>1. \A n \in 1 .. m : order[n] \in types
    BY <1>3
  <2>2. {order[n] : n \in 1 .. m} = types
    BY <1>6, <2>1
  <2> QED BY <2>1, <2>2, <1>1, <1>3, <1>6 DEF xprc_parse_types
<1>8. DOMAIN written = Kept(dataref)
  BY DEF DataOK
<1>9. ASSUME NEW n \in 1 .. m, NEW k \in DOMAIN written PROVE echoed[n][k] = ExpectedView(order[n], k)
  <2>1. order[n] \in dataref.types
    BY <1>3 DEF types
  <2>2. dataref.stored[order[n]][k] = ExpectedView(order[n], k)
    BY <2>1, <1>8, ViewAt
  <2> QED BY <2>2, <1>4
<1>10. order \in [1 .. Len(echoed) -> dataref.types] /\ DOMAIN order = 1 .. m
  BY <1>3, <1>5 DEF types
<1>11. /\ \A type \in dataref.types : \E n \in DOMAIN order : order[n] = type
       /\ xprc_parse_types(order, FALSE) = dataref.types
       /\ \A n \in DOMAIN order : \A k \in DOMAIN written : echoed[n][k] = ExpectedView(order[n], k)
  BY <1>6, <1>7, <1>9, <1>10 DEF types
<1> QED BY <1>10, <1>11, Zenon

\* For every set of types, length, mode and order of writes, reading a dataref
\* by any of its types gives the last value written, converted for that type,
\* and the owner is told the same (command_drci.c).
THEOREM ViewsStayInAgreement == DatarefSpec => []ViewsAgree
<1>1. ViewInv => ViewsAgree
  <2> SUFFICES ASSUME ViewInv, dataref # NoDataref PROVE ViewsAgree
    BY DEF ViewsAgree
  <2>1. DataOK(dataref, written) /\ (echoed # << >> => echoed = dump_values(dataref))
    BY DEF ViewInv
  <2>2. \A type \in dataref.types \intersect simple_types :
          drci_simple_get(type) = [ok |-> TRUE, values |-> <<ExpectedView(type, 0)>>]
    BY <2>1, SimpleReads
  <2>3. \A type \in dataref.types \intersect array_types, offset, count \in 0 .. MaxLength + 1 :
          ReadsRight(type, offset, count)
    <3>1. 0 .. MaxLength + 1 \subseteq Nat
      BY DatarefValuesAssumption
    <3> QED BY <2>1, <3>1, ArrayReads
  <2> QED BY <2>1, <2>2, <2>3, EchoReads DEF ViewsAgree, ReadsRight
<1> QED BY <1>1, ViewInvariant, PTL

-----------------------------------------------------------------------------
(* DRMU (command_drmu.c).                                                    *)

\* Types of a DRMU command and of its channel (command_drmu_t).
Updates ==
  [scheduled : {TRUE}, method : {"immediate", "linear"}, monitor : {"none", "set", "get"},
   integer : BOOLEAN, interval : Intervals, intervalFrames : BOOLEAN,
   duration : Durations, durationFrames : BOOLEAN, fetched : FetchedSets,
   base_time : Int, remaining : Int, duration_frames : Nat,
   initialized : BOOLEAN, failed : BOOLEAN, update_base : BOOLEAN, cycle_complete : BOOLEAN, done : BOOLEAN,
   base : [Updated -> Int], buffer : [Updated -> Int], timestamp : Nat]

Replies ==
  [state : {"none", "requested", "confirmed", "finished", "error"}, by : {"", "update", "request", "term"},
   data : [Updated -> Int \union {NoValue}], time : Nat, mode : {"none", "set", "get"}]

\* Types of DRMU's state (command_drmu_t).
UpdateTypeOK ==
  /\ update \in Updates \union {NoUpdate}
  /\ clock \in Int /\ setBacks \in Nat
  /\ dataValue \in [Updated -> Int] /\ wrote \in [Updated -> Int \union {NoValue}]
  /\ reply \in Replies

\* What a command that has not failed knows of what it wrote.
OnLine ==
  update.scheduled /\ ~update.failed =>
    /\ \A d \in Updated : wrote[d] # NoValue => Between(wrote[d], update.base[d], Target)
    /\ update.done => /\ update.initialized
                      /\ \A d \in Updated : wrote[d] = Target
                      /\ update.monitor = "set" => \A d \in Updated : update.buffer[d] = Target

\* Datarefs of integers hold whole numbers.
WholeData ==
  update.scheduled /\ update.integer =>
    AllWhole /\ \A d \in Updated : Whole(dataValue[d]) /\ Whole(update.base[d])

\* The inductive invariant of DRMU.
UpdateInv ==
  /\ UpdateTypeOK
  /\ OnLine
  /\ WholeData
  /\ reply.state = "none" => wrote = NoData /\ \A d \in Updated : dataValue[d] = 0
  /\ update.scheduled => /\ reply.mode = update.monitor
                         /\ reply.state # "none"
                         /\ ~(reply.state = "finished" /\ reply.by = "update")
  /\ reply.state = "finished" /\ reply.by = "update" =>
       /\ \A d \in Updated : wrote[d] = Target
       /\ reply.mode = "set" =>
            \/ \A d \in Updated : reply.data[d] = Target
            \/ reply.data = NoData /\ reply.time = 0

-----------------------------------------------------------------------------

\* A part of a distance is not longer than the distance, nor in the other
\* direction.
LEMMA ScaledBetween ==
  ASSUME NEW x \in Int, NEW p \in Nat, NEW n \in Nat \ {0}, p < n
  PROVE  /\ (x * p) \div n \in Int
         /\ Between((x * p) \div n, 0, x)
<1> DEFINE q == (x * p) \div n
<1>1. x * p \in Int /\ q \in Int
  OBVIOUS
<1>2. q * n <= x * p /\ x * p < q * n + n
  <2> DEFINE m == x * p
  <2>1. m \in Int BY <1>1
  <2> HIDE DEF m
  <2>2. (m \div n) * n <= m /\ m < (m \div n) * n + n
    BY <2>1
  <2> QED BY <2>2 DEF m
<1>3. CASE x >= 0
  <2>1. 0 <= x * p /\ x * p <= x * n
    BY <1>3
  <2>2. q >= 0
    <3>1. SUFFICES ASSUME q <= -1 PROVE FALSE
      BY <1>1
    <3>2. q * n <= -n
      BY <3>1, <1>1
    <3> QED BY <3>2, <2>1, <1>2, <1>1
  <2>3. q <= x
    <3>1. SUFFICES ASSUME q >= x + 1 PROVE FALSE
      BY <1>1
    <3>2. q * n >= x * n + n
      BY <3>1, <1>1
    <3> QED BY <3>2, <2>1, <1>2, <1>1
  <2> QED BY <2>2, <2>3, <1>1 DEF Between
<1>4. CASE x < 0
  <2>1. x * p <= 0 /\ x * n <= x * p
    BY <1>4
  <2>2. q <= 0
    <3>1. SUFFICES ASSUME q >= 1 PROVE FALSE
      BY <1>1
    <3>2. q * n >= n
      BY <3>1, <1>1
    <3> QED BY <3>2, <2>1, <1>2, <1>1
  <2>3. q >= x
    <3>1. SUFFICES ASSUME q <= x - 1 PROVE FALSE
      BY <1>1
    <3>2. q * n <= x * n - n
      BY <3>1, <1>1
    <3> QED BY <3>2, <2>1, <1>2, <1>1
  <2> QED BY <2>2, <2>3, <1>1 DEF Between
<1> QED BY <1>1, <1>3, <1>4

\* Multiples of the scale are whole.
LEMMA WholeMultiple ==
  ASSUME NEW v \in Int
  PROVE  /\ v \div Scale \in Int
         /\ v = (v \div Scale) * Scale + (v % Scale) /\ v % Scale \in 0..(Scale - 1)
         /\ Whole(v * Scale)
<1>1. Scale \in Nat \ {0}
  BY DatarefUpdateAssumption
<1>2. v = (v \div Scale) * Scale + (v % Scale) /\ v % Scale \in 0..(Scale - 1) /\ v \div Scale \in Int
  BY <1>1, Division
<1>3. (v * Scale) % Scale = 0
  <2> DEFINE m == v * Scale
             q == m \div Scale
             r == m % Scale
  <2>0. m \in Int
    BY <1>1
  <2>1. q \in Int /\ r \in 0..(Scale - 1) /\ m = q * Scale + r
    <3> HIDE DEF m
    <3> QED BY <2>0, <1>1, Division
  <2>2. (v - q) * Scale = r
    <3> HIDE DEF q, r
    <3> QED BY <2>1, <1>1 DEF m
  <2>3. v - q = 0
    <3> HIDE DEF q, r
    <3>1. ~(v - q >= 1)
      <4>1. SUFFICES ASSUME v - q >= 1 PROVE FALSE
        OBVIOUS
      <4>2. (v - q) * Scale >= Scale
        BY <4>1, <2>1, <1>1
      <4> QED BY <4>2, <2>2, <2>1, <1>1
    <3>2. ~(v - q <= -1)
      <4>1. SUFFICES ASSUME v - q <= -1 PROVE FALSE
        OBVIOUS
      <4>2. (v - q) * Scale <= -Scale
        BY <4>1, <2>1, <1>1
      <4> QED BY <4>2, <2>2, <2>1, <1>1
    <3> QED BY <3>1, <3>2, <2>1
  <2>4. r = 0
    <3> HIDE DEF q, r
    <3> QED BY <2>1, <2>2, <2>3, <1>1
  <2> QED BY <2>4
<1> QED BY <1>2, <1>3 DEF Whole

\* Rounding does not leave an interval with whole ends.
LEMMA RoundedBetween ==
  ASSUME NEW v \in Int, NEW a \in Int, NEW b \in Int, Whole(a), Whole(b), Between(v, a, b)
  PROVE  lrint(v) \in Int /\ Whole(lrint(v)) /\ Between(lrint(v), a, b)
<1> DEFINE w == v \div Scale
           i == a \div Scale
           j == b \div Scale
           r == v % Scale
<1>1. Scale \in Nat \ {0}
  BY DatarefUpdateAssumption
<1>2. w \in Int /\ v = w * Scale + r /\ r \in 0..(Scale - 1)
  BY WholeMultiple
<1>3. i \in Int /\ a = i * Scale /\ j \in Int /\ b = j * Scale
  <2>1. i \in Int /\ a = i * Scale + (a % Scale) /\ a % Scale = 0
    BY WholeMultiple DEF Whole
  <2>2. j \in Int /\ b = j * Scale + (b % Scale) /\ b % Scale = 0
    BY WholeMultiple DEF Whole
  <2> HIDE DEF i, j
  <2> QED BY <2>1, <2>2, <1>1
<1>4. \/ lrint(v) = w * Scale
      \/ lrint(v) = (w + 1) * Scale /\ r # 0
  <2>1. CASE 2 * (v % Scale) > Scale \/ (2 * (v % Scale) = Scale /\ w % 2 = 1)
    <3>1. v % Scale # 0
      BY <2>1, <1>1
    <3>2. lrint(v) = (w + 1) * Scale
      BY <2>1 DEF lrint
    <3> QED BY <3>1, <3>2
  <2>2. CASE ~(2 * (v % Scale) > Scale \/ (2 * (v % Scale) = Scale /\ w % 2 = 1))
    <3>2. lrint(v) = w * Scale
      BY <2>2 DEF lrint
    <3> QED BY <3>2
  <2> QED BY <2>1, <2>2
<1> HIDE DEF w, i, j, r
<1>5. ASSUME NEW k \in Int, NEW l \in Int, l * Scale <= v, v <= k * Scale
      PROVE  l * Scale <= lrint(v) /\ lrint(v) <= k * Scale
  <2>1. l <= w
    <3>1. SUFFICES ASSUME l >= w + 1 PROVE FALSE
      BY <1>2
    <3>2. l * Scale >= w * Scale + Scale
      BY <3>1, <1>1, <1>2
    <3> QED BY <3>2, <1>5, <1>1, <1>2
  <2>2. l * Scale <= w * Scale
    BY <2>1, <1>1, <1>2
  <2>3. w <= k
    <3>1. SUFFICES ASSUME w >= k + 1 PROVE FALSE
      BY <1>2
    <3>2. w * Scale >= k * Scale + Scale
      BY <3>1, <1>1, <1>2
    <3> QED BY <3>2, <1>5, <1>1, <1>2
  <2>4. CASE lrint(v) = w * Scale
    <3>1. w * Scale <= k * Scale
      BY <2>3, <1>1, <1>2
    <3> QED BY <3>1, <2>4, <2>2
  <2>5. CASE lrint(v) = (w + 1) * Scale /\ r # 0
    <3>1. w + 1 <= k
      <4>1. SUFFICES ASSUME w = k PROVE FALSE
        BY <2>3, <1>2
      <4> QED BY <4>1, <2>5, <1>2, <1>5, <1>1
    <3>2. (w + 1) * Scale <= k * Scale
      BY <3>1, <1>1, <1>2
    <3>3. (w + 1) * Scale = w * Scale + Scale
      BY <1>1, <1>2
    <3> QED BY <3>2, <3>3, <2>5, <2>2, <1>1, <1>2
  <2> QED BY <2>4, <2>5, <1>4
<1>6. lrint(v) \in Int /\ Whole(lrint(v))
  <2>1. w + 1 \in Int /\ (w + 1) * Scale \in Int /\ w * Scale \in Int
    BY <1>1, <1>2
  <2>2. Whole(w * Scale) /\ Whole((w + 1) * Scale)
    BY WholeMultiple, <2>1, <1>2
  <2> QED BY <2>1, <2>2, <1>4
<1>7. CASE a <= v /\ v <= b
  <2>1. i * Scale <= v /\ v <= j * Scale
    BY <1>3, <1>7
  <2>2. i * Scale <= lrint(v) /\ lrint(v) <= j * Scale
    BY <2>1, <1>3, <1>5, Zenon
  <2> QED BY <2>2, <1>3, <1>6 DEF Between
<1>8. CASE b <= v /\ v <= a
  <2>1. j * Scale <= v /\ v <= i * Scale
    BY <1>3, <1>8
  <2>2. j * Scale <= lrint(v) /\ lrint(v) <= i * Scale
    BY <2>1, <1>3, <1>5, Zenon
  <2> QED BY <2>2, <1>3, <1>6 DEF Between
<1> QED BY <1>6, <1>7, <1>8 DEF Between

\* The interpolated value is between base and target (drmu_linear).
LEMMA LinearBetween ==
  ASSUME NEW u \in Updates, NEW b \in Int, ~TargetReached(u), clock \in Int,
         u.integer => Whole(b) /\ Whole(Target)
  PROVE  /\ Linear(u, b) \in Int /\ Between(Linear(u, b), b, Target)
         /\ u.integer => Whole(Linear(u, b))
<1> DEFINE p == Progress(u)
           n == u.duration
           q == ((Target - b) * p) \div n
<1>1. n \in Nat \ {0} /\ Target \in Int
  BY DatarefUpdateAssumption DEF Updates
<1>2. p \in Nat
  BY <1>1 DEF Progress, SinceBase, Greater, Updates
<1>3. p < n
  BY <1>1, <1>2 DEF TargetReached
<1> HIDE DEF p, n
<1>4. q \in Int /\ Between(q, 0, Target - b)
  <2> DEFINE x == Target - b
  <2>1. x \in Int BY <1>1
  <2> HIDE DEF x
  <2>2. (x * p) \div n \in Int /\ Between((x * p) \div n, 0, x)
    BY <2>1, <1>1, <1>2, <1>3, ScaledBetween
  <2> QED BY <2>2 DEF x
<1>5. Linear(u, b) = IF u.integer THEN lrint(b + q) ELSE b + q
  BY Zenon DEF Linear, p, n
<1> HIDE DEF q
<1>6. b + q \in Int /\ Between(b + q, b, Target)
  BY <1>1, <1>4 DEF Between
<1>7. CASE u.integer
  <2>1. lrint(b + q) \in Int /\ Whole(lrint(b + q)) /\ Between(lrint(b + q), b, Target)
    BY <1>1, <1>6, <1>7, RoundedBetween
  <2>2. Linear(u, b) = lrint(b + q)
    BY <1>5, <1>7
  <2> QED BY <2>1, <2>2
<1>8. CASE ~u.integer
  <2>2. Linear(u, b) = b + q
    BY <1>5, <1>8
  <2> QED BY <2>2, <1>6, <1>8
<1> QED BY <1>7, <1>8

\* What the steps before a frame's datarefs leave alone.
SameUpdate(u, v) ==
  /\ v \in Updates
  /\ v.base = u.base /\ v.buffer = u.buffer /\ v.integer = u.integer /\ v.monitor = u.monitor
  /\ v.failed = u.failed /\ v.done = u.done /\ v.interval = u.interval

\* drmu_initialize leaves the options alone, ...
LEMMA InitializedSame ==
  ASSUME NEW u \in Updates
  PROVE  SameUpdate(u, Initialized(u)) /\ Initialized(u).initialized
  BY ZenonT(40) DEF SameUpdate, Initialized, Updates

\* ... so does waiting for the time of the first update, ...
LEMMA WaitedSame ==
  ASSUME NEW u \in Updates, clock \in Int
  PROVE  SameUpdate(u, Waited(u)) /\ Waited(u).initialized = u.initialized
<1>0. u.interval \in Nat
  BY DatarefUpdateAssumption DEF Updates
<1>1. CASE u.interval = 0
  BY <1>1 DEF Waited, SameUpdate
<1>2. CASE u.interval # 0 /\ u.intervalFrames
  <2> DEFINE m == IF Restarting(u) THEN u.interval ELSE u.remaining - 1
             t == IF Restarting(u) THEN clock ELSE u.base_time
  <2>1. m \in Int /\ t \in Int
    BY <1>0 DEF Updates
  <2>2. Waited(u) = [u EXCEPT !.remaining = m, !.base_time = t]
    BY <1>2 DEF Waited
  <2> HIDE DEF m, t
  <2> QED BY <2>1, <2>2 DEF Updates, SameUpdate
<1>3. CASE u.interval # 0 /\ ~u.intervalFrames
  <2> DEFINE t == u.base_time + u.interval * (SinceBase(u) \div u.interval)
  <2>1. t \in Int
    BY <1>0, <1>3 DEF Updates, SinceBase, Greater
  <2>2. Waited(u) = [u EXCEPT !.base_time = t]
    BY <1>3 DEF Waited
  <2> HIDE DEF t
  <2> QED BY <2>1, <2>2 DEF Updates, SameUpdate
<1> QED BY <1>1, <1>2, <1>3

\* ... a restart, ...
LEMMA RestartedSame ==
  ASSUME NEW u \in Updates
  PROVE  SameUpdate(u, Restarted(u)) /\ Restarted(u).initialized = u.initialized
  BY DEF SameUpdate, Restarted, Updates

\* ... counting, ...
LEMMA CountedSame ==
  ASSUME NEW u \in Updates
  PROVE  SameUpdate(u, Counted(u)) /\ Counted(u).initialized = u.initialized
<1> DEFINE m == u.duration_frames + 1
<1>1. m \in Nat
  BY DEF Updates
<1>2. Counted(u) = u \/ Counted(u) = [u EXCEPT !.duration_frames = m]
  BY DEF Counted
<1> HIDE DEF m
<1> QED BY <1>1, <1>2, ZenonT(40) DEF SameUpdate, Updates

\* ... and all of them together, at the begin of a frame.
LEMMA BegunSame ==
  ASSUME update \in Updates, clock \in Int
  PROVE  SameUpdate(update, Begun) /\ Begun.initialized
<1> DEFINE i == Initialized(update)
           w == Waited(i)
           s == IF Restarting(i) THEN Restarted(w) ELSE w
<1>1. SameUpdate(update, i) /\ i.initialized
  BY InitializedSame
<1>2. i \in Updates
  BY <1>1 DEF SameUpdate
<1>3. Begun = Counted(s)
  BY DEF Begun
<1>4. SameUpdate(i, w) /\ w.initialized = i.initialized
  BY <1>2, WaitedSame
<1>5. w \in Updates
  BY <1>4 DEF SameUpdate
<1> HIDE DEF w, i
<1>6. SameUpdate(w, s) /\ s.initialized = w.initialized
  <2>1. CASE Restarting(i)
    BY <1>5, <2>1, RestartedSame
  <2>2. CASE ~Restarting(i)
    BY <1>5, <2>2 DEF SameUpdate
  <2> QED BY <2>1, <2>2
<1>7. s \in Updates
  BY <1>6 DEF SameUpdate
<1> HIDE DEF s
<1>8. SameUpdate(s, Begun) /\ Begun.initialized = s.initialized
  BY <1>3, <1>7, CountedSame
<1> QED BY <1>1, <1>4, <1>6, <1>8 DEF SameUpdate

\* No command runs at first.
LEMMA UpdateInitially == UpdateInit => UpdateInv
<1> SUFFICES ASSUME UpdateInit PROVE UpdateInv
  OBVIOUS
<1>1. /\ update = NoUpdate /\ clock = 0 /\ setBacks = 0 /\ wrote = NoData
      /\ dataValue = [d \in Updated |-> 0]
      /\ reply = [state |-> "none", by |-> "", data |-> NoData, time |-> 0, mode |-> "none"]
  BY Zenon DEF UpdateInit
<1>2. NoData \in [Updated -> Int \union {NoValue}]
  BY DEF NoData
<1>3. dataValue \in [Updated -> Int] /\ \A d \in Updated : dataValue[d] = 0
  <2>1. [d \in Updated |-> 0] \in [Updated -> Int] /\ \A e \in Updated : [d \in Updated |-> 0][e] = 0
    OBVIOUS
  <2> QED BY <2>1, <1>1, Zenon
<1>4. reply \in Replies /\ reply.state = "none"
  BY <1>1, <1>2 DEF Replies
<1>5. ~update.scheduled
  BY <1>1 DEF NoUpdate
<1>6. UpdateTypeOK
  <2>1. 0 \in Int /\ 0 \in Nat
    OBVIOUS
  <2> QED BY <2>1, <1>1, <1>2, <1>3, <1>4, Zenon DEF UpdateTypeOK
<1> QED BY <1>1, <1>3, <1>4, <1>5, <1>6, Zenon DEF UpdateInv, OnLine, WholeData

\* The command is not touched.
LEMMA UpdateStutters ==
  ASSUME UpdateInv, UNCHANGED <<update, wrote, reply>>, clock' \in Int, setBacks' \in Nat,
         dataValue' \in [Updated -> Int], reply.state = "none" => UNCHANGED dataValue,
         update.scheduled /\ update.integer => \A d \in Updated : Whole(dataValue'[d])
  PROVE  UpdateInv'
<1>1. UpdateTypeOK'
  BY DEF UpdateInv, UpdateTypeOK
<1>2. OnLine' /\ WholeData'
  BY DEF UpdateInv, OnLine, WholeData
<1> QED BY <1>1, <1>2 DEF UpdateInv

\* Time passes, is set back, or another plugin writes to the datarefs.
LEMMA EnvironmentSteps == UpdateInv /\ (tick \/ clock_set_back \/ other_plugin_writes) => UpdateInv'
<1> SUFFICES ASSUME UpdateInv, tick \/ clock_set_back \/ other_plugin_writes PROVE UpdateInv'
  OBVIOUS
<1>0. UpdateTypeOK
  BY DEF UpdateInv
<1>1. CASE tick
  <2>1. clock' \in Int /\ UNCHANGED <<update, setBacks, dataValue, wrote, reply>>
    BY <1>0, <1>1 DEF tick, UpdateTypeOK
  <2> QED BY <2>1, <1>0, UpdateStutters DEF UpdateTypeOK, UpdateInv, WholeData
<1>2. CASE clock_set_back
  <2>1. clock' \in Int /\ setBacks' \in Nat /\ UNCHANGED <<update, dataValue, wrote, reply>>
    BY <1>0, <1>2 DEF clock_set_back, UpdateTypeOK
  <2> QED BY <2>1, <1>0, UpdateStutters DEF UpdateTypeOK, UpdateInv, WholeData
<1>3. CASE other_plugin_writes
  <2>1. PICK d \in Updated, v \in OtherValues : dataValue' = [dataValue EXCEPT ![d] = v]
    BY <1>3 DEF other_plugin_writes
  <2>2. update.scheduled /\ UNCHANGED <<update, clock, setBacks, wrote, reply>>
    BY <1>3 DEF other_plugin_writes
  <2>3. v \in Int /\ dataValue' \in [Updated -> Int]
    BY <2>1, <1>0, DatarefUpdateAssumption DEF UpdateTypeOK
  <2>4. update.integer => \A e \in Updated : Whole(dataValue'[e])
    BY <2>1, <2>2, <1>0 DEF UpdateInv, WholeData, AllWhole, UpdateTypeOK
  <2> QED BY <2>2, <2>3, <2>4, <1>0, UpdateStutters DEF UpdateTypeOK, UpdateInv
<1> QED BY <1>1, <1>2, <1>3

\* drmu_create accepts the options of a request.
LEMMA RequestStep == UpdateInv /\ Request => UpdateInv'
<1> SUFFICES ASSUME UpdateInv, Request PROVE UpdateInv'
  OBVIOUS
<1>0. UpdateTypeOK
  BY DEF UpdateInv
<1>1. update = NoUpdate /\ reply.state = "none" /\ clock \in Nat
  BY <1>0 DEF Request, UpdateTypeOK
<1>2. wrote = NoData /\ dataValue \in [Updated -> Int] /\ \A d \in Updated : dataValue[d] = 0
  BY <1>0, <1>1 DEF UpdateInv, UpdateTypeOK
<1>3. NoData \in [Updated -> Int \union {NoValue}]
  BY DEF NoData
<1>4. ~NoUpdate.scheduled
  BY DEF NoUpdate
<1>5. CASE drmu_create_fails
  <2> DEFINE r == [reply EXCEPT !.state = "error", !.by = "request", !.data = NoData]
  <2>1. reply' = r /\ UNCHANGED <<update, clock, setBacks, dataValue, wrote>>
    <3>1. clock >= 0 /\ reply \in Replies
      BY <1>0, <1>1 DEF UpdateTypeOK
    <3> QED BY <3>1, <1>5 DEF drmu_create_fails, Closed, Replies
  <2>2. r \in Replies /\ r.state = "error"
    BY <1>0, <1>3 DEF UpdateTypeOK, Replies
  <2> HIDE DEF r
  <2>3. UpdateTypeOK'
    BY <2>1, <2>2, <1>0 DEF UpdateTypeOK
  <2> QED BY <2>1, <2>2, <2>3, <1>1, <1>4 DEF UpdateInv, OnLine, WholeData
<1>6. ASSUME NEW o \in Options, Canonical(o), drmu_create(o) PROVE UpdateInv'
  <2> DEFINE u == NewUpdate(o)
             r == [reply EXCEPT !.state = "requested", !.mode = o.monitor]
  <2>1. update' = u /\ reply' = r /\ UNCHANGED <<clock, setBacks, dataValue, wrote>>
    BY <1>6 DEF drmu_create
  <2>2. u \in Updates
    BY <1>1, DatarefUpdateAssumption DEF NewUpdate, Options, Updates
  <2>3. /\ u.scheduled /\ ~u.done /\ u.monitor = o.monitor /\ u.integer = o.integer
        /\ \A d \in Updated : u.base[d] = GivenBase
    BY DEF NewUpdate
  <2>4. r \in Replies /\ r.state = "requested" /\ r.mode = o.monitor
    BY <1>0 DEF UpdateTypeOK, Replies, Options
  <2> HIDE DEF u, r
  <2>5. UpdateTypeOK'
    BY <2>1, <2>2, <2>4, <1>0 DEF UpdateTypeOK
  <2>6. OnLine'
    BY <2>1, <2>3, <1>2 DEF OnLine, NoData
  <2>7. WholeData'
    <3>1. Whole(0)
      BY DatarefUpdateAssumption DEF Whole
    <3> QED BY <3>1, <2>1, <2>3, <1>2, <1>6 DEF WholeData, Canonical, AllWhole
  <2> QED BY <2>1, <2>3, <2>4, <2>5, <2>6, <2>7 DEF UpdateInv
<1>7. ASSUME NEW o \in Options, NEW bad \in SUBSET Updated, complete_without_schedule(o, bad) PROVE UpdateInv'
  <2> DEFINE direct == [d \in Updated |-> IF d \in bad THEN dataValue[d] ELSE Target]
  <2>1. /\ dataValue' = direct
        /\ wrote' = [d \in Updated |-> IF d \in bad THEN NoValue ELSE Target]
        /\ UNCHANGED <<update, clock, setBacks>>
    BY <1>7 DEF complete_without_schedule
  <2>2. reply' = IF bad # {} THEN [reply EXCEPT !.state = "error", !.by = "update"]
                  ELSE [state |-> "finished", by |-> "update", time |-> clock, mode |-> o.monitor,
                        data |-> IF o.monitor = "none" THEN NoData ELSE direct]
    BY <1>7 DEF complete_without_schedule
  <2>3. direct \in [Updated -> Int] /\ wrote' \in [Updated -> Int \union {NoValue}]
    BY <2>1, <1>2, DatarefUpdateAssumption
  <2>4. bad = {} => \A d \in Updated : direct[d] = Target /\ wrote'[d] = Target
    BY <2>1
  <2> HIDE DEF direct
  <2>5. CASE bad # {}
    <3> DEFINE r == [reply EXCEPT !.state = "error", !.by = "update"]
    <3>1. reply' = r
      BY <2>2, <2>5
    <3>2. r \in Replies /\ r.state = "error"
      BY <1>0 DEF UpdateTypeOK, Replies
    <3> HIDE DEF r
    <3>3. UpdateTypeOK'
      BY <3>1, <3>2, <2>1, <2>3, <1>0 DEF UpdateTypeOK
    <3> QED BY <2>1, <3>1, <3>2, <3>3, <1>1, <1>4 DEF UpdateInv, OnLine, WholeData
  <2>6. CASE bad = {}
    <3> DEFINE x == IF o.monitor = "none" THEN NoData ELSE direct
               r == [state |-> "finished", by |-> "update", time |-> clock, mode |-> o.monitor, data |-> x]
    <3>1. reply' = r
      BY <2>2, <2>6
    <3>2. x \in [Updated -> Int \union {NoValue}]
      BY <2>3, <1>3
    <3>3. r.mode = "set" => \A d \in Updated : r.data[d] = Target
      BY <2>4, <2>6
    <3> HIDE DEF x
    <3>4. r \in Replies /\ r.state = "finished"
      BY <3>2, <1>1 DEF Replies, Options
    <3> HIDE DEF r
    <3>5. UpdateTypeOK'
      BY <3>1, <3>4, <2>1, <2>3, <1>0 DEF UpdateTypeOK
    <3> QED BY <2>1, <2>4, <2>6, <3>1, <3>3, <3>4, <3>5, <1>1, <1>4 DEF UpdateInv, OnLine, WholeData
  <2> QED BY <2>5, <2>6
<1> QED BY <1>5, <1>6, <1>7 DEF Request

\* What closing and confirming leave of the channel.
LEMMA ClosedReply ==
  ASSUME NEW r \in Replies, NEW how \in {"finished", "error"}, NEW by \in {"update", "term"}
  PROVE  /\ Closed(r, how, by) \in Replies /\ Closed(r, how, by).mode = r.mode
         /\ r.state # "none" => Closed(r, how, by).state # "none"
         /\ Closed(r, how, by).state = "none" => r.state = "none"
         /\ \/ Closed(r, how, by) = r
            \/ /\ Closed(r, how, by).state = how /\ Closed(r, how, by).by = by
               /\ Closed(r, how, by).data = NoData /\ r.state \in {"requested", "confirmed"}
<1>1. NoData \in [Updated -> Int \union {NoValue}]
  BY DEF NoData
<1>2. CASE r.state \in {"requested", "confirmed"} /\ clock >= 0
  <2> DEFINE c == [r EXCEPT !.state = how, !.by = by, !.data = NoData]
  <2>1. Closed(r, how, by) = c
    BY <1>2 DEF Closed
  <2>2. c \in Replies /\ c.mode = r.mode /\ c.state = how /\ c.by = by /\ c.data = NoData
    BY <1>1 DEF Replies
  <2> HIDE DEF c
  <2> QED BY <2>1, <2>2, <1>2
<1>3. CASE ~(r.state \in {"requested", "confirmed"} /\ clock >= 0)
  BY <1>3 DEF Closed
<1> QED BY <1>2, <1>3

\* Confirming leaves the rest of the channel alone.
LEMMA ConfirmedReply ==
  ASSUME NEW r \in Replies
  PROVE  /\ Confirmed(r) \in Replies /\ Confirmed(r).mode = r.mode
         /\ Confirmed(r) = r \/ Confirmed(r).state = "confirmed"
  BY DEF Confirmed, Replies

\* A step that fails the command and says so, or not.
LEMMA FailingStep ==
  ASSUME UpdateInv, update \in Updates, NEW u \in Updates, update' = u, u.failed,
         u.monitor = update.monitor, u.integer = update.integer,
         u.integer => \A d \in Updated : Whole(u.base[d]) /\ Whole(dataValue'[d]),
         dataValue' \in [Updated -> Int], wrote' \in [Updated -> Int \union {NoValue}],
         UNCHANGED <<clock, setBacks>>, reply' \in Replies, reply'.mode = reply.mode,
         reply' = reply \/ reply'.state \in {"error", "confirmed"}
  PROVE  UpdateInv'
<1>1. UpdateTypeOK'
  BY DEF UpdateInv, UpdateTypeOK
<1>2. u.scheduled /\ update.scheduled /\ u.monitor = update.monitor /\ u.integer = update.integer
  BY DEF Updates
<1>3. OnLine' /\ WholeData'
  BY <1>2 DEF OnLine, WholeData, UpdateInv
<1> QED BY <1>1, <1>2, <1>3 DEF UpdateInv

\* A dataref that cannot be initialized fails the command.
LEMMA InitializeFailsStep == UpdateInv /\ initialize_fails => UpdateInv'
<1> SUFFICES ASSUME UpdateInv, initialize_fails PROVE UpdateInv'
  OBVIOUS
<1>0. UpdateTypeOK /\ update.scheduled
  BY DEF UpdateInv, initialize_fails
<1>1. update \in Updates /\ reply \in Replies
  BY <1>0 DEF UpdateTypeOK, NoUpdate
<1> DEFINE u == [update EXCEPT !.failed = TRUE]
<1>2. update' = u /\ reply' = Closed(reply, "error", "update") /\ UNCHANGED <<clock, setBacks, dataValue, wrote>>
  BY DEF initialize_fails
<1>3. u \in Updates /\ u.failed /\ u.base = update.base /\ u.integer = update.integer
  BY <1>1 DEF Updates
<1>4. u.monitor = update.monitor
  BY <1>1 DEF Updates
<1>5. reply' \in Replies /\ reply'.mode = reply.mode /\ (reply' = reply \/ reply'.state \in {"error", "confirmed"})
  BY <1>1, <1>2, ClosedReply
<1> HIDE DEF u
<1>6. u.integer => \A d \in Updated : Whole(u.base[d]) /\ Whole(dataValue'[d])
  BY <1>0, <1>2, <1>3 DEF UpdateInv, WholeData
<1> QED BY <1>0, <1>1, <1>2, <1>3, <1>4, <1>5, <1>6, FailingStep DEF UpdateTypeOK

\* What a frame reads, submits and writes: the value submitted is between the
\* one read and the target, and whole if the datarefs are.
LEMMA FrameValues ==
  ASSUME NEW u \in Updates, NEW bad \in SUBSET Updated, clock \in Int, dataValue \in [Updated -> Int],
         u.integer => AllWhole /\ \A d \in Updated : Whole(dataValue[d]) /\ Whole(u.base[d])
  PROVE  /\ read_dataref(u) \in [Updated -> Int] /\ SubmittedValues(u) \in [Updated -> Int]
         /\ write_dataref(SubmittedValues(u), bad) \in [Updated -> Int]
         /\ u.integer => \A d \in Updated : /\ Whole(read_dataref(u)[d])
                                           /\ Whole(write_dataref(SubmittedValues(u), bad)[d])
         /\ \A d \in Updated : Between(SubmittedValues(u)[d], read_dataref(u)[d], Target)
         /\ TargetReached(u) => \A d \in Updated : SubmittedValues(u)[d] = Target
<1>0. Target \in Int /\ (u.integer => Whole(Target))
  BY DatarefUpdateAssumption DEF AllWhole
<1> DEFINE b == read_dataref(u)
           v == SubmittedValues(u)
<1>1. b \in [Updated -> Int]
  BY DEF read_dataref, Updates
<1>2. u.integer => \A d \in Updated : Whole(b[d])
  BY DEF read_dataref
<1>3. \A d \in Updated : v[d] = IF TargetReached(u) THEN Target ELSE Linear(u, b[d])
  BY DEF SubmittedValues
<1>4. v = [d \in Updated |-> v[d]]
  BY DEF SubmittedValues
<1> HIDE DEF b, v
<1>5. ASSUME NEW d \in Updated
      PROVE  v[d] \in Int /\ Between(v[d], b[d], Target) /\ (u.integer => Whole(v[d]))
  <2>1. CASE TargetReached(u)
    <3>1. v[d] = Target BY <2>1, <1>3
    <3>2. Between(Target, b[d], Target)
      BY <1>0, <1>1 DEF Between
    <3> QED BY <3>1, <3>2, <1>0
  <2>2. CASE ~TargetReached(u)
    <3>1. v[d] = Linear(u, b[d]) BY <2>2, <1>3
    <3>2. b[d] \in Int /\ (u.integer => Whole(b[d]))
      BY <1>1, <1>2
    <3>3. Linear(u, b[d]) \in Int /\ Between(Linear(u, b[d]), b[d], Target) /\ (u.integer => Whole(Linear(u, b[d])))
      BY <3>2, <1>0, <2>2, LinearBetween
    <3> QED BY <3>1, <3>3
  <2> QED BY <2>1, <2>2
<1>6. v \in [Updated -> Int]
  BY <1>4, <1>5
<1>7. write_dataref(v, bad) \in [Updated -> Int]
  BY <1>6 DEF write_dataref
<1>8. u.integer => \A d \in Updated : Whole(write_dataref(v, bad)[d])
  BY <1>5 DEF write_dataref
<1> QED BY <1>1, <1>2, <1>3, <1>5, <1>6, <1>7, <1>8 DEF b, v

\* What the command knows after a frame.
LEMMA FrameCommand ==
  ASSUME NEW u \in Updates, NEW bad \in SUBSET Updated, clock \in Nat,
         NEW submitted \in [Updated -> Int], NEW after \in [Updated -> Int],
         read_dataref(u) \in [Updated -> Int]
  PROVE  LET a == AfterFrame(u, submitted, after, bad)
         IN  /\ a \in Updates /\ a.base = read_dataref(u) /\ a.monitor = u.monitor /\ a.integer = u.integer
             /\ a.initialized = u.initialized /\ a.interval = u.interval
             /\ a.done => TargetReached(u)
             /\ a.failed <=> bad # {}
             /\ a.monitor = "set" => a.buffer = submitted
<1> DEFINE m == IF u.monitor = "none" THEN u.buffer ELSE MonitorValues(u, submitted, after)
           t == TargetReached(u)
           f == bad # {}
           d == t /\ u.interval = 0
           x == f /\ u.update_base
<1>1. m \in [Updated -> Int]
  BY DEF MonitorValues, Updates
<1>2. u.monitor = "set" => m = submitted
  BY DEF MonitorValues
<1>3. t \in BOOLEAN /\ f \in BOOLEAN /\ d \in BOOLEAN /\ x \in BOOLEAN
  <2>1. t \in BOOLEAN
    <3> HIDE DEF t
    <3>0. u.duration \in Nat
      BY DatarefUpdateAssumption DEF Updates
    <3>1. Progress(u) \in Int /\ u.duration \in Int
      BY <3>0 DEF Progress, SinceBase, Greater, Updates
    <3>2. (Progress(u) >= u.duration) \in BOOLEAN
      BY <3>1
    <3> QED BY <3>2, Zenon DEF t, TargetReached
  <2>2. f \in BOOLEAN
    BY Zenon
  <2>3. d \in BOOLEAN
    BY Zenon
  <2>4. x \in BOOLEAN
    BY Zenon
  <2> QED BY <2>1, <2>2, <2>3, <2>4
<1>4. AfterFrame(u, submitted, after, bad) =
        [u EXCEPT !.base = read_dataref(u), !.timestamp = clock, !.buffer = m,
                  !.cycle_complete = t, !.done = d, !.failed = f, !.update_base = x]
  BY Zenon DEF AfterFrame
<1>5. d => t
  OBVIOUS
<1> HIDE DEF m, t, f, d, x
<1> DEFINE b == read_dataref(u)
<1> HIDE DEF b
<1> DEFINE a == [u EXCEPT !.base = b, !.timestamp = clock, !.buffer = m,
                  !.cycle_complete = t, !.done = d, !.failed = f, !.update_base = x]
<1>6. b \in [Updated -> Int]
  BY DEF b
<1>7. /\ a \in Updates /\ a.base = b /\ a.monitor = u.monitor /\ a.integer = u.integer
      /\ a.initialized = u.initialized /\ a.interval = u.interval /\ a.buffer = m
  <2>1. /\ a.base = b /\ a.monitor = u.monitor /\ a.integer = u.integer
        /\ a.initialized = u.initialized /\ a.interval = u.interval /\ a.buffer = m
    BY DEF Updates
  <2>2. a \in Updates
    <3>1. ASSUME NEW w \in Updates, NEW y \in BOOLEAN
          PROVE  /\ [w EXCEPT !.cycle_complete = y] \in Updates
                 /\ [w EXCEPT !.done = y] \in Updates
                 /\ [w EXCEPT !.failed = y] \in Updates
                 /\ [w EXCEPT !.update_base = y] \in Updates
      BY ZenonT(40) DEF Updates
    <3> DEFINE a1 == [u EXCEPT !.base = b, !.timestamp = clock, !.buffer = m]
               a2 == [a1 EXCEPT !.cycle_complete = t]
               a3 == [a2 EXCEPT !.done = d]
               a4 == [a3 EXCEPT !.failed = f]
    <3>2. a1 \in Updates
      BY <1>1, <1>6 DEF Updates
    <3>3. a = [a4 EXCEPT !.update_base = x]
      BY Zenon
    <3> HIDE DEF a1
    <3>4. a2 \in Updates
      BY <3>1, <3>2, <1>3
    <3> HIDE DEF a2
    <3>5. a3 \in Updates
      BY <3>1, <3>4, <1>3
    <3> HIDE DEF a3
    <3>6. a4 \in Updates
      BY <3>1, <3>5, <1>3
    <3> HIDE DEF a4
    <3> QED BY <3>1, <3>3, <3>6, <1>3
  <2> QED BY <2>1, <2>2
<1>8. a.done = d /\ a.failed = f
  BY Zenon DEF Updates
<1>9. AfterFrame(u, submitted, after, bad) = a
  BY <1>4, Zenon DEF b
<1> HIDE DEF a
<1>10. (a.done => t) /\ (a.failed <=> f) /\ (a.monitor = "set" => a.buffer = submitted)
  BY <1>2, <1>5, <1>7, <1>8
<1> QED BY <1>7, <1>9, <1>10, Zenon DEF b, t, f

\* A frame that updates the datarefs, or fails at some of them.
LEMMA FrameUpdatesStep ==
  ASSUME UpdateInv, update \in Updates, ~update.failed, ~update.done, clock \in Nat,
         NEW bad \in SUBSET Updated, frame_updates(Begun, bad)
  PROVE  UpdateInv'
<1>0. UpdateTypeOK
  BY DEF UpdateInv
<1>1. PICK u \in Updates : u = Begun
  BY <1>0, BegunSame DEF UpdateTypeOK, SameUpdate
<1>2. SameUpdate(update, u) /\ u.initialized
  BY <1>0, <1>1, BegunSame DEF UpdateTypeOK
<1> DEFINE v == SubmittedValues(u)
           w == write_dataref(v, bad)
           a == AfterFrame(u, v, w, bad)
           b == read_dataref(u)
<1>3. /\ dataValue' = w /\ update' = a
      /\ wrote' = [d \in Updated |-> IF d \in bad THEN wrote[d] ELSE v[d]]
      /\ reply' = IF bad = {} THEN Confirmed(reply) ELSE Closed(Confirmed(reply), "error", "update")
      /\ UNCHANGED <<clock, setBacks>>
  BY <1>1, Zenon DEF frame_updates
<1>4. update.scheduled
  BY DEF Updates
<1>5. u.integer => AllWhole /\ \A d \in Updated : Whole(dataValue[d]) /\ Whole(u.base[d])
  BY <1>2, <1>4 DEF UpdateInv, WholeData, SameUpdate
<1>6. /\ b \in [Updated -> Int] /\ v \in [Updated -> Int] /\ w \in [Updated -> Int]
      /\ u.integer => \A d \in Updated : Whole(b[d]) /\ Whole(w[d])
      /\ \A d \in Updated : Between(v[d], b[d], Target)
      /\ TargetReached(u) => \A d \in Updated : v[d] = Target
  BY <1>0, <1>5, FrameValues DEF UpdateTypeOK
<1> HIDE DEF v, w
<1>7. /\ a \in Updates /\ a.base = b /\ a.monitor = u.monitor /\ a.integer = u.integer
      /\ a.initialized = u.initialized /\ a.interval = u.interval
      /\ a.done => TargetReached(u)
      /\ a.failed <=> bad # {}
      /\ a.monitor = "set" => a.buffer = v
  BY <1>6, FrameCommand
<1> HIDE DEF a, b
<1>8. wrote' \in [Updated -> Int \union {NoValue}]
  BY <1>0, <1>3, <1>6 DEF UpdateTypeOK
<1>9. reply \in Replies /\ reply.state # "none" /\ reply.mode = update.monitor
      /\ ~(reply.state = "finished" /\ reply.by = "update")
  BY <1>0, <1>4 DEF UpdateInv, UpdateTypeOK
<1> DEFINE c == Confirmed(reply)
<1>10. c \in Replies /\ c.mode = reply.mode /\ (c = reply \/ c.state = "confirmed")
  BY <1>9, ConfirmedReply
<1> HIDE DEF c
<1>11. reply' \in Replies /\ reply'.mode = reply.mode /\ (reply' = reply \/ reply'.state \in {"error", "confirmed"})
  <2>1. CASE bad = {}
    BY <2>1, <1>3, <1>10 DEF c
  <2>2. CASE bad # {}
    <3>1. reply' = Closed(c, "error", "update")
      BY <2>2, <1>3 DEF c
    <3> QED BY <3>1, <1>10, ClosedReply
  <2> QED BY <2>1, <2>2
<1>12. UpdateTypeOK'
  BY <1>0, <1>3, <1>6, <1>7, <1>8, <1>11 DEF UpdateTypeOK
<1>13. WholeData'
  BY <1>3, <1>5, <1>6, <1>7 DEF WholeData
<1>14. OnLine'
  <2>1. SUFFICES ASSUME ~a.failed
        PROVE  /\ \A d \in Updated : Between(wrote'[d], a.base[d], Target)
               /\ a.done => /\ a.initialized
                            /\ \A d \in Updated : wrote'[d] = Target
                            /\ a.monitor = "set" => \A d \in Updated : a.buffer[d] = Target
    BY <1>3 DEF OnLine
  <2>2. \A d \in Updated : wrote'[d] = v[d]
    BY <2>1, <1>3, <1>7
  <2> QED BY <2>2, <1>2, <1>6, <1>7
<1>15. a.monitor = update.monitor
  BY <1>2, <1>7 DEF SameUpdate
<1> QED BY <1>3, <1>9, <1>11, <1>12, <1>13, <1>14, <1>15 DEF UpdateInv

\* A frame of the flight loop keeps the invariant.
LEMMA FrameStep == UpdateInv /\ Frame => UpdateInv'
<1> SUFFICES ASSUME UpdateInv, Frame PROVE UpdateInv'
  OBVIOUS
<1>0. UpdateTypeOK /\ update.scheduled /\ ~update.failed /\ ~update.done
  BY DEF UpdateInv, Frame
<1>1. update \in Updates /\ reply \in Replies /\ clock \in Int
  BY <1>0 DEF UpdateTypeOK, NoUpdate
<1>2. CASE clock >= 0 /\ frame_waits(Begun)
  <2>1. PICK u \in Updates : u = Begun
    BY <1>1, BegunSame DEF SameUpdate
  <2>2. update' = u /\ UNCHANGED <<clock, setBacks, dataValue, wrote, reply>>
    BY <1>2, <2>1 DEF frame_waits
  <2>3. SameUpdate(update, u) /\ u.scheduled /\ u.initialized
    BY <1>1, <2>1, BegunSame DEF Updates
  <2>4. UpdateTypeOK'
    BY <1>0, <2>2 DEF UpdateTypeOK
  <2>5. OnLine' /\ WholeData'
    BY <1>0, <2>2, <2>3 DEF UpdateInv, OnLine, WholeData, SameUpdate
  <2> QED BY <1>0, <2>2, <2>3, <2>4, <2>5 DEF UpdateInv, SameUpdate
<1>3. ASSUME NEW bad \in SUBSET Updated, clock >= 0, frame_updates(Begun, bad) PROVE UpdateInv'
  <2>1. clock \in Nat
    BY <1>1, <1>3
  <2> QED BY <2>1, <1>0, <1>1, <1>3, FrameUpdatesStep
<1>4. CASE frame_without_time
  <2> DEFINE i == Initialized(update)
             u == [i EXCEPT !.failed = TRUE]
  <2>1. SameUpdate(update, i)
    BY <1>1, InitializedSame
  <2>2. update' = u /\ UNCHANGED <<clock, setBacks, dataValue, wrote, reply>>
    BY <1>4 DEF frame_without_time
  <2> HIDE DEF i
  <2>3. u \in Updates /\ u.failed /\ u.base = update.base /\ u.integer = update.integer
    BY <2>1 DEF Updates, SameUpdate
  <2>4. u.monitor = update.monitor
    BY <2>1 DEF Updates, SameUpdate
  <2> HIDE DEF u
  <2>5. u.integer => \A d \in Updated : Whole(u.base[d]) /\ Whole(dataValue'[d])
    BY <1>0, <2>2, <2>3 DEF UpdateInv, WholeData
  <2> QED BY <1>0, <1>1, <2>2, <2>3, <2>4, <2>5, FailingStep DEF UpdateTypeOK
<1> QED BY <1>2, <1>3, <1>4 DEF Frame

\* Post-processing reports and closes the channel; it touches no dataref.
LEMMA PostStep == UpdateInv /\ drmu_process_post => UpdateInv'
<1> SUFFICES ASSUME UpdateInv, drmu_process_post PROVE UpdateInv'
  OBVIOUS
<1>0. UpdateTypeOK /\ update.scheduled
  BY DEF UpdateInv, drmu_process_post
<1>1. /\ update \in Updates /\ reply \in Replies /\ reply.mode = update.monitor /\ reply.state # "none"
      /\ ~(reply.state = "finished" /\ reply.by = "update")
  BY <1>0 DEF UpdateTypeOK, NoUpdate, UpdateInv
<1> DEFINE failed == update.failed \/ (Submits /\ ~ChannelOpen)
           r == Submitted(reply)
<1>2. /\ reply' = IF failed THEN Closed(r, "error", "update")
                  ELSE IF update.done THEN [Closed(r, "finished", "update") EXCEPT !.time = update.timestamp]
                  ELSE r
      /\ update' = IF failed \/ update.done THEN NoUpdate
                   ELSE IF Submits THEN [update EXCEPT !.timestamp = 0] ELSE update
      /\ UNCHANGED <<clock, setBacks, dataValue, wrote>>
  BY Zenon DEF drmu_process_post
<1>3. ~NoUpdate.scheduled
  BY DEF NoUpdate
<1>4. CASE failed
  <2>1. r = reply
    BY <1>4 DEF Submitted, Submits
  <2>2. reply' = Closed(reply, "error", "update") /\ update' = NoUpdate
    BY <2>1, <1>2, <1>4
  <2>3. /\ reply' \in Replies /\ reply'.state # "none" /\ (reply' = reply \/ reply'.state = "error")
    BY <2>2, <1>1, ClosedReply
  <2>4. UpdateTypeOK'
    BY <2>2, <2>3, <1>0, <1>2 DEF UpdateTypeOK
  <2> QED BY <2>2, <2>3, <2>4, <1>1, <1>2, <1>3 DEF UpdateInv, OnLine, WholeData
<1>5. CASE ~failed /\ ~update.done
  <2>1. reply' = r
    BY <1>2, <1>5
  <2>2. update' = update \/ update' = [update EXCEPT !.timestamp = 0]
    BY <1>2, <1>5
  <2>3. /\ update' \in Updates /\ update'.scheduled = update.scheduled /\ update'.failed = update.failed
        /\ update'.done = update.done /\ update'.base = update.base /\ update'.integer = update.integer
        /\ update'.monitor = update.monitor
    <3> DEFINE u == [update EXCEPT !.timestamp = 0]
    <3>1. u \in Updates
      BY <1>1 DEF Updates
    <3>2. /\ u.scheduled = update.scheduled /\ u.failed = update.failed
          /\ u.done = update.done /\ u.base = update.base /\ u.integer = update.integer
          /\ u.monitor = update.monitor
      BY <1>1, Zenon DEF Updates
    <3> QED BY <2>2, <1>1, <3>1, <3>2, Zenon
  <2>4. r = reply \/ r = [reply EXCEPT !.data = update.buffer, !.time = update.timestamp]
    BY <1>5, <1>1 DEF Submitted, Replies
  <2>5. r \in Replies /\ r.state = reply.state /\ r.by = reply.by /\ r.mode = reply.mode
    <3>1. update.buffer \in [Updated -> Int \union {NoValue}] /\ update.timestamp \in Nat /\ reply \in Replies
      BY <1>1 DEF Updates
    <3> HIDE DEF r
    <3> QED BY ONLY <2>4, <3>1, ZenonT(40) DEF Replies
  <2>6. UpdateTypeOK'
    BY <2>1, <2>3, <2>5, <1>0, <1>2 DEF UpdateTypeOK
  <2>7. OnLine' /\ WholeData'
    BY <2>3, <1>2, <1>5 DEF UpdateInv, OnLine, WholeData
  <2> HIDE DEF r
  <2> QED BY <2>1, <2>3, <2>5, <2>6, <2>7, <1>0, <1>1, <1>2 DEF UpdateInv
<1>6. CASE ~failed /\ update.done
  <2> DEFINE c == Closed(r, "finished", "update")
  <2>1. update' = NoUpdate /\ reply' = [c EXCEPT !.time = update.timestamp]
    BY <1>2, <1>6
  <2>2. /\ ~update.failed /\ update.initialized /\ \A d \in Updated : wrote[d] = Target
        /\ update.monitor = "set" => \A d \in Updated : update.buffer[d] = Target
    BY <1>0, <1>6 DEF UpdateInv, OnLine
  <2>3. update.timestamp \in Nat /\ update.buffer \in [Updated -> Int \union {NoValue}]
    BY <1>1 DEF Updates
  <2>4. /\ r \in Replies /\ r.mode = reply.mode /\ r.state # "none"
        /\ \/ r = reply /\ (Submits => ~ChannelOpen)
           \/ r.state = "finished" /\ r.data = update.buffer
    <3>1. CASE ~Submits \/ ~ChannelOpen
      BY <3>1, <1>1 DEF Submitted
    <3>2. CASE Submits /\ ChannelOpen
      <4>1. r = [reply EXCEPT !.state = "finished", !.by = "update", !.data = update.buffer, !.time = update.timestamp]
        BY <3>2, <1>6 DEF Submitted
      <4> QED BY <4>1, <2>3, <1>1 DEF Replies
    <3> QED BY <3>1, <3>2
  <2> HIDE DEF r
  <2>5. /\ c \in Replies /\ c.mode = r.mode /\ c.state # "none"
        /\ \/ c = r
           \/ c.data = NoData /\ r.state \in {"requested", "confirmed"}
    BY <2>4, ClosedReply
  <2> HIDE DEF c
  <2>6. /\ reply' \in Replies /\ reply'.mode = c.mode /\ reply'.state = c.state /\ reply'.by = c.by
        /\ reply'.data = c.data /\ reply'.time = update.timestamp
    BY <2>1, <2>3, <2>5 DEF Replies
  <2>7. UpdateTypeOK'
    BY <2>1, <2>6, <1>0, <1>2 DEF UpdateTypeOK
  <2>8. ASSUME reply'.state = "finished", reply'.by = "update", reply'.mode = "set"
        PROVE  \/ \A d \in Updated : reply'.data[d] = Target
               \/ reply'.data = NoData /\ reply'.time = 0
    <3>0. update.monitor = "set"
      BY <2>8, <2>4, <2>5, <2>6, <1>1
    <3>1. CASE c = r /\ r.state = "finished" /\ r.data = update.buffer
      BY <3>0, <3>1, <2>2, <2>6
    <3>2. CASE c = r /\ r = reply
      BY <3>2, <2>8, <2>6, <1>1
    <3>3. CASE c.data = NoData /\ r.state \in {"requested", "confirmed"}
      <4>1. ~Submits
        BY <3>3, <2>4, <2>3 DEF ChannelOpen
      <4>2. ~(update.timestamp > 0)
        BY <4>1, <3>0, <2>2 DEF Submits
      <4> QED BY <4>2, <3>3, <2>3, <2>6
    <3> QED BY <3>1, <3>2, <3>3, <2>4, <2>5
  <2> QED BY <2>1, <2>2, <2>5, <2>6, <2>7, <2>8, <1>2, <1>3 DEF UpdateInv, OnLine, WholeData
<1> QED BY <1>4, <1>5, <1>6

\* Terminating takes the command out of the schedule and finishes it.
LEMMA TermSteps == UpdateInv /\ (term_finishes \/ term_unschedules) => UpdateInv'
<1> SUFFICES ASSUME UpdateInv, term_finishes \/ term_unschedules PROVE UpdateInv'
  OBVIOUS
<1>0. UpdateTypeOK /\ update.scheduled
  BY DEF UpdateInv, term_finishes, term_unschedules
<1>1. reply \in Replies
  BY <1>0 DEF UpdateTypeOK
<1>2. CASE term_finishes
  <2>1. reply' = Closed(reply, "finished", "term") /\ UNCHANGED <<update, clock, setBacks, dataValue, wrote>>
    BY <1>2 DEF term_finishes
  <2>2. /\ reply' \in Replies /\ reply'.mode = reply.mode /\ (reply.state # "none" => reply'.state # "none")
        /\ reply' = reply \/ reply'.by = "term"
    BY <2>1, <1>1, ClosedReply
  <2>3. UpdateTypeOK'
    BY <2>1, <2>2, <1>0 DEF UpdateTypeOK
  <2>4. OnLine' /\ WholeData'
    BY <2>1 DEF UpdateInv, OnLine, WholeData
  <2> QED BY <2>1, <2>2, <2>3, <2>4, <1>0 DEF UpdateInv
<1>3. CASE term_unschedules
  <2>1. update' = NoUpdate /\ UNCHANGED <<clock, setBacks, dataValue, wrote, reply>>
    BY <1>3 DEF term_unschedules
  <2>2. ~NoUpdate.scheduled
    BY DEF NoUpdate
  <2>3. UpdateTypeOK'
    BY <2>1, <1>0 DEF UpdateTypeOK
  <2> QED BY <2>1, <2>2, <2>3, <1>0 DEF UpdateInv, OnLine, WholeData
<1> QED BY <1>2, <1>3

\* The inductive invariant of DRMU: what the command wrote last is on its line,
\* whole where the dataref holds whole numbers, and the command is done only
\* at the target (command_drmu.c).
THEOREM UpdateInvariant == UpdateSpec => []UpdateInv
<1>1. UpdateInv /\ [UpdateNext]_updateVars => UpdateInv'
  <2> SUFFICES ASSUME UpdateInv, [UpdateNext]_updateVars PROVE UpdateInv'
    OBVIOUS
  <2>1. CASE UNCHANGED updateVars
    <3>1. UpdateTypeOK' /\ OnLine' /\ WholeData'
      BY <2>1 DEF updateVars, UpdateInv, UpdateTypeOK, OnLine, WholeData
    <3> QED BY <2>1, <3>1 DEF updateVars, UpdateInv
  <2> QED BY <2>1, EnvironmentSteps, RequestStep, InitializeFailsStep, FrameStep, PostStep, TermSteps DEF UpdateNext
<1> QED BY <1>1, UpdateInitially, PTL DEF UpdateSpec

\* Whatever other plugins write, however the clock is set back and wherever the
\* update starts, no value the command writes is outside the way from the base
\* to the target, and it ends at the target (command_drmu.c).
THEOREM UpdateKeepsToLine == UpdateSpec => []UpdateStaysOnLine
<1>1. UpdateInv => UpdateStaysOnLine
  <2> SUFFICES ASSUME UpdateInv PROVE UpdateStaysOnLine
    OBVIOUS
  <2>1. update.scheduled /\ ~update.failed =>
          \A d \in Updated : wrote[d] # NoValue => Between(wrote[d], update.base[d], Target)
    BY DEF UpdateInv, OnLine
  <2> QED BY <2>1, Zenon DEF UpdateInv, UpdateStaysOnLine
<1> QED BY <1>1, UpdateInvariant, PTL

-----------------------------------------------------------------------------
(* Settings (settings_manager.c).                                            *)

\* The settings being stored are valid; what is marked as stored is what the
\* files written so far hold.
StoredInv ==
  /\ result \in Saving => validate_settings(settings)
  /\ saved # NoFile =>
       /\ saved.auto_regen_password \/ passwordFile = saved.password
       /\ result \notin Saving =>
            settingsFile = serialize_server_settings(saved) /\ portFile = saved.network_port
       /\ result \in Saving => saved = settings /\ passwordFile = settings.password
       /\ result = "saving_settings" => portFile = settings.network_port

\* The inductive invariant of the settings.
SettingsInv == SettingsTypeOK /\ StoredInv /\ SettingsRoundTrip

\* The fields of the file, one by one.
LEMMA FieldsAre ==
  /\ FieldNames = {"auto_startup", "auto_regen_password", "log_level"}
  /\ DOMAIN Fields = 1..3
<1>1. DOMAIN Fields = 1..3  BY DEF Fields
<1>2. 1..3 = {1, 2, 3}  OBVIOUS
<1> QED BY <1>1, <1>2 DEF FieldNames, Fields

\* Settings with the same fields are the same.
LEMMA SameSettings ==
  ASSUME NEW r \in Settings, NEW s \in Settings,
         r.auto_startup = s.auto_startup, r.auto_regen_password = s.auto_regen_password,
         r.log_level = s.log_level, r.network_port = s.network_port, r.password = s.password
  PROVE  r = s
BY DEF Settings

\* The defaults are settings, and valid.
LEMMA FreshSettings ==
  ASSUME NEW p \in ValidPasswords
  PROVE  /\ create_settings(p) \in Settings /\ DefaultLevel \in ValidLevels
         /\ create_settings(p).password = p /\ create_settings(p).network_port = MinPort
         /\ create_settings(p).auto_regen_password = TRUE
<1>1. DefaultLevel \in ValidLevels  BY SettingsAssumption DEF DefaultLevel
<1> QED BY <1>1, SettingsAssumption DEF create_settings, Settings

\* A write that succeeds leaves the new content, one that fails the old or a
\* part of the new.
LEMMA WriteOutcome ==
  ASSUME NEW old, NEW new, NEW cut, NEW w \in Writes(old, new, cut)
  PROVE  /\ w.err \in BOOLEAN
         /\ ~w.err => w.content = new
         /\ w.content \in {old, new} \union cut
<1>1. CASE w = [err |-> FALSE, content |-> new]  BY <1>1
<1>2. CASE w = [err |-> TRUE, content |-> old]  BY <1>2
<1>3. ASSUME NEW c \in cut, w = [err |-> TRUE, content |-> c]
      PROVE  w.err = TRUE /\ w.content = c
  BY <1>3
<1>4. \/ w = [err |-> FALSE, content |-> new] \/ w = [err |-> TRUE, content |-> old]
      \/ \E c \in cut : w = [err |-> TRUE, content |-> c]
  BY Zenon DEF Writes
<1> QED BY <1>1, <1>2, <1>3, <1>4

\* What settings.cfg may hold after it was written, or a part of it.
LEMMA SerializedContents ==
  ASSUME NEW s \in Settings
  PROVE  /\ serialize_server_settings(s) \in FileContents
         /\ \A f \in FieldNames : serialize_server_settings(s)[f] = s[f]
BY FieldsAre DEF serialize_server_settings, FileContents, Settings

\* A file that is cut off still holds something for every field.
LEMMA CutContents ==
  ASSUME NEW s \in Settings
  PROVE  CutOff(s) \subseteq FileContents
<1> SUFFICES ASSUME NEW n \in 1..Len(Fields), NEW last \in NoValueRead \union Levels
             PROVE  CutInLine(s, n, last) \in FileContents
  BY DEF CutOff, NoValueRead
<1>1. /\ s["auto_startup"] \in BOOLEAN /\ s["auto_regen_password"] \in BOOLEAN /\ s["log_level"] \in Levels
  BY DEF Settings
<1> DEFINE Cut(f) == IF \E i \in 1..(n - 1) : Fields[i] = f THEN s[f]
                     ELSE IF f # Fields[n] THEN NoFile
                     ELSE IF last \in Levels /\ f # "log_level" THEN Unparsable ELSE last
<1>2. /\ Cut("auto_startup") \in BOOLEAN \union NoValueRead
      /\ Cut("auto_regen_password") \in BOOLEAN \union NoValueRead
      /\ Cut("log_level") \in Levels \union NoValueRead
  BY <1>1, Zenon DEF NoValueRead
<1> HIDE DEF Cut
<1>3. [f \in FieldNames |-> Cut(f)] \in FileContents
  BY <1>2, FieldsAre DEF FileContents
<1> QED BY <1>3, Zenon DEF Cut, CutInLine

\* Loading gives settings with the given password and the default port; without
\* an error the level is valid and the other fields are those of the file.
LEMMA LoadOutcome ==
  ASSUME settingsFile \in FileContents \union {NoFile}, NEW p \in ValidPasswords,
         NEW l, l = load_server_settings(create_settings(p))
  PROVE  /\ l.err \in BOOLEAN /\ l.settings \in Settings
         /\ l.settings.password = p /\ l.settings.network_port = MinPort
         /\ ~l.err => /\ l.settings.log_level \in ValidLevels
                      /\ settingsFile # NoFile
                      /\ \A f \in FieldNames :
                           settingsFile[f] \notin NoValueRead => l.settings[f] = settingsFile[f]
<1> DEFINE dest == create_settings(p)
           fresh == create_settings(dest.password)
           read == [f \in DOMAIN fresh |->
                      IF f \in FieldNames THEN deserialize_setting(fresh[f], settingsFile[f]) ELSE fresh[f]]
           whole == settingsFile # NoFile /\ \A f \in FieldNames : settingsFile[f] # Malformed
<1>1. /\ fresh \in Settings /\ fresh.password = p /\ fresh.network_port = MinPort
      /\ dest \in Settings /\ dest.password = p /\ dest.network_port = MinPort
  <2>1. dest \in Settings /\ dest.password = p /\ dest.network_port = MinPort  BY FreshSettings
  <2> HIDE DEF dest
  <2> QED BY <2>1, FreshSettings
<1>2. CASE ~whole
  BY <1>1, <1>2 DEF load_server_settings
<1>3. CASE whole
  <2>1. settingsFile \in FileContents  BY <1>3
  <2>2. DOMAIN fresh = {"auto_startup", "auto_regen_password", "log_level", "network_port", "password"}
    BY DEF create_settings
  <2>3. /\ read.auto_startup = deserialize_setting(fresh.auto_startup, settingsFile["auto_startup"])
        /\ read.auto_regen_password
             = deserialize_setting(fresh.auto_regen_password, settingsFile["auto_regen_password"])
        /\ read.log_level = deserialize_setting(fresh.log_level, settingsFile["log_level"])
        /\ read.network_port = fresh.network_port /\ read.password = fresh.password
    BY <2>2, FieldsAre
  <2>4. /\ settingsFile["auto_startup"] \in BOOLEAN \union NoValueRead
        /\ settingsFile["auto_regen_password"] \in BOOLEAN \union NoValueRead
        /\ settingsFile["log_level"] \in Levels \union NoValueRead
        /\ \A f \in FieldNames : settingsFile[f] # Malformed
    BY <2>1, <1>3 DEF FileContents
  <2>5. read.auto_startup \in BOOLEAN
    BY <2>3, <2>4, <1>1, FieldsAre DEF deserialize_setting, NoValueRead, Settings
  <2>6. read.auto_regen_password \in BOOLEAN
    BY <2>3, <2>4, <1>1, FieldsAre DEF deserialize_setting, NoValueRead, Settings
  <2>7. read.log_level \in Levels
    BY <2>3, <2>4, <1>1, FieldsAre DEF deserialize_setting, NoValueRead, Settings
  <2>8. read.network_port \in Ports /\ read.password \in Passwords
    BY <2>3, <1>1 DEF Settings
  <2>9. read \in Settings
    <3> DEFINE val(f) == IF f \in FieldNames THEN deserialize_setting(fresh[f], settingsFile[f]) ELSE fresh[f]
    <3>1. /\ val("auto_startup") \in BOOLEAN /\ val("auto_regen_password") \in BOOLEAN
          /\ val("log_level") \in Levels /\ val("network_port") \in Ports /\ val("password") \in Passwords
      BY <2>5, <2>6, <2>7, <2>8, <2>2
    <3> HIDE DEF val
    <3>2. [f \in {"auto_startup", "auto_regen_password", "log_level", "network_port", "password"} |-> val(f)] \in Settings
      BY <3>1 DEF Settings
    <3> QED BY <3>2, <2>2 DEF val
  <2>10. \A f \in FieldNames : settingsFile[f] \notin NoValueRead => read[f] = settingsFile[f]
    BY <2>2, FieldsAre DEF deserialize_setting, NoValueRead
  <2> HIDE DEF read, fresh, dest
  <2>11. /\ constrain_settings(read) \in Settings
         /\ constrain_settings(read).password = p /\ constrain_settings(read).network_port = MinPort
         /\ constrain_settings(read) = read => read.log_level \in ValidLevels
    <3>1. DefaultLevel \in ValidLevels /\ ValidLevels \subseteq Levels  BY FreshSettings, SettingsAssumption
    <3> QED BY <2>9, <2>3, <1>1, <3>1 DEF constrain_settings, Settings
  <2>12. /\ copy_settings(dest, constrain_settings(read)) \in Settings
         /\ copy_settings(dest, constrain_settings(read)) = constrain_settings(read)
    <3>1. copy_settings(dest, constrain_settings(read)) \in Settings
      BY <2>11, <1>1 DEF copy_settings, Settings
    <3>2. copy_settings(dest, constrain_settings(read)) = constrain_settings(read)
      BY <2>11, <1>1, <3>1, SameSettings DEF copy_settings, Settings
    <3> QED BY <3>1, <3>2
  <2>13. l = [err |-> \/ \E f \in FieldNames : settingsFile[f] = Unparsable
                      \/ constrain_settings(read) # read,
              settings |-> copy_settings(dest, constrain_settings(read))]
    BY <1>3, Zenon DEF load_server_settings, read, fresh, dest
  <2> QED BY <2>10, <2>11, <2>12, <2>13, <1>3
<1> QED BY <1>2, <1>3
\* settings.cfg on start-up: created with the defaults, or loaded.
LEMMA SettingsStored ==
  ASSUME SettingsTypeOK, NEW p \in ValidPasswords, NEW loaded \in StoredSettings(create_settings(p))
  PROVE  /\ loaded.load \in BOOLEAN /\ loaded.save \in BOOLEAN
         /\ loaded.file \in FileContents \union {NoFile}
         /\ loaded.settings \in Settings
         /\ loaded.settings.password = p /\ loaded.settings.network_port = MinPort
         /\ ~loaded.load => loaded.settings.log_level \in ValidLevels
         /\ FirstInitialization =>
              /\ loaded.settings = create_settings(p)
              /\ ~loaded.save => loaded.file = serialize_server_settings(create_settings(p))
         /\ ~FirstInitialization =>
              /\ loaded.file = settingsFile
              /\ ~loaded.load =>
                   /\ settingsFile # NoFile
                   /\ \A f \in FieldNames :
                        settingsFile[f] \notin NoValueRead => loaded.settings[f] = settingsFile[f]
<1> DEFINE fresh == create_settings(p)
<1>1. /\ fresh \in Settings /\ fresh.password = p /\ fresh.network_port = MinPort
      /\ fresh.log_level \in ValidLevels
  BY FreshSettings DEF create_settings
<1>2. settingsFile \in FileContents \union {NoFile}  BY DEF SettingsTypeOK
<1>3. CASE FirstInitialization
  <2>1. PICK w \in save_server_settings(fresh) :
          loaded = [load |-> FALSE, save |-> w.err, file |-> w.content, settings |-> fresh]
    BY <1>3, Zenon DEF StoredSettings
  <2> HIDE DEF fresh
  <2>2. /\ w.err \in BOOLEAN
        /\ ~w.err => w.content = serialize_server_settings(fresh)
        /\ w.content \in {settingsFile, serialize_server_settings(fresh)} \union CutOff(fresh)
    <3>1. w \in Writes(settingsFile, serialize_server_settings(fresh), CutOff(fresh))
      BY Zenon DEF save_server_settings
    <3> QED BY <3>1, WriteOutcome
  <2>3. w.content \in FileContents \union {NoFile}
    BY <1>1, <1>2, <2>2, SerializedContents, CutContents
  <2>4. /\ loaded.load = FALSE /\ loaded.save = w.err /\ loaded.file = w.content
        /\ loaded.settings = fresh
    BY <2>1
  <2>5. /\ loaded.settings \in Settings
        /\ loaded.settings.password = p /\ loaded.settings.network_port = MinPort
        /\ loaded.settings.log_level \in ValidLevels
    BY <1>1, <2>4
  <2>6. /\ loaded.save \in BOOLEAN
        /\ ~loaded.save => loaded.file = serialize_server_settings(fresh)
        /\ loaded.file \in FileContents \union {NoFile}
    BY <2>2, <2>3, <2>4, Zenon
  <2>7. loaded.load \in BOOLEAN  BY <2>4
  <2>8. loaded.settings = create_settings(p) /\ serialize_server_settings(fresh) = serialize_server_settings(create_settings(p))
    BY <2>4 DEF fresh
  <2> QED BY <1>3, <2>5, <2>6, <2>7, <2>8
<1>4. CASE ~FirstInitialization
  <2>1. PICK l \in {load_server_settings(fresh), Unreadable(fresh)} :
          loaded = [load |-> l.err, save |-> FALSE, file |-> settingsFile, settings |-> l.settings]
    BY <1>4, Zenon DEF StoredSettings
  <2>2. /\ loaded.load = l.err /\ loaded.save = FALSE /\ loaded.file = settingsFile
        /\ loaded.settings = l.settings
    BY <2>1
  <2>3. CASE l = load_server_settings(fresh)
    <3>1. /\ l.err \in BOOLEAN /\ l.settings \in Settings
          /\ l.settings.password = p /\ l.settings.network_port = MinPort
          /\ ~l.err => /\ l.settings.log_level \in ValidLevels
                       /\ settingsFile # NoFile
                       /\ \A f \in FieldNames :
                            settingsFile[f] \notin NoValueRead => l.settings[f] = settingsFile[f]
      <4>1. l = load_server_settings(create_settings(p))  BY <2>3
      <4> HIDE DEF fresh
      <4> QED BY <1>2, <4>1, LoadOutcome
    <3> QED BY <1>2, <1>4, <2>2, <3>1, Zenon
  <2>4. CASE l = Unreadable(fresh)
    <3>1. l.err = TRUE /\ l.settings = fresh  BY <2>4 DEF Unreadable
    <3> HIDE DEF fresh
    <3> QED BY <1>1, <1>2, <1>4, <2>2, <3>1
  <2> QED BY <2>1, <2>3, <2>4
<1> QED BY <1>3, <1>4

\* The password on start-up: the one in use is also the one in the file, unless
\* an error is reported.
LEMMA PasswordStored ==
  ASSUME SettingsTypeOK, NEW s \in Settings, NEW password \in StoredPassword(s)
  PROVE  /\ password.load \in BOOLEAN /\ password.save \in BOOLEAN
         /\ password.password \in Passwords /\ password.file \in Passwords \union {NoFile}
         /\ ~password.load /\ ~password.save => password.file = password.password
         /\ s.auto_regen_password => password.password = s.password
         /\ ~s.auto_regen_password /\ ~password.load => password.password = passwordFile
<1>1. s.password \in Passwords /\ passwordFile \in Passwords \union {NoFile} /\ s.auto_regen_password \in BOOLEAN
  BY DEF Settings, SettingsTypeOK
<1>2. CASE s.auto_regen_password
  <2>1. PICK w \in save_password(s) :
          password = [load |-> FALSE, save |-> w.err, file |-> w.content, password |-> s.password]
    BY <1>2, Zenon DEF StoredPassword
  <2>2. /\ w.err \in BOOLEAN
        /\ ~w.err => w.content = s.password
        /\ w.content \in {passwordFile, s.password} \union (Passwords \ ValidPasswords)
    <3>1. w \in Writes(passwordFile, s.password, Passwords \ ValidPasswords)  BY Zenon DEF save_password
    <3> QED BY <3>1, WriteOutcome
  <2>3. /\ password.load = FALSE /\ password.save = w.err /\ password.file = w.content
        /\ password.password = s.password
    BY <2>1
  <2>4. w.content \in Passwords \union {NoFile}  BY <1>1, <2>2
  <2>5. password.load \in BOOLEAN /\ password.save \in BOOLEAN  BY <2>2, <2>3
  <2>6. ~password.save => password.file = password.password  BY <2>2, <2>3, Zenon
  <2> QED BY <1>1, <1>2, <2>3, <2>4, <2>5, <2>6
<1>3. CASE ~s.auto_regen_password
  <2>1. CASE password = [load |-> TRUE, save |-> FALSE, file |-> passwordFile, password |-> s.password]
    <3>1. /\ password.load = TRUE /\ password.save = FALSE /\ password.file = passwordFile
          /\ password.password = s.password
      BY <2>1
    <3> QED BY <1>1, <1>3, <3>1
  <2>2. ASSUME NEW q \in {passwordFile} \ {NoFile},
               password = [load |-> FALSE, save |-> FALSE, file |-> q, password |-> q]
        PROVE  /\ password.load = FALSE /\ password.save = FALSE /\ password.file = passwordFile
               /\ password.password = passwordFile /\ passwordFile # NoFile
    BY <2>2
  <2>3. \/ password = [load |-> TRUE, save |-> FALSE, file |-> passwordFile, password |-> s.password]
        \/ \E q \in {passwordFile} \ {NoFile} :
             password = [load |-> FALSE, save |-> FALSE, file |-> q, password |-> q]
    BY <1>3, Zenon DEF StoredPassword
  <2> QED BY <1>1, <1>3, <2>1, <2>2, <2>3
<1> QED BY <1>1, <1>2, <1>3

\* The port on start-up, likewise.
LEMMA PortStored ==
  ASSUME SettingsTypeOK, NEW s \in Settings, NEW port \in StoredPort(s)
  PROVE  /\ port.save \in BOOLEAN /\ port.port \in Ports
         /\ port.file \in Ports \union {NoFile, Unparsable}
         /\ ~port.save => port.file = port.port /\ port.port \in MinPort..MaxPort
         /\ port.port \in {s.network_port, portFile}
<1>1. s.network_port \in Ports /\ portFile \in Ports \union {NoFile, Unparsable}
  BY DEF Settings, SettingsTypeOK
<1>2. ASSUME NEW w \in save_port(s),
             port = [save |-> w.err, file |-> w.content, port |-> s.network_port]
      PROVE  /\ port.save = w.err /\ port.file = w.content /\ port.port = s.network_port
             /\ w.err \in BOOLEAN
             /\ ~w.err => w.content = s.network_port /\ s.network_port \in MinPort..MaxPort
             /\ w.content \in Ports \union {NoFile, Unparsable}
  <2>1. port.save = w.err /\ port.file = w.content /\ port.port = s.network_port  BY <1>2
  <2>2. CASE s.network_port \in MinPort..MaxPort
    <3>1. w \in Writes(portFile, s.network_port, Ports \union {Unparsable})
      BY <2>2, Zenon DEF save_port
    <3> QED BY <1>1, <2>1, <2>2, <3>1, WriteOutcome
  <2>3. CASE s.network_port \notin MinPort..MaxPort
    <3>1. w = [err |-> TRUE, content |-> portFile]  BY <2>3, Zenon DEF save_port
    <3>2. w.err = TRUE /\ w.content = portFile  BY <3>1
    <3> QED BY <1>1, <2>1, <3>2
  <2> QED BY <2>2, <2>3
<1>3. ASSUME portFile \in MinPort..MaxPort, port = [save |-> FALSE, file |-> portFile, port |-> portFile]
      PROVE  /\ port.save = FALSE /\ port.file = portFile /\ port.port = portFile /\ portFile \in Ports
  BY <1>1, <1>3, SettingsAssumption
<1>4. \/ \E w \in save_port(s) : port = [save |-> w.err, file |-> w.content, port |-> s.network_port]
      \/ portFile \in MinPort..MaxPort /\ port = [save |-> FALSE, file |-> portFile, port |-> portFile]
  BY Zenon DEF StoredPort
<1> QED BY <1>1, <1>2, <1>3, <1>4
\* Success is only reported if everything was loaded or stored.
LEMMA ReportedIs ==
  ASSUME NEW loaded, NEW password, NEW port,
         loaded.load \in BOOLEAN, loaded.save \in BOOLEAN, password.load \in BOOLEAN,
         password.save \in BOOLEAN, port.save \in BOOLEAN,
         NEW r, r = Reported(loaded, password, port)
  PROVE  /\ r \in {"NONE", "NO_PREVIOUS_SETTINGS", "SETTINGS_REVERTED", "SETTINGS_NOT_SAVED",
                   "PASSWORD_INVALID", "PASSWORD_NOT_LOADED", "PASSWORD_NOT_SAVED", "PORT_NOT_SAVED"}
         /\ r \in {"NONE", "NO_PREVIOUS_SETTINGS"} =>
              /\ ~loaded.load /\ ~loaded.save /\ ~password.load /\ ~password.save /\ ~port.save
              /\ password.password \in ValidPasswords
              /\ r = "NO_PREVIOUS_SETTINGS" <=> FirstInitialization
<1>1. CASE loaded.load
  <2>1. r = "SETTINGS_REVERTED"  BY <1>1 DEF Reported
  <2> QED BY <2>1
<1>2. CASE ~loaded.load /\ password.password \notin ValidPasswords
  <2>1. r = "PASSWORD_INVALID"  BY <1>2 DEF Reported
  <2> QED BY <2>1
<1>3. CASE ~loaded.load /\ password.password \in ValidPasswords
  <2>1. r = IF password.load THEN "PASSWORD_NOT_LOADED"
            ELSE IF loaded.save THEN "SETTINGS_NOT_SAVED"
            ELSE IF password.save THEN "PASSWORD_NOT_SAVED"
            ELSE IF port.save THEN "PORT_NOT_SAVED"
            ELSE IF FirstInitialization THEN "NO_PREVIOUS_SETTINGS" ELSE "NONE"
    BY <1>3 DEF Reported
  <2> HIDE DEF FirstInitialization
  <2> QED BY <1>3, <2>1
<1> QED BY <1>1, <1>2, <1>3

\* Starting up keeps the invariant.
LEMMA ConfigureStep == ASSUME SettingsInv, configure_settings_manager_from_storage PROVE SettingsInv'
<1>1. SettingsTypeOK /\ StoredInv /\ result = "-"
  BY DEF SettingsInv, configure_settings_manager_from_storage
<1>2. PICK p \in ValidPasswords : \E loaded \in StoredSettings(create_settings(p)) :
        \E password \in StoredPassword(loaded.settings) : \E port \in StoredPort(loaded.settings) :
          Configured(loaded, password, port)
  BY Zenon DEF configure_settings_manager_from_storage
<1>20. PICK loaded \in StoredSettings(create_settings(p)) :
        \E password \in StoredPassword(loaded.settings) : \E port \in StoredPort(loaded.settings) :
          Configured(loaded, password, port)
  BY <1>2, Zenon
<1>21. PICK password \in StoredPassword(loaded.settings), port \in StoredPort(loaded.settings) :
         Configured(loaded, password, port)
  BY <1>20, Zenon
<1> DEFINE l == loaded.settings
           s == [l EXCEPT !.password = password.password, !.network_port = port.port]
<1>3. /\ settings' = s /\ settingsFile' = loaded.file /\ passwordFile' = password.file
      /\ portFile' = port.file /\ result' = Reported(loaded, password, port)
  BY <1>21 DEF Configured
<1>4. /\ result' = "NO_PREVIOUS_SETTINGS" => saved' = s
      /\ result' = "NONE" => \/ saved' = saved /\ portFile \in {port.file, NoFile}
                             \/ saved' = NoFile
      /\ result' \notin {"NONE", "NO_PREVIOUS_SETTINGS"} => saved' = NoFile
  BY <1>21 DEF Configured
<1>5. /\ loaded.load \in BOOLEAN /\ loaded.save \in BOOLEAN
      /\ loaded.file \in FileContents \union {NoFile}
      /\ l \in Settings /\ l.password = p /\ l.network_port = MinPort
      /\ ~loaded.load => l.log_level \in ValidLevels
      /\ FirstInitialization =>
           /\ l = create_settings(p)
           /\ ~loaded.save => loaded.file = serialize_server_settings(create_settings(p))
      /\ ~FirstInitialization =>
           /\ loaded.file = settingsFile
           /\ ~loaded.load =>
                /\ settingsFile # NoFile
                /\ \A f \in FieldNames : settingsFile[f] \notin NoValueRead => l[f] = settingsFile[f]
  BY <1>1, SettingsStored
<1>6. /\ password.load \in BOOLEAN /\ password.save \in BOOLEAN
      /\ password.password \in Passwords /\ password.file \in Passwords \union {NoFile}
      /\ ~password.load /\ ~password.save => password.file = password.password
      /\ l.auto_regen_password => password.password = l.password
      /\ ~l.auto_regen_password /\ ~password.load => password.password = passwordFile
  BY <1>1, <1>5, PasswordStored
<1>7. /\ port.save \in BOOLEAN /\ port.port \in Ports
      /\ port.file \in Ports \union {NoFile, Unparsable}
      /\ ~port.save => port.file = port.port /\ port.port \in MinPort..MaxPort
      /\ port.port \in {l.network_port, portFile}
  BY <1>1, <1>5, PortStored
<1>8. /\ s \in Settings
      /\ s.password = password.password /\ s.network_port = port.port /\ s.log_level = l.log_level
      /\ s.auto_startup = l.auto_startup /\ s.auto_regen_password = l.auto_regen_password
  <2> HIDE DEF l
  <2> QED BY <1>5, <1>6, <1>7 DEF Settings
<1> HIDE DEF l, s
<1>9. /\ result' \in {"NONE", "NO_PREVIOUS_SETTINGS", "SETTINGS_REVERTED", "SETTINGS_NOT_SAVED",
                   "PASSWORD_INVALID", "PASSWORD_NOT_LOADED", "PASSWORD_NOT_SAVED", "PORT_NOT_SAVED"}
      /\ result' \in {"NONE", "NO_PREVIOUS_SETTINGS"} =>
           /\ ~loaded.load /\ ~loaded.save /\ ~password.load /\ ~password.save /\ ~port.save
           /\ password.password \in ValidPasswords
           /\ result' = "NO_PREVIOUS_SETTINGS" <=> FirstInitialization
  BY <1>3, <1>5, <1>6, <1>7, ReportedIs
<1>10. SettingsTypeOK'
  <2>1. saved' \in Settings \union {NoFile}
    BY <1>1, <1>4, <1>8, <1>9 DEF SettingsTypeOK
  <2> QED BY <2>1, <1>3, <1>5, <1>6, <1>7, <1>8, <1>9 DEF SettingsTypeOK
<1>11. result' \notin Saving /\ result' # "-"
  BY <1>9 DEF Saving
<1>12. CASE result' = "NO_PREVIOUS_SETTINGS"
  <2>1. FirstInitialization /\ ~loaded.save /\ ~password.load /\ ~password.save /\ ~port.save
    BY <1>9, <1>12
  <2>2. saved' = s /\ settings' = s /\ saved'.auto_regen_password = TRUE
    BY <1>3, <1>4, <1>5, <1>8, <1>12, <2>1, FreshSettings
  <2>3. serialize_server_settings(s) = serialize_server_settings(create_settings(p))
    BY <1>5, <1>8, <2>1, FieldsAre DEF serialize_server_settings
  <2>4. settingsFile' = serialize_server_settings(saved') /\ portFile' = saved'.network_port
    BY <1>3, <1>5, <1>7, <1>8, <2>1, <2>2, <2>3
  <2>5. StoredInv'  BY <1>11, <2>2, <2>4 DEF StoredInv
  <2>6. [settings' EXCEPT !.password = saved'.password] = saved'
    BY <1>8, <2>2 DEF Settings
  <2>7. SettingsRoundTrip'  BY <1>12, <2>2, <2>6 DEF SettingsRoundTrip
  <2> QED BY <1>10, <2>5, <2>7 DEF SettingsInv
<1>13. CASE result' = "NONE"
  <2>1. /\ ~FirstInitialization /\ ~loaded.load /\ ~password.load /\ ~password.save /\ ~port.save
        /\ password.password \in ValidPasswords
    BY <1>9, <1>13
  <2>2. /\ validate_settings(settings')
        /\ passwordFile' = settings'.password /\ portFile' = settings'.network_port
    BY <1>3, <1>5, <1>6, <1>7, <1>8, <2>1 DEF validate_settings
  <2>3. CASE saved' = NoFile
    BY <1>10, <1>11, <2>2, <2>3 DEF SettingsInv, StoredInv, SettingsRoundTrip
  <2>4. CASE saved' # NoFile
    <3>1. saved' = saved /\ saved \in Settings /\ portFile \in {port.file, NoFile}
      BY <1>1, <1>4, <1>13, <2>4 DEF SettingsTypeOK
    <3>2. /\ saved.auto_regen_password \/ passwordFile = saved.password
          /\ settingsFile = serialize_server_settings(saved) /\ portFile = saved.network_port
      BY <1>1, <2>4, <3>1 DEF StoredInv, Saving
    <3>3. settingsFile' = serialize_server_settings(saved)
      BY <1>3, <1>5, <2>1, <3>2
    <3>4. portFile' = saved.network_port /\ s.network_port = saved.network_port
      <4>1. portFile # NoFile
        BY <3>1, <3>2, SettingsAssumption DEF Settings
      <4> QED BY <1>3, <1>7, <1>8, <2>1, <3>1, <3>2, <4>1
    <3>5. \A f \in FieldNames : saved[f] \notin NoValueRead
      BY <3>1, FieldsAre, SettingsAssumption DEF Settings, NoValueRead
    <3>6. \A f \in FieldNames : l[f] = saved[f]
      BY <1>5, <2>1, <3>1, <3>2, <3>5, SerializedContents
    <3>7. /\ s.auto_startup = saved.auto_startup /\ s.log_level = saved.log_level
          /\ s.auto_regen_password = saved.auto_regen_password
      BY <1>8, <3>6, FieldsAre
    <3>8. saved.auto_regen_password \/ (s.password = saved.password /\ passwordFile' = saved.password)
      BY <1>3, <1>6, <1>8, <2>1, <3>2, <3>7
    <3>9. [s EXCEPT !.password = saved.password] = saved
      <4>1. [s EXCEPT !.password = saved.password] \in Settings  BY <1>8, <3>1 DEF Settings
      <4> QED BY <1>8, <3>1, <3>4, <3>7, <4>1, SameSettings DEF Settings
    <3>10. StoredInv'
      <4>1. saved'.auto_regen_password \/ passwordFile' = saved'.password  BY <3>1, <3>8, Zenon
      <4>2. settingsFile' = serialize_server_settings(saved') /\ portFile' = saved'.network_port
        BY <3>1, <3>3, <3>4
      <4>3. result' # "saving_settings"  BY <1>11 DEF Saving
      <4> QED BY <1>11, <4>1, <4>2, <4>3, Zenon DEF StoredInv
    <3>11. SettingsRoundTrip'  BY <1>3, <2>2, <3>1, <3>8, <3>9 DEF SettingsRoundTrip
    <3> QED BY <1>10, <3>10, <3>11 DEF SettingsInv
  <2> QED BY <2>3, <2>4
<1>14. CASE result' \notin {"NONE", "NO_PREVIOUS_SETTINGS"}
  <2>1. saved' = NoFile  BY <1>4, <1>14
  <2> QED BY <1>10, <1>11, <1>14, <2>1 DEF SettingsInv, StoredInv, SettingsRoundTrip
<1> QED BY <1>12, <1>13, <1>14
\* Applying settings: they are valid, and password.cfg is written first.
LEMMA ApplyStep == ASSUME SettingsInv, apply_settings PROVE SettingsInv'
<1>1. SettingsTypeOK  BY DEF SettingsInv
<1>2. PICK s \in Settings : /\ validate_settings(s) /\ s.password = settings.password
                           /\ settings' = s
                           /\ \E w \in save_password(s) :
                                /\ passwordFile' = w.content
                                /\ saved' = IF w.err THEN NoFile ELSE s
  BY DEF apply_settings
<1>3. PICK w \in save_password(s) : passwordFile' = w.content /\ saved' = IF w.err THEN NoFile ELSE s
  BY <1>2
<1>4. /\ w.err \in BOOLEAN
      /\ ~w.err => w.content = s.password
      /\ w.content \in {passwordFile, s.password} \union (Passwords \ ValidPasswords)
  <2>1. w \in Writes(passwordFile, s.password, Passwords \ ValidPasswords)  BY Zenon DEF save_password
  <2> QED BY <2>1, WriteOutcome
<1>5. result' = "saving_port" /\ UNCHANGED <<settingsFile, portFile>>  BY DEF apply_settings
<1>6. s.password \in Passwords  BY DEF Settings
<1>7. SettingsTypeOK'
  <2>1. saved' \in Settings \union {NoFile}  BY <1>3
  <2>2. passwordFile' \in Passwords \union {NoFile}  BY <1>1, <1>3, <1>4, <1>6 DEF SettingsTypeOK
  <2> QED BY <1>1, <1>2, <1>5, <2>1, <2>2 DEF SettingsTypeOK
<1>8. saved' # NoFile => saved' = s /\ passwordFile' = s.password  BY <1>3, <1>4
<1>9. StoredInv'  BY <1>2, <1>5, <1>8 DEF StoredInv, Saving
<1>10. SettingsRoundTrip'
  <2>1. [s EXCEPT !.password = s.password] = s  BY DEF Settings
  <2> QED BY <1>2, <1>5, <1>8, <2>1 DEF SettingsRoundTrip
<1> QED BY <1>7, <1>9, <1>10 DEF SettingsInv

\* ... then port.cfg ...
LEMMA PersistPortStep == ASSUME SettingsInv, PersistPort PROVE SettingsInv'
<1>1. SettingsTypeOK /\ StoredInv /\ SettingsRoundTrip  BY DEF SettingsInv
<1>2. PICK w \in save_port(settings) : portFile' = w.content /\ saved' = IF w.err THEN NoFile ELSE saved
  BY DEF PersistPort
<1>3. /\ result = "saving_port" /\ result' = "saving_settings"
      /\ UNCHANGED <<settings, settingsFile, passwordFile>>
  BY DEF PersistPort
<1>4. validate_settings(settings) /\ settings \in Settings
  BY <1>1, <1>3 DEF StoredInv, Saving, SettingsTypeOK
<1>5. /\ w.err \in BOOLEAN
      /\ ~w.err => w.content = settings.network_port
      /\ w.content \in {portFile, settings.network_port} \union (Ports \union {Unparsable})
  <2>1. w \in Writes(portFile, settings.network_port, Ports \union {Unparsable})
    BY <1>4 DEF save_port, validate_settings
  <2> QED BY <2>1, WriteOutcome
<1>6. SettingsTypeOK'
  <2>1. settings.network_port \in Ports  BY <1>4 DEF Settings
  <2>2. portFile' \in Ports \union {NoFile, Unparsable}  BY <1>1, <1>2, <1>5, <2>1 DEF SettingsTypeOK
  <2> QED BY <1>1, <1>2, <1>3, <2>2 DEF SettingsTypeOK
<1>7. saved' # NoFile => saved' = saved /\ portFile' = settings.network_port  BY <1>2, <1>5
<1>8. StoredInv'  BY <1>1, <1>3, <1>4, <1>7 DEF StoredInv, Saving
<1>9. SettingsRoundTrip'  BY <1>1, <1>3, <1>7 DEF SettingsRoundTrip
<1> QED BY <1>6, <1>8, <1>9 DEF SettingsInv

\* ... and settings.cfg last: only now, and only if nothing failed, success is
\* reported.
LEMMA PersistSettingsStep == ASSUME SettingsInv, PersistSettings PROVE SettingsInv'
<1>1. SettingsTypeOK /\ StoredInv /\ SettingsRoundTrip  BY DEF SettingsInv
<1>2. PICK w \in save_server_settings(settings) :
        settingsFile' = w.content /\ saved' = IF w.err THEN NoFile ELSE saved
  BY DEF PersistSettings
<1>3. /\ result = "saving_settings" /\ result' = IF saved' = NoFile THEN "NOT_SAVED" ELSE "NONE"
      /\ UNCHANGED <<settings, passwordFile, portFile>>
  BY DEF PersistSettings
<1>4. validate_settings(settings) /\ settings \in Settings
  BY <1>1, <1>3 DEF StoredInv, Saving, SettingsTypeOK
<1>5. /\ w.err \in BOOLEAN
      /\ ~w.err => w.content = serialize_server_settings(settings)
      /\ w.content \in {settingsFile, serialize_server_settings(settings)} \union CutOff(settings)
  <2>1. w \in Writes(settingsFile, serialize_server_settings(settings), CutOff(settings))
    BY Zenon DEF save_server_settings
  <2> QED BY <2>1, WriteOutcome
<1>6. SettingsTypeOK'
  <2>1. settingsFile' \in FileContents \union {NoFile}
    BY <1>1, <1>2, <1>4, <1>5, SerializedContents, CutContents DEF SettingsTypeOK
  <2> QED BY <1>1, <1>2, <1>3, <2>1 DEF SettingsTypeOK
<1>7. result' \notin Saving /\ result' # "-"  BY <1>3 DEF Saving
<1>8. CASE saved' = NoFile
  BY <1>3, <1>6, <1>7, <1>8 DEF SettingsInv, StoredInv, SettingsRoundTrip
<1>9. CASE saved' # NoFile
  <2>1. saved' = saved /\ saved # NoFile /\ settingsFile' = serialize_server_settings(settings)
    BY <1>2, <1>5, <1>9
  <2>2. saved = settings /\ passwordFile = settings.password /\ portFile = settings.network_port
    BY <1>1, <1>3, <2>1 DEF StoredInv, Saving
  <2>3. StoredInv'  BY <1>3, <1>7, <2>1, <2>2 DEF StoredInv, Saving
  <2>4. SettingsRoundTrip'  BY <1>1, <1>3, <1>4, <2>1, <2>2 DEF SettingsRoundTrip
  <2> QED BY <1>6, <2>3, <2>4 DEF SettingsInv
<1> QED BY <1>8, <1>9

\* X-Plane ends; what was being stored is not relied upon.
LEMMA RestartStep == ASSUME SettingsInv, SettingsRestart PROVE SettingsInv'
<1>1. SettingsTypeOK /\ StoredInv  BY DEF SettingsInv
<1>2. /\ result' = "-" /\ saved' = (IF result \in Saving THEN NoFile ELSE saved)
      /\ UNCHANGED <<settings, settingsFile, passwordFile, portFile>>
  BY DEF SettingsRestart
<1>3. SettingsTypeOK'  BY <1>1, <1>2 DEF SettingsTypeOK
<1>4. StoredInv'  BY <1>1, <1>2 DEF StoredInv, Saving
<1>5. SettingsRoundTrip'  BY <1>2 DEF SettingsRoundTrip
<1> QED BY <1>3, <1>4, <1>5 DEF SettingsInv

\* Foreign files can only appear where nothing was stored yet.
LEMMA ForeignStep == ASSUME SettingsInv, ForeignFiles PROVE SettingsInv'
<1>1. SettingsTypeOK /\ StoredInv /\ FirstInitialization  BY DEF SettingsInv, ForeignFiles
<1>2. /\ result = "-" /\ UNCHANGED <<settings, settingsFile, result, saved>>
      /\ passwordFile' \in Passwords \union {NoFile} /\ portFile' \in Ports \union {NoFile, Unparsable}
  BY DEF ForeignFiles
<1>3. saved = NoFile
  <2>1. ASSUME saved # NoFile PROVE FALSE
    <3>1. saved \in Settings  BY <1>1, <2>1 DEF SettingsTypeOK
    <3>2. settingsFile = serialize_server_settings(saved)  BY <1>1, <1>2, <2>1 DEF StoredInv, Saving
    <3>3. settingsFile = NoFile  BY <1>1 DEF FirstInitialization
    <3> QED BY <3>1, <3>2, <3>3, SerializedContents, NoFileAssumption
  <2> QED BY <2>1
<1>4. SettingsTypeOK'  BY <1>1, <1>2 DEF SettingsTypeOK
<1>5. StoredInv'  BY <1>2, <1>3 DEF StoredInv, Saving
<1>6. SettingsRoundTrip'  BY <1>2 DEF SettingsRoundTrip
<1> QED BY <1>4, <1>5, <1>6 DEF SettingsInv

\* The invariant that the round trip of the settings needs: what is marked as
\* stored is what the files hold (configure_settings_manager_from_storage,
\* persist_settings_from_manager).
THEOREM SettingsInvariant == SettingsSpec => []SettingsInv
<1>1. ASSUME SettingsInit PROVE SettingsInv
  <2>1. (CHOOSE p \in ValidPasswords : TRUE) \in ValidPasswords  BY SettingsAssumption
  <2>2. settings \in Settings  BY <1>1, <2>1, FreshSettings DEF SettingsInit
  <2>3. SettingsTypeOK  BY <1>1, <2>2 DEF SettingsInit, SettingsTypeOK
  <2>4. StoredInv /\ SettingsRoundTrip  BY <1>1 DEF SettingsInit, StoredInv, SettingsRoundTrip, Saving
  <2> QED BY <2>3, <2>4 DEF SettingsInv
<1>2. ASSUME SettingsInv, [SettingsNext]_settingsVars PROVE SettingsInv'
  <2>1. CASE UNCHANGED settingsVars
    <3>1. SettingsTypeOK'  BY <1>2, <2>1 DEF SettingsInv, SettingsTypeOK, settingsVars
    <3>2. StoredInv'  BY <1>2, <2>1 DEF SettingsInv, StoredInv, settingsVars
    <3>3. SettingsRoundTrip'  BY <1>2, <2>1 DEF SettingsInv, SettingsRoundTrip, settingsVars
    <3> QED BY <3>1, <3>2, <3>3 DEF SettingsInv
  <2> QED BY <1>2, <2>1, ConfigureStep, ApplyStep, PersistPortStep, PersistSettingsStep, RestartStep,
             ForeignStep DEF SettingsNext
<1> QED BY <1>1, <1>2, PTL DEF SettingsSpec

\* Settings, files and results keep their types, whatever is cut off or missing.
THEOREM SettingsTypeCorrect == SettingsSpec => []SettingsTypeOK
<1>1. SettingsInv => SettingsTypeOK  BY DEF SettingsInv
<1> QED BY <1>1, SettingsInvariant, PTL

\* Reported success means valid settings and files that lead a client to the
\* server; what was stored comes back (settings_manager.c).
THEOREM SettingsComeBack == SettingsSpec => []SettingsRoundTrip
<1>1. SettingsInv => SettingsRoundTrip  BY DEF SettingsInv
<1> QED BY <1>1, SettingsInvariant, PTL
=============================================================================
