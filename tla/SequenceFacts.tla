---------------------------- MODULE SequenceFacts ----------------------------
(* What the operations on the channel's queues do to a sequence, position by *)
(* position.                                                                 *)
EXTENDS Integers, Sequences, SequencesExt, SequenceTheorems, TLAPS

\* A write at the end leaves every queued command where it is.
LEMMA AppendFacts ==
  ASSUME NEW S, NEW s \in Seq(S), NEW x \in S
  PROVE  /\ Append(s, x) \in Seq(S)
         /\ Len(s) \in Nat /\ Len(Append(s, x)) = Len(s) + 1
         /\ \A i \in 1..Len(s) : Append(s, x)[i] = s[i]
         /\ Append(s, x)[Len(s) + 1] = x
  OBVIOUS

\* A read at the front moves every other command up by one.
LEMMA TailFacts ==
  ASSUME NEW S, NEW s \in Seq(S), s # <<>>
  PROVE  /\ Tail(s) \in Seq(S)
         /\ Len(Tail(s)) = Len(s) - 1
         /\ \A i \in 1..Len(s) - 1 : Tail(s)[i] = s[i + 1]
         /\ Head(s) = s[1] /\ Head(s) \in S
         /\ Len(s) \in Nat \ {0}
  BY HeadTailProperties, EmptySeq

\* Dropping the newest command leaves the others where they are.
LEMMA FrontFacts ==
  ASSUME NEW S, NEW s \in Seq(S), s # <<>>
  PROVE  /\ Front(s) \in Seq(S)
         /\ Len(Front(s)) = Len(s) - 1
         /\ \A i \in 1..Len(s) - 1 : Front(s)[i] = s[i]
         /\ Last(s) = s[Len(s)] /\ Last(s) \in S
         /\ Len(s) \in Nat \ {0}
<1>1. Len(s) \in Nat \ {0} /\ \A i \in 1..Len(s) - 1 : s[i] \in S
  BY EmptySeq, ElementOfSeq
<1>2. /\ Front(s) \in Seq(S)
      /\ Len(Front(s)) = Len(s) - 1
      /\ \A i \in 1..Len(s) - 1 : Front(s)[i] = s[i]
  <2>1. /\ SubSeq(s, 1, Len(s) - 1) \in Seq(S)
        /\ Len(SubSeq(s, 1, Len(s) - 1))
             = IF 1 <= Len(s) - 1 THEN Len(s) - 1 - 1 + 1 ELSE 0
        /\ \A i \in 1..(Len(s) - 1) - 1 + 1 : SubSeq(s, 1, Len(s) - 1)[i] = s[1 + i - 1]
    BY <1>1, SubSeqProperties
  <2>2. Front(s) = SubSeq(s, 1, Len(s) - 1)
    BY DEF Front
  <2> DEFINE f == SubSeq(s, 1, Len(s) - 1)
  <2>3. Len(f) = Len(s) - 1
    <3> DEFINE n == Len(s)
    <3>1. n \in Nat \ {0} /\ Len(f) = IF 1 <= n - 1 THEN n - 1 - 1 + 1 ELSE 0
      BY <1>1, <2>1
    <3> HIDE DEF f, n
    <3>2. Len(f) = n - 1
      BY <3>1
    <3>3. QED
      BY <3>2 DEF n
  <2>4. \A i \in 1..Len(s) - 1 : f[i] = s[i]
    <3> SUFFICES ASSUME NEW i \in 1..Len(s) - 1 PROVE f[i] = s[i]
      OBVIOUS
    <3>1. i \in 1..(Len(s) - 1) - 1 + 1 /\ 1 + i - 1 = i
      BY <1>1
    <3>2. QED
      BY <2>1, <3>1
  <2> HIDE DEF f
  <2>5. f \in Seq(S) /\ Front(s) = f
    BY <2>1, <2>2 DEF f
  <2>6. QED
    BY <2>3, <2>4, <2>5
<1>3. Last(s) = s[Len(s)] /\ Last(s) \in S
  BY <1>1, ElementOfSeq DEF Last
<1>4. QED
  BY <1>1, <1>2, <1>3

\* Withdrawing the i-th pending write keeps the order of the others.
LEMMA RemoveAtFacts ==
  ASSUME NEW S, NEW s \in Seq(S), NEW i \in 1..Len(s)
  PROVE  /\ RemoveAt(s, i) \in Seq(S)
         /\ Len(s) \in Nat \ {0} /\ Len(RemoveAt(s, i)) = Len(s) - 1
         /\ \A j \in 1..Len(s) - 1 : RemoveAt(s, i)[j] = IF j < i THEN s[j] ELSE s[j + 1]
<1> DEFINE a == SubSeq(s, 1, i - 1)
<1> DEFINE b == SubSeq(s, i + 1, Len(s))
<1>0. Len(s) \in Nat \ {0} /\ \A j \in 1..Len(s) : s[j] \in S
  BY ElementOfSeq, LenProperties
<1>1. /\ a \in Seq(S) /\ Len(a) = i - 1
      /\ \A j \in 1..i - 1 : a[j] = s[j]
  <2>1. /\ a \in Seq(S)
        /\ Len(a) = IF 1 <= i - 1 THEN i - 1 - 1 + 1 ELSE 0
        /\ \A j \in 1..(i - 1) - 1 + 1 : a[j] = s[1 + j - 1]
    BY <1>0, SubSeqProperties
  <2>2. QED
    BY <1>0, <2>1
<1>2. /\ b \in Seq(S) /\ Len(b) = Len(s) - i
      /\ \A j \in 1..Len(s) - i : b[j] = s[i + j]
  <2>1. /\ b \in Seq(S)
        /\ Len(b) = IF i + 1 <= Len(s) THEN Len(s) - (i + 1) + 1 ELSE 0
        /\ \A j \in 1..Len(s) - (i + 1) + 1 : b[j] = s[(i + 1) + j - 1]
    BY <1>0, SubSeqProperties
  <2>2. QED
    BY <1>0, <2>1
<1> HIDE DEF a, b
<1>3. /\ a \o b \in Seq(S)
      /\ Len(a \o b) = Len(a) + Len(b)
      /\ \A j \in 1..Len(a) + Len(b) : (a \o b)[j] = IF j <= Len(a) THEN a[j] ELSE b[j - Len(a)]
  BY <1>1, <1>2, ConcatProperties
<1>4. RemoveAt(s, i) = a \o b
  BY DEF RemoveAt, a, b
<1>5. ASSUME NEW j \in 1..Len(s) - 1
      PROVE  (a \o b)[j] = IF j < i THEN s[j] ELSE s[j + 1]
  <2>1. Len(a) = i - 1 /\ j \in 1..Len(a) + Len(b)
    BY <1>0, <1>1, <1>2
  <2>2. CASE j < i
    BY <1>0, <1>1, <1>3, <2>1, <2>2
  <2>3. CASE ~(j < i)
    <3>1. (a \o b)[j] = b[j - (i - 1)] /\ j - (i - 1) \in 1..Len(s) - i
      BY <1>0, <1>3, <2>1, <2>3
    <3>2. i + (j - (i - 1)) = j + 1
      BY <1>0
    <3>3. QED
      BY <1>2, <2>3, <3>1, <3>2
  <2>4. QED
    BY <2>2, <2>3
<1>6. Len(s) \in Nat \ {0} /\ Len(a \o b) = Len(s) - 1
  BY <1>0, <1>1, <1>2, <1>3
<1>7. QED
  BY <1>3, <1>4, <1>5, <1>6
-----------------------------------------------------------------------------
(* The same operations on the set of queued commands and on their order.    *)

\* The ranks of a queue's elements grow from its front to its end.
Increasing(rank, s) ==
  \A i, j \in 1..Len(s) : i < j => rank[s[i]] < rank[s[j]]

LEMMA ToSetFacts ==
  ASSUME NEW S, NEW s \in Seq(S)
  PROVE  /\ Len(s) \in Nat /\ DOMAIN s = 1..Len(s)
         /\ ToSet(s) \subseteq S
         /\ \A x : x \in ToSet(s) <=> \E i \in 1..Len(s) : s[i] = x
         /\ s = <<>> <=> ToSet(s) = {}
<1>1. Len(s) \in Nat /\ DOMAIN s = 1..Len(s) /\ \A i \in 1..Len(s) : s[i] \in S
  BY LenProperties, ElementOfSeq
<1>2. \A x : x \in ToSet(s) <=> \E i \in 1..Len(s) : s[i] = x
  BY <1>1 DEF ToSet
<1>3. s # <<>> => s[1] \in ToSet(s)
  BY <1>1, <1>2, EmptySeq
<1>4. s = <<>> => Len(s) = 0
  OBVIOUS
<1>5. s = <<>> => ToSet(s) = {}
  BY <1>2, <1>4
<1>6. QED
  BY <1>1, <1>2, <1>3, <1>5

\* Elements of an increasing queue are pairwise different.
LEMMA IncreasingInjective ==
  ASSUME NEW S, NEW rank \in [S -> Nat], NEW s \in Seq(S), Increasing(rank, s)
  PROVE  \A i, j \in 1..Len(s) : s[i] = s[j] => i = j
<1>1. ASSUME NEW i \in 1..Len(s), NEW j \in 1..Len(s), i # j
      PROVE  s[i] # s[j]
  <2>1. s[i] \in S /\ s[j] \in S /\ Len(s) \in Nat
    BY ToSetFacts, ElementOfSeq
  <2>2. i < j \/ j < i
    BY <1>1, <2>1
  <2>3. rank[s[i]] < rank[s[j]] \/ rank[s[j]] < rank[s[i]]
    BY <2>2 DEF Increasing
  <2>4. rank[s[i]] \in Nat /\ rank[s[j]] \in Nat
    BY <2>1
  <2>5. QED
    BY <2>3, <2>4
<1>2. QED
  BY <1>1

\* An increasing queue stays so when ranks of other elements change.
LEMMA IncreasingElsewhere ==
  ASSUME NEW S, NEW s \in Seq(S), NEW r1, NEW r2, Increasing(r1, s),
         \A x \in ToSet(s) : r1[x] = r2[x]
  PROVE  Increasing(r2, s)
  BY ToSetFacts DEF Increasing

LEMMA AppendOrder ==
  ASSUME NEW S, NEW rank \in [S -> Nat], NEW s \in Seq(S), NEW x \in S,
         Increasing(rank, s), \A y \in ToSet(s) : rank[y] < rank[x]
  PROVE  /\ Append(s, x) \in Seq(S)
         /\ Len(Append(s, x)) = Len(s) + 1
         /\ ToSet(Append(s, x)) = ToSet(s) \cup {x}
         /\ Increasing(rank, Append(s, x))
<1> DEFINE t == Append(s, x)
<1>1. /\ t \in Seq(S) /\ Len(s) \in Nat /\ Len(t) = Len(s) + 1
      /\ \A i \in 1..Len(s) : t[i] = s[i]
      /\ t[Len(s) + 1] = x
  BY AppendFacts
<1> HIDE DEF t
<1>2. \A y : y \in ToSet(t) <=> \E i \in 1..Len(t) : t[i] = y
  BY <1>1, ToSetFacts
<1>3. \A y : y \in ToSet(s) <=> \E i \in 1..Len(s) : s[i] = y
  BY ToSetFacts
<1>4. \A i \in 1..Len(t) : i \in 1..Len(s) \/ i = Len(s) + 1
  BY <1>1
<1>5. 1..Len(s) \subseteq 1..Len(t) /\ Len(s) + 1 \in 1..Len(t)
  BY <1>1
<1>6. ToSet(t) = ToSet(s) \cup {x}
  BY <1>1, <1>2, <1>3, <1>4, <1>5
<1>7. Increasing(rank, t)
  <2> SUFFICES ASSUME NEW i \in 1..Len(t), NEW j \in 1..Len(t), i < j
               PROVE  rank[t[i]] < rank[t[j]]
    BY DEF Increasing
  <2>1. i \in 1..Len(s) /\ s[i] \in ToSet(s)
    BY <1>1, <1>3
  <2>2. CASE j \in 1..Len(s)
    BY <1>1, <2>1, <2>2 DEF Increasing
  <2>3. CASE j = Len(s) + 1
    BY <1>1, <2>1, <2>3
  <2>4. QED
    BY <1>4, <2>2, <2>3
<1>8. QED
  BY <1>1, <1>6, <1>7 DEF t

LEMMA RemoveAtOrder ==
  ASSUME NEW S, NEW rank \in [S -> Nat], NEW s \in Seq(S), NEW i \in 1..Len(s),
         Increasing(rank, s)
  PROVE  /\ RemoveAt(s, i) \in Seq(S)
         /\ Len(RemoveAt(s, i)) = Len(s) - 1
         /\ ToSet(RemoveAt(s, i)) = ToSet(s) \ {s[i]}
         /\ Increasing(rank, RemoveAt(s, i))
<1> DEFINE t == RemoveAt(s, i)
<1>1. /\ t \in Seq(S) /\ Len(s) \in Nat \ {0} /\ Len(t) = Len(s) - 1
      /\ \A j \in 1..Len(s) - 1 : t[j] = IF j < i THEN s[j] ELSE s[j + 1]
  BY RemoveAtFacts
<1> HIDE DEF t
<1>2. \A y : y \in ToSet(t) <=> \E j \in 1..Len(t) : t[j] = y
  BY <1>1, ToSetFacts
<1>3. \A y : y \in ToSet(s) <=> \E j \in 1..Len(s) : s[j] = y
  BY ToSetFacts
<1>4. \A j, k \in 1..Len(s) : s[j] = s[k] => j = k
  BY IncreasingInjective
<1> DEFINE old(j) == IF j < i THEN j ELSE j + 1
<1>5. \A j \in 1..Len(t) : old(j) \in 1..Len(s) /\ old(j) # i /\ t[j] = s[old(j)]
  <2> SUFFICES ASSUME NEW j \in 1..Len(t)
               PROVE  old(j) \in 1..Len(s) /\ old(j) # i /\ t[j] = s[old(j)]
    OBVIOUS
  <2>1. j \in Int /\ i \in Int /\ j \in 1..Len(s) - 1
    BY <1>1
  <2>2. t[j] = IF j < i THEN s[j] ELSE s[j + 1]
    BY <1>1, <2>1
  <2>3. CASE j < i
    BY <1>1, <2>1, <2>2, <2>3
  <2>4. CASE ~(j < i)
    <3>1. old(j) = j + 1
      BY <2>4
    <3>2. j + 1 \in 1..Len(s) /\ j + 1 # i
      BY <1>1, <2>1, <2>4
    <3>3. t[j] = s[j + 1]
      BY <2>2, <2>4
    <3>4. QED
      BY <3>1, <3>2, <3>3
  <2>5. QED
    BY <2>3, <2>4
<1>6. \A k \in 1..Len(s) : k # i => \E j \in 1..Len(t) : old(j) = k
  <2> SUFFICES ASSUME NEW k \in 1..Len(s), k # i
               PROVE  \E j \in 1..Len(t) : old(j) = k
    OBVIOUS
  <2>1. CASE k < i
    <3>1. k \in 1..Len(t) /\ old(k) = k
      BY <1>1, <2>1
    <3>2. QED
      BY <3>1
  <2>2. CASE i < k
    <3>1. k - 1 \in 1..Len(t) /\ old(k - 1) = k
      BY <1>1, <2>2
    <3>2. QED
      BY <3>1
  <2>3. QED
    BY <1>1, <2>1, <2>2
<1>7. \A j, k \in 1..Len(t) : j < k => old(j) < old(k)
  BY <1>1
<1> HIDE DEF old
<1>8. ToSet(t) = ToSet(s) \ {s[i]}
  <2>1. ASSUME NEW y \in ToSet(t)
        PROVE  y \in ToSet(s) /\ y # s[i]
    BY <1>2, <1>3, <1>4, <1>5
  <2>2. ASSUME NEW y \in ToSet(s), y # s[i]
        PROVE  y \in ToSet(t)
    <3>1. PICK k \in 1..Len(s) : s[k] = y
      BY <1>3
    <3>2. k # i
      BY <2>2, <3>1
    <3>3. PICK j \in 1..Len(t) : old(j) = k
      BY <1>6, <3>2
    <3>4. t[j] = y
      BY <1>5, <3>1, <3>3
    <3>5. QED
      BY <1>2, <3>4
  <2>3. QED
    BY <2>1, <2>2
<1>9. Increasing(rank, t)
  BY <1>5, <1>7 DEF Increasing
<1>10. QED
  BY <1>1, <1>8, <1>9 DEF t

\* The front of an increasing queue has the smallest rank; reading removes it.
LEMMA TailOrder ==
  ASSUME NEW S, NEW rank \in [S -> Nat], NEW s \in Seq(S), s # <<>>,
         Increasing(rank, s)
  PROVE  /\ Tail(s) \in Seq(S) /\ Len(Tail(s)) = Len(s) - 1
         /\ Head(s) \in ToSet(s)
         /\ ToSet(Tail(s)) = ToSet(s) \ {Head(s)}
         /\ Increasing(rank, Tail(s))
         /\ \A x \in ToSet(Tail(s)) : rank[Head(s)] < rank[x]
<1>1. /\ Tail(s) \in Seq(S) /\ Len(Tail(s)) = Len(s) - 1
      /\ Len(s) \in Nat \ {0} /\ Head(s) = s[1]
      /\ \A i \in 1..Len(s) - 1 : Tail(s)[i] = s[i + 1]
  BY TailFacts
<1>2. 1 \in 1..Len(s)
  BY <1>1
<1>3. /\ RemoveAt(s, 1) \in Seq(S) /\ Len(RemoveAt(s, 1)) = Len(s) - 1
      /\ \A j \in 1..Len(s) - 1 : RemoveAt(s, 1)[j] = IF j < 1 THEN s[j] ELSE s[j + 1]
  BY <1>2, RemoveAtFacts
<1>4. \A j \in 1..Len(s) - 1 : RemoveAt(s, 1)[j] = Tail(s)[j]
  <2> SUFFICES ASSUME NEW j \in 1..Len(s) - 1 PROVE RemoveAt(s, 1)[j] = Tail(s)[j]
    OBVIOUS
  <2>1. ~(j < 1)
    BY <1>1
  <2>2. QED
    BY <1>1, <1>3, <2>1
<1>5. Tail(s) = RemoveAt(s, 1)
  BY <1>1, <1>3, <1>4, SeqEqual
<1>6. ToSet(Tail(s)) = ToSet(s) \ {Head(s)} /\ Increasing(rank, Tail(s))
  <2>1. /\ ToSet(RemoveAt(s, 1)) = ToSet(s) \ {s[1]}
        /\ Increasing(rank, RemoveAt(s, 1))
    BY <1>2, RemoveAtOrder
  <2>2. QED
    BY <1>1, <1>5, <2>1
<1>7. ASSUME NEW x \in ToSet(Tail(s))
      PROVE  rank[Head(s)] < rank[x]
  <2>1. PICK j \in 1..Len(s) : s[j] = x
    BY <1>6, ToSetFacts
  <2>2. j # 1
    BY <1>1, <1>6, <2>1
  <2>3. 1 < j
    BY <1>1, <2>2
  <2>4. QED
    BY <1>1, <1>2, <2>1, <2>3 DEF Increasing
<1>8. Head(s) \in ToSet(s)
  BY <1>1, <1>2, ToSetFacts
<1>9. QED
  BY <1>1, <1>6, <1>7, <1>8

LEMMA FrontOrder ==
  ASSUME NEW S, NEW rank \in [S -> Nat], NEW s \in Seq(S), s # <<>>,
         Increasing(rank, s)
  PROVE  /\ Front(s) \in Seq(S) /\ Len(Front(s)) = Len(s) - 1
         /\ Last(s) \in ToSet(s)
         /\ ToSet(Front(s)) = ToSet(s) \ {Last(s)}
         /\ Increasing(rank, Front(s))
<1>1. /\ Front(s) \in Seq(S) /\ Len(Front(s)) = Len(s) - 1
      /\ Len(s) \in Nat \ {0} /\ Last(s) = s[Len(s)]
      /\ \A i \in 1..Len(s) - 1 : Front(s)[i] = s[i]
  BY FrontFacts
<1> DEFINE n == Len(s)
<1>2. n \in 1..Len(s)
  BY <1>1
<1>3. /\ RemoveAt(s, n) \in Seq(S) /\ Len(RemoveAt(s, n)) = Len(s) - 1
      /\ \A j \in 1..Len(s) - 1 : RemoveAt(s, n)[j] = IF j < n THEN s[j] ELSE s[j + 1]
  BY <1>2, RemoveAtFacts
<1>4. \A j \in 1..Len(s) - 1 : RemoveAt(s, n)[j] = Front(s)[j]
  <2> SUFFICES ASSUME NEW j \in 1..Len(s) - 1 PROVE RemoveAt(s, n)[j] = Front(s)[j]
    OBVIOUS
  <2>1. j < n
    BY <1>1
  <2>2. QED
    BY <1>1, <1>3, <2>1
<1>5. Front(s) = RemoveAt(s, n)
  BY <1>1, <1>3, <1>4, SeqEqual
<1>6. ToSet(Front(s)) = ToSet(s) \ {Last(s)} /\ Increasing(rank, Front(s))
  BY <1>1, <1>2, <1>5, RemoveAtOrder
<1>7. Last(s) \in ToSet(s)
  BY <1>1, <1>2, ToSetFacts
<1>8. QED
  BY <1>1, <1>6, <1>7
=============================================================================
