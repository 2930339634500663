---------------------------- MODULE SequenceLemmas ----------------------------
(***************************************************************************)
(* What the proofs about the components need to know of sequences: of      *)
(* stacks whose frames have no common type, of sublists, and of the order  *)
(* of elements in a list without duplicates.                               *)
(***************************************************************************)
EXTENDS Integers, Sublists, SequencesExt, FiniteSetTheorems, TLAPS

\* A sequence of whatever it holds
IsASeq(s) == s \in Seq({ s[i] : i \in DOMAIN s })

LEMMA SeqIsASeq == ASSUME NEW S, NEW s \in Seq(S) PROVE IsASeq(s)
<1>1. s = [i \in 1 .. Len(s) |-> s[i]] /\ Len(s) \in Nat /\ DOMAIN s = 1 .. Len(s)
  OBVIOUS
<1>2. \A i \in 1 .. Len(s) : s[i] \in { s[j] : j \in DOMAIN s }
  BY <1>1
<1> QED
  BY <1>1, <1>2 DEF IsASeq

LEMMA EmptyIsASeq == IsASeq(<<>>)
BY SeqIsASeq, <<>> \in Seq({})

LEMMA AppendFacts ==
  ASSUME NEW s, IsASeq(s), NEW e
  PROVE  /\ IsASeq(Append(s, e)) /\ Len(Append(s, e)) = Len(s) + 1 /\ Len(s) \in Nat
         /\ Append(s, e)[Len(s) + 1] = e
         /\ \A i \in 1 .. Len(s) : Append(s, e)[i] = s[i]
         /\ \A x : Contains(Append(s, e), x) <=> Contains(s, x) \/ x = e
<1> DEFINE S == { s[i] : i \in DOMAIN s } \union {e}
<1>1. s \in Seq(S) /\ e \in S
  BY DEF IsASeq
<1>2. Append(s, e) \in Seq(S)
  BY <1>1
<1>3. IsASeq(Append(s, e))
  BY <1>2, SeqIsASeq
<1>4. /\ Len(Append(s, e)) = Len(s) + 1 /\ Len(s) \in Nat
      /\ Append(s, e)[Len(s) + 1] = e
      /\ \A i \in 1 .. Len(s) : Append(s, e)[i] = s[i]
  BY <1>1
<1>5. \A x : Contains(Append(s, e), x) <=> Contains(s, x) \/ x = e
  BY <1>4 DEF Contains
<1> QED
  BY <1>3, <1>4, <1>5

LEMMA PushFacts ==
  ASSUME NEW s, IsASeq(s), NEW e
  PROVE  /\ IsASeq(<<e>> \o s) /\ Len(<<e>> \o s) = Len(s) + 1 /\ Len(s) \in Nat
         /\ (<<e>> \o s)[1] = e /\ Head(<<e>> \o s) = e /\ <<e>> \o s # <<>>
         /\ \A i \in 1 .. Len(s) : (<<e>> \o s)[i + 1] = s[i]
         /\ DOMAIN s = 1 .. Len(s) /\ DOMAIN (<<e>> \o s) = 1 .. Len(s) + 1
<1> DEFINE S == { s[i] : i \in DOMAIN s } \union {e}
<1>1. s \in Seq(S) /\ e \in S /\ <<e>> \in Seq(S)
  BY DEF IsASeq
<1>2. <<e>> \o s \in Seq(S)
  BY <1>1
<1>3. IsASeq(<<e>> \o s)
  BY <1>2, SeqIsASeq
<1>4. /\ Len(<<e>> \o s) = Len(s) + 1 /\ Len(s) \in Nat
      /\ (<<e>> \o s)[1] = e
      /\ \A i \in 1 .. Len(s) : (<<e>> \o s)[i + 1] = s[i]
      /\ DOMAIN s = 1 .. Len(s) /\ DOMAIN (<<e>> \o s) = 1 .. Len(s) + 1
  BY <1>1
<1>5. <<e>> \o s # <<>> /\ Head(<<e>> \o s) = e
  BY <1>2, <1>4
<1> QED
  BY <1>3, <1>4, <1>5

LEMMA TailFacts ==
  ASSUME NEW s, IsASeq(s), s # <<>>
  PROVE  /\ IsASeq(Tail(s)) /\ Len(s) \in Nat \ {0} /\ Len(Tail(s)) = Len(s) - 1 /\ Head(s) = s[1]
         /\ \A i \in 1 .. Len(s) - 1 : Tail(s)[i] = s[i + 1]
         /\ DOMAIN s = 1 .. Len(s) /\ DOMAIN Tail(s) = 1 .. Len(s) - 1
<1> DEFINE S == { s[i] : i \in DOMAIN s }
<1>1. s \in Seq(S)
  BY DEF IsASeq
<1>2. Tail(s) \in Seq(S)
  BY <1>1
<1>3. IsASeq(Tail(s))
  BY <1>2, SeqIsASeq
<1> QED
  BY <1>1, <1>3

-----------------------------------------------------------------------------
(***************************************************************************)
(* Stacks: what is on them, and above what.                                *)
(***************************************************************************)
LEMMA SetFacts ==
  ASSUME NEW s, IsASeq(s)
  PROVE  /\ Len(s) \in Nat /\ DOMAIN s = 1 .. Len(s)
         /\ \A x : x \in ToSet(s) <=> \E i \in 1 .. Len(s) : s[i] = x
         /\ \A x : Contains(s, x) <=> x \in ToSet(s)
         /\ s = <<>> <=> Len(s) = 0
         /\ \A x, y : Precedes(s, x, y) => x \in ToSet(s) /\ y \in ToSet(s)
<1>1. PICK S : s \in Seq(S)
  BY DEF IsASeq
<1>2. Len(s) \in Nat /\ DOMAIN s = 1 .. Len(s) /\ (s = <<>> <=> Len(s) = 0)
  BY <1>1
<1> QED
  BY <1>2 DEF ToSet, Contains, Precedes

LEMMA Stacked ==
  ASSUME NEW s, IsASeq(s), NEW e, NEW t, t = <<e>> \o s
  PROVE  /\ IsASeq(t) /\ t # <<>> /\ Head(t) = e /\ Tail(t) = s
         /\ ToSet(t) = {e} \union ToSet(s)
         /\ \A x, y : Precedes(t, x, y) <=> (x = e /\ y \in ToSet(s)) \/ Precedes(s, x, y)
<1>1. /\ IsASeq(t) /\ Len(t) = Len(s) + 1 /\ Len(s) \in Nat
      /\ t[1] = e /\ Head(t) = e /\ t # <<>>
      /\ \A i \in 1 .. Len(s) : t[i + 1] = s[i]
      /\ DOMAIN s = 1 .. Len(s) /\ DOMAIN t = 1 .. Len(s) + 1
  BY PushFacts
<1>2. Tail(t) = s
  <2>0. Len(t) - 1 = Len(s) /\ Len(t) \in Nat
    BY <1>1
  <2>1. IsASeq(Tail(t)) /\ Len(Tail(t)) = Len(s) /\ \A i \in 1 .. Len(s) : Tail(t)[i] = s[i]
    BY <1>1, <2>0, TailFacts
  <2>2. PICK S, T : s \in Seq(S) /\ Tail(t) \in Seq(T)
    BY <2>1 DEF IsASeq
  <2> QED
    BY <2>1, <2>2
<1>3. ASSUME NEW j \in 1 .. Len(s) + 1 PROVE j = 1 \/ (j - 1 \in 1 .. Len(s) /\ t[j] = s[j - 1])
  <2>1. j = 1 \/ (j - 1 \in 1 .. Len(s) /\ (j - 1) + 1 = j)
    BY <1>1
  <2> QED
    BY <1>1, <2>1
<1>4. \A i \in 1 .. Len(s) : i + 1 \in 1 .. Len(s) + 1 /\ t[i + 1] = s[i]
  BY <1>1
<1>5. ASSUME NEW x PROVE x \in ToSet(t) <=> x = e \/ x \in ToSet(s)
  <2>1. x \in ToSet(t) <=> \E i \in 1 .. Len(s) + 1 : t[i] = x
    BY <1>1 DEF ToSet
  <2>2. x \in ToSet(s) <=> \E i \in 1 .. Len(s) : s[i] = x
    BY <1>1 DEF ToSet
  <2>3. 1 \in 1 .. Len(s) + 1
    BY <1>1
  <2> QED
    BY <1>1, <1>3, <1>4, <2>1, <2>2, <2>3
<1>6. ASSUME NEW x, NEW y
      PROVE  Precedes(t, x, y) <=> (x = e /\ y \in ToSet(s)) \/ Precedes(s, x, y)
  <2>1. ASSUME Precedes(t, x, y) PROVE (x = e /\ y \in ToSet(s)) \/ Precedes(s, x, y)
    <3>1. PICK i \in 1 .. Len(s) + 1, j \in 1 .. Len(s) + 1 : i < j /\ t[i] = x /\ t[j] = y
      BY <1>1, <2>1 DEF Precedes
    <3>2. j # 1 /\ (i # 1 => i - 1 < j - 1)
      BY <1>1, <3>1
    <3>3. j - 1 \in 1 .. Len(s) /\ t[j] = s[j - 1]
      BY <1>3, <3>2
    <3>4. CASE i = 1
      BY <1>1, <3>1, <3>3, <3>4 DEF ToSet
    <3>5. CASE i # 1
      <4>1. i - 1 \in 1 .. Len(s) /\ t[i] = s[i - 1]
        BY <1>3, <3>5
      <4> QED
        BY <1>1, <3>1, <3>2, <3>3, <3>5, <4>1 DEF Precedes
    <3> QED
      BY <3>4, <3>5
  <2>2. ASSUME x = e, y \in ToSet(s) PROVE Precedes(t, x, y)
    <3>1. PICK j \in 1 .. Len(s) : s[j] = y
      BY <1>1, <2>2 DEF ToSet
    <3>2. 1 < j + 1 /\ 1 \in 1 .. Len(s) + 1
      BY <1>1
    <3> QED
      BY <1>1, <1>4, <2>2, <3>1, <3>2 DEF Precedes
  <2>3. ASSUME Precedes(s, x, y) PROVE Precedes(t, x, y)
    <3>1. PICK i \in 1 .. Len(s), j \in 1 .. Len(s) : i < j /\ s[i] = x /\ s[j] = y
      BY <1>1, <2>3 DEF Precedes
    <3>2. i + 1 < j + 1
      BY <1>1, <3>1
    <3> QED
      BY <1>1, <1>4, <3>1, <3>2 DEF Precedes
  <2> QED
    BY <2>1, <2>2, <2>3
<1> QED
  BY <1>1, <1>2, <1>5, <1>6

LEMMA Unstacked ==
  ASSUME NEW s, IsASeq(s), s # <<>>
  PROVE  /\ IsASeq(Tail(s)) /\ s = <<Head(s)>> \o Tail(s)
         /\ ToSet(s) = {Head(s)} \union ToSet(Tail(s))
         /\ \A x, y : Precedes(s, x, y) <=> (x = Head(s) /\ y \in ToSet(Tail(s))) \/ Precedes(Tail(s), x, y)
<1>1. /\ IsASeq(Tail(s)) /\ Len(s) \in Nat \ {0} /\ Len(Tail(s)) = Len(s) - 1 /\ Head(s) = s[1]
      /\ \A i \in 1 .. Len(s) - 1 : Tail(s)[i] = s[i + 1]
  BY TailFacts
<1>2. PICK t : t = <<Head(s)>> \o Tail(s)
  OBVIOUS
<1>3. IsASeq(t) /\ Len(t) = Len(s) /\ t[1] = s[1] /\ \A i \in 1 .. Len(s) - 1 : t[i + 1] = s[i + 1]
  BY <1>1, <1>2, PushFacts
<1>4. ASSUME NEW i \in 1 .. Len(s) PROVE t[i] = s[i]
  <2>1. i = 1 \/ (i - 1 \in 1 .. Len(s) - 1 /\ (i - 1) + 1 = i)
    BY <1>1
  <2> QED
    BY <1>3, <2>1
<1>5. PICK S, T : s \in Seq(S) /\ t \in Seq(T)
  BY <1>3 DEF IsASeq
<1>6. t = s
  BY <1>3, <1>4, <1>5
<1>7. /\ ToSet(t) = {Head(s)} \union ToSet(Tail(s))
      /\ \A x, y : Precedes(t, x, y) <=> (x = Head(s) /\ y \in ToSet(Tail(s))) \/ Precedes(Tail(s), x, y)
  <2>1. PICK h, r : h = Head(s) /\ r = Tail(s)
    OBVIOUS
  <2> QED
    BY <1>1, <1>2, <2>1, Stacked, ZenonT(60)
<1> QED
  BY <1>1, <1>2, <1>6, <1>7

LEMMA StackedTwice ==
  ASSUME NEW s, IsASeq(s), NEW d, NEW e
  PROVE  <<d, e>> \o s = <<d>> \o (<<e>> \o s)
<1>1. PICK S : s \in Seq(S) /\ d \in S /\ e \in S
  <2>1. PICK T : s \in Seq(T)
    BY DEF IsASeq
  <2>2. s \in Seq(T \union {d, e})
    BY <2>1
  <2> QED
    BY <2>2
<1>2. PICK t, u : t = <<e>> \o s /\ u = <<d>> \o t
  OBVIOUS
<1>3. t \in Seq(S) /\ Len(t) = Len(s) + 1 /\ u \in Seq(S) /\ Len(u) = Len(s) + 2 /\ Len(s) \in Nat
  BY <1>1, <1>2
<1>4. u[1] = d /\ u[2] = e /\ \A i \in 1 .. Len(s) : u[i + 2] = s[i]
  <2>1. t[1] = e /\ \A i \in 1 .. Len(s) : t[i + 1] = s[i]
    BY <1>1, <1>2, PushFacts
  <2>2. IsASeq(t)
    BY <1>2, PushFacts
  <2>3. u[1] = d /\ \A i \in 1 .. Len(t) : u[i + 1] = t[i]
    <3>1. (<<d>> \o t)[1] = d /\ \A i \in 1 .. Len(t) : (<<d>> \o t)[i + 1] = t[i]
      BY <2>2, PushFacts
    <3>2. u = <<d>> \o t
      BY <1>2
    <3> QED
      BY <3>1, <3>2
  <2>4. \A i \in 1 .. Len(s) : i + 1 \in 1 .. Len(t) /\ (i + 1) + 1 = i + 2
    BY <1>3
  <2>5. 1 \in 1 .. Len(t) /\ 1 + 1 = 2
    BY <1>3
  <2> QED
    BY <2>1, <2>3, <2>4, <2>5
<1>5. PICK v : v = <<d, e>> \o s
  OBVIOUS
<1>6. v \in Seq(S) /\ Len(v) = Len(s) + 2 /\ v[1] = d /\ v[2] = e
  BY <1>1, <1>5
<1>7. \A i \in 1 .. Len(s) : v[i + 2] = s[i]
  BY <1>1, <1>3, <1>5
<1>8. ASSUME NEW i \in 1 .. Len(s) + 2 PROVE u[i] = v[i]
  <2>1. i = 1 \/ i = 2 \/ (i - 2 \in 1 .. Len(s) /\ (i - 2) + 2 = i)
    BY <1>3
  <2> QED
    BY <1>4, <1>6, <1>7, <2>1
<1>9. u = v
  BY <1>3, <1>6, <1>8
<1> QED
  BY <1>2, <1>5, <1>9

-----------------------------------------------------------------------------
(***************************************************************************)
(* Sublists.                                                               *)
(***************************************************************************)
\* at lists the places P of a sequence in their order.
Enumerates(at, P) ==
  /\ at \in [1 .. Cardinality(P) -> P]
  /\ \A m, n \in 1 .. Cardinality(P) : m < n => at[m] < at[n]
  /\ \A i \in P : \E n \in 1 .. Cardinality(P) : at[n] = i

LEMMA NthFacts ==
  ASSUME NEW len \in Nat, NEW P, \A i \in P : i \in 1 .. len
  PROVE  Cardinality(P) \in Nat /\ Enumerates([n \in 1 .. Cardinality(P) |-> Nth(P, n)], P)
<1> DEFINE upTo(i) == { j \in P : j <= i }
           rank == [i \in P |-> Cardinality(upTo(i))]
           size == Cardinality(P)
<1>0. \A i \in P : i \in Int
  OBVIOUS
<1>1. IsFiniteSet(P) /\ size \in Nat
  <2>1. IsFiniteSet(1 .. len) /\ P \in SUBSET (1 .. len)
    BY FS_Interval
  <2> QED
    BY <2>1, FS_Subset, FS_CardinalityType
<1>2. ASSUME NEW i \in P
      PROVE  IsFiniteSet(upTo(i)) /\ rank[i] \in 1 .. size /\ rank[i] \in Int
  <2>1. IsFiniteSet(upTo(i)) /\ Cardinality(upTo(i)) <= size /\ Cardinality(upTo(i)) \in Nat
    BY <1>1, FS_Subset, FS_CardinalityType, upTo(i) \in SUBSET P
  <2>2. upTo(i) # {}
    BY <1>1, i \in upTo(i)
  <2>3. Cardinality(upTo(i)) # 0
    BY <2>1, <2>2, FS_EmptySet
  <2> QED
    BY <1>1, <2>1, <2>3
<1>3. ASSUME NEW i \in P, NEW j \in P, i < j PROVE rank[i] < rank[j]
  <2>1. upTo(i) \in SUBSET upTo(j) /\ j \in upTo(j) /\ j \notin upTo(i)
    BY <1>0, <1>3
  <2>2. Cardinality(upTo(i)) <= Cardinality(upTo(j)) /\ Cardinality(upTo(i)) # Cardinality(upTo(j))
    BY <1>2, <2>1, FS_Subset
  <2>3. rank[i] \in Int /\ rank[j] \in Int /\ rank[i] <= rank[j] /\ rank[i] # rank[j]
    BY <1>1, <1>2, <2>2
  <2> HIDE DEF rank
  <2> QED
    BY <2>3
<1> HIDE DEF rank
<1>4. ASSUME NEW i \in P, NEW j \in P, rank[i] = rank[j] PROVE i = j
  <2>1. i \in Int /\ j \in Int /\ rank[i] \in Int /\ rank[j] \in Int
    BY <1>0, <1>1, <1>2
  <2>2. ~(i < j) /\ ~(j < i)
    BY <1>3, <1>4, <2>1
  <2> QED
    BY <2>1, <2>2
<1>5. \A n \in 1 .. size : \E i \in P : rank[i] = n
  <2>1. rank \in Injection(P, 1 .. size)
    BY <1>2, <1>4 DEF Injection, IsInjective, rank
  <2>2. IsFiniteSet(1 .. size) /\ Cardinality(1 .. size) = size
    BY <1>1, FS_Interval
  <2>3. rank \in Surjection(P, 1 .. size)
    BY <1>1, <2>1, <2>2, FS_Injection
  <2> QED
    BY <2>3 DEF Surjection
<1>6. ASSUME NEW n \in 1 .. size PROVE Nth(P, n) \in P /\ rank[Nth(P, n)] = n
  <2>1. \E i \in P : Cardinality({ j \in P : j <= i }) = n
    BY <1>5 DEF rank
  <2>2. Nth(P, n) \in P /\ Cardinality({ j \in P : j <= Nth(P, n) }) = n
    BY <2>1 DEF Nth
  <2> QED
    BY <2>2 DEF rank
<1> DEFINE at == [n \in 1 .. size |-> Nth(P, n)]
<1>7. at \in [1 .. size -> P] /\ \A n \in 1 .. size : rank[at[n]] = n
  BY <1>6
<1> HIDE DEF at
<1>8. ASSUME NEW m \in 1 .. size, NEW n \in 1 .. size, m < n PROVE at[m] < at[n]
  <2>1. at[m] \in P /\ at[n] \in P /\ rank[at[m]] = m /\ rank[at[n]] = n
    BY <1>7
  <2>2. at[n] \in Int /\ at[m] \in Int /\ m \in Int /\ n \in Int
    BY <1>0, <1>1, <2>1
  <2>3. at[n] # at[m] /\ ~(at[n] < at[m])
    BY <1>3, <1>8, <2>1, <2>2
  <2> QED
    BY <2>2, <2>3
<1>9. ASSUME NEW i \in P PROVE \E n \in 1 .. size : at[n] = i
  <2>1. rank[i] \in 1 .. size
    BY <1>2
  <2>2. at[rank[i]] \in P /\ rank[at[rank[i]]] = rank[i]
    BY <1>7, <2>1
  <2> QED
    BY <1>4, <2>1, <2>2
<1>10. Enumerates(at, P)
  BY <1>7, <1>8, <1>9 DEF Enumerates
<1> QED
  BY <1>1, <1>10 DEF at

LEMMA SublistFacts ==
  ASSUME NEW S, NEW s \in Seq(S), NEW P, \A i \in P : i \in 1 .. Len(s)
  PROVE  /\ Sublist(s, P) \in Seq(S) /\ Len(Sublist(s, P)) = Cardinality(P)
         /\ \E at : Enumerates(at, P) /\ \A n \in 1 .. Len(Sublist(s, P)) : Sublist(s, P)[n] = s[at[n]]
<1> DEFINE size == Cardinality(P)
           at == [n \in 1 .. size |-> Nth(P, n)]
           t == Sublist(s, P)
<1>1. size \in Nat /\ Enumerates(at, P)
  BY NthFacts, Len(s) \in Nat
<1>2. t = [n \in 1 .. size |-> s[Nth(P, n)]]
  BY DEF Sublist
<1>3. \A n \in 1 .. size : at[n] = Nth(P, n) /\ Nth(P, n) \in P
  BY <1>1 DEF Enumerates
<1> HIDE DEF size, at, t
<1>4. \A i \in 1 .. Len(s) : s[i] \in S
  OBVIOUS
<1>5. t \in Seq(S) /\ Len(t) = size
  BY <1>1, <1>2, <1>3, <1>4
<1>6. \A n \in 1 .. Len(t) : t[n] = s[at[n]]
  BY <1>2, <1>3, <1>5
<1> QED
  BY <1>1, <1>5, <1>6 DEF t, size

LEMMA SublistSet ==
  ASSUME NEW S, NEW s \in Seq(S), NEW P, \A i \in P : i \in 1 .. Len(s)
  PROVE  /\ Sublist(s, P) \in Seq(S)
         /\ \A x : x \in ToSet(Sublist(s, P)) <=> \E i \in P : s[i] = x
<1>1. PICK t : t = Sublist(s, P)
  OBVIOUS
<1>2. /\ t \in Seq(S) /\ Len(t) = Cardinality(P)
      /\ \E at : Enumerates(at, P) /\ \A n \in 1 .. Len(t) : t[n] = s[at[n]]
  BY <1>1, SublistFacts
<1>3. PICK at : Enumerates(at, P) /\ \A n \in 1 .. Len(t) : t[n] = s[at[n]]
  BY <1>2
<1>4. /\ \A n \in 1 .. Len(t) : at[n] \in P
      /\ \A i \in P : \E n \in 1 .. Len(t) : at[n] = i
  BY <1>2, <1>3 DEF Enumerates
<1>5. \A x : x \in ToSet(t) <=> \E n \in 1 .. Len(t) : t[n] = x
  BY <1>2 DEF ToSet
<1> QED
  BY <1>1, <1>2, <1>3, <1>4, <1>5

-----------------------------------------------------------------------------
(***************************************************************************)
(* The order of the elements of a list.                                    *)
(***************************************************************************)
IsList(s) == s \in Seq(Int) /\ IsInjective(s)

LEMMA ListFacts ==
  ASSUME NEW s, IsList(s)
  PROVE  /\ Len(s) \in Nat /\ DOMAIN s = 1 .. Len(s) /\ ToSet(s) \subseteq Int
         /\ \A x : x \in ToSet(s) <=> \E i \in 1 .. Len(s) : s[i] = x
         /\ \A x : Contains(s, x) <=> x \in ToSet(s)
         /\ \A i, j \in 1 .. Len(s) : s[i] = s[j] => i = j
         /\ \A i \in 1 .. Len(s) : s[i] \in Int
BY DEF IsList, ToSet, IsInjective, Contains

LEMMA PrecedesFacts ==
  ASSUME NEW s, IsList(s)
  PROVE  /\ \A x, y : Precedes(s, x, y) => x \in ToSet(s) /\ y \in ToSet(s) /\ x # y
         /\ \A x, y : Precedes(s, x, y) => ~Precedes(s, y, x)
         /\ \A x, y, z : Precedes(s, x, y) /\ Precedes(s, y, z) => Precedes(s, x, z)
         /\ \A x, y \in ToSet(s) : x = y \/ Precedes(s, x, y) \/ Precedes(s, y, x)
         /\ \A i, j \in 1 .. Len(s) : Precedes(s, s[i], s[j]) <=> i < j
<1>1. /\ Len(s) \in Nat /\ DOMAIN s = 1 .. Len(s)
      /\ \A x : x \in ToSet(s) <=> \E i \in 1 .. Len(s) : s[i] = x
      /\ \A i, j \in 1 .. Len(s) : s[i] = s[j] => i = j
  BY ListFacts
<1>2. \A i, j \in 1 .. Len(s) : Precedes(s, s[i], s[j]) <=> i < j
  BY <1>1 DEF Precedes
<1>3. \A x, y : Precedes(s, x, y) => \E i, j \in 1 .. Len(s) : i < j /\ s[i] = x /\ s[j] = y
  BY <1>1 DEF Precedes
<1>4. \A x, y : Precedes(s, x, y) => x \in ToSet(s) /\ y \in ToSet(s) /\ x # y
  BY <1>1, <1>3
<1>5. \A x, y : Precedes(s, x, y) => ~Precedes(s, y, x)
  BY <1>1, <1>2, <1>3
<1>6. ASSUME NEW x, NEW y, NEW z, Precedes(s, x, y), Precedes(s, y, z) PROVE Precedes(s, x, z)
  <2>1. PICK i, j \in 1 .. Len(s) : i < j /\ s[i] = x /\ s[j] = y
    BY <1>3, <1>6
  <2>2. PICK k, l \in 1 .. Len(s) : k < l /\ s[k] = y /\ s[l] = z
    BY <1>3, <1>6
  <2>3. j = k /\ i < l
    BY <1>1, <2>1, <2>2
  <2> QED
    BY <1>2, <2>1, <2>2, <2>3
<1>7. ASSUME NEW x \in ToSet(s), NEW y \in ToSet(s) PROVE x = y \/ Precedes(s, x, y) \/ Precedes(s, y, x)
  <2>1. PICK i \in 1 .. Len(s), j \in 1 .. Len(s) : s[i] = x /\ s[j] = y
    BY <1>1
  <2>2. i < j \/ i = j \/ j < i
    BY <1>1
  <2> QED
    BY <1>2, <2>1, <2>2
<1> QED
  BY <1>2, <1>4, <1>5, <1>6, <1>7

LEMMA ConcatFacts ==
  ASSUME NEW s \in Seq(Int), NEW t \in Seq(Int)
  PROVE  /\ s \o t \in Seq(Int) /\ Len(s \o t) = Len(s) + Len(t)
         /\ \A i \in 1 .. Len(s) : (s \o t)[i] = s[i]
         /\ \A i \in 1 .. Len(t) : (s \o t)[Len(s) + i] = t[i]
<1>1. s \o t \in Seq(Int) /\ Len(s \o t) = Len(s) + Len(t) /\ Len(s) \in Nat /\ Len(t) \in Nat
  OBVIOUS
<1>2. \A i \in 1 .. Len(s) : (s \o t)[i] = s[i]
  OBVIOUS
<1>3. \A i \in 1 .. Len(t) : (s \o t)[Len(s) + i] = t[i]
  OBVIOUS
<1> QED
  BY <1>1, <1>2, <1>3

\* e put at the end
LEMMA AppendOrder ==
  ASSUME NEW t, IsList(t), NEW e \in Int, e \notin ToSet(t), NEW u, u = Append(t, e)
  PROVE  /\ IsList(u) /\ ToSet(u) = ToSet(t) \union {e}
         /\ \A x, y : Precedes(u, x, y) <=> Precedes(t, x, y) \/ (x \in ToSet(t) /\ y = e)
<1>1. /\ Len(t) \in Nat /\ DOMAIN t = 1 .. Len(t)
      /\ \A x : x \in ToSet(t) <=> \E i \in 1 .. Len(t) : t[i] = x
      /\ \A i, j \in 1 .. Len(t) : t[i] = t[j] => i = j
  BY ListFacts
<1>2. /\ u \in Seq(Int) /\ Len(u) = Len(t) + 1 /\ DOMAIN u = 1 .. Len(t) + 1
      /\ u[Len(t) + 1] = e /\ \A i \in 1 .. Len(t) : u[i] = t[i]
  BY DEF IsList
<1>3. IsList(u)
  BY <1>1, <1>2 DEF IsList, IsInjective
<1>4. ToSet(u) = ToSet(t) \union {e}
  BY <1>1, <1>2 DEF ToSet
<1>5. ASSUME NEW x, NEW y
      PROVE  Precedes(u, x, y) <=> Precedes(t, x, y) \/ (x \in ToSet(t) /\ y = e)
  <2>1. ASSUME Precedes(u, x, y) PROVE Precedes(t, x, y) \/ (x \in ToSet(t) /\ y = e)
    <3>1. PICK i \in 1 .. Len(t) + 1, j \in 1 .. Len(t) + 1 : i < j /\ u[i] = x /\ u[j] = y
      BY <1>2, <2>1 DEF Precedes
    <3>2. i \in 1 .. Len(t) /\ (j \in 1 .. Len(t) \/ j = Len(t) + 1)
      BY <1>1, <3>1
    <3>3. t[i] = x /\ ((j \in 1 .. Len(t) /\ t[j] = y) \/ y = e)
      BY <1>2, <3>1, <3>2
    <3>4. CASE j \in 1 .. Len(t) /\ t[j] = y
      <4>1. i \in DOMAIN t /\ j \in DOMAIN t
        BY <1>1, <3>2, <3>4
      <4>2. Precedes(t, x, y)
        BY <3>1, <3>3, <3>4, <4>1 DEF Precedes
      <4> QED
        BY <4>2
    <3>5. CASE y = e
      BY <1>1, <3>2, <3>3, <3>5
    <3> QED
      BY <3>3, <3>4, <3>5
  <2>2. ASSUME Precedes(t, x, y) PROVE Precedes(u, x, y)
    BY <1>1, <1>2, <2>2 DEF Precedes
  <2>3. ASSUME x \in ToSet(t), y = e PROVE Precedes(u, x, y)
    BY <1>1, <1>2, <2>3, SMTT(30) DEF Precedes
  <2> QED
    BY <2>1, <2>2, <2>3
<1> QED
  BY <1>3, <1>4, <1>5

\* e put before the k-th element
LEMMA InsertOrder ==
  ASSUME NEW t, IsList(t), NEW e \in Int, e \notin ToSet(t), NEW k \in DOMAIN t,
         NEW u, u = InsertAt(t, k, e)
  PROVE  /\ IsList(u) /\ ToSet(u) = ToSet(t) \union {e}
         /\ \A x, y : x # e /\ y # e => (Precedes(u, x, y) <=> Precedes(t, x, y))
         /\ \A x : Precedes(u, x, e) <=> Precedes(t, x, t[k])
         /\ \A y : Precedes(u, e, y) <=> y = t[k] \/ Precedes(t, t[k], y)
<1>1. /\ Len(t) \in Nat /\ DOMAIN t = 1 .. Len(t)
      /\ \A x : x \in ToSet(t) <=> \E i \in 1 .. Len(t) : t[i] = x
      /\ \A i, j \in 1 .. Len(t) : t[i] = t[j] => i = j
  BY ListFacts
<1>2. /\ u \in Seq(Int) /\ Len(u) = Len(t) + 1 /\ DOMAIN u = 1 .. Len(t) + 1
      /\ u[k] = e /\ \A i \in 1 .. k - 1 : u[i] = t[i]
      /\ \A i \in k .. Len(t) : u[i + 1] = t[i]
  <2> DEFINE a == SubSeq(t, 1, k - 1)
             b == SubSeq(t, k, Len(t))
             c == a \o <<e>>
  <2>0. t \in Seq(Int) /\ k \in 1 .. Len(t) /\ Len(t) \in Nat
    BY <1>1 DEF IsList
  <2>1. a \in Seq(Int) /\ Len(a) = k - 1 /\ \A i \in 1 .. k - 1 : a[i] = t[i]
    BY <2>0
  <2>2. b \in Seq(Int) /\ Len(b) = Len(t) - k + 1 /\ \A i \in 1 .. Len(t) - k + 1 : b[i] = t[i + k - 1]
    <3>1. b \in Seq(Int) /\ Len(b) = Len(t) - k + 1
      BY <2>0
    <3>2. ASSUME NEW i \in 1 .. Len(t) - k + 1 PROVE b[i] = t[i + k - 1]
      BY <2>0, <3>2, SMTT(30)
    <3> QED
      BY <3>1, <3>2
  <2> HIDE DEF a, b
  <2>3. /\ c \in Seq(Int) /\ Len(c) = k /\ c[k] = e
        /\ \A i \in 1 .. k - 1 : c[i] = t[i]
    BY <2>0, <2>1, SMTT(30)
  <2>4. u = c \o b
    BY DEF InsertAt, a, b
  <2> HIDE DEF c
  <2>5. /\ u \in Seq(Int) /\ Len(u) = Len(c) + Len(b)
        /\ \A i \in 1 .. Len(c) : u[i] = c[i]
        /\ \A i \in 1 .. Len(b) : u[Len(c) + i] = b[i]
    <3>1. /\ c \o b \in Seq(Int) /\ Len(c \o b) = Len(c) + Len(b)
          /\ \A i \in 1 .. Len(c) : (c \o b)[i] = c[i]
          /\ \A i \in 1 .. Len(b) : (c \o b)[Len(c) + i] = b[i]
      BY <2>2, <2>3, ConcatFacts
    <3> QED
      BY <2>4, <3>1
  <2>7. Len(u) = Len(t) + 1 /\ DOMAIN u = 1 .. Len(t) + 1
    <3>1. Len(u) = Len(t) + 1
      BY <2>0, <2>2, <2>3, <2>5, SMTT(30)
    <3> QED
      BY <2>5, <3>1
  <2>6. ASSUME NEW i \in k .. Len(t) PROVE u[i + 1] = t[i]
    <3>1. i - k + 1 \in 1 .. Len(t) - k + 1 /\ k + (i - k + 1) = i + 1 /\ (i - k + 1) + k - 1 = i
      BY <2>0, SMTT(30)
    <3>2. PICK m \in 1 .. Len(t) - k + 1 : k + m = i + 1 /\ m + k - 1 = i
      BY <3>1
    <3>3. u[k + m] = b[m] /\ b[m] = t[m + k - 1]
      BY <2>2, <2>3, <2>5
    <3> QED
      BY <3>2, <3>3
  <2>8. k \in 1 .. Len(c) /\ \A i \in 1 .. k - 1 : i \in 1 .. Len(c)
    BY <2>0, <2>3
  <2>9. u[k] = e /\ \A i \in 1 .. k - 1 : u[i] = t[i]
    BY <2>3, <2>5, <2>8
  <2> QED
    BY <2>5, <2>6, <2>7, <2>9
<1> DEFINE to(i) == IF i < k THEN i ELSE i + 1
<1>18. \A i, j \in 1 .. Len(t) : i < j <=> to(i) < to(j)
  BY <1>1
<1>3. /\ \A i \in 1 .. Len(t) : to(i) \in DOMAIN u /\ u[to(i)] = t[i] /\ to(i) # k
      /\ \A i, j \in 1 .. Len(t) : i < j <=> to(i) < to(j)
  <2> SUFFICES ASSUME NEW i \in 1 .. Len(t)
               PROVE  to(i) \in DOMAIN u /\ u[to(i)] = t[i] /\ to(i) # k
    BY <1>18
  <2>1. CASE i < k
    <3>1. to(i) = i /\ i \in 1 .. k - 1 /\ i \in 1 .. Len(t) + 1
      BY <1>1, <2>1
    <3> QED
      BY <1>1, <1>2, <3>1
  <2>2. CASE k <= i
    <3>1. to(i) = i + 1 /\ i \in k .. Len(t) /\ i + 1 \in 1 .. Len(t) + 1 /\ i + 1 # k
      BY <1>1, <2>2
    <3> QED
      BY <1>1, <1>2, <3>1
  <2> QED
    BY <1>1, <2>1, <2>2
<1>17. \A i \in 1 .. Len(t) : (i < k <=> to(i) < k) /\ (k <= i <=> k < to(i))
  BY <1>1
<1>4. \A n \in DOMAIN u : n = k \/ \E i \in 1 .. Len(t) : n = to(i)
  <2> SUFFICES ASSUME NEW n \in 1 .. Len(t) + 1, n # k PROVE \E i \in 1 .. Len(t) : n = to(i)
    BY <1>2
  <2>1. CASE n < k
    <3>1. n \in 1 .. Len(t) /\ n = to(n)
      BY <1>1, <2>1
    <3> QED
      BY <3>1
  <2>2. CASE k < n
    <3>1. n - 1 \in 1 .. Len(t) /\ n = to(n - 1)
      BY <1>1, <2>2
    <3> QED
      BY <3>1
  <2> QED
    BY <1>1, <2>1, <2>2
<1> HIDE DEF to
<1>5. k \in DOMAIN u /\ k \in 1 .. Len(t) /\ \A i \in 1 .. Len(t) : t[i] # e
  BY <1>1, <1>2
<1>6. IsList(u)
  <2> SUFFICES ASSUME NEW m \in DOMAIN u, NEW n \in DOMAIN u, u[m] = u[n] PROVE m = n
    BY <1>2 DEF IsList, IsInjective
  <2>0. \A l \in DOMAIN u : u[l] = e => l = k
    BY <1>3, <1>4, <1>5
  <2>1. CASE m = k \/ n = k
    BY <1>2, <2>0, <2>1
  <2>2. CASE m # k /\ n # k
    <3>1. PICK i \in 1 .. Len(t), j \in 1 .. Len(t) : m = to(i) /\ n = to(j)
      BY <1>4, <2>2
    <3>2. t[i] = t[j]
      BY <1>3, <3>1
    <3> QED
      BY <1>1, <3>1, <3>2
  <2> QED
    BY <2>1, <2>2
<1>7. ToSet(u) = ToSet(t) \union {e}
  <2>1. ASSUME NEW x \in ToSet(u) PROVE x \in ToSet(t) \union {e}
    <3>1. PICK n \in DOMAIN u : u[n] = x
      BY <1>2 DEF ToSet
    <3>2. CASE n = k
      BY <1>2, <3>1, <3>2
    <3>3. CASE n # k
      <4>1. PICK i \in 1 .. Len(t) : n = to(i)
        BY <1>4, <3>3
      <4>2. t[i] = x
        BY <1>3, <3>1, <4>1
      <4> QED
        BY <1>1, <4>2
    <3> QED
      BY <3>2, <3>3
  <2>2. ASSUME NEW x \in ToSet(t) PROVE x \in ToSet(u)
    BY <1>1, <1>3 DEF ToSet
  <2>3. e \in ToSet(u)
    BY <1>2, <1>5 DEF ToSet
  <2> QED
    BY <2>1, <2>2, <2>3
<1>8. \A i, j \in DOMAIN u : Precedes(u, u[i], u[j]) <=> i < j
  <2>1. \A i, j \in 1 .. Len(u) : Precedes(u, u[i], u[j]) <=> i < j
    BY <1>6, PrecedesFacts
  <2> QED
    BY <1>2, <2>1
<1>9. \A i, j \in 1 .. Len(t) : Precedes(t, t[i], t[j]) <=> i < j
  BY PrecedesFacts
<1>10. /\ \A x, y : Precedes(u, x, y) => x \in ToSet(u) /\ y \in ToSet(u) /\ x # y
       /\ \A x, y : Precedes(t, x, y) => x \in ToSet(t) /\ y \in ToSet(t) /\ x # y
  BY <1>6, PrecedesFacts
<1>11. \A i, j \in 1 .. Len(t) : Precedes(u, t[i], t[j]) <=> Precedes(t, t[i], t[j])
  BY <1>3, <1>8, <1>9
<1>12. \A x, y : x # e /\ y # e => (Precedes(u, x, y) <=> Precedes(t, x, y))
  BY <1>1, <1>7, <1>10, <1>11
<1>13. \A i \in 1 .. Len(t) : Precedes(u, t[i], e) <=> i < k
  BY <1>2, <1>3, <1>5, <1>8, <1>17
<1>14. \A i \in 1 .. Len(t) : Precedes(u, e, t[i]) <=> k <= i
  BY <1>2, <1>3, <1>5, <1>8, <1>17
<1>15. \A x : Precedes(u, x, e) <=> Precedes(t, x, t[k])
  <2>1. \A i \in 1 .. Len(t) : Precedes(u, t[i], e) <=> Precedes(t, t[i], t[k])
    BY <1>5, <1>9, <1>13
  <2> QED
    BY <1>1, <1>7, <1>10, <2>1
<1>16. \A y : Precedes(u, e, y) <=> y = t[k] \/ Precedes(t, t[k], y)
  <2>1. \A i \in 1 .. Len(t) : k <= i <=> i = k \/ k < i
    BY <1>5
  <2>2. \A i \in 1 .. Len(t) : Precedes(u, e, t[i]) <=> t[i] = t[k] \/ Precedes(t, t[k], t[i])
    BY <1>1, <1>5, <1>9, <1>14, <2>1
  <2> QED
    BY <1>1, <1>5, <1>7, <1>10, <2>2
<1> QED
  BY <1>6, <1>7, <1>12, <1>15, <1>16

\* All occurrences of e left out
LEMMA WithoutOrder ==
  ASSUME NEW s, IsList(s), NEW e,
         NEW P, \A i : i \in P <=> i \in DOMAIN s /\ s[i] # e,
         NEW t, t = Sublist(s, P)
  PROVE  /\ IsList(t) /\ ToSet(t) = ToSet(s) \ {e}
         /\ \A x, y : Precedes(t, x, y) <=> Precedes(s, x, y) /\ x # e /\ y # e
<1>1. /\ Len(s) \in Nat /\ DOMAIN s = 1 .. Len(s)
      /\ \A x : x \in ToSet(s) <=> \E i \in 1 .. Len(s) : s[i] = x
      /\ \A i, j \in 1 .. Len(s) : s[i] = s[j] => i = j
  BY ListFacts
<1>2. \A i : i \in P <=> i \in 1 .. Len(s) /\ s[i] # e
  BY <1>1
<1>3. /\ t \in Seq(Int) /\ Len(t) = Cardinality(P)
      /\ \E at : Enumerates(at, P) /\ \A n \in 1 .. Len(t) : t[n] = s[at[n]]
  <2>0. PICK S : S = Int
    OBVIOUS
  <2>1. s \in Seq(S) /\ \A i \in P : i \in 1 .. Len(s)
    BY <1>2, <2>0 DEF IsList
  <2>3. /\ Sublist(s, P) \in Seq(S) /\ Len(Sublist(s, P)) = Cardinality(P)
        /\ \E at : Enumerates(at, P)
                     /\ \A n \in 1 .. Len(Sublist(s, P)) : Sublist(s, P)[n] = s[at[n]]
    BY <2>1, SublistFacts
  <2> QED
    BY <2>0, <2>3
<1>4. PICK at : Enumerates(at, P) /\ \A n \in 1 .. Len(t) : t[n] = s[at[n]]
  BY <1>3
<1>5. Len(t) \in Nat /\ DOMAIN t = 1 .. Len(t)
  BY <1>3
<1>6. /\ \A n \in 1 .. Len(t) : at[n] \in 1 .. Len(s) /\ s[at[n]] # e /\ t[n] = s[at[n]]
      /\ \A m, n \in 1 .. Len(t) : m < n => at[m] < at[n]
      /\ \A i \in 1 .. Len(s) : s[i] # e => \E n \in 1 .. Len(t) : at[n] = i
  BY <1>2, <1>3, <1>4 DEF Enumerates
<1>7. IsList(t)
  <2> SUFFICES ASSUME NEW m \in 1 .. Len(t), NEW n \in 1 .. Len(t), t[m] = t[n] PROVE m = n
    BY <1>3, <1>5 DEF IsList, IsInjective
  <2>1. at[m] = at[n] /\ at[m] \in Int
    BY <1>1, <1>6
  <2>2. ~(m < n) /\ ~(n < m)
    BY <1>6, <2>1
  <2> QED
    BY <1>5, <2>2
<1>8. ToSet(t) = ToSet(s) \ {e}
  <2>1. ASSUME NEW x \in ToSet(t) PROVE x \in ToSet(s) /\ x # e
    BY <1>1, <1>5, <1>6 DEF ToSet
  <2>2. ASSUME NEW x \in ToSet(s), x # e PROVE x \in ToSet(t)
    <3>1. PICK i \in 1 .. Len(s) : s[i] = x
      BY <1>1
    <3>2. PICK n \in 1 .. Len(t) : at[n] = i
      BY <1>6, <2>2, <3>1
    <3>3. t[n] = x /\ n \in DOMAIN t
      BY <1>5, <1>6, <3>1, <3>2
    <3> QED
      BY <3>3 DEF ToSet
  <2> QED
    BY <2>1, <2>2
<1>9. ASSUME NEW x, NEW y, Precedes(t, x, y) PROVE Precedes(s, x, y) /\ x # e /\ y # e
  <2>1. PICK m \in 1 .. Len(t), n \in 1 .. Len(t) : m < n /\ t[m] = x /\ t[n] = y
    BY <1>5, <1>9 DEF Precedes
  <2>2. at[m] < at[n] /\ s[at[m]] = x /\ s[at[n]] = y /\ at[m] \in DOMAIN s /\ at[n] \in DOMAIN s
    BY <1>1, <1>6, <2>1
  <2> QED
    BY <1>6, <2>1, <2>2 DEF Precedes
<1>10. ASSUME NEW x, NEW y, Precedes(s, x, y), x # e, y # e PROVE Precedes(t, x, y)
  <2>1. PICK i \in 1 .. Len(s), j \in 1 .. Len(s) : i < j /\ s[i] = x /\ s[j] = y
    BY <1>1, <1>10 DEF Precedes
  <2>2. PICK m \in 1 .. Len(t), n \in 1 .. Len(t) : at[m] = i /\ at[n] = j
    BY <1>6, <1>10, <2>1
  <2>3. m < n
    <3>1. m # n /\ ~(n < m)
      BY <1>6, <2>1, <2>2
    <3> QED
      BY <1>5, <3>1
  <2>4. t[m] = x /\ t[n] = y /\ m \in DOMAIN t /\ n \in DOMAIN t
    BY <1>5, <1>6, <2>1, <2>2
  <2> QED
    BY <2>3, <2>4 DEF Precedes
<1> QED
  BY <1>7, <1>8, <1>9, <1>10

===============================================================================
