--------------------------- MODULE ReactivityProofs ---------------------------
(***************************************************************************)
(* Proofs about Reactivity, for all data, getters, watchers and mutations: *)
(* subscriptions mirror dependencies at every moment, a watcher torn down  *)
(* is not called back, and nothing that is clean or settled is stale.      *)
(***************************************************************************)
EXTENDS Reactivity, FiniteSetTheorems, TLAPS

-----------------------------------------------------------------------------
(***************************************************************************)
(* Sequences of whatever they hold.                                        *)
(***************************************************************************)
IsASeq(s) == s \in Seq({ s[i] : i \in DOMAIN s })

LEMMA SeqIsASeq == ASSUME NEW S, NEW s \in Seq(S) PROVE IsASeq(s)
<1>1. s = [i \in 1 .. Len(s) |-> s[i]] /\ Len(s) \in Nat /\ DOMAIN s = 1 .. Len(s)
  OBVIOUS
<1>2. \A i \in 1 .. Len(s) : s[i] \in { s[j] : j \in DOMAIN s }
  BY <1>1
<1> QED
  BY <1>1, <1>2 DEF IsASeq

LEMMA EmptyIsASeq == IsASeq(<<>>)
BY SeqIsASeq, <<>> \in Seq({})

LEMMA AppendFacts ==
  ASSUME NEW s, IsASeq(s), NEW e
  PROVE  /\ IsASeq(Append(s, e)) /\ Len(Append(s, e)) = Len(s) + 1 /\ Len(s) \in Nat
         /\ Append(s, e)[Len(s) + 1] = e
         /\ \A i \in 1 .. Len(s) : Append(s, e)[i] = s[i]
         /\ \A x : Contains(Append(s, e), x) <=> Contains(s, x) \/ x = e
<1> DEFINE S == { s[i] : i \in DOMAIN s } \union {e}
<1>1. s \in Seq(S) /\ e \in S
  BY DEF IsASeq
<1>2. Append(s, e) \in Seq(S)
  BY <1>1
<1>3. IsASeq(Append(s, e))
  BY <1>2, SeqIsASeq
<1>4. /\ Len(Append(s, e)) = Len(s) + 1 /\ Len(s) \in Nat
      /\ Append(s, e)[Len(s) + 1] = e
      /\ \A i \in 1 .. Len(s) : Append(s, e)[i] = s[i]
  BY <1>1
<1>5. \A x : Contains(Append(s, e), x) <=> Contains(s, x) \/ x = e
  BY <1>4 DEF Contains
<1> QED
  BY <1>3, <1>4, <1>5

LEMMA PushFacts ==
  ASSUME NEW s, IsASeq(s), NEW e
  PROVE  /\ IsASeq(<<e>> \o s) /\ Len(<<e>> \o s) = Len(s) + 1 /\ Len(s) \in Nat
         /\ (<<e>> \o s)[1] = e /\ Head(<<e>> \o s) = e /\ <<e>> \o s # <<>>
         /\ \A i \in 1 .. Len(s) : (<<e>> \o s)[i + 1] = s[i]
         /\ DOMAIN s = 1 .. Len(s) /\ DOMAIN (<<e>> \o s) = 1 .. Len(s) + 1
<1> DEFINE S == { s[i] : i \in DOMAIN s } \union {e}
<1>1. s \in Seq(S) /\ e \in S /\ <<e>> \in Seq(S)
  BY DEF IsASeq
<1>2. <<e>> \o s \in Seq(S)
  BY <1>1
<1>3. IsASeq(<<e>> \o s)
  BY <1>2, SeqIsASeq
<1>4. /\ Len(<<e>> \o s) = Len(s) + 1 /\ Len(s) \in Nat
      /\ (<<e>> \o s)[1] = e
      /\ \A i \in 1 .. Len(s) : (<<e>> \o s)[i + 1] = s[i]
      /\ DOMAIN s = 1 .. Len(s) /\ DOMAIN (<<e>> \o s) = 1 .. Len(s) + 1
  BY <1>1
<1>5. <<e>> \o s # <<>> /\ Head(<<e>> \o s) = e
  BY <1>2, <1>4
<1> QED
  BY <1>3, <1>4, <1>5

LEMMA TailFacts ==
  ASSUME NEW s, IsASeq(s), s # <<>>
  PROVE  /\ IsASeq(Tail(s)) /\ Len(s) \in Nat \ {0} /\ Len(Tail(s)) = Len(s) - 1 /\ Head(s) = s[1]
         /\ \A i \in 1 .. Len(s) - 1 : Tail(s)[i] = s[i + 1]
         /\ DOMAIN s = 1 .. Len(s) /\ DOMAIN Tail(s) = 1 .. Len(s) - 1
<1> DEFINE S == { s[i] : i \in DOMAIN s }
<1>1. s \in Seq(S)
  BY DEF IsASeq
<1>2. Tail(s) \in Seq(S)
  BY <1>1
<1>3. IsASeq(Tail(s))
  BY <1>2, SeqIsASeq
<1> QED
  BY <1>1, <1>3

-----------------------------------------------------------------------------
(***************************************************************************)
(* The call stack.                                                         *)
(***************************************************************************)
IsGet(f) == f.kind = "get"

\* Above a getter there are only evaluations of computed properties; a getter
\* that runs belongs to a watcher that is active.
StackInv(st, act) ==
  /\ IsASeq(st)
  /\ \A i \in 1 .. Len(st) : IsGet(st[i]) => st[i].w \in act
  /\ \A i, j \in 1 .. Len(st) : i < j /\ IsGet(st[j]) => IsGet(st[i]) /\ st[i].why = "read"

\* w is being evaluated
Evaluates(st, w) == \E i \in 1 .. Len(st) : IsGet(st[i]) /\ st[i].w = w

\* What may be put on top of the frames st
Fits(f, st, act) ==
  /\ IsGet(f) => f.w \in act
  /\ \A i \in 1 .. Len(st) : IsGet(st[i]) => IsGet(f) /\ f.why = "read"

LEMMA PushStack ==
  ASSUME NEW st, NEW act, StackInv(st, act), NEW f, Fits(f, st, act)
  PROVE  /\ StackInv(<<f>> \o st, act)
         /\ \A w : Evaluates(<<f>> \o st, w) <=> Evaluates(st, w) \/ (IsGet(f) /\ f.w = w)
<1> DEFINE new == <<f>> \o st
<1>1. /\ IsASeq(new) /\ Len(new) = Len(st) + 1 /\ Len(st) \in Nat /\ new[1] = f
      /\ \A i \in 1 .. Len(st) : new[i + 1] = st[i]
  BY PushFacts DEF StackInv
<1>2. \A i \in 1 .. Len(new) : i = 1 \/ (i - 1 \in 1 .. Len(st) /\ new[i] = st[i - 1])
  BY <1>1
<1> HIDE DEF new
<1>3. \A i \in 1 .. Len(new) : IsGet(new[i]) => new[i].w \in act
  BY <1>1, <1>2 DEF StackInv, Fits
<1>4. ASSUME NEW i \in 1 .. Len(new), NEW j \in 1 .. Len(new), i < j, IsGet(new[j])
      PROVE  IsGet(new[i]) /\ new[i].why = "read"
  <2>1. j - 1 \in 1 .. Len(st) /\ new[j] = st[j - 1]
    BY <1>2, <1>4
  <2>2. CASE i = 1
    BY <1>1, <1>4, <2>1, <2>2 DEF Fits
  <2>3. CASE i # 1
    <3>1. i - 1 \in 1 .. Len(st) /\ new[i] = st[i - 1] /\ i - 1 < j - 1
      BY <1>2, <1>4, <2>3
    <3> QED
      BY <1>4, <2>1, <3>1 DEF StackInv
  <2> QED
    BY <2>2, <2>3
<1>5. ASSUME NEW w PROVE Evaluates(new, w) <=> Evaluates(st, w) \/ (IsGet(f) /\ f.w = w)
  <2>1. 1 \in 1 .. Len(new) /\ \A i \in 1 .. Len(st) : i + 1 \in 1 .. Len(new)
    BY <1>1
  <2> QED
    BY <1>1, <1>2, <2>1 DEF Evaluates
<1> QED
  BY <1>1, <1>3, <1>4, <1>5 DEF StackInv, new

LEMMA PopStack ==
  ASSUME NEW st, NEW act, StackInv(st, act), st # <<>>
  PROVE  /\ StackInv(Tail(st), act)
         /\ \A w : Evaluates(st, w) <=> Evaluates(Tail(st), w) \/ (IsGet(Head(st)) /\ Head(st).w = w)
         /\ IsGet(Head(st)) => Head(st).w \in act
         /\ \A i \in 1 .. Len(Tail(st)) :
              IsGet(Tail(st)[i]) => IsGet(Head(st)) /\ Head(st).why = "read"
<1> DEFINE rest == Tail(st)
<1>1. /\ IsASeq(rest) /\ Len(st) \in Nat \ {0} /\ Len(rest) = Len(st) - 1 /\ Head(st) = st[1]
      /\ \A i \in 1 .. Len(rest) : rest[i] = st[i + 1] /\ i + 1 \in 1 .. Len(st)
  BY TailFacts DEF StackInv
<1> HIDE DEF rest
<1>2. \A i \in 1 .. Len(rest) : IsGet(rest[i]) => rest[i].w \in act
  BY <1>1 DEF StackInv
<1>3. ASSUME NEW i \in 1 .. Len(rest), NEW j \in 1 .. Len(rest), i < j, IsGet(rest[j])
      PROVE  IsGet(rest[i]) /\ rest[i].why = "read"
  <2>1. /\ rest[i] = st[i + 1] /\ rest[j] = st[j + 1] /\ i + 1 < j + 1
        /\ i + 1 \in 1 .. Len(st) /\ j + 1 \in 1 .. Len(st)
    BY <1>1, <1>3
  <2> QED
    BY <1>3, <2>1 DEF StackInv
<1>4. ASSUME NEW w PROVE Evaluates(st, w) <=> Evaluates(rest, w) \/ (IsGet(st[1]) /\ st[1].w = w)
  <2>1. \A i \in 1 .. Len(st) : i = 1 \/ (i - 1 \in 1 .. Len(rest) /\ st[i] = rest[i - 1])
    BY <1>1
  <2>2. 1 \in 1 .. Len(st)
    BY <1>1
  <2> QED
    BY <1>1, <2>1, <2>2 DEF Evaluates
<1>5. IsGet(st[1]) => st[1].w \in act
  BY <1>1 DEF StackInv
<1>6. ASSUME NEW i \in 1 .. Len(rest), IsGet(rest[i]) PROVE IsGet(st[1]) /\ st[1].why = "read"
  <2>1. i + 1 \in 1 .. Len(st) /\ rest[i] = st[i + 1] /\ 1 \in 1 .. Len(st) /\ 1 < i + 1
    BY <1>1
  <2> QED
    BY <1>6, <2>1 DEF StackInv
<1> QED
  BY <1>1, <1>2, <1>3, <1>4, <1>5, <1>6 DEF StackInv, rest

\* The topmost frame is replaced by one that fits as well.
LEMMA ReplaceTop ==
  ASSUME NEW st, NEW act, StackInv(st, act), st # <<>>, NEW f,
         IsGet(f) <=> IsGet(Head(st)), IsGet(f) => f.w = Head(st).w /\ f.why = Head(st).why
  PROVE  /\ StackInv(<<f>> \o Tail(st), act)
         /\ \A w : Evaluates(<<f>> \o Tail(st), w) <=> Evaluates(st, w)
<1>1. /\ StackInv(Tail(st), act)
      /\ \A w : Evaluates(st, w) <=> Evaluates(Tail(st), w) \/ (IsGet(Head(st)) /\ Head(st).w = w)
      /\ Fits(f, Tail(st), act)
  BY PopStack DEF Fits
<1> QED
  BY <1>1, PushStack

\* What is read is handed to the topmost getter.
LEMMA ReturnedStack ==
  ASSUME NEW st, NEW act, StackInv(st, act), NEW v, NEW ds
  PROVE  /\ StackInv(Returned(st, v, ds), act)
         /\ \A w : Evaluates(Returned(st, v, ds), w) <=> Evaluates(st, w)
BY ReplaceTop DEF Returned, Getting, Frame, IsGet

\* When the topmost frame is not a getter, none is.
LEMMA NoGetter ==
  ASSUME NEW st, NEW act, StackInv(st, act), st # <<>> => ~IsGet(Head(st))
  PROVE  \A i \in 1 .. Len(st) : ~IsGet(st[i])
<1>1. CASE st = <<>>
  BY <1>1
<1>2. CASE st # <<>>
  <2>1. Len(st) \in Nat \ {0} /\ Head(st) = st[1]
    BY <1>2, TailFacts DEF StackInv
  <2>2. 1 \in 1 .. Len(st) /\ \A i \in 1 .. Len(st) : i = 1 \/ 1 < i
    BY <2>1
  <2> QED
    BY <1>2, <2>1, <2>2 DEF StackInv
<1> QED
  BY <1>1, <1>2

-----------------------------------------------------------------------------
(***************************************************************************)
(* The lists of subscribers.                                               *)
(***************************************************************************)
\* Nobody is in the list twice.
Once(s) == \A i, j \in 1 .. Len(s) : s[i] = s[j] /\ s[i] # Hole => i = j

\* The filter keeps who is there, once each.
LEMMA FilteredFacts ==
  ASSUME NEW s, IsASeq(s), Once(s)
  PROVE  /\ IsASeq(Filtered(s)) /\ Once(Filtered(s)) /\ ~Contains(Filtered(s), Hole)
         /\ \A x : x # Hole => (Contains(Filtered(s), x) <=> Contains(s, x))
<1> DEFINE kept == { i \in DOMAIN s : s[i] # Hole }
           upTo(i) == { j \in kept : j <= i }
           rank == [i \in kept |-> Cardinality(upTo(i))]
           place(n) == CHOOSE i \in kept : Cardinality(upTo(i)) = n
           size == Cardinality(kept)
<1>1. Len(s) \in Nat /\ DOMAIN s = 1 .. Len(s)
  BY DEF IsASeq
<1>2. IsFiniteSet(kept) /\ size \in Nat /\ kept \subseteq Int
  <2>1. IsFiniteSet(1 .. Len(s)) /\ kept \in SUBSET (1 .. Len(s))
    BY <1>1, FS_Interval
  <2> QED
    BY <2>1, FS_Subset, FS_CardinalityType
<1>3. ASSUME NEW i \in kept PROVE rank[i] \in 1 .. size
  <2>1. IsFiniteSet(upTo(i)) /\ Cardinality(upTo(i)) <= size /\ Cardinality(upTo(i)) \in Nat
    BY <1>2, FS_Subset, FS_CardinalityType, upTo(i) \in SUBSET kept
  <2>2. upTo(i) # {}
    BY <1>2, i \in upTo(i)
  <2>3. Cardinality(upTo(i)) # 0
    BY <2>1, <2>2, FS_EmptySet
  <2> QED
    BY <1>2, <2>1, <2>3
<1>4. ASSUME NEW i \in kept, NEW j \in kept, i < j PROVE rank[i] # rank[j]
  <2>1. upTo(i) \in SUBSET upTo(j) /\ j \in upTo(j) /\ j \notin upTo(i)
    BY <1>2, <1>4
  <2>2. IsFiniteSet(upTo(j))
    BY <1>2, FS_Subset, upTo(j) \in SUBSET kept
  <2>3. Cardinality(upTo(i)) # Cardinality(upTo(j))
    BY <2>1, <2>2, FS_Subset
  <2> QED
    BY <2>3
<1>5. ASSUME NEW i \in kept, NEW j \in kept, rank[i] = rank[j] PROVE i = j
  BY <1>2, <1>4, <1>5
<1>6. \A n \in 1 .. size : \E i \in kept : rank[i] = n
  <2>1. rank \in Injection(kept, 1 .. size)
    BY <1>3, <1>5 DEF Injection, IsInjective
  <2>2. IsFiniteSet(1 .. size) /\ Cardinality(1 .. size) = size
    BY <1>2, FS_Interval
  <2>3. rank \in Surjection(kept, 1 .. size)
    BY <2>1, <2>2, FS_Injection
  <2> QED
    BY <2>3 DEF Surjection
<1>7. ASSUME NEW n \in 1 .. size PROVE place(n) \in kept /\ rank[place(n)] = n
  <2>1. \E i \in kept : Cardinality(upTo(i)) = n
    BY <1>6
  <2>2. place(n) \in kept /\ Cardinality(upTo(place(n))) = n
    BY <2>1
  <2> QED
    BY <2>2
<1>8. Filtered(s) = [n \in 1 .. size |-> s[place(n)]]
  BY DEF Filtered
<1> HIDE DEF rank, place, size
<1>9. \A n \in 1 .. size : s[place(n)] # Hole /\ place(n) \in 1 .. Len(s)
  BY <1>1, <1>7
<1>10. Filtered(s) \in Seq({ s[i] : i \in DOMAIN s }) /\ Len(Filtered(s)) = size
  BY <1>1, <1>2, <1>8, <1>9
<1>11. IsASeq(Filtered(s))
  BY <1>10, SeqIsASeq
<1>12. ASSUME NEW n \in 1 .. size, NEW m \in 1 .. size, s[place(n)] = s[place(m)] PROVE n = m
  <2>1. place(n) = place(m)
    BY <1>9, <1>12 DEF Once
  <2> QED
    BY <1>7, <2>1
<1>13. Once(Filtered(s)) /\ ~Contains(Filtered(s), Hole)
  BY <1>8, <1>9, <1>10, <1>12 DEF Once, Contains
<1>14. ASSUME NEW x, x # Hole, Contains(s, x) PROVE Contains(Filtered(s), x)
  <2>1. PICK i \in 1 .. Len(s) : s[i] = x
    BY <1>14 DEF Contains
  <2>2. i \in kept /\ rank[i] \in 1 .. size
    BY <1>1, <1>3, <1>14, <2>1
  <2>3. place(rank[i]) = i
    BY <1>5, <1>7, <2>2
  <2> QED
    BY <1>8, <1>10, <2>1, <2>2, <2>3 DEF Contains
<1>15. ASSUME NEW x, Contains(Filtered(s), x) PROVE Contains(s, x)
  BY <1>8, <1>9, <1>10, <1>15 DEF Contains
<1> QED
  BY <1>11, <1>13, <1>14, <1>15

\* A subscriber becomes a hole.
LEMMA HoleFacts ==
  ASSUME NEW s, IsASeq(s), Once(s), NEW w, w # Hole, Contains(s, w),
         NEW t, t = [s EXCEPT ![CHOOSE i \in DOMAIN s : s[i] = w] = Hole]
  PROVE  /\ IsASeq(t) /\ Once(t) /\ Contains(t, Hole)
         /\ \A x : x # Hole => (Contains(t, x) <=> Contains(s, x) /\ x # w)
<1> DEFINE k == CHOOSE i \in DOMAIN s : s[i] = w
<1>1. Len(s) \in Nat /\ DOMAIN s = 1 .. Len(s) /\ s \in Seq({ s[i] : i \in DOMAIN s } \union {Hole})
  BY DEF IsASeq
<1>2. k \in 1 .. Len(s) /\ s[k] = w
  BY <1>1 DEF Contains
<1> HIDE DEF k
<1>3. /\ t \in Seq({ s[i] : i \in DOMAIN s } \union {Hole}) /\ Len(t) = Len(s)
      /\ t[k] = Hole /\ \A i \in 1 .. Len(s) : i # k => t[i] = s[i]
  BY <1>1, <1>2 DEF k
<1>4. IsASeq(t)
  BY <1>3, SeqIsASeq
<1>5. \A i \in 1 .. Len(s) : s[i] = w => i = k
  BY <1>2 DEF Once
<1>6. Once(t) /\ Contains(t, Hole)
  BY <1>2, <1>3 DEF Once, Contains
<1>7. \A x : x # Hole => (Contains(t, x) <=> Contains(s, x) /\ x # w)
  BY <1>2, <1>3, <1>5 DEF Contains
<1> QED
  BY <1>4, <1>6, <1>7

-----------------------------------------------------------------------------
(***************************************************************************)
(* The invariant.                                                          *)
(***************************************************************************)
ListsInv ==
  /\ DOMAIN deps = Watchers /\ DOMAIN newDeps = Watchers /\ DOMAIN subs = Deps
  /\ \A w \in Watchers : IsASeq(deps[w]) /\ IsASeq(newDeps[w])
  /\ \A d \in Deps : IsASeq(subs[d]) /\ Once(subs[d])

DependsOn(w, d) == Contains(deps[w], d) \/ Contains(newDeps[w], d)

SubscribersInv ==
  \A d \in Deps :
    /\ \A w \in Watchers : Contains(subs[d], w) <=> w \in active /\ DependsOn(w, d)
    /\ Contains(subs[d], Hole) => d \in pending

\* Only an evaluation has new deps; who was never made has none at all.
LifeInv ==
  /\ Lazy \subseteq active /\ active \subseteq created /\ created \subseteq Watchers
  /\ \A w \in Watchers : w \notin created => deps[w] = <<>>
  /\ \A w \in Watchers : ~Evaluates(stack, w) => newDeps[w] = <<>>

Inv == ListsInv /\ SubscribersInv /\ LifeInv /\ StackInv(stack, active)

LEMMA ContainsEmpty == \A x : ~Contains(<<>>, x)
BY DEF Contains

\* The frame of a getter that runs.
LEMMA RunningGetter ==
  ASSUME Inv, InGetter
  PROVE  /\ Top.w \in active /\ Top.w \in Watchers /\ IsGet(Top)
         /\ StackInv(Callers, active)
         /\ \A w : Evaluates(stack, w) <=> Evaluates(Callers, w) \/ Top.w = w
         /\ \A i \in 1 .. Len(Callers) : IsGet(Callers[i]) => Top.why = "read"
BY PopStack DEF Inv, LifeInv, InGetter, Top, Callers, IsGet

\* Steps that leave the subscriptions alone and put nothing but what fits on the stack.
LEMMA StackStep ==
  ASSUME Inv, UNCHANGED <<subs, pending, deps, newDeps, created, active>>,
         StackInv(stack', active),
         \A w \in Watchers : Evaluates(stack, w) => Evaluates(stack', w) \/ newDeps[w] = <<>>
  PROVE  Inv'
<1>1. ListsInv' /\ SubscribersInv'
  BY DEF Inv, ListsInv, SubscribersInv, DependsOn
<1>2. LifeInv'
  BY DEF Inv, LifeInv
<1> QED
  BY <1>1, <1>2 DEF Inv

\* addDep, and the rest of the list is still to do.
LEMMA DependInv == ASSUME ConstantsAssumption, Inv, Depend PROVE Inv'
<1> DEFINE w == Top.w
           d == Head(Top.todo)
<1>1. w \in active /\ w \in Watchers /\ w # Hole /\ stack # <<>> /\ IsGet(Top)
  BY RunningGetter DEF Depend, InGetter, ConstantsAssumption
<1>2. UNCHANGED <<pending, deps, created, active>> /\ addDep(w, d)
  BY DEF Depend
<1>3. /\ StackInv(stack', active)
      /\ \A x : Evaluates(stack', x) <=> Evaluates(stack, x)
  <2>1. stack' = <<Getting(Top, Top.seen, Tail(Top.todo))>> \o Tail(stack)
    BY DEF Depend, Callers
  <2> QED
    BY <1>1, <2>1, ReplaceTop DEF Inv, Top, Getting, Frame, IsGet
<1>4. Evaluates(stack, w)
  BY <1>1, RunningGetter DEF Depend
<1>5. CASE Contains(newDeps[w], d)
  <2>1. UNCHANGED <<newDeps, subs>>
    BY <1>2, <1>5 DEF addDep
  <2> QED
    BY <1>2, <1>3, <2>1, StackStep
<1>6. CASE ~Contains(newDeps[w], d)
  <2>1. /\ newDeps' = [newDeps EXCEPT ![w] = Append(newDeps[w], d)]
        /\ subs' = IF Contains(deps[w], d) THEN subs ELSE [subs EXCEPT ![d] = Append(subs[d], w)]
    BY <1>2, <1>6 DEF addDep
  <2> HIDE DEF w, d
  <2>2. /\ DOMAIN newDeps' = Watchers /\ newDeps'[w] = Append(newDeps[w], d)
        /\ \A x \in Watchers : x # w => newDeps'[x] = newDeps[x]
        /\ DOMAIN subs' = Deps
        /\ \A e \in Deps : subs'[e] = IF e = d /\ ~Contains(deps[w], d)
                                        THEN Append(subs[d], w) ELSE subs[e]
    BY <1>1, <2>1 DEF Inv, ListsInv
  <2>3. /\ IsASeq(newDeps'[w])
        /\ \A e : Contains(newDeps'[w], e) <=> Contains(newDeps[w], e) \/ e = d
    BY <1>1, <2>2, AppendFacts DEF Inv, ListsInv
  <2>4. ASSUME NEW e \in Deps
        PROVE  /\ IsASeq(subs'[e]) /\ Once(subs'[e])
               /\ \A x : Contains(subs'[e], x) <=>
                           Contains(subs[e], x) \/ (x = w /\ e = d /\ ~Contains(deps[w], d))
    <3>1. IsASeq(subs[e]) /\ Once(subs[e])
      BY DEF Inv, ListsInv
    <3>2. CASE e = d /\ ~Contains(deps[w], d)
      <4>1. subs'[e] = Append(subs[e], w)
        BY <2>2, <3>2
      <4>2. ~Contains(subs[e], w)
        BY <1>1, <1>6, <3>2 DEF Inv, SubscribersInv, DependsOn
      <4>3. /\ IsASeq(Append(subs[e], w)) /\ Len(Append(subs[e], w)) = Len(subs[e]) + 1
            /\ Len(subs[e]) \in Nat /\ Append(subs[e], w)[Len(subs[e]) + 1] = w
            /\ \A i \in 1 .. Len(subs[e]) : Append(subs[e], w)[i] = subs[e][i]
            /\ \A x : Contains(Append(subs[e], w), x) <=> Contains(subs[e], x) \/ x = w
        BY <3>1, AppendFacts
      <4>4. Once(Append(subs[e], w))
        <5>1. \A i \in 1 .. Len(subs[e]) : subs[e][i] # w
          BY <4>2 DEF Contains
        <5> QED
          BY <3>1, <4>3, <5>1 DEF Once
      <4> QED
        BY <3>2, <4>1, <4>3, <4>4
    <3>3. CASE ~(e = d /\ ~Contains(deps[w], d))
      <4>1. subs'[e] = subs[e]
        BY <2>2, <3>3
      <4> QED
        BY <3>1, <3>3, <4>1
    <3> QED
      BY <3>2, <3>3
  <2>5. ListsInv'
    BY <1>1, <1>2, <2>2, <2>3, <2>4 DEF Inv, ListsInv
  <2>6. SubscribersInv'
    <3> SUFFICES ASSUME NEW e \in Deps, NEW x \in Watchers
                 PROVE  /\ Contains(subs'[e], x) <=> x \in active /\ (Contains(deps[x], e) \/ Contains(newDeps'[x], e))
                        /\ Contains(subs'[e], Hole) => e \in pending
      BY <1>1, <1>2 DEF SubscribersInv, DependsOn
    <3>1. /\ Contains(subs[e], x) <=> x \in active /\ (Contains(deps[x], e) \/ Contains(newDeps[x], e))
          /\ Contains(subs[e], Hole) => e \in pending
      BY DEF Inv, SubscribersInv, DependsOn
    <3>2. Contains(subs'[e], Hole) <=> Contains(subs[e], Hole)
      BY <1>1, <2>4
    <3>3. CASE x = w
      BY <1>1, <2>3, <2>4, <3>1, <3>2, <3>3
    <3>4. CASE x # w
      BY <2>2, <2>4, <3>1, <3>2, <3>4
    <3> QED
      BY <3>3, <3>4
  <2>7. LifeInv'
    BY <1>2, <1>3, <1>4, <2>2 DEF Inv, LifeInv
  <2> QED
    BY <1>2, <1>3, <2>5, <2>6, <2>7 DEF Inv
<1> QED
  BY <1>5, <1>6

LEMMA ToSetFacts == ASSUME NEW s, IsASeq(s), NEW x PROVE x \in ToSet(s) <=> Contains(s, x)
<1>1. Len(s) \in Nat /\ DOMAIN s = 1 .. Len(s)
  BY DEF IsASeq
<1> QED
  BY <1>1 DEF ToSet, Contains

\* w leaves the lists of ds.
LEMMA UnsubscribedFacts ==
  ASSUME ConstantsAssumption, ListsInv, NEW w \in Watchers, NEW ds, subs' = Unsubscribed(w, ds)
  PROVE  /\ DOMAIN subs' = Deps
         /\ \A d \in Deps :
              /\ IsASeq(subs'[d]) /\ Once(subs'[d])
              /\ Contains(subs'[d], Hole) => Contains(subs[d], Hole) \/ d \in ds
              /\ \A x \in Watchers :
                   Contains(subs'[d], x) <=> Contains(subs[d], x) /\ ~(x = w /\ d \in ds)
<1>1. DOMAIN subs' = Deps
  BY DEF Unsubscribed
<1>2. ASSUME NEW d \in Deps
      PROVE  /\ IsASeq(subs'[d]) /\ Once(subs'[d])
             /\ Contains(subs'[d], Hole) => Contains(subs[d], Hole) \/ d \in ds
             /\ \A x \in Watchers :
                  Contains(subs'[d], x) <=> Contains(subs[d], x) /\ ~(x = w /\ d \in ds)
  <2>1. IsASeq(subs[d]) /\ Once(subs[d]) /\ w # Hole /\ \A x \in Watchers : x # Hole
    BY DEF ListsInv, ConstantsAssumption
  <2>2. CASE d \in ds /\ Contains(subs[d], w)
    <3>1. subs'[d] = [subs[d] EXCEPT ![CHOOSE i \in DOMAIN subs[d] : subs[d][i] = w] = Hole]
      BY <2>2 DEF Unsubscribed
    <3>2. /\ IsASeq(subs'[d]) /\ Once(subs'[d])
          /\ \A x : x # Hole => (Contains(subs'[d], x) <=> Contains(subs[d], x) /\ x # w)
      BY <2>1, <2>2, <3>1, HoleFacts, ZenonT(60)
    <3> QED
      BY <2>1, <2>2, <3>2
  <2>3. CASE ~(d \in ds /\ Contains(subs[d], w))
    <3>1. subs'[d] = subs[d]
      BY <2>3 DEF Unsubscribed
    <3> QED
      BY <2>1, <2>3, <3>1
  <2> QED
    BY <2>2, <2>3
<1> QED
  BY <1>1, <1>2

\* cleanupDeps at the end of an evaluation
LEMMA FinishInv ==
  ASSUME ConstantsAssumption, Inv, NEW why, Finish(why), StackInv(stack', active),
         \A x : Evaluates(Callers, x) => Evaluates(stack', x)
  PROVE  Inv'
<1> DEFINE w == Top.w
<1>1. w \in active /\ w \in Watchers /\ \A x : Evaluates(stack, x) => Evaluates(stack', x) \/ x = w
  BY RunningGetter DEF Finish, Reading
<1>2. /\ deps' = [deps EXCEPT ![w] = newDeps[w]] /\ newDeps' = [newDeps EXCEPT ![w] = <<>>]
      /\ subs' = Unsubscribed(w, DroppedDeps(w)) /\ pending' = pending \union DroppedDeps(w)
      /\ UNCHANGED <<created, active>>
  BY DEF Finish
<1> HIDE DEF w
<1>3. /\ DOMAIN deps' = Watchers /\ deps'[w] = newDeps[w]
      /\ DOMAIN newDeps' = Watchers /\ newDeps'[w] = <<>>
      /\ \A x \in Watchers : x # w => deps'[x] = deps[x] /\ newDeps'[x] = newDeps[x]
  BY <1>1, <1>2 DEF Inv, ListsInv
<1>4. /\ DOMAIN subs' = Deps
      /\ \A d \in Deps :
           /\ IsASeq(subs'[d]) /\ Once(subs'[d])
           /\ Contains(subs'[d], Hole) => Contains(subs[d], Hole) \/ d \in DroppedDeps(w)
           /\ \A x \in Watchers :
                Contains(subs'[d], x) <=> Contains(subs[d], x) /\ ~(x = w /\ d \in DroppedDeps(w))
  BY <1>1, <1>2, UnsubscribedFacts DEF Inv
<1>5. ListsInv'
  BY <1>1, <1>3, <1>4, EmptyIsASeq DEF Inv, ListsInv
<1>6. SubscribersInv'
  <2> SUFFICES ASSUME NEW d \in Deps, NEW x \in Watchers
               PROVE  /\ Contains(subs'[d], x) <=>
                           x \in active /\ (Contains(deps'[x], d) \/ Contains(newDeps'[x], d))
                      /\ Contains(subs'[d], Hole) => d \in pending'
    BY <1>1, <1>2 DEF SubscribersInv, DependsOn
  <2>1. /\ Contains(subs[d], x) <=> x \in active /\ (Contains(deps[x], d) \/ Contains(newDeps[x], d))
        /\ Contains(subs[d], Hole) => d \in pending
    BY DEF Inv, SubscribersInv, DependsOn
  <2>2. Contains(subs'[d], Hole) => d \in pending'
    BY <1>2, <1>4, <2>1
  <2>3. CASE x = w
    <3>1. d \in DroppedDeps(w) <=> Contains(deps[w], d) /\ ~Contains(newDeps[w], d)
      BY <1>1, ToSetFacts DEF Inv, ListsInv, DroppedDeps
    <3> QED
      BY <1>1, <1>3, <1>4, <2>1, <2>2, <2>3, <3>1, ContainsEmpty
  <2>4. CASE x # w
    BY <1>3, <1>4, <2>1, <2>2, <2>4
  <2> QED
    BY <2>3, <2>4
<1>7. LifeInv'
  <2>1. \A x \in Watchers : ~Evaluates(stack', x) => newDeps'[x] = <<>>
    BY <1>1, <1>3 DEF Inv, LifeInv
  <2>2. \A x \in Watchers : x \notin created => deps'[x] = <<>>
    BY <1>1, <1>3 DEF Inv, LifeInv
  <2> QED
    BY <1>2, <2>1, <2>2 DEF Inv, LifeInv
<1> QED
  BY <1>2, <1>5, <1>6, <1>7 DEF Inv

\* The three ways in which an evaluation ends.
LEMMA EndInv ==
  ASSUME ConstantsAssumption, Inv, EndEvaluate \/ EndConstruct \/ EndRun
  PROVE  Inv'
<1>1. ASSUME NEW why, Finish(why)
      PROVE  /\ StackInv(Callers, active) /\ Top.w \in active
             /\ \A i \in 1 .. Len(Callers) : IsGet(Callers[i]) => why = "read"
  BY <1>1, RunningGetter DEF Finish, Reading
<1>2. CASE EndEvaluate
  <2>1. Finish("read") /\ stack' = Returned(Callers, Top.seen, Reverse(newDeps[Top.w]))
    BY <1>2 DEF EndEvaluate
  <2>2. StackInv(stack', active) /\ \A x : Evaluates(stack', x) <=> Evaluates(Callers, x)
    BY <1>1, <2>1, ReturnedStack
  <2> QED
    BY <2>1, <2>2, FinishInv
<1>3. CASE EndConstruct
  <2>1. Finish("new") /\ stack' = Callers
    BY <1>3 DEF EndConstruct
  <2> QED
    BY <1>1, <2>1, FinishInv
<1>4. CASE EndRun
  <2>1. /\ Finish("run")
        /\ stack' = Callers \/ stack' = <<CallbackFrame(Top.w)>> \o Callers
    BY <1>4 DEF EndRun
  <2>2. Fits(CallbackFrame(Top.w), Callers, active)
    BY <1>1, <2>1 DEF Fits, CallbackFrame, Frame, IsGet
  <2>3. StackInv(stack', active) /\ \A x : Evaluates(Callers, x) => Evaluates(stack', x)
    <3>1. CASE stack' = Callers
      BY <1>1, <2>1, <3>1
    <3>2. CASE stack' = <<CallbackFrame(Top.w)>> \o Callers
      BY <1>1, <2>1, <2>2, <3>2, PushStack
    <3> QED
      BY <2>1, <3>1, <3>2
  <2> QED
    BY <2>1, <2>3, FinishInv
<1> QED
  BY <1>2, <1>3, <1>4

\* Steps that only read, notify, and begin or end something.
LEMMA StackSteps ==
  ASSUME Inv,
         \/ ReadData \/ EndCallback \/ NotifyNext \/ EndNotify
         \/ \E w \in Watchers : RunQueued(w)
         \/ \E op \in Mutations : Write(op)
         \/ \E c \in Lazy : ReadComputed(c) \/ Use(c)
  PROVE  Inv'
<1> USE DEF Frame, IsGet
<1>1. StackInv(stack, active) /\ Lazy \subseteq active
  BY DEF Inv, LifeInv
<1>2. ASSUME UNCHANGED <<subs, pending, deps, newDeps, created, active>>, StackInv(stack', active),
             \A w : Evaluates(stack, w) => Evaluates(stack', w)
      PROVE  Inv'
  BY <1>2, StackStep
<1>3. ASSUME NEW v, NEW ds, stack' = Returned(stack, v, ds),
             UNCHANGED <<subs, pending, deps, newDeps, created, active>>
      PROVE  Inv'
  BY <1>1, <1>2, <1>3, ReturnedStack
<1>4. ASSUME NEW f, Fits(f, stack, active), stack' = <<f>> \o stack,
             UNCHANGED <<subs, pending, deps, newDeps, created, active>>
      PROVE  Inv'
  BY <1>1, <1>2, <1>4, PushStack
<1>5. ASSUME stack # <<>>, ~IsGet(Top), stack' = Callers,
             UNCHANGED <<subs, pending, deps, newDeps, created, active>>
      PROVE  Inv'
  BY <1>1, <1>2, <1>5, PopStack DEF Top, Callers
<1>6. (stack # <<>> => ~IsGet(Top)) => \A i \in 1 .. Len(stack) : ~IsGet(stack[i])
  BY <1>1, NoGetter DEF Top
<1>7. CASE ReadData
  BY <1>3, <1>7 DEF ReadData
<1>8. CASE EndCallback
  BY <1>5, <1>8 DEF EndCallback
<1>9. CASE EndNotify
  BY <1>5, <1>9 DEF EndNotify, InNotify
<1>10. CASE NotifyNext
  <2> DEFINE f == NotifyFrame(Tail(Top.todo))
             rest == <<f>> \o Callers
  <2>1. /\ stack # <<>> /\ ~IsGet(Top) /\ ~IsGet(f)
        /\ UNCHANGED <<subs, pending, deps, newDeps, created, active>>
        /\ \/ stack' = rest
           \/ \E w \in active : stack' = <<GetFrame(w, "run")>> \o rest
    BY <1>10 DEF NotifyNext, InNotify, NotifyFrame, Runs
  <2>2. StackInv(rest, active) /\ \A x : Evaluates(rest, x) <=> Evaluates(stack, x)
    BY <1>1, <2>1, ReplaceTop DEF Top, Callers
  <2>3. \A i \in 1 .. Len(rest) : ~IsGet(rest[i])
    <3>1. rest # <<>> => ~IsGet(Head(rest))
      BY <1>1, <2>1, PopStack, PushFacts DEF StackInv, Callers
    <3> QED
      BY <2>2, <3>1, NoGetter
  <2> HIDE DEF rest, f
  <2>4. CASE stack' = rest
    BY <1>2, <2>1, <2>2, <2>4
  <2>5. ASSUME NEW w \in active, stack' = <<GetFrame(w, "run")>> \o rest PROVE Inv'
    <3>1. Fits(GetFrame(w, "run"), rest, active)
      BY <2>3 DEF Fits, GetFrame
    <3>2. StackInv(stack', active) /\ \A x : Evaluates(rest, x) => Evaluates(stack', x)
      BY <2>2, <2>5, <3>1, PushStack
    <3> QED
      BY <1>2, <2>1, <2>2, <3>2
  <2> QED
    BY <2>1, <2>4, <2>5
<1>11. ASSUME NEW w \in Watchers, RunQueued(w) PROVE Inv'
  <2>1. /\ stack = <<>> /\ UNCHANGED <<subs, pending, deps, newDeps, created, active>>
        /\ stack' = stack \/ (w \in active /\ stack' = <<GetFrame(w, "run")>> \o stack)
    BY <1>11 DEF RunQueued, Runs
  <2>2. CASE stack' = stack
    BY <1>1, <1>2, <2>1, <2>2
  <2>3. CASE w \in active /\ stack' = <<GetFrame(w, "run")>> \o stack
    <3>1. Fits(GetFrame(w, "run"), stack, active)
      BY <1>6, <2>1, <2>3 DEF Fits, GetFrame
    <3> QED
      BY <1>4, <2>1, <2>3, <3>1
  <2> QED
    BY <2>1, <2>2, <2>3
<1>12. ASSUME NEW op \in Mutations, Write(op) PROVE Inv'
  <2>1. /\ stack # <<>> => ~IsGet(Top)
        /\ UNCHANGED <<subs, pending, deps, newDeps, created, active>>
        /\ stack' = stack \/ \E ws : stack' = <<NotifyFrame(ws)>> \o stack
    BY <1>12 DEF Write, UserOp, UserCode
  <2>2. CASE stack' = stack
    BY <1>1, <1>2, <2>1, <2>2
  <2>3. ASSUME NEW ws, stack' = <<NotifyFrame(ws)>> \o stack PROVE Inv'
    <3>1. Fits(NotifyFrame(ws), stack, active)
      BY <1>6, <2>1 DEF Fits, NotifyFrame
    <3> QED
      BY <1>4, <2>1, <2>3, <3>1
  <2> QED
    BY <2>1, <2>2, <2>3
<1>13. ASSUME NEW c \in Lazy, ReadComputed(c) \/ Use(c) PROVE Inv'
  <2>1. UNCHANGED <<subs, pending, deps, newDeps, created, active>> /\ Computed(c)
    BY <1>13 DEF ReadComputed, Use
  <2>2. CASE stack' = Returned(stack, value[c], Reverse(deps[c]))
    BY <1>3, <2>1, <2>2
  <2>3. CASE stack' = <<GetFrame(c, "read")>> \o stack
    <3>1. Fits(GetFrame(c, "read"), stack, active)
      BY <1>1 DEF Fits, GetFrame
    <3> QED
      BY <1>4, <2>1, <2>3, <3>1
  <2> QED
    BY <2>1, <2>2, <2>3 DEF Computed
<1> QED
  BY <1>7, <1>8, <1>9, <1>10, <1>11, <1>12, <1>13

\* The holes are dropped.
LEMMA CleanupInv == ASSUME ConstantsAssumption, Inv, CleanupDeps PROVE Inv'
<1>1. /\ UNCHANGED <<deps, newDeps, created, active, stack>>
      /\ subs' = [d \in Deps |-> IF d \in pending THEN Filtered(subs[d]) ELSE subs[d]]
  BY DEF CleanupDeps
<1>2. ASSUME NEW d \in Deps
      PROVE  /\ IsASeq(subs'[d]) /\ Once(subs'[d]) /\ ~Contains(subs'[d], Hole)
             /\ \A x \in Watchers : Contains(subs'[d], x) <=> Contains(subs[d], x)
  <2>1. IsASeq(subs[d]) /\ Once(subs[d]) /\ \A x \in Watchers : x # Hole
    BY DEF Inv, ListsInv, ConstantsAssumption
  <2>2. CASE d \in pending
    BY <1>1, <2>1, <2>2, FilteredFacts
  <2>3. CASE d \notin pending
    BY <1>1, <2>1, <2>3 DEF Inv, SubscribersInv
  <2> QED
    BY <2>2, <2>3
<1>3. ListsInv'
  BY <1>1, <1>2 DEF Inv, ListsInv
<1>4. SubscribersInv'
  BY <1>1, <1>2 DEF Inv, SubscribersInv, DependsOn
<1> QED
  BY <1>1, <1>3, <1>4 DEF Inv, LifeInv

\* A watcher is made: it has no deps yet.
LEMMA CreateInv == ASSUME ConstantsAssumption, Inv, NEW w \in Watchers, Create(w) PROVE Inv'
<1>1. /\ stack # <<>> => ~IsGet(Top)
      /\ w \notin created /\ created' = created \union {w} /\ active' = active \union {w}
      /\ stack' = <<GetFrame(w, "new")>> \o stack
      /\ UNCHANGED <<subs, pending, deps, newDeps>>
  BY DEF Create, UserCode, IsGet
<1>2. \A i \in 1 .. Len(stack) : ~IsGet(stack[i])
  BY <1>1, NoGetter DEF Inv, Top
<1>3. StackInv(stack, active')
  BY <1>1, <1>2 DEF Inv, StackInv
<1>4. /\ StackInv(stack', active')
      /\ \A x : Evaluates(stack, x) => Evaluates(stack', x)
  BY <1>1, <1>2, <1>3, PushStack DEF Fits, GetFrame, Frame, IsGet
<1>5. w \notin active /\ deps[w] = <<>> /\ newDeps[w] = <<>>
  BY <1>1, <1>2 DEF Inv, LifeInv, Evaluates
<1>6. SubscribersInv'
  <2> SUFFICES ASSUME NEW d \in Deps, NEW x \in Watchers
               PROVE  /\ Contains(subs[d], x) <=>
                           x \in active' /\ (Contains(deps[x], d) \/ Contains(newDeps[x], d))
                      /\ Contains(subs[d], Hole) => d \in pending
    BY <1>1 DEF SubscribersInv, DependsOn
  <2> QED
    BY <1>1, <1>5, ContainsEmpty DEF Inv, SubscribersInv, DependsOn
<1>7. ListsInv' /\ LifeInv'
  BY <1>1, <1>4 DEF Inv, ListsInv, LifeInv
<1> QED
  BY <1>4, <1>6, <1>7 DEF Inv

\* A watcher is torn down: nobody is being evaluated.
LEMMA TeardownInv == ASSUME ConstantsAssumption, Inv, NEW w \in Watchers, Teardown(w) PROVE Inv'
<1>1. /\ stack # <<>> => ~IsGet(Top)
      /\ w \in active \ Lazy /\ active' = active \ {w} /\ subs' = Unsubscribed(w, ToSet(deps[w]))
      /\ pending' = pending \union ToSet(deps[w]) /\ UNCHANGED <<deps, newDeps, created, stack>>
  BY DEF Teardown, UserOp, UserCode, IsGet
<1>2. \A i \in 1 .. Len(stack) : ~IsGet(stack[i])
  BY <1>1, NoGetter DEF Inv, Top
<1>3. StackInv(stack', active')
  BY <1>1, <1>2 DEF Inv, StackInv
<1>4. newDeps[w] = <<>>
  BY <1>2 DEF Inv, LifeInv, Evaluates
<1>5. /\ DOMAIN subs' = Deps
      /\ \A d \in Deps :
           /\ IsASeq(subs'[d]) /\ Once(subs'[d])
           /\ Contains(subs'[d], Hole) => Contains(subs[d], Hole) \/ d \in ToSet(deps[w])
           /\ \A x \in Watchers :
                Contains(subs'[d], x) <=> Contains(subs[d], x) /\ ~(x = w /\ d \in ToSet(deps[w]))
  BY <1>1, UnsubscribedFacts DEF Inv
<1>6. SubscribersInv'
  <2> SUFFICES ASSUME NEW d \in Deps, NEW x \in Watchers
               PROVE  /\ Contains(subs'[d], x) <=>
                           x \in active' /\ (Contains(deps[x], d) \/ Contains(newDeps[x], d))
                      /\ Contains(subs'[d], Hole) => d \in pending'
    BY <1>1 DEF SubscribersInv, DependsOn
  <2>1. d \in ToSet(deps[w]) <=> Contains(deps[w], d)
    BY ToSetFacts DEF Inv, ListsInv
  <2>2. /\ Contains(subs[d], x) <=> x \in active /\ (Contains(deps[x], d) \/ Contains(newDeps[x], d))
        /\ Contains(subs[d], Hole) => d \in pending
    BY DEF Inv, SubscribersInv, DependsOn
  <2> QED
    BY <1>1, <1>4, <1>5, <2>1, <2>2, ContainsEmpty
<1>7. ListsInv' /\ LifeInv'
  BY <1>1, <1>5 DEF Inv, ListsInv, LifeInv
<1> QED
  BY <1>3, <1>6, <1>7 DEF Inv

LEMMA InitInv == ASSUME ConstantsAssumption, Init PROVE Inv
<1>1. /\ subs = [d \in Deps |-> <<>>] /\ pending = {} /\ stack = <<>>
      /\ deps = [w \in Watchers |-> <<>>] /\ newDeps = [w \in Watchers |-> <<>>]
      /\ created = Lazy /\ active = Lazy /\ Lazy \subseteq Watchers
  BY DEF Init, Watchers
<1>2. Once(<<>>) /\ IsASeq(<<>>) /\ Len(<<>>) = 0
  BY EmptyIsASeq DEF Once
<1>3. ListsInv
  BY <1>1, <1>2 DEF ListsInv
<1>4. SubscribersInv
  BY <1>1, ContainsEmpty DEF SubscribersInv, DependsOn
<1>5. LifeInv
  BY <1>1 DEF LifeInv
<1>6. StackInv(stack, active)
  BY <1>1, <1>2 DEF StackInv
<1> QED
  BY <1>3, <1>4, <1>5, <1>6 DEF Inv

LEMMA NextInv == ASSUME ConstantsAssumption, Inv, [Next]_vars PROVE Inv'
<1>1. ASSUME UNCHANGED vars PROVE Inv'
  BY <1>1, StackStep DEF vars, Inv
<1> QED
  BY <1>1, DependInv, EndInv, StackSteps, CleanupInv, CreateInv, TeardownInv DEF Next

LEMMA SpecInv == Spec => []Inv
<1>1. Init => Inv
  BY InitInv, ConstantsAssumption
<1>2. Inv /\ [Next]_vars => Inv'
  BY NextInv, ConstantsAssumption
<1> QED
  BY <1>1, <1>2, PTL DEF Spec

-----------------------------------------------------------------------------
(***************************************************************************)
(* The theorems.                                                           *)
(***************************************************************************)
LEMMA CountFacts ==
  ASSUME NEW s, IsASeq(s), Once(s), NEW w, w # Hole
  PROVE  Count(s, w) = IF Contains(s, w) THEN 1 ELSE 0
<1> DEFINE places == { i \in DOMAIN s : s[i] = w }
<1>1. DOMAIN s = 1 .. Len(s)
  BY DEF IsASeq
<1>2. CASE Contains(s, w)
  <2>1. PICK i \in 1 .. Len(s) : s[i] = w
    BY <1>2 DEF Contains
  <2>2. places = {i}
    BY <1>1, <2>1 DEF Once
  <2> QED
    BY <1>2, <2>2, FS_Singleton DEF Count
<1>3. CASE ~Contains(s, w)
  <2>1. places = {}
    BY <1>1, <1>3 DEF Contains
  <2> QED
    BY <1>3, <2>1, FS_EmptySet DEF Count
<1> QED
  BY <1>2, <1>3

\* At every moment a live watcher is in the list of a dep once if it depends on
\* it, nobody else is in it, and a list with a hole waits for its cleanup
\* (addDep, cleanupDeps, teardown and removeSub, whatever getters read).
THEOREM SubscribedToDepsCorrect == Spec => []SubscribedToDeps
<1>1. ASSUME Inv PROVE SubscribedToDeps
  <2>1. ASSUME NEW w \in Watchers, NEW d \in Deps
        PROVE  Count(subs[d], w) =
                 IF w \in active /\ (Contains(deps[w], d) \/ Contains(newDeps[w], d)) THEN 1 ELSE 0
    <3>1. IsASeq(subs[d]) /\ Once(subs[d]) /\ w # Hole
      BY <1>1, ConstantsAssumption DEF Inv, ListsInv, ConstantsAssumption
    <3>2. Contains(subs[d], w) <=> w \in active /\ (Contains(deps[w], d) \/ Contains(newDeps[w], d))
      BY <1>1 DEF Inv, SubscribersInv, DependsOn
    <3> QED
      BY <3>1, <3>2, CountFacts
  <2>2. \A d \in Deps : Contains(subs[d], Hole) => d \in pending
    BY <1>1 DEF Inv, SubscribersInv
  <2> QED
    BY <2>1, <2>2 DEF SubscribedToDeps
<1> QED
  BY <1>1, SpecInv, PTL

\* Only the end of a run begins a callback, and who runs has not been torn
\* down (run() and teardown()).
THEOREM CallbackOnlyIfActiveCorrect == Spec => CallbackOnlyIfActive
<1>1. ASSUME Inv, [Next]_vars, NEW w \in Watchers, BeginsCallback(w) PROVE w \in active
  <2> USE DEF Frame
  <2>1. stack # <<>> /\ InGetter /\ stack' = <<CallbackFrame(w)>> \o Callers
    BY <1>1 DEF BeginsCallback, InGetter
  <2>2. IsASeq(stack) /\ IsASeq(Callers) /\ Len(Callers) = Len(stack) - 1 /\ Len(stack) \in Nat
    BY <1>1, <2>1, TailFacts DEF Inv, StackInv, Callers
  <2>3. Head(stack') = CallbackFrame(w) /\ Len(stack') = Len(stack)
    BY <2>1, <2>2, PushFacts
  <2>4. /\ \A v, ds : stack' # Returned(stack, v, ds)
        /\ \A f : IsGet(f) => stack' # <<f>> \o Callers /\ stack' # <<f>> \o stack
        /\ stack' # Callers /\ stack' # stack
    <3>1. ~IsGet(Head(stack')) /\ IsGet(Head(stack))
      BY <2>1, <2>3 DEF CallbackFrame, IsGet, InGetter, Top
    <3>2. ASSUME NEW f, IsGet(f) PROVE stack' # <<f>> \o Callers /\ stack' # <<f>> \o stack
      BY <2>2, <3>1, <3>2, PushFacts
    <3>3. ASSUME NEW v, NEW ds PROVE stack' # Returned(stack, v, ds)
      BY <2>1, <3>1, <3>2 DEF Returned, Getting, IsGet, Callers
    <3>4. stack' # Callers /\ stack' # stack
      BY <2>2, <2>3, <3>1
    <3> QED
      BY <3>2, <3>3, <3>4
  <2>5. CASE EndRun
    <3>1. stack' = <<CallbackFrame(Top.w)>> \o Callers
      BY <2>4, <2>5 DEF EndRun
    <3>2. CallbackFrame(Top.w) = CallbackFrame(w)
      BY <2>2, <2>3, <3>1, PushFacts
    <3>3. Top.w = w
      BY <3>2 DEF CallbackFrame
    <3> QED
      BY <1>1, <2>1, <3>3, RunningGetter
  <2>6. ~Depend
    BY <2>4 DEF Depend, Getting, IsGet
  <2>7. ~ReadData
    BY <2>4 DEF ReadData
  <2>8. \A c \in Lazy : ~ReadComputed(c) /\ ~Use(c)
    BY <2>1, <2>4 DEF ReadComputed, Use, Computed, GetFrame, IsGet
  <2>9. ~EndConstruct /\ ~UNCHANGED vars
    BY <2>4 DEF EndConstruct, vars
  <2>10. ~EndEvaluate
    <3>1. ASSUME NEW v, NEW ds PROVE stack' # Returned(Callers, v, ds)
      <4>1. CASE Callers # <<>> /\ IsGet(Head(Callers))
        <5>1. IsASeq(Tail(Callers)) /\ Len(Tail(Callers)) = Len(Callers) - 1
          BY <2>2, <4>1, TailFacts
        <5>2. Len(Returned(Callers, v, ds)) = Len(Callers)
          BY <2>2, <4>1, <5>1, PushFacts DEF Returned, IsGet
        <5> QED
          BY <2>2, <2>3, <5>2
      <4>2. CASE ~(Callers # <<>> /\ IsGet(Head(Callers)))
        BY <2>4, <4>2 DEF Returned, IsGet
      <4> QED
        BY <4>1, <4>2
    <3> QED
      BY <3>1 DEF EndEvaluate
  <2>11. /\ ~EndCallback /\ ~NotifyNext /\ ~EndNotify /\ ~CleanupDeps
         /\ \A x \in Watchers : ~RunQueued(x) /\ ~Create(x) /\ ~Teardown(x)
         /\ \A op \in Mutations : ~Write(op)
    BY <2>1 DEF InGetter, InNotify, EndCallback, NotifyNext, EndNotify, CleanupDeps, RunQueued,
                Create, Teardown, Write, UserOp, UserCode
  <2> QED
    BY <1>1, <2>5, <2>6, <2>7, <2>8, <2>9, <2>10, <2>11 DEF Next
<1>2. Inv /\ [Next]_vars => [\A w \in Watchers : BeginsCallback(w) => w \in active]_vars
  BY <1>1
<1> QED
  BY <1>2, SpecInv, PTL DEF Spec, CallbackOnlyIfActive

-----------------------------------------------------------------------------
(***************************************************************************)
(* What getters have seen.                                                 *)
(***************************************************************************)
\* No getter reads a computed property that a notification has still to reach.
ReadsSettled == Reading /\ Source \in Lazy => Source \notin ToNotify

SourceAt(w, seen, i) == NextSource(w, SubSeq(seen, 1, i - 1))

\* v is what the source s yields, and whoever depends on D is told before that changes.
\* Nothing is known of a computed property in U, which is dirty or about to be.
KnowsAt(h, val, dp, U, s, v, D) ==
  /\ s # Done
  /\ s \in Lazy => s \notin U /\ v = val[s] /\ ToSet(dp[s]) \subseteq D
  /\ s \notin Lazy => v = ValueIn(h, s) /\ DepsOf(h, s) \subseteq D

Knows(h, val, dp, U, w, seen, D) ==
  /\ IsASeq(seen)
  /\ \A i \in 1 .. Len(seen) : KnowsAt(h, val, dp, U, SourceAt(w, seen, i), seen[i], D)

\* All that w has seen is so still, and w has seen all that it reads.
Current(h, val, dp, U, w) ==
  Knows(h, val, dp, U, w, val[w], ToSet(dp[w])) /\ NextSource(w, val[w]) = Done

Unclean == dirty \union ToNotify

\* Nothing is under way that will make w run or be evaluated.
IsSettled(w) == w \in active /\ w \notin Unclean /\ w \notin queued /\ ~Evaluates(stack, w)

SettledInv == \A w \in Watchers : IsSettled(w) => Current(heap, value, deps, Unclean, w)

FrameKnows(h, val, dp, U, nd, f) ==
  Knows(h, val, dp, U, f.w, f.seen, ToSet(nd[f.w]) \union ToSet(f.todo))

\* What is evaluated for a reader is dirty; nothing else that runs is computed.
FrameKind(f, drt) == IF f.why = "read" THEN f.w \in drt ELSE f.w \notin Lazy

\* f is evaluated for g, which has read it.
Linked(f, g, N) == g.todo = <<>> /\ NextSource(g.w, g.seen) = f.w /\ f.w \notin N

\* Of two evaluations of one watcher the inner one has not got further.
Behind(f, g) == Len(f.seen) <= Len(g.seen) /\ \A n \in 1 .. Len(f.seen) : f.seen[n] = g.seen[n]

FramesInv(st, h, val, dp, drt, N, nd) ==
  /\ \A i \in 1 .. Len(st) : IsASeq(st[i].todo)
  /\ \A i \in 1 .. Len(st) : IsGet(st[i]) => FrameKnows(h, val, dp, drt \union N, nd, st[i]) /\ FrameKind(st[i], drt)
  /\ \A i \in 1 .. Len(st) - 1 : IsGet(st[i]) /\ IsGet(st[i + 1]) => Linked(st[i], st[i + 1], N)
  /\ \A i, j \in 1 .. Len(st) : i < j /\ IsGet(st[i]) /\ IsGet(st[j]) /\ st[i].w = st[j].w => Behind(st[i], st[j])

FreshInv ==
  /\ DOMAIN value = Watchers /\ dirty \subseteq Lazy /\ queued \subseteq Async
  /\ SettledInv
  /\ FramesInv(stack, heap, value, deps, dirty, ToNotify, newDeps)

LEMMA SubSeqFacts ==
  ASSUME NEW s, IsASeq(s), NEW e
  PROVE  /\ SubSeq(s, 1, Len(s)) = s
         /\ \A i \in 1 .. Len(s) + 1 : SubSeq(Append(s, e), 1, i - 1) = SubSeq(s, 1, i - 1)
<1> DEFINE S == { s[i] : i \in DOMAIN s } \union {e}
<1>1. s \in Seq(S) /\ e \in S /\ Len(s) \in Nat
  BY DEF IsASeq
<1>2. Append(s, e) \in Seq(S) /\ Len(Append(s, e)) = Len(s) + 1
      /\ \A i \in 1 .. Len(s) : Append(s, e)[i] = s[i]
  BY <1>1
<1>3. SubSeq(s, 1, Len(s)) = s
  BY <1>1
<1>4. ASSUME NEW i \in 1 .. Len(s) + 1 PROVE SubSeq(Append(s, e), 1, i - 1) = SubSeq(s, 1, i - 1)
  <2> DEFINE a == SubSeq(Append(s, e), 1, i - 1)
             b == SubSeq(s, 1, i - 1)
  <2>1. a \in Seq(S) /\ b \in Seq(S) /\ Len(a) = i - 1 /\ Len(b) = i - 1
    BY <1>1, <1>2
  <2>2. \A k \in 1 .. i - 1 : a[k] = b[k]
    BY <1>1, <1>2
  <2> QED
    BY <2>1, <2>2
<1> QED
  BY <1>3, <1>4

\* Two sequences that agree up to n have the same beginning.
LEMMA SameBeginning ==
  ASSUME NEW s, IsASeq(s), NEW t, IsASeq(t), NEW n \in Nat, n <= Len(s), n <= Len(t),
         \A k \in 1 .. n : s[k] = t[k]
  PROVE  SubSeq(s, 1, n) = SubSeq(t, 1, n)
<1> DEFINE S == { s[i] : i \in DOMAIN s } \union { t[i] : i \in DOMAIN t }
           a == SubSeq(s, 1, n)
           b == SubSeq(t, 1, n)
<1>1. s \in Seq(S) /\ t \in Seq(S) /\ Len(s) \in Nat /\ Len(t) \in Nat
  BY DEF IsASeq
<1>2. a \in Seq(S) /\ b \in Seq(S) /\ Len(a) = n /\ Len(b) = n
  BY <1>1
<1>3. \A k \in 1 .. n : a[k] = b[k]
  BY <1>1
<1> QED
  BY <1>2, <1>3

LEMMA ReverseFacts ==
  ASSUME NEW s, IsASeq(s) PROVE IsASeq(Reverse(s)) /\ ToSet(Reverse(s)) = ToSet(s)
<1>1. s \in Seq({ s[i] : i \in DOMAIN s }) /\ Len(s) \in Nat /\ DOMAIN s = 1 .. Len(s)
  BY DEF IsASeq
<1>2. Reverse(s) = [i \in 1 .. Len(s) |-> s[(Len(s) - i) + 1]]
  BY DEF Reverse
<1>3. Reverse(s) \in Seq({ s[i] : i \in DOMAIN s }) /\ DOMAIN Reverse(s) = 1 .. Len(s)
  BY <1>1, <1>2
<1>4. \A i \in 1 .. Len(s) : (Len(s) - i) + 1 \in 1 .. Len(s) /\ s[i] = Reverse(s)[(Len(s) - i) + 1]
  <2>1. \A i \in 1 .. Len(s) : (Len(s) - i) + 1 \in 1 .. Len(s) /\ (Len(s) - ((Len(s) - i) + 1)) + 1 = i
    BY <1>1
  <2> QED
    BY <1>2, <2>1
<1>5. ToSet(Reverse(s)) = ToSet(s)
  <2>1. \A i \in 1 .. Len(s) : (Len(s) - i) + 1 \in 1 .. Len(s) /\ Reverse(s)[i] = s[(Len(s) - i) + 1]
    BY <1>2, <1>4
  <2>2. \A x : x \in ToSet(Reverse(s)) => x \in ToSet(s)
    BY <1>1, <1>3, <2>1 DEF ToSet
  <2>3. \A x : x \in ToSet(s) => x \in ToSet(Reverse(s))
    BY <1>1, <1>3, <1>4 DEF ToSet
  <2> QED
    BY <2>2, <2>3
<1> QED
  BY <1>3, <1>5, SeqIsASeq

-----------------------------------------------------------------------------
(***************************************************************************)
(* What is known stays known.                                              *)
(***************************************************************************)
LEMMA KnowsStays ==
  ASSUME NEW h, NEW val, NEW dp, NEW U, NEW w, NEW seen, NEW D,
         Knows(h, val, dp, U, w, seen, D),
         NEW h2, NEW val2, NEW dp2, NEW U2, NEW D2, D \subseteq D2,
         \A i \in 1 .. Len(seen) :
           LET s == SourceAt(w, seen, i)
           IN  /\ s \in Lazy /\ s \notin U /\ ToSet(dp[s]) \subseteq D
                    => s \notin U2 /\ val2[s] = val[s] /\ dp2[s] = dp[s]
               /\ s \notin Lazy /\ DepsOf(h, s) \subseteq D
                    => ValueIn(h2, s) = ValueIn(h, s) /\ DepsOf(h2, s) \subseteq DepsOf(h, s)
  PROVE  Knows(h2, val2, dp2, U2, w, seen, D2)
<1>1. ASSUME NEW i \in 1 .. Len(seen)
      PROVE  KnowsAt(h2, val2, dp2, U2, SourceAt(w, seen, i), seen[i], D2)
  <2>1. PICK s : s = SourceAt(w, seen, i)
    OBVIOUS
  <2>2. KnowsAt(h, val, dp, U, s, seen[i], D)
    BY <2>1 DEF Knows
  <2>3. /\ s \in Lazy /\ s \notin U /\ ToSet(dp[s]) \subseteq D
             => s \notin U2 /\ val2[s] = val[s] /\ dp2[s] = dp[s]
        /\ s \notin Lazy /\ DepsOf(h, s) \subseteq D
             => ValueIn(h2, s) = ValueIn(h, s) /\ DepsOf(h2, s) \subseteq DepsOf(h, s)
    BY <2>1
  <2> QED
    BY <2>1, <2>2, <2>3 DEF KnowsAt
<1> QED
  BY <1>1 DEF Knows

LEMMA KnowsMore ==
  ASSUME NEW h, NEW val, NEW dp, NEW U, NEW w, NEW seen, NEW D, NEW D2, D \subseteq D2,
         Knows(h, val, dp, U, w, seen, D)
  PROVE  Knows(h, val, dp, U, w, seen, D2)
BY KnowsStays, Zenon

LEMMA KnowsSequence ==
  ASSUME NEW h, NEW val, NEW dp, NEW U, NEW w, NEW seen, NEW D, Knows(h, val, dp, U, w, seen, D)
  PROVE  IsASeq(seen) /\ Len(seen) \in Nat /\ DOMAIN seen = 1 .. Len(seen)
<1>1. IsASeq(seen)
  BY DEF Knows
<1> QED
  BY <1>1 DEF IsASeq

LEMMA KnowsNothing ==
  ASSUME NEW h, NEW val, NEW dp, NEW U, NEW w, NEW D
  PROVE  Knows(h, val, dp, U, w, <<>>, D)
BY EmptyIsASeq DEF Knows

LEMMA KnowsAppend ==
  ASSUME NEW h, NEW val, NEW dp, NEW U, NEW w, NEW seen, NEW D,
         Knows(h, val, dp, U, w, seen, D),
         NEW v, KnowsAt(h, val, dp, U, NextSource(w, seen), v, D)
  PROVE  Knows(h, val, dp, U, w, Append(seen, v), D)
<1>1. IsASeq(seen) /\ Len(seen) \in Nat
  BY DEF Knows, IsASeq
<1>2. /\ IsASeq(Append(seen, v)) /\ Len(Append(seen, v)) = Len(seen) + 1
      /\ Append(seen, v)[Len(seen) + 1] = v
      /\ \A i \in 1 .. Len(seen) : Append(seen, v)[i] = seen[i]
  BY <1>1, AppendFacts
<1>3. \A i \in 1 .. Len(seen) + 1 : SourceAt(w, Append(seen, v), i) = NextSource(w, SubSeq(seen, 1, i - 1))
  BY <1>1, SubSeqFacts DEF SourceAt
<1>4. SubSeq(seen, 1, (Len(seen) + 1) - 1) = seen
  BY <1>1, SubSeqFacts
<1>5. ASSUME NEW i \in 1 .. Len(seen) + 1
      PROVE  KnowsAt(h, val, dp, U, SourceAt(w, Append(seen, v), i), Append(seen, v)[i], D)
  <2>1. CASE i = Len(seen) + 1
    <3>1. SourceAt(w, Append(seen, v), i) = NextSource(w, seen)
      BY <1>3, <1>4, <2>1
    <3> QED
      BY <1>2, <2>1, <3>1
  <2>2. CASE i # Len(seen) + 1
    <3>1. i \in 1 .. Len(seen)
      BY <1>1, <2>2
    <3>2. SourceAt(w, Append(seen, v), i) = SourceAt(w, seen, i) /\ Append(seen, v)[i] = seen[i]
      BY <1>2, <1>3, <3>1 DEF SourceAt
    <3> QED
      BY <3>1, <3>2 DEF Knows
  <2> QED
    BY <2>1, <2>2
<1> QED
  BY <1>2, <1>5 DEF Knows

-----------------------------------------------------------------------------
(***************************************************************************)
(* The frames of getters.                                                  *)
(***************************************************************************)
LEMMA NoFrames ==
  ASSUME NEW st, \A i \in 1 .. Len(st) : ~IsGet(st[i]) /\ IsASeq(st[i].todo),
         NEW h, NEW val, NEW dp, NEW drt, NEW N, NEW nd, Len(st) \in Nat
  PROVE  FramesInv(st, h, val, dp, drt, N, nd)
<1>1. \A i \in 1 .. Len(st) - 1 : i \in 1 .. Len(st)
  OBVIOUS
<1> QED
  BY <1>1 DEF FramesInv

LEMMA PushFrame ==
  ASSUME NEW st, IsASeq(st), NEW h, NEW val, NEW dp, NEW drt, NEW N, NEW nd,
         FramesInv(st, h, val, dp, drt, N, nd),
         NEW f, IsASeq(f.todo),
         IsGet(f) => FrameKnows(h, val, dp, drt \union N, nd, f) /\ FrameKind(f, drt),
         IsGet(f) /\ st # <<>> /\ IsGet(Head(st)) => Linked(f, Head(st), N),
         \A j \in 1 .. Len(st) : IsGet(f) /\ IsGet(st[j]) /\ f.w = st[j].w => Behind(f, st[j])
  PROVE  FramesInv(<<f>> \o st, h, val, dp, drt, N, nd)
<1> DEFINE new == <<f>> \o st
<1>1. /\ Len(new) = Len(st) + 1 /\ Len(st) \in Nat /\ new[1] = f
      /\ \A i \in 1 .. Len(st) : new[i + 1] = st[i]
      /\ st # <<>> => Head(st) = st[1] /\ 1 \in 1 .. Len(st)
  BY PushFacts, TailFacts
<1>2. \A i \in 1 .. Len(new) : i = 1 \/ (i - 1 \in 1 .. Len(st) /\ new[i] = st[i - 1])
  BY <1>1
<1> HIDE DEF new
<1>6. ASSUME NEW i \in 1 .. Len(new) PROVE IsASeq(new[i].todo)
  BY <1>1, <1>2 DEF FramesInv
<1>3. ASSUME NEW i \in 1 .. Len(new), IsGet(new[i])
      PROVE  FrameKnows(h, val, dp, drt \union N, nd, new[i]) /\ FrameKind(new[i], drt)
  BY <1>1, <1>2, <1>3 DEF FramesInv
<1>4. ASSUME NEW i \in 1 .. Len(new) - 1, IsGet(new[i]), IsGet(new[i + 1])
      PROVE  Linked(new[i], new[i + 1], N)
  <2>1. CASE i = 1
    <3>1. 1 \in 1 .. Len(st) /\ new[1 + 1] = st[1]
      BY <1>1, <2>1
    <3>2. st # <<>> /\ Head(st) = st[1]
      BY <1>1, <3>1
    <3> QED
      BY <1>1, <1>4, <2>1, <3>1, <3>2
  <2>2. CASE i # 1
    <3>1. i - 1 \in 1 .. Len(st) - 1 /\ new[i] = st[i - 1] /\ new[i + 1] = st[(i - 1) + 1]
      BY <1>1, <1>2, <2>2
    <3> QED
      BY <1>4, <3>1 DEF FramesInv
  <2> QED
    BY <2>1, <2>2
<1>5. ASSUME NEW i \in 1 .. Len(new), NEW j \in 1 .. Len(new), i < j,
             IsGet(new[i]), IsGet(new[j]), new[i].w = new[j].w
      PROVE  Behind(new[i], new[j])
  <2>1. j - 1 \in 1 .. Len(st) /\ new[j] = st[j - 1]
    BY <1>2, <1>5
  <2>2. CASE i = 1
    BY <1>1, <1>5, <2>1, <2>2
  <2>3. CASE i # 1
    <3>1. i - 1 \in 1 .. Len(st) /\ new[i] = st[i - 1] /\ i - 1 < j - 1
      BY <1>2, <1>5, <2>3
    <3> QED
      BY <1>5, <2>1, <3>1 DEF FramesInv
  <2> QED
    BY <2>2, <2>3
<1> QED
  BY <1>3, <1>4, <1>5, <1>6 DEF FramesInv, new

LEMMA PopFrame ==
  ASSUME NEW st, IsASeq(st), st # <<>>, NEW h, NEW val, NEW dp, NEW drt, NEW N, NEW nd,
         FramesInv(st, h, val, dp, drt, N, nd)
  PROVE  /\ FramesInv(Tail(st), h, val, dp, drt, N, nd) /\ IsASeq(Head(st).todo)
         /\ IsGet(Head(st)) => FrameKnows(h, val, dp, drt \union N, nd, Head(st)) /\ FrameKind(Head(st), drt)
         /\ Tail(st) # <<>> /\ IsGet(Head(st)) /\ IsGet(Head(Tail(st))) => Linked(Head(st), Head(Tail(st)), N)
         /\ \A j \in 1 .. Len(Tail(st)) :
              IsGet(Head(st)) /\ IsGet(Tail(st)[j]) /\ Head(st).w = Tail(st)[j].w => Behind(Head(st), Tail(st)[j])
<1> DEFINE rest == Tail(st)
<1>1. /\ IsASeq(rest) /\ Len(st) \in Nat \ {0} /\ Len(rest) = Len(st) - 1 /\ Head(st) = st[1]
      /\ \A i \in 1 .. Len(rest) : rest[i] = st[i + 1] /\ i + 1 \in 1 .. Len(st)
      /\ rest # <<>> => Head(rest) = rest[1] /\ 1 \in 1 .. Len(rest)
  <2>1. /\ IsASeq(rest) /\ Len(st) \in Nat \ {0} /\ Len(rest) = Len(st) - 1 /\ Head(st) = st[1]
        /\ \A i \in 1 .. Len(rest) : rest[i] = st[i + 1] /\ i + 1 \in 1 .. Len(st)
    BY TailFacts
  <2>2. rest # <<>> => Head(rest) = rest[1] /\ 1 \in 1 .. Len(rest)
    <3>1. ASSUME rest # <<>> PROVE Len(rest) \in Nat \ {0} /\ Head(rest) = rest[1]
      BY <2>1, <3>1, TailFacts
    <3> QED
      BY <3>1
  <2> QED
    BY <2>1, <2>2
<1> HIDE DEF rest
<1>2. ASSUME NEW i \in 1 .. Len(rest), IsGet(rest[i])
      PROVE  FrameKnows(h, val, dp, drt \union N, nd, rest[i]) /\ FrameKind(rest[i], drt)
  BY <1>1, <1>2 DEF FramesInv
<1>3. ASSUME NEW i \in 1 .. Len(rest) - 1, IsGet(rest[i]), IsGet(rest[i + 1])
      PROVE  Linked(rest[i], rest[i + 1], N)
  <2>1. i + 1 \in 1 .. Len(st) - 1 /\ rest[i] = st[i + 1] /\ rest[i + 1] = st[(i + 1) + 1]
    BY <1>1
  <2> QED
    BY <1>3, <2>1 DEF FramesInv
<1>4. ASSUME NEW i \in 1 .. Len(rest), NEW j \in 1 .. Len(rest), i < j,
             IsGet(rest[i]), IsGet(rest[j]), rest[i].w = rest[j].w
      PROVE  Behind(rest[i], rest[j])
  <2>1. i + 1 \in 1 .. Len(st) /\ j + 1 \in 1 .. Len(st) /\ rest[i] = st[i + 1] /\ rest[j] = st[j + 1] /\ i + 1 < j + 1
    BY <1>1, <1>4
  <2> QED
    BY <1>4, <2>1 DEF FramesInv
<1>5. 1 \in 1 .. Len(st)
  BY <1>1
<1>6. IsGet(Head(st)) => FrameKnows(h, val, dp, drt \union N, nd, Head(st)) /\ FrameKind(Head(st), drt)
  BY <1>1, <1>5 DEF FramesInv
<1>7. ASSUME rest # <<>>, IsGet(Head(st)), IsGet(Head(rest)) PROVE Linked(Head(st), Head(rest), N)
  <2>1. 1 \in 1 .. Len(st) - 1 /\ Head(rest) = st[1 + 1] /\ Head(st) = st[1]
    BY <1>1, <1>7
  <2> QED
    BY <1>7, <2>1 DEF FramesInv
<1>8. ASSUME NEW j \in 1 .. Len(rest), IsGet(Head(st)), IsGet(rest[j]), Head(st).w = rest[j].w
      PROVE  Behind(Head(st), rest[j])
  <2>1. j + 1 \in 1 .. Len(st) /\ rest[j] = st[j + 1] /\ Head(st) = st[1] /\ 1 < j + 1
    BY <1>1
  <2> QED
    BY <1>5, <1>8, <2>1 DEF FramesInv
<1>9. IsASeq(Head(st).todo) /\ \A i \in 1 .. Len(rest) : IsASeq(rest[i].todo)
  BY <1>1, <1>5 DEF FramesInv
<1> QED
  BY <1>2, <1>3, <1>4, <1>6, <1>7, <1>8, <1>9 DEF FramesInv, rest

\* The same frames, of which other things are known.
LEMMA SameFrames ==
  ASSUME NEW st, NEW h, NEW val, NEW dp, NEW drt, NEW N, NEW nd,
         NEW h2, NEW val2, NEW dp2, NEW drt2, NEW nd2,
         FramesInv(st, h, val, dp, drt, N, nd),
         \A i \in 1 .. Len(st) : IsGet(st[i]) =>
           FrameKnows(h2, val2, dp2, drt2 \union N, nd2, st[i]) /\ FrameKind(st[i], drt2)
  PROVE  FramesInv(st, h2, val2, dp2, drt2, N, nd2)
BY DEF FramesInv

\* The watchers that notifications among the frames have yet to call
Listed(st) == UNION { ToSet(st[i].todo) : i \in { j \in DOMAIN st : st[j].kind = "notify" } }

LEMMA ListedPush ==
  ASSUME NEW st, IsASeq(st), NEW f
  PROVE  Listed(<<f>> \o st) = IF f.kind = "notify" THEN ToSet(f.todo) \union Listed(st) ELSE Listed(st)
<1> DEFINE new == <<f>> \o st
<1>1. /\ Len(st) \in Nat /\ new[1] = f
      /\ \A i \in 1 .. Len(st) : new[i + 1] = st[i]
      /\ DOMAIN st = 1 .. Len(st) /\ DOMAIN new = 1 .. Len(st) + 1
  BY PushFacts
<1>2. \A i \in DOMAIN new : i = 1 \/ (i - 1 \in DOMAIN st /\ new[i] = st[i - 1])
  BY <1>1
<1>3. 1 \in DOMAIN new /\ \A i \in DOMAIN st : i + 1 \in DOMAIN new /\ new[i + 1] = st[i]
  BY <1>1
<1> HIDE DEF new
<1>4. ASSUME NEW x \in Listed(new) PROVE (f.kind = "notify" /\ x \in ToSet(f.todo)) \/ x \in Listed(st)
  <2>1. PICK i \in DOMAIN new : new[i].kind = "notify" /\ x \in ToSet(new[i].todo)
    BY <1>4 DEF Listed
  <2> QED
    BY <1>1, <1>2, <2>1 DEF Listed
<1>5. ASSUME NEW x \in Listed(st) PROVE x \in Listed(new)
  <2>1. PICK i \in DOMAIN st : st[i].kind = "notify" /\ x \in ToSet(st[i].todo)
    BY <1>5 DEF Listed
  <2> QED
    BY <1>3, <2>1 DEF Listed
<1>6. ASSUME f.kind = "notify", NEW x \in ToSet(f.todo) PROVE x \in Listed(new)
  BY <1>1, <1>3, <1>6 DEF Listed
<1> QED
  BY <1>4, <1>5, <1>6 DEF new

LEMMA ListedPop ==
  ASSUME NEW st, IsASeq(st), st # <<>>
  PROVE  Listed(st) = IF Head(st).kind = "notify" THEN ToSet(Head(st).todo) \union Listed(Tail(st)) ELSE Listed(Tail(st))
<1> DEFINE rest == Tail(st)
<1>1. /\ Len(st) \in Nat \ {0} /\ Head(st) = st[1] /\ DOMAIN st = 1 .. Len(st) /\ DOMAIN rest = 1 .. Len(st) - 1
      /\ \A i \in 1 .. Len(st) - 1 : rest[i] = st[i + 1]
  BY TailFacts
<1>2. \A i \in DOMAIN st : i = 1 \/ (i - 1 \in DOMAIN rest /\ st[i] = rest[i - 1])
  BY <1>1
<1>3. 1 \in DOMAIN st /\ \A i \in DOMAIN rest : i + 1 \in DOMAIN st /\ st[i + 1] = rest[i]
  BY <1>1
<1> HIDE DEF rest
<1>4. ASSUME NEW x \in Listed(st) PROVE (Head(st).kind = "notify" /\ x \in ToSet(Head(st).todo)) \/ x \in Listed(rest)
  <2>1. PICK i \in DOMAIN st : st[i].kind = "notify" /\ x \in ToSet(st[i].todo)
    BY <1>4 DEF Listed
  <2> QED
    BY <1>1, <1>2, <2>1 DEF Listed
<1>5. ASSUME NEW x \in Listed(rest) PROVE x \in Listed(st)
  <2>1. PICK i \in DOMAIN rest : rest[i].kind = "notify" /\ x \in ToSet(rest[i].todo)
    BY <1>5 DEF Listed
  <2> QED
    BY <1>3, <2>1 DEF Listed
<1>6. ASSUME Head(st).kind = "notify", NEW x \in ToSet(Head(st).todo) PROVE x \in Listed(st)
  BY <1>1, <1>3, <1>6 DEF Listed
<1> QED
  BY <1>4, <1>5, <1>6 DEF rest

LEMMA ToNotifyIsListed == ToNotify = Listed(stack) /\ ToNotify' = Listed(stack')
BY DEF ToNotify, Listed

-----------------------------------------------------------------------------
(***************************************************************************)
(* Steps of code that is no getter.                                        *)
(***************************************************************************)
LEMMA CurrentStays ==
  ASSUME NEW h, NEW val, NEW dp, NEW U, NEW w, Current(h, val, dp, U, w), NEW U2, U2 \subseteq U
  PROVE  Current(h, val, dp, U2, w)
<1>1. PICK D, seen : D = ToSet(dp[w]) /\ seen = val[w]
  OBVIOUS
<1>2. Knows(h, val, dp, U, w, seen, D)
  BY <1>1 DEF Current
<1>3. D \subseteq D /\ \A s : s \notin U => s \notin U2
  OBVIOUS
<1>4. Knows(h, val, dp, U2, w, seen, D)
  BY <1>2, <1>3, KnowsStays
<1> QED
  BY <1>1, <1>4 DEF Current

LEMMA SettledStays ==
  ASSUME SettledInv, UNCHANGED <<heap, value, deps>>, Unclean' \subseteq Unclean,
         \A w \in Watchers : IsSettled(w)' => IsSettled(w)
  PROVE  SettledInv'
<1> SUFFICES ASSUME NEW w \in Watchers, IsSettled(w) PROVE Current(heap, value, deps, Unclean', w)
  BY DEF SettledInv
<1>1. Current(heap, value, deps, Unclean, w)
  BY DEF SettledInv
<1>2. PICK U2 : U2 = Unclean'
  OBVIOUS
<1> QED
  BY <1>1, <1>2, CurrentStays

\* A getter that begins has seen nothing.
LEMMA OneFrame ==
  ASSUME NEW st, IsASeq(st), \A i \in 1 .. Len(st) : ~IsGet(st[i]) /\ IsASeq(st[i].todo),
         NEW h, NEW val, NEW dp, NEW drt, NEW N, NEW nd,
         NEW w, NEW why, FrameKind(GetFrame(w, why), drt)
  PROVE  FramesInv(<<GetFrame(w, why)>> \o st, h, val, dp, drt, N, nd)
<1>1. Len(st) \in Nat /\ (st # <<>> => Head(st) = st[1] /\ 1 \in 1 .. Len(st))
  <2>1. ASSUME st # <<>> PROVE Len(st) \in Nat \ {0} /\ Head(st) = st[1]
    BY <2>1, TailFacts
  <2> QED
    BY <2>1 DEF IsASeq
<1>2. FramesInv(st, h, val, dp, drt, N, nd)
  BY <1>1, NoFrames
<1>3. PICK f : f = GetFrame(w, why)
  OBVIOUS
<1>4. f.seen = <<>> /\ f.todo = <<>> /\ f.w = w
  BY <1>3 DEF GetFrame, Frame
<1>5. IsASeq(f.todo) /\ FrameKnows(h, val, dp, drt \union N, nd, f)
  BY <1>4, EmptyIsASeq, KnowsNothing DEF FrameKnows
<1> QED
  BY <1>1, <1>2, <1>3, <1>5, PushFrame

\* No getter runs, and none does after the step, or one that has just begun.
LEMMA OutsideGetters ==
  ASSUME Inv, FreshInv, stack # <<>> => ~IsGet(Top)
  PROVE  /\ IsASeq(stack)
         /\ \A i \in 1 .. Len(stack) : ~IsGet(stack[i]) /\ IsASeq(stack[i].todo)
         /\ \A w : ~Evaluates(stack, w)
<1>1. \A i \in 1 .. Len(stack) : ~IsGet(stack[i])
  BY NoGetter DEF Inv, Top
<1> QED
  BY <1>1 DEF Inv, StackInv, FreshInv, FramesInv, Evaluates

LEMMA EvaluatesPush ==
  ASSUME NEW st, IsASeq(st), NEW f, NEW w
  PROVE  Evaluates(<<f>> \o st, w) <=> Evaluates(st, w) \/ (IsGet(f) /\ f.w = w)
<1> DEFINE new == <<f>> \o st
<1>1. /\ Len(new) = Len(st) + 1 /\ Len(st) \in Nat /\ new[1] = f
      /\ \A i \in 1 .. Len(st) : new[i + 1] = st[i]
  BY PushFacts
<1>2. \A i \in 1 .. Len(new) : i = 1 \/ (i - 1 \in 1 .. Len(st) /\ new[i] = st[i - 1])
  BY <1>1
<1>3. 1 \in 1 .. Len(new) /\ \A i \in 1 .. Len(st) : i + 1 \in 1 .. Len(new)
  BY <1>1
<1> HIDE DEF new
<1> QED
  BY <1>1, <1>2, <1>3 DEF Evaluates, new

\* The frame that is no getter is taken off, or replaced by another.
LEMMA TailFrames ==
  ASSUME NEW st, IsASeq(st), st # <<>>, \A i \in 1 .. Len(st) : ~IsGet(st[i]) /\ IsASeq(st[i].todo)
  PROVE  /\ IsASeq(Tail(st)) /\ IsASeq(Head(st).todo)
         /\ \A i \in 1 .. Len(Tail(st)) : ~IsGet(Tail(st)[i]) /\ IsASeq(Tail(st)[i].todo)
         /\ \A w : ~Evaluates(Tail(st), w)
<1>1. /\ IsASeq(Tail(st)) /\ Len(st) \in Nat \ {0} /\ Len(Tail(st)) = Len(st) - 1 /\ Head(st) = st[1]
      /\ \A i \in 1 .. Len(Tail(st)) : Tail(st)[i] = st[i + 1] /\ i + 1 \in 1 .. Len(st)
  BY TailFacts
<1>2. 1 \in 1 .. Len(st)
  BY <1>1
<1> QED
  BY <1>1, <1>2 DEF Evaluates

LEMMA PushedFrames ==
  ASSUME NEW st, IsASeq(st), \A i \in 1 .. Len(st) : ~IsGet(st[i]) /\ IsASeq(st[i].todo),
         NEW f, ~IsGet(f), IsASeq(f.todo)
  PROVE  /\ IsASeq(<<f>> \o st)
         /\ \A i \in 1 .. Len(<<f>> \o st) : ~IsGet((<<f>> \o st)[i]) /\ IsASeq((<<f>> \o st)[i].todo)
<1> DEFINE new == <<f>> \o st
<1>1. /\ IsASeq(new) /\ Len(new) = Len(st) + 1 /\ Len(st) \in Nat /\ new[1] = f
      /\ \A i \in 1 .. Len(st) : new[i + 1] = st[i]
  BY PushFacts
<1>2. \A i \in 1 .. Len(new) : i = 1 \/ (i - 1 \in 1 .. Len(st) /\ new[i] = st[i - 1])
  BY <1>1
<1> HIDE DEF new
<1>3. \A i \in 1 .. Len(new) : ~IsGet(new[i]) /\ IsASeq(new[i].todo)
  BY <1>1, <1>2
<1> QED
  BY <1>1, <1>3 DEF new

\* Whatever the data and the watchers are then.
LEMMA FramesOutside ==
  ASSUME IsASeq(stack'), \A i \in 1 .. Len(stack') : ~IsGet(stack'[i]) /\ IsASeq(stack'[i].todo)
  PROVE  FramesInv(stack, heap, value, deps, dirty, ToNotify, newDeps)'
<1>1. PICK st, h, val, dp, drt, N, nd :
        st = stack' /\ h = heap' /\ val = value' /\ dp = deps' /\ drt = dirty' /\ N = ToNotify' /\ nd = newDeps'
  OBVIOUS
<1>2. Len(st) \in Nat
  BY <1>1 DEF IsASeq
<1> QED
  BY <1>1, <1>2, NoFrames

LEMMA FramesBegin ==
  ASSUME NEW st, IsASeq(st), \A i \in 1 .. Len(st) : ~IsGet(st[i]) /\ IsASeq(st[i].todo),
         NEW w, NEW why, FrameKind(GetFrame(w, why), dirty'), stack' = <<GetFrame(w, why)>> \o st
  PROVE  FramesInv(stack, heap, value, deps, dirty, ToNotify, newDeps)'
<1>1. PICK h, val, dp, drt, N, nd :
        h = heap' /\ val = value' /\ dp = deps' /\ drt = dirty' /\ N = ToNotify' /\ nd = newDeps'
  OBVIOUS
<1> QED
  BY <1>1, OneFrame

\* Steps that leave the data, the values and the deps alone.
LEMMA QuietStep ==
  ASSUME FreshInv, UNCHANGED <<heap, value, deps>>, dirty' \subseteq Lazy, queued' \subseteq Async,
         Unclean' \subseteq Unclean, \A w \in Watchers : IsSettled(w)' => IsSettled(w),
         FramesInv(stack, heap, value, deps, dirty, ToNotify, newDeps)'
  PROVE  FreshInv'
<1>1. SettledInv'
  BY SettledStays DEF FreshInv
<1> QED
  BY <1>1 DEF FreshInv

LEMMA QuietEnds ==
  ASSUME Inv, FreshInv, EndCallback \/ EndNotify PROVE FreshInv'
<1>1. /\ stack # <<>> /\ ~IsGet(Top) /\ stack' = Tail(stack)
      /\ Top.kind = "notify" => Top.todo = <<>>
      /\ UNCHANGED <<heap, value, deps, newDeps, dirty, active, queued>>
  BY DEF EndCallback, EndNotify, InNotify, IsGet, Callers
<1>2. /\ IsASeq(stack) /\ \A w : ~Evaluates(stack, w)
      /\ \A i \in 1 .. Len(stack) : ~IsGet(stack[i]) /\ IsASeq(stack[i].todo)
  BY <1>1, OutsideGetters
<1>3. /\ IsASeq(stack')
      /\ \A i \in 1 .. Len(stack') : ~IsGet(stack'[i]) /\ IsASeq(stack'[i].todo)
  BY <1>1, <1>2, TailFrames
<1>4. ToNotify' = ToNotify
  <2>1. ToSet(<<>>) = {}
    BY DEF ToSet
  <2>2. Listed(stack) = Listed(Tail(stack))
    BY <1>1, <1>2, <2>1, ListedPop DEF Top
  <2> QED
    BY <1>1, <2>2, ToNotifyIsListed
<1>5. Unclean' = Unclean /\ \A w \in Watchers : IsSettled(w)' => IsSettled(w)
  BY <1>1, <1>2, <1>4 DEF Unclean, IsSettled
<1>6. FramesInv(stack, heap, value, deps, dirty, ToNotify, newDeps)'
  BY <1>3, FramesOutside
<1> QED
  BY <1>1, <1>5, <1>6, QuietStep DEF FreshInv

LEMMA NotifyNextFresh ==
  ASSUME ConstantsAssumption, Inv, FreshInv, NotifyNext PROVE FreshInv'
<1> DEFINE w == Head(Top.todo)
           f == NotifyFrame(Tail(Top.todo))
           rest == <<f>> \o Callers
<1>1. /\ stack # <<>> /\ ~IsGet(Top) /\ Top.kind = "notify" /\ Top.todo # <<>>
      /\ dirty' = IF w \in Lazy THEN dirty \union {w} ELSE dirty
      /\ queued' = IF w \in Async THEN queued \union {w} ELSE queued
      /\ \/ stack' = rest /\ (w \in Sync => w \notin active)
         \/ stack' = <<GetFrame(w, "run")>> \o rest /\ w \in Sync
      /\ UNCHANGED <<heap, value, deps, newDeps, active>>
  BY DEF NotifyNext, InNotify, IsGet, Runs
<1>2. /\ IsASeq(stack) /\ \A x : ~Evaluates(stack, x)
      /\ \A i \in 1 .. Len(stack) : ~IsGet(stack[i]) /\ IsASeq(stack[i].todo)
  BY <1>1, OutsideGetters
<1>3. /\ IsASeq(Callers) /\ IsASeq(Top.todo) /\ \A x : ~Evaluates(Callers, x)
      /\ \A i \in 1 .. Len(Callers) : ~IsGet(Callers[i]) /\ IsASeq(Callers[i].todo)
  BY <1>1, <1>2, TailFrames DEF Callers, Top
<1>4. IsASeq(Tail(Top.todo)) /\ ToSet(Top.todo) = {w} \union ToSet(Tail(Top.todo))
  <2>1. /\ IsASeq(Tail(Top.todo)) /\ Len(Top.todo) \in Nat \ {0} /\ w = Top.todo[1]
        /\ \A i \in 1 .. Len(Top.todo) - 1 : Tail(Top.todo)[i] = Top.todo[i + 1]
        /\ DOMAIN Top.todo = 1 .. Len(Top.todo) /\ DOMAIN Tail(Top.todo) = 1 .. Len(Top.todo) - 1
    BY <1>1, <1>3, TailFacts
  <2>2. \A i \in DOMAIN Top.todo : i = 1 \/ (i - 1 \in DOMAIN Tail(Top.todo) /\ Top.todo[i] = Tail(Top.todo)[i - 1])
    BY <2>1
  <2>3. 1 \in DOMAIN Top.todo /\ \A i \in DOMAIN Tail(Top.todo) : i + 1 \in DOMAIN Top.todo
    BY <2>1
  <2>4. ToSet(Top.todo) \subseteq {w} \union ToSet(Tail(Top.todo))
    BY <2>1, <2>2 DEF ToSet
  <2>5. {w} \union ToSet(Tail(Top.todo)) \subseteq ToSet(Top.todo)
    BY <2>1, <2>3 DEF ToSet
  <2> QED
    BY <2>1, <2>4, <2>5
<1>5. ~IsGet(f) /\ f.todo = Tail(Top.todo) /\ f.kind = "notify"
  BY DEF NotifyFrame, Frame, IsGet
<1> HIDE DEF w, f
<1>6. /\ IsASeq(rest) /\ \A x : ~Evaluates(rest, x)
      /\ \A i \in 1 .. Len(rest) : ~IsGet(rest[i]) /\ IsASeq(rest[i].todo)
  BY <1>3, <1>4, <1>5, PushedFrames, EvaluatesPush
<1>7. Listed(rest) = ToSet(Tail(Top.todo)) \union Listed(Callers)
  BY <1>3, <1>5, ListedPush
<1>8. ToNotify = {w} \union Listed(rest)
  <2>1. ToNotify = ToSet(Top.todo) \union Listed(Callers)
    BY <1>1, <1>2, ListedPop, ToNotifyIsListed DEF Top, Callers
  <2> QED
    BY <1>4, <1>7, <2>1
<1> HIDE DEF rest
<1>9. GetFrame(w, "run").kind = "get" /\ GetFrame(w, "run").w = w /\ GetFrame(w, "run").why = "run"
  BY DEF GetFrame, Frame
<1>10. /\ ToNotify' = Listed(rest)
       /\ \A x \in active : ~Evaluates(stack', x) => w \notin Sync \/ x # w
  <2>1. CASE stack' = rest /\ (w \in Sync => w \notin active)
    BY <2>1, ToNotifyIsListed
  <2>2. CASE stack' = <<GetFrame(w, "run")>> \o rest /\ w \in Sync
    <3>1. PICK g : g = GetFrame(w, "run")
      OBVIOUS
    <3>2. Listed(<<g>> \o rest) = Listed(rest)
      BY <1>6, <1>9, <3>1, ListedPush
    <3>3. Evaluates(<<g>> \o rest, w)
      BY <1>6, <1>9, <3>1, EvaluatesPush DEF IsGet
    <3> QED
      BY <2>2, <3>1, <3>2, <3>3, ToNotifyIsListed
  <2> QED
    BY <1>1, <2>1, <2>2
<1>11. Unclean' \subseteq Unclean
  BY <1>1, <1>8, <1>10 DEF Unclean
<1>12. ASSUME NEW x \in Watchers, IsSettled(x)' PROVE IsSettled(x)
  <2>1. x \in active /\ x \notin dirty' /\ x \notin ToNotify' /\ x \notin queued' /\ ~Evaluates(stack', x)
    BY <1>1, <1>12 DEF IsSettled, Unclean
  <2>2. x # w
    BY <1>1, <1>10, <2>1 DEF Watchers
  <2> QED
    BY <1>1, <1>2, <1>8, <1>10, <2>1, <2>2 DEF IsSettled, Unclean
<1>13. FramesInv(stack, heap, value, deps, dirty, ToNotify, newDeps)'
  <2>1. CASE stack' = rest
    BY <1>6, <2>1, FramesOutside
  <2>2. CASE stack' = <<GetFrame(w, "run")>> \o rest /\ w \in Sync
    <3>1. w \notin Lazy
      BY <2>2 DEF ConstantsAssumption
    <3>2. FrameKind(GetFrame(w, "run"), dirty')
      BY <1>9, <3>1 DEF FrameKind
    <3> QED
      BY <1>6, <2>2, <3>2, FramesBegin
  <2> QED
    BY <1>1, <2>1, <2>2
<1>14. dirty' \subseteq Lazy /\ queued' \subseteq Async
  BY <1>1 DEF FreshInv
<1> QED
  BY <1>1, <1>11, <1>12, <1>13, <1>14, QuietStep

LEMMA RunQueuedFresh ==
  ASSUME ConstantsAssumption, Inv, FreshInv, NEW w \in Watchers, RunQueued(w) PROVE FreshInv'
<1>1. /\ stack = <<>> /\ w \in queued /\ queued' = queued \ {w}
      /\ \/ stack' = stack /\ w \notin active
         \/ stack' = <<GetFrame(w, "run")>> \o stack
      /\ UNCHANGED <<heap, value, deps, newDeps, dirty, active>>
  BY DEF RunQueued, Runs
<1>2. /\ IsASeq(stack) /\ \A x : ~Evaluates(stack, x)
      /\ \A i \in 1 .. Len(stack) : ~IsGet(stack[i]) /\ IsASeq(stack[i].todo)
  BY <1>1, OutsideGetters
<1>3. w \notin Lazy
  BY <1>1 DEF FreshInv, ConstantsAssumption
<1>4. PICK g : g = GetFrame(w, "run") /\ IsGet(g) /\ g.w = w /\ g.kind # "notify" /\ FrameKind(g, dirty')
  <2>1. PICK g : g = GetFrame(w, "run")
    OBVIOUS
  <2>2. g.kind = "get" /\ g.w = w /\ g.why = "run"
    BY <2>1 DEF GetFrame, Frame
  <2>3. IsGet(g) /\ g.kind # "notify" /\ FrameKind(g, dirty')
    BY <1>3, <2>2 DEF IsGet, FrameKind
  <2> QED
    BY <2>1, <2>2, <2>3
<1>5. ToNotify' = ToNotify /\ (w \in active => Evaluates(stack', w))
  <2>1. CASE stack' = stack /\ w \notin active
    BY <2>1, ToNotifyIsListed
  <2>2. CASE stack' = <<g>> \o stack
    <3>1. Listed(<<g>> \o stack) = Listed(stack) /\ Evaluates(<<g>> \o stack, w)
      BY <1>2, <1>4, ListedPush, EvaluatesPush
    <3> QED
      BY <2>2, <3>1, ToNotifyIsListed
  <2> QED
    BY <1>1, <1>4, <2>1, <2>2
<1>6. FramesInv(stack, heap, value, deps, dirty, ToNotify, newDeps)'
  <2>1. CASE stack' = stack
    BY <1>2, <2>1, FramesOutside
  <2>2. CASE stack' = <<GetFrame(w, "run")>> \o stack
    BY <1>2, <1>4, <2>2, FramesBegin
  <2> QED
    BY <1>1, <2>1, <2>2
<1>7. ASSUME NEW x \in Watchers, IsSettled(x)' PROVE IsSettled(x)
  BY <1>1, <1>2, <1>5, <1>7 DEF IsSettled, Unclean
<1>8. Unclean' \subseteq Unclean /\ dirty' \subseteq Lazy /\ queued' \subseteq Async
  BY <1>1, <1>5 DEF Unclean, FreshInv
<1> QED
  BY <1>1, <1>6, <1>7, <1>8, QuietStep

LEMMA CreateFresh ==
  ASSUME ConstantsAssumption, Inv, FreshInv, NEW w \in Watchers, Create(w) PROVE FreshInv'
<1>1. /\ stack # <<>> => ~IsGet(Top)
      /\ w \notin Lazy /\ active' = active \union {w} /\ stack' = <<GetFrame(w, "new")>> \o stack
      /\ UNCHANGED <<heap, value, deps, newDeps, dirty, queued>>
  BY DEF Create, UserCode, IsGet, ConstantsAssumption
<1>2. /\ IsASeq(stack) /\ \A x : ~Evaluates(stack, x)
      /\ \A i \in 1 .. Len(stack) : ~IsGet(stack[i]) /\ IsASeq(stack[i].todo)
  BY <1>1, OutsideGetters
<1>3. PICK g : g = GetFrame(w, "new") /\ IsGet(g) /\ g.w = w /\ g.kind # "notify" /\ FrameKind(g, dirty')
  BY <1>1 DEF GetFrame, Frame, IsGet, FrameKind
<1>4. ToNotify' = ToNotify /\ Evaluates(stack', w)
  <2>1. Listed(<<g>> \o stack) = Listed(stack) /\ Evaluates(<<g>> \o stack, w)
    BY <1>2, <1>3, ListedPush, EvaluatesPush
  <2> QED
    BY <1>1, <1>3, <2>1, ToNotifyIsListed
<1>5. FramesInv(stack, heap, value, deps, dirty, ToNotify, newDeps)'
  BY <1>1, <1>2, <1>3, FramesBegin
<1>6. ASSUME NEW x \in Watchers, IsSettled(x)' PROVE IsSettled(x)
  BY <1>1, <1>2, <1>4, <1>6 DEF IsSettled, Unclean
<1>7. Unclean' \subseteq Unclean /\ dirty' \subseteq Lazy /\ queued' \subseteq Async
  BY <1>1, <1>4 DEF Unclean, FreshInv
<1> QED
  BY <1>1, <1>5, <1>6, <1>7, QuietStep

\* The step leaves the stack alone.
LEMMA StackAlone ==
  ASSUME Inv, FreshInv, stack # <<>> => ~IsGet(Top), UNCHANGED <<heap, value, deps, dirty, queued, stack>>,
         active' \subseteq active
  PROVE  FreshInv'
<1>1. /\ IsASeq(stack)
      /\ \A i \in 1 .. Len(stack) : ~IsGet(stack[i]) /\ IsASeq(stack[i].todo)
  BY OutsideGetters
<1>2. ToNotify' = ToNotify
  BY ToNotifyIsListed
<1>3. Unclean' = Unclean /\ \A x \in Watchers : IsSettled(x)' => IsSettled(x)
  BY <1>2 DEF IsSettled, Unclean
<1>4. FramesInv(stack, heap, value, deps, dirty, ToNotify, newDeps)'
  BY <1>1, FramesOutside
<1> QED
  BY <1>3, <1>4, QuietStep DEF FreshInv

LEMMA QuietOperations ==
  ASSUME Inv, FreshInv, CleanupDeps \/ \E w \in Watchers : Teardown(w) PROVE FreshInv'
<1>1. CASE CleanupDeps
  BY <1>1, StackAlone DEF CleanupDeps
<1>2. ASSUME NEW w \in Watchers, Teardown(w) PROVE FreshInv'
  BY <1>2, StackAlone DEF Teardown, UserOp, UserCode, IsGet
<1> QED
  BY <1>1, <1>2

LEMMA UseFresh ==
  ASSUME Inv, FreshInv, NEW c \in Lazy, Use(c) PROVE FreshInv'
<1>1. /\ stack # <<>> => ~IsGet(Top)
      /\ stack' = IF c \in dirty THEN <<GetFrame(c, "read")>> \o stack ELSE stack
      /\ UNCHANGED <<heap, value, deps, newDeps, dirty, active, queued>>
  BY DEF Use, Computed, Returned, Top, InGetter, IsGet
<1>2. CASE c \notin dirty
  BY <1>1, <1>2, StackAlone
<1>3. CASE c \in dirty
  <2>1. /\ IsASeq(stack) /\ \A x : ~Evaluates(stack, x)
        /\ \A i \in 1 .. Len(stack) : ~IsGet(stack[i]) /\ IsASeq(stack[i].todo)
    BY <1>1, OutsideGetters
  <2>2. PICK g : g = GetFrame(c, "read") /\ g.kind # "notify" /\ FrameKind(g, dirty')
    BY <1>1, <1>3 DEF GetFrame, Frame, FrameKind
  <2>3. ToNotify' = ToNotify
    <3>1. Listed(<<g>> \o stack) = Listed(stack)
      BY <2>1, <2>2, ListedPush
    <3> QED
      BY <1>1, <1>3, <2>2, <3>1, ToNotifyIsListed
  <2>4. FramesInv(stack, heap, value, deps, dirty, ToNotify, newDeps)'
    BY <1>1, <1>3, <2>1, <2>2, FramesBegin
  <2>5. ASSUME NEW x \in Watchers, IsSettled(x)' PROVE IsSettled(x)
    BY <1>1, <2>1, <2>3, <2>5 DEF IsSettled, Unclean
  <2>6. Unclean' \subseteq Unclean /\ dirty' \subseteq Lazy /\ queued' \subseteq Async
    BY <1>1, <2>3 DEF Unclean, FreshInv
  <2> QED
    BY <1>1, <2>4, <2>5, <2>6, QuietStep
<1> QED
  BY <1>2, <1>3

\* A notification of d reaches whoever depends on d, and nobody else.
LEMMA ReachesSubscribers ==
  ASSUME ConstantsAssumption, Inv, \A w : ~Evaluates(stack, w), NEW d \in Deps,
         stack' = <<NotifyFrame(Filtered(subs[d]))>> \o stack, NEW x \in Watchers, x \in active
  PROVE  x \in ToNotify' <=> x \in ToNotify \/ Contains(deps[x], d)
<1>1. IsASeq(subs[d]) /\ Once(subs[d]) /\ IsASeq(stack)
  BY DEF Inv, ListsInv, StackInv
<1>2. x # Hole
  BY DEF ConstantsAssumption
<1>3. IsASeq(Filtered(subs[d])) /\ (Contains(Filtered(subs[d]), x) <=> Contains(subs[d], x))
  BY <1>1, <1>2, FilteredFacts
<1>4. Contains(subs[d], x) <=> Contains(deps[x], d)
  <2>1. newDeps[x] = <<>>
    BY DEF Inv, LifeInv
  <2> QED
    BY <2>1, ContainsEmpty DEF Inv, SubscribersInv, DependsOn
<1>5. PICK f : f = NotifyFrame(Filtered(subs[d]))
  OBVIOUS
<1>6. f.kind = "notify" /\ f.todo = Filtered(subs[d])
  BY <1>5 DEF NotifyFrame, Frame
<1>7. ToNotify' = ToSet(f.todo) \union ToNotify
  BY <1>1, <1>5, <1>6, ListedPush, ToNotifyIsListed
<1> QED
  BY <1>3, <1>4, <1>6, <1>7, ToSetFacts

LEMMA HasBeenReadFacts ==
  ASSUME NEW x \in Watchers, DOMAIN value' = Watchers, NEW i \in DOMAIN (value'[x]),
         SourceAt(x, value'[x], i) \notin Lazy
  PROVE  SourceAt(x, value'[x], i) \in HasBeenRead'
<1>1. SourceAt(x, value'[x], i) \in SourcesIn(x, value'[x])
  BY DEF SourcesIn, SourceAt
<1> QED
  BY <1>1 DEF HasBeenRead

LEMMA WriteFresh ==
  ASSUME ConstantsAssumption, Inv, FreshInv, NEW op \in Mutations, Write(op), Notified PROVE FreshInv'
<1>1. /\ stack # <<>> => ~IsGet(Top)
      /\ UNCHANGED <<subs, value, deps, newDeps, dirty, active, queued>>
      /\ \/ stack' = stack
         \/ \E d \in Deps : stack' = <<NotifyFrame(Filtered(subs[d]))>> \o stack
  BY DEF Write, UserOp, UserCode, IsGet
<1>2. /\ IsASeq(stack) /\ \A x : ~Evaluates(stack, x)
      /\ \A i \in 1 .. Len(stack) : ~IsGet(stack[i]) /\ IsASeq(stack[i].todo)
  BY <1>1, OutsideGetters
<1>3. ASSUME NEW d \in Deps, stack' = <<NotifyFrame(Filtered(subs[d]))>> \o stack, NEW x \in Watchers, x \in active
      PROVE  x \in ToNotify' <=> x \in ToNotify \/ Contains(deps[x], d)
  BY <1>2, <1>3, ReachesSubscribers
<1>4. \A w : ~Evaluates(stack', w)
  <2>1. CASE stack' = stack
    BY <1>2, <2>1
  <2>2. ASSUME NEW d \in Deps, stack' = <<NotifyFrame(Filtered(subs[d]))>> \o stack PROVE \A w : ~Evaluates(stack', w)
    <3>1. ~IsGet(NotifyFrame(Filtered(subs[d])))
      BY DEF NotifyFrame, Frame, IsGet
    <3> QED
      BY <1>2, <2>2, <3>1, EvaluatesPush
  <2> QED
    BY <1>1, <2>1, <2>2
<1>5. /\ IsASeq(stack')
      /\ \A i \in 1 .. Len(stack') : ~IsGet(stack'[i]) /\ IsASeq(stack'[i].todo)
  <2>1. CASE stack' = stack
    BY <1>2, <2>1
  <2>2. ASSUME NEW d \in Deps, stack' = <<NotifyFrame(Filtered(subs[d]))>> \o stack
        PROVE  /\ IsASeq(stack')
               /\ \A i \in 1 .. Len(stack') : ~IsGet(stack'[i]) /\ IsASeq(stack'[i].todo)
    <3>1. IsASeq(Filtered(subs[d]))
      BY FilteredFacts DEF Inv, ListsInv
    <3>2. PICK f : f = NotifyFrame(Filtered(subs[d]))
      OBVIOUS
    <3>3. f.todo = Filtered(subs[d]) /\ ~IsGet(f)
      BY <3>2 DEF NotifyFrame, Frame, IsGet
    <3>4. IsASeq(f.todo)
      BY <3>1, <3>3
    <3> QED
      BY <1>2, <2>2, <3>2, <3>3, <3>4, PushedFrames
  <2> QED
    BY <1>1, <2>1, <2>2
<1>6. ToNotify \subseteq ToNotify'
  <2>1. CASE stack' = stack
    BY <2>1, ToNotifyIsListed
  <2>2. ASSUME NEW d \in Deps, stack' = <<NotifyFrame(Filtered(subs[d]))>> \o stack PROVE ToNotify \subseteq ToNotify'
    <3>1. NotifyFrame(Filtered(subs[d])).kind = "notify"
      BY DEF NotifyFrame, Frame
    <3> QED
      BY <1>2, <2>2, <3>1, ListedPush, ToNotifyIsListed
  <2> QED
    BY <1>1, <2>1, <2>2
<1>7. ASSUME NEW x \in Watchers, IsSettled(x)'
      PROVE  Current(heap', value', deps', Unclean', x)
  <2>1. x \in active /\ x \notin ToNotify' /\ IsSettled(x)
    BY <1>1, <1>2, <1>6, <1>7 DEF IsSettled, Unclean
  <2>2. PICK seen, D, h2, U2 : seen = value[x] /\ D = ToSet(deps[x]) /\ h2 = heap' /\ U2 = Unclean'
    OBVIOUS
  <2>3. Knows(heap, value, deps, Unclean, x, seen, D) /\ NextSource(x, seen) = Done /\ DOMAIN value = Watchers
    BY <2>1, <2>2 DEF FreshInv, SettledInv, Current
  <2>4. IsASeq(seen) /\ DOMAIN seen = 1 .. Len(seen)
    BY <2>3 DEF Knows, IsASeq
  <2>5. \A d : d \in D <=> Contains(deps[x], d)
    BY <2>2, ToSetFacts DEF Inv, ListsInv
  <2>6. ASSUME NEW s \in Lazy, s \notin Unclean, ToSet(deps[s]) \subseteq D PROVE s \notin U2
    <3>1. s \in Watchers /\ s \in active
      BY DEF Inv, LifeInv, Watchers
    <3>2. \A d : Contains(deps[s], d) => Contains(deps[x], d)
      BY <2>5, <2>6, <3>1, ToSetFacts DEF Inv, ListsInv
    <3>3. s \notin ToNotify'
      <4>1. CASE stack' = stack
        BY <2>6, <4>1, ToNotifyIsListed DEF Unclean
      <4>2. ASSUME NEW d \in Deps, stack' = <<NotifyFrame(Filtered(subs[d]))>> \o stack PROVE s \notin ToNotify'
        <5>1. x \in ToNotify' <=> x \in ToNotify \/ Contains(deps[x], d)
          BY <1>3, <2>1, <4>2
        <5>2. s \in ToNotify' <=> s \in ToNotify \/ Contains(deps[s], d)
          BY <1>3, <3>1, <4>2
        <5> QED
          BY <2>1, <2>6, <3>2, <5>1, <5>2 DEF Unclean
      <4> QED
        BY <1>1, <4>1, <4>2
    <3> QED
      BY <1>1, <2>2, <2>6, <3>3 DEF Unclean
  <2>7. ASSUME NEW i \in 1 .. Len(seen), NEW s, s = SourceAt(x, seen, i), s \notin Lazy, DepsOf(heap, s) \subseteq D
        PROVE  ValueIn(h2, s) = ValueIn(heap, s) /\ DepsOf(h2, s) \subseteq DepsOf(heap, s)
    <3>1. CASE heap' = heap
      BY <2>2, <3>1
    <3>2. CASE heap' # heap
      <4>1. s \in HasBeenRead'
        BY <1>1, <2>2, <2>3, <2>4, <2>7, HasBeenReadFacts
      <4>2. ASSUME NEW d \in DepsOf(heap, s) \intersect Deps, stack' = <<NotifyFrame(Filtered(subs[d]))>> \o stack
            PROVE FALSE
        <5>1. Contains(deps[x], d)
          BY <2>5, <2>7
        <5> QED
          BY <1>3, <2>1, <4>2, <5>1
      <4> QED
        BY <2>2, <3>2, <4>1, <4>2 DEF Notified
    <3> QED
      BY <3>1, <3>2
  <2>8. Knows(h2, value, deps, U2, x, seen, D)
    <3>1. D \subseteq D
      OBVIOUS
    <3> QED
      BY <2>3, <2>6, <2>7, <3>1, KnowsStays
  <2> QED
    BY <1>1, <2>2, <2>3, <2>8 DEF Current
<1>8. SettledInv'
  BY <1>7 DEF SettledInv
<1>9. FramesInv(stack, heap, value, deps, dirty, ToNotify, newDeps)'
  BY <1>5, FramesOutside
<1> QED
  BY <1>1, <1>8, <1>9 DEF FreshInv

-----------------------------------------------------------------------------
(***************************************************************************)
(* Steps of getters.                                                       *)
(***************************************************************************)
\* What a source yields is one value.
LEMMA OneValue ==
  ASSUME NEW h, NEW val, NEW dp, NEW U, NEW s, NEW v, NEW D, KnowsAt(h, val, dp, U, s, v, D),
         NEW v2, NEW D2, KnowsAt(h, val, dp, U, s, v2, D2)
  PROVE  v = v2
BY DEF KnowsAt

\* A deeper evaluation of the same watcher has seen what the topmost reads next,
\* or is waiting for it.
LEMMA SeenDeeper ==
  ASSUME NEW st, NEW act, StackInv(st, act), st # <<>>, IsGet(Head(st)),
         NEW h, NEW val, NEW dp, NEW drt, NEW N, NEW nd, FramesInv(st, h, val, dp, drt, N, nd),
         NEW j \in 1 .. Len(Tail(st)), IsGet(Tail(st)[j]), Head(st).w = Tail(st)[j].w
  PROVE  LET f == Head(st)
             g == Tail(st)[j]
             s == NextSource(f.w, f.seen)
         IN  \/ s \in drt
             \/ /\ Len(f.seen) < Len(g.seen)
                /\ \E D : KnowsAt(h, val, dp, drt \union N, s, g.seen[Len(f.seen) + 1], D)
<1>1. /\ Len(st) \in Nat \ {0} /\ Len(Tail(st)) = Len(st) - 1 /\ Head(st) = st[1]
      /\ \A i \in 1 .. Len(st) - 1 : Tail(st)[i] = st[i + 1]
  BY TailFacts DEF StackInv
<1>2. PICK f, g : f = Head(st) /\ g = Tail(st)[j]
  OBVIOUS
<1>3. j + 1 \in 1 .. Len(st) /\ g = st[j + 1] /\ f = st[1] /\ 1 < j + 1 /\ 1 \in 1 .. Len(st) /\ j \in 1 .. Len(st) /\ j < j + 1
  BY <1>1, <1>2
<1>4. IsGet(f) /\ IsGet(g) /\ f.w = g.w
  BY <1>2
<1>5. Behind(f, g) /\ FrameKnows(h, val, dp, drt \union N, nd, f) /\ FrameKnows(h, val, dp, drt \union N, nd, g)
  BY <1>3, <1>4 DEF FramesInv
<1>6. /\ IsASeq(f.seen) /\ IsASeq(g.seen) /\ Len(f.seen) \in Nat /\ Len(g.seen) \in Nat
      /\ Len(f.seen) <= Len(g.seen) /\ \A n \in 1 .. Len(f.seen) : f.seen[n] = g.seen[n]
  BY <1>5 DEF FrameKnows, Knows, Behind, IsASeq
<1>7. PICK n : n = Len(f.seen)
  OBVIOUS
<1>8. SubSeq(g.seen, 1, n) = f.seen
  <2>1. SubSeq(f.seen, 1, n) = SubSeq(g.seen, 1, n)
    BY <1>6, <1>7, SameBeginning
  <2> QED
    BY <1>6, <1>7, <2>1, SubSeqFacts
<1>9. CASE n = Len(g.seen)
  <2>1. g.seen = f.seen
    BY <1>6, <1>8, <1>9, SubSeqFacts
  <2>2. IsGet(st[j]) /\ st[j].why = "read"
    BY <1>3, <1>4 DEF StackInv
  <2>3. Linked(st[j], g, N) /\ FrameKind(st[j], drt)
    <3>1. j \in 1 .. Len(st) - 1
      BY <1>1
    <3> QED
      BY <1>3, <1>4, <2>2, <3>1 DEF FramesInv
  <2> QED
    BY <1>2, <1>4, <2>1, <2>2, <2>3 DEF Linked, FrameKind
<1>10. CASE n # Len(g.seen)
  <2>1. n + 1 \in 1 .. Len(g.seen) /\ (n + 1) - 1 = n /\ n < Len(g.seen)
    BY <1>6, <1>7, <1>10
  <2>2. KnowsAt(h, val, dp, drt \union N, SourceAt(g.w, g.seen, n + 1), g.seen[n + 1], ToSet(nd[g.w]) \union ToSet(g.todo))
    BY <1>5, <2>1 DEF FrameKnows, Knows
  <2>3. SourceAt(g.w, g.seen, n + 1) = NextSource(f.w, f.seen)
    BY <1>4, <1>8, <2>1 DEF SourceAt
  <2> QED
    BY <1>2, <1>7, <2>1, <2>2, <2>3
<1> QED
  BY <1>9, <1>10

\* The topmost getter is handed what its source yields.
LEMMA ReturnedFrames ==
  ASSUME NEW st, NEW act, StackInv(st, act), st # <<>>, IsGet(Head(st)),
         NEW h, NEW val, NEW dp, NEW drt, NEW N, NEW nd, FramesInv(st, h, val, dp, drt, N, nd),
         Head(st).todo = <<>>, NextSource(Head(st).w, Head(st).seen) \notin drt,
         NEW v, NEW ds, IsASeq(ds),
         KnowsAt(h, val, dp, drt \union N, NextSource(Head(st).w, Head(st).seen), v, ToSet(nd[Head(st).w]) \union ToSet(ds))
  PROVE  FramesInv(Returned(st, v, ds), h, val, dp, drt, N, nd)
<1>1. PICK f, below, g, D : /\ f = Head(st) /\ below = Tail(st) /\ g = Getting(f, Append(f.seen, v), ds)
                            /\ D = ToSet(nd[f.w]) \union ToSet(ds)
  OBVIOUS
<1>2. g.w = f.w /\ g.why = f.why /\ g.seen = Append(f.seen, v) /\ g.todo = ds /\ g.kind = "get"
  BY <1>1 DEF Getting, Frame
<1>3. /\ FramesInv(below, h, val, dp, drt, N, nd)
      /\ FrameKnows(h, val, dp, drt \union N, nd, f) /\ FrameKind(f, drt)
      /\ below # <<>> /\ IsGet(Head(below)) => Linked(f, Head(below), N)
      /\ \A j \in 1 .. Len(below) : IsGet(below[j]) /\ f.w = below[j].w => Behind(f, below[j])
  BY <1>1, PopFrame DEF StackInv
<1>4. IsASeq(below)
  BY <1>1, TailFacts DEF StackInv
<1>5. Knows(h, val, dp, drt \union N, f.w, f.seen, D)
  <2>1. ToSet(<<>>) = {}
    BY DEF ToSet
  <2>2. ToSet(nd[f.w]) \union ToSet(f.todo) \subseteq D
    BY <1>1, <2>1
  <2>3. Knows(h, val, dp, drt \union N, f.w, f.seen, ToSet(nd[f.w]) \union ToSet(f.todo))
    BY <1>3 DEF FrameKnows
  <2> QED
    BY <2>2, <2>3, KnowsMore
<1>6. Knows(h, val, dp, drt \union N, g.w, g.seen, D)
  <2>1. KnowsAt(h, val, dp, drt \union N, NextSource(f.w, f.seen), v, D)
    BY <1>1
  <2>2. Knows(h, val, dp, drt \union N, f.w, Append(f.seen, v), D)
    BY <1>5, <2>1, KnowsAppend
  <2> QED
    BY <1>2, <2>2
<1>7. FrameKnows(h, val, dp, drt \union N, nd, g) /\ FrameKind(g, drt)
  BY <1>1, <1>2, <1>3, <1>6 DEF FrameKnows, FrameKind
<1>8. below # <<>> /\ IsGet(Head(below)) => Linked(g, Head(below), N)
  BY <1>2, <1>3 DEF Linked
<1>9. ASSUME NEW j \in 1 .. Len(below), IsGet(below[j]), g.w = below[j].w PROVE Behind(g, below[j])
  <2>1. PICK d : d = below[j]
    OBVIOUS
  <2>2. Behind(f, d)
    BY <1>2, <1>3, <1>9, <2>1
  <2>3. Len(f.seen) < Len(d.seen) /\ \E D2 : KnowsAt(h, val, dp, drt \union N, NextSource(f.w, f.seen), d.seen[Len(f.seen) + 1], D2)
    BY <1>1, <1>2, <1>9, <2>1, SeenDeeper
  <2>4. d.seen[Len(f.seen) + 1] = v
    BY <1>1, <2>3, OneValue
  <2>5. IsASeq(f.seen) /\ Len(f.seen) \in Nat
    BY <1>5 DEF Knows, IsASeq
  <2>6. /\ Len(g.seen) = Len(f.seen) + 1 /\ g.seen[Len(f.seen) + 1] = v
        /\ \A i \in 1 .. Len(f.seen) : g.seen[i] = f.seen[i]
    BY <1>2, <2>5, AppendFacts
  <2>7. Len(d.seen) \in Nat
    <3>1. FrameKnows(h, val, dp, drt \union N, nd, d)
      BY <1>3, <1>9, <2>1 DEF FramesInv
    <3> QED
      BY <3>1 DEF FrameKnows, Knows, IsASeq
  <2>8. Len(g.seen) <= Len(d.seen)
    BY <2>3, <2>5, <2>6, <2>7
  <2>9. ASSUME NEW n \in 1 .. Len(g.seen) PROVE g.seen[n] = d.seen[n]
    <3>1. CASE n = Len(f.seen) + 1
      BY <2>4, <2>6, <3>1
    <3>2. CASE n # Len(f.seen) + 1
      <4>1. n \in 1 .. Len(f.seen)
        BY <2>5, <2>6, <3>2
      <4> QED
        BY <2>2, <2>6, <4>1 DEF Behind
    <3> QED
      BY <3>1, <3>2
  <2> QED
    BY <2>1, <2>8, <2>9 DEF Behind
<1>10. FramesInv(<<g>> \o below, h, val, dp, drt, N, nd)
  BY <1>2, <1>3, <1>4, <1>7, <1>8, <1>9, PushFrame
<1> QED
  BY <1>1, <1>10 DEF Returned, IsGet

LEMMA ListedReturned ==
  ASSUME NEW st, IsASeq(st), NEW v, NEW ds PROVE Listed(Returned(st, v, ds)) = Listed(st)
<1>1. CASE st # <<>> /\ Head(st).kind = "get"
  <2>1. PICK f : f = Getting(Head(st), Append(Head(st).seen, v), ds)
    OBVIOUS
  <2>2. f.kind = "get" /\ Returned(st, v, ds) = <<f>> \o Tail(st)
    BY <1>1, <2>1 DEF Returned, Getting, Frame
  <2>3. IsASeq(Tail(st))
    BY <1>1, TailFacts
  <2>4. Listed(<<f>> \o Tail(st)) = Listed(Tail(st)) /\ Listed(st) = Listed(Tail(st))
    BY <1>1, <2>2, <2>3, ListedPush, ListedPop
  <2> QED
    BY <2>2, <2>4
<1>2. CASE ~(st # <<>> /\ Head(st).kind = "get")
  BY <1>2 DEF Returned
<1> QED
  BY <1>1, <1>2

\* The frame of the getter that runs, and what is known of it.
LEMMA RunningFrame ==
  ASSUME Inv, FreshInv, InGetter
  PROVE  /\ IsASeq(stack) /\ stack # <<>> /\ StackInv(stack, active)
         /\ FramesInv(stack, heap, value, deps, dirty, ToNotify, newDeps)
         /\ IsASeq(Callers) /\ FramesInv(Callers, heap, value, deps, dirty, ToNotify, newDeps) /\ IsASeq(Top.todo)
         /\ FrameKnows(heap, value, deps, Unclean, newDeps, Top) /\ FrameKind(Top, dirty)
         /\ Callers # <<>> /\ IsGet(Head(Callers)) => Linked(Top, Head(Callers), ToNotify)
         /\ \A j \in 1 .. Len(Callers) : IsGet(Callers[j]) /\ Top.w = Callers[j].w => Behind(Top, Callers[j])
<1>1. StackInv(stack, active) /\ stack # <<>> /\ IsASeq(stack) /\ IsGet(Head(stack))
  BY DEF Inv, StackInv, InGetter, Top, IsGet
<1>2. FramesInv(stack, heap, value, deps, dirty, ToNotify, newDeps)
  BY DEF FreshInv
<1>3. IsASeq(Tail(stack))
  BY <1>1, TailFacts
<1> QED
  BY <1>1, <1>2, <1>3, PopFrame DEF Top, Callers, Unclean

\* Nothing is written, and no evaluation ends.
LEMMA GetterStep ==
  ASSUME FreshInv, UNCHANGED <<heap, value, deps, dirty, active, queued>>,
         ToNotify' = ToNotify, \A w : Evaluates(stack, w) => Evaluates(stack', w),
         FramesInv(stack', heap, value, deps, dirty, ToNotify, newDeps')
  PROVE  FreshInv'
<1>1. Unclean' = Unclean /\ \A w \in Watchers : IsSettled(w)' => IsSettled(w)
  BY DEF IsSettled, Unclean
<1> QED
  BY <1>1, QuietStep DEF FreshInv

LEMMA ReadComputedFresh ==
  ASSUME ConstantsAssumption, Inv, FreshInv, ReadsSettled, NEW c \in Lazy, ReadComputed(c) PROVE FreshInv'
<1>1. /\ InGetter /\ Top.todo = <<>> /\ NextSource(Top.w, Top.seen) = c /\ c \notin ToNotify
      /\ stack' = IF c \in dirty THEN <<GetFrame(c, "read")>> \o stack ELSE Returned(stack, value[c], Reverse(deps[c]))
      /\ UNCHANGED <<heap, value, deps, newDeps, dirty, active, queued>>
  BY DEF ReadComputed, Reading, Source, Computed, ReadsSettled
<1>2. /\ IsASeq(stack) /\ stack # <<>> /\ StackInv(stack, active)
      /\ FramesInv(stack, heap, value, deps, dirty, ToNotify, newDeps)
  BY <1>1, RunningFrame
<1>3. IsGet(Top)
  BY <1>1 DEF InGetter, IsGet
<1>4. CASE c \in dirty
  <2>1. PICK g : g = GetFrame(c, "read")
    OBVIOUS
  <2>2. g.kind = "get" /\ g.w = c /\ g.why = "read" /\ g.seen = <<>> /\ g.todo = <<>>
    BY <2>1 DEF GetFrame, Frame
  <2>3. FrameKnows(heap, value, deps, dirty \union ToNotify, newDeps, g) /\ IsASeq(g.todo)
    BY <2>2, KnowsNothing, EmptyIsASeq DEF FrameKnows
  <2>4. FrameKind(g, dirty) /\ Linked(g, Head(stack), ToNotify) /\ \A j \in 1 .. Len(stack) : IsASeq(stack[j].seen) => Behind(g, stack[j])
    BY <1>1, <1>4, <2>2 DEF FrameKind, Linked, Behind, Top, IsASeq
  <2>5. \A j \in 1 .. Len(stack) : IsGet(stack[j]) => IsASeq(stack[j].seen)
    BY <1>2 DEF FramesInv, FrameKnows, Knows
  <2>6. FramesInv(<<g>> \o stack, heap, value, deps, dirty, ToNotify, newDeps)
    BY <1>2, <2>3, <2>4, <2>5, PushFrame
  <2>7. ToNotify' = ToNotify /\ \A w : Evaluates(stack, w) => Evaluates(stack', w)
    BY <1>1, <1>2, <1>4, <2>1, <2>2, ListedPush, EvaluatesPush, ToNotifyIsListed
  <2> QED
    BY <1>1, <1>4, <2>1, <2>6, <2>7, GetterStep
<1>5. CASE c \notin dirty
  <2>1. IsASeq(deps[c])
    BY DEF Inv, ListsInv, Watchers
  <2>2. IsASeq(Reverse(deps[c])) /\ ToSet(Reverse(deps[c])) = ToSet(deps[c])
    BY <2>1, ReverseFacts
  <2>3. PICK v, ds : v = value[c] /\ ds = Reverse(deps[c])
    OBVIOUS
  <2>4. KnowsAt(heap, value, deps, dirty \union ToNotify, c, v, ToSet(newDeps[Top.w]) \union ToSet(ds))
    BY <1>1, <1>5, <2>2, <2>3 DEF KnowsAt, ConstantsAssumption
  <2>5. FramesInv(Returned(stack, v, ds), heap, value, deps, dirty, ToNotify, newDeps)
    BY <1>1, <1>2, <1>3, <1>5, <2>2, <2>3, <2>4, ReturnedFrames DEF Top
  <2>6. ToNotify' = ToNotify /\ \A w : Evaluates(stack, w) => Evaluates(stack', w)
    BY <1>1, <1>2, <1>5, ListedReturned, ReturnedStack, ToNotifyIsListed
  <2> QED
    BY <1>1, <1>5, <2>3, <2>5, <2>6, GetterStep
<1> QED
  BY <1>4, <1>5

LEMMA DependFresh ==
  ASSUME ConstantsAssumption, Inv, FreshInv, Depend PROVE FreshInv'
<1>1. /\ InGetter /\ Top.todo # <<>> /\ addDep(Top.w, Head(Top.todo))
      /\ stack' = <<Getting(Top, Top.seen, Tail(Top.todo))>> \o Callers
      /\ UNCHANGED <<heap, value, deps, dirty, active, queued>>
  BY DEF Depend
<1>2. /\ IsASeq(stack) /\ stack # <<>> /\ IsASeq(Callers) /\ IsASeq(Top.todo)
      /\ FramesInv(Callers, heap, value, deps, dirty, ToNotify, newDeps)
      /\ FrameKnows(heap, value, deps, Unclean, newDeps, Top) /\ FrameKind(Top, dirty)
      /\ Callers # <<>> /\ IsGet(Head(Callers)) => Linked(Top, Head(Callers), ToNotify)
      /\ \A j \in 1 .. Len(Callers) : IsGet(Callers[j]) /\ Top.w = Callers[j].w => Behind(Top, Callers[j])
  BY <1>1, RunningFrame
<1>3. IsGet(Top) /\ Top.w \in Watchers
  BY <1>1, RunningGetter
<1>4. PICK w, d, rest, nd, g : /\ w = Top.w /\ d = Head(Top.todo) /\ rest = Tail(Top.todo) /\ nd = newDeps'
                               /\ g = Getting(Top, Top.seen, Tail(Top.todo))
  OBVIOUS
<1>5. g.w = w /\ g.why = Top.why /\ g.seen = Top.seen /\ g.todo = rest /\ g.kind = "get"
  BY <1>4 DEF Getting, Frame
<1>6. /\ \A x : ToSet(newDeps[x]) \subseteq ToSet(nd[x]) \/ x \notin Watchers
      /\ d \in ToSet(nd[w])
  <2>1. CASE Contains(newDeps[w], d)
    <3>1. newDeps' = newDeps
      BY <1>1, <1>4, <2>1 DEF addDep
    <3> QED
      BY <1>3, <1>4, <2>1, <3>1, ToSetFacts DEF Inv, ListsInv
  <2>2. CASE ~Contains(newDeps[w], d)
    <3>1. newDeps' = [newDeps EXCEPT ![w] = Append(newDeps[w], d)]
      BY <1>1, <1>4, <2>2 DEF addDep
    <3>2. nd[w] = Append(newDeps[w], d) /\ \A x \in Watchers : x # w => nd[x] = newDeps[x]
      BY <1>3, <1>4, <3>1 DEF Inv, ListsInv
    <3>3. IsASeq(newDeps[w])
      BY <1>3, <1>4 DEF Inv, ListsInv
    <3>4. IsASeq(nd[w]) /\ \A x : Contains(nd[w], x) <=> Contains(newDeps[w], x) \/ x = d
      BY <3>2, <3>3, AppendFacts
    <3>5. ToSet(newDeps[w]) \subseteq ToSet(nd[w]) /\ d \in ToSet(nd[w])
      BY <3>3, <3>4, ToSetFacts
    <3> QED
      BY <3>2, <3>5
  <2> QED
    BY <2>1, <2>2
<1>7. IsASeq(rest) /\ \A x \in ToSet(Top.todo) : x = d \/ x \in ToSet(rest)
  <2>1. /\ IsASeq(rest) /\ Len(Top.todo) \in Nat \ {0} /\ d = Top.todo[1]
        /\ \A i \in 1 .. Len(Top.todo) - 1 : rest[i] = Top.todo[i + 1]
        /\ DOMAIN Top.todo = 1 .. Len(Top.todo) /\ DOMAIN rest = 1 .. Len(Top.todo) - 1
    BY <1>1, <1>2, <1>4, TailFacts
  <2>2. \A i \in DOMAIN Top.todo : i = 1 \/ (i - 1 \in DOMAIN rest /\ Top.todo[i] = rest[i - 1])
    BY <2>1
  <2> QED
    BY <2>1, <2>2 DEF ToSet
<1>8. ASSUME NEW f, IsGet(f), f.w \in Watchers, FrameKnows(heap, value, deps, dirty \union ToNotify, newDeps, f)
      PROVE  FrameKnows(heap, value, deps, dirty \union ToNotify, nd, f)
  <2>1. ToSet(newDeps[f.w]) \union ToSet(f.todo) \subseteq ToSet(nd[f.w]) \union ToSet(f.todo)
    BY <1>6, <1>8
  <2> QED
    BY <1>8, <2>1, KnowsMore DEF FrameKnows
<1>9. \A i \in 1 .. Len(Callers) : IsGet(Callers[i]) => Callers[i].w \in Watchers
  BY <1>1, <1>3, RunningGetter DEF StackInv, Inv, LifeInv
<1>10. FramesInv(Callers, heap, value, deps, dirty, ToNotify, nd)
  <2>1. \A i \in 1 .. Len(Callers) : IsGet(Callers[i]) =>
          FrameKnows(heap, value, deps, dirty \union ToNotify, nd, Callers[i]) /\ FrameKind(Callers[i], dirty)
    BY <1>2, <1>8, <1>9 DEF FramesInv
  <2> QED
    BY <1>2, <2>1, SameFrames
<1>11. FrameKnows(heap, value, deps, dirty \union ToNotify, nd, g) /\ FrameKind(g, dirty)
  <2>1. ToSet(newDeps[w]) \union ToSet(Top.todo) \subseteq ToSet(nd[w]) \union ToSet(rest)
    BY <1>3, <1>4, <1>6, <1>7
  <2>2. Knows(heap, value, deps, Unclean, w, Top.seen, ToSet(newDeps[w]) \union ToSet(Top.todo))
    BY <1>2, <1>4 DEF FrameKnows
  <2>3. Knows(heap, value, deps, Unclean, w, Top.seen, ToSet(nd[w]) \union ToSet(rest))
    BY <2>1, <2>2, KnowsMore
  <2> QED
    BY <1>2, <1>4, <1>5, <2>3 DEF FrameKnows, FrameKind, Unclean
<1>12. /\ Callers # <<>> /\ IsGet(Head(Callers)) => Linked(g, Head(Callers), ToNotify)
       /\ \A j \in 1 .. Len(Callers) : IsGet(Callers[j]) /\ g.w = Callers[j].w => Behind(g, Callers[j])
  BY <1>2, <1>4, <1>5 DEF Linked, Behind
<1>13. FramesInv(<<g>> \o Callers, heap, value, deps, dirty, ToNotify, nd)
  BY <1>2, <1>5, <1>7, <1>10, <1>11, <1>12, PushFrame
<1>14. ToNotify' = ToNotify
  <2>1. Listed(<<g>> \o Callers) = Listed(Callers) /\ Listed(stack) = Listed(Callers)
    BY <1>2, <1>3, <1>5, ListedPush, ListedPop DEF Top, Callers, IsGet
  <2> QED
    BY <1>1, <1>4, <2>1, ToNotifyIsListed
<1>15. \A x : Evaluates(stack, x) => Evaluates(stack', x)
  BY <1>1, <1>2, <1>3, <1>4, <1>5, RunningGetter, EvaluatesPush DEF IsGet
<1> QED
  BY <1>1, <1>4, <1>13, <1>14, <1>15, GetterStep

\* A read gives what the data hold, and leaves what has been read as it was.
LEMMA ReadDataFresh ==
  ASSUME ConstantsAssumption, Inv, FreshInv, Covered, ReadData, Notified PROVE FreshInv'
<1>1. /\ InGetter /\ Top.todo = <<>> /\ Source \notin Lazy /\ Source # Done /\ Source = NextSource(Top.w, Top.seen)
      /\ stack' = Returned(stack, ValueIn(heap, Source), TouchedBy(heap, Source))
      /\ UNCHANGED <<value, deps, newDeps, dirty, active, queued>>
  BY DEF ReadData, Reading, Source
<1>2. /\ TouchedBy(heap, Source) \in Seq(Deps)
      /\ DepsOf(heap, Source) \subseteq ToSet(newDeps[Top.w]) \union ToSet(TouchedBy(heap, Source))
  BY DEF Covered, ReadData
<1>3. /\ IsASeq(stack) /\ stack # <<>> /\ StackInv(stack, active)
      /\ FramesInv(stack, heap, value, deps, dirty, ToNotify, newDeps)
      /\ IsASeq(Callers) /\ FrameKnows(heap, value, deps, Unclean, newDeps, Top)
  BY <1>1, RunningFrame
<1>4. IsGet(Top) /\ Top.kind = "get"
  BY <1>1 DEF InGetter, IsGet
<1>5. PICK src, v, ds, h2, seen : /\ src = Source /\ v = ValueIn(heap, src) /\ ds = TouchedBy(heap, src) /\ h2 = heap'
                                  /\ seen = Append(Top.seen, v)
  OBVIOUS
<1>6. PICK g : g = Getting(Top, seen, ds)
  OBVIOUS
<1>7. g.kind = "get" /\ g.w = Top.w /\ g.seen = seen
  BY <1>6 DEF Getting, Frame
<1>8. stack' = <<g>> \o Callers
  BY <1>1, <1>3, <1>4, <1>5, <1>6 DEF Returned, Top, Callers
<1>9. /\ Len(stack') = Len(stack) /\ Len(stack) \in Nat \ {0} /\ DOMAIN stack' = 1 .. Len(stack)
      /\ stack'[1] = g /\ stack[1] = Top /\ \A i \in 1 .. Len(stack) : i # 1 => stack'[i] = stack[i]
  <2>1. /\ Len(stack) \in Nat \ {0} /\ Len(Callers) = Len(stack) - 1 /\ Head(stack) = stack[1]
        /\ \A i \in 1 .. Len(stack) - 1 : Callers[i] = stack[i + 1]
    BY <1>3, TailFacts DEF Callers
  <2>2. /\ Len(stack') = Len(Callers) + 1 /\ stack'[1] = g /\ DOMAIN stack' = 1 .. Len(Callers) + 1
        /\ \A i \in 1 .. Len(Callers) : stack'[i + 1] = Callers[i]
    BY <1>3, <1>8, PushFacts
  <2>3. ASSUME NEW i \in 1 .. Len(stack), i # 1 PROVE stack'[i] = stack[i]
    <3>1. i - 1 \in 1 .. Len(stack) - 1 /\ (i - 1) + 1 = i
      BY <2>1, <2>3
    <3>2. stack'[(i - 1) + 1] = Callers[i - 1] /\ Callers[i - 1] = stack[(i - 1) + 1]
      BY <2>1, <2>2, <3>1
    <3> QED
      BY <3>1, <3>2
  <2> QED
    BY <2>1, <2>2, <2>3 DEF Top
<1>10. ASSUME NEW s \in HasBeenRead'
       PROVE  ValueIn(h2, s) = ValueIn(heap, s) /\ DepsOf(h2, s) \subseteq DepsOf(heap, s)
  <2>1. ASSUME NEW ws PROVE stack' # <<NotifyFrame(ws)>> \o stack
    <3>1. Head(<<NotifyFrame(ws)>> \o stack) = NotifyFrame(ws) /\ NotifyFrame(ws).kind = "notify"
      BY <1>3, PushFacts DEF NotifyFrame, Frame
    <3>2. Head(stack') = g
      BY <1>3, <1>8, PushFacts
    <3> QED
      BY <1>7, <3>1, <3>2
  <2> QED
    BY <1>5, <1>10, <2>1 DEF Notified
<1>11. ASSUME NEW i \in 1 .. Len(stack), IsGet(stack'[i]), NEW n \in DOMAIN (stack'[i].seen),
              SourceAt(stack'[i].w, stack'[i].seen, n) \notin Lazy
       PROVE  SourceAt(stack'[i].w, stack'[i].seen, n) \in HasBeenRead'
  <2>1. SourceAt(stack'[i].w, stack'[i].seen, n) \in SourcesIn(stack'[i].w, stack'[i].seen)
    BY <1>11 DEF SourcesIn, SourceAt
  <2>2. i \in DOMAIN stack' /\ stack'[i].kind = "get"
    BY <1>9, <1>11 DEF IsGet
  <2> QED
    BY <2>1, <2>2 DEF HasBeenRead
<1>12. Knows(heap, value, deps, Unclean, Top.w, Top.seen, ToSet(newDeps[Top.w]) \union ToSet(Top.todo))
       /\ IsASeq(Top.seen) /\ Len(Top.seen) \in Nat
  <2>1. Knows(heap, value, deps, Unclean, Top.w, Top.seen, ToSet(newDeps[Top.w]) \union ToSet(Top.todo))
    BY <1>3 DEF FrameKnows
  <2> QED
    BY <2>1, KnowsSequence
<1>13. /\ IsASeq(seen) /\ Len(seen) = Len(Top.seen) + 1 /\ DOMAIN seen = 1 .. Len(seen)
       /\ \A i \in 1 .. Len(Top.seen) : i \in DOMAIN seen /\ SourceAt(Top.w, seen, i) = SourceAt(Top.w, Top.seen, i)
       /\ Len(seen) \in DOMAIN seen /\ SourceAt(Top.w, seen, Len(seen)) = src
  <2>1. IsASeq(seen) /\ Len(seen) = Len(Top.seen) + 1
    BY <1>5, <1>12, AppendFacts
  <2>2. DOMAIN seen = 1 .. Len(seen)
    BY <2>1 DEF IsASeq
  <2>3. /\ SubSeq(Top.seen, 1, Len(Top.seen)) = Top.seen
        /\ \A i \in 1 .. Len(Top.seen) + 1 : SubSeq(seen, 1, i - 1) = SubSeq(Top.seen, 1, i - 1)
    BY <1>5, <1>12, SubSeqFacts
  <2>4. ASSUME NEW i \in 1 .. Len(Top.seen)
        PROVE  i \in 1 .. Len(Top.seen) + 1 /\ SourceAt(Top.w, seen, i) = SourceAt(Top.w, Top.seen, i)
    <3>1. i \in 1 .. Len(Top.seen) + 1
      BY <1>12
    <3>2. SubSeq(seen, 1, i - 1) = SubSeq(Top.seen, 1, i - 1)
      BY <2>3, <3>1
    <3> QED
      BY <3>1, <3>2 DEF SourceAt
  <2>5. Len(seen) \in 1 .. Len(Top.seen) + 1 /\ Len(seen) - 1 = Len(Top.seen)
    BY <1>12, <2>1
  <2>6. SourceAt(Top.w, seen, Len(seen)) = src
    BY <1>1, <1>5, <2>3, <2>5 DEF SourceAt
  <2> QED
    BY <2>1, <2>2, <2>4, <2>5, <2>6
<1>14. src \in HasBeenRead'
  <2>1. 1 \in 1 .. Len(stack) /\ stack'[1] = g /\ IsGet(g)
    BY <1>7, <1>9 DEF IsGet
  <2>2. Len(seen) \in DOMAIN (g.seen) /\ SourceAt(g.w, g.seen, Len(seen)) = src /\ src \notin Lazy
    BY <1>1, <1>5, <1>7, <1>13
  <2> QED
    BY <1>11, <2>1, <2>2
<1>15. ASSUME NEW i \in 1 .. Len(stack), IsGet(stack[i])
       PROVE  FrameKnows(h2, value, deps, dirty \union ToNotify, newDeps, stack[i]) /\ FrameKind(stack[i], dirty)
  <2>1. PICK f, D, U : f = stack[i] /\ D = ToSet(newDeps[f.w]) \union ToSet(f.todo) /\ U = dirty \union ToNotify
    OBVIOUS
  <2>2. FrameKnows(heap, value, deps, U, newDeps, f) /\ FrameKind(f, dirty)
    BY <1>3, <1>15, <2>1 DEF FramesInv
  <2>3. Knows(heap, value, deps, U, f.w, f.seen, D) /\ DOMAIN f.seen = 1 .. Len(f.seen)
    <3>1. Knows(heap, value, deps, U, f.w, f.seen, D)
      BY <2>1, <2>2 DEF FrameKnows
    <3> QED
      BY <3>1, KnowsSequence
  <2>4. ASSUME NEW n \in 1 .. Len(f.seen), NEW s, s = SourceAt(f.w, f.seen, n), s \notin Lazy
        PROVE  ValueIn(h2, s) = ValueIn(heap, s) /\ DepsOf(h2, s) \subseteq DepsOf(heap, s)
    <3>1. CASE i = 1
      <4>1. f = Top
        BY <1>9, <2>1, <3>1
      <4>2. n \in DOMAIN seen /\ SourceAt(Top.w, seen, n) = s
        BY <1>13, <2>4, <4>1
      <4>3. IsGet(stack'[1]) /\ stack'[1].w = Top.w /\ stack'[1].seen = seen /\ 1 \in 1 .. Len(stack)
        BY <1>7, <1>9 DEF IsGet
      <4>4. s \in HasBeenRead'
        BY <1>11, <2>4, <4>2, <4>3
      <4> QED
        BY <1>10, <4>4
    <3>2. CASE i # 1
      <4>1. stack'[i] = f
        BY <1>9, <2>1, <3>2
      <4>2. s \in HasBeenRead'
        BY <1>11, <1>15, <2>1, <2>3, <2>4, <4>1
      <4> QED
        BY <1>10, <4>2
    <3> QED
      BY <3>1, <3>2
  <2>5. Knows(h2, value, deps, U, f.w, f.seen, D)
    <3>1. D \subseteq D
      OBVIOUS
    <3> QED
      BY <2>3, <2>4, <3>1, KnowsStays
  <2> QED
    BY <2>1, <2>2, <2>5 DEF FrameKnows
<1>16. FramesInv(stack, h2, value, deps, dirty, ToNotify, newDeps)
  BY <1>3, <1>15, SameFrames
<1>17. KnowsAt(h2, value, deps, dirty \union ToNotify, src, v, ToSet(newDeps[Top.w]) \union ToSet(ds))
  BY <1>1, <1>2, <1>5, <1>10, <1>14 DEF KnowsAt
<1>18. src \notin dirty /\ IsASeq(ds)
  BY <1>1, <1>2, <1>5, SeqIsASeq DEF FreshInv
<1>19. FramesInv(Returned(stack, v, ds), h2, value, deps, dirty, ToNotify, newDeps)
  BY <1>1, <1>3, <1>4, <1>5, <1>16, <1>17, <1>18, ReturnedFrames DEF Top
<1>20. ToNotify' = ToNotify /\ \A x : Evaluates(stack, x) => Evaluates(stack', x)
  BY <1>1, <1>3, ListedReturned, ReturnedStack, ToNotifyIsListed
<1>21. ASSUME NEW x \in Watchers, IsSettled(x)' PROVE Current(heap', value', deps', Unclean', x)
  <2>1. IsSettled(x)
    BY <1>1, <1>20, <1>21 DEF IsSettled, Unclean
  <2>2. PICK old, D, U : old = value[x] /\ D = ToSet(deps[x]) /\ U = Unclean
    OBVIOUS
  <2>3. Knows(heap, value, deps, U, x, old, D) /\ NextSource(x, old) = Done /\ DOMAIN value = Watchers
    BY <2>1, <2>2 DEF FreshInv, SettledInv, Current
  <2>4. DOMAIN old = 1 .. Len(old)
    BY <2>3 DEF Knows, IsASeq
  <2>5. ASSUME NEW n \in 1 .. Len(old), NEW s, s = SourceAt(x, old, n), s \notin Lazy
        PROVE  ValueIn(h2, s) = ValueIn(heap, s) /\ DepsOf(h2, s) \subseteq DepsOf(heap, s)
    <3>1. s \in HasBeenRead'
      BY <1>1, <2>2, <2>3, <2>4, <2>5, HasBeenReadFacts
    <3> QED
      BY <1>10, <3>1
  <2>6. Knows(h2, value, deps, U, x, old, D)
    <3>1. D \subseteq D
      OBVIOUS
    <3> QED
      BY <2>3, <2>5, <3>1, KnowsStays
  <2> QED
    BY <1>1, <1>5, <1>20, <2>2, <2>3, <2>6 DEF Current, Unclean
<1>22. SettledInv'
  BY <1>21 DEF SettledInv
<1> QED
  BY <1>1, <1>5, <1>19, <1>20, <1>22 DEF FreshInv

\* An evaluation that ends: no other of the same watcher is under way, its value is
\* what it has seen, and whatever else is known stays known.
LEMMA FinishFresh ==
  ASSUME ConstantsAssumption, Inv, FreshInv, NEW why, Finish(why), dirty' = dirty \ {Top.w}, ToNotify' = ToNotify
  PROVE  /\ FramesInv(Callers, heap, value', deps', dirty', ToNotify, newDeps')
         /\ \A x \in Watchers : x = Top.w \/ IsSettled(x) => Current(heap', value', deps', Unclean', x)
<1>1. /\ InGetter /\ Top.todo = <<>> /\ NextSource(Top.w, Top.seen) = Done
      /\ deps' = [deps EXCEPT ![Top.w] = newDeps[Top.w]]
      /\ newDeps' = [newDeps EXCEPT ![Top.w] = <<>>]
      /\ value' = [value EXCEPT ![Top.w] = Top.seen]
      /\ UNCHANGED <<heap, active, queued>>
  BY DEF Finish, Reading, Source
<1>2. /\ IsASeq(stack) /\ stack # <<>> /\ StackInv(stack, active) /\ IsASeq(Callers)
      /\ FramesInv(stack, heap, value, deps, dirty, ToNotify, newDeps)
      /\ FramesInv(Callers, heap, value, deps, dirty, ToNotify, newDeps)
      /\ FrameKnows(heap, value, deps, Unclean, newDeps, Top) /\ FrameKind(Top, dirty)
  BY <1>1, RunningFrame
<1>3. IsGet(Top) /\ Top.w \in Watchers /\ Top.w \in active
  BY <1>1, RunningGetter
<1>4. PICK w, seen, val2, dp2, nd2, drt2, U, U2 :
        /\ w = Top.w /\ seen = Top.seen /\ val2 = value' /\ dp2 = deps' /\ nd2 = newDeps' /\ drt2 = dirty'
        /\ U = dirty \union ToNotify /\ U2 = dirty' \union ToNotify
  OBVIOUS
<1>5. /\ val2[w] = seen /\ dp2[w] = newDeps[w]
      /\ \A x \in Watchers : x # w => val2[x] = value[x] /\ dp2[x] = deps[x] /\ nd2[x] = newDeps[x]
  BY <1>1, <1>3, <1>4 DEF Inv, ListsInv, FreshInv
<1>6. U2 \subseteq U /\ (w \in U \/ w \notin Lazy) /\ drt2 = dirty \ {w} /\ Lazy \subseteq Watchers
  BY <1>2, <1>4 DEF FrameKind, Watchers
<1>7. ASSUME NEW j \in 1 .. Len(Callers), IsGet(Callers[j]) PROVE Callers[j].w # w
  <2>1. SUFFICES ASSUME Callers[j].w = w PROVE FALSE
    OBVIOUS
  <2>2. Done \notin dirty
    BY DEF ConstantsAssumption, FreshInv
  <2>3. /\ IsGet(Head(stack)) /\ IsGet(Tail(stack)[j]) /\ Head(stack).w = Tail(stack)[j].w
        /\ NextSource(Head(stack).w, Head(stack).seen) = Done /\ j \in 1 .. Len(Tail(stack))
    BY <1>1, <1>3, <1>4, <1>7, <2>1 DEF Top, Callers
  <2>4. \E v, D : KnowsAt(heap, value, deps, dirty \union ToNotify, Done, v, D)
    BY <1>2, <2>2, <2>3, SeenDeeper
  <2> QED
    BY <2>4 DEF KnowsAt
<1>8. ASSUME NEW x, NEW s0, NEW D, NEW D2, D \subseteq D2, Knows(heap, value, deps, U, x, s0, D)
      PROVE  Knows(heap, val2, dp2, U2, x, s0, D2)
  <2>1. ASSUME NEW s \in Lazy, s \notin U PROVE s \notin U2 /\ val2[s] = value[s] /\ dp2[s] = deps[s]
    BY <1>5, <1>6, <2>1
  <2> QED
    BY <1>8, <2>1, KnowsStays
<1>9. ASSUME NEW x \in Watchers, x # w, IsSettled(x) PROVE Current(heap, val2, dp2, U2, x)
  <2>1. PICK s0, D : s0 = value[x] /\ D = ToSet(deps[x])
    OBVIOUS
  <2>2. Knows(heap, value, deps, U, x, s0, D) /\ NextSource(x, s0) = Done
    BY <1>4, <1>9, <2>1 DEF FreshInv, SettledInv, Current, Unclean
  <2>3. D \subseteq D
    OBVIOUS
  <2>4. Knows(heap, val2, dp2, U2, x, s0, D)
    BY <1>8, <2>2, <2>3
  <2> QED
    BY <1>5, <1>9, <2>1, <2>2, <2>4 DEF Current
<1>10. Current(heap, val2, dp2, U2, w)
  <2>1. PICK D, D0 : D = ToSet(newDeps[w]) /\ D0 = ToSet(newDeps[w]) \union ToSet(Top.todo)
    OBVIOUS
  <2>2. D0 \subseteq D
    <3>1. ToSet(<<>>) = {}
      BY DEF ToSet
    <3> QED
      BY <1>1, <2>1, <3>1
  <2>3. Knows(heap, value, deps, U, w, seen, D0)
    BY <1>2, <1>4, <2>1 DEF FrameKnows, Unclean
  <2>4. Knows(heap, val2, dp2, U2, w, seen, D)
    BY <1>8, <2>2, <2>3
  <2> QED
    BY <1>1, <1>4, <1>5, <2>1, <2>4 DEF Current
<1>11. ASSUME NEW j \in 1 .. Len(Callers), IsGet(Callers[j])
       PROVE  FrameKnows(heap, val2, dp2, drt2 \union ToNotify, nd2, Callers[j]) /\ FrameKind(Callers[j], drt2)
  <2>1. PICK g, D : g = Callers[j] /\ D = ToSet(newDeps[g.w]) \union ToSet(g.todo)
    OBVIOUS
  <2>2. g.w # w /\ g.w \in Watchers
    BY <1>1, <1>7, <1>11, <2>1, RunningGetter DEF StackInv, Inv, LifeInv
  <2>3. FrameKnows(heap, value, deps, U, newDeps, g) /\ FrameKind(g, dirty)
    BY <1>2, <1>4, <1>11, <2>1 DEF FramesInv
  <2>4. Knows(heap, value, deps, U, g.w, g.seen, D)
    BY <2>1, <2>3 DEF FrameKnows
  <2>5. D \subseteq D
    OBVIOUS
  <2>6. Knows(heap, val2, dp2, U2, g.w, g.seen, D)
    BY <1>8, <2>4, <2>5
  <2>7. FrameKind(g, drt2)
    BY <1>6, <2>2, <2>3 DEF FrameKind
  <2> QED
    BY <1>4, <1>5, <2>1, <2>2, <2>6, <2>7 DEF FrameKnows
<1>12. FramesInv(Callers, heap, val2, dp2, drt2, ToNotify, nd2)
  BY <1>2, <1>11, SameFrames
<1> QED
  BY <1>1, <1>4, <1>9, <1>10, <1>12 DEF Unclean

\* The notifications in progress are the same below the frame of a getter.
LEMMA BelowGetter ==
  ASSUME Inv, FreshInv, InGetter PROVE ToNotify = Listed(Callers)
<1>1. IsASeq(stack) /\ stack # <<>> /\ Head(stack).kind # "notify"
  BY DEF Inv, StackInv, InGetter, Top
<1> QED
  BY <1>1, ListedPop, ToNotifyIsListed DEF Callers

LEMMA EndEvaluateFresh ==
  ASSUME ConstantsAssumption, Inv, FreshInv, EndEvaluate PROVE FreshInv'
<1>1. /\ Finish("read") /\ InGetter /\ Top.why = "read"
      /\ dirty' = dirty \ {Top.w}
      /\ stack' = Returned(Callers, Top.seen, Reverse(newDeps[Top.w]))
      /\ deps' = [deps EXCEPT ![Top.w] = newDeps[Top.w]]
      /\ value' = [value EXCEPT ![Top.w] = Top.seen]
      /\ UNCHANGED <<heap, active, queued>>
  BY DEF EndEvaluate, Finish, Reading
<1>2. /\ IsASeq(Callers) /\ FrameKind(Top, dirty) /\ IsGet(Top) /\ Top.w \in Watchers
      /\ Callers # <<>> /\ IsGet(Head(Callers)) => Linked(Top, Head(Callers), ToNotify)
      /\ StackInv(Callers, active)
      /\ \A x : Evaluates(stack, x) <=> Evaluates(Callers, x) \/ Top.w = x
  BY <1>1, RunningFrame, RunningGetter
<1>3. Top.w \in dirty /\ Top.w \in Lazy
  BY <1>1, <1>2 DEF FrameKind, FreshInv
<1>4. ToNotify' = ToNotify
  BY <1>1, <1>2, BelowGetter, ListedReturned, ToNotifyIsListed
<1>5. /\ FramesInv(Callers, heap, value', deps', dirty', ToNotify, newDeps')
      /\ \A x \in Watchers : x = Top.w \/ IsSettled(x) => Current(heap', value', deps', Unclean', x)
  BY <1>1, <1>4, FinishFresh
<1>6. PICK w, v, ds, val2, dp2, nd2, drt2 :
        /\ w = Top.w /\ v = Top.seen /\ ds = Reverse(newDeps[Top.w])
        /\ val2 = value' /\ dp2 = deps' /\ nd2 = newDeps' /\ drt2 = dirty'
  OBVIOUS
<1>7. val2[w] = v /\ dp2[w] = newDeps[w] /\ IsASeq(newDeps[w])
  BY <1>1, <1>2, <1>6 DEF Inv, ListsInv, FreshInv
<1>8. IsASeq(ds) /\ ToSet(ds) = ToSet(dp2[w])
  BY <1>6, <1>7, ReverseFacts
<1>9. FramesInv(Returned(Callers, v, ds), heap, val2, dp2, drt2, ToNotify, nd2)
  <2>1. CASE Callers # <<>> /\ IsGet(Head(Callers))
    <3>1. Head(Callers).todo = <<>> /\ NextSource(Head(Callers).w, Head(Callers).seen) = w /\ w \notin ToNotify /\ w \notin drt2
      BY <1>1, <1>2, <1>6, <2>1 DEF Linked
    <3>2. w # Done /\ w \in Lazy
      BY <1>3, <1>6 DEF ConstantsAssumption
    <3>3. KnowsAt(heap, val2, dp2, drt2 \union ToNotify, w, v, ToSet(nd2[Head(Callers).w]) \union ToSet(ds))
      BY <1>7, <1>8, <3>1, <3>2 DEF KnowsAt
    <3> QED
      BY <1>2, <1>5, <1>6, <1>8, <2>1, <3>1, <3>3, ReturnedFrames
  <2>2. CASE ~(Callers # <<>> /\ IsGet(Head(Callers)))
    BY <1>5, <1>6, <2>2 DEF Returned, IsGet
  <2> QED
    BY <2>1, <2>2
<1>10. FramesInv(stack, heap, value, deps, dirty, ToNotify, newDeps)'
  BY <1>1, <1>4, <1>6, <1>9
<1>11. ASSUME NEW x \in Watchers, IsSettled(x)' PROVE x = Top.w \/ IsSettled(x)
  <2>1. Evaluates(Callers, x) => Evaluates(stack', x)
    BY <1>1, <1>2, ReturnedStack
  <2> QED
    BY <1>1, <1>2, <1>4, <1>11, <2>1 DEF IsSettled, Unclean
<1>12. SettledInv'
  BY <1>5, <1>11 DEF SettledInv
<1>13. DOMAIN value' = Watchers /\ dirty' \subseteq Lazy /\ queued' \subseteq Async
  BY <1>1 DEF FreshInv
<1> QED
  BY <1>10, <1>12, <1>13 DEF FreshInv

\* The getter of a watcher that is no computed property returns to code that is no getter.
LEMMA EndOfRunFresh ==
  ASSUME ConstantsAssumption, Inv, FreshInv, EndConstruct \/ EndRun PROVE FreshInv'
<1>1. PICK why \in {"new", "run"} : Finish(why)
  BY DEF EndConstruct, EndRun
<1>2. /\ InGetter /\ Top.why # "read" /\ dirty' = dirty
      /\ value' = [value EXCEPT ![Top.w] = Top.seen]
      /\ stack' = Callers \/ stack' = <<CallbackFrame(Top.w)>> \o Callers
      /\ UNCHANGED <<heap, active, queued>>
  BY <1>1 DEF EndConstruct, EndRun, Finish, Reading
<1>3. /\ IsASeq(Callers) /\ FrameKind(Top, dirty) /\ FramesInv(Callers, heap, value, deps, dirty, ToNotify, newDeps)
      /\ \A x : Evaluates(stack, x) <=> Evaluates(Callers, x) \/ Top.w = x
      /\ \A i \in 1 .. Len(Callers) : ~IsGet(Callers[i])
  BY <1>2, RunningFrame, RunningGetter
<1>4. \A i \in 1 .. Len(Callers) : ~IsGet(Callers[i]) /\ IsASeq(Callers[i].todo)
  BY <1>3 DEF FramesInv
<1>5. PICK f : f = CallbackFrame(Top.w)
  OBVIOUS
<1>6. f.kind = "callback" /\ f.todo = <<>> /\ ~IsGet(f) /\ IsASeq(f.todo)
  BY <1>5, EmptyIsASeq DEF CallbackFrame, Frame, IsGet
<1>7. /\ IsASeq(stack') /\ Listed(stack') = Listed(Callers)
      /\ \A i \in 1 .. Len(stack') : ~IsGet(stack'[i]) /\ IsASeq(stack'[i].todo)
  <2>1. CASE stack' = Callers
    BY <1>3, <1>4, <2>1
  <2>2. CASE stack' = <<f>> \o Callers
    BY <1>3, <1>4, <1>6, <2>2, PushedFrames, ListedPush
  <2> QED
    BY <1>2, <1>5, <2>1, <2>2
<1>8. ToNotify' = ToNotify
  BY <1>2, <1>7, BelowGetter, ToNotifyIsListed
<1>9. dirty' = dirty \ {Top.w}
  BY <1>2, <1>3 DEF FrameKind, FreshInv
<1>10. \A x \in Watchers : x = Top.w \/ IsSettled(x) => Current(heap', value', deps', Unclean', x)
  BY <1>1, <1>8, <1>9, FinishFresh
<1>11. ASSUME NEW x \in Watchers, IsSettled(x)' PROVE x = Top.w \/ IsSettled(x)
  BY <1>2, <1>3, <1>8, <1>11 DEF IsSettled, Unclean, Evaluates
<1>12. SettledInv'
  BY <1>10, <1>11 DEF SettledInv
<1>13. FramesInv(stack, heap, value, deps, dirty, ToNotify, newDeps)'
  BY <1>7, FramesOutside
<1>14. DOMAIN value' = Watchers /\ dirty' \subseteq Lazy /\ queued' \subseteq Async
  BY <1>2 DEF FreshInv
<1> QED
  BY <1>12, <1>13, <1>14 DEF FreshInv

LEMMA InitFresh == ASSUME ConstantsAssumption, Init PROVE FreshInv
<1>1. /\ value = [w \in Watchers |-> <<>>] /\ dirty = Lazy /\ active = Lazy /\ queued = {} /\ stack = <<>>
  BY DEF Init
<1>2. SettledInv
  BY <1>1 DEF SettledInv, IsSettled, Unclean
<1>3. FramesInv(stack, heap, value, deps, dirty, ToNotify, newDeps)
  BY <1>1, NoFrames
<1> QED
  BY <1>1, <1>2, <1>3 DEF FreshInv

LEMMA NextFresh ==
  ASSUME ConstantsAssumption, Inv, FreshInv, ReadsSettled, [Next]_vars, [Notified /\ Covered]_vars
  PROVE  FreshInv'
<1>1. CASE UNCHANGED vars
  BY <1>1 DEF vars, FreshInv, SettledInv, IsSettled, Unclean, ToNotify
<1>2. Notified
  BY DEF Notified, vars
<1>3. CASE Covered /\ (Depend \/ ReadData)
  BY <1>2, <1>3, DependFresh, ReadDataFresh
<1>4. CASE EndEvaluate \/ EndConstruct \/ EndRun
  BY <1>4, EndEvaluateFresh, EndOfRunFresh
<1>5. CASE EndCallback \/ NotifyNext \/ EndNotify \/ CleanupDeps
  BY <1>5, QuietEnds, NotifyNextFresh, QuietOperations
<1>6. ASSUME NEW w \in Watchers, RunQueued(w) \/ Create(w) \/ Teardown(w) PROVE FreshInv'
  BY <1>6, RunQueuedFresh, CreateFresh, QuietOperations
<1>7. ASSUME NEW op \in Mutations, Write(op) PROVE FreshInv'
  BY <1>2, <1>7, WriteFresh
<1>8. ASSUME NEW c \in Lazy, ReadComputed(c) \/ Use(c) PROVE FreshInv'
  BY <1>8, ReadComputedFresh, UseFresh
<1> QED
  BY <1>1, <1>3, <1>4, <1>5, <1>6, <1>7, <1>8 DEF Next

-----------------------------------------------------------------------------
(***************************************************************************)
(* What runs while a notification is in progress.                          *)
(***************************************************************************)
Notifying(st) == \E i \in 1 .. Len(st) : st[i].kind = "notify"

\* Only watchers with sync: true run inside a notification.
MidwayInv(st) == Notifying(st) => \A i \in 1 .. Len(st) : IsGet(st[i]) => st[i].w \in Sync

LEMMA MidwayPush ==
  ASSUME NEW st, IsASeq(st), MidwayInv(st), NEW f,
         IsGet(f) /\ Notifying(st) => f.w \in Sync,
         f.kind = "notify" => \A i \in 1 .. Len(st) : ~IsGet(st[i])
  PROVE  MidwayInv(<<f>> \o st)
<1> DEFINE new == <<f>> \o st
<1>1. /\ Len(new) = Len(st) + 1 /\ Len(st) \in Nat /\ new[1] = f
      /\ \A i \in 1 .. Len(st) : new[i + 1] = st[i]
  BY PushFacts
<1>2. \A i \in 1 .. Len(new) : i = 1 \/ (i - 1 \in 1 .. Len(st) /\ new[i] = st[i - 1])
  BY <1>1
<1> HIDE DEF new
<1>3. Notifying(new) => f.kind = "notify" \/ Notifying(st)
  BY <1>1, <1>2 DEF Notifying
<1>4. MidwayInv(new)
  BY <1>1, <1>2, <1>3 DEF MidwayInv, IsGet
<1> QED
  BY <1>4 DEF new

LEMMA MidwayPop ==
  ASSUME NEW st, IsASeq(st), st # <<>>, MidwayInv(st)
  PROVE  MidwayInv(Tail(st)) /\ (Notifying(Tail(st)) /\ IsGet(Head(st)) => Head(st).w \in Sync)
<1> DEFINE rest == Tail(st)
<1>1. /\ Len(st) \in Nat \ {0} /\ Len(rest) = Len(st) - 1 /\ Head(st) = st[1] /\ 1 \in 1 .. Len(st)
      /\ \A i \in 1 .. Len(rest) : rest[i] = st[i + 1] /\ i + 1 \in 1 .. Len(st)
  BY TailFacts
<1> HIDE DEF rest
<1>2. Notifying(rest) => Notifying(st)
  BY <1>1 DEF Notifying
<1>3. MidwayInv(rest) /\ (Notifying(rest) /\ IsGet(Head(st)) => Head(st).w \in Sync)
  BY <1>1, <1>2 DEF MidwayInv
<1> QED
  BY <1>3 DEF rest

LEMMA MidwayReplace ==
  ASSUME NEW st, IsASeq(st), st # <<>>, MidwayInv(st), NEW f, IsGet(f), IsGet(Head(st)), f.w = Head(st).w
  PROVE  MidwayInv(<<f>> \o Tail(st))
<1>1. IsASeq(Tail(st)) /\ MidwayInv(Tail(st)) /\ (Notifying(Tail(st)) => f.w \in Sync) /\ f.kind # "notify"
  BY TailFacts, MidwayPop DEF IsGet
<1> QED
  BY <1>1, MidwayPush

LEMMA MidwayReturned ==
  ASSUME NEW st, IsASeq(st), MidwayInv(st), NEW v, NEW ds PROVE MidwayInv(Returned(st, v, ds))
<1>1. CASE st # <<>> /\ Head(st).kind = "get"
  <2>1. PICK f : f = Getting(Head(st), Append(Head(st).seen, v), ds)
    OBVIOUS
  <2>2. IsGet(f) /\ IsGet(Head(st)) /\ f.w = Head(st).w /\ Returned(st, v, ds) = <<f>> \o Tail(st)
    BY <1>1, <2>1 DEF Returned, Getting, Frame, IsGet
  <2> QED
    BY <1>1, <2>2, MidwayReplace
<1>2. CASE ~(st # <<>> /\ Head(st).kind = "get")
  BY <1>2 DEF Returned
<1> QED
  BY <1>1, <1>2

SyncReadsData == \A w \in Sync : \A seen : IsASeq(seen) => NextSource(w, seen) \notin Lazy

LEMMA SeenIsASeq == ASSUME Inv, FreshInv, InGetter PROVE IsASeq(Top.seen)
<1>1. FrameKnows(heap, value, deps, Unclean, newDeps, Top)
  BY RunningFrame
<1> QED
  BY <1>1, KnowsSequence DEF FrameKnows

LEMMA NotMidway == ReadsMidway = FALSE /\ MayRead => ~Notifying(stack) \/ ~IsASeq(stack)
BY DEF MayRead, Notifying, IsASeq

LEMMA NextMidway ==
  ASSUME ConstantsAssumption, ReadsMidway = FALSE, SyncReadsData, Inv, FreshInv, MidwayInv(stack), [Next]_vars
  PROVE  MidwayInv(stack')
<1>1. IsASeq(stack) /\ StackInv(stack, active)
  BY DEF Inv, StackInv
<1>2. ASSUME stack # <<>> PROVE IsASeq(Callers) /\ MidwayInv(Callers)
  BY <1>1, <1>2, TailFacts, MidwayPop DEF Callers
<1>3. ASSUME stack # <<>> => ~IsGet(Top) PROVE \A i \in 1 .. Len(stack) : ~IsGet(stack[i])
  BY <1>1, <1>3, NoGetter DEF Top
<1>4. ASSUME NEW w, NEW why, stack' = <<GetFrame(w, why)>> \o stack, Notifying(stack) => w \in Sync
      PROVE  MidwayInv(stack')
  <2>1. PICK f : f = GetFrame(w, why)
    OBVIOUS
  <2>2. f.w = w /\ f.kind # "notify"
    BY <2>1 DEF GetFrame, Frame
  <2> QED
    BY <1>1, <1>4, <2>1, <2>2, MidwayPush
<1>5. CASE Depend
  <2>1. PICK f : f = Getting(Top, Top.seen, Tail(Top.todo))
    OBVIOUS
  <2>2. /\ stack # <<>> /\ IsGet(f) /\ IsGet(Head(stack)) /\ f.w = Head(stack).w
        /\ stack' = <<f>> \o Tail(stack)
    BY <1>5, <2>1 DEF Depend, InGetter, Getting, Frame, IsGet, Top, Callers
  <2> QED
    BY <1>1, <2>2, MidwayReplace
<1>6. CASE ReadData
  BY <1>1, <1>6, MidwayReturned DEF ReadData
<1>7. CASE EndEvaluate
  <2>1. stack # <<>> /\ stack' = Returned(Callers, Top.seen, Reverse(newDeps[Top.w]))
    BY <1>7 DEF EndEvaluate, Finish, Reading, InGetter
  <2> QED
    BY <1>2, <2>1, MidwayReturned
<1>8. CASE EndConstruct \/ EndRun
  <2>1. /\ stack # <<>>
        /\ stack' = Callers \/ stack' = <<CallbackFrame(Top.w)>> \o Callers
    BY <1>8 DEF EndConstruct, EndRun, Finish, Reading, InGetter
  <2>2. PICK f : f = CallbackFrame(Top.w)
    OBVIOUS
  <2>3. f.kind # "notify" /\ ~IsGet(f)
    BY <2>2 DEF CallbackFrame, Frame, IsGet
  <2>4. MidwayInv(<<f>> \o Callers)
    BY <1>2, <2>1, <2>3, MidwayPush
  <2> QED
    BY <1>2, <2>1, <2>2, <2>4
<1>9. CASE EndCallback \/ EndNotify
  BY <1>2, <1>9 DEF EndCallback, EndNotify, InNotify
<1>10. CASE NotifyNext
  <2> DEFINE w == Head(Top.todo)
  <2>1. PICK f : f = NotifyFrame(Tail(Top.todo))
    OBVIOUS
  <2>2. PICK g : g = GetFrame(w, "run")
    OBVIOUS
  <2>3. /\ stack # <<>> /\ ~IsGet(Top)
        /\ stack' = <<f>> \o Callers \/ (stack' = <<g>> \o (<<f>> \o Callers) /\ w \in Sync)
    BY <1>10, <2>1, <2>2 DEF NotifyNext, InNotify, Runs, IsGet
  <2>4. ~IsGet(f) /\ g.w = w /\ g.kind # "notify"
    BY <2>1, <2>2 DEF NotifyFrame, GetFrame, Frame, IsGet
  <2> HIDE DEF w
  <2>5. \A i \in 1 .. Len(Callers) : ~IsGet(Callers[i])
    BY <1>1, <2>3, PopStack DEF Callers, Top
  <2>6. MidwayInv(<<f>> \o Callers) /\ IsASeq(<<f>> \o Callers)
    BY <1>2, <2>3, <2>4, <2>5, MidwayPush, PushFacts
  <2>7. ASSUME w \in Sync PROVE MidwayInv(<<g>> \o (<<f>> \o Callers))
    BY <2>4, <2>6, <2>7, MidwayPush
  <2> QED
    BY <2>3, <2>6, <2>7
<1>11. ASSUME NEW w \in Watchers, RunQueued(w) PROVE MidwayInv(stack')
  <2>1. stack = <<>> /\ (stack' = stack \/ stack' = <<GetFrame(w, "run")>> \o stack)
    BY <1>11 DEF RunQueued, Runs
  <2>2. ~Notifying(stack)
    BY <2>1 DEF Notifying
  <2> QED
    BY <1>4, <2>1, <2>2
<1>12. ASSUME NEW w \in Watchers, Create(w) PROVE MidwayInv(stack')
  <2>1. stack' = <<GetFrame(w, "new")>> \o stack /\ ~Notifying(stack)
    BY <1>1, <1>12, NotMidway DEF Create
  <2> QED
    BY <1>4, <2>1
<1>13. ASSUME NEW op \in Mutations, Write(op) PROVE MidwayInv(stack')
  <2>1. /\ stack # <<>> => ~IsGet(Top)
        /\ stack' = stack \/ \E ws : stack' = <<NotifyFrame(ws)>> \o stack
    BY <1>13 DEF Write, UserOp, UserCode, IsGet
  <2>2. ASSUME NEW ws, stack' = <<NotifyFrame(ws)>> \o stack PROVE MidwayInv(stack')
    <3>1. ~IsGet(NotifyFrame(ws))
      BY DEF NotifyFrame, Frame, IsGet
    <3> QED
      BY <1>1, <1>3, <2>1, <2>2, <3>1, MidwayPush
  <2> QED
    BY <2>1, <2>2
<1>14. ASSUME NEW c \in Lazy, ReadComputed(c) PROVE MidwayInv(stack')
  <2>1. /\ stack # <<>> /\ IsGet(Top) /\ NextSource(Top.w, Top.seen) = c
        /\ \/ stack' = Returned(stack, value[c], Reverse(deps[c]))
           \/ stack' = <<GetFrame(c, "read")>> \o stack
    BY <1>14 DEF ReadComputed, Reading, InGetter, Source, Computed, IsGet
  <2>2. ~Notifying(stack)
    <3>1. Top.w \notin Sync
      BY <2>1, SeenIsASeq DEF SyncReadsData, IsGet, InGetter
    <3>2. 1 \in 1 .. Len(stack) /\ Top = stack[1]
      BY <1>1, <2>1, TailFacts DEF Top
    <3> QED
      BY <2>1, <3>1, <3>2 DEF MidwayInv
  <2> QED
    BY <1>1, <1>4, <2>1, <2>2, MidwayReturned
<1>15. ASSUME NEW c \in Lazy, Use(c) PROVE MidwayInv(stack')
  <2>1. /\ ~Notifying(stack)
        /\ \/ stack' = Returned(stack, value[c], Reverse(deps[c]))
           \/ stack' = <<GetFrame(c, "read")>> \o stack
    BY <1>1, <1>15, NotMidway DEF Use, Computed
  <2> QED
    BY <1>1, <1>4, <2>1, MidwayReturned
<1>16. ASSUME stack' = stack PROVE MidwayInv(stack')
  BY <1>16
<1>17. ASSUME NEW w \in Watchers, Teardown(w) PROVE MidwayInv(stack')
  BY <1>16, <1>17 DEF Teardown
<1>18. CASE CleanupDeps \/ UNCHANGED vars
  BY <1>16, <1>18 DEF CleanupDeps, vars
<1> QED
  BY <1>5, <1>6, <1>7, <1>8, <1>9, <1>10, <1>11, <1>12, <1>13, <1>14, <1>15, <1>17, <1>18 DEF Next

\* A getter that reads a computed property runs outside of notifications.
LEMMA MidwaySettled ==
  ASSUME SyncReadsData, Inv, FreshInv, MidwayInv(stack) PROVE ReadsSettled
<1> SUFFICES ASSUME Reading, Source \in Lazy, Source \in ToNotify PROVE FALSE
  BY DEF ReadsSettled
<1>1. stack # <<>> /\ IsGet(Top) /\ IsASeq(stack) /\ Top.w \notin Sync
  BY SeenIsASeq DEF Reading, InGetter, Inv, StackInv, IsGet, Source, SyncReadsData
<1>2. 1 \in 1 .. Len(stack) /\ Top = stack[1] /\ DOMAIN stack = 1 .. Len(stack)
  BY <1>1, TailFacts DEF Top
<1>3. Notifying(stack)
  BY <1>2 DEF ToNotify, Notifying
<1> QED
  BY <1>1, <1>2, <1>3 DEF MidwayInv

-----------------------------------------------------------------------------
LEMMA FreshIsEnough == ASSUME ConstantsAssumption, Inv, FreshInv PROVE NothingStale
<1>1. ASSUME NEW w \in Watchers, IsSettled(w)
      PROVE  /\ NextSource(w, value[w]) = Done
             /\ \A i \in DOMAIN (value[w]) : UpToDate(SourceAt(w, value[w], i), value[w][i])
  <2>1. Knows(heap, value, deps, Unclean, w, value[w], ToSet(deps[w])) /\ NextSource(w, value[w]) = Done
    BY <1>1 DEF FreshInv, SettledInv, Current
  <2>2. DOMAIN (value[w]) = 1 .. Len(value[w])
    BY <2>1, KnowsSequence
  <2>3. ASSUME NEW i \in DOMAIN (value[w]) PROVE UpToDate(SourceAt(w, value[w], i), value[w][i])
    <3>1. KnowsAt(heap, value, deps, Unclean, SourceAt(w, value[w], i), value[w][i], ToSet(deps[w]))
      BY <2>1, <2>2 DEF Knows
    <3> QED
      BY <3>1 DEF KnowsAt, UpToDate, Unclean
  <2> QED
    BY <2>1, <2>3
<1>2. DOMAIN stack = 1 .. Len(stack)
  BY DEF Inv, StackInv, IsASeq
<1>3. ASSUME NEW c \in Lazy \ (dirty \union ToNotify) PROVE Fresh(c)
  <2>1. c \in Watchers /\ c \in active /\ c \notin queued
    BY DEF Inv, LifeInv, FreshInv, ConstantsAssumption, Watchers
  <2>2. ~Evaluates(stack, c)
    BY DEF Evaluates, FreshInv, FramesInv, FrameKind
  <2>3. IsSettled(c)
    BY <2>1, <2>2 DEF IsSettled, Unclean
  <2> QED
    BY <1>1, <2>1, <2>3 DEF Fresh, SourceAt
<1>4. ASSUME NEW w \in active \ (Lazy \union queued \union Evaluating \union ToNotify), NEW i \in DOMAIN (value[w])
      PROVE  UpToDate(NextSource(w, SubSeq(value[w], 1, i - 1)), value[w][i])
  <2>1. w \in Watchers /\ w \notin dirty
    BY DEF Inv, LifeInv, FreshInv
  <2>2. ~Evaluates(stack, w)
    BY <1>2 DEF Evaluates, Evaluating, IsGet
  <2>3. IsSettled(w)
    BY <2>1, <2>2 DEF IsSettled, Unclean
  <2> QED
    BY <1>1, <1>4, <2>1, <2>3 DEF SourceAt
<1> QED
  BY <1>3, <1>4 DEF NothingStale

\* No cache is stale and no update is missed, whatever the data, the getters and the
\* mutations are, when the data notify and getters are handed what they read, as
\* ReactiveData does (state.ts:290-303, watcher.ts:131-250).  For the time of a
\* notification this asks for what dep.ts:80 does not give by itself: only watchers
\* with sync: true run then, and they read no computed property.
THEOREM NothingStaleCorrect ==
  ASSUME ReadsMidway = FALSE, \A w \in Sync : \A seen : IsASeq(seen) => NextSource(w, seen) \notin Lazy
  PROVE  Spec /\ ChangesReachReaders => []NothingStale
<1>1. SyncReadsData
  BY DEF SyncReadsData
<1>2. Init => FreshInv /\ MidwayInv(stack)
  BY InitFresh, ConstantsAssumption DEF Init, MidwayInv, Notifying
<1>3. Inv /\ FreshInv /\ MidwayInv(stack) /\ [Next]_vars /\ [Notified /\ Covered]_vars
        => FreshInv' /\ MidwayInv(stack)'
  BY <1>1, MidwaySettled, NextFresh, NextMidway, ConstantsAssumption
<1>4. Inv /\ FreshInv => NothingStale
  BY FreshIsEnough, ConstantsAssumption
<1> QED
  BY <1>2, <1>3, <1>4, SpecInv, PTL DEF Spec, ChangesReachReaders

=============================================================================
