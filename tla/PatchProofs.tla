----------------------------- MODULE PatchProofs -----------------------------
(***************************************************************************)
(* Proofs about Patch, for lists of children of any length, any number of  *)
(* renders and any elements that are leaving: the document shows the       *)
(* children in their order, no element is lost, removed twice or removed   *)
(* in use, and the removal pass moves nothing.                             *)
(***************************************************************************)
EXTENDS Patch, SequenceLemmas

-----------------------------------------------------------------------------
(***************************************************************************)
(* The document: where an element stands after it has been moved.          *)
(***************************************************************************)
LEMMA PlaceFacts ==
  ASSUME NEW s, IsList(s), NEW e \in ToSet(s)
  PROVE  Place(s, e) \in 1 .. Len(s) /\ s[Place(s, e)] = e
BY ListFacts DEF Place

LEMMA WithoutFacts ==
  ASSUME IsList(dom), NEW e, NEW t, t = Without(e)
  PROVE  /\ IsList(t) /\ ToSet(t) = ToSet(dom) \ {e}
         /\ \A x, y : Precedes(t, x, y) <=> Precedes(dom, x, y) /\ x # e /\ y # e
<1>1. PICK P : P = { i \in DOMAIN dom : dom[i] # e }
  OBVIOUS
<1>2. \A i : i \in P <=> i \in DOMAIN dom /\ dom[i] # e
  BY <1>1
<1>3. t = Sublist(dom, P)
  BY <1>1 DEF Without
<1> QED
  BY <1>2, <1>3, WithoutOrder

\* e goes before ref.
LEMMA MovedBefore ==
  ASSUME IsList(dom), NEW e \in Int, NEW ref \in ToSet(dom), ref # e,
         NEW d, d = InsertBefore(e, ref), ConstantsAssumption
  PROVE  /\ IsList(d) /\ ToSet(d) = ToSet(dom) \union {e}
         /\ \A x, y : x # e /\ y # e => (Precedes(d, x, y) <=> Precedes(dom, x, y))
         /\ \A x : x # e => (Precedes(d, x, e) <=> Precedes(dom, x, ref))
         /\ \A y : y # e => (Precedes(d, e, y) <=> y = ref \/ Precedes(dom, ref, y))
<1>1. PICK t : t = Without(e)
  OBVIOUS
<1>2. /\ IsList(t) /\ ToSet(t) = ToSet(dom) \ {e}
      /\ \A x, y : Precedes(t, x, y) <=> Precedes(dom, x, y) /\ x # e /\ y # e
  BY <1>1, WithoutFacts
<1>3. PICK k : k = Place(t, ref)
  OBVIOUS
<1>4. k \in DOMAIN t /\ t[k] = ref
  BY <1>2, <1>3, PlaceFacts, ListFacts
<1>5. ref # Undefined
  BY ListFacts DEF ConstantsAssumption
<1>6. d = InsertAt(t, k, e)
  BY <1>3, <1>5, <1>1 DEF InsertBefore
<1>7. /\ IsList(d) /\ ToSet(d) = ToSet(t) \union {e}
      /\ \A x, y : x # e /\ y # e => (Precedes(d, x, y) <=> Precedes(t, x, y))
      /\ \A x : Precedes(d, x, e) <=> Precedes(t, x, t[k])
      /\ \A y : Precedes(d, e, y) <=> y = t[k] \/ Precedes(t, t[k], y)
  BY <1>2, <1>4, <1>6, InsertOrder
<1> QED
  BY <1>2, <1>4, <1>7

\* e goes to the end.
LEMMA MovedToEnd ==
  ASSUME IsList(dom), NEW e \in Int, NEW d, d = InsertBefore(e, Undefined), ConstantsAssumption
  PROVE  /\ IsList(d) /\ ToSet(d) = ToSet(dom) \union {e}
         /\ \A x, y : x # e /\ y # e => (Precedes(d, x, y) <=> Precedes(dom, x, y))
         /\ \A x : x # e => (Precedes(d, x, e) <=> x \in ToSet(dom))
         /\ \A y : ~Precedes(d, e, y)
<1>1. PICK t : t = Without(e)
  OBVIOUS
<1>2. /\ IsList(t) /\ ToSet(t) = ToSet(dom) \ {e}
      /\ \A x, y : Precedes(t, x, y) <=> Precedes(dom, x, y) /\ x # e /\ y # e
  BY <1>1, WithoutFacts
<1>3. d = Append(t, e)
  BY <1>1 DEF InsertBefore, ConstantsAssumption
<1>4. /\ IsList(d) /\ ToSet(d) = ToSet(t) \union {e}
      /\ \A x, y : Precedes(d, x, y) <=> Precedes(t, x, y) \/ (x \in ToSet(t) /\ y = e)
  <2>1. IsList(t) /\ e \notin ToSet(t)
    BY <1>2
  <2> QED
    BY <1>3, <2>1, AppendOrder, ZenonT(30)
<1> QED
  BY <1>2, <1>4

\* e goes to the place after ref.
LEMMA MovedAfter ==
  ASSUME IsList(dom), NEW e \in ToSet(dom), NEW ref \in ToSet(dom), ref # e,
         NEW d, d = InsertBefore(e, NextSibling(ref)), ConstantsAssumption
  PROVE  /\ IsList(d) /\ ToSet(d) = ToSet(dom)
         /\ \A x, y : x # e /\ y # e => (Precedes(d, x, y) <=> Precedes(dom, x, y))
         /\ \A x : x # e => (Precedes(d, x, e) <=> x = ref \/ Precedes(dom, x, ref))
         /\ \A y : y # e => (Precedes(d, e, y) <=> Precedes(dom, ref, y))
<1>1. /\ Len(dom) \in Nat /\ DOMAIN dom = 1 .. Len(dom) /\ e \in Int /\ ToSet(dom) \union {e} = ToSet(dom)
      /\ \A x : x \in ToSet(dom) <=> \E i \in 1 .. Len(dom) : dom[i] = x
  BY ListFacts
<1>2. PICK k : k = Place(dom, ref)
  OBVIOUS
<1>3. k \in 1 .. Len(dom) /\ dom[k] = ref
  BY <1>2, PlaceFacts
<1>4. \A i, j \in 1 .. Len(dom) : Precedes(dom, dom[i], dom[j]) <=> i < j
  BY PrecedesFacts
<1>5. \A x, y : Precedes(dom, x, y) => x \in ToSet(dom) /\ y \in ToSet(dom) /\ x # y
  BY PrecedesFacts
<1>6. CASE k = Len(dom)
  <2>1. d = InsertBefore(e, Undefined)
    BY <1>2, <1>6 DEF NextSibling
  <2>2. /\ IsList(d) /\ ToSet(d) = ToSet(dom)
        /\ \A x, y : x # e /\ y # e => (Precedes(d, x, y) <=> Precedes(dom, x, y))
        /\ \A x : x # e => (Precedes(d, x, e) <=> x \in ToSet(dom))
        /\ \A y : ~Precedes(d, e, y)
    BY <1>1, <2>1, MovedToEnd
  <2>3. ASSUME NEW x \in ToSet(dom) PROVE (x = ref \/ Precedes(dom, x, ref)) /\ ~Precedes(dom, ref, x)
    <3>1. PICK i \in 1 .. Len(dom) : dom[i] = x
      BY <1>1
    <3>0. i \in Int /\ i <= Len(dom) /\ Len(dom) \in Int
      BY <1>1
    <3>2. ~(k < i) /\ (i = k \/ i < k)
      BY <1>6, <3>0
    <3> QED
      BY <1>3, <1>4, <3>1, <3>2
  <2> QED
    BY <1>5, <2>2, <2>3
<1>7. CASE k < Len(dom)
  <2>1. PICK next : next = dom[k + 1]
    OBVIOUS
  <2>2. d = InsertBefore(e, next) /\ k + 1 \in 1 .. Len(dom) /\ next \in ToSet(dom)
    BY <1>1, <1>2, <1>3, <1>7, <2>1 DEF NextSibling
  <2>3. ASSUME NEW x \in ToSet(dom)
        PROVE  /\ Precedes(dom, x, next) <=> x = ref \/ Precedes(dom, x, ref)
               /\ Precedes(dom, ref, x) <=> x = next \/ Precedes(dom, next, x)
    <3>1. PICK i \in 1 .. Len(dom) : dom[i] = x
      BY <1>1
    <3>2. (i < k + 1 <=> i = k \/ i < k) /\ (k < i <=> i = k + 1 \/ k + 1 < i)
      BY <1>1, <1>3
    <3>3. (x = ref <=> i = k) /\ (x = next <=> i = k + 1)
      BY <1>3, <2>1, <2>2, <3>1, ListFacts
    <3> QED
      BY <1>3, <1>4, <2>1, <2>2, <3>1, <3>2, <3>3
  <2>4. CASE next = e
    <3>1. d = dom
      BY <2>2, <2>4 DEF InsertBefore
    <3> QED
      BY <1>5, <2>3, <2>4, <3>1
  <2>5. CASE next # e
    <3>1. /\ IsList(d) /\ ToSet(d) = ToSet(dom) \union {e}
          /\ \A x, y : x # e /\ y # e => (Precedes(d, x, y) <=> Precedes(dom, x, y))
          /\ \A x : x # e => (Precedes(d, x, e) <=> Precedes(dom, x, next))
          /\ \A y : y # e => (Precedes(d, e, y) <=> y = next \/ Precedes(dom, next, y))
      BY <1>1, <2>2, <2>5, MovedBefore
    <3>2. ToSet(d) = ToSet(dom)
      BY <1>1, <3>1
    <3> QED
      BY <1>5, <2>2, <2>3, <3>1, <3>2
  <2> QED
    BY <2>4, <2>5
<1>8. k = Len(dom) \/ k < Len(dom)
  <2>1. k \in Int /\ k <= Len(dom) /\ Len(dom) \in Int
    BY <1>1, <1>3
  <2> QED
    BY <2>1
<1> QED
  BY <1>6, <1>7, <1>8

\* Elements are numbered by their place.
LEMMA Renumbering ==
  ASSUME IsList(dom), leaving \subseteq ToSet(dom), Renumber
  PROVE  /\ IsList(dom') /\ ToSet(dom') = DOMAIN dom /\ leaving' \subseteq ToSet(dom')
         /\ \A x \in ToSet(dom) : Place(dom, x) \in DOMAIN dom /\ dom[Place(dom, x)] = x
         /\ \A x, y \in ToSet(dom) : Place(dom, x) = Place(dom, y) => x = y
         /\ \A x, y \in ToSet(dom) :
              Precedes(dom', Place(dom, x), Place(dom, y)) <=> Precedes(dom, x, y)
         /\ ToSet(dom') \ leaving' = { Place(dom, x) : x \in ToSet(dom) \ leaving }
<1>1. /\ Len(dom) \in Nat /\ DOMAIN dom = 1 .. Len(dom)
      /\ \A x : x \in ToSet(dom) <=> \E i \in 1 .. Len(dom) : dom[i] = x
      /\ \A i, j \in 1 .. Len(dom) : dom[i] = dom[j] => i = j
  BY ListFacts
<1>2. dom' = [i \in 1 .. Len(dom) |-> i] /\ leaving' = { Place(dom, e) : e \in leaving }
  BY <1>1 DEF Renumber
<1>3. dom' \in Seq(Int) /\ Len(dom') = Len(dom) /\ DOMAIN dom' = 1 .. Len(dom)
  BY <1>1, <1>2
<1>4. IsList(dom')
  BY <1>2, <1>3 DEF IsList, IsInjective
<1>5. ToSet(dom') = DOMAIN dom
  BY <1>1, <1>2, <1>3 DEF ToSet
<1>6. \A x \in ToSet(dom) : Place(dom, x) \in 1 .. Len(dom) /\ dom[Place(dom, x)] = x
  BY PlaceFacts
<1>7. \A i, j \in 1 .. Len(dom) : Precedes(dom', i, j) <=> i < j
  BY <1>2, <1>3 DEF Precedes
<1>8. \A i, j \in 1 .. Len(dom) : Precedes(dom, dom[i], dom[j]) <=> i < j
  BY PrecedesFacts
<1>9. \A i \in 1 .. Len(dom) : \E x \in ToSet(dom) : Place(dom, x) = i
  BY <1>1, <1>6
<1>10. \A x, y \in ToSet(dom) : Place(dom, x) = Place(dom, y) => x = y
  BY <1>6
<1>11. ToSet(dom') \ leaving' = { Place(dom, x) : x \in ToSet(dom) \ leaving }
  BY <1>1, <1>2, <1>5, <1>6, <1>9, <1>10
<1> QED
  BY <1>1, <1>2, <1>4, <1>5, <1>6, <1>7, <1>8, <1>10, <1>11

-----------------------------------------------------------------------------
(***************************************************************************)
(* The invariant.                                                          *)
(***************************************************************************)
\* The places of the old children that are still to be visited, and of the new
\* children that have their element
Remaining == { i \in oldStartIdx .. oldEndIdx : oldCh[i] # Undefined }
Placed    == { j \in DOMAIN newCh : j < newStartIdx \/ j > newEndIdx }

\* Only nodes without a key have the same key.
UniqueKeys(ch) ==
  \A i, j \in DOMAIN ch :
    i # j /\ ch[i] # Undefined /\ ch[j] # Undefined /\ ch[i].key = ch[j].key
      => ch[i].key = Undefined

DocumentInv ==
  /\ IsList(dom) /\ leaving \subseteq ToSet(dom)
  /\ newCh \in Seq(Vnodes) /\ UniqueKeys(newCh)
  /\ canMove \in BOOLEAN /\ patching \in BOOLEAN

IndicesInv ==
  /\ oldStartIdx \in Nat \ {0} /\ oldEndIdx \in Nat
  /\ oldStartIdx <= oldEndIdx + 1 /\ oldEndIdx <= Len(oldCh)
  /\ newStartIdx \in Nat \ {0} /\ newEndIdx \in Nat
  /\ newStartIdx <= newEndIdx + 1 /\ newEndIdx <= Len(newCh)

\* The old children have elements of the document as it was.
OldInv ==
  /\ oldCh \in Seq(Vnodes \union {Undefined}) /\ UniqueKeys(oldCh)
  /\ removed \in Seq(Nat)
  /\ \A i \in DOMAIN oldCh : oldCh[i] # Undefined => oldCh[i].elm \in DOMAIN removed
  /\ \A i, k \in DOMAIN oldCh :
       oldCh[i] # Undefined /\ oldCh[k] # Undefined /\ oldCh[i].elm = oldCh[k].elm => i = k

\* What is in the document: the elements of the old children that remain and of
\* the new children that are placed, and those that are leaving.
ElementsInv ==
  /\ ToSet(dom) \ leaving = { oldCh[i].elm : i \in Remaining } \union { newCh[j].elm : j \in Placed }
  /\ ToSet(dom) \subseteq DOMAIN removed \union { -j : j \in Placed }
  /\ \A j \in Placed : newCh[j].elm \in DOMAIN removed \union {-j}
  /\ \A j \in DOMAIN newCh \ Placed : canMove => newCh[j].elm = Undefined
  /\ \A j \in Placed, i \in Remaining : newCh[j].elm # oldCh[i].elm
  /\ \A j, k \in Placed : newCh[j].elm = newCh[k].elm => j = k

\* Where it is: the new children placed from the start, the old ones that
\* remain, the new ones placed from the end; each part in order.
OrderInv ==
  /\ \A i, k \in Remaining : i < k => Precedes(dom, oldCh[i].elm, oldCh[k].elm)
  /\ \A j, k \in Placed : j < k => Precedes(dom, newCh[j].elm, newCh[k].elm)
  /\ canMove => \A i \in Remaining, j \in Placed :
       IF j < newStartIdx THEN Precedes(dom, newCh[j].elm, oldCh[i].elm)
                          ELSE Precedes(dom, oldCh[i].elm, newCh[j].elm)

\* The removal pass: every new child is an old one.
RemovalInv ==
  ~canMove =>
    /\ \A j, k \in DOMAIN newCh : j < k => Precedes(dom, newCh[j].elm, newCh[k].elm)
    /\ \A j \in DOMAIN newCh : newCh[j].key # Undefined
    /\ \A j \in DOMAIN newCh \ Placed : \E i \in Remaining : oldCh[i] = newCh[j]
    /\ nextCh \in Lists

\* m is a map of keys to the old children; what it says of the key of a new child
\* that is not placed is still so.
IsKeyMap(m) ==
  /\ \E S \in SUBSET (Keys \ {Undefined}) : m \in [S -> DOMAIN oldCh]
  /\ \A i \in Remaining : oldCh[i].key # Undefined =>
       oldCh[i].key \in DOMAIN m /\ m[oldCh[i].key] = i
  /\ \A j \in DOMAIN newCh \ Placed : newCh[j].key \in DOMAIN m =>
       m[newCh[j].key] \in Remaining /\ oldCh[m[newCh[j].key]].key = newCh[j].key

KeysInv ==
  IF keyToOldIdx = Undefined THEN \A i \in DOMAIN oldCh : oldCh[i] # Undefined
                             ELSE IsKeyMap(keyToOldIdx)

\* Old children that do not remain are in use, or were removed at the end.
FateInv ==
  \A i \in DOMAIN oldCh : oldCh[i] # Undefined =>
    \/ i \in Remaining /\ removed[oldCh[i].elm] = 0
    \/ /\ i \notin Remaining /\ removed[oldCh[i].elm] = 0
       /\ \E j \in Placed : newCh[j].elm = oldCh[i].elm /\ newCh[j].key = oldCh[i].key
    \/ /\ i \notin Remaining /\ removed[oldCh[i].elm] = 1
       /\ newStartIdx > newEndIdx
       /\ \A j \in Placed : newCh[j].elm # oldCh[i].elm

\* A keyed new child has the element of the old one that is the same.
ReuseInv ==
  \A i \in DOMAIN oldCh, j \in Placed :
    oldCh[i] # Undefined /\ oldCh[i].key # Undefined /\ sameVnode(oldCh[i], newCh[j])
      => newCh[j].elm = oldCh[i].elm

PatchInv ==
  /\ IndicesInv /\ OldInv /\ ElementsInv /\ OrderInv
  /\ RemovalInv /\ KeysInv /\ FateInv /\ ReuseInv

Inv ==
  /\ DocumentInv
  /\ IF patching THEN PatchInv ELSE InOrder

-----------------------------------------------------------------------------
(***************************************************************************)
(* An old child passes its element to a new one.                           *)
(***************************************************************************)
LEMMA Basics ==
  ASSUME Inv, patching
  PROVE  /\ DocumentInv /\ PatchInv
         /\ Len(oldCh) \in Nat /\ DOMAIN oldCh = 1 .. Len(oldCh)
         /\ Len(newCh) \in Nat /\ DOMAIN newCh = 1 .. Len(newCh)
         /\ Remaining \subseteq DOMAIN oldCh /\ Placed \subseteq DOMAIN newCh
         /\ \A i \in Remaining : oldCh[i] # Undefined
         /\ \A i \in DOMAIN oldCh : oldCh[i] # Undefined => oldCh[i] \in Vnodes
         /\ \A j \in DOMAIN newCh : newCh[j] \in Vnodes /\ newCh[j] # Undefined
<1>1. DocumentInv /\ PatchInv /\ IndicesInv /\ OldInv
  BY DEF Inv, PatchInv
<1>2. Len(oldCh) \in Nat /\ DOMAIN oldCh = 1 .. Len(oldCh)
  BY <1>1 DEF OldInv
<1>3. Len(newCh) \in Nat /\ DOMAIN newCh = 1 .. Len(newCh)
  BY <1>1 DEF DocumentInv
<1>4. Remaining \subseteq DOMAIN oldCh
  BY <1>1, <1>2 DEF IndicesInv, Remaining
<1>5. \A i \in DOMAIN oldCh : oldCh[i] # Undefined => oldCh[i] \in Vnodes
  BY <1>1, <1>2 DEF OldInv
<1>6. \A j \in DOMAIN newCh : newCh[j] \in Vnodes /\ newCh[j] # Undefined
  BY <1>1, <1>3, ConstantsAssumption DEF DocumentInv, ConstantsAssumption
<1> QED
  BY <1>1, <1>2, <1>3, <1>4, <1>5, <1>6 DEF Remaining, Placed

\* The old child i passes its element to the new child j, wherever it goes.
Passes(i, j) ==
  /\ i \in Remaining /\ j \in DOMAIN newCh \ Placed /\ sameVnode(oldCh[i], newCh[j])
  /\ PatchVnode(oldCh[i], j)
  /\ oldCh' = oldCh \/ oldCh' = [oldCh EXCEPT ![i] = Undefined]
  /\ Remaining' = Remaining \ {i} /\ Placed' = Placed \union {j}
  /\ IsList(dom') /\ ToSet(dom') = ToSet(dom)
  /\ UNCHANGED <<leaving, removed, mode>>

LEMMA PassFacts ==
  ASSUME Inv, patching, NEW i, NEW j, Passes(i, j)
  PROVE  /\ oldCh' \in Seq(Vnodes \union {Undefined}) /\ DOMAIN oldCh' = DOMAIN oldCh
         /\ newCh' \in Seq(Vnodes) /\ DOMAIN newCh' = DOMAIN newCh
         /\ \A k \in DOMAIN oldCh : k # i => oldCh'[k] = oldCh[k]
         /\ \A k \in DOMAIN oldCh : oldCh'[k] # Undefined => oldCh'[k] = oldCh[k]
         /\ \A k \in DOMAIN newCh : k # j => newCh'[k] = newCh[k]
         /\ \A k \in DOMAIN newCh : newCh'[k].key = newCh[k].key /\ newCh'[k].tag = newCh[k].tag
         /\ newCh'[j].elm = oldCh[i].elm
         /\ Len(oldCh') = Len(oldCh) /\ Len(newCh') = Len(newCh)
<1>1. /\ oldCh \in Seq(Vnodes \union {Undefined}) /\ newCh \in Seq(Vnodes)
      /\ i \in DOMAIN oldCh /\ j \in DOMAIN newCh /\ oldCh[i] \in Vnodes
      /\ \A k \in DOMAIN newCh : newCh[k] \in Vnodes
  BY Basics DEF Passes, PatchInv, OldInv, DocumentInv
<1>2. newCh' = [newCh EXCEPT ![j] = [newCh[j] EXCEPT !.elm = oldCh[i].elm]]
  BY DEF Passes, PatchVnode
<1>3. oldCh[i].elm \in Int \union {Undefined}
  BY <1>1 DEF Vnodes
<1>4. [newCh[j] EXCEPT !.elm = oldCh[i].elm] \in Vnodes
  BY <1>1, <1>3 DEF Vnodes
<1>5. /\ newCh' \in Seq(Vnodes) /\ DOMAIN newCh' = DOMAIN newCh /\ Len(newCh') = Len(newCh)
      /\ \A k \in DOMAIN newCh : k # j => newCh'[k] = newCh[k]
      /\ newCh'[j] = [newCh[j] EXCEPT !.elm = oldCh[i].elm]
  BY <1>1, <1>2, <1>4
<1>6. /\ newCh'[j].elm = oldCh[i].elm
      /\ newCh'[j].key = newCh[j].key /\ newCh'[j].tag = newCh[j].tag
  BY <1>1, <1>5 DEF Vnodes
<1>7. /\ oldCh' \in Seq(Vnodes \union {Undefined}) /\ DOMAIN oldCh' = DOMAIN oldCh
      /\ Len(oldCh') = Len(oldCh)
      /\ \A k \in DOMAIN oldCh : k # i => oldCh'[k] = oldCh[k]
      /\ oldCh'[i] = oldCh[i] \/ oldCh'[i] = Undefined
  BY <1>1 DEF Passes
<1> QED
  BY <1>5, <1>6, <1>7

LEMMA PassKeepsElements ==
  ASSUME Inv, patching, NEW i, NEW j, Passes(i, j)
  PROVE  DocumentInv' /\ OldInv' /\ ElementsInv'
<1>1. /\ oldCh' \in Seq(Vnodes \union {Undefined}) /\ DOMAIN oldCh' = DOMAIN oldCh
      /\ newCh' \in Seq(Vnodes) /\ DOMAIN newCh' = DOMAIN newCh
      /\ \A k \in DOMAIN oldCh : k # i => oldCh'[k] = oldCh[k]
      /\ \A k \in DOMAIN oldCh : oldCh'[k] # Undefined => oldCh'[k] = oldCh[k]
      /\ \A k \in DOMAIN newCh : k # j => newCh'[k] = newCh[k]
      /\ \A k \in DOMAIN newCh : newCh'[k].key = newCh[k].key /\ newCh'[k].tag = newCh[k].tag
      /\ newCh'[j].elm = oldCh[i].elm
  BY PassFacts
<1>2. /\ i \in Remaining /\ j \in DOMAIN newCh \ Placed /\ UNCHANGED <<leaving, removed, mode>>
      /\ Remaining' = Remaining \ {i} /\ Placed' = Placed \union {j}
      /\ IsList(dom') /\ ToSet(dom') = ToSet(dom)
  BY DEF Passes
<1>3. /\ DocumentInv /\ OldInv /\ ElementsInv
      /\ Remaining \subseteq DOMAIN oldCh /\ Placed \subseteq DOMAIN newCh
      /\ \A k \in Remaining : oldCh[k] # Undefined
      /\ \A k \in DOMAIN newCh : newCh[k] # Undefined
  BY Basics DEF PatchInv
<1>4. DocumentInv'
  BY <1>1, <1>2, <1>3 DEF DocumentInv, UniqueKeys, mode
<1>5. OldInv'
  BY <1>1, <1>2, <1>3, SMTT(30) DEF OldInv, UniqueKeys
<1>6. /\ \A k \in Remaining' : oldCh'[k].elm = oldCh[k].elm /\ k \in Remaining /\ k # i
      /\ \A k \in Placed : newCh'[k].elm = newCh[k].elm /\ k \in Placed' /\ k # j
      /\ \A k \in Placed' : k \in Placed \/ k = j
      /\ newCh'[j].elm = oldCh[i].elm /\ j \in Placed'
  BY <1>1, <1>2, <1>3
<1>7. ElementsInv'
  <2>1. (ToSet(dom) \ leaving)' =
          { oldCh'[k].elm : k \in Remaining' } \union { newCh'[k].elm : k \in Placed' }
    <3>1. (ToSet(dom) \ leaving)' = { oldCh[k].elm : k \in Remaining } \union { newCh[k].elm : k \in Placed }
      BY <1>2, <1>3 DEF ElementsInv
    <3>2. { oldCh[k].elm : k \in Remaining } = { oldCh'[k].elm : k \in Remaining' } \union {oldCh[i].elm}
      BY <1>2, <1>6
    <3>3. { newCh'[k].elm : k \in Placed' } = { newCh[k].elm : k \in Placed } \union {oldCh[i].elm}
      BY <1>2, <1>6
    <3> QED
      BY <3>1, <3>2, <3>3
  <2>2. (ToSet(dom) \subseteq DOMAIN removed \union { -k : k \in Placed })'
    BY <1>2, <1>3 DEF ElementsInv
  <2>3. \A k \in Placed' : newCh'[k].elm \in DOMAIN removed' \union {-k}
    BY <1>2, <1>3, <1>6 DEF ElementsInv, OldInv
  <2>4. \A k \in DOMAIN newCh' \ Placed' : canMove' => newCh'[k].elm = Undefined
    BY <1>1, <1>2, <1>3 DEF ElementsInv, mode
  <2>5. ASSUME NEW k \in Placed', NEW l \in Remaining' PROVE newCh'[k].elm # oldCh'[l].elm
    <3>1. l \in Remaining /\ l # i /\ oldCh'[l].elm = oldCh[l].elm
      BY <1>6
    <3>2. CASE k = j
      BY <1>2, <1>3, <1>6, <3>1, <3>2 DEF OldInv
    <3>3. CASE k \in Placed
      BY <1>3, <1>6, <3>1, <3>3 DEF ElementsInv
    <3> QED
      BY <1>6, <3>2, <3>3
  <2>6. \A k, l \in Placed' : newCh'[k].elm = newCh'[l].elm => k = l
    BY <1>2, <1>3, <1>6 DEF ElementsInv
  <2> QED
    BY <2>1, <2>2, <2>3, <2>4, <2>5, <2>6 DEF ElementsInv
<1> QED
  BY <1>4, <1>5, <1>7

LEMMA PassKeepsFate ==
  ASSUME Inv, patching, NEW i, NEW j, Passes(i, j), newStartIdx <= newEndIdx
  PROVE  FateInv' /\ ReuseInv'
<1>1. /\ DOMAIN oldCh' = DOMAIN oldCh /\ DOMAIN newCh' = DOMAIN newCh
      /\ \A k \in DOMAIN oldCh : k # i => oldCh'[k] = oldCh[k]
      /\ \A k \in DOMAIN oldCh : oldCh'[k] # Undefined => oldCh'[k] = oldCh[k]
      /\ \A k \in DOMAIN newCh : k # j => newCh'[k] = newCh[k]
      /\ \A k \in DOMAIN newCh : newCh'[k].key = newCh[k].key /\ newCh'[k].tag = newCh[k].tag
      /\ newCh'[j].elm = oldCh[i].elm
  BY PassFacts
<1>2. /\ i \in Remaining /\ j \in DOMAIN newCh \ Placed /\ removed' = removed
      /\ Remaining' = Remaining \ {i} /\ Placed' = Placed \union {j}
      /\ sameVnode(oldCh[i], newCh[j])
  BY DEF Passes
<1>3. /\ DocumentInv /\ OldInv /\ ElementsInv /\ FateInv /\ ReuseInv /\ IndicesInv
      /\ Remaining \subseteq DOMAIN oldCh /\ Placed \subseteq DOMAIN newCh
      /\ \A k \in Remaining : oldCh[k] # Undefined
  BY Basics DEF PatchInv
<1>4. FateInv'
  <2> SUFFICES ASSUME NEW k \in DOMAIN oldCh, oldCh'[k] # Undefined
               PROVE  \/ k \in Remaining' /\ removed'[oldCh'[k].elm] = 0
                      \/ /\ k \notin Remaining' /\ removed'[oldCh'[k].elm] = 0
                         /\ \E l \in Placed' : newCh'[l].elm = oldCh'[k].elm /\ newCh'[l].key = oldCh'[k].key
    BY <1>1 DEF FateInv
  <2>1. oldCh'[k] = oldCh[k] /\ oldCh[k] # Undefined
    BY <1>1
  <2>2. CASE k = i
    BY <1>1, <1>2, <1>3, <2>1, <2>2 DEF FateInv, sameVnode
  <2>3. CASE k # i /\ k \in Remaining
    BY <1>2, <1>3, <2>1, <2>3 DEF FateInv
  <2>4. CASE k \notin Remaining
    <3>1. /\ removed[oldCh[k].elm] = 0
          /\ \E l \in Placed : newCh[l].elm = oldCh[k].elm /\ newCh[l].key = oldCh[k].key
      BY <1>3, <2>1, <2>4 DEF FateInv, IndicesInv
    <3>2. PICK l \in Placed : newCh[l].elm = oldCh[k].elm /\ newCh[l].key = oldCh[k].key
      BY <3>1
    <3>3. l \in Placed' /\ newCh'[l] = newCh[l]
      BY <1>1, <1>2, <1>3
    <3> QED
      BY <1>2, <2>1, <2>4, <3>1, <3>2, <3>3
  <2> QED
    BY <2>2, <2>3, <2>4
<1>5. ReuseInv'
  <2> SUFFICES ASSUME NEW k \in DOMAIN oldCh, NEW l \in Placed', oldCh'[k] # Undefined,
                      oldCh'[k].key # Undefined, sameVnode(oldCh'[k], newCh'[l])
               PROVE  newCh'[l].elm = oldCh'[k].elm
    BY <1>1 DEF ReuseInv, sameVnode
  <2>1. oldCh'[k] = oldCh[k] /\ oldCh[k] # Undefined /\ oldCh[k].key = newCh[l].key /\ l \in DOMAIN newCh
    BY <1>1, <1>2, <1>3 DEF sameVnode
  <2>2. CASE l = j
    <3>1. oldCh[k].key = oldCh[i].key
      BY <1>2, <2>1, <2>2 DEF sameVnode
    <3>2. k = i
      BY <1>2, <1>3, <2>1, <3>1 DEF OldInv, UniqueKeys
    <3> QED
      BY <1>1, <2>1, <2>2, <3>2
  <2>3. CASE l # j
    <3>1. l \in Placed /\ newCh'[l] = newCh[l]
      BY <1>1, <1>2, <1>3, <2>3
    <3> QED
      BY <1>3, <2>1, <3>1 DEF ReuseInv
  <2> QED
    BY <2>2, <2>3
<1> QED
  BY <1>4, <1>5

\* A map of keys stays right.
LEMMA PassKeepsKeyMap ==
  ASSUME Inv, patching, NEW i, NEW j, Passes(i, j), NEW m, IsKeyMap(m)
  PROVE  /\ \E S \in SUBSET (Keys \ {Undefined}) : m \in [S -> DOMAIN oldCh']
         /\ \A k \in Remaining' : oldCh'[k].key # Undefined =>
              oldCh'[k].key \in DOMAIN m /\ m[oldCh'[k].key] = k
         /\ \A l \in DOMAIN newCh' \ Placed' : newCh'[l].key \in DOMAIN m =>
              m[newCh'[l].key] \in Remaining' /\ oldCh'[m[newCh'[l].key]].key = newCh'[l].key
<1>1. /\ DOMAIN oldCh' = DOMAIN oldCh /\ DOMAIN newCh' = DOMAIN newCh
      /\ \A k \in DOMAIN oldCh : k # i => oldCh'[k] = oldCh[k]
      /\ \A k \in DOMAIN newCh : newCh'[k].key = newCh[k].key
  BY PassFacts
<1>2. /\ i \in Remaining /\ j \in DOMAIN newCh \ Placed
      /\ Remaining' = Remaining \ {i} /\ Placed' = Placed \union {j}
      /\ sameVnode(oldCh[i], newCh[j])
  BY DEF Passes
<1>3. /\ DocumentInv /\ Remaining \subseteq DOMAIN oldCh
      /\ \A k \in DOMAIN newCh : newCh[k] # Undefined
  BY Basics
<1>4. PICK S \in SUBSET (Keys \ {Undefined}) : m \in [S -> DOMAIN oldCh]
  BY DEF IsKeyMap
<1>5. \A k \in Remaining' : oldCh'[k].key # Undefined =>
        oldCh'[k].key \in DOMAIN m /\ m[oldCh'[k].key] = k
  BY <1>1, <1>2, <1>3 DEF IsKeyMap
<1>6. ASSUME NEW l \in DOMAIN newCh' \ Placed', newCh'[l].key \in DOMAIN m
      PROVE  m[newCh'[l].key] \in Remaining' /\ oldCh'[m[newCh'[l].key]].key = newCh'[l].key
  <2>1. PICK k : k = m[newCh[l].key]
    OBVIOUS
  <2>2. /\ l \in DOMAIN newCh \ Placed /\ l # j /\ newCh[l].key \in S /\ newCh'[l].key = newCh[l].key
        /\ newCh[l].key # Undefined
    BY <1>1, <1>2, <1>4, <1>6
  <2>3. k \in Remaining /\ oldCh[k].key = newCh[l].key
    BY <1>4, <2>1, <2>2 DEF IsKeyMap
  <2>4. newCh[l].key # newCh[j].key
    BY <1>2, <1>3, <2>2 DEF DocumentInv, UniqueKeys
  <2>5. k # i
    BY <1>2, <2>3, <2>4 DEF sameVnode
  <2> QED
    BY <1>1, <1>2, <1>3, <2>1, <2>2, <2>3, <2>5
<1> QED
  BY <1>1, <1>4, <1>5, <1>6

LEMMA PassKeepsOrder ==
  ASSUME Inv, patching, NEW i, NEW j, Passes(i, j), canMove, newStartIdx <= newEndIdx,
         \/ j = newStartIdx /\ newStartIdx' = newStartIdx + 1
         \/ j = newEndIdx /\ newStartIdx' = newStartIdx,
         NEW e, e = oldCh[i].elm,
         \A x, y : x # e /\ y # e /\ Precedes(dom, x, y) => Precedes(dom', x, y),
         \A k \in Placed : IF k < newStartIdx THEN Precedes(dom', newCh[k].elm, e)
                                              ELSE Precedes(dom', e, newCh[k].elm),
         \A k \in Remaining \ {i} : IF j < newStartIdx' THEN Precedes(dom', e, oldCh[k].elm)
                                                        ELSE Precedes(dom', oldCh[k].elm, e)
  PROVE  OrderInv'
<1>1. /\ DOMAIN oldCh' = DOMAIN oldCh /\ DOMAIN newCh' = DOMAIN newCh
      /\ \A k \in DOMAIN oldCh : k # i => oldCh'[k] = oldCh[k]
      /\ \A k \in DOMAIN newCh : k # j => newCh'[k] = newCh[k]
      /\ newCh'[j].elm = oldCh[i].elm
  BY PassFacts
<1>2. /\ i \in Remaining /\ j \in DOMAIN newCh \ Placed
      /\ Remaining' = Remaining \ {i} /\ Placed' = Placed \union {j}
  BY DEF Passes
<1>3. /\ OldInv /\ ElementsInv /\ OrderInv /\ IndicesInv
      /\ Remaining \subseteq DOMAIN oldCh /\ Placed \subseteq DOMAIN newCh
      /\ \A k \in Remaining : oldCh[k] # Undefined
      /\ DOMAIN newCh = 1 .. Len(newCh) /\ Len(newCh) \in Nat
  BY Basics DEF PatchInv
<1>4. ASSUME NEW k \in Remaining'
      PROVE  k \in Remaining /\ k # i /\ oldCh'[k].elm = oldCh[k].elm /\ oldCh[k].elm # e
  BY <1>1, <1>2, <1>3 DEF OldInv
<1>5. ASSUME NEW k \in Placed', k # j
      PROVE  k \in Placed /\ newCh'[k].elm = newCh[k].elm /\ newCh[k].elm # e
  BY <1>1, <1>2, <1>3, <1>5 DEF ElementsInv
<1>6. /\ newStartIdx \in Int /\ newEndIdx \in Int /\ j \in Int /\ newStartIdx <= j /\ j <= newEndIdx
      /\ newStartIdx' \in Int /\ newStartIdx <= newStartIdx' /\ newStartIdx' <= newEndIdx + 1
  BY <1>2, <1>3 DEF IndicesInv, Placed
<1>7. \A k \in Placed : k \in Int /\ (k < newStartIdx \/ newEndIdx < k)
  BY <1>3, <1>6 DEF Placed
<1>8. \A k, l \in Remaining' : k < l => Precedes(dom', oldCh'[k].elm, oldCh'[l].elm)
  BY <1>3, <1>4 DEF OrderInv
<1>9. ASSUME NEW k \in Placed', NEW l \in Placed', k < l
      PROVE  Precedes(dom', newCh'[k].elm, newCh'[l].elm)
  <2>1. CASE k # j /\ l # j
    BY <1>3, <1>5, <1>9, <2>1 DEF OrderInv
  <2>2. CASE k = j
    <3>1. l \in Placed /\ newCh'[l].elm = newCh[l].elm /\ ~(l < newStartIdx)
      BY <1>5, <1>6, <1>7, <1>9, <2>2
    <3> QED
      BY <1>1, <2>2, <3>1
  <2>3. CASE l = j /\ k # j
    <3>1. k \in Placed /\ newCh'[k].elm = newCh[k].elm
      BY <1>5, <2>3
    <3>2. k < newStartIdx
      BY <1>6, <1>7, <1>9, <2>3, <3>1
    <3> QED
      BY <1>1, <2>3, <3>1, <3>2
  <2> QED
    BY <2>1, <2>2, <2>3
<1>10. ASSUME NEW k \in Remaining', NEW l \in Placed'
       PROVE  IF l < newStartIdx' THEN Precedes(dom', newCh'[l].elm, oldCh'[k].elm)
                                  ELSE Precedes(dom', oldCh'[k].elm, newCh'[l].elm)
  <2>1. CASE l = j
    BY <1>1, <1>4, <2>1
  <2>2. CASE l # j
    <3>1. l \in Placed /\ newCh'[l].elm = newCh[l].elm /\ newCh[l].elm # e
      BY <1>5, <2>2
    <3>2. l < newStartIdx' <=> l < newStartIdx
      BY <1>6, <1>7, <2>2, <3>1
    <3>3. IF l < newStartIdx THEN Precedes(dom, newCh[l].elm, oldCh[k].elm)
                             ELSE Precedes(dom, oldCh[k].elm, newCh[l].elm)
      BY <1>3, <1>4, <3>1 DEF OrderInv
    <3> QED
      BY <1>4, <3>1, <3>2, <3>3
  <2> QED
    BY <2>1, <2>2
<1> QED
  BY <1>8, <1>9, <1>10 DEF OrderInv

\* In the removal pass nothing changes but the indices.
LEMMA PassInPlace ==
  ASSUME Inv, patching, NEW i, NEW j, Passes(i, j), ~canMove, dom' = dom
  PROVE  RemovalInv' /\ OrderInv'
<1>1. /\ DOMAIN oldCh' = DOMAIN oldCh /\ DOMAIN newCh' = DOMAIN newCh
      /\ \A k \in DOMAIN oldCh : k # i => oldCh'[k] = oldCh[k]
      /\ \A k \in DOMAIN newCh : k # j => newCh'[k] = newCh[k]
      /\ \A k \in DOMAIN newCh : newCh'[k].key = newCh[k].key
      /\ newCh'[j].elm = oldCh[i].elm
  BY PassFacts
<1>2. /\ i \in Remaining /\ j \in DOMAIN newCh \ Placed /\ sameVnode(oldCh[i], newCh[j])
      /\ Remaining' = Remaining \ {i} /\ Placed' = Placed \union {j}
      /\ ~canMove' /\ nextCh' = nextCh
  BY DEF Passes, mode
<1>3. /\ DocumentInv /\ OldInv /\ OrderInv /\ RemovalInv
      /\ Remaining \subseteq DOMAIN oldCh /\ Placed \subseteq DOMAIN newCh
      /\ \A k \in Remaining : oldCh[k] # Undefined
      /\ \A k \in DOMAIN newCh : newCh[k] # Undefined
  BY Basics DEF PatchInv
<1>4. PICK k \in Remaining : oldCh[k] = newCh[j]
  BY <1>2, <1>3 DEF RemovalInv
<1>5. k = i
  BY <1>2, <1>3, <1>4 DEF RemovalInv, OldInv, UniqueKeys, sameVnode
<1>6. \A l \in DOMAIN newCh : newCh'[l].elm = newCh[l].elm
  BY <1>1, <1>4, <1>5
<1>7. ASSUME NEW l \in DOMAIN newCh \ Placed' PROVE \E n \in Remaining' : oldCh'[n] = newCh'[l]
  <2>1. PICK n \in Remaining : oldCh[n] = newCh[l]
    BY <1>2, <1>3, <1>7 DEF RemovalInv
  <2>2. l # j /\ newCh[l].key # newCh[j].key
    BY <1>2, <1>3, <1>7 DEF RemovalInv, DocumentInv, UniqueKeys
  <2>3. n # i /\ oldCh'[n] = oldCh[n] /\ newCh'[l] = newCh[l]
    BY <1>1, <1>3, <1>4, <1>5, <1>7, <2>1, <2>2
  <2> QED
    BY <1>2, <2>1, <2>3
<1>8. RemovalInv'
  BY <1>1, <1>2, <1>3, <1>6, <1>7 DEF RemovalInv
<1>9. OrderInv'
  <2>1. \A l, n \in Remaining' : l < n => Precedes(dom', oldCh'[l].elm, oldCh'[n].elm)
    BY <1>1, <1>2, <1>3 DEF OrderInv
  <2>2. \A l, n \in Placed' : l < n => Precedes(dom', newCh'[l].elm, newCh'[n].elm)
    BY <1>2, <1>3, <1>6 DEF RemovalInv
  <2> QED
    BY <1>2, <2>1, <2>2 DEF OrderInv
<1> QED
  BY <1>8, <1>9

\* The map of keys is right when it is made.
LEMMA OldKeysFacts == ASSUME Inv, patching PROVE OldKeys # Undefined /\ IsKeyMap(OldKeys)
<1>1. KeysInv /\ OldInv /\ IndicesInv /\ DOMAIN oldCh = 1 .. Len(oldCh) /\ Len(oldCh) \in Nat
  BY Basics DEF PatchInv
<1>2. \A S \in SUBSET Keys : \A m \in [S -> DOMAIN oldCh] : m # Undefined
  <2>1. \A S \in SUBSET Keys : \A m \in [S -> DOMAIN oldCh] : m \in [S -> Nat]
    BY <1>1
  <2> QED
    BY <2>1, ConstantsAssumption DEF ConstantsAssumption
<1>3. CASE keyToOldIdx # Undefined
  BY <1>1, <1>3 DEF OldKeys, KeysInv
<1>4. CASE keyToOldIdx = Undefined
  <2>1. PICK keyed : keyed = { i \in oldStartIdx .. oldEndIdx : oldCh[i].key # Undefined }
    OBVIOUS
  <2>2. PICK m : m = [ k \in { oldCh[i].key : i \in keyed } |-> Max({ i \in keyed : oldCh[i].key = k }) ]
    OBVIOUS
  <2>3. OldKeys = m
    BY <1>4, <2>1, <2>2 DEF OldKeys, KeyToIdx
  <2>4. \A i \in DOMAIN oldCh : oldCh[i] # Undefined /\ oldCh[i] \in Vnodes
    BY <1>1, <1>4, Basics DEF KeysInv
  <2>5. Remaining = oldStartIdx .. oldEndIdx /\ Remaining \subseteq DOMAIN oldCh
    <3>1. Remaining \subseteq DOMAIN oldCh /\ oldStartIdx .. oldEndIdx \subseteq DOMAIN oldCh
      BY <1>1, Basics DEF IndicesInv
    <3> QED
      BY <2>4, <3>1 DEF Remaining
  <2>6. keyed \subseteq Remaining /\ keyed \subseteq DOMAIN oldCh
    BY <2>1, <2>5
  <2>7. \A i, k \in keyed : oldCh[i].key = oldCh[k].key => i = k
    BY <1>1, <2>1, <2>4, <2>6 DEF OldInv, UniqueKeys
  <2>8. ASSUME NEW i \in keyed PROVE oldCh[i].key \in DOMAIN m /\ m[oldCh[i].key] = i
    <3>1. oldCh[i].key \in DOMAIN m /\ m[oldCh[i].key] = Max({ l \in keyed : oldCh[l].key = oldCh[i].key })
      BY <2>2
    <3>2. { l \in keyed : oldCh[l].key = oldCh[i].key } = {i}
      BY <2>7
    <3>3. Max({i}) = i
      <4>1. i \in Int
        BY <1>1, <2>6
      <4> QED
        BY <4>1 DEF Max
    <3> QED
      BY <3>1, <3>2, <3>3
  <2>9. m \in [{ oldCh[i].key : i \in keyed } -> DOMAIN oldCh]
    BY <2>2, <2>6, <2>8
  <2>10. { oldCh[i].key : i \in keyed } \subseteq Keys \ {Undefined}
    BY <2>1, <2>4, <2>6 DEF Vnodes
  <2>11. ASSUME NEW j \in DOMAIN newCh \ Placed, newCh[j].key \in DOMAIN m
         PROVE  m[newCh[j].key] \in Remaining /\ oldCh[m[newCh[j].key]].key = newCh[j].key
    <3>1. PICK i \in keyed : oldCh[i].key = newCh[j].key
      BY <2>2, <2>11
    <3> QED
      BY <2>6, <2>8, <3>1
  <2>12. IsKeyMap(m)
    <3>1. \A i \in Remaining : oldCh[i].key # Undefined =>
            oldCh[i].key \in DOMAIN m /\ m[oldCh[i].key] = i
      BY <2>1, <2>5, <2>8
    <3> QED
      BY <2>9, <2>10, <2>11, <3>1 DEF IsKeyMap
  <2>13. m # Undefined
    BY <1>2, <2>9, <2>10
  <2> QED
    BY <2>3, <2>12, <2>13
<1> QED
  BY <1>3, <1>4

LEMMA PassInv ==
  ASSUME Inv, patching, NEW i, NEW j, Passes(i, j), newStartIdx <= newEndIdx,
         IndicesInv', OrderInv', canMove \/ dom' = dom,
         \/ keyToOldIdx' = keyToOldIdx /\ oldCh' = oldCh
         \/ keyToOldIdx' = OldKeys
  PROVE  Inv'
<1>1. DocumentInv' /\ OldInv' /\ ElementsInv' /\ FateInv' /\ ReuseInv'
  BY PassKeepsElements, PassKeepsFate
<1>2. RemovalInv'
  <2>1. CASE canMove
    BY <2>1 DEF Passes, mode, RemovalInv
  <2> QED
    BY <2>1, PassInPlace
<1>3. ASSUME NEW m, IsKeyMap(m), keyToOldIdx' = m, m # Undefined PROVE KeysInv'
  BY <1>3, PassKeepsKeyMap DEF KeysInv, IsKeyMap
<1>4. KeysInv'
  <2>1. CASE keyToOldIdx' = OldKeys
    BY <1>3, <2>1, OldKeysFacts
  <2>2. CASE keyToOldIdx' = keyToOldIdx /\ oldCh' = oldCh
    <3>1. CASE keyToOldIdx = Undefined
      BY <2>2, <3>1, Basics DEF PatchInv, KeysInv
    <3>2. CASE keyToOldIdx # Undefined
      BY <1>3, <2>2, <3>2, Basics DEF PatchInv, KeysInv
    <3> QED
      BY <3>1, <3>2
  <2> QED
    BY <2>1, <2>2
<1>5. patching'
  BY DEF Passes, mode
<1> QED
  BY <1>1, <1>2, <1>4, <1>5 DEF Inv, PatchInv

-----------------------------------------------------------------------------
(***************************************************************************)
(* The steps of the loop.                                                  *)
(***************************************************************************)
\* What the branches know of the ends of the two lists.
LEMMA LoopFacts ==
  ASSUME Inv, InLoop
  PROVE  /\ oldStartIdx \in DOMAIN oldCh /\ oldEndIdx \in DOMAIN oldCh
         /\ newStartIdx \in DOMAIN newCh \ Placed /\ newEndIdx \in DOMAIN newCh \ Placed
         /\ OldStart # Undefined => oldStartIdx \in Remaining
         /\ OldEnd # Undefined => oldEndIdx \in Remaining
         /\ \A i \in Remaining : i \in Int /\ oldStartIdx <= i /\ i <= oldEndIdx
         /\ \A j \in DOMAIN newCh \ Placed : j \in Int /\ newStartIdx <= j /\ j <= newEndIdx
         /\ oldStartIdx \in Int /\ oldEndIdx \in Int /\ newStartIdx \in Int /\ newEndIdx \in Int
         /\ newStartIdx <= newEndIdx /\ patching
<1>1. /\ patching /\ oldStartIdx <= oldEndIdx /\ newStartIdx <= newEndIdx
  BY DEF InLoop
<1>2. /\ IndicesInv /\ Len(oldCh) \in Nat /\ DOMAIN oldCh = 1 .. Len(oldCh)
      /\ Len(newCh) \in Nat /\ DOMAIN newCh = 1 .. Len(newCh)
  BY <1>1, Basics DEF PatchInv
<1>3. /\ oldStartIdx \in Int /\ oldEndIdx \in Int /\ newStartIdx \in Int /\ newEndIdx \in Int
  BY <1>2 DEF IndicesInv
<1>4. /\ oldStartIdx \in DOMAIN oldCh /\ oldEndIdx \in DOMAIN oldCh
      /\ newStartIdx \in DOMAIN newCh \ Placed /\ newEndIdx \in DOMAIN newCh \ Placed
  BY <1>1, <1>2 DEF IndicesInv, Placed
<1>5. \A j \in DOMAIN newCh \ Placed : j \in Int /\ newStartIdx <= j /\ j <= newEndIdx
  BY <1>2, <1>3 DEF Placed
<1>6. \A i \in Remaining : i \in Int /\ oldStartIdx <= i /\ i <= oldEndIdx
  BY <1>3 DEF Remaining
<1>7. /\ OldStart # Undefined => oldStartIdx \in Remaining
      /\ OldEnd # Undefined => oldEndIdx \in Remaining
  BY <1>1, <1>3 DEF Remaining, OldStart, OldEnd
<1> QED
  BY <1>1, <1>3, <1>4, <1>5, <1>6, <1>7

\* An element that has been passed on: who stands before it, who after it
LEMMA AroundFacts ==
  ASSUME Inv, patching, NEW i \in Remaining
  PROVE  /\ oldCh[i].elm \in ToSet(dom) /\ oldCh[i].elm \in Int
         /\ \A k \in Remaining : oldCh[k].elm = oldCh[i].elm => k = i
         /\ \A k \in Placed : newCh[k].elm # oldCh[i].elm
         /\ \A k \in Remaining : k < i => Precedes(dom, oldCh[k].elm, oldCh[i].elm)
         /\ \A k \in Remaining : i < k => Precedes(dom, oldCh[i].elm, oldCh[k].elm)
         /\ canMove => \A k \in Placed :
              IF k < newStartIdx THEN Precedes(dom, newCh[k].elm, oldCh[i].elm)
                                 ELSE Precedes(dom, oldCh[i].elm, newCh[k].elm)
<1>1. ElementsInv /\ OrderInv /\ DocumentInv /\ OldInv /\ Remaining \subseteq DOMAIN oldCh
      /\ \A k \in Remaining : oldCh[k] # Undefined
  BY Basics DEF PatchInv
<1>2. oldCh[i].elm \in ToSet(dom)
  BY <1>1 DEF ElementsInv
<1>3. oldCh[i].elm \in Int
  BY <1>1, <1>2, ListFacts DEF DocumentInv
<1> QED
  BY <1>1, <1>2, <1>3 DEF ElementsInv, OrderInv, OldInv

\* The indices after a vnode at an end has been visited
LEMMA SkipStartInv == ASSUME Inv, SkipStart PROVE Inv'
<1>1. /\ InLoop /\ OldStart = Undefined /\ oldStartIdx' = oldStartIdx + 1
      /\ UNCHANGED <<dom, leaving, oldCh, newCh, oldEndIdx, newStartIdx, newEndIdx, keyToOldIdx,
                     canMove, nextCh, patching, removed>>
  BY DEF SkipStart, SkipsStart, mode
<1>2. Remaining' = Remaining
  <2>1. oldCh[oldStartIdx] = Undefined /\ oldStartIdx \in Int /\ oldEndIdx \in Int
    BY <1>1, LoopFacts DEF OldStart
  <2> QED
    BY <1>1, <2>1 DEF Remaining
<1>3. Placed' = Placed
  BY <1>1 DEF Placed
<1>4. DocumentInv /\ PatchInv
  BY <1>1, LoopFacts, Basics
<1>5. IndicesInv'
  BY <1>1, <1>4 DEF PatchInv, IndicesInv, InLoop
<1>6. OldInv' /\ ElementsInv' /\ OrderInv' /\ RemovalInv' /\ FateInv' /\ ReuseInv' /\ DocumentInv'
  BY <1>1, <1>2, <1>3, <1>4
     DEF PatchInv, OldInv, ElementsInv, OrderInv, RemovalInv, FateInv, ReuseInv, DocumentInv
<1>7. KeysInv'
  BY <1>1, <1>2, <1>3, <1>4 DEF PatchInv, KeysInv, IsKeyMap
<1> QED
  BY <1>1, <1>5, <1>6, <1>7 DEF Inv, PatchInv, InLoop

LEMMA SkipEndInv == ASSUME Inv, SkipEnd PROVE Inv'
<1>1. /\ InLoop /\ OldEnd = Undefined /\ oldEndIdx' = oldEndIdx - 1
      /\ UNCHANGED <<dom, leaving, oldCh, newCh, oldStartIdx, newStartIdx, newEndIdx, keyToOldIdx,
                     canMove, nextCh, patching, removed>>
  BY DEF SkipEnd, SkipsEnd, mode
<1>2. Remaining' = Remaining
  <2>1. oldCh[oldEndIdx] = Undefined /\ oldStartIdx \in Int /\ oldEndIdx \in Int
    BY <1>1, LoopFacts DEF OldEnd
  <2> QED
    BY <1>1, <2>1 DEF Remaining
<1>3. Placed' = Placed
  BY <1>1 DEF Placed
<1>4. DocumentInv /\ PatchInv
  BY <1>1, LoopFacts, Basics
<1>5. IndicesInv'
  BY <1>1, <1>4 DEF PatchInv, IndicesInv, InLoop
<1>6. OldInv' /\ ElementsInv' /\ OrderInv' /\ RemovalInv' /\ FateInv' /\ ReuseInv' /\ DocumentInv'
  BY <1>1, <1>2, <1>3, <1>4
     DEF PatchInv, OldInv, ElementsInv, OrderInv, RemovalInv, FateInv, ReuseInv, DocumentInv
<1>7. KeysInv'
  BY <1>1, <1>2, <1>3, <1>4 DEF PatchInv, KeysInv, IsKeyMap
<1> QED
  BY <1>1, <1>5, <1>6, <1>7 DEF Inv, PatchInv, InLoop

\* The indices and what they leave, when one old and one new child are done with
LEMMA VisitedFacts ==
  ASSUME Inv, InLoop, NEW i, NEW j,
         \/ i = oldStartIdx /\ oldStartIdx' = oldStartIdx + 1 /\ oldEndIdx' = oldEndIdx /\ oldCh' = oldCh
         \/ i = oldEndIdx /\ oldEndIdx' = oldEndIdx - 1 /\ oldStartIdx' = oldStartIdx /\ oldCh' = oldCh
         \/ /\ i \in Remaining /\ oldCh' = [oldCh EXCEPT ![i] = Undefined]
            /\ oldStartIdx' = oldStartIdx /\ oldEndIdx' = oldEndIdx,
         \/ j = newStartIdx /\ newStartIdx' = newStartIdx + 1 /\ newEndIdx' = newEndIdx
         \/ j = newEndIdx /\ newEndIdx' = newEndIdx - 1 /\ newStartIdx' = newStartIdx,
         DOMAIN newCh' = DOMAIN newCh, Len(newCh') = Len(newCh)
  PROVE  Remaining' = Remaining \ {i} /\ Placed' = Placed \union {j} /\ IndicesInv'
<1>1. /\ oldStartIdx \in Int /\ oldEndIdx \in Int /\ newStartIdx \in Int /\ newEndIdx \in Int
      /\ patching /\ oldStartIdx <= oldEndIdx /\ newStartIdx <= newEndIdx
      /\ \A k \in Remaining : k \in Int /\ oldStartIdx <= k /\ k <= oldEndIdx
      /\ newStartIdx \in DOMAIN newCh /\ newEndIdx \in DOMAIN newCh
  BY LoopFacts DEF InLoop
<1>2. /\ IndicesInv /\ oldCh \in Seq(Vnodes \union {Undefined})
      /\ DOMAIN oldCh = 1 .. Len(oldCh) /\ Len(oldCh) \in Nat
      /\ DOMAIN newCh = 1 .. Len(newCh) /\ Len(newCh) \in Nat
      /\ Remaining \subseteq DOMAIN oldCh
  BY <1>1, Basics DEF PatchInv, OldInv
<1>3. Placed' = Placed \union {j}
  <2>1. \A k \in DOMAIN newCh : k \in Int
    BY <1>2
  <2>2. CASE j = newStartIdx /\ newStartIdx' = newStartIdx + 1 /\ newEndIdx' = newEndIdx
    <3>1. \A k \in DOMAIN newCh : (k < newStartIdx' \/ k > newEndIdx') <=>
                                    (k < newStartIdx \/ k > newEndIdx \/ k = j)
      BY <1>1, <2>1, <2>2
    <3> QED
      BY <1>1, <2>2, <3>1 DEF Placed
  <2>3. CASE j = newEndIdx /\ newEndIdx' = newEndIdx - 1 /\ newStartIdx' = newStartIdx
    <3>1. \A k \in DOMAIN newCh : (k < newStartIdx' \/ k > newEndIdx') <=>
                                    (k < newStartIdx \/ k > newEndIdx \/ k = j)
      BY <1>1, <2>1, <2>3
    <3> QED
      BY <1>1, <2>3, <3>1 DEF Placed
  <2> QED
    BY <2>2, <2>3
<1>4. Len(oldCh') = Len(oldCh) /\ Remaining' = Remaining \ {i}
  <2>1. CASE i = oldStartIdx /\ oldStartIdx' = oldStartIdx + 1 /\ oldEndIdx' = oldEndIdx /\ oldCh' = oldCh
    BY <1>1, <2>1 DEF Remaining
  <2>2. CASE i = oldEndIdx /\ oldEndIdx' = oldEndIdx - 1 /\ oldStartIdx' = oldStartIdx /\ oldCh' = oldCh
    BY <1>1, <2>2 DEF Remaining
  <2>3. CASE /\ i \in Remaining /\ oldCh' = [oldCh EXCEPT ![i] = Undefined]
             /\ oldStartIdx' = oldStartIdx /\ oldEndIdx' = oldEndIdx
    <3>1. i \in DOMAIN oldCh /\ \A k \in oldStartIdx .. oldEndIdx : k \in DOMAIN oldCh
      BY <1>1, <1>2, <2>3 DEF IndicesInv
    <3>2. Len(oldCh') = Len(oldCh) /\ oldCh'[i] = Undefined
          /\ \A k \in DOMAIN oldCh : k # i => oldCh'[k] = oldCh[k]
      BY <1>2, <2>3, <3>1
    <3> QED
      BY <2>3, <3>1, <3>2 DEF Remaining
  <2> QED
    BY <2>1, <2>2, <2>3
<1>5. IndicesInv'
  BY <1>1, <1>2, <1>4, SMTT(30) DEF IndicesInv
<1> QED
  BY <1>3, <1>4, <1>5

LEMMA PatchStartInv == ASSUME Inv, PatchStart PROVE Inv'
<1> DEFINE i == oldStartIdx
           j == newStartIdx
<1>1. /\ InLoop /\ OldStart # Undefined /\ sameVnode(oldCh[i], newCh[j]) /\ PatchVnode(oldCh[i], j)
      /\ oldStartIdx' = oldStartIdx + 1 /\ newStartIdx' = newStartIdx + 1
      /\ UNCHANGED <<dom, leaving, oldCh, oldEndIdx, newEndIdx, keyToOldIdx, mode, removed>>
  BY DEF PatchStart, SameStart, Compares, OldStart, NewStart
<1>2. /\ i \in Remaining /\ j \in DOMAIN newCh \ Placed /\ newStartIdx <= newEndIdx /\ patching
      /\ \A k \in Remaining : k \in Int /\ i \in Int /\ i <= k
  BY <1>1, LoopFacts
<1>3. DOMAIN newCh' = DOMAIN newCh /\ Len(newCh') = Len(newCh) /\ IsList(dom)
  BY <1>1, <1>2, Basics DEF PatchVnode, DocumentInv
<1>4. Remaining' = Remaining \ {i} /\ Placed' = Placed \union {j} /\ IndicesInv'
  BY <1>1, <1>3, VisitedFacts
<1>5. Passes(i, j)
  BY <1>1, <1>2, <1>3, <1>4 DEF Passes
<1>6. OrderInv'
  <2>1. CASE ~canMove
    BY <1>1, <1>2, <1>5, <2>1, PassInPlace
  <2>2. CASE canMove
    <3>1. PICK e : e = oldCh[i].elm
      OBVIOUS
    <3>2. \A k \in Remaining \ {i} : i < k /\ Precedes(dom, e, oldCh[k].elm)
      BY <1>2, <3>1, AroundFacts
    <3>3. \A k \in Placed : IF k < newStartIdx THEN Precedes(dom, newCh[k].elm, e)
                                               ELSE Precedes(dom, e, newCh[k].elm)
      BY <1>2, <2>2, <3>1, AroundFacts
    <3>4. j < newStartIdx' /\ dom' = dom
      BY <1>1, LoopFacts
    <3> QED
      BY <1>1, <1>2, <1>5, <2>2, <3>1, <3>2, <3>3, <3>4, PassKeepsOrder
  <2> QED
    BY <2>1, <2>2
<1> QED
  BY <1>1, <1>2, <1>4, <1>5, <1>6, PassInv

LEMMA PatchEndInv == ASSUME Inv, PatchEnd PROVE Inv'
<1> DEFINE i == oldEndIdx
           j == newEndIdx
<1>1. /\ InLoop /\ OldEnd # Undefined /\ sameVnode(oldCh[i], newCh[j]) /\ PatchVnode(oldCh[i], j)
      /\ oldEndIdx' = oldEndIdx - 1 /\ newEndIdx' = newEndIdx - 1
      /\ UNCHANGED <<dom, leaving, oldCh, oldStartIdx, newStartIdx, keyToOldIdx, mode, removed>>
  BY DEF PatchEnd, SameEnd, Compares, OldEnd, NewEnd
<1>2. /\ i \in Remaining /\ j \in DOMAIN newCh \ Placed /\ newStartIdx <= newEndIdx /\ patching
      /\ \A k \in Remaining : k \in Int /\ i \in Int /\ k <= i
  BY <1>1, LoopFacts
<1>3. DOMAIN newCh' = DOMAIN newCh /\ Len(newCh') = Len(newCh) /\ IsList(dom)
  BY <1>1, <1>2, Basics DEF PatchVnode, DocumentInv
<1>4. Remaining' = Remaining \ {i} /\ Placed' = Placed \union {j} /\ IndicesInv'
  BY <1>1, <1>3, VisitedFacts
<1>5. Passes(i, j)
  BY <1>1, <1>2, <1>3, <1>4 DEF Passes
<1>6. OrderInv'
  <2>1. CASE ~canMove
    BY <1>1, <1>2, <1>5, <2>1, PassInPlace
  <2>2. CASE canMove
    <3>1. PICK e : e = oldCh[i].elm
      OBVIOUS
    <3>2. \A k \in Remaining \ {i} : k < i /\ Precedes(dom, oldCh[k].elm, e)
      BY <1>2, <3>1, AroundFacts
    <3>3. \A k \in Placed : IF k < newStartIdx THEN Precedes(dom, newCh[k].elm, e)
                                               ELSE Precedes(dom, e, newCh[k].elm)
      BY <1>2, <2>2, <3>1, AroundFacts
    <3>4. ~(j < newStartIdx') /\ dom' = dom
      BY <1>1, LoopFacts
    <3> QED
      BY <1>1, <1>2, <1>5, <2>2, <3>1, <3>2, <3>3, <3>4, PassKeepsOrder
  <2> QED
    BY <2>1, <2>2
<1> QED
  BY <1>1, <1>2, <1>4, <1>5, <1>6, PassInv

LEMMA MoveRightInv == ASSUME Inv, MoveRight PROVE Inv'
<1> DEFINE i == oldStartIdx
           j == newEndIdx
<1>1. /\ InLoop /\ OldStart # Undefined /\ OldEnd # Undefined
      /\ sameVnode(oldCh[i], newCh[j]) /\ ~sameVnode(oldCh[oldEndIdx], newCh[j])
      /\ PatchVnode(oldCh[i], j) /\ Move(oldCh[i].elm, NextSibling(oldCh[oldEndIdx].elm))
      /\ oldStartIdx' = oldStartIdx + 1 /\ newEndIdx' = newEndIdx - 1
      /\ UNCHANGED <<leaving, oldCh, oldEndIdx, newStartIdx, keyToOldIdx, mode, removed>>
  BY DEF MoveRight, MovesRight, SameEnd, Compares, OldStart, OldEnd, NewEnd, AfterEnd
<1>2. /\ i \in Remaining /\ oldEndIdx \in Remaining /\ i # oldEndIdx
      /\ j \in DOMAIN newCh \ Placed /\ newStartIdx <= newEndIdx /\ patching
      /\ \A k \in Remaining : k \in Int /\ oldEndIdx \in Int /\ k <= oldEndIdx
      /\ ~(j < newStartIdx')
  BY <1>1, LoopFacts
<1>3. DOMAIN newCh' = DOMAIN newCh /\ Len(newCh') = Len(newCh) /\ IsList(dom)
  BY <1>1, <1>2, Basics DEF PatchVnode, DocumentInv
<1>4. Remaining' = Remaining \ {i} /\ Placed' = Placed \union {j} /\ IndicesInv'
  BY <1>1, <1>3, VisitedFacts
<1>5. CASE ~canMove
  <2>1. dom' = dom
    BY <1>1, <1>5 DEF Move
  <2>2. Passes(i, j)
    BY <1>1, <1>2, <1>3, <1>4, <2>1 DEF Passes
  <2> QED
    BY <1>1, <1>2, <1>4, <1>5, <2>1, <2>2, PassInPlace, PassInv
<1>6. CASE canMove
  <2>1. PICK e, f : e = oldCh[i].elm /\ f = oldCh[oldEndIdx].elm
    OBVIOUS
  <2>2. e \in ToSet(dom) /\ f \in ToSet(dom) /\ e # f
    BY <1>2, <2>1, AroundFacts
  <2>3. PICK d : d = InsertBefore(e, NextSibling(f))
    OBVIOUS
  <2>4. dom' = d
    BY <1>1, <1>6, <2>1, <2>3 DEF Move
  <2>5. /\ IsList(d) /\ ToSet(d) = ToSet(dom)
        /\ \A x, y : x # e /\ y # e => (Precedes(d, x, y) <=> Precedes(dom, x, y))
        /\ \A x : x # e => (Precedes(d, x, e) <=> x = f \/ Precedes(dom, x, f))
        /\ \A y : y # e => (Precedes(d, e, y) <=> Precedes(dom, f, y))
    BY <1>3, <2>2, <2>3, MovedAfter, ConstantsAssumption
  <2>6. Passes(i, j)
    BY <1>1, <1>2, <1>3, <1>4, <2>4, <2>5 DEF Passes
  <2>7. \A k \in Remaining \ {i} : Precedes(d, oldCh[k].elm, e)
    <3>1. ASSUME NEW k \in Remaining \ {i} PROVE Precedes(d, oldCh[k].elm, e)
      <4>1. oldCh[k].elm # e
        BY <1>2, <2>1, AroundFacts
      <4>2. k = oldEndIdx \/ k < oldEndIdx
        BY <1>2
      <4>3. oldCh[k].elm = f \/ Precedes(dom, oldCh[k].elm, f)
        BY <1>2, <2>1, <4>2, AroundFacts
      <4> QED
        BY <2>5, <4>1, <4>3
    <3> QED
      BY <3>1
  <2>8. \A k \in Placed : IF k < newStartIdx THEN Precedes(d, newCh[k].elm, e)
                                             ELSE Precedes(d, e, newCh[k].elm)
    <3>1. \A k \in Placed : newCh[k].elm # e
      BY <1>2, <2>1, AroundFacts
    <3>2. \A k \in Placed : IF k < newStartIdx THEN Precedes(dom, newCh[k].elm, f)
                                               ELSE Precedes(dom, f, newCh[k].elm)
      BY <1>2, <1>6, <2>1, AroundFacts
    <3> QED
      BY <2>5, <3>1, <3>2
  <2>9. OrderInv'
    BY <1>1, <1>2, <1>6, <2>1, <2>4, <2>5, <2>6, <2>7, <2>8, PassKeepsOrder
  <2> QED
    BY <1>1, <1>2, <1>4, <1>6, <2>6, <2>9, PassInv
<1> QED
  BY <1>5, <1>6

\* An old child that is not the first that remains goes before it.
LEMMA MoveToFrontInv ==
  ASSUME Inv, InLoop, OldStart # Undefined, NEW i, i \in Remaining, i # oldStartIdx,
         sameVnode(oldCh[i], newCh[newStartIdx]),
         PatchVnode(oldCh[i], newStartIdx), Move(oldCh[i].elm, OldStart.elm),
         \/ i = oldEndIdx /\ oldEndIdx' = oldEndIdx - 1 /\ oldStartIdx' = oldStartIdx /\ oldCh' = oldCh
         \/ /\ oldCh' = [oldCh EXCEPT ![i] = Undefined]
            /\ oldStartIdx' = oldStartIdx /\ oldEndIdx' = oldEndIdx,
         newStartIdx' = newStartIdx + 1, UNCHANGED <<leaving, newEndIdx, mode, removed>>,
         \/ keyToOldIdx' = keyToOldIdx /\ oldCh' = oldCh
         \/ keyToOldIdx' = OldKeys
  PROVE  Inv'
<1> DEFINE j == newStartIdx
<1>2. /\ oldStartIdx \in Remaining
      /\ j \in DOMAIN newCh \ Placed /\ newStartIdx <= newEndIdx /\ patching
      /\ \A k \in Remaining : k \in Int /\ oldStartIdx \in Int /\ oldStartIdx <= k
      /\ j < newStartIdx'
  BY LoopFacts
<1>3. DOMAIN newCh' = DOMAIN newCh /\ Len(newCh') = Len(newCh) /\ IsList(dom)
  BY <1>2, Basics DEF PatchVnode, DocumentInv
<1>4. Remaining' = Remaining \ {i} /\ Placed' = Placed \union {j} /\ IndicesInv'
  BY <1>3, VisitedFacts
<1>5. CASE ~canMove
  <2>1. dom' = dom
    BY <1>5 DEF Move
  <2>2. Passes(i, j)
    BY <1>2, <1>3, <1>4, <2>1 DEF Passes
  <2>3. OrderInv'
    BY <1>2, <1>5, <2>1, <2>2, PassInPlace
  <2> QED
    BY <1>2, <1>4, <1>5, <2>1, <2>2, <2>3, PassInv
<1>6. CASE canMove
  <2>1. PICK e, f : e = oldCh[i].elm /\ f = oldCh[oldStartIdx].elm
    OBVIOUS
  <2>2. e \in Int /\ e \in ToSet(dom) /\ f \in ToSet(dom) /\ e # f
    BY <1>2, <2>1, AroundFacts
  <2>3. PICK d : d = InsertBefore(e, f)
    OBVIOUS
  <2>4. dom' = d
    BY <1>6, <2>1, <2>3 DEF Move, OldStart
  <2>5. /\ IsList(d) /\ ToSet(d) = ToSet(dom) \union {e}
        /\ \A x, y : x # e /\ y # e => (Precedes(d, x, y) <=> Precedes(dom, x, y))
        /\ \A x : x # e => (Precedes(d, x, e) <=> Precedes(dom, x, f))
        /\ \A y : y # e => (Precedes(d, e, y) <=> y = f \/ Precedes(dom, f, y))
    BY <1>3, <2>2, <2>3, MovedBefore, ConstantsAssumption
  <2>6. ToSet(d) = ToSet(dom)
    BY <2>2, <2>5
  <2>7. Passes(i, j)
    BY <1>2, <1>3, <1>4, <2>4, <2>5, <2>6 DEF Passes
  <2>8. \A k \in Remaining \ {i} : Precedes(d, e, oldCh[k].elm)
    <3>1. ASSUME NEW k \in Remaining \ {i} PROVE Precedes(d, e, oldCh[k].elm)
      <4>1. oldCh[k].elm # e
        BY <1>2, <2>1, AroundFacts
      <4>2. k = oldStartIdx \/ oldStartIdx < k
        BY <1>2
      <4>3. oldCh[k].elm = f \/ Precedes(dom, f, oldCh[k].elm)
        BY <1>2, <2>1, <4>2, AroundFacts
      <4> QED
        BY <2>5, <4>1, <4>3
    <3> QED
      BY <3>1
  <2>9. \A k \in Placed : IF k < newStartIdx THEN Precedes(d, newCh[k].elm, e)
                                             ELSE Precedes(d, e, newCh[k].elm)
    <3>1. \A k \in Placed : newCh[k].elm # e
      BY <1>2, <2>1, AroundFacts
    <3>2. \A k \in Placed : IF k < newStartIdx THEN Precedes(dom, newCh[k].elm, f)
                                               ELSE Precedes(dom, f, newCh[k].elm)
      BY <1>2, <1>6, <2>1, AroundFacts
    <3> QED
      BY <2>5, <3>1, <3>2
  <2>10. OrderInv'
    BY <1>2, <1>6, <2>1, <2>4, <2>5, <2>7, <2>8, <2>9, PassKeepsOrder
  <2> QED
    BY <1>2, <1>4, <1>6, <2>7, <2>10, PassInv
<1> QED
  BY <1>5, <1>6

LEMMA MoveLeftInv == ASSUME Inv, MoveLeft PROVE Inv'
<1>1. /\ InLoop /\ OldStart # Undefined /\ OldEnd # Undefined
      /\ sameVnode(oldCh[oldEndIdx], newCh[newStartIdx])
      /\ ~sameVnode(oldCh[oldStartIdx], newCh[newStartIdx])
      /\ PatchVnode(oldCh[oldEndIdx], newStartIdx) /\ Move(oldCh[oldEndIdx].elm, OldStart.elm)
      /\ oldEndIdx' = oldEndIdx - 1 /\ newStartIdx' = newStartIdx + 1
      /\ UNCHANGED <<leaving, oldCh, oldStartIdx, newEndIdx, keyToOldIdx, mode, removed>>
  BY DEF MoveLeft, MovesLeft, SameStart, Compares, OldStart, OldEnd, NewStart
<1>2. oldEndIdx \in Remaining /\ oldEndIdx # oldStartIdx
  BY <1>1, LoopFacts
<1> QED
  BY <1>1, <1>2, MoveToFrontInv

\* What is found is still in the list, and is found by its key.
LEMMA CandidateFacts ==
  ASSUME Inv, Searches
  PROVE  /\ \A i \in Candidates : i \in Remaining
         /\ \A i \in Remaining : oldCh[i].key # Undefined /\ oldCh[i].key = NewStart.key => i \in Candidates
<1>1. /\ InLoop /\ patching /\ newStartIdx \in DOMAIN newCh \ Placed
      /\ oldStartIdx \in Int /\ oldEndIdx \in Int
      /\ IsKeyMap(OldKeys)
  BY LoopFacts, OldKeysFacts DEF Searches, Compares
<1>2. CASE NewStart.key = Undefined
  <2>1. \A i \in findIdxInOld : i \in Remaining
    BY <1>1 DEF findIdxInOld, IsCandidate, Remaining
  <2> QED
    BY <1>2, <2>1 DEF Candidates
<1>3. CASE NewStart.key # Undefined
  <2>1. Candidates = { OldKeys[k] : k \in {NewStart.key} \intersect DOMAIN OldKeys }
    BY <1>3 DEF Candidates
  <2>2. PICK m : m = OldKeys
    OBVIOUS
  <2>3. ASSUME NEW i \in Candidates PROVE i \in Remaining
    <3>1. newCh[newStartIdx].key \in DOMAIN m /\ i = m[newCh[newStartIdx].key]
      BY <2>1, <2>2 DEF NewStart
    <3> QED
      BY <1>1, <2>2, <3>1 DEF IsKeyMap
  <2>4. ASSUME NEW i \in Remaining, oldCh[i].key # Undefined, oldCh[i].key = NewStart.key
        PROVE  i \in Candidates
    BY <1>1, <2>1, <2>2, <2>4 DEF IsKeyMap
  <2> QED
    BY <2>3, <2>4
<1> QED
  BY <1>2, <1>3

LEMMA FoundInv == ASSUME Inv, Found PROVE Inv'
<1>1. PICK i \in Candidates :
        /\ sameVnode(oldCh[i], newCh[newStartIdx])
        /\ PatchVnode(oldCh[i], newStartIdx)
        /\ oldCh' = [oldCh EXCEPT ![i] = Undefined]
        /\ Move(oldCh[i].elm, OldStart.elm)
  BY DEF Found, Finds, FoundIsGone, NewStart
<1>2. /\ InLoop /\ Searches /\ OldStart # Undefined /\ keyToOldIdx' = OldKeys
      /\ newStartIdx' = newStartIdx + 1
      /\ ~sameVnode(oldCh[oldStartIdx], newCh[newStartIdx])
      /\ UNCHANGED <<leaving, oldStartIdx, oldEndIdx, newEndIdx, mode, removed>>
  BY DEF Found, Searches, SameStart, Compares, OldStart, NewStart
<1>3. i \in Remaining /\ i # oldStartIdx
  BY <1>1, <1>2, CandidateFacts
<1> QED
  BY <1>1, <1>2, <1>3, MoveToFrontInv

-----------------------------------------------------------------------------
(***************************************************************************)
(* A new child gets an element of its own.                                 *)
(***************************************************************************)
\* The place that NotFound and AddRest choose for it
IsPlaceToCreate(ref) ==
  \/ oldStartIdx \in Remaining /\ ref = oldCh[oldStartIdx].elm
  \/ Remaining = {} /\ ref = RefElm

LEMMA NewElmFacts ==
  ASSUME Inv, patching, newStartIdx <= newEndIdx
  PROVE  /\ NewElm \in Int /\ NewElm \notin ToSet(dom) /\ NewElm \notin DOMAIN removed
         /\ newStartIdx \in DOMAIN newCh \ Placed
         /\ \A k \in Placed : newCh[k].elm \in ToSet(dom)
         /\ \A i \in Remaining : oldCh[i].elm \in ToSet(dom)
<1>1. /\ IndicesInv /\ OldInv /\ ElementsInv
      /\ DOMAIN newCh = 1 .. Len(newCh) /\ Len(newCh) \in Nat
  BY Basics DEF PatchInv
<1>2. newStartIdx \in DOMAIN newCh \ Placed /\ newStartIdx \in Nat \ {0} /\ newEndIdx \in Nat
  BY <1>1 DEF IndicesInv, Placed
<1>3. NewElm \in Int /\ NewElm < 0
  BY <1>2 DEF NewElm
<1>4. NewElm \notin DOMAIN removed
  <2>1. \A e \in DOMAIN removed : e \in Int /\ 0 < e
    BY <1>1 DEF OldInv
  <2> QED
    BY <1>3, <2>1
<1>5. NewElm \notin ToSet(dom)
  <2>1. ASSUME NEW k \in Placed, NewElm = -k PROVE FALSE
    <3>1. k \in Int /\ newStartIdx \in Int /\ -newStartIdx = -k
      BY <1>1, <1>2, <2>1 DEF NewElm, Placed
    <3>2. k = newStartIdx
      BY <3>1
    <3> QED
      BY <1>2, <3>2
  <2> QED
    BY <1>1, <1>4, <2>1 DEF ElementsInv
<1> QED
  BY <1>1, <1>2, <1>3, <1>4, <1>5 DEF ElementsInv

LEMMA CreateOrder ==
  ASSUME Inv, patching, newStartIdx <= newEndIdx, canMove, NEW ref, IsPlaceToCreate(ref),
         NEW e, e = NewElm, NEW d, d = InsertBefore(e, ref)
  PROVE  /\ IsList(d) /\ ToSet(d) = ToSet(dom) \union {e}
         /\ \A x, y : x # e /\ y # e => (Precedes(d, x, y) <=> Precedes(dom, x, y))
         /\ \A k \in Placed : IF k < newStartIdx THEN Precedes(d, newCh[k].elm, e)
                                                 ELSE Precedes(d, e, newCh[k].elm)
         /\ \A k \in Remaining : Precedes(d, e, oldCh[k].elm)
<1>1. /\ e \in Int /\ e \notin ToSet(dom)
      /\ \A k \in Placed : newCh[k].elm \in ToSet(dom)
      /\ \A i \in Remaining : oldCh[i].elm \in ToSet(dom)
  BY NewElmFacts
<1>2. /\ IsList(dom) /\ OrderInv /\ IndicesInv
      /\ DOMAIN newCh = 1 .. Len(newCh) /\ Len(newCh) \in Nat
  BY Basics DEF PatchInv, DocumentInv
<1>3. /\ newStartIdx \in Int /\ newEndIdx \in Int /\ newEndIdx <= Len(newCh)
  BY <1>2 DEF IndicesInv
<1>4. \A k \in Placed : k \in Int /\ 1 <= k /\ k <= Len(newCh) /\ (k < newStartIdx \/ newEndIdx < k)
  BY <1>2, <1>3 DEF Placed
<1>5. CASE oldStartIdx \in Remaining /\ ref = oldCh[oldStartIdx].elm
  <2>1. ref \in ToSet(dom) /\ ref # e
    BY <1>1, <1>5
  <2>2. /\ IsList(d) /\ ToSet(d) = ToSet(dom) \union {e}
        /\ \A x, y : x # e /\ y # e => (Precedes(d, x, y) <=> Precedes(dom, x, y))
        /\ \A x : x # e => (Precedes(d, x, e) <=> Precedes(dom, x, ref))
        /\ \A y : y # e => (Precedes(d, e, y) <=> y = ref \/ Precedes(dom, ref, y))
    BY <1>1, <1>2, <2>1, MovedBefore, ConstantsAssumption
  <2>3. \A k \in Placed : IF k < newStartIdx THEN Precedes(d, newCh[k].elm, e)
                                             ELSE Precedes(d, e, newCh[k].elm)
    BY <1>1, <1>2, <1>5, <2>2 DEF OrderInv
  <2>4. ASSUME NEW k \in Remaining PROVE Precedes(d, e, oldCh[k].elm)
    <3>1. k = oldStartIdx \/ oldStartIdx < k
      BY <1>2 DEF Remaining, IndicesInv
    <3>2. oldCh[k].elm = ref \/ Precedes(dom, ref, oldCh[k].elm)
      BY <1>2, <1>5, <3>1 DEF OrderInv
    <3> QED
      BY <1>1, <2>2, <3>2
  <2> QED
    BY <2>2, <2>3, <2>4
<1>6. CASE Remaining = {} /\ ref = RefElm
  <2>1. CASE newEndIdx + 1 \in DOMAIN newCh
    <3>1. PICK n : n = newEndIdx + 1
      OBVIOUS
    <3>2. n \in Placed /\ ref = newCh[n].elm /\ n \in Int
      BY <1>3, <1>6, <2>1, <3>1 DEF RefElm, Placed
    <3>3. ref \in ToSet(dom) /\ ref # e
      BY <1>1, <3>2
    <3>4. /\ IsList(d) /\ ToSet(d) = ToSet(dom) \union {e}
          /\ \A x, y : x # e /\ y # e => (Precedes(d, x, y) <=> Precedes(dom, x, y))
          /\ \A x : x # e => (Precedes(d, x, e) <=> Precedes(dom, x, ref))
          /\ \A y : y # e => (Precedes(d, e, y) <=> y = ref \/ Precedes(dom, ref, y))
      BY <1>1, <1>2, <3>3, MovedBefore, ConstantsAssumption
    <3>5. ASSUME NEW k \in Placed
          PROVE  IF k < newStartIdx THEN Precedes(d, newCh[k].elm, e) ELSE Precedes(d, e, newCh[k].elm)
      <4>1. newCh[k].elm # e
        BY <1>1
      <4>2. CASE k < newStartIdx
        <5>1. k < n
          BY <1>3, <1>4, <3>1, <4>2
        <5>2. Precedes(dom, newCh[k].elm, ref)
          BY <1>2, <3>2, <5>1 DEF OrderInv
        <5> QED
          BY <3>4, <4>1, <4>2, <5>2
      <4>3. CASE ~(k < newStartIdx)
        <5>1. k = n \/ n < k
          BY <1>3, <1>4, <3>1, <4>3
        <5>2. newCh[k].elm = ref \/ Precedes(dom, ref, newCh[k].elm)
          BY <1>2, <3>2, <5>1 DEF OrderInv
        <5> QED
          BY <3>4, <4>1, <4>3, <5>2
      <4> QED
        BY <4>2, <4>3
    <3> QED
      BY <1>6, <3>4, <3>5
  <2>2. CASE newEndIdx + 1 \notin DOMAIN newCh
    <3>1. d = InsertBefore(e, Undefined)
      BY <1>6, <2>2 DEF RefElm
    <3>2. /\ IsList(d) /\ ToSet(d) = ToSet(dom) \union {e}
          /\ \A x, y : x # e /\ y # e => (Precedes(d, x, y) <=> Precedes(dom, x, y))
          /\ \A x : x # e => (Precedes(d, x, e) <=> x \in ToSet(dom))
      BY <1>1, <1>2, <3>1, MovedToEnd, ConstantsAssumption
    <3>3. newEndIdx = Len(newCh)
      <4>1. newEndIdx \in Nat /\ Len(newCh) \in Nat /\ newEndIdx + 1 \notin 1 .. Len(newCh)
        BY <1>2, <2>2 DEF IndicesInv
      <4> QED
        BY <1>3, <4>1
    <3>4. \A k \in Placed : k < newStartIdx
      BY <1>3, <1>4, <3>3
    <3> QED
      BY <1>1, <1>6, <3>2, <3>4
  <2> QED
    BY <2>1, <2>2
<1> QED
  BY <1>5, <1>6 DEF IsPlaceToCreate

LEMMA CreateInv ==
  ASSUME Inv, patching, newStartIdx <= newEndIdx, canMove,
         NEW ref, IsPlaceToCreate(ref), Create(ref),
         \A i \in Remaining : oldCh[i].key # Undefined => ~sameVnode(oldCh[i], newCh[newStartIdx]),
         UNCHANGED <<leaving, oldCh, oldStartIdx, oldEndIdx, newEndIdx, mode, removed>>,
         keyToOldIdx' = keyToOldIdx \/ keyToOldIdx' = OldKeys
  PROVE  Inv'
<1>1. PICK e, j : e = NewElm /\ j = newStartIdx
  OBVIOUS
<1>2. /\ e \in Int /\ e \notin ToSet(dom) /\ e \notin DOMAIN removed /\ e = -j
      /\ j \in DOMAIN newCh \ Placed
      /\ \A k \in Placed : newCh[k].elm \in ToSet(dom)
      /\ \A i \in Remaining : oldCh[i].elm \in ToSet(dom)
  BY <1>1, NewElmFacts DEF NewElm
<1>3. /\ DocumentInv /\ OldInv /\ ElementsInv /\ OrderInv /\ IndicesInv /\ KeysInv /\ FateInv /\ ReuseInv
      /\ DOMAIN newCh = 1 .. Len(newCh) /\ Len(newCh) \in Nat
      /\ Placed \subseteq DOMAIN newCh
      /\ \A k \in DOMAIN newCh : newCh[k] \in Vnodes /\ newCh[k] # Undefined
  BY Basics DEF PatchInv
<1>4. PICK d : d = InsertBefore(e, ref)
  OBVIOUS
<1>5. /\ IsList(d) /\ ToSet(d) = ToSet(dom) \union {e} /\ dom' = d
      /\ \A x, y : x # e /\ y # e => (Precedes(d, x, y) <=> Precedes(dom, x, y))
      /\ \A k \in Placed : IF k < newStartIdx THEN Precedes(d, newCh[k].elm, e)
                                              ELSE Precedes(d, e, newCh[k].elm)
      /\ \A k \in Remaining : Precedes(d, e, oldCh[k].elm)
  BY <1>1, <1>4, CreateOrder DEF Create
<1>6. newCh' = [newCh EXCEPT ![j] = [newCh[j] EXCEPT !.elm = e]]
  BY <1>1 DEF Create
<1>7. [newCh[j] EXCEPT !.elm = e] \in Vnodes
  BY <1>2, <1>3 DEF Vnodes
<1>8. /\ newCh' \in Seq(Vnodes) /\ DOMAIN newCh' = DOMAIN newCh /\ Len(newCh') = Len(newCh)
      /\ \A k \in DOMAIN newCh : k # j => newCh'[k] = newCh[k]
      /\ newCh'[j] = [newCh[j] EXCEPT !.elm = e]
  BY <1>2, <1>3, <1>6, <1>7 DEF DocumentInv
<1>9. newCh'[j].elm = e /\ newCh'[j].key = newCh[j].key /\ newCh'[j].tag = newCh[j].tag
  BY <1>2, <1>3, <1>8 DEF Vnodes
<1>10. \A k \in DOMAIN newCh : newCh'[k].key = newCh[k].key /\ newCh'[k].tag = newCh[k].tag
  BY <1>8, <1>9
<1>11. Placed' = Placed \union {j} /\ newStartIdx' = j + 1
  <2>1. \A k \in DOMAIN newCh : k \in Int
    BY <1>3
  <2>2. newStartIdx' = j + 1 /\ newEndIdx' = newEndIdx /\ newEndIdx \in Int /\ j \in Int /\ j <= newEndIdx
    BY <1>1, <1>3 DEF Create, IndicesInv
  <2>3. \A k \in DOMAIN newCh : (k < newStartIdx' \/ k > newEndIdx') <=>
                                  (k < newStartIdx \/ k > newEndIdx \/ k = j)
    BY <1>1, <2>1, <2>2
  <2> QED
    BY <1>2, <1>8, <2>2, <2>3 DEF Placed
<1>12. Remaining' = Remaining
  BY DEF Remaining
<1>13. \A k \in Placed : newCh'[k] = newCh[k] /\ newCh[k].elm # e /\ k # j
  BY <1>2, <1>3, <1>8
<1>14. DocumentInv'
  BY <1>3, <1>5, <1>8, <1>10 DEF DocumentInv, UniqueKeys, mode
<1>15. IndicesInv'
  BY <1>1, <1>3, <1>8, <1>11 DEF IndicesInv
<1>16. OldInv'
  BY <1>3 DEF OldInv
<1>17. ElementsInv'
  <2>1. (ToSet(dom) \ leaving)' =
          { oldCh'[k].elm : k \in Remaining' } \union { newCh'[k].elm : k \in Placed' }
    <3>1. e \notin leaving
      BY <1>2, <1>3 DEF DocumentInv
    <3>2. (ToSet(dom) \ leaving)' = (ToSet(dom) \ leaving) \union {e}
      BY <1>5, <3>1
    <3>3. { newCh'[k].elm : k \in Placed' } = { newCh[k].elm : k \in Placed } \union {e}
      BY <1>9, <1>11, <1>13
    <3> QED
      BY <1>3, <1>12, <3>2, <3>3 DEF ElementsInv
  <2>2. (ToSet(dom) \subseteq DOMAIN removed \union { -k : k \in Placed })'
    BY <1>2, <1>3, <1>5, <1>11 DEF ElementsInv
  <2>3. \A k \in Placed' : newCh'[k].elm \in DOMAIN removed' \union {-k}
    BY <1>2, <1>3, <1>9, <1>11, <1>13 DEF ElementsInv
  <2>4. \A k \in DOMAIN newCh' \ Placed' : canMove' => newCh'[k].elm = Undefined
    BY <1>3, <1>8, <1>11 DEF ElementsInv, mode
  <2>5. \A k \in Placed', l \in Remaining' : newCh'[k].elm # oldCh'[l].elm
    BY <1>2, <1>3, <1>9, <1>11, <1>12, <1>13 DEF ElementsInv
  <2>6. \A k, l \in Placed' : newCh'[k].elm = newCh'[l].elm => k = l
    BY <1>3, <1>9, <1>11, <1>13 DEF ElementsInv
  <2> QED
    BY <2>1, <2>2, <2>3, <2>4, <2>5, <2>6 DEF ElementsInv
<1>18. OrderInv'
  <2>1. \A k, l \in Remaining : k < l => Precedes(d, oldCh[k].elm, oldCh[l].elm)
    BY <1>2, <1>3, <1>5 DEF OrderInv
  <2>2. \A k \in DOMAIN newCh : k \in Int
    BY <1>3
  <2>3. \A k \in Placed : (k < newStartIdx' <=> k < newStartIdx) /\ (k < j <=> k < newStartIdx)
                          /\ j \in Int /\ k \in Int /\ j < newStartIdx'
    BY <1>1, <1>2, <1>3, <1>11, <1>13, <2>2
  <2>4. ASSUME NEW k \in Placed', NEW l \in Placed', k < l
        PROVE  Precedes(d, newCh'[k].elm, newCh'[l].elm)
    <3>1. CASE k # j /\ l # j
      BY <1>3, <1>5, <1>11, <1>13, <2>4, <3>1 DEF OrderInv
    <3>2. CASE k = j
      <4>1. l \in Placed /\ ~(l < newStartIdx)
        BY <1>2, <1>11, <2>2, <2>3, <2>4, <3>2
      <4> QED
        BY <1>5, <1>9, <1>13, <3>2, <4>1
    <3>3. CASE l = j /\ k # j
      <4>1. k \in Placed /\ k < newStartIdx
        BY <1>11, <2>3, <2>4, <3>3
      <4> QED
        BY <1>5, <1>9, <1>13, <3>3, <4>1
    <3> QED
      BY <3>1, <3>2, <3>3
  <2>5. ASSUME NEW k \in Remaining, NEW l \in Placed'
        PROVE  IF l < newStartIdx' THEN Precedes(d, newCh'[l].elm, oldCh[k].elm)
                                   ELSE Precedes(d, oldCh[k].elm, newCh'[l].elm)
    <3>1. CASE l = j
      <4>1. j < newStartIdx'
        BY <1>2, <1>11, <2>2
      <4> QED
        BY <1>5, <1>9, <3>1, <4>1
    <3>2. CASE l # j
      BY <1>2, <1>3, <1>5, <1>11, <1>13, <2>3, <3>2 DEF OrderInv
    <3> QED
      BY <3>1, <3>2
  <2> QED
    BY <1>5, <1>12, <2>1, <2>4, <2>5 DEF OrderInv
<1>19. RemovalInv'
  BY DEF RemovalInv, mode
<1>20. ASSUME NEW m, IsKeyMap(m), keyToOldIdx' = m, m # Undefined PROVE KeysInv'
  <2>1. \A l \in DOMAIN newCh' \ Placed' : l \in DOMAIN newCh \ Placed /\ newCh'[l].key = newCh[l].key
    BY <1>8, <1>10, <1>11
  <2> QED
    BY <1>12, <1>20, <2>1 DEF KeysInv, IsKeyMap
<1>21. KeysInv'
  <2>1. CASE keyToOldIdx' = OldKeys
    BY <1>20, <2>1, OldKeysFacts
  <2>2. CASE keyToOldIdx' = keyToOldIdx
    BY <1>3, <1>20, <2>2 DEF KeysInv
  <2> QED
    BY <2>1, <2>2
<1>22. FateInv'
  <2> SUFFICES ASSUME NEW k \in DOMAIN oldCh, oldCh[k] # Undefined
               PROVE  \/ k \in Remaining /\ removed[oldCh[k].elm] = 0
                      \/ /\ k \notin Remaining /\ removed[oldCh[k].elm] = 0
                         /\ \E l \in Placed' : newCh'[l].elm = oldCh[k].elm /\ newCh'[l].key = oldCh[k].key
    BY <1>12 DEF FateInv
  <2>1. CASE k \in Remaining
    BY <1>3, <2>1 DEF FateInv
  <2>2. CASE k \notin Remaining
    <3>1. /\ removed[oldCh[k].elm] = 0
          /\ \E l \in Placed : newCh[l].elm = oldCh[k].elm /\ newCh[l].key = oldCh[k].key
      BY <1>3, <2>2 DEF FateInv, IndicesInv
    <3> QED
      BY <1>11, <1>13, <2>2, <3>1
  <2> QED
    BY <2>1, <2>2
<1>23. ReuseInv'
  <2> SUFFICES ASSUME NEW k \in DOMAIN oldCh, NEW l \in Placed', oldCh[k] # Undefined,
                      oldCh[k].key # Undefined, sameVnode(oldCh[k], newCh'[l])
               PROVE  newCh'[l].elm = oldCh[k].elm
    BY DEF ReuseInv, sameVnode
  <2>1. CASE l = j
    <3>1. sameVnode(oldCh[k], newCh[j])
      BY <1>9, <2>1 DEF sameVnode
    <3>2. k \notin Remaining
      BY <1>1, <3>1
    <3>3. PICK n \in Placed : newCh[n].key = oldCh[k].key
      BY <1>3, <3>2 DEF FateInv, IndicesInv
    <3>4. n = j
      BY <1>2, <1>3, <3>1, <3>3 DEF sameVnode, DocumentInv, UniqueKeys
    <3> QED
      BY <1>13, <3>3, <3>4
  <2>2. CASE l # j
    BY <1>3, <1>11, <1>13, <2>2 DEF ReuseInv
  <2> QED
    BY <2>1, <2>2
<1> QED
  BY <1>14, <1>15, <1>16, <1>17, <1>18, <1>19, <1>21, <1>22, <1>23 DEF Inv, PatchInv, mode

\* In the removal pass every new child is found.
LEMMA NotFoundMoves == ASSUME Inv, NotFound PROVE canMove
<1>1. /\ InLoop /\ Searches
      /\ \A i \in Candidates : ~sameVnode(oldCh[i], newCh[newStartIdx])
  BY DEF NotFound, Searches, Compares, Finds, NewStart
<1>2. patching /\ newStartIdx \in DOMAIN newCh \ Placed /\ RemovalInv
  BY <1>1, LoopFacts, Basics DEF PatchInv
<1>3. ASSUME ~canMove PROVE FALSE
  <2>1. PICK i \in Remaining : oldCh[i] = newCh[newStartIdx]
    BY <1>2, <1>3 DEF RemovalInv
  <2>2. oldCh[i].key # Undefined /\ sameVnode(oldCh[i], newCh[newStartIdx])
    BY <1>2, <1>3, <2>1 DEF RemovalInv, sameVnode
  <2> QED
    BY <1>1, <2>2, CandidateFacts DEF sameVnode, NewStart
<1> QED
  BY <1>3

LEMMA AddRestMoves == ASSUME Inv, AddRest PROVE canMove /\ Remaining = {}
<1>1. patching /\ oldStartIdx > oldEndIdx /\ newStartIdx <= newEndIdx
  BY DEF AddRest, AddsRest
<1>2. Remaining = {}
  BY <1>1, Basics DEF PatchInv, IndicesInv, Remaining
<1>3. newStartIdx \in DOMAIN newCh \ Placed
  BY <1>1, NewElmFacts
<1> QED
  BY <1>1, <1>2, <1>3, Basics DEF PatchInv, RemovalInv

LEMMA NotFoundInv == ASSUME Inv, NotFound PROVE Inv'
<1>1. /\ InLoop /\ Searches /\ OldStart # Undefined /\ Create(oldCh[oldStartIdx].elm)
      /\ \A i \in Candidates : ~sameVnode(oldCh[i], newCh[newStartIdx])
      /\ keyToOldIdx' = OldKeys
      /\ UNCHANGED <<leaving, oldCh, oldStartIdx, oldEndIdx, newEndIdx, mode, removed>>
  BY DEF NotFound, Searches, Compares, Finds, OldStart, NewStart
<1>2. /\ patching /\ newStartIdx <= newEndIdx /\ oldStartIdx \in Remaining
      /\ newStartIdx \in DOMAIN newCh \ Placed
  BY <1>1, LoopFacts
<1>3. \A i \in Remaining : oldCh[i].key # Undefined => ~sameVnode(oldCh[i], newCh[newStartIdx])
  BY <1>1, CandidateFacts DEF sameVnode, NewStart
<1>4. canMove
  BY NotFoundMoves
<1>5. PICK ref : ref = oldCh[oldStartIdx].elm
  OBVIOUS
<1>6. IsPlaceToCreate(ref) /\ Create(ref)
  BY <1>1, <1>2, <1>5 DEF IsPlaceToCreate
<1> QED
  BY <1>1, <1>2, <1>3, <1>4, <1>6, CreateInv

LEMMA AddRestInv == ASSUME Inv, AddRest PROVE Inv'
<1>1. /\ patching /\ oldStartIdx > oldEndIdx /\ newStartIdx <= newEndIdx /\ Create(RefElm)
      /\ UNCHANGED <<leaving, oldCh, oldStartIdx, oldEndIdx, newEndIdx, keyToOldIdx, mode, removed>>
  BY DEF AddRest, AddsRest
<1>2. Remaining = {} /\ canMove
  BY AddRestMoves
<1>4. PICK ref : ref = RefElm
  OBVIOUS
<1>5. IsPlaceToCreate(ref) /\ Create(ref)
  BY <1>1, <1>2, <1>4 DEF IsPlaceToCreate
<1> QED
  BY <1>1, <1>2, <1>5, CreateInv

-----------------------------------------------------------------------------
(***************************************************************************)
(* The rest of the old children; the end of a pass.                        *)
(***************************************************************************)
LEMMA RemoveRestInv == ASSUME Inv, RemoveRest PROVE Inv'
<1>1. /\ patching /\ newStartIdx > newEndIdx /\ oldStartIdx <= oldEndIdx
      /\ IF OldStart = Undefined THEN UNCHANGED <<dom, leaving, removed>> ELSE RemoveElm(OldStart)
      /\ oldStartIdx' = oldStartIdx + 1
      /\ UNCHANGED <<oldCh, newCh, oldEndIdx, newStartIdx, newEndIdx, keyToOldIdx,
                     canMove, nextCh, patching>>
  BY DEF RemoveRest, mode
<1>2. /\ DocumentInv /\ OldInv /\ ElementsInv /\ OrderInv /\ IndicesInv /\ KeysInv /\ FateInv
      /\ ReuseInv /\ RemovalInv
      /\ DOMAIN newCh = 1 .. Len(newCh) /\ Len(newCh) \in Nat
      /\ DOMAIN oldCh = 1 .. Len(oldCh) /\ Len(oldCh) \in Nat
      /\ Placed \subseteq DOMAIN newCh /\ Remaining \subseteq DOMAIN oldCh
      /\ \A k \in Remaining : oldCh[k] # Undefined
  BY <1>1, Basics DEF PatchInv
<1>3. IndicesInv'
  BY <1>1, <1>2 DEF IndicesInv
<1>4. Placed' = Placed /\ Placed = DOMAIN newCh
  BY <1>1, <1>2 DEF Placed, IndicesInv
<1>5. oldStartIdx \in Int /\ oldEndIdx \in Int
  BY <1>2 DEF IndicesInv
<1>6. Remaining' = Remaining \ {oldStartIdx}
  BY <1>1, <1>5 DEF Remaining
<1>7. ReuseInv'
  BY <1>1, <1>2, <1>4 DEF ReuseInv
<1>8. KeysInv'
  BY <1>1, <1>2, <1>4, <1>6 DEF KeysInv, IsKeyMap
<1>9. CASE OldStart = Undefined
  <2>1. oldStartIdx \notin Remaining /\ Remaining' = Remaining
    BY <1>6, <1>9 DEF Remaining, OldStart
  <2>2. UNCHANGED <<dom, leaving, removed>>
    BY <1>1, <1>9
  <2>3. OldInv' /\ ElementsInv' /\ OrderInv' /\ RemovalInv' /\ FateInv' /\ DocumentInv'
    BY <1>1, <1>2, <1>4, <2>1, <2>2
       DEF OldInv, ElementsInv, OrderInv, RemovalInv, FateInv, DocumentInv
  <2> QED
    BY <1>1, <1>3, <1>7, <1>8, <2>3 DEF Inv, PatchInv
<1>10. CASE OldStart # Undefined
  <2>1. PICK i, e : i = oldStartIdx /\ e = oldCh[i].elm
    OBVIOUS
  <2>2. i \in Remaining /\ i \in DOMAIN oldCh /\ oldCh[i] # Undefined
    BY <1>1, <1>2, <1>5, <1>10, <2>1 DEF Remaining, OldStart
  <2>3. /\ removed' = [removed EXCEPT ![e] = @ + 1]
        /\ \/ dom' = Without(e) /\ leaving' = leaving
           \/ leaving' = leaving \union {e} /\ dom' = dom
    BY <1>1, <1>10, <2>1 DEF RemoveElm, OldStart
  <2>4. e \in DOMAIN removed /\ removed[e] = 0 /\ removed \in Seq(Nat)
    BY <1>2, <2>1, <2>2 DEF OldInv, FateInv
  <2>5. /\ removed' \in Seq(Nat) /\ DOMAIN removed' = DOMAIN removed /\ removed'[e] = 1
        /\ \A x \in DOMAIN removed : x # e => removed'[x] = removed[x]
    BY <2>3, <2>4
  <2>6. /\ \A k \in Remaining' : k \in Remaining /\ oldCh[k].elm # e /\ k # i
        /\ \A k \in Placed : newCh[k].elm # e
        /\ e \in ToSet(dom) \ leaving
        /\ \A k \in DOMAIN oldCh : oldCh[k] # Undefined /\ oldCh[k].elm = e => k = i
    BY <1>2, <1>6, <2>1, <2>2 DEF ElementsInv, OldInv
  <2>7. /\ IsList(dom') /\ leaving' \subseteq ToSet(dom') /\ ToSet(dom') \subseteq ToSet(dom)
        /\ ToSet(dom') \ leaving' = (ToSet(dom) \ leaving) \ {e}
        /\ \A x, y : x # e /\ y # e /\ Precedes(dom, x, y) => Precedes(dom', x, y)
    <3>1. CASE dom' = Without(e) /\ leaving' = leaving
      <4>1. PICK t : t = Without(e)
        OBVIOUS
      <4>2. /\ IsList(t) /\ ToSet(t) = ToSet(dom) \ {e}
            /\ \A x, y : Precedes(t, x, y) <=> Precedes(dom, x, y) /\ x # e /\ y # e
        BY <1>2, <4>1, WithoutFacts DEF DocumentInv
      <4> QED
        BY <1>2, <2>6, <3>1, <4>1, <4>2 DEF DocumentInv
    <3>2. CASE leaving' = leaving \union {e} /\ dom' = dom
      BY <1>2, <2>6, <3>2 DEF DocumentInv
    <3> QED
      BY <2>3, <3>1, <3>2
  <2>8. DocumentInv'
    BY <1>1, <1>2, <2>7 DEF DocumentInv
  <2>9. OldInv'
    BY <1>1, <1>2, <2>5 DEF OldInv
  <2>10. ElementsInv'
    <3>1. { oldCh[k].elm : k \in Remaining } = { oldCh[k].elm : k \in Remaining' } \union {e}
      BY <1>6, <2>1, <2>2
    <3>2. /\ \A x \in { oldCh[k].elm : k \in Remaining' } : x # e
          /\ \A x \in { newCh[k].elm : k \in Placed } : x # e
      BY <2>6
    <3>3. ToSet(dom) \ leaving = { oldCh[k].elm : k \in Remaining } \union { newCh[k].elm : k \in Placed }
      BY <1>2 DEF ElementsInv
    <3>4. ToSet(dom') \ leaving' = { oldCh[k].elm : k \in Remaining' } \union { newCh[k].elm : k \in Placed }
      BY <2>7, <3>1, <3>2, <3>3
    <3>5. (ToSet(dom) \subseteq DOMAIN removed \union { -j : j \in Placed })'
      BY <1>2, <1>4, <2>5, <2>7 DEF ElementsInv
    <3>6. /\ \A j \in Placed : newCh[j].elm \in DOMAIN removed' \union {-j}
          /\ \A j \in DOMAIN newCh \ Placed : canMove => newCh[j].elm = Undefined
          /\ \A j \in Placed, k \in Remaining' : newCh[j].elm # oldCh[k].elm
          /\ \A j, k \in Placed : newCh[j].elm = newCh[k].elm => j = k
      BY <1>2, <2>5, <2>6 DEF ElementsInv
    <3> QED
      BY <1>1, <1>4, <3>4, <3>5, <3>6 DEF ElementsInv
  <2>11. OrderInv'
    BY <1>1, <1>2, <1>4, <2>6, <2>7 DEF OrderInv
  <2>12. RemovalInv'
    BY <1>1, <1>2, <1>4, <2>6, <2>7 DEF RemovalInv
  <2>13. FateInv'
    <3> SUFFICES ASSUME NEW k \in DOMAIN oldCh, oldCh[k] # Undefined
                 PROVE  \/ k \in Remaining' /\ removed'[oldCh[k].elm] = 0
                        \/ /\ k \notin Remaining' /\ removed'[oldCh[k].elm] = 0
                           /\ \E j \in Placed : newCh[j].elm = oldCh[k].elm /\ newCh[j].key = oldCh[k].key
                        \/ /\ k \notin Remaining' /\ removed'[oldCh[k].elm] = 1
                           /\ newStartIdx > newEndIdx
                           /\ \A j \in Placed : newCh[j].elm # oldCh[k].elm
      BY <1>1, <1>4 DEF FateInv
    <3>1. CASE k = i
      BY <1>1, <1>6, <2>1, <2>5, <2>6, <3>1
    <3>2. CASE k # i
      <4>1. oldCh[k].elm # e /\ oldCh[k].elm \in DOMAIN removed /\ removed'[oldCh[k].elm] = removed[oldCh[k].elm]
        BY <1>2, <2>5, <2>6, <3>2 DEF OldInv
      <4>2. k \in Remaining' <=> k \in Remaining
        BY <1>6, <2>1, <3>2
      <4> QED
        BY <1>2, <4>1, <4>2 DEF FateInv
    <3> QED
      BY <3>1, <3>2
  <2> QED
    BY <1>1, <1>3, <1>7, <1>8, <2>8, <2>9, <2>10, <2>11, <2>12, <2>13 DEF Inv, PatchInv
<1> QED
  BY <1>9, <1>10

\* When updateChildren returns, the children are in the document.
LEMMA DoneInOrder == ASSUME Inv, patching, Done PROVE InOrder /\ DocumentInv
<1>1. /\ DocumentInv /\ ElementsInv /\ OrderInv /\ IndicesInv
      /\ DOMAIN newCh = 1 .. Len(newCh) /\ Len(newCh) \in Nat
  BY Basics DEF PatchInv
<1>2. Remaining = {}
  BY <1>1 DEF Done, IndicesInv, Remaining
<1>3. Placed = DOMAIN newCh
  BY <1>1 DEF Done, IndicesInv, Placed
<1>4. ToSet(dom) \ leaving = { newCh[j].elm : j \in DOMAIN newCh }
  BY <1>1, <1>2, <1>3 DEF ElementsInv
<1> QED
  BY <1>1, <1>3, <1>4 DEF InOrder, OrderInv, DocumentInv, IsList

\* What the children of the last render look like when their elements are
\* numbered anew
LEMMA RenumberedFacts ==
  ASSUME DocumentInv, InOrder, Renumber, NEW ch, ch = Renumbered(newCh)
  PROVE  /\ ch \in Seq(Vnodes) /\ DOMAIN ch = DOMAIN newCh /\ Len(ch) = Len(newCh) /\ UniqueKeys(ch)
         /\ Len(newCh) \in Nat /\ DOMAIN newCh = 1 .. Len(newCh)
         /\ \A i \in DOMAIN ch : /\ ch[i] # Undefined /\ ch[i].key = newCh[i].key /\ ch[i].tag = newCh[i].tag
                                 /\ ch[i].elm = Place(dom, newCh[i].elm)
                                 /\ ch[i].elm \in DOMAIN dom
         /\ \A i, k \in DOMAIN ch : ch[i].elm = ch[k].elm => i = k
         /\ \A i, k \in DOMAIN ch : i < k => Precedes(dom', ch[i].elm, ch[k].elm)
         /\ ToSet(dom') \ leaving' = { ch[i].elm : i \in DOMAIN ch }
<1>1. /\ IsList(dom) /\ leaving \subseteq ToSet(dom) /\ newCh \in Seq(Vnodes) /\ UniqueKeys(newCh)
      /\ Len(newCh) \in Nat /\ DOMAIN newCh = 1 .. Len(newCh)
  BY DEF DocumentInv
<1>2. /\ \A x \in ToSet(dom) : Place(dom, x) \in DOMAIN dom /\ dom[Place(dom, x)] = x
      /\ \A x, y \in ToSet(dom) : Place(dom, x) = Place(dom, y) => x = y
      /\ \A x, y \in ToSet(dom) :
           Precedes(dom', Place(dom, x), Place(dom, y)) <=> Precedes(dom, x, y)
      /\ ToSet(dom') \ leaving' = { Place(dom, x) : x \in ToSet(dom) \ leaving }
      /\ DOMAIN dom \subseteq Int
  BY <1>1, Renumbering, ListFacts
<1>3. /\ ToSet(dom) \ leaving = { newCh[i].elm : i \in DOMAIN newCh }
      /\ \A i, j \in DOMAIN newCh : i < j => Precedes(dom, newCh[i].elm, newCh[j].elm)
  BY DEF InOrder
<1>4. \A i \in DOMAIN newCh : newCh[i] \in Vnodes /\ newCh[i].elm \in ToSet(dom)
  BY <1>1, <1>3
<1>5. ch = [i \in 1 .. Len(newCh) |-> [newCh[i] EXCEPT !.elm = Place(dom, newCh[i].elm)]]
  BY <1>1 DEF Renumbered
<1>6. \A i \in DOMAIN newCh : [newCh[i] EXCEPT !.elm = Place(dom, newCh[i].elm)] \in Vnodes
  BY <1>2, <1>4 DEF Vnodes
<1>7. ch \in Seq(Vnodes) /\ DOMAIN ch = DOMAIN newCh /\ Len(ch) = Len(newCh)
  BY <1>1, <1>5, <1>6
<1>8. ASSUME NEW i \in DOMAIN newCh
      PROVE  /\ ch[i] # Undefined /\ ch[i].key = newCh[i].key /\ ch[i].tag = newCh[i].tag
             /\ ch[i].elm = Place(dom, newCh[i].elm) /\ ch[i].elm \in DOMAIN dom
  <2>1. ch[i] = [newCh[i] EXCEPT !.elm = Place(dom, newCh[i].elm)]
    BY <1>1, <1>5
  <2>2. ch[i] # Undefined
    BY <1>6, <2>1, ConstantsAssumption DEF ConstantsAssumption
  <2> QED
    BY <1>2, <1>4, <2>1, <2>2 DEF Vnodes
<1>9. UniqueKeys(ch)
  <2>1. \A i \in DOMAIN newCh : newCh[i] # Undefined
    BY <1>4, ConstantsAssumption DEF ConstantsAssumption
  <2> QED
    BY <1>1, <1>7, <1>8, <2>1 DEF UniqueKeys
<1>10. \A i, k \in DOMAIN newCh : i < k => Precedes(dom', ch[i].elm, ch[k].elm)
  BY <1>2, <1>3, <1>4, <1>8
<1>11. \A i, k \in DOMAIN newCh : newCh[i].elm = newCh[k].elm => i = k
  <2>1. \A i, k \in DOMAIN newCh : i < k => newCh[i].elm # newCh[k].elm
    BY <1>1, <1>3, PrecedesFacts
  <2>2. \A i, k \in DOMAIN newCh : i < k \/ k < i \/ i = k
    BY <1>1
  <2> QED
    BY <2>1, <2>2
<1>12. \A i, k \in DOMAIN newCh : ch[i].elm = ch[k].elm => i = k
  BY <1>2, <1>4, <1>8, <1>11
<1>13. ToSet(dom') \ leaving' = { ch[i].elm : i \in DOMAIN newCh }
  BY <1>2, <1>3, <1>8
<1> QED
  BY <1>1, <1>7, <1>8, <1>9, <1>10, <1>12, <1>13

LEMMA EndPatchInv == ASSUME Inv, EndPatch PROVE Inv'
<1>1. /\ patching /\ Done /\ patching' = FALSE /\ Renumber /\ newCh' = Renumbered(newCh)
      /\ UNCHANGED canMove
  BY DEF EndPatch
<1>2. DocumentInv /\ InOrder
  BY <1>1, DoneInOrder
<1>3. PICK ch : ch = Renumbered(newCh)
  OBVIOUS
<1>4. /\ ch \in Seq(Vnodes) /\ UniqueKeys(ch)
      /\ \A i, k \in DOMAIN ch : i < k => Precedes(dom', ch[i].elm, ch[k].elm)
      /\ ToSet(dom') \ leaving' = { ch[i].elm : i \in DOMAIN ch }
  BY <1>1, <1>2, <1>3, RenumberedFacts
<1>5. IsList(dom') /\ leaving' \subseteq ToSet(dom')
  BY <1>1, <1>2, Renumbering DEF DocumentInv
<1>6. DocumentInv'
  <2>1. newCh' = ch
    BY <1>1, <1>3
  <2>2. (newCh \in Seq(Vnodes) /\ UniqueKeys(newCh))'
    BY <1>4, <2>1 DEF UniqueKeys
  <2> QED
    BY <1>1, <1>2, <1>5, <2>2 DEF DocumentInv
<1>7. InOrder'
  BY <1>1, <1>3, <1>4, <1>5 DEF InOrder, IsList
<1> QED
  BY <1>1, <1>6, <1>7 DEF Inv

-----------------------------------------------------------------------------
(***************************************************************************)
(* A patch begins.                                                         *)
(***************************************************************************)
LEMMA FreshFacts ==
  ASSUME NEW ch \in Lists, NEW new, new = Fresh(ch)
  PROVE  new \in Seq(Vnodes) /\ UniqueKeys(new) /\ \A j \in DOMAIN new : new[j].elm = Undefined
<1>1. PICK n \in Nat : ch \in [1 .. n -> Kinds]
  BY ConstantsAssumption DEF ConstantsAssumption, Lists
<1>2. \A i, j \in DOMAIN ch : i # j /\ ch[i].key = ch[j].key => ch[i].key = Undefined
  BY DEF Lists
<1>3. new = [i \in 1 .. n |-> Vnode(ch[i], Undefined)]
  BY <1>1 DEF Fresh
<1>4. ASSUME NEW i \in 1 .. n
      PROVE  /\ new[i] \in Vnodes /\ new[i].elm = Undefined /\ new[i].key = ch[i].key
  <2>1. ch[i] \in Kinds
    BY <1>1
  <2> QED
    BY <1>3, <2>1 DEF Vnode, Vnodes, Keys, Tags
<1>5. new \in Seq(Vnodes) /\ DOMAIN new = 1 .. n
  BY <1>3, <1>4
<1> QED
  BY <1>1, <1>2, <1>4, <1>5 DEF UniqueKeys

LEMMA BeginInv ==
  ASSUME DocumentInv, InOrder, NEW new, NEW moves \in BOOLEAN, NEW next,
         Begin(newCh, new, moves, next),
         new \in Seq(Vnodes), UniqueKeys(new),
         moves => \A j \in DOMAIN new : new[j].elm = Undefined,
         ~moves => /\ next \in Lists
                   /\ \A j \in DOMAIN new : new[j].key # Undefined
                   /\ \A j \in DOMAIN new : \E i \in DOMAIN newCh : Renumbered(newCh)[i] = new[j]
                   /\ \A j, k \in DOMAIN new : j < k => Precedes(dom', new[j].elm, new[k].elm)
  PROVE  Inv'
<1>1. PICK ch : ch = Renumbered(newCh)
  OBVIOUS
<1>2. /\ Renumber /\ removed' = [e \in DOMAIN dom |-> 0] /\ oldCh' = ch /\ newCh' = new
      /\ oldStartIdx' = 1 /\ oldEndIdx' = Len(newCh) /\ newStartIdx' = 1 /\ newEndIdx' = Len(new)
      /\ keyToOldIdx' = Undefined /\ canMove' = moves /\ nextCh' = next /\ patching' = TRUE
  BY <1>1 DEF Begin
<1>3. /\ ch \in Seq(Vnodes) /\ DOMAIN ch = DOMAIN newCh /\ Len(ch) = Len(newCh) /\ UniqueKeys(ch)
      /\ Len(newCh) \in Nat /\ DOMAIN newCh = 1 .. Len(newCh)
      /\ \A i \in DOMAIN ch : ch[i] # Undefined /\ ch[i].elm \in DOMAIN dom
      /\ \A i, k \in DOMAIN ch : ch[i].elm = ch[k].elm => i = k
      /\ \A i, k \in DOMAIN ch : i < k => Precedes(dom', ch[i].elm, ch[k].elm)
      /\ ToSet(dom') \ leaving' = { ch[i].elm : i \in DOMAIN ch }
  BY <1>1, <1>2, RenumberedFacts
<1>4. /\ IsList(dom') /\ leaving' \subseteq ToSet(dom') /\ ToSet(dom') = DOMAIN dom
      /\ DOMAIN dom = 1 .. Len(dom) /\ Len(dom) \in Nat
  BY <1>2, Renumbering, ListFacts DEF DocumentInv
<1>5. removed' \in Seq(Nat) /\ DOMAIN removed' = DOMAIN dom /\ \A e \in DOMAIN dom : removed'[e] = 0
  BY <1>2, <1>4
<1>6. Len(new) \in Nat /\ DOMAIN new = 1 .. Len(new)
  OBVIOUS
<1>7. DocumentInv'
  BY <1>2, <1>4 DEF DocumentInv, UniqueKeys
<1>8. Remaining' = DOMAIN ch
  BY <1>2, <1>3 DEF Remaining
<1>9. Placed' = {}
  BY <1>2, <1>6 DEF Placed
<1>10. IndicesInv'
  BY <1>2, <1>3, <1>6 DEF IndicesInv
<1>11. OldInv'
  <2>1. ch \in Seq(Vnodes \union {Undefined})
    BY <1>3
  <2> QED
    BY <1>2, <1>3, <1>5, <2>1 DEF OldInv, UniqueKeys
<1>12. ElementsInv'
  BY <1>2, <1>3, <1>4, <1>5, <1>8, <1>9 DEF ElementsInv
<1>13. OrderInv'
  BY <1>2, <1>3, <1>8, <1>9 DEF OrderInv
<1>14. RemovalInv'
  BY <1>1, <1>2, <1>3, <1>8, <1>9 DEF RemovalInv
<1>15. KeysInv'
  BY <1>2, <1>3 DEF KeysInv
<1>16. FateInv' /\ ReuseInv'
  BY <1>2, <1>3, <1>5, <1>8, <1>9 DEF FateInv, ReuseInv
<1> QED
  BY <1>2, <1>7, <1>10, <1>11, <1>12, <1>13, <1>14, <1>15, <1>16 DEF Inv, PatchInv

LEMMA BeginPatchInv == ASSUME Inv, NEW ch \in Lists, BeginPatch(ch) PROVE Inv'
<1>1. ~patching /\ Begin(newCh, Fresh(ch), TRUE, <<>>)
  BY DEF BeginPatch
<1>2. DocumentInv /\ InOrder
  BY <1>1 DEF Inv
<1>3. PICK new : new = Fresh(ch)
  OBVIOUS
<1>4. new \in Seq(Vnodes) /\ UniqueKeys(new) /\ \A j \in DOMAIN new : new[j].elm = Undefined
  BY <1>3, FreshFacts
<1>5. Begin(newCh, new, TRUE, <<>>)
  BY <1>1, <1>3
<1> QED
  BY <1>2, <1>4, <1>5, BeginInv

LEMMA BeginSecondPassInv == ASSUME Inv, BeginSecondPass PROVE Inv'
<1>1. patching /\ Done /\ ~canMove /\ Begin(newCh, Fresh(nextCh), TRUE, <<>>)
  BY DEF BeginSecondPass
<1>2. DocumentInv /\ InOrder
  BY <1>1, DoneInOrder
<1>3. nextCh \in Lists
  BY <1>1, Basics DEF PatchInv, RemovalInv
<1>4. PICK new, ch : ch = nextCh /\ new = Fresh(ch)
  OBVIOUS
<1>5. new \in Seq(Vnodes) /\ UniqueKeys(new) /\ \A j \in DOMAIN new : new[j].elm = Undefined
  BY <1>3, <1>4, FreshFacts
<1>6. Begin(newCh, new, TRUE, <<>>)
  BY <1>1, <1>4
<1> QED
  BY <1>2, <1>5, <1>6, BeginInv

\* The kept children are some of the last render's, in order.
LEMMA KeptFacts ==
  ASSUME DocumentInv, NEW ch, NEW kept, kept = Kept(ch)
  PROVE  /\ kept \in Seq(Vnodes)
         /\ \E at \in [DOMAIN kept -> DOMAIN newCh] :
              /\ \A j \in DOMAIN kept : kept[j] = newCh[at[j]]
              /\ \A j, k \in DOMAIN kept : j < k => at[j] < at[k]
<1>1. PICK P : P = { i \in DOMAIN newCh : \E j \in DOMAIN ch : ch[j].key = newCh[i].key }
  OBVIOUS
<1>2. kept = Sublist(newCh, P)
  BY <1>1 DEF Kept
<1>3. newCh \in Seq(Vnodes) /\ DOMAIN newCh = 1 .. Len(newCh) /\ \A i \in P : i \in 1 .. Len(newCh)
  BY <1>1 DEF DocumentInv
<1>4. /\ kept \in Seq(Vnodes) /\ Len(kept) = Cardinality(P)
      /\ \E at : Enumerates(at, P) /\ \A n \in 1 .. Len(kept) : kept[n] = newCh[at[n]]
  BY <1>2, <1>3, SublistFacts
<1>5. PICK at : Enumerates(at, P) /\ \A n \in 1 .. Len(kept) : kept[n] = newCh[at[n]]
  BY <1>4
<1>6. DOMAIN kept = 1 .. Cardinality(P)
  BY <1>4
<1>7. at \in [DOMAIN kept -> DOMAIN newCh]
  BY <1>3, <1>5, <1>6 DEF Enumerates
<1> QED
  <2>1. \A j \in DOMAIN kept : kept[j] = newCh[at[j]]
    BY <1>4, <1>5, <1>6
  <2>2. \A j, k \in DOMAIN kept : j < k => at[j] < at[k]
    BY <1>5, <1>6 DEF Enumerates
  <2> QED
    BY <1>4, <1>7, <2>1, <2>2

LEMMA BeginGroupInv == ASSUME Inv, NEW ch \in Lists, BeginGroup(ch) PROVE Inv'
<1>1. ~patching /\ AllKeyed(newCh) /\ Begin(newCh, Renumbered(Kept(ch)), FALSE, ch)
  BY DEF BeginGroup
<1>2. DocumentInv /\ InOrder /\ Renumber
  BY <1>1 DEF Inv, Begin
<1>3. PICK kept, new, old : kept = Kept(ch) /\ new = Renumbered(kept) /\ old = Renumbered(newCh)
  OBVIOUS
<1>4. kept \in Seq(Vnodes)
  BY <1>2, <1>3, KeptFacts
<1>5. PICK at \in [DOMAIN kept -> DOMAIN newCh] :
        /\ \A j \in DOMAIN kept : kept[j] = newCh[at[j]]
        /\ \A j, k \in DOMAIN kept : j < k => at[j] < at[k]
  BY <1>2, <1>3, KeptFacts
<1>6. /\ old \in Seq(Vnodes) /\ DOMAIN old = DOMAIN newCh /\ UniqueKeys(old)
      /\ DOMAIN newCh = 1 .. Len(newCh)
      /\ \A i \in DOMAIN old : old[i] # Undefined /\ old[i].key = newCh[i].key
      /\ \A i, k \in DOMAIN old : i < k => Precedes(dom', old[i].elm, old[k].elm)
  BY <1>2, <1>3, RenumberedFacts
<1>7. /\ DOMAIN new = DOMAIN kept /\ DOMAIN kept = 1 .. Len(kept) /\ Len(kept) \in Nat
      /\ new = [j \in 1 .. Len(kept) |-> new[j]]
  BY <1>3, <1>4 DEF Renumbered
<1>8. \A j \in DOMAIN kept : new[j] = old[at[j]] /\ at[j] \in DOMAIN old
  BY <1>3, <1>5, <1>6 DEF Renumbered
<1>9. \A j \in DOMAIN kept : new[j] \in Vnodes
  BY <1>6, <1>8
<1>10. new \in Seq(Vnodes)
  BY <1>7, <1>9
<1>11. \A j, k \in DOMAIN kept : j # k => at[j] # at[k]
  <2>1. \A j, k \in DOMAIN kept : j < k \/ k < j \/ j = k
    BY <1>7
  <2>2. \A j, k \in DOMAIN kept : j < k => at[j] # at[k]
    BY <1>5, <1>6
  <2> QED
    BY <2>1, <2>2
<1>12. UniqueKeys(new)
  BY <1>6, <1>7, <1>8, <1>11 DEF UniqueKeys
<1>13. \A j \in DOMAIN new : new[j].key # Undefined
  BY <1>1, <1>6, <1>7, <1>8 DEF AllKeyed
<1>14. \A j, k \in DOMAIN new : j < k => Precedes(dom', new[j].elm, new[k].elm)
  BY <1>5, <1>6, <1>7, <1>8
<1>15. \A j \in DOMAIN new : \E i \in DOMAIN newCh : Renumbered(newCh)[i] = new[j]
  BY <1>3, <1>6, <1>7, <1>8
<1>16. Begin(newCh, new, FALSE, ch)
  BY <1>1, <1>3
<1> QED
  BY <1>2, <1>10, <1>12, <1>13, <1>14, <1>15, <1>16, BeginInv

LEMMA LeaveEndsInv == ASSUME Inv, NEW e \in leaving, LeaveEnds(e) PROVE Inv'
<1>1. /\ ~patching /\ leaving' = leaving \ {e} /\ dom' = Without(e)
      /\ UNCHANGED <<newCh, canMove, patching>>
  BY DEF LeaveEnds, mode
<1>2. DocumentInv /\ InOrder
  BY <1>1 DEF Inv
<1>3. PICK t : t = Without(e)
  OBVIOUS
<1>4. /\ IsList(t) /\ ToSet(t) = ToSet(dom) \ {e}
      /\ \A x, y : Precedes(t, x, y) <=> Precedes(dom, x, y) /\ x # e /\ y # e
  BY <1>2, <1>3, WithoutFacts DEF DocumentInv
<1>5. DocumentInv'
  BY <1>1, <1>2, <1>3, <1>4 DEF DocumentInv
<1>6. \A i \in DOMAIN newCh : newCh[i].elm # e
  BY <1>2 DEF InOrder
<1>7. ToSet(t) \ (leaving \ {e}) = ToSet(dom) \ leaving
  BY <1>2, <1>4 DEF DocumentInv
<1>8. InOrder'
  BY <1>1, <1>2, <1>3, <1>4, <1>6, <1>7 DEF InOrder, IsList
<1> QED
  BY <1>1, <1>5, <1>8 DEF Inv

LEMMA InitInv == Init => Inv
<1> SUFFICES ASSUME Init PROVE Inv
  OBVIOUS
<1>1. PICK ch \in FirstLists, n \in 0 .. MaxLeaving :
        \E at \in [DOMAIN ch -> 1 .. Len(ch) + n] :
          /\ \A i, j \in DOMAIN ch : i < j => at[i] < at[j]
          /\ dom = [i \in 1 .. Len(ch) + n |-> i]
          /\ leaving = ToSet(dom) \ { at[i] : i \in DOMAIN ch }
          /\ newCh = [i \in DOMAIN ch |-> Vnode(ch[i], at[i])]
  BY DEF Init
<1>2. PICK at \in [DOMAIN ch -> 1 .. Len(ch) + n] :
        /\ \A i, j \in DOMAIN ch : i < j => at[i] < at[j]
        /\ dom = [i \in 1 .. Len(ch) + n |-> i]
        /\ leaving = ToSet(dom) \ { at[i] : i \in DOMAIN ch }
        /\ newCh = [i \in DOMAIN ch |-> Vnode(ch[i], at[i])]
  BY <1>1
<1>3. ~patching /\ patching = FALSE /\ canMove = TRUE
  BY DEF Init
<1>4. ch \in Lists
  BY ConstantsAssumption DEF ConstantsAssumption
<1>5. PICK m \in Nat : ch \in [1 .. m -> Kinds]
  BY <1>4, ConstantsAssumption DEF ConstantsAssumption, Lists
<1>6. Len(ch) \in Nat /\ DOMAIN ch = 1 .. Len(ch)
  BY <1>5
<1>7. PICK size \in Nat : size = Len(ch) + n
  BY <1>6, ConstantsAssumption DEF ConstantsAssumption
<1>8. /\ dom \in Seq(Int) /\ DOMAIN dom = 1 .. size /\ \A i \in 1 .. size : dom[i] = i
  BY <1>2, <1>7
<1>9. IsList(dom) /\ ToSet(dom) = 1 .. size
  BY <1>8 DEF IsList, IsInjective, ToSet
<1>10. \A i \in DOMAIN ch : at[i] \in 1 .. size /\ at[i] \in Int
  BY <1>2, <1>7
<1>11. ASSUME NEW i \in DOMAIN ch
       PROVE  newCh[i] \in Vnodes /\ newCh[i].elm = at[i] /\ newCh[i].key = ch[i].key
  <2>1. ch[i] \in Kinds
    BY <1>5, <1>6
  <2> QED
    BY <1>2, <1>10, <2>1 DEF Vnode, Vnodes, Keys, Tags
<1>12. newCh \in Seq(Vnodes) /\ DOMAIN newCh = DOMAIN ch
  BY <1>2, <1>6, <1>11
<1>13. UniqueKeys(newCh)
  BY <1>4, <1>11, <1>12 DEF UniqueKeys, Lists
<1>14. DocumentInv
  BY <1>2, <1>3, <1>9, <1>12, <1>13 DEF DocumentInv
<1>15. \A i, j \in DOMAIN newCh : i < j => Precedes(dom, newCh[i].elm, newCh[j].elm)
  <2>1. \A i, j \in 1 .. size : i < j => Precedes(dom, i, j)
    BY <1>8 DEF Precedes
  <2> QED
    BY <1>2, <1>10, <1>11, <1>12, <2>1
<1>16. ToSet(dom) \ leaving = { newCh[i].elm : i \in DOMAIN newCh }
  <2>1. \A x \in { at[i] : i \in DOMAIN ch } : x \in ToSet(dom)
    BY <1>9, <1>10
  <2>2. ToSet(dom) \ leaving = { at[i] : i \in DOMAIN ch }
    BY <1>2, <2>1
  <2> QED
    BY <1>11, <1>12, <2>2
<1> QED
  BY <1>3, <1>9, <1>14, <1>15, <1>16 DEF Inv, InOrder, IsList

LEMMA NextInv == Inv /\ [Next]_vars => Inv'
<1> SUFFICES ASSUME Inv, [Next]_vars PROVE Inv'
  OBVIOUS
<1>1. CASE UpdateChildren
  BY <1>1, SkipStartInv, SkipEndInv, PatchStartInv, PatchEndInv, MoveRightInv, MoveLeftInv,
     FoundInv, NotFoundInv, AddRestInv, RemoveRestInv, BeginSecondPassInv, EndPatchInv
     DEF UpdateChildren
<1>2. CASE \E ch \in Lists : BeginPatch(ch) \/ BeginGroup(ch)
  BY <1>2, BeginPatchInv, BeginGroupInv
<1>3. CASE \E e \in leaving : LeaveEnds(e)
  BY <1>3, LeaveEndsInv
<1>4. CASE UNCHANGED vars
  <2>1. UNCHANGED <<dom, leaving, oldCh, newCh, oldStartIdx, oldEndIdx, newStartIdx, newEndIdx,
                    keyToOldIdx, canMove, nextCh, patching, removed>>
    BY <1>4 DEF vars
  <2>2. Remaining' = Remaining /\ Placed' = Placed
    BY <2>1 DEF Remaining, Placed
  <2>3. DocumentInv' <=> DocumentInv
    BY <2>1 DEF DocumentInv, UniqueKeys
  <2>4. InOrder' <=> InOrder
    BY <2>1 DEF InOrder
  <2>5. PatchInv' <=> PatchInv
    <3>1. (IndicesInv' <=> IndicesInv) /\ (OldInv' <=> OldInv)
      BY <2>1 DEF IndicesInv, OldInv, UniqueKeys
    <3>2. (ElementsInv' <=> ElementsInv) /\ (OrderInv' <=> OrderInv) /\ (RemovalInv' <=> RemovalInv)
      BY <2>1, <2>2 DEF ElementsInv, OrderInv, RemovalInv
    <3>3. (KeysInv' <=> KeysInv) /\ (FateInv' <=> FateInv) /\ (ReuseInv' <=> ReuseInv)
      BY <2>1, <2>2 DEF KeysInv, IsKeyMap, FateInv, ReuseInv
    <3> QED
      BY <3>1, <3>2, <3>3 DEF PatchInv
  <2> QED
    BY <2>1, <2>3, <2>4, <2>5 DEF Inv
<1> QED
  BY <1>1, <1>2, <1>3, <1>4 DEF Next

-----------------------------------------------------------------------------
(***************************************************************************)
(* The theorems.                                                           *)
(***************************************************************************)
LEMMA SpecInv == Spec => []Inv
BY InitInv, NextInv, PTL DEF Spec

\* After a patch the document shows the children of the render in their order,
\* wherever elements that leave still stand (updateChildren, patch.ts:504-661).
THEOREM ChildrenInOrderCorrect == Spec => []ChildrenInOrder
<1>1. Inv => ChildrenInOrder
  BY DEF Inv, ChildrenInOrder
<1> QED
  BY <1>1, SpecInv, PTL

\* No branch of updateChildren reads a property of undefined or inserts before an
\* element that has gone.
LEMMA NothingIsMissing == ASSUME Inv PROVE NothingMissing
<1>1. ASSUME InLoop, NEW i \in oldStartIdx .. oldEndIdx, oldCh[i] # Undefined
      PROVE  Contains(dom, oldCh[i].elm) /\ oldCh[i].elm \notin leaving
  <2>1. i \in Remaining
    BY <1>1 DEF Remaining
  <2>2. DocumentInv /\ ElementsInv
    BY <1>1, LoopFacts, Basics DEF PatchInv
  <2>3. oldCh[i].elm \in ToSet(dom) \ leaving
    BY <2>1, <2>2 DEF ElementsInv
  <2> QED
    BY <2>2, <2>3, ListFacts DEF DocumentInv
<1>2. ASSUME Searches PROVE \A i \in Candidates : oldCh[i] # Undefined
  BY <1>2, CandidateFacts DEF Remaining
<1>3. ASSUME AddsRest PROVE newEndIdx = Len(newCh) \/ Contains(dom, RefElm)
  <2>1. /\ patching /\ DocumentInv /\ ElementsInv /\ IndicesInv
        /\ DOMAIN newCh = 1 .. Len(newCh) /\ Len(newCh) \in Nat
    BY <1>3, Basics DEF PatchInv, AddsRest
  <2>2. newEndIdx \in Nat /\ newEndIdx <= Len(newCh)
    BY <2>1 DEF IndicesInv
  <2>3. CASE newEndIdx = Len(newCh)
    BY <2>3
  <2>4. CASE newEndIdx # Len(newCh)
    <3>1. newEndIdx + 1 \in DOMAIN newCh /\ newEndIdx + 1 > newEndIdx
      <4>1. newEndIdx + 1 \in 1 .. Len(newCh) /\ newEndIdx + 1 > newEndIdx
        BY <2>2, <2>4, Len(newCh) \in Nat
      <4> QED
        BY <2>1, <4>1
    <3>2. newEndIdx + 1 \in Placed /\ RefElm = newCh[newEndIdx + 1].elm
      BY <3>1 DEF Placed, RefElm
    <3>3. RefElm \in ToSet(dom)
      BY <2>1, <3>2 DEF ElementsInv
    <3> QED
      BY <2>1, <3>3, ListFacts DEF DocumentInv
  <2> QED
    BY <2>3, <2>4
<1> QED
  BY <1>1, <1>2, <1>3 DEF NothingMissing

\* No old child is destroyed twice, left behind or destroyed in use, and a keyed
\* one whose key and tag a new child has passes its element on (patch.ts:440-453,
\* 600-645).
THEOREM RemovedOrReusedCorrect == Spec => []RemovedOrReused
<1>1. ASSUME Inv PROVE RemovedOrReused
  <2>1. ASSUME patching, NEW i \in DOMAIN oldCh, NEW j \in DOMAIN newCh,
               oldCh[i] # Undefined, newCh[j].elm # Undefined, oldCh[i].key # Undefined,
               sameVnode(oldCh[i], newCh[j])
        PROVE  newCh[j].elm = oldCh[i].elm
    <3>1. ReuseInv /\ ElementsInv /\ RemovalInv /\ OldInv
          /\ Remaining \subseteq DOMAIN oldCh /\ \A k \in Remaining : oldCh[k] # Undefined
      BY <1>1, <2>1, Basics DEF PatchInv
    <3>2. CASE j \in Placed
      BY <2>1, <3>1, <3>2 DEF ReuseInv
    <3>3. CASE j \notin Placed
      <4>1. ~canMove
        BY <2>1, <3>1, <3>3 DEF ElementsInv
      <4>2. PICK k \in Remaining : oldCh[k] = newCh[j]
        BY <3>1, <3>3, <4>1 DEF RemovalInv
      <4>3. k = i
        BY <2>1, <3>1, <4>2 DEF OldInv, UniqueKeys, sameVnode
      <4> QED
        BY <4>2, <4>3
    <3> QED
      BY <3>2, <3>3
  <2>2. ASSUME patching, Done, NEW i \in DOMAIN oldCh, oldCh[i] # Undefined
        PROVE  removed[oldCh[i].elm] + Cardinality(Owners(oldCh[i].elm)) = 1
    <3>1. /\ IndicesInv /\ FateInv /\ ElementsInv
          /\ DOMAIN newCh = 1 .. Len(newCh) /\ Len(newCh) \in Nat
      BY <1>1, <2>2, Basics DEF PatchInv
    <3>2. Remaining = {} /\ Placed = DOMAIN newCh
      BY <2>2, <3>1 DEF Done, IndicesInv, Remaining, Placed
    <3>3. CASE /\ removed[oldCh[i].elm] = 0
               /\ \E j \in Placed : newCh[j].elm = oldCh[i].elm
      <4>1. PICK j \in Placed : newCh[j].elm = oldCh[i].elm
        BY <3>3
      <4>2. Owners(oldCh[i].elm) = {j}
        BY <3>1, <3>2, <4>1 DEF Owners, ElementsInv
      <4>3. Cardinality({j}) = 1
        BY FS_Singleton
      <4> QED
        BY <3>3, <4>2, <4>3
    <3>4. CASE /\ removed[oldCh[i].elm] = 1
               /\ \A j \in Placed : newCh[j].elm # oldCh[i].elm
      <4>1. Owners(oldCh[i].elm) = {}
        BY <3>2, <3>4 DEF Owners
      <4>2. Cardinality({}) = 0
        BY FS_EmptySet
      <4> QED
        BY <3>4, <4>1, <4>2
    <3> QED
      BY <2>2, <3>1, <3>2, <3>3, <3>4 DEF FateInv
  <2> QED
    BY <1>1, <2>1, <2>2, NothingIsMissing DEF RemovedOrReused
<1> QED
  BY <1>1, SpecInv, PTL

\* The removal pass of <transition-group> moves nothing and makes nothing, so that
\* elements keep their places while they leave (the comment at patch.ts:531).
THEOREM StayInPlaceCorrect == Spec => StayInPlace
<1>1. ASSUME Inv, Next, patching, ~canMove, ~canMove'
      PROVE  /\ ToSet(dom') \subseteq ToSet(dom)
             /\ \A e, f \in ToSet(dom') : Precedes(dom', e, f) => Precedes(dom, e, f)
  <2>1. CASE dom' = dom
    BY <2>1
  <2>2. CASE \E x : dom' = Without(x)
    <3>1. PICK x, t : dom' = t /\ t = Without(x)
      BY <2>2
    <3>2. IsList(dom)
      BY <1>1 DEF Inv, DocumentInv
    <3>3. /\ ToSet(t) = ToSet(dom) \ {x}
          /\ \A e, f : Precedes(t, e, f) <=> Precedes(dom, e, f) /\ e # x /\ f # x
      BY <3>1, <3>2, WithoutFacts
    <3> QED
      BY <3>1, <3>3
  <2>3. dom' = dom \/ \E x : dom' = Without(x)
    <3>1. ~NotFound /\ ~AddRest /\ ~BeginSecondPass /\ ~EndPatch
      BY <1>1, NotFoundMoves, AddRestMoves DEF BeginSecondPass, Begin, EndPatch
    <3>2. CASE SkipStart \/ SkipEnd \/ PatchStart \/ PatchEnd
      BY <3>2 DEF SkipStart, SkipEnd, PatchStart, PatchEnd
    <3>3. CASE MoveRight \/ MoveLeft \/ Found
      BY <1>1, <3>3 DEF MoveRight, MoveLeft, Found, Move
    <3>4. CASE RemoveRest
      BY <3>4 DEF RemoveRest, RemoveElm
    <3>5. CASE \E ch \in Lists : BeginPatch(ch) \/ BeginGroup(ch)
      BY <1>1, <3>5 DEF BeginPatch, BeginGroup
    <3>6. CASE \E e \in leaving : LeaveEnds(e)
      BY <1>1, <3>6 DEF LeaveEnds
    <3> QED
      BY <1>1, <3>1, <3>2, <3>3, <3>4, <3>5, <3>6 DEF Next, UpdateChildren
  <2> QED
    BY <2>1, <2>2, <2>3
<1>2. Inv /\ [Next]_vars => [patching /\ ~canMove /\ ~canMove' =>
        /\ ToSet(dom') \subseteq ToSet(dom)
        /\ \A e, f \in ToSet(dom') : Precedes(dom', e, f) => Precedes(dom, e, f)]_vars
  BY <1>1
<1> QED
  BY <1>2, SpecInv, PTL DEF Spec, StayInPlace

===============================================================================
