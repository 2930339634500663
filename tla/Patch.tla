-------------------------------- MODULE Patch --------------------------------
(***************************************************************************)
(* The reconciliation of the children of one element                       *)
(* (updateChildren in src/core/vdom/patch.ts), from render to render, with *)
(* elements that stay in the document until their leaving transition ends  *)
(* and with the removal pass of <transition-group>.                        *)
(*                                                                         *)
(* A vnode is a record of its key (or Undefined), its tag and its element. *)
(* tag stands for all that sameVnode compares besides the key. dom is the  *)
(* list of child nodes of the parent element. Elements are numbers; they   *)
(* are numbered anew, by their place, when a patch begins and when it      *)
(* ends; one made meanwhile has the negated index of its vnode.            *)
(***************************************************************************)
EXTENDS Integers, Sequences, FiniteSets, SequencesExt, FiniteSetsExt, Sublists

CONSTANTS
  Kinds,      \* what a vnode may be: records of a key and a tag
  Leaving,    \* tags of the elements that may have a leaving transition
  Undefined,  \* undefined: as a key, an element, an old child or the map of keys
  FirstLists, \* the lists of children a behaviour starts with
  MaxLen,     \* bound of the model: length of a list of children
  MaxLeaving, \* bound of the model: elements that leave at the start
  MaxPatches  \* bound of the model: number of patches

Keys == { k.key : k \in Kinds }
Tags == { k.tag : k \in Kinds }

Vnode(k, e) == [key |-> k.key, tag |-> k.tag, elm |-> e]
Vnodes == [key : Keys, tag : Tags, elm : Int \union {Undefined}]

\* Lists of children without duplicate keys, which the development build reports
Lists ==
  { ch \in UNION { [1 .. n -> Kinds] : n \in 0 .. MaxLen } :
      \A i, j \in DOMAIN ch : i # j /\ ch[i].key = ch[j].key => ch[i].key = Undefined }

ASSUME ConstantsAssumption ==
  /\ FirstLists \subseteq Lists
  /\ Undefined \notin Int /\ Undefined \notin Vnodes
  /\ \A S \in SUBSET Keys : Undefined \notin [S -> Nat]
  /\ MaxLen \in Nat /\ MaxLeaving \in Nat /\ MaxPatches \in Nat

VARIABLES
  dom,         \* the child nodes in the document, leaving ones included
  leaving,     \* elements whose leaving transition is under way
  oldCh,       \* the children of the last render
  newCh,       \* the children of this render
  oldStartIdx, oldEndIdx, newStartIdx, newEndIdx,
  keyToOldIdx, \* oldKeyToIdx
  canMove,     \* FALSE in the removal pass of <transition-group>
  nextCh,      \* the children for the pass after the removal pass
  patching,    \* updateChildren is running
  removed,     \* removed[e]: how often this patch has removed the element e it found
  patches      \* patches so far

vars == <<dom, leaving, oldCh, newCh, oldStartIdx, oldEndIdx, newStartIdx, newEndIdx,
          keyToOldIdx, canMove, nextCh, patching, removed, patches>>
indices == <<oldStartIdx, oldEndIdx, newStartIdx, newEndIdx>>
mode == <<canMove, nextCh, patching, patches>>

\* Between two patches: the children of the last render are in the document, in
\* their order, and with them elements of earlier renders that are leaving.
Init ==
  /\ \E ch \in FirstLists, n \in 0 .. MaxLeaving :
       \E at \in [DOMAIN ch -> 1 .. Len(ch) + n] :
         /\ \A i, j \in DOMAIN ch : i < j => at[i] < at[j]
         /\ dom = [i \in 1 .. Len(ch) + n |-> i]
         /\ leaving = ToSet(dom) \ { at[i] : i \in DOMAIN ch }
         /\ newCh = [i \in DOMAIN ch |-> Vnode(ch[i], at[i])]
  /\ oldCh = <<>>
  /\ oldStartIdx = 1 /\ oldEndIdx = 0 /\ newStartIdx = 1 /\ newEndIdx = 0
  /\ keyToOldIdx = Undefined
  /\ canMove = TRUE /\ nextCh = <<>>
  /\ patching = FALSE
  /\ removed = <<>>
  /\ patches = 0

-----------------------------------------------------------------------------
(***************************************************************************)
(* The document.                                                           *)
(***************************************************************************)
Without(e) == Sublist(dom, { i \in DOMAIN dom : dom[i] # e })
Place(s, e) == CHOOSE i \in DOMAIN s : s[i] = e

\* parentElm.insertBefore(e, ref); a ref that is Undefined stands for the end
InsertBefore(e, ref) ==
  IF ref = e THEN dom
  ELSE IF ref = Undefined THEN Append(Without(e), e)
  ELSE InsertAt(Without(e), Place(Without(e), ref), e)

NextSibling(e) == IF Place(dom, e) = Len(dom) THEN Undefined ELSE dom[Place(dom, e) + 1]

\* the element of the new vnode that is next
NewElm == -newStartIdx

-----------------------------------------------------------------------------
(***************************************************************************)
(* A patch.                                                                *)
(***************************************************************************)

sameVnode(a, b) == a.key = b.key /\ a.tag = b.tag

\* Elements are numbered by their place: in a list of vnodes, in the document.
Renumbered(ch) == [i \in DOMAIN ch |-> [ch[i] EXCEPT !.elm = Place(dom, @)]]

Renumber ==
  /\ dom' = [i \in DOMAIN dom |-> i]
  /\ leaving' = { Place(dom, e) : e \in leaving }

Begin(old, new, moves, next) ==
  /\ Renumber
  /\ removed' = [e \in DOMAIN dom |-> 0]
  /\ oldCh' = Renumbered(old)
  /\ newCh' = new
  /\ oldStartIdx' = 1 /\ oldEndIdx' = Len(old)
  /\ newStartIdx' = 1 /\ newEndIdx' = Len(new)
  /\ keyToOldIdx' = Undefined
  /\ canMove' = moves /\ nextCh' = next
  /\ patching' = TRUE

Fresh(ch) == [i \in DOMAIN ch |-> Vnode(ch[i], Undefined)]

\* The children are ch now: newCh, after a patch, is the last render.
BeginPatch(ch) ==
  /\ ~patching /\ patches < MaxPatches
  /\ patches' = patches + 1
  /\ Begin(newCh, Fresh(ch), TRUE, <<>>)

\* What <transition-group> keeps: the old children with a key in the new ones
Kept(ch) ==
  Sublist(newCh, { i \in DOMAIN newCh : \E j \in DOMAIN ch : ch[j].key = newCh[i].key })

AllKeyed(ch) == \A i \in DOMAIN ch : ch[i].key # Undefined

\* <transition-group>: a pass that only removes, and then the children ch
BeginGroup(ch) ==
  /\ ~patching /\ patches < MaxPatches
  /\ patches' = patches + 1
  /\ AllKeyed(ch) /\ AllKeyed(newCh)
  /\ Begin(newCh, Renumbered(Kept(ch)), FALSE, ch)

\* updateChildren has returned.
Done == oldStartIdx > oldEndIdx /\ newStartIdx > newEndIdx

BeginSecondPass ==
  /\ patching /\ Done /\ ~canMove
  /\ Begin(newCh, Fresh(nextCh), TRUE, <<>>)
  /\ UNCHANGED patches

EndPatch ==
  /\ patching /\ Done /\ canMove
  /\ patching' = FALSE
  /\ Renumber
  /\ removed' = <<>>
  /\ newCh' = Renumbered(newCh)
  /\ oldCh' = <<>> /\ keyToOldIdx' = Undefined
  /\ oldStartIdx' = 1 /\ oldEndIdx' = 0 /\ newStartIdx' = 1 /\ newEndIdx' = 0
  /\ UNCHANGED <<canMove, nextCh, patches>>

\* A leaving transition ends.
LeaveEnds(e) ==
  /\ ~patching
  /\ e \in leaving
  /\ leaving' = leaving \ {e}
  /\ dom' = Without(e)
  /\ UNCHANGED <<oldCh, newCh, indices, keyToOldIdx, canMove, nextCh, patching, removed, patches>>

-----------------------------------------------------------------------------
(***************************************************************************)
(* The loop: the branches in the order in which they are tried.            *)
(***************************************************************************)
InLoop == patching /\ oldStartIdx <= oldEndIdx /\ newStartIdx <= newEndIdx

OldStart == oldCh[oldStartIdx]
OldEnd   == oldCh[oldEndIdx]
NewStart == newCh[newStartIdx]
NewEnd   == newCh[newEndIdx]

SkipsStart == InLoop /\ OldStart = Undefined
SkipsEnd   == InLoop /\ ~SkipsStart /\ OldEnd = Undefined
Compares   == InLoop /\ OldStart # Undefined /\ OldEnd # Undefined
SameStart  == Compares /\ sameVnode(OldStart, NewStart)
SameEnd    == Compares /\ ~SameStart /\ sameVnode(OldEnd, NewEnd)
MovesRight == Compares /\ ~SameStart /\ ~SameEnd /\ sameVnode(OldStart, NewEnd)
MovesLeft  == Compares /\ ~SameStart /\ ~SameEnd /\ ~MovesRight /\ sameVnode(OldEnd, NewStart)
Searches   == Compares /\ ~SameStart /\ ~SameEnd /\ ~MovesRight /\ ~MovesLeft

\* patchVnode(o, newCh[i]): the new vnode takes the element over
PatchVnode(o, i) == newCh' = [newCh EXCEPT ![i].elm = o.elm]

\* mutant: in the removal pass too
MoveAlways(e, ref) == dom' = InsertBefore(e, ref)

\* nodeOps.insertBefore unless removeOnly
Move(e, ref) == dom' = IF canMove THEN InsertBefore(e, ref) ELSE dom

SkipStart ==
  /\ SkipsStart
  /\ oldStartIdx' = oldStartIdx + 1
  /\ UNCHANGED <<dom, leaving, oldCh, newCh, oldEndIdx, newStartIdx, newEndIdx, keyToOldIdx,
                 mode, removed>>

SkipEnd ==
  /\ SkipsEnd
  /\ oldEndIdx' = oldEndIdx - 1
  /\ UNCHANGED <<dom, leaving, oldCh, newCh, oldStartIdx, newStartIdx, newEndIdx, keyToOldIdx,
                 mode, removed>>

PatchStart ==
  /\ SameStart
  /\ PatchVnode(OldStart, newStartIdx)
  /\ oldStartIdx' = oldStartIdx + 1 /\ newStartIdx' = newStartIdx + 1
  /\ UNCHANGED <<dom, leaving, oldCh, oldEndIdx, newEndIdx, keyToOldIdx, mode, removed>>

PatchEnd ==
  /\ SameEnd
  /\ PatchVnode(OldEnd, newEndIdx)
  /\ oldEndIdx' = oldEndIdx - 1 /\ newEndIdx' = newEndIdx - 1
  /\ UNCHANGED <<dom, leaving, oldCh, oldStartIdx, newStartIdx, keyToOldIdx, mode, removed>>

\* the place after the last old vnode
AfterEnd == NextSibling(OldEnd.elm)

MoveRight ==
  /\ MovesRight
  /\ PatchVnode(OldStart, newEndIdx)
  /\ Move(OldStart.elm, AfterEnd)
  /\ oldStartIdx' = oldStartIdx + 1 /\ newEndIdx' = newEndIdx - 1
  /\ UNCHANGED <<leaving, oldCh, oldEndIdx, newStartIdx, keyToOldIdx, mode, removed>>

MoveLeft ==
  /\ MovesLeft
  /\ PatchVnode(OldEnd, newStartIdx)
  /\ Move(OldEnd.elm, OldStart.elm)
  /\ oldEndIdx' = oldEndIdx - 1 /\ newStartIdx' = newStartIdx + 1
  /\ UNCHANGED <<leaving, oldCh, oldStartIdx, newEndIdx, keyToOldIdx, mode, removed>>

KeyToIdx(first, last) ==
  LET keyed == { i \in first .. last : oldCh[i].key # Undefined }
  IN  [ k \in { oldCh[i].key : i \in keyed } |-> Max({ i \in keyed : oldCh[i].key = k }) ]

\* The map is made when it is first needed and kept.
OldKeys ==
  IF keyToOldIdx # Undefined THEN keyToOldIdx ELSE KeyToIdx(oldStartIdx, oldEndIdx)

IsCandidate(c) == c # Undefined /\ sameVnode(NewStart, c)

findIdxInOld ==
  LET same == { i \in oldStartIdx .. oldEndIdx - 1 : IsCandidate(oldCh[i]) }
  IN  { i \in same : \A j \in same : i <= j }

\* idxInOld, or nothing: by the key of the new vnode or else by findIdxInOld
Candidates ==
  IF NewStart.key = Undefined THEN findIdxInOld
  ELSE { OldKeys[k] : k \in {NewStart.key} \intersect DOMAIN OldKeys }

Finds(i) == i \in Candidates /\ sameVnode(oldCh[i], NewStart)

\* mutant: the moved vnode stays in the old list
FoundIsKept(i) == oldCh' = oldCh

FoundIsGone(i) == oldCh' = [oldCh EXCEPT ![i] = Undefined]

Found ==
  /\ Searches
  /\ \E i \in Candidates :
       /\ Finds(i)
       /\ PatchVnode(oldCh[i], newStartIdx)
       /\ FoundIsGone(i)
       /\ Move(oldCh[i].elm, OldStart.elm)
  /\ keyToOldIdx' = OldKeys
  /\ newStartIdx' = newStartIdx + 1
  /\ UNCHANGED <<leaving, oldStartIdx, oldEndIdx, newEndIdx, mode, removed>>

\* createElm for newCh[newStartIdx]
Create(ref) ==
  /\ newCh' = [newCh EXCEPT ![newStartIdx].elm = NewElm]
  /\ dom' = InsertBefore(NewElm, ref)
  /\ newStartIdx' = newStartIdx + 1

NotFound ==
  /\ Searches
  /\ \A i \in Candidates : ~Finds(i)
  /\ Create(OldStart.elm)
  /\ keyToOldIdx' = OldKeys
  /\ UNCHANGED <<leaving, oldCh, oldStartIdx, oldEndIdx, newEndIdx, mode, removed>>

-----------------------------------------------------------------------------
(***************************************************************************)
(* After the loop: addVnodes or removeVnodes.                              *)
(***************************************************************************)

\* mutant: the rest is appended
RefAtEnd == Undefined

\* the element of the first new vnode after the rest
RefElm == IF newEndIdx + 1 \in DOMAIN newCh THEN newCh[newEndIdx + 1].elm ELSE Undefined

AddsRest == patching /\ oldStartIdx > oldEndIdx /\ newStartIdx <= newEndIdx

AddRest ==
  /\ AddsRest
  /\ Create(RefElm)
  /\ UNCHANGED <<leaving, oldCh, oldStartIdx, oldEndIdx, newEndIdx, keyToOldIdx, mode, removed>>

\* The element goes now or, with a transition, later.
RemoveElm(vnode) ==
  /\ removed' = [removed EXCEPT ![vnode.elm] = @ + 1]
  /\ \/ dom' = Without(vnode.elm) /\ UNCHANGED leaving
     \/ vnode.tag \in Leaving /\ leaving' = leaving \union {vnode.elm} /\ UNCHANGED dom

RemoveRest ==
  /\ patching /\ newStartIdx > newEndIdx /\ oldStartIdx <= oldEndIdx
  /\ IF OldStart = Undefined THEN UNCHANGED <<dom, leaving, removed>> ELSE RemoveElm(OldStart)
  /\ oldStartIdx' = oldStartIdx + 1
  /\ UNCHANGED <<oldCh, newCh, oldEndIdx, newStartIdx, newEndIdx, keyToOldIdx, mode>>

-----------------------------------------------------------------------------
UpdateChildren ==
  \/ SkipStart \/ SkipEnd \/ PatchStart \/ PatchEnd \/ MoveRight \/ MoveLeft
  \/ Found \/ NotFound \/ AddRest \/ RemoveRest
  \/ BeginSecondPass \/ EndPatch

Next ==
  \/ UpdateChildren
  \/ \E ch \in Lists : BeginPatch(ch) \/ BeginGroup(ch)
  \/ \E e \in leaving : LeaveEnds(e)

Spec == Init /\ [][Next]_vars

-----------------------------------------------------------------------------
(***************************************************************************)
(* Safety.                                                                 *)
(***************************************************************************)
InOrder ==
  /\ IsInjective(dom)
  /\ ToSet(dom) \ leaving = { newCh[i].elm : i \in DOMAIN newCh }
  /\ \A i, j \in DOMAIN newCh : i < j => Precedes(dom, newCh[i].elm, newCh[j].elm)

\* After a patch the document shows the children of the render in their order,
\* whatever was there before and wherever elements that leave still stand
\* (patch.ts:504-661).
ChildrenInOrder == ~patching => InOrder

\* Every old vnode that is still to be visited has its element in the document,
\* the entry found for a new vnode, by a map made before some entries went, has
\* not been taken before, and the rest is added before an element that is there:
\* updateChildren neither reads a property of undefined nor inserts before an
\* element that has gone (patch.ts:618-645).
NothingMissing ==
  /\ InLoop => \A i \in oldStartIdx .. oldEndIdx :
       oldCh[i] # Undefined => Contains(dom, oldCh[i].elm) /\ oldCh[i].elm \notin leaving
  /\ Searches => \A i \in Candidates : oldCh[i] # Undefined
  /\ AddsRest => newEndIdx = Len(newCh) \/ Contains(dom, RefElm)

\* At the end of updateChildren an old vnode has been removed, once, or its
\* element has passed to exactly one new vnode, and it has if a new vnode has its
\* key and tag: none is destroyed twice, left behind, or destroyed in use, and
\* none loses the state of its element and of its component (patch.ts:440-453,
\* 600-645).  On the way nothing is missing.
Owners(e) == { j \in DOMAIN newCh : newCh[j].elm = e }

RemovedOrReused ==
  /\ NothingMissing
  /\ patching => \A i \in DOMAIN oldCh, j \in DOMAIN newCh :
       oldCh[i] # Undefined /\ newCh[j].elm # Undefined /\ oldCh[i].key # Undefined
         /\ sameVnode(oldCh[i], newCh[j]) => newCh[j].elm = oldCh[i].elm
  /\ patching /\ Done => \A i \in DOMAIN oldCh : oldCh[i] # Undefined =>
       removed[oldCh[i].elm] + Cardinality(Owners(oldCh[i].elm)) = 1

\* The removal pass of <transition-group> leaves every element where it is, so
\* that removed elements keep their place among the others while they leave
\* ("to ensure removed elements stay in correct relative positions", the
\* comment at patch.ts:531).
StayInPlace ==
  [][patching /\ ~canMove /\ ~canMove' =>
       /\ ToSet(dom') \subseteq ToSet(dom)
       /\ \A e, f \in ToSet(dom') : Precedes(dom', e, f) => Precedes(dom, e, f)]_vars
===============================================================================
