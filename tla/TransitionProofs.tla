---------------------------- MODULE TransitionProofs ----------------------------
(***************************************************************************)
(* Proofs about Transition, for all views, all toggles and every order of  *)
(* frames, ends and renderings: the hooks of an element pair               *)
(* (HooksPaired), no view is in the document twice, and at rest the        *)
(* document is as wanted (SettlesAsWanted).                                *)
(*                                                                         *)
(* The invariant is Good, of a heap.  Inside a task it holds but for what  *)
(* is going on: d is a leave that its closure is just about to perform, X  *)
(* are elements that are current without being in a transition, or that    *)
(* are on their way in or out, n is the element just created, whose view   *)
(* may still leave, and z says that a replacement of mode out-in begins.   *)
(* Between tasks d = n = 0, X = {} and z is FALSE.                         *)
(***************************************************************************)
EXTENDS Transition, SequenceLemmas

-----------------------------------------------------------------------------
(***************************************************************************)
(* The invariant.                                                          *)
(***************************************************************************)
Running == {"frame", "end", "user"}
Classes == {"enter", "enter-active", "enter-to", "leave", "leave-active", "leave-to"}
Hooks == {"beforeEnter", "afterEnter", "enterCancelled", "beforeLeave", "afterLeave", "leaveCancelled"}

ElementType ==
  [key : Views, inDom : BOOLEAN, display : BOOLEAN, classes : SUBSET Classes,
   enterCb : Nat, leaveCb : Nat, hooks : Seq(Hooks)]

CallbackType ==
  [kind : {"enter", "leave"}, el : Nat, cancelled : BOOLEAN, called : BOOLEAN,
   link : Nat, reopens : BOOLEAN, stage : Running \union {"delayed", "ended"}]

HeapType ==
  [els : Seq(ElementType), cbs : Seq(CallbackType), links : Seq(Nat), entered : Nat,
   pending : [Views -> Nat], cur : Nat, shown : BOOLEAN,
   leaving : BOOLEAN, mounted : BOOLEAN, dirty : BOOLEAN]

Uncalled(h, i) == i \in DOMAIN h.cbs /\ ~h.cbs[i].called

\* Does e enter, does it leave, and is that leave one that waits in a closure?
InEnter(h, e) == h.els[e].enterCb # 0
Leaves(h, e) == h.els[e].leaveCb # 0
Delayed(h, e) == Leaves(h, e) /\ h.cbs[h.els[e].leaveCb].stage = "delayed"

\* The callbacks of elements are those that were not called.
CallbacksOf(h, e) ==
  /\ h.els[e].enterCb = 0 \/ h.els[e].leaveCb = 0
  /\ LET i == h.els[e].enterCb IN i # 0 => Uncalled(h, i) /\ h.cbs[i].kind = "enter" /\ h.cbs[i].el = e
  /\ LET i == h.els[e].leaveCb IN i # 0 => Uncalled(h, i) /\ h.cbs[i].kind = "leave" /\ h.cbs[i].el = e

CallbackInv(c, h, i) ==
  /\ h.cbs[i].el \in DOMAIN h.els
  /\ h.cbs[i].kind = "enter" => ~h.cbs[i].reopens /\ h.cbs[i].stage # "delayed"
  /\ h.cbs[i].kind = "leave" => h.cbs[i].link = 0
  /\ h.cbs[i].stage \in {"frame", "end"} => c.css
  /\ ~h.cbs[i].called =>
       /\ ~h.cbs[i].cancelled /\ h.cbs[i].stage # "ended"
       /\ i = IF h.cbs[i].kind = "enter" THEN h.els[h.cbs[i].el].enterCb ELSE h.els[h.cbs[i].el].leaveCb

CallbacksInv(c, h) ==
  /\ \A e \in DOMAIN h.els : CallbacksOf(h, e)
  /\ \A i \in DOMAIN h.cbs : CallbackInv(c, h, i)

\* HooksPaired, of the hooks s of one element
PairsUp(c, s) ==
  LET Before(i) == IF i = 1 THEN "none" ELSE s[i - 1]
  IN \A i \in DOMAIN s :
         CASE s[i] \in {"afterEnter", "enterCancelled"} -> Before(i) = "beforeEnter"
           [] s[i] = "afterLeave" -> Before(i) = "beforeLeave"
           [] s[i] = "leaveCancelled" ->
                Before(i) = "beforeLeave" \/ (c.mode = "in-out" /\ Before(i) # "beforeEnter")
           [] s[i] \in {"beforeEnter", "beforeLeave"} -> Before(i) \notin {"beforeEnter", "beforeLeave"}

LastHook(s) == IF s = <<>> THEN "none" ELSE s[Len(s)]

\* The last hook tells what e is in the middle of.
HookInv(c, h, e) ==
  /\ PairsUp(c, h.els[e].hooks)
  /\ LastHook(h.els[e].hooks) = "beforeEnter" <=> InEnter(h, e)
  /\ LastHook(h.els[e].hooks) = "beforeLeave" <=> Leaves(h, e) /\ ~Delayed(h, e)

HooksInv(c, h) == \A e \in DOMAIN h.els : HookInv(c, h, e)

\* The closure that afterEnter and enterCancelled of callback i perform
LinkOf(h, i) == IF h.cbs[i].link = 0 THEN 0 ELSE h.links[h.cbs[i].link]

\* A closure of mode in-out belongs to one enter and holds at most one leave.
Closures(h) ==
  /\ \A i \in DOMAIN h.cbs : h.cbs[i].link \in 0 .. Len(h.links)
  /\ \A i, j \in DOMAIN h.cbs : h.cbs[i].link = h.cbs[j].link /\ h.cbs[i].link # 0 => i = j
  /\ \A l \in DOMAIN h.links : h.links[l] # 0 =>
       h.links[l] \in DOMAIN h.cbs /\ h.cbs[h.links[l]].kind = "leave"
  /\ \A l, m \in DOMAIN h.links : h.links[l] = h.links[m] /\ h.links[l] # 0 => l = m

\* What an enter is to perform waits for it, or was cancelled.
Holds(h, i) ==
  ~h.cbs[i].called /\ LinkOf(h, i) # 0 =>
    LET k == h.cbs[LinkOf(h, i)] IN k.stage = "delayed" /\ (k.called => k.cancelled)

\* A leave that waits has an enter that will perform it: it is not forgotten.
Waits(c, h, i) ==
  ~h.cbs[i].called /\ h.cbs[i].stage = "delayed" =>
    /\ c.mode = "in-out"
    /\ \E j \in DOMAIN h.cbs : ~h.cbs[j].called /\ LinkOf(h, j) = i

LinksInv(c, h, d) ==
  /\ Closures(h)
  /\ \A i \in DOMAIN h.cbs : Holds(h, i)
  /\ \A i \in DOMAIN h.cbs \ {d} : Waits(c, h, i)

\* The classes that an element has at most, by its transition
ClassesOf(h, e) ==
  IF InEnter(h, e)
  THEN IF h.cbs[h.els[e].enterCb].stage = "frame" THEN {"enter", "enter-active"} ELSE {"enter-to", "enter-active"}
  ELSE IF ~Leaves(h, e) \/ Delayed(h, e) THEN {}
  ELSE IF h.cbs[h.els[e].leaveCb].stage = "frame" THEN {"leave", "leave-active"} ELSE {"leave-to", "leave-active"}

ClassesFit(c, h, e, X) ==
  /\ ~c.css => h.els[e].classes = {}
  /\ h.els[e].inDom \/ c.use # "if" \/ e \in X => h.els[e].classes \subseteq ClassesOf(h, e)

\* A transition ends before its first frame only when its element is taken away.
Unframed(c, h, i, X) ==
  h.cbs[i].called /\ ~h.cbs[i].cancelled /\ h.cbs[i].stage = "frame" =>
    c.use = "if" /\ ~h.els[h.cbs[i].el].inDom /\ h.cbs[i].el \notin X

ClassesInv(c, h, X) ==
  /\ \A e \in DOMAIN h.els : ClassesFit(c, h, e, X)
  /\ \A i \in DOMAIN h.cbs : Unframed(c, h, i, X)

\* What is in the document is the current element, or leaves.
PlacesInv(c, h, X) ==
  /\ h.cur # 0 => h.cur \in DOMAIN h.els /\ h.els[h.cur].inDom
  /\ c.use # "show" => \A e \in X \union {h.cur} : e \in DOMAIN h.els => ~Leaves(h, e)
  /\ \A e \in DOMAIN h.els :
       /\ InEnter(h, e) => e \in X \union {h.cur}
       /\ Leaves(h, e) => h.els[e].inDom
       /\ h.els[e].inDom => Leaves(h, e) \/ e \in X \union {h.cur}
  /\ c.use = "show" => h.cur = Len(h.els) /\ Len(h.els) <= 1
  /\ c.use = "kept" => \A e, f \in DOMAIN h.els : h.els[e].key = h.els[f].key => e = f

\* No view is in the document twice.
KeysInv(c, h, n) ==
  /\ n \in DOMAIN h.els => ~Leaves(h, n)
  /\ \A e, f \in DOMAIN h.els \ {n} : h.els[e].inDom /\ h.els[f].inDom /\ h.els[e].key = h.els[f].key => e = f

\* _pending holds, by view, what has begun to leave.
PendingInv(c, h) ==
  c.use # "show" =>
    /\ \A k \in Views : LET p == h.pending[k] IN
         p # 0 => p \in DOMAIN h.els /\ h.els[p].key = k /\ Leaves(h, p) /\ ~Delayed(h, p)
    /\ \A e \in DOMAIN h.els : Leaves(h, e) /\ ~Delayed(h, e) => h.pending[h.els[e].key] = e

\* _leaving is set exactly as long as a leave is there that will reset it.
OutInInv(h, z) ==
  /\ \A i \in DOMAIN h.cbs : h.cbs[i].reopens /\ ~h.cbs[i].called => h.leaving /\ h.cur = 0
  /\ \A i, j \in DOMAIN h.cbs :
       h.cbs[i].reopens /\ ~h.cbs[i].called /\ h.cbs[j].reopens /\ ~h.cbs[j].called => i = j
  /\ z => \A i \in DOMAIN h.cbs : h.cbs[i].reopens => h.cbs[i].called
  /\ h.leaving => z \/ \E i \in DOMAIN h.cbs : h.cbs[i].reopens /\ ~h.cbs[i].called

\* The element of v-show is displayed or on its way, as the directive was told.
ShownInv(c, h) ==
  c.use = "show" /\ h.cur = 1 =>
    IF h.shown THEN h.els[1].display /\ ~Leaves(h, 1)
    ELSE ~InEnter(h, 1) /\ (Leaves(h, 1) \/ ~h.els[1].display)

\* What was rendered is what is wanted, unless another rendering is to come.
WantInv(c, w, h) ==
  /\ h.entered = 0
  /\ ~h.mounted => h.els = <<>> /\ h.cbs = <<>> /\ h.links = <<>> /\ h.cur = 0 /\ ~h.leaving /\ h.dirty
                     /\ h.pending = [v \in Views |-> 0]
  /\ ~h.dirty =>
       IF c.use = "show" THEN h.cur = 1 /\ (h.shown <=> w # None)
       ELSE IF h.cur # 0 THEN h.els[h.cur].key = w
       ELSE w = None \/ h.leaving

Good(c, h, d, X, n, z) ==
  /\ h \in HeapType
  /\ CallbacksInv(c, h)
  /\ HooksInv(c, h)
  /\ LinksInv(c, h, d)
  /\ ClassesInv(c, h, X)
  /\ PlacesInv(c, h, X)
  /\ KeysInv(c, h, n)
  /\ PendingInv(c, h)
  /\ OutInInv(h, z)

\* The element of a callback
IsOf(h, i, e) == h.cbs[i].el = e

SameCallback(b, d) == d.kind = b.kind /\ d.el = b.el /\ d.link = b.link /\ d.reopens = b.reopens

\* What no callback changes
Others(h) == <<h.links, h.entered, h.cur, h.shown, h.mounted>>

\* From h to g at most element e and callback i change.
Touches(h, g, e, i) ==
  /\ g \in HeapType
  /\ DOMAIN g.els = DOMAIN h.els /\ DOMAIN g.cbs = DOMAIN h.cbs
  /\ \A f \in DOMAIN h.els : f # e => g.els[f] = h.els[f]
  /\ \A j \in DOMAIN h.cbs : j # i => g.cbs[j] = h.cbs[j]
  /\ g.els[e].key = h.els[e].key /\ SameCallback(h.cbs[i], g.cbs[i])
  /\ Others(g) = Others(h)

LeaveCalled(c, h, g, i, x) ==
  LET e == h.cbs[i].el IN
  /\ Touches(h, g, e, i)
  /\ g.cbs[i].called /\ g.cbs[i].cancelled = x
  /\ g.cbs[i].stage = h.cbs[i].stage \/ (h.cbs[i].stage # "delayed" /\ g.cbs[i].stage \in {"ended", "delayed"})
  /\ g.els[e].enterCb = h.els[e].enterCb /\ g.els[e].leaveCb = 0
  /\ g.els[e].hooks = Append(h.els[e].hooks, IF x THEN "leaveCancelled" ELSE "afterLeave")
  /\ g.els[e].inDom = (h.els[e].inDom /\ (x \/ c.use = "show"))
  /\ g.els[e].display = (h.els[e].display /\ (x \/ c.use # "show"))
  /\ g.els[e].classes =
       IF c.css THEN h.els[e].classes \ ({"leave-to", "leave-active"} \union IF x THEN {"leave"} ELSE {})
       ELSE h.els[e].classes
  /\ g.pending = IF h.els[e].inDom THEN [h.pending EXCEPT ![h.els[e].key] = 0] ELSE h.pending
  /\ g.leaving = (h.leaving /\ (x \/ ~h.cbs[i].reopens))
  /\ g.dirty = (h.dirty \/ (h.cbs[i].reopens /\ ~x))

LeavePerformed(c, h, g, i) ==
  LET e == h.cbs[i].el IN
  /\ Touches(h, g, e, i)
  /\ g.cbs[i].called = h.cbs[i].called /\ g.cbs[i].cancelled = h.cbs[i].cancelled
  /\ g.cbs[i].stage = IF c.css THEN "frame" ELSE "user"
  /\ g.els[e].enterCb = h.els[e].enterCb /\ g.els[e].leaveCb = h.els[e].leaveCb
  /\ g.els[e].inDom = h.els[e].inDom /\ g.els[e].display = h.els[e].display
  /\ g.els[e].hooks = Append(h.els[e].hooks, "beforeLeave")
  /\ g.els[e].classes = IF c.css THEN h.els[e].classes \union {"leave", "leave-active"} ELSE h.els[e].classes
  /\ g.pending = IF c.use # "show" /\ h.els[e].inDom THEN [h.pending EXCEPT ![h.els[e].key] = e] ELSE h.pending
  /\ g.leaving = h.leaving /\ g.dirty = h.dirty

EnterCalled(c, h, g, i, x) ==
  LET e == h.cbs[i].el IN
  /\ Touches(h, g, e, i)
  /\ g.cbs[i].called /\ g.cbs[i].cancelled = x /\ g.cbs[i].stage \in {h.cbs[i].stage, "ended"}
  /\ g.els[e].enterCb = 0 /\ g.els[e].leaveCb = h.els[e].leaveCb
  /\ g.els[e].inDom = h.els[e].inDom /\ g.els[e].display = h.els[e].display
  /\ g.els[e].hooks = Append(h.els[e].hooks, IF x THEN "enterCancelled" ELSE "afterEnter")
  /\ g.els[e].classes =
       IF c.css THEN h.els[e].classes \ ({"enter-to", "enter-active"} \union IF x THEN {"enter"} ELSE {})
       ELSE h.els[e].classes
  /\ g.pending = h.pending /\ g.leaving = h.leaving /\ g.dirty = h.dirty

-----------------------------------------------------------------------------
(***************************************************************************)
(* What the operators return.                                              *)
(***************************************************************************)
\* From h to g only element e changes, to r.
ElementSet(h, g, e, r) ==
  /\ g \in HeapType /\ DOMAIN g.els = DOMAIN h.els
  /\ \A f \in DOMAIN h.els : g.els[f] = IF f = e THEN r ELSE h.els[f]
  /\ g.cbs = h.cbs /\ Others(g) = Others(h)
  /\ g.pending = h.pending /\ g.leaving = h.leaving /\ g.dirty = h.dirty

LEMMA SetElement ==
  ASSUME NEW h \in HeapType, NEW e \in DOMAIN h.els, NEW r \in ElementType
  PROVE  ElementSet(h, [h EXCEPT !.els[e] = r], e, r)
<1> DEFINE s == [h.els EXCEPT ![e] = r]
<1>1. h.els \in Seq(ElementType)
  BY DEF HeapType
<1>2. s \in Seq(ElementType) /\ DOMAIN s = DOMAIN h.els /\ \A f \in DOMAIN h.els : s[f] = IF f = e THEN r ELSE h.els[f]
  BY <1>1
<1> HIDE DEF s
<1>3. [h EXCEPT !.els = s] \in HeapType
  BY <1>2 DEF HeapType
<1>4. ElementSet(h, [h EXCEPT !.els = s], e, r)
  BY <1>2, <1>3 DEF ElementSet, Others, HeapType
<1> QED
  BY <1>4 DEF s

LEMMA ElementChanges ==
  ASSUME NEW h \in HeapType, NEW e \in DOMAIN h.els
  PROVE  /\ h.els[e] \in ElementType
         /\ \A cs \in SUBSET Classes :
              /\ ElementSet(h, RemoveClasses(h, e, cs), e,
                            [h.els[e] EXCEPT !.classes = IF config.css THEN @ \ cs ELSE @])
              /\ ElementSet(h, AddClasses(h, e, cs), e, [h.els[e] EXCEPT !.classes = @ \union cs])
         /\ \A name \in Hooks : ElementSet(h, Hook(h, e, name), e, [h.els[e] EXCEPT !.hooks = Append(@, name)])
         /\ ElementSet(h, Rm(h, e), e, [h.els[e] EXCEPT !.display = @ /\ config.use # "show",
                                                       !.inDom = @ /\ config.use = "show"])
<1>1. h.els[e] \in ElementType
  BY DEF HeapType
<1>2. ElementSet(h, h, e, h.els[e])
  BY DEF ElementSet
<1>3. ASSUME NEW cs \in SUBSET Classes
      PROVE  /\ ElementSet(h, RemoveClasses(h, e, cs), e,
                            [h.els[e] EXCEPT !.classes = IF config.css THEN @ \ cs ELSE @])
             /\ ElementSet(h, AddClasses(h, e, cs), e, [h.els[e] EXCEPT !.classes = @ \union cs])
  <2>1. [h.els[e] EXCEPT !.classes = @ \ cs] \in ElementType /\ [h.els[e] EXCEPT !.classes = @ \union cs] \in ElementType
    BY <1>1 DEF ElementType
  <2>2. [h.els[e] EXCEPT !.classes = @] = h.els[e]
    BY <1>1 DEF ElementType
  <2> QED
    BY <1>2, <2>1, <2>2, SetElement DEF RemoveClasses, AddClasses
<1>4. ASSUME NEW name \in Hooks
      PROVE  ElementSet(h, Hook(h, e, name), e, [h.els[e] EXCEPT !.hooks = Append(@, name)])
  <2>0. Append(h.els[e].hooks, name) \in Seq(Hooks)
    BY <1>1, <1>4 DEF ElementType
  <2>1. [h.els[e] EXCEPT !.hooks = Append(@, name)] \in ElementType
    BY <1>1, <2>0 DEF ElementType
  <2> QED
    BY <2>1, SetElement DEF Hook
<1>5. ElementSet(h, Rm(h, e), e, [h.els[e] EXCEPT !.display = @ /\ config.use # "show",
                                                 !.inDom = @ /\ config.use = "show"])
  <2>1. [h.els[e] EXCEPT !.display = FALSE] \in ElementType /\ [h.els[e] EXCEPT !.inDom = FALSE] \in ElementType
    BY <1>1 DEF ElementType
  <2>2. [h.els[e] EXCEPT !.display = @ /\ config.use # "show", !.inDom = @ /\ config.use = "show"]
          = IF config.use = "show" THEN [h.els[e] EXCEPT !.display = FALSE] ELSE [h.els[e] EXCEPT !.inDom = FALSE]
    BY <1>1 DEF ElementType
  <2> QED
    BY <2>1, <2>2, SetElement DEF Rm, ShowUse
<1> QED
  BY <1>1, <1>3, <1>4, <1>5

\* From h to g only callback i changes, to r.
CallbackSet(h, g, i, r) ==
  /\ g \in HeapType /\ DOMAIN g.cbs = DOMAIN h.cbs
  /\ \A j \in DOMAIN h.cbs : g.cbs[j] = IF j = i THEN r ELSE h.cbs[j]
  /\ g.els = h.els /\ Others(g) = Others(h)
  /\ g.pending = h.pending /\ g.leaving = h.leaving /\ g.dirty = h.dirty

LEMMA SetCallback ==
  ASSUME NEW h \in HeapType, NEW i \in DOMAIN h.cbs, NEW r \in CallbackType
  PROVE  CallbackSet(h, [h EXCEPT !.cbs[i] = r], i, r)
<1> DEFINE s == [h.cbs EXCEPT ![i] = r]
<1>1. h.cbs \in Seq(CallbackType)
  BY DEF HeapType
<1>2. s \in Seq(CallbackType) /\ DOMAIN s = DOMAIN h.cbs /\ \A j \in DOMAIN h.cbs : s[j] = IF j = i THEN r ELSE h.cbs[j]
  BY <1>1
<1> HIDE DEF s
<1>3. [h EXCEPT !.cbs = s] \in HeapType
  BY <1>2 DEF HeapType
<1>4. CallbackSet(h, [h EXCEPT !.cbs = s], i, r)
  BY <1>2, <1>3 DEF CallbackSet, Others, HeapType
<1> QED
  BY <1>4 DEF s

LEMMA CallbackChanges ==
  ASSUME NEW h \in HeapType, NEW i \in DOMAIN h.cbs
  PROVE  /\ h.cbs[i] \in CallbackType
         /\ CallbackSet(h, [h EXCEPT !.cbs[i].called = TRUE], i, [h.cbs[i] EXCEPT !.called = TRUE])
         /\ CallbackSet(h, [h EXCEPT !.cbs[i].cancelled = TRUE], i, [h.cbs[i] EXCEPT !.cancelled = TRUE])
         /\ \A s \in Running \union {"ended"} :
              CallbackSet(h, [h EXCEPT !.cbs[i].stage = s], i, [h.cbs[i] EXCEPT !.stage = s])
<1>1. h.cbs[i] \in CallbackType
  BY DEF HeapType
<1>2. [h.cbs[i] EXCEPT !.called = TRUE] \in CallbackType /\ [h.cbs[i] EXCEPT !.cancelled = TRUE] \in CallbackType
  BY <1>1 DEF CallbackType
<1>3. \A s \in Running \union {"ended"} : [h.cbs[i] EXCEPT !.stage = s] \in CallbackType
  BY <1>1 DEF CallbackType
<1> QED
  BY <1>1, <1>2, <1>3, SetCallback

\* The callback is called and element e no longer has it.
LEMMA CallLeaveCbResult ==
  ASSUME NEW h \in HeapType, NEW i, Uncalled(h, i), h.cbs[i].el \in DOMAIN h.els
  PROVE  LeaveCalled(config, h, CallLeaveCb(h, i), i, h.cbs[i].cancelled)
<1> DEFINE e == h.cbs[i].el
           x == h.cbs[i].cancelled
           P == IF h.els[e].inDom THEN [h.pending EXCEPT ![h.els[e].key] = 0] ELSE h.pending
           g0 == [h EXCEPT !.cbs[i].called = TRUE]
           h1 == [h EXCEPT !.cbs[i].called = TRUE,
                      !.pending = IF h.els[e].inDom THEN [@ EXCEPT ![h.els[e].key] = 0] ELSE @]
           h2 == RemoveClasses(h1, e, {"leave-to", "leave-active"})
           h3 == IF x THEN Hook(RemoveClasses(h2, e, {"leave"}), e, "leaveCancelled")
                 ELSE Hook(Rm(h2, e), e, "afterLeave")
           h4 == IF h.cbs[i].reopens /\ ~x THEN [h3 EXCEPT !.leaving = FALSE, !.dirty = TRUE] ELSE h3
           g == [h4 EXCEPT !.els[e].leaveCb = 0]
<1>1. g = CallLeaveCb(h, i)
  BY DEF CallLeaveCb, Uncalled
<1>2. /\ i \in DOMAIN h.cbs /\ h.cbs[i] \in CallbackType /\ h.els[e] \in ElementType /\ e \in DOMAIN h.els
      /\ h.pending \in [Views -> Nat] /\ P \in [Views -> Nat]
  BY Zenon, CallbackChanges, ElementChanges DEF Uncalled, HeapType, ElementType
<1>3. CallbackSet(h, g0, i, [h.cbs[i] EXCEPT !.called = TRUE])
  BY <1>2, CallbackChanges
<1>4. h1 = [g0 EXCEPT !.pending = P]
  BY <1>2, <1>3 DEF CallbackSet, Others, HeapType
<1> HIDE DEF g0, h1, P
<1>5. /\ h1 \in HeapType /\ h1.els = h.els /\ h1.cbs = g0.cbs /\ h1.pending = P
      /\ Others(h1) = Others(h) /\ h1.leaving = h.leaving /\ h1.dirty = h.dirty
  BY <1>2, <1>3, <1>4 DEF CallbackSet, Others, HeapType
<1> DEFINE R == {"leave-to", "leave-active"}
           C(cs) == IF config.css THEN h.els[e].classes \ cs ELSE h.els[e].classes
<1>6. ElementSet(h1, h2, e, [h.els[e] EXCEPT !.classes = C(R)])
  BY Zenon, <1>2, <1>5, ElementChanges DEF Classes
<1> HIDE DEF h2
<1>7. h2 \in HeapType /\ e \in DOMAIN h2.els /\ h2.els[e] = [h.els[e] EXCEPT !.classes = C(R)]
  BY Zenon, <1>2, <1>5, <1>6 DEF ElementSet
<1>8. PICK r : /\ ElementSet(h1, h3, e, r) /\ r \in ElementType
               /\ r.key = h.els[e].key /\ r.enterCb = h.els[e].enterCb
               /\ r.hooks = Append(h.els[e].hooks, IF x THEN "leaveCancelled" ELSE "afterLeave")
               /\ r.inDom = (h.els[e].inDom /\ (x \/ config.use = "show"))
               /\ r.display = (h.els[e].display /\ (x \/ config.use # "show"))
               /\ r.classes = C(R \union IF x THEN {"leave"} ELSE {})
  <2>1. CASE x
    <3> DEFINE k3 == RemoveClasses(h2, e, {"leave"})
    <3>1. ElementSet(h2, k3, e, [h2.els[e] EXCEPT !.classes = IF config.css THEN @ \ {"leave"} ELSE @])
      BY Zenon, <1>7, ElementChanges DEF Classes
    <3> HIDE DEF k3
    <3>2. /\ k3 \in HeapType /\ e \in DOMAIN k3.els
          /\ k3.els[e] = [h2.els[e] EXCEPT !.classes = IF config.css THEN @ \ {"leave"} ELSE @]
      BY Zenon, <1>7, <3>1 DEF ElementSet
    <3>3. ElementSet(k3, h3, e, [k3.els[e] EXCEPT !.hooks = Append(@, "leaveCancelled")])
      BY Zenon, <2>1, <3>2, ElementChanges DEF Hooks, k3
    <3> HIDE DEF h3
    <3>4. h3.els[e] = [k3.els[e] EXCEPT !.hooks = Append(@, "leaveCancelled")] /\ h3 \in HeapType
      BY Zenon, <3>2, <3>3 DEF ElementSet
    <3>5. ElementSet(h1, h3, e, h3.els[e]) /\ e \in DOMAIN h3.els
      BY ZenonT(30), <1>2, <1>5, <1>6, <3>1, <3>3, <3>4 DEF ElementSet
    <3>6. h3.els[e] \in ElementType
      BY <3>4, <3>5 DEF HeapType
    <3>7. /\ h3.els[e].key = h.els[e].key /\ h3.els[e].enterCb = h.els[e].enterCb
          /\ h3.els[e].hooks = Append(h.els[e].hooks, "leaveCancelled")
          /\ h3.els[e].inDom = h.els[e].inDom /\ h3.els[e].display = h.els[e].display
          /\ h3.els[e].classes = C(R \union {"leave"})
      <4>1. /\ k3.els[e].key = h.els[e].key /\ k3.els[e].enterCb = h.els[e].enterCb /\ k3.els[e].hooks = h.els[e].hooks
        BY ZenonT(30), <1>2, <1>7, <3>2 DEF ElementType
      <4>2. k3.els[e].classes = C(R \union {"leave"})
        BY Zenon, <1>2, <1>7, <3>2 DEF ElementType
      <4>3. k3.els[e] \in ElementType
        BY <3>2 DEF HeapType
      <4>4. /\ k3.els[e].inDom = h.els[e].inDom /\ k3.els[e].display = h.els[e].display
        BY ZenonT(30), <1>2, <1>7, <3>2 DEF ElementType
      <4>5. /\ h3.els[e].key = k3.els[e].key /\ h3.els[e].enterCb = k3.els[e].enterCb
            /\ h3.els[e].hooks = Append(k3.els[e].hooks, "leaveCancelled")
            /\ h3.els[e].classes = k3.els[e].classes
        BY Zenon, <4>3, <3>4 DEF ElementType
      <4>6. h3.els[e].inDom = k3.els[e].inDom /\ h3.els[e].display = k3.els[e].display
        BY <4>3, <3>4 DEF ElementType
      <4> HIDE DEF C
      <4> QED
        BY Zenon, <4>1, <4>2, <4>4, <4>5, <4>6
    <3>8. h.els[e].inDom \in BOOLEAN /\ h.els[e].display \in BOOLEAN
      BY <1>2 DEF ElementType
    <3> QED
      BY Zenon, <2>1, <3>5, <3>6, <3>7, <3>8
  <2>2. CASE ~x
    <3> DEFINE k3 == Rm(h2, e)
    <3>1. ElementSet(h2, k3, e, [h2.els[e] EXCEPT !.display = @ /\ config.use # "show", !.inDom = @ /\ config.use = "show"])
      BY Zenon, <1>7, ElementChanges DEF Classes
    <3> HIDE DEF k3
    <3>2. /\ k3 \in HeapType /\ e \in DOMAIN k3.els
          /\ k3.els[e] = [h2.els[e] EXCEPT !.display = @ /\ config.use # "show", !.inDom = @ /\ config.use = "show"]
      BY Zenon, <1>7, <3>1 DEF ElementSet
    <3>3. ElementSet(k3, h3, e, [k3.els[e] EXCEPT !.hooks = Append(@, "afterLeave")])
      BY Zenon, <2>2, <3>2, ElementChanges DEF Hooks, k3
    <3> HIDE DEF h3
    <3>4. h3.els[e] = [k3.els[e] EXCEPT !.hooks = Append(@, "afterLeave")] /\ h3 \in HeapType
      BY <3>2, <3>3 DEF ElementSet
    <3>5. ElementSet(h1, h3, e, h3.els[e]) /\ e \in DOMAIN h3.els
      <4>1. DOMAIN h2.els = DOMAIN h1.els /\ \A f \in DOMAIN h1.els : f # e => h2.els[f] = h1.els[f]
        BY <1>6 DEF ElementSet
      <4>2. DOMAIN k3.els = DOMAIN h2.els /\ \A f \in DOMAIN h2.els : f # e => k3.els[f] = h2.els[f]
        BY <3>1 DEF ElementSet
      <4>3. DOMAIN h3.els = DOMAIN k3.els /\ \A f \in DOMAIN k3.els : f # e => h3.els[f] = k3.els[f]
        BY <3>3 DEF ElementSet
      <4>4. e \in DOMAIN h1.els
        BY <1>2, <1>5
      <4>5. /\ h3.cbs = h1.cbs /\ Others(h3) = Others(h1)
            /\ h3.pending = h1.pending /\ h3.leaving = h1.leaving /\ h3.dirty = h1.dirty
        BY Zenon, <1>6, <3>1, <3>3 DEF ElementSet
      <4> QED
        BY <3>4, <4>1, <4>2, <4>3, <4>4, <4>5 DEF ElementSet
    <3>6. h3.els[e] \in ElementType
      BY <3>4, <3>5 DEF HeapType
    <3>7. /\ h3.els[e].key = h.els[e].key /\ h3.els[e].enterCb = h.els[e].enterCb
          /\ h3.els[e].hooks = Append(h.els[e].hooks, "afterLeave")
          /\ h3.els[e].inDom = (h.els[e].inDom /\ config.use = "show")
          /\ h3.els[e].display = (h.els[e].display /\ config.use # "show")
          /\ h3.els[e].classes = C(R)
      <4>1. /\ k3.els[e].key = h.els[e].key /\ k3.els[e].enterCb = h.els[e].enterCb /\ k3.els[e].hooks = h.els[e].hooks
        BY ZenonT(30), <1>2, <1>7, <3>2 DEF ElementType
      <4>2. k3.els[e].classes = C(R)
        BY <1>2, <1>7, <3>2 DEF ElementType
      <4>3. k3.els[e] \in ElementType
        BY <3>2 DEF HeapType
      <4>4. /\ k3.els[e].inDom = (h.els[e].inDom /\ config.use = "show")
            /\ k3.els[e].display = (h.els[e].display /\ config.use # "show")
        BY ZenonT(30), <1>2, <1>7, <3>2 DEF ElementType
      <4>5. /\ h3.els[e].key = k3.els[e].key /\ h3.els[e].enterCb = k3.els[e].enterCb
            /\ h3.els[e].hooks = Append(k3.els[e].hooks, "afterLeave")
            /\ h3.els[e].classes = k3.els[e].classes
        BY Zenon, <4>3, <3>4 DEF ElementType
      <4>6. h3.els[e].inDom = k3.els[e].inDom /\ h3.els[e].display = k3.els[e].display
        BY <4>3, <3>4 DEF ElementType
      <4> HIDE DEF C
      <4> QED
        BY Zenon, <4>1, <4>2, <4>4, <4>5, <4>6
    <3>8. C(R) = C(R \union {})
      OBVIOUS
    <3> QED
      BY Zenon, <2>2, <3>5, <3>6, <3>7, <3>8
  <2> QED
    BY Zenon, <2>1, <2>2
<1> HIDE DEF h3
<1>20. ElementSet(h1, h3, e, r)
  BY Zenon, <1>8
<1>9. /\ h4 \in HeapType /\ h4.els = h3.els /\ h4.cbs = h3.cbs
      /\ h4.pending = h3.pending /\ Others(h4) = Others(h3)
      /\ h4.leaving = (h.leaving /\ (x \/ ~h.cbs[i].reopens))
      /\ h4.dirty = (h.dirty \/ (h.cbs[i].reopens /\ ~x))
  <2>1. h3 \in HeapType /\ h3.leaving = h.leaving /\ h3.dirty = h.dirty
    BY <1>5, <1>20 DEF ElementSet
  <2>2. h.leaving \in BOOLEAN /\ h.dirty \in BOOLEAN /\ x \in BOOLEAN /\ h.cbs[i].reopens \in BOOLEAN
    BY <1>2 DEF HeapType, CallbackType
  <2> QED
    BY <2>1, <2>2 DEF HeapType, Others
<1> HIDE DEF h4
<1>10. e \in DOMAIN h4.els /\ h4.els[e] = r
  BY <1>2, <1>5, <1>20, <1>9 DEF ElementSet
<1>11. [r EXCEPT !.leaveCb = 0] \in ElementType
  BY Zenon, <1>8 DEF ElementType
<1>12. ElementSet(h4, g, e, [r EXCEPT !.leaveCb = 0])
  BY <1>9, <1>10, <1>11, SetElement
<1> HIDE DEF g
<1>13. /\ g.els[e].leaveCb = 0 /\ g.els[e].key = r.key /\ g.els[e].enterCb = r.enterCb /\ g.els[e].hooks = r.hooks
       /\ g.els[e].inDom = r.inDom /\ g.els[e].display = r.display /\ g.els[e].classes = r.classes
  BY Zenon, <1>8, <1>10, <1>12 DEF ElementSet, ElementType
<1>21. g.cbs = g0.cbs /\ Others(g) = Others(h)
  BY <1>5, <1>9, <1>12, <1>20 DEF ElementSet
<1>14. Touches(h, g, e, i)
  <2>1. /\ g \in HeapType /\ DOMAIN g.els = DOMAIN h.els
        /\ \A f \in DOMAIN h.els : f # e => g.els[f] = h.els[f]
    BY <1>5, <1>9, <1>12, <1>20 DEF ElementSet
  <2>2. DOMAIN g.cbs = DOMAIN h.cbs /\ \A j \in DOMAIN h.cbs : j # i => g.cbs[j] = h.cbs[j]
    BY <1>3, <1>21 DEF CallbackSet
  <2>3. SameCallback(h.cbs[i], g.cbs[i])
    BY <1>2, <1>3, <1>21 DEF CallbackSet, SameCallback, CallbackType
  <2> QED
    BY Zenon, <1>8, <1>13, <1>21, <2>1, <2>2, <2>3 DEF Touches
<1>15. g.cbs[i].called /\ g.cbs[i].cancelled = x /\ g.cbs[i].stage = h.cbs[i].stage
  BY <1>2, <1>3, <1>21 DEF CallbackSet, CallbackType
<1>16. g.pending = P /\ g.leaving = (h.leaving /\ (x \/ ~h.cbs[i].reopens)) /\ g.dirty = (h.dirty \/ (h.cbs[i].reopens /\ ~x))
  BY <1>5, <1>9, <1>12, <1>20 DEF ElementSet
<1> HIDE DEF e, x
<1>17. LeaveCalled(config, h, g, i, x)
  BY Zenon, <1>8, <1>13, <1>14, <1>15, <1>16 DEF LeaveCalled, P, e
<1> QED
  BY <1>1, <1>17 DEF x

LEMMA ElementSetTwice ==
  ASSUME NEW h, NEW k, NEW g, NEW e, NEW r, NEW s, ElementSet(h, k, e, r), ElementSet(k, g, e, s)
  PROVE  ElementSet(h, g, e, s)
<1>1. DOMAIN k.els = DOMAIN h.els /\ \A f \in DOMAIN h.els : f # e => k.els[f] = h.els[f]
  BY DEF ElementSet
<1>2. /\ g \in HeapType /\ DOMAIN g.els = DOMAIN k.els
      /\ \A f \in DOMAIN k.els : g.els[f] = IF f = e THEN s ELSE k.els[f]
  BY DEF ElementSet
<1>3. /\ g.cbs = h.cbs /\ Others(g) = Others(h)
      /\ g.pending = h.pending /\ g.leaving = h.leaving /\ g.dirty = h.dirty
  BY DEF ElementSet
<1> QED
  BY <1>1, <1>2, <1>3 DEF ElementSet

\* performLeave: the leave begins, and ends at once if nobody can end it later.
LEMMA PerformLeaveResult ==
  ASSUME NEW h \in HeapType, NEW i, Uncalled(h, i), h.cbs[i].el \in DOMAIN h.els,
         ~h.cbs[i].cancelled, h.cbs[i].stage = "delayed"
  PROVE  \E m : /\ LeavePerformed(config, h, m, i)
                /\ IF config.css \/ config.control THEN PerformLeave(h, i) = m
                   ELSE LeaveCalled(config, m, PerformLeave(h, i), i, FALSE)
<1> DEFINE e == h.cbs[i].el
           P == IF config.use # "show" /\ h.els[e].inDom THEN [h.pending EXCEPT ![h.els[e].key] = e] ELSE h.pending
           h0 == [h EXCEPT !.pending = IF ~ShowUse /\ h.els[e].inDom
                                       THEN [@ EXCEPT ![h.els[e].key] = e] ELSE @]
           h1 == Hook(h0, e, "beforeLeave")
           h2 == AddClasses(h1, e, {"leave", "leave-active"})
           c3 == [h2 EXCEPT !.cbs[i].stage = "frame"]
           u3 == [h1 EXCEPT !.cbs[i].stage = "user"]
<1>1. PerformLeave(h, i) = IF config.css THEN c3 ELSE IF config.control THEN u3 ELSE CallLeaveCb(h1, i)
  BY DEF PerformLeave
<1>2. /\ i \in DOMAIN h.cbs /\ h.cbs[i] \in CallbackType /\ h.els[e] \in ElementType /\ e \in DOMAIN h.els
      /\ h.pending \in [Views -> Nat] /\ e \in Nat /\ P \in [Views -> Nat]
  BY Zenon, CallbackChanges, ElementChanges DEF Uncalled, HeapType, ElementType, CallbackType
<1>3. h0 = [h EXCEPT !.pending = P]
  BY <1>2 DEF HeapType, ShowUse
<1> HIDE DEF h0, P
<1>4. /\ h0 \in HeapType /\ h0.els = h.els /\ h0.cbs = h.cbs /\ h0.pending = P
      /\ Others(h0) = Others(h) /\ h0.leaving = h.leaving /\ h0.dirty = h.dirty
  BY <1>2, <1>3 DEF Others, HeapType
<1>5. ElementSet(h0, h1, e, [h.els[e] EXCEPT !.hooks = Append(@, "beforeLeave")])
  BY Zenon, <1>2, <1>4, ElementChanges DEF Hooks
<1> HIDE DEF h1
<1>6. h1 \in HeapType /\ e \in DOMAIN h1.els /\ h1.els[e] = [h.els[e] EXCEPT !.hooks = Append(@, "beforeLeave")]
  BY Zenon, <1>2, <1>4, <1>5 DEF ElementSet
<1>7. /\ h1.els[e].key = h.els[e].key /\ h1.els[e].enterCb = h.els[e].enterCb /\ h1.els[e].leaveCb = h.els[e].leaveCb
      /\ h1.els[e].inDom = h.els[e].inDom /\ h1.els[e].display = h.els[e].display
      /\ h1.els[e].classes = h.els[e].classes /\ h1.els[e].hooks = Append(h.els[e].hooks, "beforeLeave")
  BY Zenon, <1>2, <1>6 DEF ElementType
<1>8. /\ DOMAIN h1.els = DOMAIN h.els /\ \A f \in DOMAIN h.els : f # e => h1.els[f] = h.els[f]
      /\ h1.cbs = h.cbs /\ Others(h1) = Others(h)
      /\ h1.pending = P /\ h1.leaving = h.leaving /\ h1.dirty = h.dirty
  BY <1>4, <1>5 DEF ElementSet
<1>9. CASE config.css
  <2>1. ElementSet(h1, h2, e, [h1.els[e] EXCEPT !.classes = @ \union {"leave", "leave-active"}])
    BY Zenon, <1>6, ElementChanges DEF Classes
  <2> HIDE DEF h2
  <2>2. /\ h2 \in HeapType /\ e \in DOMAIN h2.els /\ h2.cbs = h.cbs /\ Others(h2) = Others(h)
        /\ h2.els[e] = [h1.els[e] EXCEPT !.classes = @ \union {"leave", "leave-active"}]
        /\ h2.pending = P /\ h2.leaving = h.leaving /\ h2.dirty = h.dirty
        /\ DOMAIN h2.els = DOMAIN h.els /\ \A f \in DOMAIN h.els : f # e => h2.els[f] = h.els[f]
    BY ZenonT(30), <1>6, <1>8, <2>1 DEF ElementSet
  <2>3. CallbackSet(h2, c3, i, [h.cbs[i] EXCEPT !.stage = "frame"])
    BY ZenonT(30), <1>2, <2>2, CallbackChanges DEF Running
  <2> HIDE DEF c3
  <2>4. c3.els[e] = h2.els[e] /\ h1.els[e] \in ElementType
    BY <1>6, <2>3 DEF CallbackSet, HeapType
  <2>5. /\ c3.els[e].key = h1.els[e].key /\ c3.els[e].enterCb = h1.els[e].enterCb
        /\ c3.els[e].leaveCb = h1.els[e].leaveCb
        /\ c3.els[e].inDom = h1.els[e].inDom /\ c3.els[e].display = h1.els[e].display
        /\ c3.els[e].classes = h1.els[e].classes \union {"leave", "leave-active"}
        /\ c3.els[e].hooks = h1.els[e].hooks
    BY <2>2, <2>4 DEF ElementType
  <2>6. /\ SameCallback(h.cbs[i], c3.cbs[i]) /\ c3.cbs[i].stage = "frame"
        /\ c3.cbs[i].called = h.cbs[i].called /\ c3.cbs[i].cancelled = h.cbs[i].cancelled
    BY <1>2, <2>2, <2>3 DEF CallbackSet, SameCallback, CallbackType
  <2>7. /\ c3 \in HeapType /\ c3.els = h2.els /\ DOMAIN c3.cbs = DOMAIN h.cbs
        /\ \A j \in DOMAIN h.cbs : j # i => c3.cbs[j] = h.cbs[j]
        /\ Others(c3) = Others(h) /\ c3.pending = P /\ c3.leaving = h.leaving /\ c3.dirty = h.dirty
    BY <2>2, <2>3 DEF CallbackSet
  <2>8. Touches(h, c3, e, i)
    BY Zenon, <1>7, <2>2, <2>5, <2>6, <2>7 DEF Touches
  <2>9. LeavePerformed(config, h, c3, i)
    BY Zenon, <1>7, <1>9, <2>5, <2>6, <2>7, <2>8 DEF LeavePerformed, P
  <2> QED
    BY <1>1, <1>9, <2>9
<1>10. CASE ~config.css
  <2>3. CallbackSet(h1, u3, i, [h.cbs[i] EXCEPT !.stage = "user"])
    BY ZenonT(30), <1>2, <1>6, <1>8, CallbackChanges DEF Running
  <2> HIDE DEF u3
  <2>6. /\ SameCallback(h.cbs[i], u3.cbs[i]) /\ u3.cbs[i].stage = "user"
        /\ u3.cbs[i].called = h.cbs[i].called /\ u3.cbs[i].cancelled = h.cbs[i].cancelled
    BY <1>2, <1>8, <2>3 DEF CallbackSet, SameCallback, CallbackType
  <2>7. /\ u3 \in HeapType /\ u3.els = h1.els /\ DOMAIN u3.cbs = DOMAIN h.cbs
        /\ \A j \in DOMAIN h.cbs : j # i => u3.cbs[j] = h.cbs[j]
        /\ Others(u3) = Others(h) /\ u3.pending = P /\ u3.leaving = h.leaving /\ u3.dirty = h.dirty
    BY <1>8, <2>3 DEF CallbackSet
  <2>8. Touches(h, u3, e, i)
    BY Zenon, <1>7, <1>8, <2>6, <2>7 DEF Touches
  <2>9. LeavePerformed(config, h, u3, i)
    BY Zenon, <1>7, <1>10, <2>6, <2>7, <2>8 DEF LeavePerformed, P
  <2>10. CASE config.control
    BY <1>1, <1>10, <2>9, <2>10
  <2>11. CASE ~config.control
    <3> DEFINE g == CallLeaveCb(h1, i)
    <3>0. h1.cbs[i].cancelled = FALSE /\ Uncalled(h1, i) /\ h1.cbs[i].el \in DOMAIN h1.els
      BY <1>2, <1>6, <1>8 DEF CallbackType, Uncalled
    <3>1. LeaveCalled(config, h1, g, i, FALSE)
      BY ZenonT(30), <1>6, <3>0, CallLeaveCbResult
    <3> HIDE DEF g
    <3>2. u3.cbs[i].el = e /\ h1.cbs[i].el = e /\ u3.cbs[i].reopens = h1.cbs[i].reopens /\ h1.cbs[i].stage = "delayed"
      BY <1>8, <2>6 DEF SameCallback
    <3>3. Touches(h1, g, e, i)
      BY Zenon, <3>1, <3>2 DEF LeaveCalled
    <3>4. Touches(u3, g, e, i)
      <4>1. /\ DOMAIN u3.cbs = DOMAIN h1.cbs /\ \A j \in DOMAIN h1.cbs : j # i => u3.cbs[j] = h1.cbs[j]
            /\ SameCallback(h1.cbs[i], u3.cbs[i]) /\ u3.els = h1.els /\ Others(u3) = Others(h1)
        BY <1>8, <2>6, <2>7
      <4> QED
        BY <3>3, <4>1 DEF Touches, SameCallback
    <3>5. LeaveCalled(config, u3, g, i, FALSE)
      <4>1. u3.els = h1.els /\ u3.pending = h1.pending /\ u3.leaving = h1.leaving /\ u3.dirty = h1.dirty
        BY <1>8, <2>7
      <4> QED
        BY ZenonT(30), <3>1, <3>2, <3>4, <4>1 DEF LeaveCalled
    <3> QED
      BY <1>1, <1>10, <2>9, <2>11, <3>5 DEF g
  <2> QED
    BY <2>10, <2>11
<1> QED
  BY <1>9, <1>10

\* A hook is called of element e, which is then r.
Hooked(k, e, name, r) ==
  /\ ElementSet(k, Hook(k, e, name), e, r)
  /\ r.key = k.els[e].key /\ r.leaveCb = k.els[e].leaveCb /\ r.hooks = Append(k.els[e].hooks, name)
  /\ r.inDom = k.els[e].inDom /\ r.display = k.els[e].display /\ r.classes = k.els[e].classes

LEMMA HookResult ==
  ASSUME NEW k \in HeapType, NEW e \in DOMAIN k.els, NEW name \in Hooks
  PROVE  \E r \in ElementType : Hooked(k, e, name, r)
<1> DEFINE s == k.els[e]
           r == [s EXCEPT !.hooks = Append(@, name)]
<1>1. s \in ElementType
  BY Zenon, ElementChanges
<1>2. ElementSet(k, Hook(k, e, name), e, r)
  BY Zenon, ElementChanges
<1>3. Append(s.hooks, name) \in Seq(Hooks)
  BY <1>1 DEF ElementType
<1>4. r \in ElementType
  BY <1>1, <1>3 DEF ElementType
<1>5. /\ r.key = s.key /\ r.leaveCb = s.leaveCb /\ r.hooks = Append(s.hooks, name)
      /\ r.inDom = s.inDom /\ r.display = s.display /\ r.classes = s.classes
  BY <1>1 DEF ElementType
<1> QED
  BY <1>2, <1>4, <1>5 DEF Hooked

\* The callback of an enter, and the delayed leave that it performs
LEMMA CallEnterCbResult ==
  ASSUME NEW h \in HeapType, NEW i, Uncalled(h, i), h.cbs[i].el \in DOMAIN h.els, NEW d, d = LinkOf(h, i),
         d # 0 => /\ d \in DOMAIN h.cbs /\ d # i /\ h.cbs[d].el \in DOMAIN h.els /\ h.cbs[d].stage = "delayed"
                  /\ h.cbs[d].cancelled \/ (/\ Uncalled(h, d) /\ h.cbs[d].el # h.cbs[i].el
                                            /\ (config.css \/ config.control))
  PROVE  \E m : /\ EnterCalled(config, h, m, i, h.cbs[i].cancelled)
                /\ IF d # 0 /\ ~h.cbs[d].cancelled THEN LeavePerformed(config, m, CallEnterCb(h, i), d)
                   ELSE CallEnterCb(h, i) = m
<1> DEFINE e == h.cbs[i].el
           x == h.cbs[i].cancelled
           h0 == [h EXCEPT !.cbs[i].called = TRUE]
           h1 == RemoveClasses(h0, e, {"enter-to", "enter-active"})
           h2 == IF x THEN Hook(RemoveClasses(h1, e, {"enter"}), e, "enterCancelled")
                 ELSE Hook(h1, e, "afterEnter")
           h3 == IF d = 0 THEN h2 ELSE PerformLeave(h2, d)
           g == [h3 EXCEPT !.els[e].enterCb = 0]
           m == [h2 EXCEPT !.els[e].enterCb = 0]
           R == {"enter-to", "enter-active"}
           C(cs) == IF config.css THEN h.els[e].classes \ cs ELSE h.els[e].classes
<1>1. /\ i \in DOMAIN h.cbs /\ h.cbs[i] \in CallbackType /\ h.els[e] \in ElementType /\ e \in DOMAIN h.els
      /\ ~h.cbs[i].called
  BY Zenon, CallbackChanges, ElementChanges DEF Uncalled
<1>2. g = CallEnterCb(h, i)
  BY <1>1 DEF CallEnterCb, LinkOf
<1>3. CallbackSet(h, h0, i, [h.cbs[i] EXCEPT !.called = TRUE])
  BY <1>1, CallbackChanges
<1> HIDE DEF h0
<1>4. h0 \in HeapType /\ h0.els = h.els
  BY <1>3 DEF CallbackSet
<1>5. ElementSet(h0, h1, e, [h.els[e] EXCEPT !.classes = C(R)])
  BY Zenon, <1>1, <1>4, ElementChanges DEF Classes
<1> HIDE DEF h1
<1>6. h1 \in HeapType /\ e \in DOMAIN h1.els /\ h1.els[e] = [h.els[e] EXCEPT !.classes = C(R)]
  BY ZenonT(30), <1>1, <1>4, <1>5 DEF ElementSet
<1>7. /\ h1.els[e].key = h.els[e].key /\ h1.els[e].enterCb = h.els[e].enterCb /\ h1.els[e].leaveCb = h.els[e].leaveCb
      /\ h1.els[e].inDom = h.els[e].inDom /\ h1.els[e].display = h.els[e].display
      /\ h1.els[e].classes = C(R) /\ h1.els[e].hooks = h.els[e].hooks
  BY <1>1, <1>6 DEF ElementType
<1>8. PICK r : /\ ElementSet(h0, h2, e, r) /\ r \in ElementType
               /\ r.key = h.els[e].key /\ r.leaveCb = h.els[e].leaveCb
               /\ r.hooks = Append(h.els[e].hooks, IF x THEN "enterCancelled" ELSE "afterEnter")
               /\ r.inDom = h.els[e].inDom /\ r.display = h.els[e].display
               /\ r.classes = C(R \union IF x THEN {"enter"} ELSE {})
  <2>1. CASE x
    <3> DEFINE k == RemoveClasses(h1, e, {"enter"})
               s == [h1.els[e] EXCEPT !.classes = IF config.css THEN @ \ {"enter"} ELSE @]
    <3>1. ElementSet(h1, k, e, s)
      BY Zenon, <1>6, ElementChanges DEF Classes
    <3>2. h1.els[e] \in ElementType
      BY <1>6 DEF HeapType
    <3>3. /\ s.key = h1.els[e].key /\ s.leaveCb = h1.els[e].leaveCb /\ s.hooks = h1.els[e].hooks
          /\ s.inDom = h1.els[e].inDom /\ s.display = h1.els[e].display
      BY <3>2 DEF ElementType
    <3>4. s.classes = C(R \union {"enter"})
      BY Zenon, <1>7, <3>2 DEF ElementType
    <3>5. h2 = Hook(k, e, "enterCancelled")
      BY <2>1
    <3> HIDE DEF k, s, h2, C
    <3>6. k \in HeapType /\ e \in DOMAIN k.els /\ k.els[e] = s /\ "enterCancelled" \in Hooks
      BY <1>6, <3>1 DEF ElementSet, Hooks
    <3>a. PICK r \in ElementType : Hooked(k, e, "enterCancelled", r)
      BY <3>6, HookResult
    <3>7. /\ ElementSet(k, Hook(k, e, "enterCancelled"), e, r)
          /\ r.key = k.els[e].key /\ r.leaveCb = k.els[e].leaveCb
          /\ r.hooks = Append(k.els[e].hooks, "enterCancelled")
          /\ r.inDom = k.els[e].inDom /\ r.display = k.els[e].display /\ r.classes = k.els[e].classes
      BY <3>a DEF Hooked
    <3>10. ElementSet(k, h2, e, r)
      BY Zenon, <3>5, <3>7
    <3>11. ElementSet(h0, k, e, s)
      BY <1>5, <3>1, ElementSetTwice
    <3>8. ElementSet(h0, h2, e, r)
      BY <3>10, <3>11, ElementSetTwice
    <3>9. /\ r.key = s.key /\ r.leaveCb = s.leaveCb /\ r.hooks = Append(s.hooks, "enterCancelled")
          /\ r.inDom = s.inDom /\ r.display = s.display /\ r.classes = s.classes
      BY <3>6, <3>7
    <3>12. /\ r.key = h.els[e].key /\ r.leaveCb = h.els[e].leaveCb
           /\ r.hooks = Append(h.els[e].hooks, "enterCancelled")
           /\ r.inDom = h.els[e].inDom /\ r.display = h.els[e].display
           /\ r.classes = C(R \union {"enter"})
      BY ZenonT(30), <1>7, <3>3, <3>4, <3>9
    <3> QED
      BY Zenon, <2>1, <3>a, <3>8, <3>12
  <2>2. CASE ~x
    <3>1. h2 = Hook(h1, e, "afterEnter")
      BY <2>2
    <3>6. "afterEnter" \in Hooks
      BY DEF Hooks
    <3> HIDE DEF h2, C
    <3>2. h1 \in HeapType /\ e \in DOMAIN h1.els
      BY <1>6
    <3> HIDE DEF e, x, h3, g, m
    <3>a. PICK r \in ElementType : Hooked(h1, e, "afterEnter", r)
      BY <3>2, <3>6, HookResult
    <3>3. /\ ElementSet(h1, Hook(h1, e, "afterEnter"), e, r)
          /\ r.key = h1.els[e].key /\ r.leaveCb = h1.els[e].leaveCb
          /\ r.hooks = Append(h1.els[e].hooks, "afterEnter")
          /\ r.inDom = h1.els[e].inDom /\ r.display = h1.els[e].display /\ r.classes = h1.els[e].classes
      BY <3>a DEF Hooked
    <3>7. ElementSet(h1, h2, e, r)
      BY <3>1, <3>3
    <3>4. ElementSet(h0, h2, e, r)
      BY <1>5, <3>7, ElementSetTwice
    <3>5. C(R) = C(R \union {})
      BY DEF C
    <3> QED
      BY <1>7, <2>2, <3>a, <3>3, <3>4, <3>5
  <2> QED
    BY Zenon, <2>1, <2>2
<1>9. [r EXCEPT !.enterCb = 0] \in ElementType
  BY Zenon, <1>8 DEF ElementType
<1>10. ElementSet(h0, h2, e, r) /\ h2 \in HeapType /\ e \in DOMAIN h2.els /\ h2.els[e] = r
  BY Zenon, <1>1, <1>4, <1>8 DEF ElementSet
<1> HIDE DEF h2
<1>11. ElementSet(h2, m, e, [r EXCEPT !.enterCb = 0])
  BY <1>9, <1>10, SetElement
<1> HIDE DEF m
<1>12. EnterCalled(config, h, m, i, x)
  <2>1. ElementSet(h0, m, e, [r EXCEPT !.enterCb = 0])
    BY <1>10, <1>11, ElementSetTwice
  <2>2. m.els[e] = [r EXCEPT !.enterCb = 0] /\ m.cbs = h0.cbs
    BY <1>1, <1>4, <2>1 DEF ElementSet
  <2>3. /\ m.els[e].enterCb = 0 /\ m.els[e].key = r.key /\ m.els[e].leaveCb = r.leaveCb
        /\ m.els[e].hooks = r.hooks
        /\ m.els[e].inDom = r.inDom /\ m.els[e].display = r.display /\ m.els[e].classes = r.classes
    BY Zenon, <1>8, <2>2 DEF ElementType
  <2>4. /\ m \in HeapType /\ DOMAIN m.els = DOMAIN h.els
        /\ \A f \in DOMAIN h.els : f # e => m.els[f] = h.els[f]
        /\ Others(m) = Others(h0) /\ m.pending = h0.pending /\ m.leaving = h0.leaving /\ m.dirty = h0.dirty
    BY <1>4, <2>1 DEF ElementSet
  <2>5. /\ DOMAIN m.cbs = DOMAIN h.cbs /\ \A j \in DOMAIN h.cbs : j # i => m.cbs[j] = h.cbs[j]
        /\ SameCallback(h.cbs[i], m.cbs[i])
        /\ m.cbs[i].called /\ m.cbs[i].cancelled = x /\ m.cbs[i].stage = h.cbs[i].stage
    BY <1>1, <1>3, <2>2 DEF CallbackSet, SameCallback, CallbackType
  <2>6. Others(h0) = Others(h) /\ h0.pending = h.pending /\ h0.leaving = h.leaving /\ h0.dirty = h.dirty
    BY <1>3 DEF CallbackSet
  <2>7. m.els[e].key = h.els[e].key
    BY Zenon, <1>8, <2>3
  <2>8. Touches(h, m, e, i)
    BY <2>4, <2>5, <2>6, <2>7 DEF Touches
  <2>9. /\ m.els[e].leaveCb = h.els[e].leaveCb
        /\ m.els[e].hooks = Append(h.els[e].hooks, IF x THEN "enterCancelled" ELSE "afterEnter")
        /\ m.els[e].inDom = h.els[e].inDom /\ m.els[e].display = h.els[e].display
        /\ m.els[e].classes = C(R \union IF x THEN {"enter"} ELSE {})
    BY Zenon, <1>8, <2>3
  <2> QED
    BY Zenon, <2>3, <2>4, <2>5, <2>6, <2>8, <2>9 DEF EnterCalled
<1>13. CASE d = 0
  BY <1>2, <1>12, <1>13 DEF m
<1>14. CASE d # 0
  <2>1. /\ h2.cbs = h0.cbs /\ d \in DOMAIN h2.cbs /\ h2.cbs[d] = h.cbs[d] /\ m.cbs[d] = h.cbs[d]
        /\ h.cbs[d].el \in DOMAIN h2.els
    <3>1. h2.cbs = h0.cbs /\ m.cbs = h2.cbs /\ DOMAIN h2.els = DOMAIN h0.els
      BY <1>10, <1>11 DEF ElementSet
    <3>2. DOMAIN h0.cbs = DOMAIN h.cbs /\ h0.cbs[d] = h.cbs[d]
      BY <1>3, <1>14 DEF CallbackSet
    <3> QED
      BY <1>4, <1>14, <3>1, <3>2
  <2>2. CASE h.cbs[d].cancelled
    <3>1. h3 = h2
      BY <1>14, <2>1, <2>2 DEF PerformLeave
    <3> QED
      BY <1>2, <1>12, <2>2, <3>1 DEF m
  <2>3. CASE ~h.cbs[d].cancelled
    <3> DEFINE a == h.cbs[d].el
    <3>1. LeavePerformed(config, h2, h3, d)
      <4>1. Uncalled(h2, d) /\ ~h2.cbs[d].cancelled /\ h2.cbs[d].stage = "delayed" /\ (config.css \/ config.control)
        BY <1>14, <2>1, <2>3 DEF Uncalled
      <4> QED
        BY <1>10, <1>14, <2>1, <4>1, PerformLeaveResult
    <3> HIDE DEF h3
    <3>2. Touches(h2, h3, a, d) /\ h2.cbs[d].el = a
      BY Zenon, <2>1, <3>1 DEF LeavePerformed
    <3>3. h3 \in HeapType /\ e \in DOMAIN h3.els /\ h3.els[e] = r
      BY <1>10, <1>14, <2>3, <3>2 DEF Touches
    <3>4. ElementSet(h3, g, e, [r EXCEPT !.enterCb = 0])
      BY <1>9, <3>3, SetElement
    <3> HIDE DEF g
    <3>5. Touches(m, g, a, d)
      <4>1. /\ g \in HeapType /\ DOMAIN g.els = DOMAIN m.els /\ \A f \in DOMAIN m.els : f # a => g.els[f] = m.els[f]
        BY <1>11, <3>2, <3>4 DEF ElementSet, Touches
      <4>2. g.els[a] = h3.els[a] /\ m.els[a] = h2.els[a]
        BY <1>11, <1>14, <2>1, <2>3, <3>2, <3>4 DEF ElementSet, Touches
      <4>3. g.cbs = h3.cbs /\ m.cbs = h2.cbs /\ Others(g) = Others(h3) /\ Others(m) = Others(h2)
        BY <1>11, <3>4 DEF ElementSet
      <4> QED
        BY <3>2, <4>1, <4>2, <4>3 DEF Touches
    <3>6. LeavePerformed(config, m, g, d)
      <4>1. g.els[a] = h3.els[a] /\ m.els[a] = h2.els[a]
        BY <1>11, <1>14, <2>1, <2>3, <3>2, <3>4 DEF ElementSet, Touches
      <4>2. /\ g.cbs = h3.cbs /\ m.cbs = h2.cbs /\ g.pending = h3.pending /\ m.pending = h2.pending
            /\ g.leaving = h3.leaving /\ m.leaving = h2.leaving /\ g.dirty = h3.dirty /\ m.dirty = h2.dirty
        BY <1>11, <3>4 DEF ElementSet
      <4>3. m.cbs[d].el = a
        BY <2>1
      <4> HIDE DEF a, m, e, x
      <4>4. /\ h3.cbs[d].called = h2.cbs[d].called /\ h3.cbs[d].cancelled = h2.cbs[d].cancelled
            /\ h3.cbs[d].stage = IF config.css THEN "frame" ELSE "user"
            /\ h3.leaving = h2.leaving /\ h3.dirty = h2.dirty
        BY Zenon, <3>1 DEF LeavePerformed
      <4>5. /\ h3.els[a].enterCb = h2.els[a].enterCb /\ h3.els[a].leaveCb = h2.els[a].leaveCb
            /\ h3.els[a].inDom = h2.els[a].inDom /\ h3.els[a].display = h2.els[a].display
            /\ h3.els[a].hooks = Append(h2.els[a].hooks, "beforeLeave")
            /\ h3.els[a].classes = IF config.css THEN h2.els[a].classes \union {"leave", "leave-active"} ELSE h2.els[a].classes
            /\ h3.pending = IF config.use # "show" /\ h2.els[a].inDom THEN [h2.pending EXCEPT ![h2.els[a].key] = a] ELSE h2.pending
        BY <3>1, <3>2 DEF LeavePerformed
      <4>6. /\ g.cbs[d].called = m.cbs[d].called /\ g.cbs[d].cancelled = m.cbs[d].cancelled
            /\ g.cbs[d].stage = IF config.css THEN "frame" ELSE "user"
            /\ g.leaving = m.leaving /\ g.dirty = m.dirty
        BY <4>2, <4>4
      <4>7. /\ g.els[a].enterCb = m.els[a].enterCb /\ g.els[a].leaveCb = m.els[a].leaveCb
            /\ g.els[a].inDom = m.els[a].inDom /\ g.els[a].display = m.els[a].display
            /\ g.els[a].hooks = Append(m.els[a].hooks, "beforeLeave")
            /\ g.els[a].classes = IF config.css THEN m.els[a].classes \union {"leave", "leave-active"} ELSE m.els[a].classes
        BY <4>1, <4>5
      <4>8. g.pending = IF config.use # "show" /\ m.els[a].inDom THEN [m.pending EXCEPT ![m.els[a].key] = a] ELSE m.pending
        BY <4>1, <4>2, <4>5
      <4> QED
        BY <3>5, <4>3, <4>6, <4>7, <4>8 DEF LeavePerformed
    <3> QED
      BY <1>2, <1>12, <1>14, <2>3, <3>6
  <2> QED
    BY <2>2, <2>3
<1> QED
  BY <1>13, <1>14

-----------------------------------------------------------------------------
(***************************************************************************)
(* What the ends of transitions preserve.                                  *)
(***************************************************************************)
LEMMA HookAppended ==
  ASSUME NEW c, NEW s \in Seq(Hooks), NEW name \in Hooks, PairsUp(c, s),
         name \in {"afterEnter", "enterCancelled"} => LastHook(s) = "beforeEnter",
         name = "afterLeave" => LastHook(s) = "beforeLeave",
         name = "leaveCancelled" => LastHook(s) = "beforeLeave" \/ (c.mode = "in-out" /\ LastHook(s) # "beforeEnter"),
         name \in {"beforeEnter", "beforeLeave"} => LastHook(s) \notin {"beforeEnter", "beforeLeave"}
  PROVE  PairsUp(c, Append(s, name)) /\ LastHook(Append(s, name)) = name
<1> DEFINE t == Append(s, name)
<1>1. /\ Len(t) = Len(s) + 1 /\ DOMAIN t = 1 .. Len(s) + 1 /\ DOMAIN s = 1 .. Len(s) /\ Len(s) \in Nat
      /\ t[Len(s) + 1] = name /\ \A j \in 1 .. Len(s) : t[j] = s[j]
  OBVIOUS
<1>2. LastHook(s) = IF Len(s) = 0 THEN "none" ELSE s[Len(s)]
  BY DEF LastHook
<1>3. LastHook(t) = name
  <2>1. t # <<>>
    BY <1>1
  <2> QED
    BY <1>1, <2>1 DEF LastHook
<1> HIDE DEF t
<1>4. PairsUp(c, t)
  <2> DEFINE B(r, j) == IF j = 1 THEN "none" ELSE r[j - 1]
             P(b, a) == CASE a \in {"afterEnter", "enterCancelled"} -> b = "beforeEnter"
                          [] a = "afterLeave" -> b = "beforeLeave"
                          [] a = "leaveCancelled" -> b = "beforeLeave" \/ (c.mode = "in-out" /\ b # "beforeEnter")
                          [] a \in {"beforeEnter", "beforeLeave"} -> b \notin {"beforeEnter", "beforeLeave"}
  <2>1. \A j \in DOMAIN s : P(B(s, j), s[j])
    BY DEF PairsUp
  <2>2. P(LastHook(s), name)
    BY DEF Hooks
  <2> HIDE DEF P
  <2>3. ASSUME NEW j \in DOMAIN t PROVE P(B(t, j), t[j])
    <3>1. CASE j \in 1 .. Len(s)
      <4>1. t[j] = s[j] /\ B(t, j) = B(s, j)
        BY <1>1, <3>1
      <4> HIDE DEF B
      <4> QED
        BY <1>1, <2>1, <3>1, <4>1
    <3>2. CASE j = Len(s) + 1
      <4>1. t[j] = name /\ B(t, j) = LastHook(s)
        BY <1>1, <1>2, <3>2
      <4> HIDE DEF B
      <4> QED
        BY <2>2, <4>1
    <3> QED
      BY <1>1, <2>3, <3>1, <3>2
  <2>4. \A j \in DOMAIN t : P(B(t, j), t[j])
    BY <2>3
  <2> QED
    BY <2>4 DEF PairsUp, P
<1> QED
  BY <1>3, <1>4 DEF t

\* An uncalled callback and its element
LEMMA UncalledFacts ==
  ASSUME NEW c, NEW h \in HeapType, CallbacksInv(c, h), NEW i, Uncalled(h, i), NEW e, IsOf(h, i, e)
  PROVE  /\ i \in DOMAIN h.cbs /\ i # 0 /\ e \in DOMAIN h.els /\ e # 0
         /\ ~h.cbs[i].called /\ ~h.cbs[i].cancelled /\ h.cbs[i].stage # "ended"
         /\ h.cbs[i].kind = "enter" => h.els[e].enterCb = i /\ h.els[e].leaveCb = 0 /\ h.cbs[i].stage # "delayed"
         /\ h.cbs[i].kind = "leave" => h.els[e].leaveCb = i /\ h.els[e].enterCb = 0
         /\ h.els[e] \in ElementType /\ h.cbs[i] \in CallbackType
<1>1. i \in DOMAIN h.cbs /\ h.cbs \in Seq(CallbackType) /\ h.els \in Seq(ElementType)
  BY DEF Uncalled, HeapType
<1>2. i # 0 /\ h.cbs[i] \in CallbackType
  BY <1>1
<1>0. CallbackInv(c, h, i)
  BY <1>1 DEF CallbacksInv
<1>3. e \in DOMAIN h.els /\ ~h.cbs[i].called
  BY <1>0 DEF CallbackInv, Uncalled, IsOf
<1>4. e # 0 /\ h.els[e] \in ElementType
  BY <1>1, <1>3
<1>5. h.cbs[i].called = FALSE /\ h.cbs[i].cancelled = FALSE /\ h.cbs[i].stage # "ended"
  BY <1>0, <1>2, <1>3 DEF CallbackInv, CallbackType
<1>6. /\ h.cbs[i].kind = "enter" => h.els[e].enterCb = i /\ h.cbs[i].stage # "delayed"
      /\ h.cbs[i].kind = "leave" => h.els[e].leaveCb = i
  BY <1>0, <1>2, <1>3 DEF CallbackInv, CallbackType, IsOf
<1>7. h.els[e].enterCb = 0 \/ h.els[e].leaveCb = 0
  BY <1>3 DEF CallbacksInv, CallbacksOf
<1> QED
  BY <1>1, <1>2, <1>3, <1>4, <1>5, <1>6, <1>7

\* Nothing changes for another element than e, whose callback i is.
LEMMA Elsewhere ==
  ASSUME NEW c, NEW h, NEW g, NEW e, NEW i, CallbacksInv(c, h), Touches(h, g, e, i), IsOf(h, i, e),
         NEW f \in DOMAIN h.els, f # e
  PROVE  /\ g.els[f] = h.els[f] /\ CallbacksOf(g, f)
         /\ InEnter(g, f) <=> InEnter(h, f)
         /\ Leaves(g, f) <=> Leaves(h, f)
         /\ Delayed(g, f) <=> Delayed(h, f)
         /\ ClassesOf(g, f) = ClassesOf(h, f)
<1>1. g.els[f] = h.els[f] /\ DOMAIN g.cbs = DOMAIN h.cbs /\ \A j \in DOMAIN h.cbs : j # i => g.cbs[j] = h.cbs[j]
  BY DEF Touches
<1>2. CallbacksOf(h, f)
  BY DEF CallbacksInv
<1>3. /\ h.els[f].enterCb # 0 => /\ h.els[f].enterCb \in DOMAIN h.cbs /\ h.els[f].enterCb # i
                                 /\ g.cbs[h.els[f].enterCb] = h.cbs[h.els[f].enterCb]
      /\ h.els[f].leaveCb # 0 => /\ h.els[f].leaveCb \in DOMAIN h.cbs /\ h.els[f].leaveCb # i
                                 /\ g.cbs[h.els[f].leaveCb] = h.cbs[h.els[f].leaveCb]
  BY <1>1, <1>2 DEF CallbacksOf, Uncalled, IsOf
<1>4. CallbacksOf(g, f)
  BY <1>1, <1>2, <1>3 DEF CallbacksOf, Uncalled
<1>5. (InEnter(g, f) <=> InEnter(h, f)) /\ (Leaves(g, f) <=> Leaves(h, f))
  BY <1>1 DEF InEnter, Leaves
<1>6. Delayed(g, f) <=> Delayed(h, f)
  BY <1>1, <1>3 DEF Leaves, Delayed
<1>7. ClassesOf(g, f) = ClassesOf(h, f)
  BY <1>1, <1>3, <1>5, <1>6 DEF ClassesOf, InEnter, Leaves
<1> QED
  BY <1>1, <1>4, <1>5, <1>6, <1>7

LEMMA OtherCallbacks ==
  ASSUME NEW c, NEW h, NEW g, NEW e, NEW i, CallbacksInv(c, h), Touches(h, g, e, i),
         NEW j \in DOMAIN h.cbs, j # i,
         h.els[e].enterCb \in {0, i} \/ g.els[e].enterCb = h.els[e].enterCb,
         h.els[e].leaveCb \in {0, i} \/ g.els[e].leaveCb = h.els[e].leaveCb, h \in HeapType
  PROVE  g.cbs[j] = h.cbs[j] /\ CallbackInv(c, g, j)
<1>1. /\ DOMAIN g.els = DOMAIN h.els /\ g.cbs[j] = h.cbs[j]
      /\ \A f \in DOMAIN h.els : f # e => g.els[f] = h.els[f]
  BY DEF Touches
<1>2. CallbackInv(c, h, j) /\ j # 0
  BY DEF CallbacksInv, HeapType
<1>3. CASE h.cbs[j].el # e
  BY <1>1, <1>2, <1>3 DEF CallbackInv
<1>4. CASE h.cbs[j].el = e
  BY <1>1, <1>2, <1>4 DEF CallbackInv
<1> QED
  BY <1>1, <1>3, <1>4

LEMMA LinksSame ==
  ASSUME NEW h \in HeapType, NEW g, NEW e, NEW i \in DOMAIN h.cbs, Touches(h, g, e, i), Closures(h)
  PROVE  /\ Closures(g)
         /\ \A j \in DOMAIN h.cbs :
              /\ LinkOf(g, j) = LinkOf(h, j)
              /\ LinkOf(h, j) # 0 => LinkOf(h, j) \in DOMAIN h.cbs /\ h.cbs[LinkOf(h, j)].kind = "leave"
         /\ \A j, k \in DOMAIN h.cbs : LinkOf(h, j) = LinkOf(h, k) /\ LinkOf(h, j) # 0 => j = k
<1>1. g.links = h.links /\ DOMAIN g.cbs = DOMAIN h.cbs
  BY DEF Touches, Others
<1>2. \A j \in DOMAIN h.cbs : g.cbs[j].link = h.cbs[j].link /\ g.cbs[j].kind = h.cbs[j].kind
  BY DEF Touches, SameCallback
<1>3. \A j \in DOMAIN h.cbs : LinkOf(g, j) = LinkOf(h, j)
  BY <1>1, <1>2 DEF LinkOf
<1>4. \A j \in DOMAIN h.cbs : h.cbs[j].link # 0 => h.cbs[j].link \in DOMAIN h.links
  <2>1. h.links \in Seq(Nat)
    BY DEF HeapType
  <2> QED
    BY <2>1 DEF Closures
<1>5. \A j \in DOMAIN h.cbs :
        LinkOf(h, j) # 0 => LinkOf(h, j) \in DOMAIN h.cbs /\ h.cbs[LinkOf(h, j)].kind = "leave"
  BY <1>4 DEF LinkOf, Closures
<1>6. ASSUME NEW j \in DOMAIN h.cbs, NEW k \in DOMAIN h.cbs, LinkOf(h, j) = LinkOf(h, k), LinkOf(h, j) # 0
      PROVE  j = k
  <2>1. /\ h.cbs[j].link # 0 /\ h.cbs[k].link # 0 /\ h.links[h.cbs[j].link] # 0
        /\ h.links[h.cbs[j].link] = h.links[h.cbs[k].link]
    BY <1>6 DEF LinkOf
  <2>2. h.cbs[j].link = h.cbs[k].link
    BY <1>4, <2>1 DEF Closures
  <2> QED
    BY <2>1, <2>2 DEF Closures
<1>7. Closures(g)
  BY <1>1, <1>2 DEF Closures
<1> QED
  BY <1>3, <1>5, <1>6, <1>7

\* Only a callback that waits for another is of matter to that one.
LEMMA HoldsKept ==
  ASSUME NEW h \in HeapType, NEW g, NEW e, NEW i \in DOMAIN h.cbs, Touches(h, g, e, i), Closures(h),
         \A j \in DOMAIN h.cbs : Holds(h, j),
         ~g.cbs[i].called => ~h.cbs[i].called,
         \A j \in DOMAIN h.cbs : ~g.cbs[j].called /\ LinkOf(h, j) = i =>
           g.cbs[i].stage = "delayed" /\ (g.cbs[i].called => g.cbs[i].cancelled)
  PROVE  \A j \in DOMAIN h.cbs : Holds(g, j)
<1> SUFFICES ASSUME NEW j \in DOMAIN h.cbs, ~g.cbs[j].called, LinkOf(g, j) # 0
             PROVE  LET k == g.cbs[LinkOf(g, j)] IN k.stage = "delayed" /\ (k.called => k.cancelled)
  BY DEF Holds
<1>1. LinkOf(g, j) = LinkOf(h, j) /\ LinkOf(h, j) \in DOMAIN h.cbs
  BY LinksSame
<1>2. \A k \in DOMAIN h.cbs : k # i => g.cbs[k] = h.cbs[k]
  BY DEF Touches
<1>3. ~h.cbs[j].called
  BY <1>2
<1>4. LET k == h.cbs[LinkOf(h, j)] IN k.stage = "delayed" /\ (k.called => k.cancelled)
  BY <1>1, <1>3 DEF Holds
<1>5. CASE LinkOf(h, j) # i
  BY <1>1, <1>2, <1>4, <1>5
<1>6. CASE LinkOf(h, j) = i
  BY <1>1, <1>6
<1> QED
  BY <1>5, <1>6

LEMMA PlacesKept ==
  ASSUME NEW c, NEW h, NEW g, NEW X, PlacesInv(c, h, X), Len(g.els) = Len(h.els),
         DOMAIN g.els = DOMAIN h.els, g.cur = h.cur,
         NEW e \in DOMAIN h.els, g.els[e].key = h.els[e].key, g.els[e].inDom = h.els[e].inDom,
         Leaves(g, e) <=> Leaves(h, e), InEnter(g, e) => InEnter(h, e),
         \A f \in DOMAIN h.els : f # e => g.els[f] = h.els[f]
  PROVE  PlacesInv(c, g, X)
<1>1. \A f \in DOMAIN h.els : /\ g.els[f].key = h.els[f].key /\ g.els[f].inDom = h.els[f].inDom
                              /\ Leaves(g, f) <=> Leaves(h, f)
                              /\ InEnter(g, f) => InEnter(h, f)
  BY DEF Leaves, InEnter
<1> QED
  BY <1>1 DEF PlacesInv

LEMMA KeysKept ==
  ASSUME NEW c, NEW h, NEW g, NEW n, KeysInv(c, h, n), DOMAIN g.els = DOMAIN h.els,
         NEW e \in DOMAIN h.els, g.els[e].key = h.els[e].key, g.els[e].inDom => h.els[e].inDom,
         Leaves(g, e) => Leaves(h, e),
         \A f \in DOMAIN h.els : f # e => g.els[f] = h.els[f]
  PROVE  KeysInv(c, g, n)
<1>1. \A f \in DOMAIN h.els : /\ g.els[f].key = h.els[f].key /\ g.els[f].inDom => h.els[f].inDom
                              /\ Leaves(g, f) => Leaves(h, f)
  BY DEF Leaves
<1> QED
  BY <1>1 DEF KeysInv

LEMMA EnterCalledGood ==
  ASSUME NEW c, NEW h, NEW g, NEW i, NEW x \in BOOLEAN, NEW X, NEW n, NEW z, NEW d, d = LinkOf(h, i),
         NEW e, IsOf(h, i, e),
         Good(c, h, 0, X, n, z), Uncalled(h, i), h.cbs[i].kind = "enter", EnterCalled(c, h, g, i, x),
         ~x => h.cbs[i].stage # "frame"
  PROVE  Good(c, g, d, X, n, z) /\ \A j \in DOMAIN g.cbs : ~g.cbs[j].called /\ LinkOf(g, j) # 0 => LinkOf(g, j) # d
<1>1. h \in HeapType /\ CallbacksInv(c, h) /\ g \in HeapType /\ Touches(h, g, e, i)
  BY DEF Good, EnterCalled, Touches, IsOf
<1>2. /\ i \in DOMAIN h.cbs /\ i # 0 /\ e \in DOMAIN h.els /\ e # 0
      /\ ~h.cbs[i].called /\ ~h.cbs[i].cancelled /\ h.cbs[i].stage # "ended" /\ h.cbs[i].stage # "delayed"
      /\ h.els[e].enterCb = i /\ h.els[e].leaveCb = 0
      /\ h.els[e] \in ElementType /\ h.cbs[i] \in CallbackType
  <2>1. /\ i \in DOMAIN h.cbs /\ i # 0 /\ e \in DOMAIN h.els /\ e # 0
        /\ ~h.cbs[i].called /\ ~h.cbs[i].cancelled /\ h.cbs[i].stage # "ended"
        /\ h.cbs[i].kind = "enter" => h.els[e].enterCb = i /\ h.els[e].leaveCb = 0 /\ h.cbs[i].stage # "delayed"
        /\ h.els[e] \in ElementType /\ h.cbs[i] \in CallbackType
    BY <1>1, UncalledFacts
  <2> QED
    BY <2>1
<1>3. /\ DOMAIN g.els = DOMAIN h.els /\ DOMAIN g.cbs = DOMAIN h.cbs
      /\ \A f \in DOMAIN h.els : f # e => g.els[f] = h.els[f]
      /\ \A j \in DOMAIN h.cbs : j # i => g.cbs[j] = h.cbs[j]
      /\ g.links = h.links /\ g.cur = h.cur
  BY <1>1 DEF Touches, Others
<1>4. /\ g.cbs[i].kind = "enter" /\ g.cbs[i].el = e /\ g.cbs[i].link = h.cbs[i].link /\ g.cbs[i].reopens = h.cbs[i].reopens
      /\ g.cbs[i].called = TRUE /\ g.cbs[i].cancelled = x /\ g.cbs[i].stage \in {h.cbs[i].stage, "ended"}
  BY DEF EnterCalled, Touches, SameCallback, IsOf
<1>5. /\ g.els[e].enterCb = 0 /\ g.els[e].leaveCb = 0 /\ g.els[e].key = h.els[e].key /\ g.els[e].inDom = h.els[e].inDom
      /\ g.els[e].hooks = Append(h.els[e].hooks, IF x THEN "enterCancelled" ELSE "afterEnter")
      /\ g.els[e].classes =
           IF c.css THEN h.els[e].classes \ ({"enter-to", "enter-active"} \union IF x THEN {"enter"} ELSE {})
           ELSE h.els[e].classes
      /\ g.pending = h.pending /\ g.leaving = h.leaving
  BY <1>2 DEF EnterCalled, Touches, IsOf
<1>6. CallbacksInv(c, g)
  <2>1. CallbacksOf(g, e)
    BY <1>5 DEF CallbacksOf
  <2>2. CallbackInv(c, g, i)
    <3>1. CallbackInv(c, h, i)
      BY <1>1, <1>2 DEF CallbacksInv
    <3> QED
      BY <1>2, <1>3, <1>4, <3>1 DEF CallbackInv
  <2>3. \A j \in DOMAIN h.cbs : j # i => CallbackInv(c, g, j)
    BY <1>1, <1>2, OtherCallbacks
  <2>4. \A f \in DOMAIN h.els : f # e => CallbacksOf(g, f)
    BY <1>1, Elsewhere
  <2> QED
    BY <1>3, <2>1, <2>2, <2>3, <2>4 DEF CallbacksInv
<1>7. /\ ~Leaves(g, e) /\ ~Leaves(h, e) /\ ~InEnter(g, e) /\ InEnter(h, e) /\ ClassesOf(g, e) = {}
      /\ ~Delayed(g, e) /\ ~Delayed(h, e)
  BY <1>2, <1>5 DEF Leaves, InEnter, ClassesOf, Delayed
<1>20. ASSUME NEW f \in DOMAIN h.els, f # e
       PROVE  /\ g.els[f] = h.els[f] /\ (Leaves(g, f) <=> Leaves(h, f)) /\ (Delayed(g, f) <=> Delayed(h, f))
              /\ (InEnter(g, f) <=> InEnter(h, f)) /\ ClassesOf(g, f) = ClassesOf(h, f)
  BY <1>1, <1>20, Elsewhere
<1>8. HooksInv(c, g)
  <2>1. HookInv(c, h, e)
    BY <1>2 DEF Good, HooksInv
  <2>2. ASSUME NEW f \in DOMAIN h.els, f # e PROVE HookInv(c, g, f)
    <3>1. HookInv(c, h, f)
      BY DEF Good, HooksInv
    <3> QED
      BY <1>20, <2>2, <3>1 DEF HookInv
  <2>3. HookInv(c, g, e)
    <3> DEFINE s == h.els[e].hooks
               name == IF x THEN "enterCancelled" ELSE "afterEnter"
    <3>1. LastHook(s) = "beforeEnter" /\ PairsUp(c, s)
      BY <1>7, <2>1 DEF HookInv
    <3>2. s \in Seq(Hooks) /\ name \in Hooks /\ name \in {"afterEnter", "enterCancelled"}
      BY <1>2 DEF ElementType, Hooks
    <3> HIDE DEF s, name
    <3>3. PairsUp(c, Append(s, name)) /\ LastHook(Append(s, name)) = name
      BY <3>1, <3>2, HookAppended
    <3>4. g.els[e].hooks = Append(s, name)
      BY <1>5 DEF s, name
    <3> QED
      BY <1>7, <3>2, <3>3, <3>4 DEF HookInv
  <2> QED
    BY <1>3, <2>2, <2>3 DEF HooksInv
<1>9. LinksInv(c, g, d) /\ \A j \in DOMAIN g.cbs : ~g.cbs[j].called /\ LinkOf(g, j) # 0 => LinkOf(g, j) # d
  <2>1. Closures(h) /\ (\A j \in DOMAIN h.cbs : Holds(h, j)) /\ (\A j \in DOMAIN h.cbs \ {0} : Waits(c, h, j))
    BY DEF Good, LinksInv
  <2>2. /\ Closures(g)
        /\ \A j \in DOMAIN h.cbs :
              /\ LinkOf(g, j) = LinkOf(h, j)
              /\ LinkOf(h, j) # 0 => LinkOf(h, j) \in DOMAIN h.cbs /\ h.cbs[LinkOf(h, j)].kind = "leave"
        /\ \A j, k \in DOMAIN h.cbs : LinkOf(h, j) = LinkOf(h, k) /\ LinkOf(h, j) # 0 => j = k
    BY <1>1, <1>2, <2>1, LinksSame
  <2>3. \A j \in DOMAIN h.cbs : LinkOf(h, j) # i
    BY <1>2, <2>2
  <2>4. \A j \in DOMAIN h.cbs : Holds(g, j)
    BY <1>1, <1>2, <1>4, <2>1, <2>3, HoldsKept
  <2>5. ASSUME NEW j \in DOMAIN h.cbs, j # d, ~g.cbs[j].called, g.cbs[j].stage = "delayed"
        PROVE  c.mode = "in-out" /\ \E k \in DOMAIN h.cbs : ~g.cbs[k].called /\ LinkOf(g, k) = j
    <3>1. j # i /\ ~h.cbs[j].called /\ h.cbs[j].stage = "delayed" /\ j # 0
      BY <1>1, <1>3, <1>4, <2>5 DEF HeapType
    <3>2. c.mode = "in-out" /\ \E k \in DOMAIN h.cbs : ~h.cbs[k].called /\ LinkOf(h, k) = j
      BY <2>1, <3>1 DEF Waits
    <3>3. PICK k \in DOMAIN h.cbs : ~h.cbs[k].called /\ LinkOf(h, k) = j
      BY <3>2
    <3>4. k # i
      BY <2>5, <3>3
    <3> QED
      BY <1>3, <2>2, <3>2, <3>3, <3>4
  <2>6. \A j \in DOMAIN h.cbs : ~g.cbs[j].called /\ LinkOf(g, j) # 0 => LinkOf(g, j) # d
    BY <1>2, <1>4, <2>2
  <2>7. \A j \in DOMAIN h.cbs \ {d} : Waits(c, g, j)
    BY <1>3, <2>5 DEF Waits
  <2> QED
    BY <1>3, <2>2, <2>4, <2>6, <2>7 DEF LinksInv
<1>10. ClassesInv(c, g, X)
  <2>2. ASSUME NEW f \in DOMAIN h.els, f # e PROVE ClassesFit(c, g, f, X)
    <3>1. ClassesFit(c, h, f, X)
      BY DEF Good, ClassesInv
    <3> QED
      BY <1>20, <2>2, <3>1 DEF ClassesFit
  <2>3. ClassesFit(c, g, e, X)
    <3>1. ClassesFit(c, h, e, X)
      BY <1>2 DEF Good, ClassesInv
    <3>2. ClassesOf(h, e) = IF h.cbs[i].stage = "frame" THEN {"enter", "enter-active"} ELSE {"enter-to", "enter-active"}
      BY <1>2 DEF ClassesOf, InEnter
    <3> QED
      BY <1>5, <1>7, <3>1, <3>2 DEF ClassesFit
  <2>5. ASSUME NEW j \in DOMAIN h.cbs PROVE Unframed(c, g, j, X)
    <3>1. CASE j = i
      BY <1>2, <1>4, <3>1 DEF Unframed
    <3>2. CASE j # i
      <4>1. g.cbs[j] = h.cbs[j] /\ h.cbs[j].el \in DOMAIN h.els
        BY <1>1, <1>3, <3>2 DEF CallbacksInv, CallbackInv
      <4>2. Unframed(c, h, j, X)
        BY DEF Good, ClassesInv
      <4>3. g.els[h.cbs[j].el].inDom = h.els[h.cbs[j].el].inDom
        BY <1>3, <1>5, <4>1
      <4> QED
        BY <4>1, <4>2, <4>3 DEF Unframed
    <3> QED
      BY <3>1, <3>2
  <2> QED
    BY <1>3, <2>2, <2>3, <2>5 DEF ClassesInv
<1>11. PlacesInv(c, g, X)
  <2>3. Len(g.els) = Len(h.els)
    BY <1>1, <1>3 DEF HeapType
  <2> QED
    BY <1>2, <1>3, <1>5, <1>7, <2>3, PlacesKept DEF Good
<1>12. KeysInv(c, g, n)
  <2>1. KeysInv(c, h, n)
    BY DEF Good
  <2> QED
    BY <1>2, <1>3, <1>5, <1>7, <2>1, KeysKept
<1>13. PendingInv(c, g)
  <2>1. \A f \in DOMAIN h.els : /\ g.els[f].key = h.els[f].key
                                /\ Leaves(g, f) <=> Leaves(h, f)
                                /\ Delayed(g, f) <=> Delayed(h, f)
    BY <1>5, <1>7, <1>20
  <2>2. PendingInv(c, h)
    BY DEF Good
  <2>3. DOMAIN g.els = DOMAIN h.els /\ g.pending = h.pending
    BY <1>3, <1>5
  <2> QED
    BY <2>1, <2>2, <2>3 DEF PendingInv
<1>14. OutInInv(g, z)
  <2>1. ~h.cbs[i].reopens
    BY <1>1, <1>2 DEF CallbacksInv, CallbackInv
  <2>2. \A j \in DOMAIN h.cbs : /\ g.cbs[j].reopens = h.cbs[j].reopens
                                /\ g.cbs[j].reopens => g.cbs[j].called = h.cbs[j].called
    BY <1>2, <1>3, <1>4, <2>1
  <2> QED
    BY <1>3, <1>5, <2>2 DEF OutInInv, Good
<1> QED
  BY <1>1, <1>6, <1>8, <1>9, <1>10, <1>11, <1>12, <1>13, <1>14 DEF Good

LEMMA LeavePerformedGood ==
  ASSUME NEW c, NEW h, NEW g, NEW i, NEW X, NEW n, NEW z, NEW e, IsOf(h, i, e),
         Good(c, h, i, X, n, z), Uncalled(h, i), h.cbs[i].kind = "leave", h.cbs[i].stage = "delayed",
         LeavePerformed(c, h, g, i),
         \A j \in DOMAIN h.cbs : ~h.cbs[j].called => LinkOf(h, j) # i
  PROVE  Good(c, g, 0, X, n, z)
<1>1. h \in HeapType /\ CallbacksInv(c, h) /\ g \in HeapType /\ Touches(h, g, e, i)
  BY DEF Good, LeavePerformed, Touches, IsOf
<1>2. /\ i \in DOMAIN h.cbs /\ i # 0 /\ e \in DOMAIN h.els /\ e # 0
      /\ ~h.cbs[i].called /\ ~h.cbs[i].cancelled
      /\ h.els[e].enterCb = 0 /\ h.els[e].leaveCb = i
      /\ h.els[e] \in ElementType /\ h.cbs[i] \in CallbackType
  BY <1>1, UncalledFacts
<1>3. /\ DOMAIN g.els = DOMAIN h.els /\ DOMAIN g.cbs = DOMAIN h.cbs
      /\ \A f \in DOMAIN h.els : f # e => g.els[f] = h.els[f]
      /\ \A j \in DOMAIN h.cbs : j # i => g.cbs[j] = h.cbs[j]
      /\ g.links = h.links /\ g.cur = h.cur
  BY <1>1 DEF Touches, Others
<1>4. /\ g.cbs[i].kind = "leave" /\ g.cbs[i].el = e /\ g.cbs[i].link = h.cbs[i].link /\ g.cbs[i].reopens = h.cbs[i].reopens
      /\ ~g.cbs[i].called /\ ~g.cbs[i].cancelled /\ g.cbs[i].stage = IF c.css THEN "frame" ELSE "user"
  BY <1>2 DEF LeavePerformed, Touches, SameCallback, IsOf
<1>5. /\ g.els[e].enterCb = 0 /\ g.els[e].leaveCb = i /\ g.els[e].key = h.els[e].key /\ g.els[e].inDom = h.els[e].inDom
      /\ g.els[e].hooks = Append(h.els[e].hooks, "beforeLeave")
      /\ g.els[e].classes = IF c.css THEN h.els[e].classes \union {"leave", "leave-active"} ELSE h.els[e].classes
      /\ g.pending = IF c.use # "show" /\ h.els[e].inDom THEN [h.pending EXCEPT ![h.els[e].key] = e] ELSE h.pending
      /\ g.leaving = h.leaving
  BY <1>2 DEF LeavePerformed, Touches, IsOf
<1>6. CallbacksInv(c, g)
  <2>1. CallbacksOf(g, e)
    BY <1>2, <1>3, <1>4, <1>5 DEF CallbacksOf, Uncalled
  <2>2. CallbackInv(c, g, i)
    <3>1. CallbackInv(c, h, i)
      BY <1>1, <1>2 DEF CallbacksInv
    <3> QED
      BY <1>2, <1>3, <1>4, <1>5, <3>1 DEF CallbackInv
  <2>3. \A j \in DOMAIN h.cbs : j # i => CallbackInv(c, g, j)
    BY <1>1, <1>2, OtherCallbacks
  <2>4. \A f \in DOMAIN h.els : f # e => CallbacksOf(g, f)
    BY <1>1, Elsewhere
  <2> QED
    BY <1>3, <2>1, <2>2, <2>3, <2>4 DEF CallbacksInv
<1>7. /\ Leaves(g, e) /\ Leaves(h, e) /\ ~InEnter(g, e) /\ ~InEnter(h, e)
      /\ ~Delayed(g, e) /\ Delayed(h, e)
  BY <1>2, <1>4, <1>5 DEF Leaves, InEnter, Delayed
<1>21. ClassesOf(h, e) = {} /\ ClassesOf(g, e) = IF c.css THEN {"leave", "leave-active"} ELSE {"leave-to", "leave-active"}
  BY <1>4, <1>5, <1>7 DEF ClassesOf
<1>20. ASSUME NEW f \in DOMAIN h.els, f # e
       PROVE  /\ g.els[f] = h.els[f] /\ (Leaves(g, f) <=> Leaves(h, f)) /\ (Delayed(g, f) <=> Delayed(h, f))
              /\ (InEnter(g, f) <=> InEnter(h, f)) /\ ClassesOf(g, f) = ClassesOf(h, f)
  BY <1>1, <1>20, Elsewhere
<1>22. h.els[e].inDom
  BY <1>2, <1>7 DEF Good, PlacesInv
<1>8. HooksInv(c, g)
  <2>1. HookInv(c, h, e)
    BY <1>2 DEF Good, HooksInv
  <2>2. ASSUME NEW f \in DOMAIN h.els, f # e PROVE HookInv(c, g, f)
    <3>1. HookInv(c, h, f)
      BY DEF Good, HooksInv
    <3> QED
      BY <1>20, <2>2, <3>1 DEF HookInv
  <2>3. HookInv(c, g, e)
    <3> DEFINE s == h.els[e].hooks
    <3>1. LastHook(s) \notin {"beforeEnter", "beforeLeave"} /\ PairsUp(c, s)
      BY <1>7, <2>1 DEF HookInv
    <3>2. s \in Seq(Hooks) /\ "beforeLeave" \in Hooks
      BY <1>2 DEF ElementType, Hooks
    <3> HIDE DEF s
    <3>3. PairsUp(c, Append(s, "beforeLeave")) /\ LastHook(Append(s, "beforeLeave")) = "beforeLeave"
      BY <3>1, <3>2, HookAppended
    <3>4. g.els[e].hooks = Append(s, "beforeLeave")
      BY <1>5 DEF s
    <3> QED
      BY <1>7, <3>3, <3>4 DEF HookInv
  <2> QED
    BY <1>3, <2>2, <2>3 DEF HooksInv
<1>9. LinksInv(c, g, 0)
  <2>1. Closures(h) /\ (\A j \in DOMAIN h.cbs : Holds(h, j)) /\ (\A j \in DOMAIN h.cbs \ {i} : Waits(c, h, j))
    BY DEF Good, LinksInv
  <2>2. Closures(g) /\ \A j \in DOMAIN h.cbs : LinkOf(g, j) = LinkOf(h, j)
    BY <1>1, <1>2, <2>1, LinksSame
  <2>3. \A j \in DOMAIN h.cbs : g.cbs[j].called <=> h.cbs[j].called
    BY <1>2, <1>3, <1>4
  <2>4. \A j \in DOMAIN h.cbs : Holds(g, j)
    BY <1>1, <1>2, <2>1, <2>3, HoldsKept
  <2>5. ASSUME NEW j \in DOMAIN h.cbs, ~g.cbs[j].called, g.cbs[j].stage = "delayed"
        PROVE  c.mode = "in-out" /\ \E k \in DOMAIN h.cbs : ~g.cbs[k].called /\ LinkOf(g, k) = j
    <3>1. j # i /\ ~h.cbs[j].called /\ h.cbs[j].stage = "delayed"
      BY <1>3, <1>4, <2>3, <2>5
    <3>2. c.mode = "in-out" /\ \E k \in DOMAIN h.cbs : ~h.cbs[k].called /\ LinkOf(h, k) = j
      BY <2>1, <3>1 DEF Waits
    <3> QED
      BY <2>2, <2>3, <3>2
  <2>7. \A j \in DOMAIN h.cbs \ {0} : Waits(c, g, j)
    BY <1>3, <2>5 DEF Waits
  <2> QED
    BY <1>3, <2>2, <2>4, <2>7 DEF LinksInv
<1>10. ClassesInv(c, g, X)
  <2>2. ASSUME NEW f \in DOMAIN h.els, f # e PROVE ClassesFit(c, g, f, X)
    <3>1. ClassesFit(c, h, f, X)
      BY DEF Good, ClassesInv
    <3> QED
      BY <1>20, <2>2, <3>1 DEF ClassesFit
  <2>3. ClassesFit(c, g, e, X)
    <3>1. ClassesFit(c, h, e, X)
      BY <1>2 DEF Good, ClassesInv
    <3> QED
      BY <1>5, <1>21, <1>22, <3>1 DEF ClassesFit
  <2>5. ASSUME NEW j \in DOMAIN h.cbs PROVE Unframed(c, g, j, X)
    <3>1. CASE j = i
      BY <1>2, <1>4, <3>1 DEF Unframed
    <3>2. CASE j # i
      <4>1. g.cbs[j] = h.cbs[j] /\ h.cbs[j].el \in DOMAIN h.els
        BY <1>1, <1>3, <3>2 DEF CallbacksInv, CallbackInv
      <4>2. Unframed(c, h, j, X)
        BY DEF Good, ClassesInv
      <4>3. g.els[h.cbs[j].el].inDom = h.els[h.cbs[j].el].inDom
        BY <1>3, <1>5, <4>1
      <4> QED
        BY <4>1, <4>2, <4>3 DEF Unframed
    <3> QED
      BY <3>1, <3>2
  <2> QED
    BY <1>3, <2>2, <2>3, <2>5 DEF ClassesInv
<1>11. PlacesInv(c, g, X)
  <2>3. Len(g.els) = Len(h.els)
    BY <1>1, <1>3 DEF HeapType
  <2> QED
    BY <1>2, <1>3, <1>5, <1>7, <2>3, PlacesKept DEF Good
<1>12. KeysInv(c, g, n)
  <2>1. KeysInv(c, h, n)
    BY DEF Good
  <2> QED
    BY <1>2, <1>3, <1>5, <1>7, <2>1, KeysKept
<1>13. PendingInv(c, g)
  <2>1. \A f \in DOMAIN h.els : /\ g.els[f].key = h.els[f].key
                                /\ Leaves(g, f) <=> Leaves(h, f)
    BY <1>5, <1>7, <1>20
  <2>2. PendingInv(c, h)
    BY DEF Good
  <2>3. c.use # "show" => \A f \in DOMAIN h.els : Leaves(h, f) /\ h.els[f].key = h.els[e].key => f = e
    <3>1. \A f \in DOMAIN h.els : Leaves(h, f) => f # n /\ h.els[f].inDom
      BY DEF Good, KeysInv, PlacesInv
    <3>2. \A f1, f2 \in DOMAIN h.els \ {n} : h.els[f1].inDom /\ h.els[f2].inDom /\ h.els[f1].key = h.els[f2].key => f1 = f2
      BY DEF Good, KeysInv
    <3> QED
      BY <1>2, <1>7, <3>1, <3>2
  <2>4. h.pending \in [Views -> Nat] /\ h.els[e].key \in Views
    BY <1>1, <1>2 DEF HeapType, ElementType
  <2> SUFFICES ASSUME c.use # "show" PROVE PendingInv(c, g)
    BY DEF PendingInv
  <2>5. \A k \in Views : g.pending[k] = IF k = h.els[e].key THEN e ELSE h.pending[k]
    BY <1>5, <1>22, <2>4
  <2>6. ASSUME NEW k \in Views, g.pending[k] # 0
        PROVE  LET p == g.pending[k] IN p \in DOMAIN h.els /\ g.els[p].key = k /\ Leaves(g, p) /\ ~Delayed(g, p)
    <3>1. CASE k = h.els[e].key
      BY <1>2, <1>5, <1>7, <2>5, <3>1
    <3>2. CASE k # h.els[e].key
      <4> DEFINE p == h.pending[k]
      <4>1. g.pending[k] = p
        BY <2>5, <3>2
      <4> HIDE DEF p
      <4>2. p \in DOMAIN h.els /\ h.els[p].key = k /\ Leaves(h, p) /\ ~Delayed(h, p)
        BY <2>2, <2>6, <4>1 DEF PendingInv, p
      <4>3. p # e
        BY <3>2, <4>2
      <4> QED
        BY <1>20, <4>1, <4>2, <4>3
    <3> QED
      BY <3>1, <3>2
  <2>7. ASSUME NEW f \in DOMAIN h.els, Leaves(g, f), ~Delayed(g, f)
        PROVE  g.pending[g.els[f].key] = f
    <3>1. h.els[f].key \in Views
      <4>1. h.els[f] \in ElementType
        BY <1>1 DEF HeapType
      <4> QED
        BY <4>1 DEF ElementType
    <3>2. CASE f = e
      BY <1>5, <2>4, <2>5, <3>2
    <3>3. CASE f # e
      <4>1. Leaves(h, f) /\ ~Delayed(h, f) /\ g.els[f] = h.els[f]
        BY <1>20, <2>7, <3>3
      <4>2. h.pending[h.els[f].key] = f /\ h.els[f].key # h.els[e].key
        BY <2>2, <2>3, <3>3, <4>1 DEF PendingInv
      <4> QED
        BY <2>5, <3>1, <4>1, <4>2
    <3> QED
      BY <3>2, <3>3
  <2> QED
    BY <1>3, <2>6, <2>7 DEF PendingInv
<1>14. OutInInv(g, z)
  <2>2. \A j \in DOMAIN h.cbs : /\ g.cbs[j].reopens = h.cbs[j].reopens
                                /\ g.cbs[j].called <=> h.cbs[j].called
    BY <1>2, <1>3, <1>4
  <2> QED
    BY <1>3, <1>5, <2>2 DEF OutInInv, Good
<1> QED
  BY <1>1, <1>6, <1>8, <1>9, <1>10, <1>11, <1>12, <1>13, <1>14 DEF Good

LEMMA LeaveCalledGood ==
  ASSUME NEW c, NEW h, NEW g, NEW i, NEW x \in BOOLEAN, NEW X, NEW n, NEW z, NEW e, IsOf(h, i, e),
         Good(c, h, 0, X, n, z), Uncalled(h, i), h.cbs[i].kind = "leave", LeaveCalled(c, h, g, i, x),
         x => ~h.cbs[i].reopens,
         ~x => h.cbs[i].stage # "delayed" /\ (h.cbs[i].stage = "frame" => c.use = "if"),
         NEW Y, Y = IF x THEN X \union {e} ELSE X
  PROVE  Good(c, g, 0, Y, n, z)
<1>1. h \in HeapType /\ CallbacksInv(c, h) /\ g \in HeapType /\ Touches(h, g, e, i)
  BY DEF Good, LeaveCalled, Touches, IsOf
<1>2. /\ i \in DOMAIN h.cbs /\ i # 0 /\ e \in DOMAIN h.els /\ e # 0
      /\ ~h.cbs[i].called /\ ~h.cbs[i].cancelled /\ h.cbs[i].stage # "ended"
      /\ h.els[e].enterCb = 0 /\ h.els[e].leaveCb = i
      /\ h.els[e] \in ElementType /\ h.cbs[i] \in CallbackType
  BY <1>1, UncalledFacts
<1>3. /\ DOMAIN g.els = DOMAIN h.els /\ DOMAIN g.cbs = DOMAIN h.cbs
      /\ \A f \in DOMAIN h.els : f # e => g.els[f] = h.els[f]
      /\ \A j \in DOMAIN h.cbs : j # i => g.cbs[j] = h.cbs[j]
      /\ g.links = h.links /\ g.cur = h.cur
  BY <1>1 DEF Touches, Others
<1>4. /\ g.cbs[i].kind = "leave" /\ g.cbs[i].el = e /\ g.cbs[i].link = h.cbs[i].link /\ g.cbs[i].reopens = h.cbs[i].reopens
      /\ g.cbs[i].called /\ (g.cbs[i].cancelled <=> x) 
      /\ g.cbs[i].stage = h.cbs[i].stage \/ (h.cbs[i].stage # "delayed" /\ g.cbs[i].stage \in {"ended", "delayed"})
  BY <1>2 DEF LeaveCalled, Touches, SameCallback, IsOf
<1>22. h.els[e].inDom
  <2>1. Leaves(h, e)
    BY <1>2 DEF Leaves
  <2> QED
    BY <1>2, <2>1 DEF Good, PlacesInv
<1>5. /\ g.els[e].enterCb = 0 /\ g.els[e].leaveCb = 0 /\ g.els[e].key = h.els[e].key
      /\ g.els[e].hooks = Append(h.els[e].hooks, IF x THEN "leaveCancelled" ELSE "afterLeave")
      /\ g.els[e].classes =
           IF c.css THEN h.els[e].classes \ ({"leave-to", "leave-active"} \union IF x THEN {"leave"} ELSE {})
           ELSE h.els[e].classes
      /\ g.pending = [h.pending EXCEPT ![h.els[e].key] = 0]
  BY <1>2, <1>22 DEF LeaveCalled, Touches, IsOf
<1>23. /\ g.els[e].inDom <=> (x \/ c.use = "show")
       /\ g.leaving <=> (h.leaving /\ (x \/ ~h.cbs[i].reopens))
  BY <1>2, <1>22 DEF LeaveCalled, IsOf
<1>6. CallbacksInv(c, g)
  <2>1. CallbacksOf(g, e)
    BY <1>5 DEF CallbacksOf
  <2>2. CallbackInv(c, g, i)
    <3>1. CallbackInv(c, h, i)
      BY <1>1, <1>2 DEF CallbacksInv
    <3> QED
      BY <1>2, <1>3, <1>4, <3>1 DEF CallbackInv
  <2>3. \A j \in DOMAIN h.cbs : j # i => CallbackInv(c, g, j)
    BY <1>1, <1>2, <1>5, OtherCallbacks
  <2>4. \A f \in DOMAIN h.els : f # e => CallbacksOf(g, f)
    BY <1>1, Elsewhere
  <2> QED
    BY <1>3, <2>1, <2>2, <2>3, <2>4 DEF CallbacksInv
<1>7. /\ ~Leaves(g, e) /\ Leaves(h, e) /\ ~InEnter(g, e) /\ ~InEnter(h, e)
      /\ ~Delayed(g, e) /\ (Delayed(h, e) <=> h.cbs[i].stage = "delayed")
  BY <1>2, <1>5 DEF Leaves, InEnter, Delayed
<1>21. /\ ClassesOf(g, e) = {}
       /\ ClassesOf(h, e) = IF h.cbs[i].stage = "delayed" THEN {}
                            ELSE IF h.cbs[i].stage = "frame" THEN {"leave", "leave-active"} ELSE {"leave-to", "leave-active"}
  BY <1>2, <1>7 DEF ClassesOf
<1>20. ASSUME NEW f \in DOMAIN h.els, f # e
       PROVE  /\ g.els[f] = h.els[f] /\ (Leaves(g, f) <=> Leaves(h, f)) /\ (Delayed(g, f) <=> Delayed(h, f))
              /\ (InEnter(g, f) <=> InEnter(h, f)) /\ ClassesOf(g, f) = ClassesOf(h, f)
  BY <1>1, <1>20, Elsewhere
<1>24. c.use # "show" => e \notin X \union {h.cur}
  BY <1>2, <1>7 DEF Good, PlacesInv
<1>25. h.cbs[i].stage = "delayed" => c.mode = "in-out"
  BY <1>2 DEF Good, LinksInv, Waits
<1>8. HooksInv(c, g)
  <2>1. HookInv(c, h, e)
    BY <1>2 DEF Good, HooksInv
  <2>2. ASSUME NEW f \in DOMAIN h.els, f # e PROVE HookInv(c, g, f)
    <3>1. HookInv(c, h, f)
      BY DEF Good, HooksInv
    <3> QED
      BY <1>20, <2>2, <3>1 DEF HookInv
  <2>3. HookInv(c, g, e)
    <3> DEFINE s == h.els[e].hooks
               name == IF x THEN "leaveCancelled" ELSE "afterLeave"
    <3>1. /\ PairsUp(c, s) /\ LastHook(s) # "beforeEnter"
          /\ h.cbs[i].stage # "delayed" => LastHook(s) = "beforeLeave"
      BY <1>7, <2>1 DEF HookInv
    <3>2. s \in Seq(Hooks) /\ "leaveCancelled" \in Hooks /\ "afterLeave" \in Hooks
      BY <1>2 DEF ElementType, Hooks
    <3> HIDE DEF s
    <3>3. PairsUp(c, Append(s, name)) /\ LastHook(Append(s, name)) = name
      <4>1. CASE x
        <5>1. PairsUp(c, Append(s, "leaveCancelled")) /\ LastHook(Append(s, "leaveCancelled")) = "leaveCancelled"
          <6>1. LastHook(s) = "beforeLeave" \/ (c.mode = "in-out" /\ LastHook(s) # "beforeEnter")
            BY <1>25, <3>1
          <6> QED
            BY <3>1, <3>2, <6>1, HookAppended
        <5> QED
          BY <4>1, <5>1
      <4>2. CASE ~x
        <5>1. PairsUp(c, Append(s, "afterLeave")) /\ LastHook(Append(s, "afterLeave")) = "afterLeave"
          <6>1. LastHook(s) = "beforeLeave"
            BY <3>1, <4>2
          <6> QED
            BY <3>1, <3>2, <6>1, HookAppended
        <5> QED
          BY <4>2, <5>1
      <4> QED
        BY <4>1, <4>2
    <3>5. name \notin {"beforeEnter", "beforeLeave"}
      OBVIOUS
    <3>4. g.els[e].hooks = Append(s, name)
      BY <1>5 DEF s
    <3> HIDE DEF name
    <3> QED
      BY <1>7, <3>3, <3>4, <3>5 DEF HookInv
  <2> QED
    BY <1>3, <2>2, <2>3 DEF HooksInv
<1>9. LinksInv(c, g, 0)
  <2>1. Closures(h) /\ (\A j \in DOMAIN h.cbs : Holds(h, j)) /\ (\A j \in DOMAIN h.cbs \ {0} : Waits(c, h, j))
    BY DEF Good, LinksInv
  <2>2. Closures(g) /\ \A j \in DOMAIN h.cbs : LinkOf(g, j) = LinkOf(h, j)
    BY <1>1, <1>2, <2>1, LinksSame
  <2>3. \A j \in DOMAIN h.cbs : j # i => (g.cbs[j].called <=> h.cbs[j].called)
    BY <1>3
  <2>8. \A j \in DOMAIN h.cbs : ~g.cbs[j].called /\ LinkOf(h, j) = i => h.cbs[i].stage = "delayed"
    BY <1>2, <1>4, <2>1, <2>3 DEF Holds
  <2>4. \A j \in DOMAIN h.cbs : Holds(g, j)
    <3>1. \A j \in DOMAIN h.cbs : ~g.cbs[j].called /\ LinkOf(h, j) = i =>
            g.cbs[i].stage = "delayed" /\ (g.cbs[i].called => g.cbs[i].cancelled)
      BY <1>4, <2>8
    <3>2. ~g.cbs[i].called => ~h.cbs[i].called
      BY <1>2
    <3> QED
      BY <1>1, <1>2, <2>1, <3>1, <3>2, HoldsKept
  <2>5. ASSUME NEW j \in DOMAIN h.cbs, ~g.cbs[j].called, g.cbs[j].stage = "delayed"
        PROVE  c.mode = "in-out" /\ \E k \in DOMAIN h.cbs : ~g.cbs[k].called /\ LinkOf(g, k) = j
    <3>1. j # i /\ ~h.cbs[j].called /\ h.cbs[j].stage = "delayed" /\ j # 0
      BY <1>1, <1>3, <1>4, <2>5 DEF HeapType
    <3>2. c.mode = "in-out" /\ \E k \in DOMAIN h.cbs : ~h.cbs[k].called /\ LinkOf(h, k) = j
      BY <2>1, <3>1 DEF Waits
    <3>3. PICK k \in DOMAIN h.cbs : ~h.cbs[k].called /\ LinkOf(h, k) = j
      BY <3>2
    <3>4. k # i
      <4>1. CallbackInv(c, h, i)
        BY <1>1, <1>2 DEF CallbacksInv
      <4> QED
        BY <3>1, <3>3, <4>1 DEF CallbackInv, LinkOf
    <3> QED
      BY <2>2, <2>3, <3>2, <3>3, <3>4
  <2>7. \A j \in DOMAIN h.cbs \ {0} : Waits(c, g, j)
    BY <1>3, <2>5 DEF Waits
  <2> QED
    BY <1>3, <2>2, <2>4, <2>7 DEF LinksInv
<1>10. ClassesInv(c, g, Y)
  <2>2. ASSUME NEW f \in DOMAIN h.els, f # e PROVE ClassesFit(c, g, f, Y)
    <3>1. ClassesFit(c, h, f, X)
      BY DEF Good, ClassesInv
    <3>2. f \in Y <=> f \in X
      BY <2>2
    <3> QED
      BY <1>20, <2>2, <3>1, <3>2 DEF ClassesFit
  <2>3. ClassesFit(c, g, e, Y)
    <3>1. ClassesFit(c, h, e, X)
      BY <1>2 DEF Good, ClassesInv
    <3>2. h.els[e].classes \subseteq ClassesOf(h, e) /\ (~c.css => h.els[e].classes = {})
      BY <1>22, <3>1 DEF ClassesFit
    <3>3. ~c.css => g.els[e].classes = {}
      BY <1>5, <3>2
    <3>4. CASE x
      BY <1>5, <1>21, <3>2, <3>4 DEF ClassesFit
    <3>5. CASE ~x /\ c.use = "if"
      BY <1>23, <1>24, <3>3, <3>5 DEF ClassesFit
    <3>6. CASE ~x /\ c.use # "if"
      <4>1. h.cbs[i].stage # "frame" /\ h.cbs[i].stage # "delayed"
        BY <1>4, <3>6
      <4> QED
        BY <1>5, <1>21, <3>2, <4>1 DEF ClassesFit
    <3> QED
      BY <3>4, <3>5, <3>6
  <2>5. ASSUME NEW j \in DOMAIN h.cbs PROVE Unframed(c, g, j, Y)
    <3>1. CASE j = i
      BY <1>2, <1>4, <1>23, <1>24, <3>1 DEF Unframed
    <3>2. CASE j # i
      <4>1. g.cbs[j] = h.cbs[j] /\ h.cbs[j].el \in DOMAIN h.els
        BY <1>1, <1>3, <3>2 DEF CallbacksInv, CallbackInv
      <4>2. Unframed(c, h, j, X)
        BY DEF Good, ClassesInv
      <4>3. CASE h.cbs[j].el # e
        BY <1>3, <4>1, <4>2, <4>3 DEF Unframed
      <4>4. CASE h.cbs[j].el = e
        BY <1>22, <4>1, <4>2, <4>4 DEF Unframed
      <4> QED
        BY <4>3, <4>4
    <3> QED
      BY <3>1, <3>2
  <2> QED
    BY <1>3, <2>2, <2>3, <2>5 DEF ClassesInv
<1>11. PlacesInv(c, g, Y)
  <2>1. PlacesInv(c, h, X)
    BY DEF Good
  <2>2. Len(g.els) = Len(h.els) /\ DOMAIN h.els = 1 .. Len(h.els) /\ Len(h.els) \in Nat
    BY <1>1, <1>3 DEF HeapType
  <2>3. \A f \in DOMAIN h.els : f # e => g.els[f].inDom = h.els[f].inDom
    BY <1>3
  <2>4. \A f \in DOMAIN h.els : g.els[f].key = h.els[f].key /\ (Leaves(g, f) => Leaves(h, f)) /\ (InEnter(g, f) <=> InEnter(h, f))
    BY <1>5, <1>7, <1>20
  <2>5. c.use = "show" => h.cur = e
    BY <1>2, <2>1, <2>2 DEF PlacesInv
  <2>6. h.cur # 0 => h.cur \in DOMAIN g.els /\ g.els[h.cur].inDom
    BY <1>3, <1>23, <1>24, <2>1, <2>3 DEF PlacesInv
  <2>7. c.use # "show" => \A f \in Y \union {h.cur} : f \in DOMAIN h.els => ~Leaves(g, f)
    BY <1>7, <2>1, <2>4 DEF PlacesInv
  <2>8. ASSUME NEW f \in DOMAIN h.els
        PROVE  /\ InEnter(g, f) => f \in Y \union {h.cur}
               /\ Leaves(g, f) => g.els[f].inDom
               /\ g.els[f].inDom => Leaves(g, f) \/ f \in Y \union {h.cur}
    <3>1. /\ InEnter(h, f) => f \in X \union {h.cur}
          /\ Leaves(h, f) => h.els[f].inDom
          /\ h.els[f].inDom => Leaves(h, f) \/ f \in X \union {h.cur}
      BY <2>1 DEF PlacesInv
    <3>2. CASE f # e
      BY <1>20, <2>3, <3>1, <3>2
    <3>3. CASE f = e
      BY <1>7, <1>23, <2>5, <3>3
    <3> QED
      BY <3>2, <3>3
  <2>9. (c.use = "show" => h.cur = Len(h.els) /\ Len(h.els) <= 1)
        /\ (c.use = "kept" => \A f1, f2 \in DOMAIN h.els : h.els[f1].key = h.els[f2].key => f1 = f2)
    BY <2>1 DEF PlacesInv
  <2> QED
    BY <1>3, <2>2, <2>4, <2>6, <2>7, <2>8, <2>9 DEF PlacesInv
<1>12. KeysInv(c, g, n)
  <2>1. KeysInv(c, h, n)
    BY DEF Good
  <2> QED
    BY <1>2, <1>3, <1>5, <1>7, <1>22, <2>1, KeysKept
<1>13. PendingInv(c, g)
  <2>2. PendingInv(c, h)
    BY DEF Good
  <2>3. \A f \in DOMAIN h.els : Leaves(h, f) /\ h.els[f].key = h.els[e].key => f = e
    <3>1. \A f \in DOMAIN h.els : Leaves(h, f) => f # n /\ h.els[f].inDom
      BY DEF Good, KeysInv, PlacesInv
    <3>2. \A f1, f2 \in DOMAIN h.els \ {n} : h.els[f1].inDom /\ h.els[f2].inDom /\ h.els[f1].key = h.els[f2].key => f1 = f2
      BY DEF Good, KeysInv
    <3> QED
      BY <1>2, <1>7, <3>1, <3>2
  <2>4. h.pending \in [Views -> Nat] /\ h.els[e].key \in Views
    BY <1>1, <1>2 DEF HeapType, ElementType
  <2> SUFFICES ASSUME c.use # "show" PROVE PendingInv(c, g)
    BY DEF PendingInv
  <2>5. \A k \in Views : g.pending[k] = IF k = h.els[e].key THEN 0 ELSE h.pending[k]
    BY <1>5, <2>4
  <2>6. ASSUME NEW k \in Views, g.pending[k] # 0
        PROVE  LET p == g.pending[k] IN p \in DOMAIN h.els /\ g.els[p].key = k /\ Leaves(g, p) /\ ~Delayed(g, p)
    <3>1. k # h.els[e].key
      BY <2>5, <2>6
    <3> DEFINE p == h.pending[k]
    <3>2. g.pending[k] = p
      BY <2>5, <3>1
    <3> HIDE DEF p
    <3>3. p \in DOMAIN h.els /\ h.els[p].key = k /\ Leaves(h, p) /\ ~Delayed(h, p)
      BY <2>2, <2>6, <3>2 DEF PendingInv, p
    <3>4. p # e
      BY <3>1, <3>3
    <3> QED
      BY <1>20, <3>2, <3>3, <3>4
  <2>7. ASSUME NEW f \in DOMAIN h.els, Leaves(g, f), ~Delayed(g, f)
        PROVE  g.pending[g.els[f].key] = f
    <3>1. h.els[f].key \in Views
      <4>1. h.els[f] \in ElementType
        BY <1>1 DEF HeapType
      <4> QED
        BY <4>1 DEF ElementType
    <3>2. f # e
      BY <1>7, <2>7
    <3>3. Leaves(h, f) /\ ~Delayed(h, f) /\ g.els[f] = h.els[f]
      BY <1>20, <2>7, <3>2
    <3>4. h.pending[h.els[f].key] = f /\ h.els[f].key # h.els[e].key
      BY <2>2, <2>3, <3>2, <3>3 DEF PendingInv
    <3> QED
      BY <2>5, <3>1, <3>3, <3>4
  <2> QED
    BY <1>3, <2>6, <2>7 DEF PendingInv
<1>14. OutInInv(g, z)
  <2>1. \A j \in DOMAIN h.cbs : g.cbs[j].reopens = h.cbs[j].reopens /\ (j # i => (g.cbs[j].called <=> h.cbs[j].called))
    BY <1>2, <1>3, <1>4
  <2>2. OutInInv(h, z)
    BY DEF Good
  <2>3. ASSUME NEW j \in DOMAIN h.cbs, g.cbs[j].reopens, ~g.cbs[j].called
        PROVE  g.leaving /\ g.cur = 0
    <3>1. h.cbs[j].reopens /\ ~h.cbs[j].called /\ j # i
      BY <1>4, <2>1, <2>3
    <3>2. ~h.cbs[i].reopens
      BY <1>2, <2>2, <3>1 DEF OutInInv
    <3> QED
      BY <1>3, <1>23, <2>2, <3>1, <3>2 DEF OutInInv
  <2>4. g.leaving => z \/ \E j \in DOMAIN h.cbs : g.cbs[j].reopens /\ ~g.cbs[j].called
    BY <1>2, <1>23, <2>1, <2>2 DEF OutInInv
  <2>5. \A j \in DOMAIN h.cbs : h.cbs[j].called => g.cbs[j].called
    BY <1>2, <2>1
  <2> QED
    BY <1>3, <2>1, <2>2, <2>3, <2>4, <2>5 DEF OutInInv
<1> QED
  BY <1>1, <1>6, <1>8, <1>9, <1>10, <1>11, <1>12, <1>13, <1>14 DEF Good

-----------------------------------------------------------------------------
(***************************************************************************)
(* The operations.                                                         *)
(***************************************************************************)
\* What no step on the callbacks of element e changes
Kept(h, g, e) ==
  /\ DOMAIN g.els = DOMAIN h.els /\ DOMAIN g.cbs = DOMAIN h.cbs /\ Others(g) = Others(h)
  /\ \A f \in DOMAIN h.els : g.els[f].key = h.els[f].key /\ (f # e => g.els[f].enterCb = h.els[f].enterCb)
  /\ \A j \in DOMAIN h.cbs : SameCallback(h.cbs[j], g.cbs[j])
  /\ g.leaving => h.leaving
  /\ h.leaving => g.leaving \/ g.dirty
  /\ h.dirty => g.dirty

LEMMA KeptTwice ==
  ASSUME NEW h, NEW m, NEW g, NEW e, Kept(h, m, e), Kept(m, g, e)
  PROVE  Kept(h, g, e)
<1>1. \A j \in DOMAIN h.cbs : SameCallback(h.cbs[j], g.cbs[j])
  BY DEF Kept, SameCallback
<1>2. /\ DOMAIN g.els = DOMAIN h.els /\ DOMAIN g.cbs = DOMAIN h.cbs /\ Others(g) = Others(h)
      /\ \A f \in DOMAIN h.els : g.els[f].key = h.els[f].key /\ (f # e => g.els[f].enterCb = h.els[f].enterCb)
  BY DEF Kept
<1>3. (g.leaving => h.leaving) /\ (h.leaving => g.leaving \/ g.dirty) /\ (h.dirty => g.dirty)
  BY DEF Kept
<1> QED
  BY <1>1, <1>2, <1>3 DEF Kept

\* A step on element a that begins none of its transitions is one on e.
LEMMA TouchedKept ==
  ASSUME NEW h, NEW g, NEW e, NEW a, NEW i, Touches(h, g, a, i), a # e => g.els[a].enterCb = h.els[a].enterCb,
         g.leaving => h.leaving, h.leaving => g.leaving \/ g.dirty, h.dirty => g.dirty
  PROVE  Kept(h, g, e)
<1>1. \A j \in DOMAIN h.cbs : SameCallback(h.cbs[j], g.cbs[j])
  BY DEF Touches, SameCallback
<1>2. /\ DOMAIN g.els = DOMAIN h.els /\ DOMAIN g.cbs = DOMAIN h.cbs /\ Others(g) = Others(h)
      /\ \A f \in DOMAIN h.els : g.els[f].key = h.els[f].key /\ (f # e => g.els[f].enterCb = h.els[f].enterCb)
  BY DEF Touches
<1> QED
  BY <1>1, <1>2 DEF Kept

\* A callback is marked as cancelled or ended before it is called.
LEMMA MarkedTouches ==
  ASSUME NEW h, NEW k, NEW g, NEW e, NEW i \in DOMAIN h.cbs, NEW r, CallbackSet(h, k, i, r), SameCallback(h.cbs[i], r),
         Touches(k, g, e, i)
  PROVE  Touches(h, g, e, i)
<1>1. /\ DOMAIN k.cbs = DOMAIN h.cbs /\ k.els = h.els /\ Others(k) = Others(h) /\ k.cbs[i] = r
      /\ \A j \in DOMAIN h.cbs : j # i => k.cbs[j] = h.cbs[j]
  BY DEF CallbackSet
<1>2. SameCallback(h.cbs[i], g.cbs[i])
  BY <1>1 DEF Touches, SameCallback
<1> QED
  BY <1>1, <1>2 DEF Touches

LEMMA MarkedEnterCalled ==
  ASSUME NEW c, NEW h, NEW k, NEW g, NEW i \in DOMAIN h.cbs, NEW x, NEW r, CallbackSet(h, k, i, r), SameCallback(h.cbs[i], r),
         r.stage \in {h.cbs[i].stage, "ended"}, EnterCalled(c, k, g, i, x)
  PROVE  EnterCalled(c, h, g, i, x)
<1>1. /\ k.els = h.els /\ k.pending = h.pending /\ k.leaving = h.leaving /\ k.dirty = h.dirty /\ k.cbs[i] = r
  BY DEF CallbackSet
<1>2. r.el = h.cbs[i].el
  BY DEF SameCallback
<1>3. Touches(h, g, h.cbs[i].el, i)
  <2>1. Touches(k, g, k.cbs[i].el, i)
    BY Zenon DEF EnterCalled
  <2>2. Touches(k, g, h.cbs[i].el, i)
    BY <1>1, <1>2, <2>1
  <2> QED
    BY <2>2, MarkedTouches
<1> QED
  BY ZenonT(30), <1>1, <1>2, <1>3 DEF EnterCalled

LEMMA MarkedLeaveCalled ==
  ASSUME NEW c, NEW h, NEW k, NEW g, NEW i \in DOMAIN h.cbs, NEW x, NEW r, CallbackSet(h, k, i, r), SameCallback(h.cbs[i], r),
         r.stage = h.cbs[i].stage \/ (h.cbs[i].stage # "delayed" /\ r.stage = "ended"), LeaveCalled(c, k, g, i, x)
  PROVE  LeaveCalled(c, h, g, i, x)
<1>1. /\ k.els = h.els /\ k.pending = h.pending /\ k.leaving = h.leaving /\ k.dirty = h.dirty /\ k.cbs[i] = r
  BY DEF CallbackSet
<1>2. r.el = h.cbs[i].el /\ r.reopens = h.cbs[i].reopens
  BY DEF SameCallback
<1>3. Touches(h, g, h.cbs[i].el, i)
  <2>1. Touches(k, g, k.cbs[i].el, i)
    BY Zenon DEF LeaveCalled
  <2>2. Touches(k, g, h.cbs[i].el, i)
    BY <1>1, <1>2, <2>1
  <2> QED
    BY <2>2, MarkedTouches
<1> QED
  BY ZenonT(30), <1>1, <1>2, <1>3 DEF LeaveCalled

\* k: callback i of h as it is when it is called
Marked(h, k, i, r) ==
  /\ CallbackSet(h, k, i, r) /\ SameCallback(h.cbs[i], r) /\ ~r.called /\ r \in CallbackType
  /\ r.stage = h.cbs[i].stage \/ (h.cbs[i].stage # "delayed" /\ r.stage = "ended")
  /\ ~r.cancelled => h.cbs[i].stage # "delayed"

\* The mode in-out is of use only if somebody ends the transitions: else the enter
\* ends before the leave that it is to perform is put into its closure.
InOutEnds(c) == c.mode = "in-out" => c.css \/ c.control

Stays(h, g, e) == (g.els[e].inDom <=> h.els[e].inDom) /\ (h.leaving => g.leaving)

LEMMA EnterEnds ==
  ASSUME InOutEnds(config), NEW h, NEW i, NEW X, NEW n, NEW z, NEW e, IsOf(h, i, e),
         Good(config, h, 0, X, n, z), Uncalled(h, i), h.cbs[i].kind = "enter",
         NEW k, NEW r, Marked(h, k, i, r), r.cancelled \/ h.cbs[i].stage # "frame",
         NEW g, g = CallEnterCb(k, i)
  PROVE  /\ Good(config, g, 0, X, n, z) /\ Kept(h, g, e)
         /\ g.els[e].enterCb = 0 /\ g.els[e].leaveCb = 0 /\ g.els[e].display = h.els[e].display
         /\ Stays(h, g, e)
<1> DEFINE x == r.cancelled
<1>0. /\ CallbackSet(h, k, i, r) /\ SameCallback(h.cbs[i], r) /\ ~r.called /\ x \in BOOLEAN /\ r.cancelled = x
      /\ r.stage = h.cbs[i].stage \/ (h.cbs[i].stage # "delayed" /\ r.stage = "ended")
      /\ ~x => h.cbs[i].stage # "delayed"
  BY DEF Marked, CallbackType
<1>a. x \/ h.cbs[i].stage # "frame"
  OBVIOUS
<1> HIDE DEF x
<1> DEFINE d == LinkOf(h, i)
<1>1. h \in HeapType /\ CallbacksInv(config, h) /\ k \in HeapType
  BY <1>0 DEF Good, CallbackSet
<1>2. /\ i \in DOMAIN h.cbs /\ i # 0 /\ e \in DOMAIN h.els /\ h.els[e].enterCb = i /\ h.els[e].leaveCb = 0
  BY <1>1, UncalledFacts
<1>3. /\ DOMAIN k.cbs = DOMAIN h.cbs /\ k.els = h.els /\ k.links = h.links /\ k.cbs[i] = r
      /\ \A j \in DOMAIN h.cbs : j # i => k.cbs[j] = h.cbs[j]
  BY <1>0, <1>2 DEF CallbackSet, Others
<1>4. r.el = e /\ r.link = h.cbs[i].link
  BY <1>0 DEF SameCallback, IsOf
<1>5. d = LinkOf(k, i) /\ Uncalled(k, i) /\ k.cbs[i].el = e /\ e \in DOMAIN k.els
  BY <1>0, <1>2, <1>3, <1>4 DEF LinkOf, Uncalled
<1> DEFINE a == h.cbs[d].el
<1>6. d # 0 => /\ d \in DOMAIN h.cbs /\ d # i /\ k.cbs[d] = h.cbs[d] /\ h.cbs[d].kind = "leave"
               /\ a \in DOMAIN h.els /\ h.cbs[d].stage = "delayed"
               /\ ~h.cbs[d].cancelled => /\ Uncalled(h, d) /\ a # e /\ (config.css \/ config.control)
  <2> SUFFICES ASSUME d # 0
               PROVE  /\ d \in DOMAIN h.cbs /\ d # i /\ k.cbs[d] = h.cbs[d] /\ h.cbs[d].kind = "leave"
                      /\ a \in DOMAIN h.els /\ h.cbs[d].stage = "delayed"
                      /\ ~h.cbs[d].cancelled => /\ Uncalled(h, d) /\ a # e /\ (config.css \/ config.control)
    OBVIOUS
  <2>1. d \in DOMAIN h.cbs /\ h.cbs[d].kind = "leave"
    <3>1. Closures(h) /\ h.links \in Seq(Nat)
      BY <1>1 DEF Good, LinksInv, HeapType
    <3>2. h.cbs[i].link \in DOMAIN h.links /\ h.links[h.cbs[i].link] = d
      BY <1>2, <3>1 DEF LinkOf, Closures
    <3> QED
      BY <3>1, <3>2 DEF Closures
  <2>2. d # i /\ k.cbs[d] = h.cbs[d]
    BY <1>3, <2>1
  <2>3. h.cbs[d].stage = "delayed" /\ (h.cbs[d].called => h.cbs[d].cancelled)
    BY <1>2 DEF Good, LinksInv, Holds, Uncalled
  <2>4. a \in DOMAIN h.els
    BY <1>1, <2>1 DEF CallbacksInv, CallbackInv
  <2>5. ASSUME ~h.cbs[d].cancelled PROVE Uncalled(h, d) /\ a # e /\ (config.css \/ config.control)
    <3>1. Uncalled(h, d)
      BY <2>1, <2>3, <2>5 DEF Uncalled
    <3>2. h.els[a].leaveCb = d
      <4>1. CallbackInv(config, h, d)
        BY <1>1, <2>1 DEF CallbacksInv
      <4> QED
        BY <2>1, <3>1, <4>1 DEF CallbackInv, Uncalled
    <3>3. config.mode = "in-out"
      BY <2>1, <2>3, <3>1 DEF Good, LinksInv, Waits, Uncalled
    <3> QED
      BY <1>2, <3>1, <3>2, <3>3 DEF InOutEnds
  <2> QED
    BY <2>1, <2>2, <2>3, <2>4, <2>5
<1> HIDE DEF d, a
<1>7. PICK m : /\ EnterCalled(config, k, m, i, k.cbs[i].cancelled)
               /\ IF d # 0 /\ ~k.cbs[d].cancelled THEN LeavePerformed(config, m, CallEnterCb(k, i), d)
                  ELSE CallEnterCb(k, i) = m
  <2>1. d # 0 => /\ d \in DOMAIN k.cbs /\ d # i /\ k.cbs[d].el \in DOMAIN k.els /\ k.cbs[d].stage = "delayed"
                 /\ k.cbs[d].cancelled \/ (/\ Uncalled(k, d) /\ k.cbs[d].el # k.cbs[i].el
                                           /\ (config.css \/ config.control))
    BY <1>3, <1>5, <1>6 DEF a, Uncalled
  <2> QED
    BY <1>1, <1>5, <2>1, CallEnterCbResult
<1>8. EnterCalled(config, h, m, i, x)
  <2>1. k.cbs[i].cancelled = x
    BY <1>0, <1>3
  <2>2. EnterCalled(config, k, m, i, x)
    BY <1>7, <2>1
  <2> QED
    BY <1>0, <1>2, <2>2, MarkedEnterCalled
<1>9. Good(config, m, d, X, n, z) /\ \A j \in DOMAIN m.cbs : ~m.cbs[j].called /\ LinkOf(m, j) # 0 => LinkOf(m, j) # d
  BY <1>0, <1>a, <1>8, EnterCalledGood DEF d
<1>10. Touches(h, m, e, i)
  BY <1>8 DEF EnterCalled, IsOf
<1>11. /\ m.els[e].enterCb = 0 /\ m.els[e].leaveCb = 0 /\ m.els[e].display = h.els[e].display
       /\ m.els[e].inDom = h.els[e].inDom
       /\ m.leaving = h.leaving /\ m.dirty = h.dirty
  BY <1>2, <1>8 DEF EnterCalled, IsOf
<1>12. Kept(h, m, e)
  BY <1>10, <1>11, TouchedKept
<1>13. CASE d # 0 /\ ~h.cbs[d].cancelled
  <2>1. LeavePerformed(config, m, g, d)
    BY <1>6, <1>7, <1>13
  <2>2. m.cbs[d] = h.cbs[d] /\ d \in DOMAIN m.cbs
    BY <1>6, <1>10, <1>13 DEF Touches
  <2>3. IsOf(m, d, a) /\ Uncalled(m, d)
    BY <1>6, <1>13, <2>2 DEF IsOf, Uncalled, a
  <2>4. \A j \in DOMAIN m.cbs : ~m.cbs[j].called => LinkOf(m, j) # d
    BY <1>9, <1>13
  <2>5. m.cbs[d].kind = "leave" /\ m.cbs[d].stage = "delayed"
    BY <1>6, <1>13, <2>2
  <2>6. Good(config, g, 0, X, n, z)
    BY <1>9, <2>1, <2>3, <2>4, <2>5, LeavePerformedGood
  <2>7. Touches(m, g, a, d)
    BY <2>1, <2>3 DEF LeavePerformed, IsOf
  <2>8. g.els[a].enterCb = m.els[a].enterCb /\ g.leaving = m.leaving /\ g.dirty = m.dirty
    BY <2>1, <2>3 DEF LeavePerformed, IsOf
  <2>9. Kept(m, g, e)
    BY <2>7, <2>8, TouchedKept
  <2>10. g.els[e] = m.els[e]
    BY <1>2, <1>6, <1>10, <1>13, <2>7 DEF Touches
  <2> QED
    <3>1. Stays(h, g, e)
      BY <1>11, <2>8, <2>10 DEF Stays
    <3> QED
      BY <1>11, <1>12, <2>6, <2>9, <2>10, <3>1, KeptTwice
<1>14. CASE ~(d # 0 /\ ~h.cbs[d].cancelled)
  <2>1. g = m
    BY <1>6, <1>7, <1>14
  <2>2. d # 0 => Waits(config, m, d)
    <3> SUFFICES ASSUME d # 0 PROVE Waits(config, m, d)
      OBVIOUS
    <3>1. CallbackInv(config, h, d) /\ h.cbs[d].cancelled
      BY <1>1, <1>6, <1>14 DEF CallbacksInv
    <3>2. m.cbs[d] = h.cbs[d]
      BY <1>6, <1>10 DEF Touches
    <3> QED
      BY <3>1, <3>2 DEF CallbackInv, Waits
  <2>3. Good(config, m, 0, X, n, z)
    <3>1. LinksInv(config, m, d)
      BY <1>9 DEF Good
    <3>2. LinksInv(config, m, 0)
      BY <2>2, <3>1 DEF LinksInv
    <3> QED
      BY <1>9, <3>2 DEF Good
  <2>4. Stays(h, g, e)
    BY <1>11, <2>1 DEF Stays
  <2> QED
    BY <1>11, <1>12, <2>1, <2>3, <2>4
<1> QED
  BY <1>13, <1>14

\* A leave is not cancelled in mode out-in, and does not end before its frame unless its view enters again.
MayLeave(c, h, i, r) ==
  /\ ~r.cancelled \/ ~h.cbs[i].reopens
  /\ r.cancelled \/ h.cbs[i].stage # "frame" \/ c.use = "if"

\* Where e is after callback r of its leave was called
Left(h, g, e, r) ==
  /\ ~r.cancelled /\ config.use = "show" => ~g.els[e].display
  /\ h.els[e].inDom /\ (r.cancelled => g.els[e].inDom)
  /\ \A f \in DOMAIN h.els : g.els[f].inDom => h.els[f].inDom

LeftGood(c, g, X, n, z, e, r) == IF r.cancelled THEN Good(c, g, 0, X \union {e}, n, z) ELSE Good(c, g, 0, X, n, z)

LEMMA LeaveEnds ==
  ASSUME NEW h, NEW i, NEW X, NEW n, NEW z, NEW e, IsOf(h, i, e),
         Good(config, h, 0, X, n, z), Uncalled(h, i), h.cbs[i].kind = "leave",
         NEW k, NEW r, Marked(h, k, i, r), MayLeave(config, h, i, r),
         NEW g, g = CallLeaveCb(k, i)
  PROVE  /\ LeftGood(config, g, X, n, z, e, r) /\ Kept(h, g, 0)
         /\ g.els[e].enterCb = 0 /\ g.els[e].leaveCb = 0
         /\ Left(h, g, e, r)
<1> DEFINE x == r.cancelled
           Y == IF x THEN X \union {e} ELSE X
<1>0. /\ CallbackSet(h, k, i, r) /\ SameCallback(h.cbs[i], r) /\ ~r.called /\ x \in BOOLEAN /\ r.cancelled = x
      /\ r.stage = h.cbs[i].stage \/ (h.cbs[i].stage # "delayed" /\ r.stage = "ended")
      /\ ~x => h.cbs[i].stage # "delayed"
  BY DEF Marked, CallbackType
<1>a. (~x \/ ~h.cbs[i].reopens) /\ (x \/ h.cbs[i].stage # "frame" \/ config.use = "if")
  BY DEF MayLeave
<1>b. (x => Y = X \union {e}) /\ (~x => Y = X) /\ Y = IF x THEN X \union {e} ELSE X
  OBVIOUS
<1> HIDE DEF x, Y
<1>1. h \in HeapType /\ CallbacksInv(config, h) /\ k \in HeapType
  BY <1>0 DEF Good, CallbackSet
<1>2. /\ i \in DOMAIN h.cbs /\ i # 0 /\ e \in DOMAIN h.els /\ h.els[e].leaveCb = i /\ h.els[e].enterCb = 0
  BY <1>1, UncalledFacts
<1>3. DOMAIN k.cbs = DOMAIN h.cbs /\ k.els = h.els /\ k.cbs[i] = r
  BY <1>0, <1>2 DEF CallbackSet
<1>4. r.el = e
  BY <1>0 DEF SameCallback, IsOf
<1>5. Uncalled(k, i) /\ k.cbs[i].el \in DOMAIN k.els /\ k.cbs[i].cancelled = x
  BY <1>0, <1>2, <1>3, <1>4 DEF Uncalled
<1>6. LeaveCalled(config, k, g, i, x)
  <2>1. LeaveCalled(config, k, CallLeaveCb(k, i), i, k.cbs[i].cancelled)
    BY <1>1, <1>5, CallLeaveCbResult
  <2> QED
    BY <1>5, <2>1
<1>7. LeaveCalled(config, h, g, i, x)
  BY <1>0, <1>2, <1>6, MarkedLeaveCalled
<1>8. Good(config, g, 0, Y, n, z)
  BY <1>0, <1>a, <1>b, <1>7, LeaveCalledGood
<1>9. Touches(h, g, e, i)
  BY <1>7 DEF LeaveCalled, IsOf
<1>10. /\ g.els[e].enterCb = 0 /\ h.els[e].enterCb = 0 /\ g.els[e].leaveCb = 0
       /\ g.els[e].display = (h.els[e].display /\ (x \/ config.use # "show"))
       /\ g.els[e].inDom = (h.els[e].inDom /\ (x \/ config.use = "show"))
       /\ g.leaving = (h.leaving /\ (x \/ ~h.cbs[i].reopens)) /\ g.dirty = (h.dirty \/ (h.cbs[i].reopens /\ ~x))
  BY <1>2, <1>7 DEF LeaveCalled, IsOf
<1>11. Kept(h, g, 0)
  <2>1. (g.leaving => h.leaving) /\ (h.leaving => g.leaving \/ g.dirty) /\ (h.dirty => g.dirty)
    BY <1>10
  <2>2. g.els[e].enterCb = h.els[e].enterCb
    BY <1>10
  <2> QED
    BY <1>9, <2>1, <2>2, TouchedKept
<1>12. h.els[e].inDom
  <2>1. Leaves(h, e)
    BY <1>2 DEF Leaves
  <2> QED
    BY <1>2, <2>1 DEF Good, PlacesInv
<1>13. (~x /\ config.use = "show" => ~g.els[e].display) /\ (x => g.els[e].inDom)
  BY <1>10, <1>12
<1> QED
  <2>1. Left(h, g, e, r)
    <3>1. \A f \in DOMAIN h.els : g.els[f].inDom => h.els[f].inDom
      BY <1>9, <1>12 DEF Touches
    <3> QED
      BY <1>0, <1>12, <1>13, <3>1 DEF Left
  <2> QED
    BY <1>0, <1>b, <1>8, <1>10, <1>11, <2>1 DEF LeftGood

LEMMA Widened ==
  ASSUME NEW c, NEW h, NEW d, NEW X, NEW n, NEW z, Good(c, h, d, X, n, z), NEW e \in DOMAIN h.els, ~Leaves(h, e),
         \/ c.use # "if"
         \/ h.els[e].inDom
         \/ h.els[e].classes = {} /\ \A i \in DOMAIN h.cbs : h.cbs[i].el # e
  PROVE  Good(c, h, d, X \union {e}, n, z)
<1>1. ClassesInv(c, h, X \union {e})
  <2>1. ClassesInv(c, h, X)
    BY DEF Good
  <2>2. ASSUME NEW f \in DOMAIN h.els PROVE ClassesFit(c, h, f, X \union {e})
    <3>1. ClassesFit(c, h, f, X)
      BY <2>1 DEF ClassesInv
    <3> QED
      BY <3>1 DEF ClassesFit
  <2>3. ASSUME NEW i \in DOMAIN h.cbs PROVE Unframed(c, h, i, X \union {e})
    <3>1. Unframed(c, h, i, X)
      BY <2>1 DEF ClassesInv
    <3> QED
      BY <3>1 DEF Unframed
  <2> QED
    BY <2>2, <2>3 DEF ClassesInv
<1>2. PlacesInv(c, h, X \union {e})
  <2>1. PlacesInv(c, h, X)
    BY DEF Good
  <2> QED
    BY <2>1 DEF PlacesInv
<1> QED
  BY <1>1, <1>2 DEF Good

LEMMA CancelEnterResult ==
  ASSUME InOutEnds(config), NEW h, NEW X, NEW n, NEW z, Good(config, h, 0, X, n, z),
         NEW e \in DOMAIN h.els, NEW g, g = CancelEnter(h, e)
  PROVE  /\ Good(config, g, 0, X, n, z) /\ Kept(h, g, e)
         /\ g.els[e].enterCb = 0 /\ g.els[e].leaveCb = h.els[e].leaveCb /\ g.els[e].display = h.els[e].display
         /\ Stays(h, g, e)
<1> DEFINE i == h.els[e].enterCb
           k == [h EXCEPT !.cbs[i].cancelled = TRUE]
<1>1. CASE i = 0
  <2>1. g = h
    BY <1>1 DEF CancelEnter
  <2>2. Kept(h, h, e) /\ Stays(h, h, e)
    BY DEF Kept, SameCallback, Stays
  <2> QED
    BY <1>1, <2>1, <2>2
<1>2. CASE i # 0
  <2>1. g = CallEnterCb(k, i)
    BY <1>2 DEF CancelEnter
  <2>2. CallbacksOf(h, e) /\ h \in HeapType
    BY DEF Good, CallbacksInv
  <2>3. Uncalled(h, i) /\ h.cbs[i].kind = "enter" /\ IsOf(h, i, e) /\ h.els[e].leaveCb = 0
    BY <1>2, <2>2 DEF CallbacksOf, IsOf
  <2> DEFINE r == [h.cbs[i] EXCEPT !.cancelled = TRUE]
  <2> HIDE DEF i, k
  <2>4. i \in DOMAIN h.cbs
    BY <2>3 DEF Uncalled
  <2>5. CallbackSet(h, [h EXCEPT !.cbs[i].cancelled = TRUE], i, r) /\ h.cbs[i] \in CallbackType
    BY <2>2, <2>4, CallbackChanges
  <2>6. CallbackSet(h, k, i, r)
    BY <2>5 DEF k
  <2>7. Marked(h, k, i, r) /\ r.cancelled
    <3>1. SameCallback(h.cbs[i], r) /\ ~r.called /\ r.cancelled /\ r.stage = h.cbs[i].stage /\ r \in CallbackType
      BY <2>3, <2>5 DEF SameCallback, CallbackType, Uncalled
    <3> HIDE DEF r
    <3> QED
      BY <2>6, <3>1 DEF Marked
  <2> HIDE DEF r
  <2>8. /\ Good(config, g, 0, X, n, z) /\ Kept(h, g, e)
        /\ g.els[e].enterCb = 0 /\ g.els[e].leaveCb = 0 /\ g.els[e].display = h.els[e].display
        /\ Stays(h, g, e)
    BY <2>1, <2>3, <2>7, EnterEnds
  <2> QED
    BY <2>3, <2>8
<1> QED
  BY <1>1, <1>2

LEMMA CancelLeaveResult ==
  ASSUME NEW h, NEW X, NEW n, NEW z, Good(config, h, 0, X, n, z), NEW e \in DOMAIN h.els,
         \A j \in DOMAIN h.cbs : h.cbs[j].reopens => h.cbs[j].called,
         \/ config.use # "if"
         \/ h.els[e].inDom
         \/ h.els[e].classes = {} /\ \A j \in DOMAIN h.cbs : h.cbs[j].el # e,
         NEW g, g = CancelLeave(h, e)
  PROVE  /\ Good(config, g, 0, X \union {e}, n, z) /\ Kept(h, g, 0)
         /\ g.els[e].enterCb = h.els[e].enterCb /\ g.els[e].leaveCb = 0
<1> DEFINE i == h.els[e].leaveCb
           k == [h EXCEPT !.cbs[i].cancelled = TRUE]
<1>1. CASE i = 0
  <2>1. g = h
    BY <1>1 DEF CancelLeave
  <2>2. Kept(h, h, 0)
    BY DEF Kept, SameCallback
  <2>3. ~Leaves(h, e)
    BY <1>1 DEF Leaves
  <2>4. Good(config, h, 0, X \union {e}, n, z)
    BY <2>3, Widened
  <2> QED
    BY <1>1, <2>1, <2>2, <2>4
<1>2. CASE i # 0
  <2>1. g = CallLeaveCb(k, i)
    BY <1>2 DEF CancelLeave
  <2>2. CallbacksOf(h, e) /\ h \in HeapType
    BY DEF Good, CallbacksInv
  <2>3. Uncalled(h, i) /\ h.cbs[i].kind = "leave" /\ IsOf(h, i, e) /\ h.els[e].enterCb = 0
    BY <1>2, <2>2 DEF CallbacksOf, IsOf
  <2> DEFINE r == [h.cbs[i] EXCEPT !.cancelled = TRUE]
  <2> HIDE DEF i, k
  <2>4. i \in DOMAIN h.cbs /\ ~h.cbs[i].reopens
    BY <2>3 DEF Uncalled
  <2>5. CallbackSet(h, [h EXCEPT !.cbs[i].cancelled = TRUE], i, r) /\ h.cbs[i] \in CallbackType
    BY <2>2, <2>4, CallbackChanges
  <2>6. CallbackSet(h, k, i, r)
    BY <2>5 DEF k
  <2>7. Marked(h, k, i, r) /\ r.cancelled
    <3>1. SameCallback(h.cbs[i], r) /\ ~r.called /\ r.cancelled /\ r.stage = h.cbs[i].stage /\ r \in CallbackType
      BY <2>3, <2>5 DEF SameCallback, CallbackType, Uncalled
    <3> HIDE DEF r
    <3> QED
      BY <2>6, <3>1 DEF Marked
  <2> HIDE DEF r
  <2>8. /\ Good(config, g, 0, X \union {e}, n, z) /\ Kept(h, g, 0)
        /\ g.els[e].enterCb = 0 /\ g.els[e].leaveCb = 0
    <3>1. MayLeave(config, h, i, r)
      BY <2>4, <2>7 DEF MayLeave
    <3>3. /\ LeftGood(config, g, X, n, z, e, r) /\ Kept(h, g, 0)
          /\ g.els[e].enterCb = 0 /\ g.els[e].leaveCb = 0
      BY <2>1, <2>3, <2>7, <3>1, LeaveEnds
    <3> QED
      BY <2>7, <3>3 DEF LeftGood
  <2> QED
    BY <2>3, <2>8
<1> QED
  BY <1>1, <1>2

-----------------------------------------------------------------------------
\* From h to g a callback is made, of element e, which is in no transition.
Made(h, g, e, id, cb) ==
  /\ h \in HeapType /\ g \in HeapType /\ e \in DOMAIN h.els /\ h.els[e].enterCb = 0 /\ h.els[e].leaveCb = 0
  /\ id \notin DOMAIN h.cbs /\ id \in Nat /\ id # 0
  /\ DOMAIN g.cbs = DOMAIN h.cbs \union {id} /\ g.cbs[id] = cb
  /\ \A j \in DOMAIN h.cbs : g.cbs[j] = h.cbs[j]
  /\ DOMAIN g.els = DOMAIN h.els /\ \A f \in DOMAIN h.els : f # e => g.els[f] = h.els[f]
  /\ g.els[e].key = h.els[e].key /\ g.els[e].inDom = h.els[e].inDom
  /\ g.cur = h.cur /\ g.shown = h.shown /\ g.mounted = h.mounted
  /\ g.pending = h.pending /\ g.leaving = h.leaving /\ g.dirty = h.dirty

LEMMA MadeElsewhere ==
  ASSUME NEW c, NEW h, NEW g, NEW e, NEW id, NEW cb, CallbacksInv(c, h), Made(h, g, e, id, cb)
  PROVE  /\ \A f \in DOMAIN h.els : f # e =>
              /\ g.els[f] = h.els[f] /\ CallbacksOf(g, f)
              /\ InEnter(g, f) <=> InEnter(h, f)
              /\ Leaves(g, f) <=> Leaves(h, f)
              /\ Delayed(g, f) <=> Delayed(h, f)
              /\ ClassesOf(g, f) = ClassesOf(h, f)
         /\ \A j \in DOMAIN h.cbs : g.cbs[j] = h.cbs[j] /\ CallbackInv(c, g, j)
<1>0. /\ DOMAIN g.cbs = DOMAIN h.cbs \union {id} /\ \A j \in DOMAIN h.cbs : g.cbs[j] = h.cbs[j] /\ j # 0
      /\ DOMAIN g.els = DOMAIN h.els
  BY DEF Made, HeapType
<1>9. ASSUME NEW f \in DOMAIN h.els, f # e
      PROVE  /\ g.els[f] = h.els[f] /\ CallbacksOf(g, f)
             /\ InEnter(g, f) <=> InEnter(h, f)
             /\ Leaves(g, f) <=> Leaves(h, f)
             /\ Delayed(g, f) <=> Delayed(h, f)
             /\ ClassesOf(g, f) = ClassesOf(h, f)
  <2>1. g.els[f] = h.els[f]
    BY <1>9 DEF Made
  <2>2. CallbacksOf(h, f)
    BY DEF CallbacksInv
  <2>3. /\ h.els[f].enterCb # 0 => h.els[f].enterCb \in DOMAIN h.cbs /\ g.cbs[h.els[f].enterCb] = h.cbs[h.els[f].enterCb]
        /\ h.els[f].leaveCb # 0 => h.els[f].leaveCb \in DOMAIN h.cbs /\ g.cbs[h.els[f].leaveCb] = h.cbs[h.els[f].leaveCb]
    BY <1>0, <2>2 DEF CallbacksOf, Uncalled
  <2>4. CallbacksOf(g, f)
    BY <1>0, <2>1, <2>2, <2>3 DEF CallbacksOf, Uncalled
  <2>5. (InEnter(g, f) <=> InEnter(h, f)) /\ (Leaves(g, f) <=> Leaves(h, f))
    BY <2>1 DEF InEnter, Leaves
  <2>6. Delayed(g, f) <=> Delayed(h, f)
    BY <2>1, <2>3 DEF Leaves, Delayed
  <2>7. ClassesOf(g, f) = ClassesOf(h, f)
    BY <2>1, <2>3, <2>5, <2>6 DEF ClassesOf, InEnter, Leaves
  <2> QED
    BY <2>1, <2>4, <2>5, <2>6, <2>7
<1>10. ASSUME NEW j \in DOMAIN h.cbs PROVE CallbackInv(c, g, j)
  <2>1. CallbackInv(c, h, j) /\ g.cbs[j] = h.cbs[j] /\ j # 0
    BY <1>0 DEF CallbacksInv
  <2>2. CASE h.cbs[j].el # e
    <3>1. h.cbs[j].el \in DOMAIN h.els
      BY <2>1 DEF CallbackInv
    <3>2. g.els[h.cbs[j].el] = h.els[h.cbs[j].el]
      BY <2>2, <3>1 DEF Made
    <3> QED
      BY <1>0, <2>1, <3>2 DEF CallbackInv
  <2>3. CASE h.cbs[j].el = e
    <3>1. h.els[e].enterCb = 0 /\ h.els[e].leaveCb = 0
      BY DEF Made
    <3>2. h.cbs[j].called
      BY <2>1, <2>3, <3>1 DEF CallbackInv
    <3> QED
      BY <1>0, <2>1, <2>3, <3>2 DEF CallbackInv
  <2> QED
    BY <2>2, <2>3
<1> QED
  BY <1>0, <1>9, <1>10

\* What has to do with neither callbacks nor classes
LEMMA MadePlaces ==
  ASSUME NEW c, NEW h, NEW g, NEW e, NEW id, NEW cb, Made(h, g, e, id, cb), CallbacksInv(c, h)
  PROVE  /\ Len(g.els) = Len(h.els) /\ DOMAIN g.els = DOMAIN h.els /\ g.cur = h.cur /\ g.pending = h.pending
         /\ g.leaving = h.leaving
         /\ \A f \in DOMAIN h.els : g.els[f].key = h.els[f].key /\ g.els[f].inDom = h.els[f].inDom
         /\ ~InEnter(h, e) /\ ~Leaves(h, e) /\ ~Delayed(h, e) /\ ClassesOf(h, e) = {}
         /\ \A j \in DOMAIN h.cbs : h.cbs[j].el = e => h.cbs[j].called
<1>1. /\ Len(g.els) = Len(h.els) /\ DOMAIN g.els = DOMAIN h.els /\ g.cur = h.cur /\ g.pending = h.pending
      /\ g.leaving = h.leaving
  BY DEF Made, HeapType
<1>2. \A f \in DOMAIN h.els : g.els[f].key = h.els[f].key /\ g.els[f].inDom = h.els[f].inDom
  BY DEF Made
<1>3. h.els[e].enterCb = 0 /\ h.els[e].leaveCb = 0
  BY DEF Made
<1>4. ~InEnter(h, e) /\ ~Leaves(h, e) /\ ~Delayed(h, e) /\ ClassesOf(h, e) = {}
  BY <1>3 DEF InEnter, Leaves, Delayed, ClassesOf
<1>5. ASSUME NEW j \in DOMAIN h.cbs, h.cbs[j].el = e PROVE h.cbs[j].called
  <2>1. CallbackInv(c, h, j) /\ j # 0
    BY DEF CallbacksInv, Made, HeapType
  <2> QED
    BY <1>3, <1>5, <2>1 DEF CallbackInv
<1> QED
  BY <1>1, <1>2, <1>4, <1>5

\* enter begins a transition of e.
EnterStarted(c, h, g, e, id, l) ==
  /\ Made(h, g, e, id, Callback("enter", e, l, FALSE, IF c.css THEN "frame" ELSE "user"))
  /\ g.els[e].enterCb = id /\ g.els[e].leaveCb = 0
  /\ g.els[e].hooks = Append(h.els[e].hooks, "beforeEnter")
  /\ g.els[e].classes = IF c.css THEN h.els[e].classes \union {"enter", "enter-active"} ELSE h.els[e].classes
  /\ g.links = h.links

\* A closure that nothing has been put into
Fresh(h, l) ==
  l = 0 \/ (l \in DOMAIN h.links /\ h.links[l] = 0 /\ \A j \in DOMAIN h.cbs : h.cbs[j].link # l)

LEMMA EnterStartedGood ==
  ASSUME NEW c, NEW h, NEW g, NEW e, NEW id, NEW l, NEW X, NEW n, NEW z, Good(c, h, 0, X, n, z),
         EnterStarted(c, h, g, e, id, l), Fresh(h, l), e \in X \union {h.cur}
  PROVE  Good(c, g, 0, X, n, z)
<1> DEFINE stage == IF c.css THEN "frame" ELSE "user"
           b == Callback("enter", e, l, FALSE, stage)
<1>1. Made(h, g, e, id, b) /\ g.links = h.links
  BY DEF EnterStarted
<1>2. /\ b.kind = "enter" /\ b.el = e /\ b.link = l /\ ~b.reopens /\ ~b.called /\ ~b.cancelled /\ b.stage = stage
  BY DEF Callback
<1> HIDE DEF b
<1>3. h \in HeapType /\ CallbacksInv(c, h) /\ g \in HeapType
  BY <1>1 DEF Good, Made
<1>4. /\ e \in DOMAIN h.els /\ id \notin DOMAIN h.cbs /\ id \in Nat /\ id # 0
      /\ DOMAIN g.cbs = DOMAIN h.cbs \union {id} /\ g.cbs[id] = b
      /\ DOMAIN g.els = DOMAIN h.els
  BY <1>1 DEF Made
<1>5. /\ \A f \in DOMAIN h.els : f # e =>
            /\ g.els[f] = h.els[f] /\ CallbacksOf(g, f)
            /\ InEnter(g, f) <=> InEnter(h, f)
            /\ Leaves(g, f) <=> Leaves(h, f)
            /\ Delayed(g, f) <=> Delayed(h, f)
            /\ ClassesOf(g, f) = ClassesOf(h, f)
      /\ \A j \in DOMAIN h.cbs : g.cbs[j] = h.cbs[j] /\ CallbackInv(c, g, j)
  BY <1>1, <1>3, MadeElsewhere
<1>6. /\ Len(g.els) = Len(h.els) /\ g.cur = h.cur /\ g.pending = h.pending /\ g.leaving = h.leaving
      /\ \A f \in DOMAIN h.els : g.els[f].key = h.els[f].key /\ g.els[f].inDom = h.els[f].inDom
      /\ ~InEnter(h, e) /\ ~Leaves(h, e) /\ ~Delayed(h, e) /\ ClassesOf(h, e) = {}
      /\ \A j \in DOMAIN h.cbs : h.cbs[j].el = e => h.cbs[j].called
  BY <1>1, <1>3, MadePlaces
<1>7. /\ g.els[e].enterCb = id /\ g.els[e].leaveCb = 0
      /\ g.els[e].hooks = Append(h.els[e].hooks, "beforeEnter")
      /\ g.els[e].classes = IF c.css THEN h.els[e].classes \union {"enter", "enter-active"} ELSE h.els[e].classes
  BY DEF EnterStarted
<1>8. InEnter(g, e) /\ ~Leaves(g, e) /\ ~Delayed(g, e)
  BY <1>4, <1>7 DEF InEnter, Leaves, Delayed
<1>9. ClassesOf(g, e) = IF c.css THEN {"enter", "enter-active"} ELSE {"enter-to", "enter-active"}
  BY <1>2, <1>4, <1>7, <1>8 DEF ClassesOf
<1>10. \A f \in DOMAIN h.els : (Leaves(g, f) <=> Leaves(h, f)) /\ (Delayed(g, f) <=> Delayed(h, f))
  BY <1>5, <1>6, <1>8
<1>11. CallbacksInv(c, g)
  <2>1. CallbacksOf(g, e)
    BY <1>2, <1>4, <1>7 DEF CallbacksOf, Uncalled
  <2>2. CallbackInv(c, g, id)
    BY <1>2, <1>4, <1>7 DEF CallbackInv
  <2> QED
    BY <1>4, <1>5, <2>1, <2>2 DEF CallbacksInv
<1>12. HooksInv(c, g)
  <2>1. HookInv(c, h, e)
    BY <1>4 DEF Good, HooksInv
  <2>2. ASSUME NEW f \in DOMAIN h.els, f # e PROVE HookInv(c, g, f)
    <3>1. HookInv(c, h, f)
      BY DEF Good, HooksInv
    <3> QED
      BY <1>5, <2>2, <3>1 DEF HookInv
  <2>3. HookInv(c, g, e)
    <3> DEFINE s == h.els[e].hooks
    <3>1. LastHook(s) # "beforeEnter" /\ LastHook(s) # "beforeLeave" /\ PairsUp(c, s)
      BY <1>6, <2>1 DEF HookInv
    <3>2. s \in Seq(Hooks) /\ "beforeEnter" \in Hooks
      BY Zenon, <1>3, <1>4, ElementChanges DEF ElementType, Hooks
    <3> HIDE DEF s
    <3>3. PairsUp(c, Append(s, "beforeEnter")) /\ LastHook(Append(s, "beforeEnter")) = "beforeEnter"
      BY <3>1, <3>2, HookAppended
    <3>4. g.els[e].hooks = Append(s, "beforeEnter")
      BY <1>7 DEF s
    <3> QED
      BY <1>8, <3>3, <3>4 DEF HookInv
  <2> QED
    BY <1>4, <2>2, <2>3 DEF HooksInv
<1>13. LinksInv(c, g, 0)
  <2>1. Closures(h) /\ (\A j \in DOMAIN h.cbs : Holds(h, j)) /\ (\A j \in DOMAIN h.cbs \ {0} : Waits(c, h, j))
    BY DEF Good, LinksInv
  <2>2. h.links \in Seq(Nat) /\ 0 \notin DOMAIN h.cbs
    BY <1>3 DEF HeapType
  <2>3. l \in 0 .. Len(h.links) /\ (l # 0 => h.links[l] = 0 /\ \A j \in DOMAIN h.cbs : h.cbs[j].link # l)
    BY <2>2 DEF Fresh
  <2>4. Closures(g)
    <3>1. \A j \in DOMAIN h.cbs : g.cbs[j] = h.cbs[j]
      BY <1>5
    <3>2. \A i \in DOMAIN g.cbs : g.cbs[i].link \in 0 .. Len(g.links)
      BY <1>1, <1>2, <1>4, <2>1, <2>3, <3>1 DEF Closures
    <3>3. \A i, j \in DOMAIN g.cbs : g.cbs[i].link = g.cbs[j].link /\ g.cbs[i].link # 0 => i = j
      BY <1>1, <1>2, <1>4, <2>1, <2>3, <3>1 DEF Closures
    <3>4. \A m \in DOMAIN g.links : g.links[m] # 0 => g.links[m] \in DOMAIN g.cbs /\ g.cbs[g.links[m]].kind = "leave"
      BY <1>1, <1>4, <2>1, <3>1 DEF Closures
    <3> QED
      BY <1>1, <2>1, <3>2, <3>3, <3>4 DEF Closures
  <2>5. LinkOf(g, id) = 0 /\ \A j \in DOMAIN h.cbs : LinkOf(g, j) = LinkOf(h, j)
    BY <1>1, <1>2, <1>4, <1>5, <2>3 DEF LinkOf
  <2>6. ASSUME NEW j \in DOMAIN h.cbs, LinkOf(h, j) # 0 PROVE LinkOf(h, j) \in DOMAIN h.cbs
    <3>1. h.cbs[j].link \in DOMAIN h.links /\ h.links[h.cbs[j].link] # 0 /\ LinkOf(h, j) = h.links[h.cbs[j].link]
      BY <2>1, <2>2, <2>6 DEF Closures, LinkOf
    <3> QED
      BY <2>1, <3>1 DEF Closures
  <2>7. ASSUME NEW j \in DOMAIN h.cbs PROVE Holds(g, j)
    <3>1. Holds(h, j) /\ g.cbs[j] = h.cbs[j] /\ LinkOf(g, j) = LinkOf(h, j)
      BY <1>5, <2>1, <2>5
    <3>2. LinkOf(h, j) # 0 => g.cbs[LinkOf(h, j)] = h.cbs[LinkOf(h, j)]
      BY <1>5, <2>6
    <3> QED
      BY <3>1, <3>2 DEF Holds
  <2>8. Holds(g, id)
    BY <2>5 DEF Holds
  <2>9. ASSUME NEW j \in DOMAIN h.cbs PROVE Waits(c, g, j)
    <3> SUFFICES ASSUME ~g.cbs[j].called, g.cbs[j].stage = "delayed"
                 PROVE  c.mode = "in-out" /\ \E k \in DOMAIN g.cbs : ~g.cbs[k].called /\ LinkOf(g, k) = j
      BY DEF Waits
    <3>1. ~h.cbs[j].called /\ h.cbs[j].stage = "delayed"
      BY <1>5
    <3>2. c.mode = "in-out" /\ \E k \in DOMAIN h.cbs : ~h.cbs[k].called /\ LinkOf(h, k) = j
      BY <2>1, <2>2, <3>1 DEF Waits
    <3>3. PICK k \in DOMAIN h.cbs : ~h.cbs[k].called /\ LinkOf(h, k) = j
      BY <3>2
    <3>4. k \in DOMAIN g.cbs /\ ~g.cbs[k].called /\ LinkOf(g, k) = j
      BY <1>4, <1>5, <2>5, <3>3
    <3> QED
      BY <3>2, <3>4
  <2>10. Waits(c, g, id)
    BY <1>2, <1>4 DEF Waits
  <2> QED
    BY <1>4, <2>4, <2>7, <2>8, <2>9, <2>10 DEF LinksInv
<1>14. ClassesInv(c, g, X)
  <2>1. ASSUME NEW f \in DOMAIN h.els PROVE ClassesFit(c, g, f, X)
    <3>1. ClassesFit(c, h, f, X)
      BY DEF Good, ClassesInv
    <3>2. CASE f # e
      BY <1>5, <3>1, <3>2 DEF ClassesFit
    <3>3. CASE f = e
      BY <1>6, <1>7, <1>9, <3>1, <3>3 DEF ClassesFit
    <3> QED
      BY <3>2, <3>3
  <2>2. ASSUME NEW j \in DOMAIN h.cbs PROVE Unframed(c, g, j, X)
    <3>1. Unframed(c, h, j, X) /\ CallbackInv(c, h, j)
      BY <1>3 DEF Good, ClassesInv, CallbacksInv
    <3>2. h.cbs[j].el \in DOMAIN h.els
      BY <3>1 DEF CallbackInv
    <3> QED
      BY <1>5, <1>6, <3>1, <3>2 DEF Unframed
  <2>3. Unframed(c, g, id, X)
    BY <1>2, <1>4 DEF Unframed
  <2> QED
    BY <1>4, <2>1, <2>2, <2>3 DEF ClassesInv
<1>15. PlacesInv(c, g, X)
  <2>1. PlacesInv(c, h, X)
    BY DEF Good
  <2>2. \A f \in DOMAIN h.els : InEnter(g, f) => InEnter(h, f) \/ f \in X \union {h.cur}
    BY <1>5
  <2> QED
    BY <1>4, <1>6, <1>10, <2>1, <2>2 DEF PlacesInv
<1>16. KeysInv(c, g, n)
  <2>1. KeysInv(c, h, n)
    BY DEF Good
  <2> QED
    BY <1>4, <1>6, <1>10, <2>1 DEF KeysInv
<1>17. PendingInv(c, g)
  <2>1. PendingInv(c, h)
    BY DEF Good
  <2> QED
    BY <1>4, <1>6, <1>10, <2>1 DEF PendingInv
<1>18. OutInInv(g, z)
  <2>1. OutInInv(h, z)
    BY DEF Good
  <2>2. \A j \in DOMAIN h.cbs : g.cbs[j] = h.cbs[j]
    BY <1>5
  <2> QED
    BY <1>2, <1>4, <1>6, <2>1, <2>2 DEF OutInInv
<1> QED
  BY <1>3, <1>11, <1>12, <1>13, <1>14, <1>15, <1>16, <1>17, <1>18 DEF Good

SamePlace(r, s) == r.key = s.key /\ r.inDom = s.inDom

WithCallback(h, b, e, r, E) == [h EXCEPT !.cbs = Append(@, b), !.els[e] = r, !.entered = E]

LEMMA MadeResult ==
  ASSUME NEW h \in HeapType, NEW e \in DOMAIN h.els, h.els[e].enterCb = 0, h.els[e].leaveCb = 0,
         NEW b \in CallbackType, NEW r \in ElementType, SamePlace(r, h.els[e]),
         NEW E \in Nat, NEW g, g = WithCallback(h, b, e, r, E)
  PROVE  Made(h, g, e, NextCb(h), b) /\ g.els[e] = r /\ g.links = h.links /\ g.entered = E
<1> DEFINE s == [h.els EXCEPT ![e] = r]
           t == Append(h.cbs, b)
<1>1. h.els \in Seq(ElementType) /\ h.cbs \in Seq(CallbackType)
  BY DEF HeapType
<1>2. s \in Seq(ElementType) /\ DOMAIN s = DOMAIN h.els /\ \A f \in DOMAIN h.els : s[f] = IF f = e THEN r ELSE h.els[f]
  BY <1>1
<1>3. /\ t \in Seq(CallbackType) /\ Len(t) = Len(h.cbs) + 1 /\ Len(h.cbs) \in Nat /\ DOMAIN h.cbs = 1 .. Len(h.cbs)
      /\ DOMAIN t = 1 .. Len(h.cbs) + 1 /\ t[Len(h.cbs) + 1] = b /\ \A j \in 1 .. Len(h.cbs) : t[j] = h.cbs[j]
  BY <1>1
<1>4. /\ NextCb(h) \notin DOMAIN h.cbs /\ NextCb(h) \in Nat /\ NextCb(h) # 0
      /\ DOMAIN t = DOMAIN h.cbs \union {NextCb(h)} /\ t[NextCb(h)] = b /\ \A j \in DOMAIN h.cbs : t[j] = h.cbs[j]
  BY <1>3 DEF NextCb
<1>5. g = [h EXCEPT !.cbs = t, !.els = s, !.entered = E]
  BY DEF WithCallback
<1> HIDE DEF s, t
<1>6. /\ g \in HeapType /\ g.els = s /\ g.cbs = t /\ g.links = h.links /\ g.entered = E
      /\ g.cur = h.cur /\ g.shown = h.shown /\ g.mounted = h.mounted
      /\ g.pending = h.pending /\ g.leaving = h.leaving /\ g.dirty = h.dirty
  BY <1>2, <1>3, <1>5 DEF HeapType
<1>7. g.els[e] = r
  BY <1>2, <1>6
<1> QED
  BY <1>2, <1>4, <1>6, <1>7 DEF Made, SamePlace

LEMMA MadeThenSet ==
  ASSUME NEW h, NEW k, NEW g, NEW e, NEW id, NEW b, NEW r, Made(h, k, e, id, b), ElementSet(k, g, e, r),
         SamePlace(r, k.els[e])
  PROVE  Made(h, g, e, id, b) /\ g.els[e] = r /\ g.links = k.links /\ g.entered = k.entered
<1>1. /\ g \in HeapType /\ DOMAIN g.els = DOMAIN k.els /\ e \in DOMAIN h.els /\ DOMAIN k.els = DOMAIN h.els
      /\ \A f \in DOMAIN k.els : g.els[f] = IF f = e THEN r ELSE k.els[f]
      /\ g.cbs = k.cbs /\ Others(g) = Others(k)
      /\ g.pending = k.pending /\ g.leaving = k.leaving /\ g.dirty = k.dirty
  BY DEF ElementSet, Made
<1>2. g.els[e] = r /\ g.links = k.links /\ g.entered = k.entered
  BY <1>1 DEF Others
<1>3. Made(h, g, e, id, b)
  BY <1>1, <1>2 DEF Made, Others, SamePlace
<1> QED
  BY <1>2, <1>3

\* What StartEnter makes, before the transition ends at once if nobody can end it later
LEMMA StartEnterResult ==
  ASSUME NEW h \in HeapType, NEW e \in DOMAIN h.els, h.els[e].enterCb = 0, h.els[e].leaveCb = 0, NEW l \in Nat
  PROVE  \E m : /\ EnterStarted(config, h, m, e, NextCb(h), l)
                /\ m.entered = IF config.use = "show" THEN h.entered ELSE e
                /\ config.use = "show" => m.els[e].display
                /\ StartEnter(h, e, l) = IF ~config.css /\ ~config.control THEN CallEnterCb(m, NextCb(h)) ELSE m
<1> DEFINE id == NextCb(h)
           stage == IF config.css THEN "frame" ELSE "user"
           b == Callback("enter", e, l, FALSE, stage)
           E == IF config.use = "show" THEN h.entered ELSE e
           r0 == [h.els[e] EXCEPT !.enterCb = id]
           h0 == [h EXCEPT !.cbs = Append(@, b), !.els[e] = r0, !.entered = E]
           h1 == Hook(h0, e, "beforeEnter")
           h2 == IF config.css THEN AddClasses(h1, e, {"enter", "enter-active"}) ELSE h1
           h3 == IF config.use = "show" THEN [h2 EXCEPT !.els[e].display = TRUE] ELSE h2
<1>1. StartEnter(h, e, l) = IF ~config.css /\ ~config.control THEN CallEnterCb(h3, id) ELSE h3
  <2>1. h0 = [h EXCEPT !.cbs = Append(@, b), !.els[e].enterCb = id, !.entered = IF ShowUse THEN @ ELSE e]
    BY DEF ShowUse
  <2> HIDE DEF h0
  <2> QED
    BY <2>1 DEF StartEnter, ShowUse
<1>2. h.els[e] \in ElementType /\ e \in Nat /\ Len(h.cbs) \in Nat /\ id \in Nat /\ E \in Nat
  <2>1. e \in Nat /\ Len(h.cbs) \in Nat /\ h.entered \in Nat
    BY DEF HeapType
  <2>2. h.els[e] \in ElementType
    BY Zenon, ElementChanges
  <2>3. id \in Nat
    BY <2>1 DEF NextCb
  <2> HIDE DEF id
  <2> QED
    BY <2>1, <2>2, <2>3
<1>3. b \in CallbackType
  BY <1>2 DEF Callback, CallbackType, Running
<1>4. /\ r0 \in ElementType /\ SamePlace(r0, h.els[e]) /\ r0.hooks = h.els[e].hooks
      /\ r0.classes = h.els[e].classes /\ r0.enterCb = id /\ r0.leaveCb = 0
  BY <1>2 DEF ElementType, SamePlace
<1> HIDE DEF b, r0, E, id
<1>22. h0 = WithCallback(h, b, e, r0, E)
  BY DEF WithCallback
<1> HIDE DEF h0
<1>5. Made(h, h0, e, id, b) /\ h0.els[e] = r0 /\ h0.links = h.links /\ h0.entered = E
  BY <1>2, <1>3, <1>4, <1>22, MadeResult DEF id
<1>6. h0 \in HeapType /\ e \in DOMAIN h0.els
  BY <1>5 DEF Made
<1> DEFINE r1 == [r0 EXCEPT !.hooks = Append(@, "beforeEnter")]
<1>7. ElementSet(h0, h1, e, r1)
  BY Zenon, <1>5, <1>6, ElementChanges DEF Hooks
<1> HIDE DEF h1
<1>8. h1 \in HeapType /\ e \in DOMAIN h1.els /\ h1.els[e] = r1
  BY <1>6, <1>7 DEF ElementSet
<1>9. /\ r1 \in ElementType /\ SamePlace(r1, r0) /\ r1.hooks = Append(r0.hooks, "beforeEnter")
      /\ r1.classes = r0.classes /\ r1.enterCb = r0.enterCb /\ r1.leaveCb = r0.leaveCb
  <2>0. h1.els[e] \in ElementType
    BY Zenon, <1>8, ElementChanges
  <2>1. r1 \in ElementType
    BY <1>8, <2>0
  <2> QED
    BY <1>4, <2>1 DEF ElementType, SamePlace, r1
<1> HIDE DEF r1
<1>10. Made(h, h1, e, id, b) /\ h1.links = h.links /\ h1.entered = E
  <2>1. SamePlace(r1, h0.els[e])
    BY <1>5, <1>9
  <2>2. Made(h, h0, e, id, b)
    BY <1>5
  <2>3. Made(h, h1, e, id, b) /\ h1.links = h0.links /\ h1.entered = h0.entered
    BY <1>7, <2>1, <2>2, MadeThenSet
  <2> QED
    BY <1>5, <2>3
<1> DEFINE C == IF config.css THEN r1.classes \union {"enter", "enter-active"} ELSE r1.classes
           r2 == [r1 EXCEPT !.classes = C]
<1>11. ElementSet(h1, h2, e, r2)
  <2>1. CASE config.css
    BY Zenon, <1>8, <2>1, ElementChanges DEF Classes
  <2>2. CASE ~config.css
    <3>1. r2 = r1
      BY <1>9, <2>2 DEF ElementType
    <3> QED
      BY <1>8, <2>2, <3>1 DEF ElementSet
  <2> QED
    BY <2>1, <2>2
<1> HIDE DEF h2, C
<1>12. h2 \in HeapType /\ e \in DOMAIN h2.els /\ h2.els[e] = r2
  BY <1>8, <1>11 DEF ElementSet
<1>13. /\ r2 \in ElementType /\ SamePlace(r2, r1) /\ r2.hooks = r1.hooks
       /\ r2.classes = C /\ r2.enterCb = r1.enterCb /\ r2.leaveCb = r1.leaveCb
  <2>0. h2.els[e] \in ElementType
    BY Zenon, <1>12, ElementChanges
  <2>1. r2 \in ElementType
    BY <1>12, <2>0
  <2> QED
    BY <1>9, <2>1 DEF ElementType, SamePlace
<1> HIDE DEF r2
<1>14. Made(h, h2, e, id, b) /\ h2.links = h.links /\ h2.entered = E
  BY <1>10, <1>11, <1>13, <1>8, MadeThenSet
<1> DEFINE r3 == IF config.use = "show" THEN [r2 EXCEPT !.display = TRUE] ELSE r2
<1>15. /\ r3 \in ElementType /\ SamePlace(r3, r2) /\ r3.hooks = r2.hooks
       /\ r3.classes = r2.classes /\ r3.enterCb = r2.enterCb /\ r3.leaveCb = r2.leaveCb
       /\ config.use = "show" => r3.display
  BY <1>13 DEF ElementType, SamePlace
<1>16. ElementSet(h2, h3, e, r3)
  <2>1. CASE config.use = "show"
    <3>1. h3 = [h2 EXCEPT !.els[e] = [r2 EXCEPT !.display = TRUE]]
      BY <1>12, <2>1
    <3>2. r3 = [r2 EXCEPT !.display = TRUE]
      BY <2>1
    <3> HIDE DEF h3, r3
    <3> QED
      BY <1>12, <1>15, <3>1, <3>2, SetElement
  <2>2. CASE config.use # "show"
    BY <1>12, <2>2 DEF ElementSet
  <2> QED
    BY <2>1, <2>2
<1> HIDE DEF h3, r3
<1>17. Made(h, h3, e, id, b) /\ h3.links = h.links /\ h3.entered = E /\ h3.els[e] = r3
  BY <1>12, <1>14, <1>15, <1>16, MadeThenSet
<1>18. EnterStarted(config, h, h3, e, id, l)
  <2>1. r3.enterCb = id /\ r3.leaveCb = 0 /\ r3.hooks = Append(h.els[e].hooks, "beforeEnter")
    BY <1>4, <1>9, <1>13, <1>15
  <2>2. r3.classes = IF config.css THEN h.els[e].classes \union {"enter", "enter-active"} ELSE h.els[e].classes
    BY <1>4, <1>9, <1>13, <1>15 DEF C
  <2> QED
    BY <1>17, <2>1, <2>2 DEF EnterStarted, b
<1>19. h3.entered = (IF config.use = "show" THEN h.entered ELSE e) /\ (config.use = "show" => h3.els[e].display)
  BY <1>15, <1>17 DEF E
<1> QED
  BY <1>1, <1>18, <1>19 DEF id

\* What enter of e leaves as it is, and what it makes of e
Entered(c, h, g, e, l) ==
  /\ DOMAIN g.els = DOMAIN h.els /\ \A f \in DOMAIN h.els : g.els[f].key = h.els[f].key
  /\ g.links = h.links /\ g.cur = h.cur /\ g.shown = h.shown /\ g.mounted = h.mounted
  /\ (g.leaving => h.leaving) /\ (h.leaving => g.leaving \/ g.dirty) /\ (h.dirty => g.dirty)
  /\ h.mounted /\ ~InEnter(h, e) /\ c.use # "show" => g.entered = e
  /\ g.entered \in {h.entered, e} /\ (c.use = "show" => g.entered = h.entered)
  /\ ~Leaves(g, e)
  /\ ~InEnter(h, e) /\ InEnter(g, e) => g.cbs[g.els[e].enterCb].link = l
  /\ ~InEnter(h, e) /\ h.mounted /\ l # 0 => InEnter(g, e)
  /\ c.use = "show" /\ ~InEnter(h, e) /\ (h.mounted \/ (h.els[e].display /\ ~Leaves(h, e))) => g.els[e].display

LEMMA StartEnterGood ==
  ASSUME InOutEnds(config), NEW h, NEW X, NEW n, NEW z, Good(config, h, 0, X, n, z), NEW e \in DOMAIN h.els,
         h.els[e].enterCb = 0, h.els[e].leaveCb = 0, e \in X \union {h.cur},
         NEW l, Fresh(h, l), l # 0 => config.css \/ config.control, NEW g, g = StartEnter(h, e, l)
  PROVE  /\ Good(config, g, 0, X, n, z) /\ Entered(config, h, g, e, l)
         /\ config.use = "show" => g.els[e].display
         /\ l # 0 => InEnter(g, e)
<1>1. h \in HeapType /\ l \in Nat
  BY DEF Good, HeapType, Fresh
<1> DEFINE id == NextCb(h)
<1>2. PICK m : /\ EnterStarted(config, h, m, e, id, l)
               /\ m.entered = IF config.use = "show" THEN h.entered ELSE e
               /\ config.use = "show" => m.els[e].display
               /\ StartEnter(h, e, l) = IF ~config.css /\ ~config.control THEN CallEnterCb(m, id) ELSE m
  BY <1>1, StartEnterResult
<1> HIDE DEF id
<1>3. Good(config, m, 0, X, n, z)
  BY <1>2, EnterStartedGood
<1> DEFINE stage == IF config.css THEN "frame" ELSE "user"
           b == Callback("enter", e, l, FALSE, stage)
<1>4. /\ Made(h, m, e, id, b)
      /\ m.els[e].enterCb = id /\ m.els[e].leaveCb = 0 /\ m.links = h.links
  BY <1>2 DEF EnterStarted
<1>5. /\ b.kind = "enter" /\ b.el = e /\ b.link = l /\ ~b.reopens /\ ~b.called /\ ~b.cancelled /\ b.stage = stage
  BY DEF Callback
<1> HIDE DEF b
<1>6. /\ id # 0 /\ id \in DOMAIN m.cbs /\ m.cbs[id] = b /\ m \in HeapType
      /\ DOMAIN m.els = DOMAIN h.els /\ \A f \in DOMAIN h.els : m.els[f].key = h.els[f].key
      /\ m.cur = h.cur /\ m.shown = h.shown /\ m.mounted = h.mounted
      /\ (m.leaving <=> h.leaving) /\ (h.dirty => m.dirty)
  BY <1>4 DEF Made
<1>7. InEnter(m, e) /\ ~Leaves(m, e) /\ m.cbs[m.els[e].enterCb].link = l
  BY <1>4, <1>5, <1>6 DEF InEnter, Leaves
<1>8. CASE config.css \/ config.control
  <2>1. g = m
    BY <1>2, <1>8
  <2>2. g.entered = IF config.use = "show" THEN h.entered ELSE e
    BY <1>2, <2>1
  <2>3. Entered(config, h, g, e, l)
    BY <1>2, <1>4, <1>6, <1>7, <2>1, <2>2 DEF Entered
  <2> QED
    BY <1>2, <1>3, <1>7, <2>1, <2>3
<1>9. CASE ~config.css /\ ~config.control
  <2>1. g = CallEnterCb(m, id)
    BY <1>2, <1>9
  <2>2. IsOf(m, id, e) /\ Uncalled(m, id) /\ m.cbs[id].kind = "enter"
    BY <1>5, <1>6 DEF IsOf, Uncalled
  <2>3. b \in CallbackType
    BY <1>6 DEF HeapType
  <2>4. Marked(m, m, id, b) /\ m.cbs[id].stage # "frame"
    <3>1. CallbackSet(m, m, id, b) /\ SameCallback(m.cbs[id], b)
      BY <1>6 DEF CallbackSet, SameCallback
    <3>2. b.stage = m.cbs[id].stage /\ ~b.called /\ m.cbs[id].stage = "user"
      BY <1>5, <1>6, <1>9
    <3> QED
      BY <2>3, <3>1, <3>2 DEF Marked
  <2>5. /\ Good(config, g, 0, X, n, z) /\ Kept(m, g, e)
        /\ g.els[e].enterCb = 0 /\ g.els[e].leaveCb = 0 /\ g.els[e].display = m.els[e].display
    BY <1>3, <2>1, <2>2, <2>4, EnterEnds
  <2>6. ~InEnter(g, e) /\ ~Leaves(g, e) /\ l = 0
    BY <1>9, <2>5 DEF InEnter, Leaves
  <2>7. /\ DOMAIN g.els = DOMAIN h.els /\ \A f \in DOMAIN h.els : g.els[f].key = h.els[f].key
        /\ g.links = h.links /\ g.cur = h.cur /\ g.shown = h.shown /\ g.mounted = h.mounted
        /\ (g.leaving => h.leaving) /\ (h.leaving => g.leaving \/ g.dirty) /\ (h.dirty => g.dirty)
        /\ g.entered = m.entered
    BY <1>4, <1>6, <2>5 DEF Kept, Others
  <2>8. g.entered = IF config.use = "show" THEN h.entered ELSE e
    BY <1>2, <2>7
  <2>9. config.use = "show" => g.els[e].display
    BY <1>2, <2>5
  <2>10. Entered(config, h, g, e, l)
    BY <2>6, <2>7, <2>8, <2>9 DEF Entered
  <2> QED
    BY <2>5, <2>6, <2>9, <2>10
<1> QED
  BY <1>8, <1>9

LEMMA EnterResult ==
  ASSUME InOutEnds(config), NEW h, NEW X, NEW n, NEW z, Good(config, h, 0, X, n, z), NEW e \in DOMAIN h.els,
         \A j \in DOMAIN h.cbs : h.cbs[j].reopens => h.cbs[j].called,
         \/ config.use # "if"
         \/ h.els[e].inDom
         \/ h.els[e].classes = {} /\ \A j \in DOMAIN h.cbs : h.cbs[j].el # e,
         NEW l, Fresh(h, l), l # 0 => config.css \/ config.control,
         NEW g, g = enter(h, e, l)
  PROVE  Good(config, g, 0, X \union {e}, n, z) /\ Entered(config, h, g, e, l)
<1> DEFINE m == CancelLeave(h, e)
<1>1. /\ Good(config, m, 0, X \union {e}, n, z) /\ Kept(h, m, 0)
      /\ m.els[e].enterCb = h.els[e].enterCb /\ m.els[e].leaveCb = 0
  BY CancelLeaveResult
<1>2. h.els[e].leaveCb = 0 => m = h
  BY DEF CancelLeave
<1>3. g = IF Enters(m, e) THEN StartEnter(m, e, l) ELSE m
  BY DEF enter
<1> HIDE DEF m
<1>4. /\ DOMAIN m.els = DOMAIN h.els /\ DOMAIN m.cbs = DOMAIN h.cbs
      /\ \A f \in DOMAIN h.els : m.els[f].key = h.els[f].key
      /\ m.links = h.links /\ m.entered = h.entered /\ m.cur = h.cur /\ m.shown = h.shown /\ m.mounted = h.mounted
      /\ (m.leaving => h.leaving) /\ (h.leaving => m.leaving \/ m.dirty) /\ (h.dirty => m.dirty)
      /\ \A j \in DOMAIN h.cbs : m.cbs[j].link = h.cbs[j].link
  BY <1>1 DEF Kept, Others, SameCallback
<1>5. Fresh(m, l)
  BY <1>4 DEF Fresh
<1>6. (InEnter(m, e) <=> InEnter(h, e)) /\ ~Leaves(m, e)
  BY <1>1 DEF InEnter, Leaves
<1>7. ~Leaves(h, e) => m = h
  BY <1>2 DEF Leaves
<1>8. CASE Enters(m, e)
  <2>1. m.els[e].enterCb = 0 /\ g = StartEnter(m, e, l)
    BY <1>3, <1>8 DEF Enters
  <2>2. /\ Good(config, g, 0, X \union {e}, n, z) /\ Entered(config, m, g, e, l)
        /\ config.use = "show" => g.els[e].display
        /\ l # 0 => InEnter(g, e)
    BY <1>1, <1>4, <1>5, <2>1, StartEnterGood
  <2>3. ~InEnter(m, e)
    BY <2>1 DEF InEnter
  <2>4. Entered(config, h, g, e, l)
    BY <1>4, <2>2, <2>3 DEF Entered
  <2> QED
    BY <2>2, <2>4
<1>9. CASE ~Enters(m, e)
  <2>1. g = m /\ (InEnter(h, e) \/ ~h.mounted)
    BY <1>3, <1>4, <1>6, <1>9 DEF Enters, InEnter
  <2>2. Entered(config, h, g, e, l)
    BY <1>4, <1>6, <1>7, <2>1 DEF Entered
  <2> QED
    BY <1>1, <2>1, <2>2
<1> QED
  BY <1>8, <1>9

\* leave of e makes a callback, and keeps it in closure l if there is one.
LeaveMade(h, g, e, id, l, reopens) ==
  /\ Made(h, g, e, id, Callback("leave", e, 0, reopens, "delayed"))
  /\ g.els[e] = [h.els[e] EXCEPT !.leaveCb = id]
  /\ g.links = IF l = 0 THEN h.links ELSE [h.links EXCEPT ![l] = id]
  /\ g.entered = h.entered

MayReopen(h, reopens) == reopens => h.leaving /\ h.cur = 0

\* A callback that is to be called performs what closure l is to hold.
Awaited(c, h, l) ==
  l # 0 => /\ c.mode = "in-out" /\ l \in DOMAIN h.links /\ h.links[l] = 0
           /\ \E j \in DOMAIN h.cbs : ~h.cbs[j].called /\ h.cbs[j].link = l

LEMMA LeaveMadeGood ==
  ASSUME NEW c, NEW h, NEW g, NEW e, NEW id, NEW l, NEW reopens, NEW X, NEW n, Good(c, h, 0, X, n, reopens),
         LeaveMade(h, g, e, id, l, reopens), h.els[e].inDom, e # n, c.use # "show" => e # h.cur,
         MayReopen(h, reopens),
         Awaited(c, h, l),
         NEW d, l = 0 => d = id, l # 0 => d = 0
  PROVE  Good(c, g, d, X \ {e}, n, FALSE) /\ \A j \in DOMAIN g.cbs : l = 0 => LinkOf(g, j) # id
<1> DEFINE b == Callback("leave", e, 0, reopens, "delayed")
           Y == X \ {e}
<1>0. l # 0 => /\ c.mode = "in-out" /\ l \in DOMAIN h.links /\ h.links[l] = 0
               /\ \E j \in DOMAIN h.cbs : ~h.cbs[j].called /\ h.cbs[j].link = l
  BY DEF Awaited
<1>1. Made(h, g, e, id, b) /\ g.links = IF l = 0 THEN h.links ELSE [h.links EXCEPT ![l] = id]
  BY DEF LeaveMade
<1>2. /\ b.kind = "leave" /\ b.el = e /\ b.link = 0 /\ (b.reopens <=> reopens) /\ ~b.called /\ ~b.cancelled
      /\ b.stage = "delayed"
  BY DEF Callback
<1> HIDE DEF b
<1>3. h \in HeapType /\ CallbacksInv(c, h) /\ g \in HeapType
  BY <1>1 DEF Good, Made
<1>4. /\ e \in DOMAIN h.els /\ id \notin DOMAIN h.cbs /\ id \in Nat /\ id # 0
      /\ DOMAIN g.cbs = DOMAIN h.cbs \union {id} /\ g.cbs[id] = b
      /\ DOMAIN g.els = DOMAIN h.els
  BY <1>1 DEF Made
<1>5. /\ \A f \in DOMAIN h.els : f # e =>
            /\ g.els[f] = h.els[f] /\ CallbacksOf(g, f)
            /\ InEnter(g, f) <=> InEnter(h, f)
            /\ Leaves(g, f) <=> Leaves(h, f)
            /\ Delayed(g, f) <=> Delayed(h, f)
            /\ ClassesOf(g, f) = ClassesOf(h, f)
      /\ \A j \in DOMAIN h.cbs : g.cbs[j] = h.cbs[j] /\ CallbackInv(c, g, j)
  BY <1>1, <1>3, MadeElsewhere
<1>6. /\ Len(g.els) = Len(h.els) /\ g.cur = h.cur /\ g.pending = h.pending /\ g.leaving = h.leaving
      /\ \A f \in DOMAIN h.els : g.els[f].key = h.els[f].key /\ g.els[f].inDom = h.els[f].inDom
      /\ ~InEnter(h, e) /\ ~Leaves(h, e) /\ ~Delayed(h, e) /\ ClassesOf(h, e) = {}
      /\ \A j \in DOMAIN h.cbs : h.cbs[j].el = e => h.cbs[j].called
  BY <1>1, <1>3, MadePlaces
<1>7. /\ g.els[e].enterCb = 0 /\ g.els[e].leaveCb = id
      /\ g.els[e].hooks = h.els[e].hooks /\ g.els[e].classes = h.els[e].classes
  <2>1. h.els[e] \in ElementType
    BY Zenon, <1>3, <1>4, ElementChanges
  <2>2. h.els[e].enterCb = 0
    BY <1>6 DEF InEnter
  <2> QED
    BY <2>1, <2>2 DEF LeaveMade, ElementType
<1>8. ~InEnter(g, e) /\ Leaves(g, e) /\ Delayed(g, e)
  BY <1>2, <1>4, <1>7 DEF InEnter, Leaves, Delayed
<1>9. ClassesOf(g, e) = {}
  BY <1>8 DEF ClassesOf
<1>11. CallbacksInv(c, g)
  <2>1. CallbacksOf(g, e)
    BY <1>2, <1>4, <1>7 DEF CallbacksOf, Uncalled
  <2>2. CallbackInv(c, g, id)
    BY <1>2, <1>4, <1>7 DEF CallbackInv
  <2> QED
    BY <1>4, <1>5, <2>1, <2>2 DEF CallbacksInv
<1>12. HooksInv(c, g)
  <2>1. HookInv(c, h, e)
    BY <1>4 DEF Good, HooksInv
  <2>2. ASSUME NEW f \in DOMAIN h.els, f # e PROVE HookInv(c, g, f)
    <3>1. HookInv(c, h, f)
      BY DEF Good, HooksInv
    <3> QED
      BY <1>5, <2>2, <3>1 DEF HookInv
  <2>3. HookInv(c, g, e)
    BY <1>6, <1>7, <1>8, <2>1 DEF HookInv
  <2> QED
    BY <1>4, <2>2, <2>3 DEF HooksInv
<1>13. LinksInv(c, g, d) /\ \A j \in DOMAIN g.cbs : l = 0 => LinkOf(g, j) # id
  <2>1. Closures(h) /\ (\A j \in DOMAIN h.cbs : Holds(h, j)) /\ (\A j \in DOMAIN h.cbs \ {0} : Waits(c, h, j))
    BY DEF Good, LinksInv
  <2>2. h.links \in Seq(Nat) /\ 0 \notin DOMAIN h.cbs
    BY <1>3 DEF HeapType
  <2>3. /\ DOMAIN g.links = DOMAIN h.links /\ Len(g.links) = Len(h.links)
        /\ \A m \in DOMAIN h.links : g.links[m] = IF m = l THEN id ELSE h.links[m]
    <3>0. l \notin DOMAIN h.links \/ l # 0
      BY <2>2
    <3>1. CASE l = 0
      BY <1>1, <2>2, <3>1
    <3>2. CASE l # 0
      BY <1>0, <1>1, <1>4, <2>2, <3>2
    <3> QED
      BY <3>1, <3>2
  <2>4. Closures(g)
    <3>1. \A j \in DOMAIN h.cbs : g.cbs[j] = h.cbs[j]
      BY <1>5
    <3>2. \A i \in DOMAIN g.cbs : g.cbs[i].link \in 0 .. Len(g.links)
      BY <1>2, <1>4, <2>1, <2>2, <2>3, <3>1 DEF Closures
    <3>3. \A i, j \in DOMAIN g.cbs : g.cbs[i].link = g.cbs[j].link /\ g.cbs[i].link # 0 => i = j
      BY <1>2, <1>4, <2>1, <3>1 DEF Closures
    <3>4. \A m \in DOMAIN g.links : g.links[m] # 0 => g.links[m] \in DOMAIN g.cbs /\ g.cbs[g.links[m]].kind = "leave"
      BY <1>2, <1>4, <2>1, <2>3, <3>1 DEF Closures
    <3>5. \A m, k \in DOMAIN g.links : g.links[m] = g.links[k] /\ g.links[m] # 0 => m = k
      BY <1>4, <2>1, <2>3 DEF Closures
    <3> QED
      BY <3>2, <3>3, <3>4, <3>5 DEF Closures
  <2>6. ASSUME NEW j \in DOMAIN h.cbs, LinkOf(h, j) # 0 PROVE LinkOf(h, j) \in DOMAIN h.cbs
    <3>1. h.cbs[j].link \in DOMAIN h.links /\ h.links[h.cbs[j].link] # 0 /\ LinkOf(h, j) = h.links[h.cbs[j].link]
      BY <2>1, <2>2, <2>6 DEF Closures, LinkOf
    <3> QED
      BY <2>1, <3>1 DEF Closures
  <2>5. /\ LinkOf(g, id) = 0
        /\ \A j \in DOMAIN h.cbs : LinkOf(g, j) = IF l # 0 /\ h.cbs[j].link = l THEN id ELSE LinkOf(h, j)
    <3>1. LinkOf(g, id) = 0
      BY <1>2, <1>4 DEF LinkOf
    <3>2. ASSUME NEW j \in DOMAIN h.cbs
          PROVE  LinkOf(g, j) = IF l # 0 /\ h.cbs[j].link = l THEN id ELSE LinkOf(h, j)
      <4>1. g.cbs[j].link = h.cbs[j].link
        BY <1>5
      <4>2. h.cbs[j].link # 0 => h.cbs[j].link \in DOMAIN h.links
        BY <2>1, <2>2 DEF Closures
      <4> QED
        BY <2>3, <4>1, <4>2 DEF LinkOf
    <3> QED
      BY <3>1, <3>2
  <2>7. ASSUME NEW j \in DOMAIN h.cbs PROVE Holds(g, j)
    <3>1. Holds(h, j) /\ g.cbs[j] = h.cbs[j]
      BY <1>5, <2>1
    <3>2. LinkOf(h, j) # 0 => g.cbs[LinkOf(h, j)] = h.cbs[LinkOf(h, j)]
      BY <1>5, <2>6
    <3>3. CASE l # 0 /\ h.cbs[j].link = l
      BY <1>2, <1>4, <2>5, <3>3 DEF Holds
    <3>4. CASE ~(l # 0 /\ h.cbs[j].link = l)
      <4>1. LinkOf(g, j) = LinkOf(h, j)
        BY <2>5, <3>4
      <4> QED
        BY <3>1, <3>2, <4>1 DEF Holds
    <3> QED
      BY <3>3, <3>4
  <2>8. Holds(g, id)
    BY <2>5 DEF Holds
  <2>9. ASSUME NEW j \in DOMAIN h.cbs PROVE Waits(c, g, j)
    <3> SUFFICES ASSUME ~g.cbs[j].called, g.cbs[j].stage = "delayed"
                 PROVE  c.mode = "in-out" /\ \E k \in DOMAIN g.cbs : ~g.cbs[k].called /\ LinkOf(g, k) = j
      BY DEF Waits
    <3>1. ~h.cbs[j].called /\ h.cbs[j].stage = "delayed" /\ j # 0
      BY <1>5, <2>2
    <3>2. c.mode = "in-out" /\ \E k \in DOMAIN h.cbs : ~h.cbs[k].called /\ LinkOf(h, k) = j
      BY <2>1, <2>2, <3>1 DEF Waits
    <3>3. PICK k \in DOMAIN h.cbs : ~h.cbs[k].called /\ LinkOf(h, k) = j
      BY <3>2
    <3>4. ~(l # 0 /\ h.cbs[k].link = l)
      BY <1>0, <3>1, <3>3 DEF LinkOf
    <3>5. k \in DOMAIN g.cbs /\ ~g.cbs[k].called /\ LinkOf(g, k) = j
      BY <1>4, <1>5, <2>5, <3>3, <3>4
    <3> QED
      BY <3>2, <3>5
  <2>10. l # 0 => Waits(c, g, id)
    <3> SUFFICES ASSUME l # 0 PROVE c.mode = "in-out" /\ \E k \in DOMAIN g.cbs : ~g.cbs[k].called /\ LinkOf(g, k) = id
      BY DEF Waits
    <3>1. PICK k \in DOMAIN h.cbs : ~h.cbs[k].called /\ h.cbs[k].link = l
      BY <1>0
    <3>2. k \in DOMAIN g.cbs /\ ~g.cbs[k].called /\ LinkOf(g, k) = id
      BY <1>4, <1>5, <2>5, <3>1
    <3> QED
      BY <1>0, <3>2
  <2>11. \A j \in DOMAIN g.cbs : l = 0 => LinkOf(g, j) # id
    BY <1>4, <2>5, <2>6
  <2> QED
    BY <1>4, <2>4, <2>7, <2>8, <2>9, <2>10, <2>11 DEF LinksInv
<1>14. ClassesInv(c, g, Y)
  <2>1. ASSUME NEW f \in DOMAIN h.els PROVE ClassesFit(c, g, f, Y)
    <3>1. ClassesFit(c, h, f, X)
      BY DEF Good, ClassesInv
    <3>2. CASE f # e
      BY <1>5, <3>1, <3>2 DEF ClassesFit
    <3>3. CASE f = e
      BY <1>6, <1>7, <1>9, <3>1, <3>3 DEF ClassesFit
    <3> QED
      BY <3>2, <3>3
  <2>2. ASSUME NEW j \in DOMAIN h.cbs PROVE Unframed(c, g, j, Y)
    <3>1. Unframed(c, h, j, X) /\ CallbackInv(c, h, j)
      BY <1>3 DEF Good, ClassesInv, CallbacksInv
    <3>2. h.cbs[j].el \in DOMAIN h.els
      BY <3>1 DEF CallbackInv
    <3> QED
      BY <1>5, <1>6, <3>1, <3>2 DEF Unframed
  <2>3. Unframed(c, g, id, Y)
    BY <1>2, <1>4 DEF Unframed
  <2> QED
    BY <1>4, <2>1, <2>2, <2>3 DEF ClassesInv
<1>15. PlacesInv(c, g, Y)
  <2>1. PlacesInv(c, h, X)
    BY DEF Good
  <2>2. \A f \in DOMAIN h.els : f # e => (InEnter(g, f) <=> InEnter(h, f)) /\ (Leaves(g, f) <=> Leaves(h, f))
    BY <1>5
  <2>3. g.cur # 0 => g.cur \in DOMAIN g.els /\ g.els[g.cur].inDom
    BY <1>4, <1>6, <2>1 DEF PlacesInv
  <2>4. c.use # "show" => \A f \in Y \union {g.cur} : f \in DOMAIN g.els => ~Leaves(g, f)
    BY <1>4, <1>6, <2>1, <2>2 DEF PlacesInv
  <2>5. \A f \in DOMAIN g.els :
          /\ InEnter(g, f) => f \in Y \union {g.cur}
          /\ Leaves(g, f) => g.els[f].inDom
          /\ g.els[f].inDom => Leaves(g, f) \/ f \in Y \union {g.cur}
    BY <1>4, <1>6, <1>8, <2>1, <2>2 DEF PlacesInv
  <2> QED
    BY <1>4, <1>6, <2>1, <2>3, <2>4, <2>5 DEF PlacesInv
<1>16. KeysInv(c, g, n)
  <2>1. KeysInv(c, h, n)
    BY DEF Good
  <2>2. \A f \in DOMAIN h.els : f # e => (Leaves(g, f) <=> Leaves(h, f))
    BY <1>5
  <2> QED
    BY ZenonT(30), <1>4, <1>6, <2>1, <2>2 DEF KeysInv
<1>17. PendingInv(c, g)
  <2>1. PendingInv(c, h)
    BY DEF Good
  <2>2. \A f \in DOMAIN h.els : f # e => (Leaves(g, f) <=> Leaves(h, f)) /\ (Delayed(g, f) <=> Delayed(h, f))
    BY <1>5
  <2> QED
    BY <1>4, <1>6, <1>8, <2>1, <2>2 DEF PendingInv
<1>18. OutInInv(g, FALSE)
  <2>1. OutInInv(h, reopens)
    BY DEF Good
  <2>2. \A j \in DOMAIN h.cbs : g.cbs[j] = h.cbs[j]
    BY <1>5
  <2>3. reopens => \A j \in DOMAIN h.cbs : h.cbs[j].reopens => h.cbs[j].called
    BY <2>1 DEF OutInInv
  <2>4. \A j \in DOMAIN g.cbs : g.cbs[j].reopens /\ ~g.cbs[j].called => g.leaving /\ g.cur = 0
    BY <1>2, <1>4, <1>6, <2>1, <2>2 DEF OutInInv, MayReopen
  <2>5. \A i, j \in DOMAIN g.cbs :
          g.cbs[i].reopens /\ ~g.cbs[i].called /\ g.cbs[j].reopens /\ ~g.cbs[j].called => i = j
    BY <1>2, <1>4, <2>1, <2>2, <2>3 DEF OutInInv
  <2>6. g.leaving => \E j \in DOMAIN g.cbs : g.cbs[j].reopens /\ ~g.cbs[j].called
    BY <1>2, <1>4, <1>6, <2>1, <2>2 DEF OutInInv
  <2> QED
    BY <2>4, <2>5, <2>6 DEF OutInInv
<1> QED
  BY <1>3, <1>11, <1>12, <1>13, <1>14, <1>15, <1>16, <1>17, <1>18 DEF Good

LEMMA LeaveMadeResult ==
  ASSUME NEW h \in HeapType, NEW e \in DOMAIN h.els, h.els[e].enterCb = 0, h.els[e].leaveCb = 0,
         NEW l \in Nat, l # 0 => l \in DOMAIN h.links, NEW reopens,
         Callback("leave", e, 0, reopens, "delayed") \in CallbackType
  PROVE  LET id == NextCb(h)
             h2 == [h EXCEPT !.cbs = Append(@, Callback("leave", e, 0, reopens, "delayed")), !.els[e].leaveCb = id]
         IN LeaveMade(h, IF l # 0 THEN [h2 EXCEPT !.links[l] = id] ELSE h2, e, id, l, reopens)
<1> DEFINE id == NextCb(h)
           b == Callback("leave", e, 0, reopens, "delayed")
           r == [h.els[e] EXCEPT !.leaveCb = id]
           h2 == [h EXCEPT !.cbs = Append(@, b), !.els[e].leaveCb = id]
           h3 == [h2 EXCEPT !.links[l] = id]
<1>1. h.els[e] \in ElementType /\ id \in Nat /\ h.entered \in Nat /\ h.links \in Seq(Nat) /\ e \in Nat
  <2>1. Len(h.cbs) \in Nat /\ h.entered \in Nat /\ h.links \in Seq(Nat) /\ e \in Nat
    BY DEF HeapType
  <2>2. h.els[e] \in ElementType
    BY Zenon, ElementChanges
  <2>3. id \in Nat
    BY <2>1 DEF NextCb
  <2> QED
    BY <2>1, <2>2, <2>3
<1>2. b \in CallbackType
  OBVIOUS
<1> HIDE DEF b, id
<1>3. r \in ElementType /\ SamePlace(r, h.els[e])
  BY <1>1 DEF ElementType, SamePlace
<1>4. h2 = WithCallback(h, b, e, r, h.entered)
  BY DEF WithCallback, HeapType
<1> HIDE DEF h2, r
<1>5. Made(h, h2, e, id, b) /\ h2.els[e] = r /\ h2.links = h.links /\ h2.entered = h.entered
  BY <1>1, <1>2, <1>3, <1>4, MadeResult DEF id
<1>6. CASE l = 0
  <2>1. LeaveMade(h, h2, e, id, l, reopens)
    BY <1>5, <1>6 DEF LeaveMade, r, b
  <2> QED
    BY <1>6, <2>1 DEF h2, id, b
<1>7. CASE l # 0
  <2> DEFINE s == [h.links EXCEPT ![l] = id]
  <2>1. s \in Seq(Nat)
    BY <1>1, <1>7
  <2>2. h2 \in HeapType
    BY <1>5 DEF Made
  <2>3. h3 = [h2 EXCEPT !.links = s]
    BY <1>5
  <2> HIDE DEF s, h3
  <2>4. /\ h3 \in HeapType /\ h3.links = s /\ h3.els = h2.els /\ h3.cbs = h2.cbs /\ h3.entered = h2.entered
        /\ h3.cur = h2.cur /\ h3.shown = h2.shown /\ h3.mounted = h2.mounted
        /\ h3.pending = h2.pending /\ h3.leaving = h2.leaving /\ h3.dirty = h2.dirty
    BY <2>1, <2>2, <2>3 DEF HeapType
  <2>5. Made(h, h3, e, id, b)
    BY <1>5, <2>4 DEF Made
  <2>6. LeaveMade(h, h3, e, id, l, reopens)
    BY <1>5, <1>7, <2>4, <2>5 DEF LeaveMade, r, b, s
  <2> QED
    BY <1>7, <2>6 DEF h3, h2, id, b
<1> QED
  BY <1>6, <1>7

\* What leave of e leaves as it is, and what it makes of e
Leaving(c, h, g, e, l) ==
  /\ DOMAIN g.els = DOMAIN h.els /\ \A f \in DOMAIN h.els : g.els[f].key = h.els[f].key
  /\ g.entered = h.entered /\ g.cur = h.cur /\ g.shown = h.shown /\ g.mounted = h.mounted
  /\ (g.leaving => h.leaving) /\ (h.leaving => g.leaving \/ g.dirty) /\ (h.dirty => g.dirty)
  /\ DOMAIN h.cbs \subseteq DOMAIN g.cbs /\ \A j \in DOMAIN h.cbs : g.cbs[j].link = h.cbs[j].link
  /\ \A f \in DOMAIN h.els : f # e => g.els[f].enterCb = h.els[f].enterCb
  /\ l # 0 => g.cbs[g.links[l]].el = e
  /\ ~InEnter(g, e)
  /\ c.use = "show" => Leaves(g, e) \/ ~g.els[e].display

LEMMA LeaveMadeEnds ==
  ASSUME InOutEnds(config), NEW h, NEW e, NEW X, NEW n, NEW reopens, Good(config, h, 0, X, n, reopens),
         e \in DOMAIN h.els, h.els[e].enterCb = 0, h.els[e].leaveCb = 0, h.els[e].inDom, e # n,
         config.use # "show" => e # h.cur,
         MayReopen(h, reopens), NEW l \in Nat,
         Awaited(config, h, l),
         NEW id, NEW m, LeaveMade(h, m, e, id, l, reopens),
         NEW g, g = IF l # 0 THEN m ELSE PerformLeave(m, id)
  PROVE  Good(config, g, 0, X \ {e}, n, FALSE) /\ Leaving(config, h, g, e, l)
<1> DEFINE b == Callback("leave", e, 0, reopens, "delayed")
           Y == X \ {e}
           z == FALSE
           d == IF l = 0 THEN id ELSE 0
<1>1. /\ Made(h, m, e, id, b) /\ m.links = IF l = 0 THEN h.links ELSE [h.links EXCEPT ![l] = id]
      /\ m.els[e] = [h.els[e] EXCEPT !.leaveCb = id]
  BY DEF LeaveMade
<1>2. b.kind = "leave" /\ b.el = e /\ ~b.called /\ ~b.cancelled /\ b.stage = "delayed"
  BY DEF Callback
<1> HIDE DEF b
<1>3. h \in HeapType /\ (l # 0 => l \in DOMAIN h.links)
  BY DEF Good, Awaited
<1>4. m.els[e].enterCb = 0 /\ m.els[e].leaveCb = id
  <2>1. h.els[e] \in ElementType
    BY Zenon, <1>3, ElementChanges
  <2> QED
    BY <1>1, <2>1 DEF ElementType
<1>5. Good(config, m, d, Y, n, z) /\ \A j \in DOMAIN m.cbs : l = 0 => LinkOf(m, j) # id
  <2>1. (l = 0 => d = id) /\ (l # 0 => d = 0)
    OBVIOUS
  <2> HIDE DEF d
  <2>2. /\ Good(config, m, d, X \ {e}, n, FALSE)
        /\ \A j \in DOMAIN m.cbs : l = 0 => LinkOf(m, j) # id
    BY <2>1, LeaveMadeGood
  <2> QED
    BY <2>2
<1> HIDE DEF z, Y
<1>6. /\ DOMAIN m.els = DOMAIN h.els /\ \A f \in DOMAIN h.els : m.els[f].key = h.els[f].key
      /\ m.cur = h.cur /\ m.shown = h.shown /\ m.mounted = h.mounted
      /\ m.leaving = h.leaving /\ m.dirty = h.dirty
      /\ id \in DOMAIN m.cbs /\ m.cbs[id] = b /\ id # 0
      /\ \A j \in DOMAIN h.cbs : j \in DOMAIN m.cbs /\ m.cbs[j] = h.cbs[j]
      /\ \A f \in DOMAIN h.els : f # e => m.els[f].enterCb = h.els[f].enterCb
      /\ m.entered = h.entered
  BY <1>1 DEF Made, LeaveMade
<1>7. ~InEnter(m, e) /\ Leaves(m, e)
  BY <1>4, <1>6 DEF InEnter, Leaves
<1>8. CASE l # 0
  <2>1. g = m /\ d = 0
    BY <1>8
  <2>2. h.links \in Seq(Nat)
    BY <1>3 DEF HeapType
  <2>3. g.cbs[g.links[l]].el = e
    BY <1>1, <1>2, <1>3, <1>6, <1>8, <2>1, <2>2
  <2>4. Leaving(config, h, g, e, l)
    BY <1>6, <1>7, <2>1, <2>3 DEF Leaving
  <2> QED
    BY <1>5, <2>1, <2>4 DEF z, Y
<1>9. CASE l = 0
  <2>1. g = PerformLeave(m, id) /\ d = id
    BY <1>9
  <2>2. Uncalled(m, id) /\ IsOf(m, id, e) /\ m.cbs[id].el \in DOMAIN m.els
    BY <1>2, <1>6 DEF Uncalled, IsOf
  <2>3. ~m.cbs[id].cancelled /\ m.cbs[id].stage = "delayed" /\ m.cbs[id].kind = "leave" /\ m \in HeapType
    BY <1>1, <1>2, <1>6 DEF Made
  <2>4. PICK p : /\ LeavePerformed(config, m, p, id)
                 /\ IF config.css \/ config.control THEN PerformLeave(m, id) = p
                    ELSE LeaveCalled(config, p, PerformLeave(m, id), id, FALSE)
    BY <2>2, <2>3, PerformLeaveResult
  <2>5. Good(config, m, id, Y, n, z) /\ \A j \in DOMAIN m.cbs : ~m.cbs[j].called => LinkOf(m, j) # id
    BY <1>5, <1>9, <2>1
  <2>6. Good(config, p, 0, Y, n, z)
    BY <2>2, <2>3, <2>4, <2>5, LeavePerformedGood
  <2>7. Touches(m, p, e, id)
    BY <2>2, <2>4 DEF LeavePerformed, IsOf
  <2>8. /\ p.els[e].enterCb = m.els[e].enterCb /\ p.els[e].leaveCb = m.els[e].leaveCb
        /\ p.leaving = m.leaving /\ p.dirty = m.dirty
    BY <2>2, <2>4 DEF LeavePerformed, IsOf
  <2>9. /\ DOMAIN p.els = DOMAIN h.els /\ \A f \in DOMAIN h.els : p.els[f].key = h.els[f].key
        /\ p.cur = h.cur /\ p.shown = h.shown /\ p.mounted = h.mounted /\ p.entered = h.entered
        /\ p.leaving = h.leaving /\ p.dirty = h.dirty
        /\ \A j \in DOMAIN h.cbs : j \in DOMAIN p.cbs /\ p.cbs[j].link = h.cbs[j].link
        /\ \A f \in DOMAIN h.els : f # e => p.els[f].enterCb = h.els[f].enterCb
    BY <1>6, <2>7, <2>8 DEF Touches, SameCallback, Others
  <2>10. CASE config.css \/ config.control
    <3>1. g = p
      BY <2>1, <2>4, <2>10
    <3>2. ~InEnter(p, e) /\ Leaves(p, e)
      BY <1>7, <2>8 DEF InEnter, Leaves
    <3>3. Leaving(config, h, g, e, l)
      BY <1>9, <2>9, <3>1, <3>2 DEF Leaving
    <3> QED
      BY <2>6, <3>1, <3>3 DEF z, Y
  <2>11. CASE ~(config.css \/ config.control)
    <3> DEFINE x == FALSE
               V == IF x THEN Y \union {e} ELSE Y
    <3>1. ~x /\ x \in BOOLEAN /\ LeaveCalled(config, p, g, id, x)
      BY <2>1, <2>4, <2>11
    <3>2. V = Y /\ V = IF x THEN Y \union {e} ELSE Y
      OBVIOUS
    <3> HIDE DEF x, V
    <3>3. /\ IsOf(p, id, e) /\ Uncalled(p, id) /\ p.cbs[id].kind = "leave" /\ p.cbs[id].stage = "user"
          /\ (p.cbs[id].reopens <=> m.cbs[id].reopens)
      BY <1>2, <1>6, <2>2, <2>3, <2>4, <2>7, <2>11 DEF LeavePerformed, IsOf, Uncalled, Touches, SameCallback
    <3>4. Good(config, g, 0, V, n, z)
      BY <2>6, <3>1, <3>2, <3>3, LeaveCalledGood
    <3>5. Touches(p, g, e, id)
      BY <3>1, <3>3 DEF LeaveCalled, IsOf
    <3>6. /\ g.els[e].enterCb = p.els[e].enterCb /\ (g.leaving => p.leaving) /\ (p.leaving => g.leaving \/ g.dirty) /\ (p.dirty => g.dirty)
          /\ config.use = "show" => ~g.els[e].display
      BY ZenonT(30), <3>1, <3>3 DEF LeaveCalled, IsOf
    <3>7. ~InEnter(g, e)
      BY <1>7, <2>8, <3>6 DEF InEnter
    <3>8. /\ DOMAIN g.els = DOMAIN h.els /\ \A f \in DOMAIN h.els : g.els[f].key = h.els[f].key
          /\ g.cur = h.cur /\ g.shown = h.shown /\ g.mounted = h.mounted /\ g.entered = h.entered
          /\ (g.leaving => h.leaving) /\ (h.leaving => g.leaving \/ g.dirty) /\ (h.dirty => g.dirty)
          /\ \A j \in DOMAIN h.cbs : j \in DOMAIN g.cbs /\ g.cbs[j].link = h.cbs[j].link
          /\ \A f \in DOMAIN h.els : f # e => g.els[f].enterCb = h.els[f].enterCb
      BY <2>9, <3>5, <3>6 DEF Touches, SameCallback, Others
    <3>9. Leaving(config, h, g, e, l)
      BY <1>9, <3>6, <3>7, <3>8 DEF Leaving
    <3> QED
      BY <3>2, <3>4, <3>9 DEF z, Y
  <2> QED
    BY <2>10, <2>11
<1> QED
  BY <1>8, <1>9

LEMMA LeaveResult ==
  ASSUME InOutEnds(config), NEW h, NEW e \in DOMAIN h.els, NEW X, NEW n, NEW reopens,
         Callback("leave", e, 0, reopens, "delayed") \in CallbackType,
         Good(config, h, 0, X, n, reopens), ~Leaves(h, e), h.els[e].inDom, e # n,
         config.use # "show" => e # h.cur,
         MayReopen(h, reopens), NEW l \in Nat,
         l # 0 => /\ config.mode = "in-out" /\ l \in DOMAIN h.links /\ h.links[l] = 0
                  /\ \E f \in DOMAIN h.els : f # e /\ InEnter(h, f) /\ h.cbs[h.els[f].enterCb].link = l,
         NEW g, g = leave(h, e, l, reopens)
  PROVE  Good(config, g, 0, X \ {e}, n, FALSE) /\ Leaving(config, h, g, e, l)
<1> DEFINE m == CancelEnter(h, e)
           id == NextCb(m)
           k2 == [m EXCEPT !.cbs = Append(@, Callback("leave", e, 0, reopens, "delayed")), !.els[e].leaveCb = id]
           k == IF l # 0 THEN [k2 EXCEPT !.links[l] = id] ELSE k2
<1>1. /\ Good(config, m, 0, X, n, reopens) /\ Kept(h, m, e)
      /\ m.els[e].enterCb = 0 /\ m.els[e].leaveCb = h.els[e].leaveCb
      /\ Stays(h, m, e)
  <2>1. m = CancelEnter(h, e)
    OBVIOUS
  <2> HIDE DEF m
  <2> QED
    BY <2>1, CancelEnterResult
<1>2. m.els[e].leaveCb = 0 /\ m.els[e].inDom /\ m \in HeapType
  BY <1>1 DEF Leaves, Good, Stays
<1> HIDE DEF m
<1>3. g = IF l # 0 THEN k ELSE PerformLeave(k, id)
  BY <1>2 DEF leave, m
<1>4. /\ DOMAIN m.els = DOMAIN h.els /\ DOMAIN m.cbs = DOMAIN h.cbs
      /\ \A f \in DOMAIN h.els : m.els[f].key = h.els[f].key /\ (f # e => m.els[f].enterCb = h.els[f].enterCb)
      /\ m.links = h.links /\ m.entered = h.entered /\ m.cur = h.cur /\ m.shown = h.shown /\ m.mounted = h.mounted
      /\ (m.leaving => h.leaving) /\ (h.leaving => m.leaving \/ m.dirty) /\ (h.dirty => m.dirty)
      /\ \A j \in DOMAIN h.cbs : m.cbs[j].link = h.cbs[j].link
  BY <1>1 DEF Kept, Others, SameCallback
<1>a. MayReopen(m, reopens)
  BY <1>1, <1>4 DEF MayReopen, Stays
<1>5. l # 0 => l \in DOMAIN m.links
  BY <1>4
<1>6. LeaveMade(m, k, e, id, l, reopens)
  BY Zenon, <1>1, <1>2, <1>4, <1>5, LeaveMadeResult
<1> HIDE DEF k, id
<1>7. Awaited(config, m, l)
  <2> SUFFICES ASSUME l # 0
               PROVE  /\ config.mode = "in-out" /\ l \in DOMAIN m.links /\ m.links[l] = 0
                      /\ \E j \in DOMAIN m.cbs : ~m.cbs[j].called /\ m.cbs[j].link = l
    BY DEF Awaited
  <2>1. PICK f \in DOMAIN h.els : f # e /\ InEnter(h, f) /\ h.cbs[h.els[f].enterCb].link = l
    OBVIOUS
  <2> DEFINE j == m.els[f].enterCb
  <2>2. j = h.els[f].enterCb /\ j # 0
    BY <1>4, <2>1 DEF InEnter
  <2>3. CallbacksOf(m, f)
    BY <1>1, <1>4 DEF Good, CallbacksInv
  <2>4. j \in DOMAIN m.cbs /\ ~m.cbs[j].called
    BY <2>2, <2>3 DEF CallbacksOf, Uncalled
  <2>5. m.cbs[j].link = l
    BY <1>4, <2>1, <2>2, <2>4
  <2> QED
    BY <1>4, <2>4, <2>5
<1>8. Good(config, g, 0, X \ {e}, n, FALSE) /\ Leaving(config, m, g, e, l)
  BY <1>1, <1>2, <1>3, <1>4, <1>a, <1>6, <1>7, LeaveMadeEnds
<1>9. Leaving(config, h, g, e, l)
  BY <1>4, <1>8 DEF Leaving
<1> QED
  BY <1>8, <1>9

-----------------------------------------------------------------------------
(***************************************************************************)
(* Changes of the heap besides callbacks.                                  *)
(***************************************************************************)
LEMMA SameParts ==
  ASSUME NEW c, NEW h, NEW g, g.els = h.els, g.cbs = h.cbs, CallbacksInv(c, h), HooksInv(c, h)
  PROVE  /\ CallbacksInv(c, g) /\ HooksInv(c, g)
         /\ \A e \in DOMAIN h.els : /\ (InEnter(g, e) <=> InEnter(h, e)) /\ (Leaves(g, e) <=> Leaves(h, e))
                                    /\ (Delayed(g, e) <=> Delayed(h, e)) /\ ClassesOf(g, e) = ClassesOf(h, e)
<1>1. \A e \in DOMAIN h.els : /\ (InEnter(g, e) <=> InEnter(h, e)) /\ (Leaves(g, e) <=> Leaves(h, e))
                              /\ (Delayed(g, e) <=> Delayed(h, e)) /\ ClassesOf(g, e) = ClassesOf(h, e)
  BY DEF InEnter, Leaves, Delayed, ClassesOf
<1>2. HooksInv(c, g)
  <2>1. ASSUME NEW e \in DOMAIN h.els PROVE HookInv(c, g, e)
    <3>1. HookInv(c, h, e)
      BY DEF HooksInv
    <3> QED
      BY <1>1, <3>1 DEF HookInv
  <2> QED
    BY <2>1 DEF HooksInv
<1>3. CallbacksInv(c, g)
  <2>1. ASSUME NEW e \in DOMAIN h.els PROVE CallbacksOf(g, e)
    <3>1. CallbacksOf(h, e)
      BY DEF CallbacksInv
    <3> QED
      BY <3>1 DEF CallbacksOf, Uncalled
  <2>2. ASSUME NEW i \in DOMAIN h.cbs PROVE CallbackInv(c, g, i)
    <3>1. CallbackInv(c, h, i)
      BY DEF CallbacksInv
    <3> QED
      BY <3>1 DEF CallbackInv
  <2> QED
    BY <2>1, <2>2 DEF CallbacksInv
<1> QED
  BY <1>1, <1>2, <1>3

LEMMA SameLinks ==
  ASSUME NEW c, NEW h, NEW g, NEW d, g.links = h.links, g.cbs = h.cbs, LinksInv(c, h, d)
  PROVE  LinksInv(c, g, d)
<1>1. Closures(g)
  BY DEF LinksInv, Closures
<1>2. \A j : LinkOf(g, j) = LinkOf(h, j)
  BY DEF LinkOf
<1>3. ASSUME NEW i \in DOMAIN h.cbs PROVE Holds(g, i)
  <2>1. Holds(h, i)
    BY DEF LinksInv
  <2> QED
    BY <1>2, <2>1 DEF Holds
<1>4. ASSUME NEW i \in DOMAIN h.cbs \ {d} PROVE Waits(c, g, i)
  <2>1. Waits(c, h, i)
    BY DEF LinksInv
  <2> QED
    BY <1>2, <2>1 DEF Waits
<1> QED
  BY <1>1, <1>3, <1>4 DEF LinksInv

LEMMA SameClasses ==
  ASSUME NEW c, NEW h, NEW g, NEW X, NEW Y, g.els = h.els, g.cbs = h.cbs, ClassesInv(c, h, X), CallbacksInv(c, h), HooksInv(c, h),
         \A e \in DOMAIN h.els : e \in Y /\ e \notin X => h.els[e].inDom
  PROVE  ClassesInv(c, g, Y)
<1>1. \A e \in DOMAIN h.els : ClassesOf(g, e) = ClassesOf(h, e)
  BY SameParts
<1>2. ASSUME NEW e \in DOMAIN h.els PROVE ClassesFit(c, g, e, Y)
  <2>1. ClassesFit(c, h, e, X)
    BY DEF ClassesInv
  <2> QED
    BY <1>1, <2>1 DEF ClassesFit
<1>3. ASSUME NEW i \in DOMAIN h.cbs PROVE Unframed(c, g, i, Y)
  <2>1. Unframed(c, h, i, X) /\ CallbackInv(c, h, i)
    BY DEF ClassesInv, CallbacksInv
  <2>2. h.cbs[i].el \in DOMAIN h.els
    BY <2>1 DEF CallbackInv
  <2> QED
    BY <2>1, <2>2 DEF Unframed
<1> QED
  BY <1>2, <1>3 DEF ClassesInv

LEMMA SamePlaces ==
  ASSUME NEW c, NEW h, NEW g, NEW X, NEW n, g.els = h.els, g.cbs = h.cbs, g.cur = h.cur, g.pending = h.pending,
         CallbacksInv(c, h), HooksInv(c, h), PlacesInv(c, h, X), KeysInv(c, h, n), PendingInv(c, h)
  PROVE  PlacesInv(c, g, X) /\ KeysInv(c, g, n) /\ PendingInv(c, g)
<1>1. \A e \in DOMAIN h.els : /\ (InEnter(g, e) <=> InEnter(h, e)) /\ (Leaves(g, e) <=> Leaves(h, e))
                              /\ (Delayed(g, e) <=> Delayed(h, e))
  BY SameParts
<1>2. PlacesInv(c, g, X)
  BY <1>1 DEF PlacesInv
<1>3. KeysInv(c, g, n) /\ PendingInv(c, g)
  BY <1>1 DEF KeysInv, PendingInv
<1> QED
  BY <1>2, <1>3

\* Entered, shown, mounted and dirty are of no matter.
LEMMA SameGood ==
  ASSUME NEW c, NEW h, NEW g, NEW X, NEW n, NEW z, Good(c, h, 0, X, n, z), g \in HeapType,
         g.els = h.els, g.cbs = h.cbs, g.links = h.links, g.pending = h.pending, g.cur = h.cur, g.leaving = h.leaving
  PROVE  Good(c, g, 0, X, n, z)
<1>1. /\ h \in HeapType /\ CallbacksInv(c, h) /\ HooksInv(c, h) /\ LinksInv(c, h, 0) /\ ClassesInv(c, h, X)
      /\ PlacesInv(c, h, X) /\ KeysInv(c, h, n) /\ PendingInv(c, h) /\ OutInInv(h, z)
  BY DEF Good
<1>2. /\ CallbacksInv(c, g) /\ HooksInv(c, g)
      /\ \A e \in DOMAIN h.els : /\ (InEnter(g, e) <=> InEnter(h, e)) /\ (Leaves(g, e) <=> Leaves(h, e))
                                 /\ (Delayed(g, e) <=> Delayed(h, e))
  BY <1>1, SameParts
<1>3. LinksInv(c, g, 0)
  BY <1>1, SameLinks
<1>4. ClassesInv(c, g, X)
  BY <1>1, SameClasses
<1>5. PlacesInv(c, g, X)
  BY <1>1, <1>2 DEF PlacesInv
<1>6. KeysInv(c, g, n) /\ PendingInv(c, g)
  BY <1>1, <1>2 DEF KeysInv, PendingInv
<1>7. OutInInv(g, z)
  BY <1>1 DEF OutInInv
<1> QED
  BY <1>2, <1>3, <1>4, <1>5, <1>6, <1>7 DEF Good

\* An element is made.
WithElement(h, key) == [h EXCEPT !.els = Append(@, Element(key))]

LEMMA AddedGood ==
  ASSUME NEW c, NEW h, NEW z, Good(c, h, 0, {}, 0, z), NEW key \in Views, c.use # "show",
         c.use = "kept" => \A e \in DOMAIN h.els : h.els[e].key # key,
         NEW g, g = WithElement(h, key), NEW e, e = Len(h.els) + 1
  PROVE  /\ Good(c, g, 0, {}, 0, z) /\ Len(g.els) = e /\ DOMAIN g.els = DOMAIN h.els \union {e} /\ e \notin DOMAIN h.els
         /\ g.els[e] = Element(key) /\ \A f \in DOMAIN h.els : g.els[f] = h.els[f]
         /\ \A j \in DOMAIN g.cbs : g.cbs[j].el # e
<1> DEFINE b == Element(key)
           s == Append(h.els, b)
<1>1. h \in HeapType /\ h.els \in Seq(ElementType) /\ CallbacksInv(c, h)
  BY DEF Good, HeapType
<1>2. /\ b.key = key /\ ~b.inDom /\ b.classes = {} /\ b.enterCb = 0 /\ b.leaveCb = 0 /\ b.hooks = <<>>
      /\ b \in ElementType
  BY DEF Element, ElementType
<1> HIDE DEF b
<1>3. /\ s \in Seq(ElementType) /\ Len(s) = e /\ DOMAIN s = DOMAIN h.els \union {e} /\ e \notin DOMAIN h.els
      /\ s[e] = b /\ \A f \in DOMAIN h.els : s[f] = h.els[f]
  <2>1. /\ s \in Seq(ElementType) /\ Len(s) = Len(h.els) + 1 /\ Len(h.els) \in Nat /\ DOMAIN h.els = 1 .. Len(h.els)
        /\ DOMAIN s = 1 .. Len(h.els) + 1 /\ s[Len(h.els) + 1] = b /\ \A f \in 1 .. Len(h.els) : s[f] = h.els[f]
    BY <1>1, <1>2
  <2> HIDE DEF s
  <2> QED
    BY <2>1
<1>4. g = [h EXCEPT !.els = s]
  BY DEF b, WithElement
<1> HIDE DEF s
<1>5. /\ g \in HeapType /\ g.els = s /\ g.cbs = h.cbs /\ g.links = h.links /\ g.pending = h.pending
      /\ g.cur = h.cur /\ g.leaving = h.leaving
  BY <1>1, <1>3, <1>4 DEF HeapType
<1>6. /\ DOMAIN g.els = DOMAIN h.els \union {e} /\ e \notin DOMAIN h.els /\ g.els[e] = b
      /\ \A f \in DOMAIN h.els : g.els[f] = h.els[f] /\ f # e
  BY <1>3, <1>5
<1>7. \A j \in DOMAIN h.cbs : h.cbs[j].el \in DOMAIN h.els /\ h.cbs[j].el # e
  BY <1>1, <1>6 DEF CallbacksInv, CallbackInv
<1>8. \A f \in DOMAIN h.els : /\ (InEnter(g, f) <=> InEnter(h, f)) /\ (Leaves(g, f) <=> Leaves(h, f))
                              /\ (Delayed(g, f) <=> Delayed(h, f)) /\ ClassesOf(g, f) = ClassesOf(h, f)
  BY <1>5, <1>6 DEF InEnter, Leaves, Delayed, ClassesOf
<1>9. ~InEnter(g, e) /\ ~Leaves(g, e) /\ ~Delayed(g, e) /\ ClassesOf(g, e) = {}
  BY <1>2, <1>6 DEF InEnter, Leaves, Delayed, ClassesOf
<1>10. CallbacksInv(c, g)
  <2>1. ASSUME NEW f \in DOMAIN h.els PROVE CallbacksOf(g, f)
    <3>1. CallbacksOf(h, f)
      BY <1>1 DEF CallbacksInv
    <3> QED
      BY <1>5, <1>6, <3>1 DEF CallbacksOf, Uncalled
  <2>2. CallbacksOf(g, e)
    BY <1>2, <1>6 DEF CallbacksOf
  <2>3. ASSUME NEW i \in DOMAIN h.cbs PROVE CallbackInv(c, g, i)
    <3>1. CallbackInv(c, h, i)
      BY <1>1 DEF CallbacksInv
    <3> QED
      BY <1>5, <1>6, <1>7, <3>1 DEF CallbackInv
  <2> QED
    BY <1>5, <1>6, <2>1, <2>2, <2>3 DEF CallbacksInv
<1>11. HooksInv(c, g)
  <2>1. ASSUME NEW f \in DOMAIN h.els PROVE HookInv(c, g, f)
    <3>1. HookInv(c, h, f)
      BY DEF Good, HooksInv
    <3> QED
      BY <1>6, <1>8, <3>1 DEF HookInv
  <2>2. HookInv(c, g, e)
    <3>1. g.els[e].hooks = <<>>
      BY <1>2, <1>6
    <3>2. PairsUp(c, <<>>) /\ LastHook(<<>>) = "none"
      BY DEF PairsUp, LastHook
    <3> QED
      BY <1>9, <3>1, <3>2 DEF HookInv
  <2> QED
    BY <1>6, <2>1, <2>2 DEF HooksInv
<1>12. LinksInv(c, g, 0)
  BY <1>5, SameLinks DEF Good
<1>13. ClassesInv(c, g, {})
  <2>1. ASSUME NEW f \in DOMAIN h.els PROVE ClassesFit(c, g, f, {})
    <3>1. ClassesFit(c, h, f, {})
      BY DEF Good, ClassesInv
    <3> QED
      BY <1>6, <1>8, <3>1 DEF ClassesFit
  <2>2. ClassesFit(c, g, e, {})
    BY <1>2, <1>6 DEF ClassesFit
  <2>3. ASSUME NEW i \in DOMAIN h.cbs PROVE Unframed(c, g, i, {})
    <3>1. Unframed(c, h, i, {})
      BY DEF Good, ClassesInv
    <3> QED
      BY <1>5, <1>6, <1>7, <3>1 DEF Unframed
  <2> QED
    BY <1>5, <1>6, <2>1, <2>2, <2>3 DEF ClassesInv
<1>14. PlacesInv(c, g, {})
  <2>1. PlacesInv(c, h, {})
    BY DEF Good
  <2>2. h.cur # e
    BY <1>1, <1>6, <2>1 DEF PlacesInv, HeapType
  <2>3. ~g.els[e].inDom /\ g.els[e].key = key
    BY <1>2, <1>6
  <2>4. g.cur # 0 => g.cur \in DOMAIN g.els /\ g.els[g.cur].inDom
    BY <1>5, <1>6, <2>1 DEF PlacesInv
  <2>5. \A f \in {} \union {g.cur} : f \in DOMAIN g.els => ~Leaves(g, f)
    BY <1>5, <1>6, <1>8, <2>1, <2>2 DEF PlacesInv
  <2>6. ASSUME NEW f \in DOMAIN g.els
        PROVE  /\ InEnter(g, f) => f \in {} \union {g.cur}
               /\ Leaves(g, f) => g.els[f].inDom
               /\ g.els[f].inDom => Leaves(g, f) \/ f \in {} \union {g.cur}
    <3>1. CASE f = e
      BY <1>9, <2>3, <3>1
    <3>2. CASE f # e
      BY <1>5, <1>6, <1>8, <2>1, <3>2 DEF PlacesInv
    <3> QED
      BY <3>1, <3>2
  <2>7. c.use = "kept" => \A f, k \in DOMAIN g.els : g.els[f].key = g.els[k].key => f = k
    BY <1>6, <2>1, <2>3 DEF PlacesInv
  <2> QED
    BY <2>4, <2>5, <2>6, <2>7 DEF PlacesInv
<1>15. KeysInv(c, g, 0)
  <2>1. KeysInv(c, h, 0)
    BY DEF Good
  <2>2. e # 0 /\ 0 \notin DOMAIN h.els
    BY <1>1
  <2> QED
    BY <1>2, <1>6, <2>1, <2>2 DEF KeysInv
<1>16. PendingInv(c, g)
  <2>1. PendingInv(c, h)
    BY DEF Good
  <2>2. \A k \in Views : LET p == g.pending[k] IN
          p # 0 => p \in DOMAIN g.els /\ g.els[p].key = k /\ Leaves(g, p) /\ ~Delayed(g, p)
    <3> SUFFICES ASSUME NEW k \in Views, NEW p, p = h.pending[k], p # 0
                 PROVE  p \in DOMAIN g.els /\ g.els[p].key = k /\ Leaves(g, p) /\ ~Delayed(g, p)
      BY <1>5
    <3>1. p \in DOMAIN h.els /\ h.els[p].key = k /\ Leaves(h, p) /\ ~Delayed(h, p)
      BY <2>1 DEF PendingInv
    <3>2. g.els[p] = h.els[p] /\ p \in DOMAIN g.els
      BY <1>6, <3>1
    <3> QED
      BY <1>8, <3>1, <3>2
  <2>3. ASSUME NEW f \in DOMAIN g.els, Leaves(g, f), ~Delayed(g, f) PROVE g.pending[g.els[f].key] = f
    <3>1. f \in DOMAIN h.els /\ Leaves(h, f) /\ ~Delayed(h, f)
      BY <1>6, <1>8, <1>9, <2>3
    <3>2. h.pending[h.els[f].key] = f /\ g.els[f] = h.els[f]
      BY <1>6, <2>1, <3>1 DEF PendingInv
    <3> QED
      BY <1>5, <3>2
  <2> QED
    BY <2>2, <2>3 DEF PendingInv
<1>17. OutInInv(g, z)
  <2>1. OutInInv(h, z)
    BY DEF Good
  <2> QED
    BY <1>5, <2>1 DEF OutInInv
<1>18. Good(c, g, 0, {}, 0, z)
  BY <1>5, <1>10, <1>11, <1>12, <1>13, <1>14, <1>15, <1>16, <1>17 DEF Good
<1> QED
  BY <1>3, <1>5, <1>6, <1>7, <1>18 DEF b

\* An element takes its place in the document, and is the current one.
Placed(h, e) == [h EXCEPT !.els[e].inDom = TRUE, !.cur = e]

AsPlaced(h, g, e) ==
  /\ g.cur = e /\ g.els[e].inDom /\ DOMAIN g.els = DOMAIN h.els
  /\ \A f \in DOMAIN h.els : /\ g.els[f].key = h.els[f].key /\ g.els[f].enterCb = h.els[f].enterCb
                             /\ (Leaves(g, f) <=> Leaves(h, f)) /\ (InEnter(g, f) <=> InEnter(h, f))
                             /\ f # e => (g.els[f].inDom <=> h.els[f].inDom)
  /\ g.cbs = h.cbs /\ g.links = h.links /\ g.shown = h.shown /\ g.mounted = h.mounted
  /\ g.leaving = h.leaving /\ g.dirty = h.dirty /\ g.entered = h.entered

LEMMA PlacedGood ==
  ASSUME NEW c, NEW h, NEW e, NEW z, Good(c, h, 0, {e}, 0, z), c.use # "show", e \in DOMAIN h.els, ~Leaves(h, e),
         e # h.cur, ~h.leaving, NEW old, old = h.cur,
         NEW g, g = Placed(h, e)
  PROVE  Good(c, g, 0, {old}, e, z) /\ AsPlaced(h, g, e)
<1> DEFINE r == [h.els[e] EXCEPT !.inDom = TRUE]
           k == [h EXCEPT !.els[e] = r]
<1>1. h \in HeapType /\ h.els[e] \in ElementType /\ h.cur \in Nat
  <2>1. h \in HeapType
    BY DEF Good
  <2> QED
    BY Zenon, <2>1, ElementChanges DEF HeapType
<1>2. /\ r \in ElementType /\ r.inDom /\ r.key = h.els[e].key /\ r.classes = h.els[e].classes /\ r.hooks = h.els[e].hooks
      /\ r.enterCb = h.els[e].enterCb /\ r.leaveCb = h.els[e].leaveCb
  BY <1>1 DEF ElementType
<1>3. g = [k EXCEPT !.cur = e]
  BY DEF Placed
<1>4. ElementSet(h, k, e, r)
  BY <1>1, <1>2, SetElement
<1> HIDE DEF k, r
<1>5. e \in Nat
  BY <1>1 DEF HeapType
<1>6. /\ g \in HeapType /\ g.cur = e /\ g.els = k.els /\ g.cbs = k.cbs /\ g.links = k.links /\ g.pending = k.pending
      /\ g.leaving = k.leaving /\ g.dirty = k.dirty /\ g.entered = k.entered /\ g.shown = k.shown /\ g.mounted = k.mounted
  BY <1>3, <1>4, <1>5 DEF ElementSet, HeapType
<1>7. /\ DOMAIN g.els = DOMAIN h.els /\ g.els[e] = r /\ \A f \in DOMAIN h.els : f # e => g.els[f] = h.els[f]
      /\ g.cbs = h.cbs /\ g.links = h.links /\ g.pending = h.pending /\ g.leaving = h.leaving
      /\ g.dirty = h.dirty /\ g.entered = h.entered /\ g.shown = h.shown /\ g.mounted = h.mounted
  BY <1>4, <1>6 DEF ElementSet, Others
<1>8. \A f \in DOMAIN h.els : /\ g.els[f].key = h.els[f].key /\ (f # e => (g.els[f].inDom <=> h.els[f].inDom))
                              /\ g.els[f].enterCb = h.els[f].enterCb /\ g.els[f].leaveCb = h.els[f].leaveCb
                              /\ g.els[f].hooks = h.els[f].hooks /\ g.els[f].classes = h.els[f].classes
  BY <1>2, <1>7
<1>9. \A f \in DOMAIN h.els : /\ (InEnter(g, f) <=> InEnter(h, f)) /\ (Leaves(g, f) <=> Leaves(h, f))
                              /\ (Delayed(g, f) <=> Delayed(h, f)) /\ ClassesOf(g, f) = ClassesOf(h, f)
  BY <1>7, <1>8 DEF InEnter, Leaves, Delayed, ClassesOf
<1>10. CallbacksInv(c, g)
  <2>1. ASSUME NEW f \in DOMAIN h.els PROVE CallbacksOf(g, f)
    <3>1. CallbacksOf(h, f)
      BY DEF Good, CallbacksInv
    <3> QED
      BY <1>7, <1>8, <3>1 DEF CallbacksOf, Uncalled
  <2>2. ASSUME NEW i \in DOMAIN h.cbs PROVE CallbackInv(c, g, i)
    <3>1. CallbackInv(c, h, i)
      BY DEF Good, CallbacksInv
    <3>2. h.cbs[i].el \in DOMAIN h.els
      BY <3>1 DEF CallbackInv
    <3> QED
      BY <1>7, <1>8, <3>1, <3>2 DEF CallbackInv
  <2> QED
    BY <1>7, <2>1, <2>2 DEF CallbacksInv
<1>11. HooksInv(c, g)
  <2>1. ASSUME NEW f \in DOMAIN h.els PROVE HookInv(c, g, f)
    <3>1. HookInv(c, h, f)
      BY DEF Good, HooksInv
    <3> QED
      BY <1>8, <1>9, <3>1 DEF HookInv
  <2> QED
    BY <1>7, <2>1 DEF HooksInv
<1>12. LinksInv(c, g, 0)
  BY <1>7, SameLinks DEF Good
<1>13. PlacesInv(c, h, {e})
  BY DEF Good
<1>14. ClassesInv(c, g, {old})
  <2>1. ASSUME NEW f \in DOMAIN h.els PROVE ClassesFit(c, g, f, {old})
    <3>1. ClassesFit(c, h, f, {e})
      BY DEF Good, ClassesInv
    <3>2. old # 0 => h.els[old].inDom
      BY <1>13 DEF PlacesInv
    <3>3. f # 0
      BY <1>1 DEF HeapType
    <3>4. f = old => h.els[f].inDom
      BY <3>2, <3>3
    <3> QED
      BY <1>8, <1>9, <3>1, <3>4 DEF ClassesFit
  <2>2. ASSUME NEW i \in DOMAIN h.cbs PROVE Unframed(c, g, i, {old})
    <3>1. Unframed(c, h, i, {e}) /\ CallbackInv(c, h, i)
      BY DEF Good, ClassesInv, CallbacksInv
    <3>2. h.cbs[i].el \in DOMAIN h.els
      BY <3>1 DEF CallbackInv
    <3>3. old # 0 => h.els[old].inDom
      BY <1>13 DEF PlacesInv
    <3>4. h.cbs[i].el # 0
      BY <1>1, <3>2 DEF HeapType
    <3> QED
      BY <1>7, <1>8, <3>1, <3>2, <3>3, <3>4 DEF Unframed
  <2> QED
    BY <1>7, <2>1, <2>2 DEF ClassesInv
<1>15. PlacesInv(c, g, {old})
  <2>1. g.cur # 0 => g.cur \in DOMAIN g.els /\ g.els[g.cur].inDom
    BY <1>2, <1>6, <1>7
  <2>2. \A f \in {old} \union {g.cur} : f \in DOMAIN g.els => ~Leaves(g, f)
    BY <1>6, <1>7, <1>9, <1>13 DEF PlacesInv
  <2>3. ASSUME NEW f \in DOMAIN g.els
        PROVE  /\ InEnter(g, f) => f \in {old} \union {g.cur}
               /\ Leaves(g, f) => g.els[f].inDom
               /\ g.els[f].inDom => Leaves(g, f) \/ f \in {old} \union {g.cur}
    <3>1. CASE f = e
      BY <1>2, <1>6, <1>7, <3>1
    <3>2. CASE f # e
      BY <1>6, <1>7, <1>8, <1>9, <1>13, <3>2 DEF PlacesInv
    <3> QED
      BY <3>1, <3>2
  <2>4. c.use = "kept" => \A f, m \in DOMAIN g.els : g.els[f].key = g.els[m].key => f = m
    BY <1>7, <1>8, <1>13 DEF PlacesInv
  <2> QED
    BY <2>1, <2>2, <2>3, <2>4 DEF PlacesInv
<1>16. KeysInv(c, g, e)
  <2>1. KeysInv(c, h, 0) /\ 0 \notin DOMAIN h.els
    BY <1>1 DEF Good, HeapType
  <2> QED
    BY <1>7, <1>8, <1>9, <2>1 DEF KeysInv
<1>17. PendingInv(c, g)
  <2>1. PendingInv(c, h)
    BY DEF Good
  <2> QED
    BY <1>7, <1>8, <1>9, <2>1 DEF PendingInv
<1>18. OutInInv(g, z)
  <2>1. OutInInv(h, z)
    BY DEF Good
  <2> QED
    BY <1>7, <2>1 DEF OutInInv
<1>19. Good(c, g, 0, {old}, e, z)
  BY <1>6, <1>10, <1>11, <1>12, <1>14, <1>15, <1>16, <1>17, <1>18 DEF Good
<1>20. AsPlaced(h, g, e)
  BY <1>2, <1>6, <1>7, <1>8, <1>9 DEF AsPlaced
<1> QED
  BY <1>19, <1>20

\* There is no current element any more.
LEMMA ClearedGood ==
  ASSUME NEW c, NEW h, NEW z, Good(c, h, 0, {}, 0, z), c.use # "show", NEW old, old = h.cur,
         NEW g, g = [h EXCEPT !.cur = 0]
  PROVE  Good(c, g, 0, {old}, 0, z)
<1>1. /\ h \in HeapType /\ CallbacksInv(c, h) /\ HooksInv(c, h) /\ LinksInv(c, h, 0) /\ ClassesInv(c, h, {})
      /\ PlacesInv(c, h, {}) /\ KeysInv(c, h, 0) /\ PendingInv(c, h) /\ OutInInv(h, z)
  BY DEF Good
<1>2. /\ g \in HeapType /\ g.cur = 0 /\ g.els = h.els /\ g.cbs = h.cbs /\ g.links = h.links /\ g.pending = h.pending
      /\ g.leaving = h.leaving
  BY <1>1 DEF HeapType
<1>3. /\ CallbacksInv(c, g) /\ HooksInv(c, g)
      /\ \A e \in DOMAIN h.els : /\ (InEnter(g, e) <=> InEnter(h, e)) /\ (Leaves(g, e) <=> Leaves(h, e))
                                 /\ (Delayed(g, e) <=> Delayed(h, e))
  BY <1>1, <1>2, SameParts
<1>4. LinksInv(c, g, 0)
  BY <1>1, <1>2, SameLinks
<1>5. 0 \notin DOMAIN h.els
  BY <1>1 DEF HeapType
<1>6. ClassesInv(c, g, {old})
  <2>1. \A e \in DOMAIN h.els : e \in {old} /\ e \notin {} => h.els[e].inDom
    BY <1>1, <1>5 DEF PlacesInv
  <2> QED
    BY <1>1, <1>2, <2>1, SameClasses
<1>7. PlacesInv(c, g, {old})
  BY <1>1, <1>2, <1>3, <1>5 DEF PlacesInv
<1>8. KeysInv(c, g, 0) /\ PendingInv(c, g)
  BY <1>1, <1>2, <1>3 DEF KeysInv, PendingInv
<1>9. OutInInv(g, z)
  BY <1>1, <1>2 DEF OutInInv
<1> QED
  BY <1>2, <1>3, <1>4, <1>6, <1>7, <1>8, <1>9 DEF Good

\* A replacement in mode out-in begins.
LEMMA LeavingSet ==
  ASSUME NEW c, NEW h, NEW X, NEW n, Good(c, h, 0, X, n, FALSE), ~h.leaving, NEW z, z,
         NEW g, g = [h EXCEPT !.leaving = TRUE]
  PROVE  Good(c, g, 0, X, n, z)
<1>1. /\ h \in HeapType /\ CallbacksInv(c, h) /\ HooksInv(c, h) /\ LinksInv(c, h, 0) /\ ClassesInv(c, h, X)
      /\ PlacesInv(c, h, X) /\ KeysInv(c, h, n) /\ PendingInv(c, h) /\ OutInInv(h, FALSE)
  BY DEF Good
<1>2. /\ g \in HeapType /\ g.cur = h.cur /\ g.els = h.els /\ g.cbs = h.cbs /\ g.links = h.links /\ g.pending = h.pending
      /\ g.leaving
  BY <1>1 DEF HeapType
<1>3. /\ CallbacksInv(c, g) /\ HooksInv(c, g)
  BY <1>1, <1>2, SameParts
<1>4. LinksInv(c, g, 0)
  BY <1>1, <1>2, SameLinks
<1>5. ClassesInv(c, g, X)
  BY <1>1, <1>2, SameClasses
<1>6. PlacesInv(c, g, X) /\ KeysInv(c, g, n) /\ PendingInv(c, g)
  BY <1>1, <1>2, SamePlaces
<1>7. OutInInv(g, z)
  BY <1>1, <1>2 DEF OutInInv
<1> QED
  BY <1>2, <1>3, <1>4, <1>5, <1>6, <1>7 DEF Good

\* A rendering in mode in-out makes a closure.
WithLink(h) == [h EXCEPT !.links = Append(@, 0)]

LEMMA LinkAdded ==
  ASSUME NEW c, NEW h, NEW X, NEW n, NEW z, Good(c, h, 0, X, n, z), NEW g, g = WithLink(h),
         NEW l, l = Len(g.links)
  PROVE  Good(c, g, 0, X, n, z) /\ Fresh(g, l) /\ l \in DOMAIN g.links /\ l # 0 /\ g.links[l] = 0
<1> DEFINE s == Append(h.links, 0)
<1>1. /\ h \in HeapType /\ CallbacksInv(c, h) /\ HooksInv(c, h) /\ LinksInv(c, h, 0) /\ ClassesInv(c, h, X)
      /\ PlacesInv(c, h, X) /\ KeysInv(c, h, n) /\ PendingInv(c, h) /\ OutInInv(h, z)
  BY DEF Good
<1>2. h.links \in Seq(Nat) /\ Closures(h)
  BY <1>1 DEF HeapType, LinksInv
<1>3. /\ s \in Seq(Nat) /\ Len(s) = Len(h.links) + 1 /\ Len(h.links) \in Nat /\ DOMAIN h.links = 1 .. Len(h.links)
      /\ DOMAIN s = 1 .. Len(h.links) + 1 /\ s[Len(h.links) + 1] = 0 /\ \A m \in 1 .. Len(h.links) : s[m] = h.links[m]
  BY <1>2
<1>4. g = [h EXCEPT !.links = s]
  BY DEF WithLink
<1> HIDE DEF s
<1>5. /\ g \in HeapType /\ g.links = s /\ g.cur = h.cur /\ g.els = h.els /\ g.cbs = h.cbs /\ g.pending = h.pending
      /\ g.leaving = h.leaving
  BY <1>1, <1>3, <1>4 DEF HeapType
<1>6. /\ CallbacksInv(c, g) /\ HooksInv(c, g)
  BY <1>1, <1>5, SameParts
<1>7. LinksInv(c, g, 0)
  <2>1. ASSUME NEW j \in DOMAIN h.cbs PROVE LinkOf(g, j) = LinkOf(h, j)
    <3>1. h.cbs[j].link # 0 => h.cbs[j].link \in 1 .. Len(h.links)
      BY <1>2, <1>3 DEF Closures
    <3> QED
      BY <1>3, <1>5, <3>1 DEF LinkOf
  <2>2. Closures(g)
    <3>1. \A i \in DOMAIN g.cbs : g.cbs[i].link \in 0 .. Len(g.links)
      BY <1>2, <1>3, <1>5 DEF Closures
    <3>2. \A m \in DOMAIN g.links : g.links[m] # 0 => m \in DOMAIN h.links /\ g.links[m] = h.links[m]
      BY <1>3, <1>5
    <3> QED
      BY <1>2, <1>5, <3>1, <3>2 DEF Closures
  <2>3. ASSUME NEW j \in DOMAIN h.cbs PROVE Holds(g, j)
    <3>1. Holds(h, j)
      BY <1>1 DEF LinksInv
    <3> QED
      BY <1>5, <2>1, <3>1 DEF Holds
  <2>4. ASSUME NEW j \in DOMAIN h.cbs \ {0} PROVE Waits(c, g, j)
    <3>1. Waits(c, h, j)
      BY <1>1 DEF LinksInv
    <3> QED
      BY <1>5, <2>1, <3>1 DEF Waits
  <2> QED
    BY <1>5, <2>2, <2>3, <2>4 DEF LinksInv
<1>8. ClassesInv(c, g, X)
  BY <1>1, <1>5, SameClasses
<1>9. PlacesInv(c, g, X) /\ KeysInv(c, g, n) /\ PendingInv(c, g)
  BY <1>1, <1>5, SamePlaces
<1>11. OutInInv(g, z)
  BY <1>1, <1>5 DEF OutInInv
<1>12. Good(c, g, 0, X, n, z)
  BY <1>5, <1>6, <1>7, <1>8, <1>9, <1>11 DEF Good
<1>13. l = Len(h.links) + 1 /\ l \in DOMAIN g.links /\ l # 0 /\ g.links[l] = 0
  BY <1>3, <1>5
<1>14. Fresh(g, l)
  BY <1>2, <1>3, <1>5, <1>13 DEF Fresh, Closures
<1> QED
  BY <1>12, <1>13, <1>14

\* Only elements that there are, and a new element that there is, are exempt.
LEMMA Narrowed ==
  ASSUME NEW c, NEW h, NEW X, NEW Y, NEW n, NEW z, Good(c, h, 0, X, n, z),
         \A e \in DOMAIN h.els : e \in Y <=> e \in X
  PROVE  Good(c, h, 0, Y, n, z)
<1>1. ClassesInv(c, h, Y)
  <2>1. ClassesInv(c, h, X) /\ CallbacksInv(c, h) /\ HooksInv(c, h)
    BY DEF Good
  <2> QED
    BY <2>1, SameClasses
<1>2. PlacesInv(c, h, Y)
  BY DEF Good, PlacesInv
<1> QED
  BY <1>1, <1>2 DEF Good

\* What Create makes: e is the current element, of view key, and enters with closure l.
Created(h, g, e, key, l) ==
  /\ DOMAIN h.els \subseteq DOMAIN g.els /\ \A f \in DOMAIN h.els : g.els[f].key = h.els[f].key
  /\ e \in DOMAIN g.els /\ g.cur = e /\ e # h.cur /\ g.els[e].key = key /\ ~Leaves(g, e)
  /\ g.links = h.links /\ g.shown = h.shown /\ g.mounted = h.mounted /\ ~g.leaving
  /\ h.dirty => g.dirty
  /\ g.entered \in {h.entered, e} /\ (h.mounted => g.entered = e)
  /\ InEnter(g, e) => g.cbs[g.els[e].enterCb].link = l
  /\ h.mounted /\ l # 0 => InEnter(g, e)
  /\ h.els = <<>> => DOMAIN g.els = {e}
  /\ h.cur # 0 => h.cur \in DOMAIN g.els /\ g.els[h.cur].inDom

\* The element that Create takes, and the heap with it
NewElement(h, m, e, key) ==
  IF \E f \in DOMAIN h.els : config.use = "kept" /\ h.els[f].key = key
  THEN m = h /\ e \in DOMAIN h.els /\ config.use = "kept" /\ h.els[e].key = key
  ELSE m = WithElement(h, key) /\ e = Len(h.els) + 1

LEMMA CreateTakes ==
  ASSUME NEW h, h \in HeapType, NEW key, NEW l, NEW g, g = Create(h, key, l)
  PROVE  \E m, e : NewElement(h, m, e, key) /\ g = Placed(enter(m, e, l), e)
<1> DEFINE K == {e \in DOMAIN h.els : config.use = "kept" /\ h.els[e].key = key}
           m == IF K = {} THEN WithElement(h, key) ELSE h
           e == IF K = {} THEN Len(m.els) ELSE CHOOSE f \in K : TRUE
<1>1. g = Placed(enter(m, e, l), e)
  BY Zenon DEF Create, Placed, WithElement
<1>2. NewElement(h, m, e, key)
  <2>1. CASE K = {}
    <3>1. m = WithElement(h, key) /\ e = Len(m.els)
      BY <2>1
    <3>2. m.els = Append(h.els, Element(key))
        BY <3>1 DEF HeapType, WithElement
    <3>3. e = Len(h.els) + 1
      <4>1. h.els \in Seq(ElementType)
        BY DEF HeapType
      <4> DEFINE b == Element(key)
      <4>2. Len(Append(h.els, b)) = Len(h.els) + 1
        <5> HIDE DEF b
        <5> QED
          BY <4>1
      <4> QED
        BY <3>1, <3>2, <4>2
    <3>4. ~\E f \in DOMAIN h.els : config.use = "kept" /\ h.els[f].key = key
      BY <2>1
    <3> HIDE DEF m, e
    <3> QED
      BY <3>1, <3>3, <3>4 DEF NewElement
  <2>2. CASE K # {}
    <3>1. m = h /\ e \in K
      BY <2>2
    <3> HIDE DEF m, e
    <3> QED
      BY <3>1 DEF NewElement
  <2> QED
    BY <2>1, <2>2
<1> HIDE DEF m, e
<1> QED
  BY <1>1, <1>2

\* It is not the current one, does not enter, and has no trace of an earlier transition if it is new.
LEMMA NewElementGood ==
  ASSUME NEW h, NEW z, Good(config, h, 0, {}, 0, z), config.use # "show",
         NEW key \in Views, h.cur # 0 => h.els[h.cur].key # key,
         NEW m, NEW e, NewElement(h, m, e, key)
  PROVE  /\ Good(config, m, 0, {}, 0, z) /\ e \in DOMAIN m.els /\ e # h.cur /\ ~InEnter(m, e)
         /\ m.els[e].key = key /\ DOMAIN h.els \subseteq DOMAIN m.els /\ m.cbs = h.cbs
         /\ \A f \in DOMAIN h.els : m.els[f].key = h.els[f].key
         /\ Others(m) = Others(h) /\ m.leaving = h.leaving /\ m.dirty = h.dirty
         /\ \/ config.use # "if"
            \/ m.els[e].classes = {} /\ \A j \in DOMAIN m.cbs : m.cbs[j].el # e
         /\ h.els = <<>> => DOMAIN m.els = {e}
<1>1. h \in HeapType /\ PlacesInv(config, h, {})
  BY DEF Good
<1>2. h.els \in Seq(ElementType) /\ h.cur \in Nat
  BY <1>1 DEF HeapType
<1>3. CASE \E f \in DOMAIN h.els : config.use = "kept" /\ h.els[f].key = key
  <2>1. m = h /\ e \in DOMAIN h.els /\ config.use = "kept" /\ h.els[e].key = key
    BY <1>3 DEF NewElement
  <2>2. e # h.cur /\ e # 0
    BY <1>2, <2>1
  <2>3. ~InEnter(h, e)
    BY <1>1, <2>1, <2>2 DEF PlacesInv
  <2>4. h.els # <<>>
    BY <2>1
  <2> QED
    BY <2>1, <2>2, <2>3, <2>4
<1>4. CASE ~\E f \in DOMAIN h.els : config.use = "kept" /\ h.els[f].key = key
  <2>1. m = WithElement(h, key) /\ e = Len(h.els) + 1
    BY <1>4 DEF NewElement
  <2>2. config.use = "kept" => \A f \in DOMAIN h.els : h.els[f].key # key
    BY <1>4
  <2>3. /\ Good(config, m, 0, {}, 0, z) /\ DOMAIN m.els = DOMAIN h.els \union {e} /\ e \notin DOMAIN h.els
        /\ m.els[e] = Element(key) /\ \A f \in DOMAIN h.els : m.els[f] = h.els[f]
        /\ \A j \in DOMAIN m.cbs : m.cbs[j].el # e
    BY <2>1, <2>2, AddedGood
  <2>4. Others(m) = Others(h) /\ m.leaving = h.leaving /\ m.dirty = h.dirty /\ m.cbs = h.cbs
    BY <1>1, <2>1 DEF Others, HeapType, WithElement
  <2>5. m.els[e].key = key /\ m.els[e].enterCb = 0 /\ m.els[e].classes = {}
    BY <2>3 DEF Element
  <2>6. e # h.cur
    <3>1. h.cur # 0 => h.cur \in DOMAIN h.els
      BY <1>1 DEF PlacesInv
    <3>2. e # 0
      BY <1>2, <2>1
    <3> QED
      BY <2>3, <3>1, <3>2
  <2>7. h.els = <<>> => DOMAIN m.els = {e}
    BY <2>3
  <2>8. ~InEnter(m, e)
    BY <2>5 DEF InEnter
  <2> QED
    BY <2>3, <2>4, <2>5, <2>6, <2>7, <2>8
<1> QED
  BY <1>3, <1>4

LEMMA CreateResult ==
  ASSUME InOutEnds(config), NEW h, NEW z, Good(config, h, 0, {}, 0, z), config.use # "show", ~h.leaving,
         NEW key \in Views, h.cur # 0 => h.els[h.cur].key # key,
         NEW l, Fresh(h, l), l # 0 => config.css \/ config.control,
         NEW g, g = Create(h, key, l), NEW old, old = h.cur
  PROVE  \E e : Good(config, g, 0, {old}, e, z) /\ Created(h, g, e, key, l)
<1>1. h \in HeapType /\ OutInInv(h, z)
  BY DEF Good
<1>2. PICK m, e : NewElement(h, m, e, key) /\ g = Placed(enter(m, e, l), e)
  BY <1>1, CreateTakes
<1>3. /\ Good(config, m, 0, {}, 0, z) /\ e \in DOMAIN m.els /\ e # h.cur /\ ~InEnter(m, e)
      /\ m.els[e].key = key /\ DOMAIN h.els \subseteq DOMAIN m.els /\ m.cbs = h.cbs
      /\ \A f \in DOMAIN h.els : m.els[f].key = h.els[f].key
      /\ Others(m) = Others(h) /\ m.leaving = h.leaving /\ m.dirty = h.dirty
      /\ \/ config.use # "if"
         \/ m.els[e].classes = {} /\ \A j \in DOMAIN m.cbs : m.cbs[j].el # e
      /\ h.els = <<>> => DOMAIN m.els = {e}
  BY <1>2, NewElementGood
<1>4. m.links = h.links /\ m.entered = h.entered /\ m.cur = h.cur /\ m.shown = h.shown /\ m.mounted = h.mounted
  BY <1>3 DEF Others
<1>5. \A j \in DOMAIN m.cbs : m.cbs[j].reopens => m.cbs[j].called
  BY <1>1, <1>3 DEF OutInInv
<1>6. Fresh(m, l)
  BY <1>3, <1>4 DEF Fresh
<1> DEFINE k == enter(m, e, l)
<1>7. Good(config, k, 0, {} \union {e}, 0, z) /\ Entered(config, m, k, e, l)
  BY <1>3, <1>5, <1>6, EnterResult
<1>8. Good(config, k, 0, {e}, 0, z)
  <2>1. {} \union {e} = {e}
    OBVIOUS
  <2> HIDE DEF k
  <2> QED
    BY <1>7, <2>1
<1>9. g = Placed(k, e)
  BY <1>2
<1> HIDE DEF k
<1>10. /\ DOMAIN k.els = DOMAIN m.els /\ \A f \in DOMAIN m.els : k.els[f].key = m.els[f].key
       /\ k.links = m.links /\ k.cur = m.cur /\ k.shown = m.shown /\ k.mounted = m.mounted
       /\ (k.leaving => m.leaving) /\ (m.dirty => k.dirty)
       /\ k.entered \in {m.entered, e} /\ (m.mounted => k.entered = e)
       /\ ~Leaves(k, e)
       /\ InEnter(k, e) => k.cbs[k.els[e].enterCb].link = l
       /\ m.mounted /\ l # 0 => InEnter(k, e)
  BY <1>3, <1>7 DEF Entered
<1>a. Good(config, g, 0, {old}, e, z) /\ AsPlaced(k, g, e)
  <2>1. e \in DOMAIN k.els /\ e # k.cur /\ ~k.leaving /\ old = k.cur /\ ~Leaves(k, e)
    BY <1>3, <1>4, <1>10
  <2> QED
    BY <1>8, <1>9, <2>1, PlacedGood
<1>11. /\ g.cur = e /\ DOMAIN g.els = DOMAIN k.els
       /\ \A f \in DOMAIN k.els : /\ g.els[f].key = k.els[f].key
                                  /\ (Leaves(g, f) <=> Leaves(k, f))
                                  /\ (InEnter(g, f) <=> InEnter(k, f)) /\ g.els[f].enterCb = k.els[f].enterCb
       /\ g.cbs = k.cbs /\ g.links = k.links /\ g.shown = k.shown /\ g.mounted = k.mounted
       /\ g.leaving = k.leaving /\ g.dirty = k.dirty /\ g.entered = k.entered
  BY <1>a DEF AsPlaced
<1>12. Created(h, g, e, key, l)
  <2>1. DOMAIN h.els \subseteq DOMAIN g.els /\ \A f \in DOMAIN h.els : g.els[f].key = h.els[f].key
    BY <1>3, <1>10, <1>11
  <2>2. e \in DOMAIN g.els /\ g.els[e].key = key /\ ~Leaves(g, e)
    BY <1>3, <1>10, <1>11
  <2>3. /\ g.links = h.links /\ g.shown = h.shown /\ g.mounted = h.mounted /\ ~g.leaving
        /\ h.dirty => g.dirty
        /\ g.entered \in {h.entered, e} /\ (h.mounted => g.entered = e)
    BY <1>3, <1>4, <1>10, <1>11
  <2>4. /\ InEnter(g, e) => g.cbs[g.els[e].enterCb].link = l
        /\ h.mounted /\ l # 0 => InEnter(g, e)
    BY <1>3, <1>4, <1>10, <1>11
  <2>5. h.els = <<>> => DOMAIN g.els = {e}
    BY <1>3, <1>10, <1>11
  <2>6. h.cur # 0 => h.cur \in DOMAIN g.els /\ g.els[h.cur].inDom
    <3>1. k.cur # 0 => k.cur \in DOMAIN k.els /\ k.els[k.cur].inDom
      BY <1>8 DEF Good, PlacesInv
    <3>2. k.cur = h.cur /\ h.cur # e
      BY <1>3, <1>4, <1>10
    <3> QED
      BY <1>a, <3>1, <3>2 DEF AsPlaced
  <2> QED
    BY <1>3, <1>11, <2>1, <2>2, <2>3, <2>4, <2>5, <2>6 DEF Created
<1> QED
  BY <1>a, <1>12

\* The insert hook takes away what leaves under the key of e, and could not be seen by it if it were delayed.
NoneDelayed(h, e) ==
  \A f \in DOMAIN h.els : f # e /\ h.els[f].inDom /\ h.els[f].key = h.els[e].key => ~Delayed(h, f)

LEMMA InsertGood ==
  ASSUME config.use \in {"if", "kept"}, NEW h, NEW e, Good(config, h, 0, {}, e, FALSE), e \in DOMAIN h.els, h.cur = e,
         config.use = "if" => NoneDelayed(h, e), NEW g, g = InsertHook(h, e)
  PROVE  Good(config, g, 0, {}, 0, FALSE) /\ Kept(h, g, 0)
<1> DEFINE p == h.pending[h.els[e].key]
           i == h.els[p].leaveCb
           z == FALSE
           X == {}
<1>1. /\ h \in HeapType /\ PlacesInv(config, h, {}) /\ KeysInv(config, h, e) /\ PendingInv(config, h)
      /\ CallbacksInv(config, h)
  BY DEF Good
<1>2. ~Leaves(h, e) /\ e # 0 /\ 0 \notin DOMAIN h.els /\ h.els[e].key \in Views
  <2>1. h.els[e] \in ElementType
    BY Zenon, <1>1, ElementChanges
  <2>2. e # 0 /\ 0 \notin DOMAIN h.els
    BY <1>1 DEF HeapType
  <2> QED
    BY <1>1, <2>1, <2>2 DEF KeysInv, ElementType
<1>3. p # 0 => p \in DOMAIN h.els /\ h.els[p].key = h.els[e].key /\ Leaves(h, p) /\ ~Delayed(h, p) /\ p # e
  BY <1>1, <1>2 DEF PendingInv
<1>4. g = IF p # 0 /\ i # 0 THEN CallLeaveCb(h, i) ELSE h
  BY <1>2 DEF InsertHook
<1>5. Kept(h, h, 0)
  BY DEF Kept, SameCallback
<1>6. CASE config.use = "kept" \/ p = 0
  <2>1. p = 0
    BY <1>1, <1>3, <1>6 DEF PlacesInv
  <2>2. g = h
    BY <1>4, <2>1
  <2>3. \A f \in DOMAIN h.els : h.els[f].inDom /\ h.els[f].key = h.els[e].key => f = e
    <3> SUFFICES ASSUME NEW f \in DOMAIN h.els, h.els[f].inDom, h.els[f].key = h.els[e].key, f # e PROVE FALSE
      OBVIOUS
    <3>1. config.use # "kept"
      BY <1>1 DEF PlacesInv
    <3>2. config.use = "if" /\ config.use # "show"
      BY <3>1
    <3>3. Leaves(h, f) /\ ~Delayed(h, f)
      BY <1>1, <3>2 DEF PlacesInv, NoneDelayed
    <3>4. h.pending[h.els[f].key] = f
      BY <1>1, <3>3 DEF PendingInv
    <3>5. f # 0
      BY <1>2
    <3> QED
      BY <2>1, <3>4, <3>5
  <2>4. KeysInv(config, h, 0)
    BY <1>1, <1>2, <2>3 DEF KeysInv
  <2> QED
    BY <1>5, <2>2, <2>4 DEF Good
<1>7. CASE config.use # "kept" /\ p # 0
  <2>0. config.use = "if"
    BY <1>7
  <2>1. /\ p \in DOMAIN h.els /\ h.els[p].key = h.els[e].key /\ Leaves(h, p) /\ ~Delayed(h, p) /\ p # e
    BY <1>3, <1>7
  <2>2. CallbacksOf(h, p) /\ i # 0
    BY <1>1, <2>1 DEF CallbacksInv, Leaves
  <2>3. Uncalled(h, i) /\ h.cbs[i].kind = "leave" /\ h.cbs[i].el = p
    BY Zenon, <2>2 DEF CallbacksOf
  <2>4. h.cbs[i].stage # "delayed"
    BY Zenon, <2>1 DEF Delayed
  <2>5. g = CallLeaveCb(h, i)
    BY Zenon, <1>4, <1>7, <2>2
  <2> HIDE DEF i, p, z, X
  <2> DEFINE r == h.cbs[i]
  <2>6. i \in DOMAIN h.cbs /\ ~r.called /\ r \in CallbackType /\ CallbackInv(config, h, i)
    BY <1>1, <2>3 DEF Uncalled, HeapType, CallbacksInv
  <2>7. ~r.cancelled /\ CallbackSet(h, h, i, r) /\ SameCallback(h.cbs[i], r) /\ r.stage = h.cbs[i].stage
    BY <1>1, <2>6 DEF CallbackInv, CallbackSet, SameCallback
  <2>8. Marked(h, h, i, r)
    BY <2>4, <2>6, <2>7 DEF Marked
  <2>9. MayLeave(config, h, i, r) /\ IsOf(h, i, p)
    BY <2>0, <2>3, <2>7 DEF MayLeave, IsOf
  <2>10. /\ LeftGood(config, g, X, e, z, p, r) /\ Kept(h, g, 0) /\ g.els[p].leaveCb = 0 /\ Left(h, g, p, r)
    <3>1. Good(config, h, 0, X, e, z)
      BY DEF X, z
    <3> HIDE DEF r
    <3> QED
      BY <2>3, <2>5, <2>8, <2>9, <3>1, LeaveEnds
  <2>11. Good(config, g, 0, {}, e, FALSE)
    BY <2>7, <2>10 DEF LeftGood, X, z
  <2>12. /\ DOMAIN g.els = DOMAIN h.els /\ g.cur = e /\ \A f \in DOMAIN h.els : g.els[f].key = h.els[f].key
    BY <2>10 DEF Kept, Others
  <2>13. \A f \in DOMAIN h.els : g.els[f].inDom => h.els[f].inDom
    BY <2>10 DEF Left
  <2>14. ~g.els[p].inDom
    <3>1. PlacesInv(config, g, {}) /\ ~Leaves(g, p)
      BY <2>10, <2>11 DEF Good, Leaves
    <3> QED
      BY <2>1, <2>12, <3>1 DEF PlacesInv
  <2>15. KeysInv(config, g, e)
    BY <2>11 DEF Good
  <2>16. \A f \in DOMAIN h.els : g.els[f].inDom /\ g.els[f].key = g.els[e].key => f = e
    <3> SUFFICES ASSUME NEW f \in DOMAIN h.els, g.els[f].inDom, g.els[f].key = g.els[e].key, f # e PROVE FALSE
      OBVIOUS
    <3>1. h.els[f].inDom /\ h.els[f].key = h.els[p].key /\ f # p
      BY <2>1, <2>12, <2>13, <2>14
    <3>2. h.els[p].inDom
      BY <1>1, <2>1 DEF PlacesInv
    <3> QED
      BY <1>1, <2>1, <3>1, <3>2 DEF KeysInv
  <2>17. KeysInv(config, g, 0)
    BY <1>2, <2>12, <2>15, <2>16 DEF KeysInv
  <2>18. Good(config, g, 0, {}, 0, FALSE)
    BY <2>11, <2>17 DEF Good
  <2> QED
    BY <2>10, <2>18
<1> QED
  BY <1>6, <1>7

LEMMA NoneExempt ==
  ASSUME NEW c, NEW h, NEW X, NEW n, NEW z, Good(c, h, 0, X, n, z), ~z
  PROVE  Good(c, h, 0, X, n, FALSE)
<1>1. OutInInv(h, FALSE)
  BY DEF Good, OutInInv
<1> QED
  BY <1>1 DEF Good

\* The old node is removed, if there is one.
MayRemove(m, old, n, l, reopens) ==
  /\ reopens \in BOOLEAN /\ l \in Nat /\ MayReopen(m, reopens)
  /\ old = 0 => ~reopens /\ l = 0
  /\ old # 0 => old \in DOMAIN m.els /\ m.els[old].inDom /\ old # n /\ old # m.cur
  /\ l # 0 => /\ config.mode = "in-out" /\ l \in DOMAIN m.links /\ m.links[l] = 0
              /\ \E f \in DOMAIN m.els : f # old /\ InEnter(m, f) /\ m.cbs[m.els[f].enterCb].link = l

LEMMA RemoveResult ==
  ASSUME InOutEnds(config), NEW m, NEW old, NEW n, NEW l, NEW reopens, config.use # "show",
         Good(config, m, 0, {old}, n, reopens), MayRemove(m, old, n, l, reopens),
         NEW g, g = IF old = 0 THEN m ELSE leave(m, old, l, reopens)
  PROVE  /\ Good(config, g, 0, {}, n, FALSE) /\ (old # 0 => Leaving(config, m, g, old, l)) /\ (old = 0 => g = m)
<1>1. m \in HeapType /\ PlacesInv(config, m, {old})
  BY DEF Good
<1>2. CASE old = 0
  <2>1. 0 \notin DOMAIN m.els
    BY <1>1 DEF HeapType
  <2>2. \A e \in DOMAIN m.els : e \in {} <=> e \in {old}
    BY <1>2, <2>1
  <2>3. Good(config, m, 0, {}, n, reopens)
    BY <2>2, Narrowed
  <2>4. Good(config, m, 0, {}, n, FALSE)
    BY <1>2, <2>3, NoneExempt DEF MayRemove
  <2> QED
    BY <1>2, <2>4
<1>3. CASE old # 0
  <2>1. g = leave(m, old, l, reopens)
    BY <1>3
  <2>2. /\ old \in DOMAIN m.els /\ m.els[old].inDom /\ old # n /\ old # m.cur /\ l \in Nat /\ MayReopen(m, reopens)
        /\ l # 0 => /\ config.mode = "in-out" /\ l \in DOMAIN m.links /\ m.links[l] = 0
                    /\ \E f \in DOMAIN m.els : f # old /\ InEnter(m, f) /\ m.cbs[m.els[f].enterCb].link = l
    BY <1>3 DEF MayRemove
  <2>3. ~Leaves(m, old)
    BY <1>1, <2>2 DEF PlacesInv
  <2>4. Callback("leave", old, 0, reopens, "delayed") \in CallbackType
    <3>1. reopens \in BOOLEAN /\ old \in Nat
      BY <1>1, <2>2 DEF MayRemove, HeapType
    <3> QED
      BY <3>1 DEF Callback, CallbackType, Running
  <2>5. Good(config, g, 0, {old} \ {old}, n, FALSE) /\ Leaving(config, m, g, old, l)
    BY <2>1, <2>2, <2>3, <2>4, LeaveResult
  <2>6. {old} \ {old} = {}
    OBVIOUS
  <2> QED
    BY <1>3, <2>5, <2>6
<1> QED
  BY <1>2, <1>3

\* What Replace can be called with
MayReplace(h, key, l, reopens) ==
  /\ h.entered = 0 /\ key \in Views \union {None}
  /\ h.cur # 0 => h.els[h.cur].key # key
  /\ key # None => ~h.leaving /\ ~reopens
  /\ reopens \in BOOLEAN /\ (reopens => h.leaving /\ h.cur # 0)
  /\ l \in Nat /\ Fresh(h, l) /\ (l # 0 => config.mode = "in-out" /\ h.mounted /\ key # None /\ h.cur # 0)
  /\ ~h.mounted => h.els = <<>>

Replaced(h, g, key) ==
  /\ g.entered = 0 /\ g.shown = h.shown /\ g.mounted = h.mounted
  /\ h.dirty => g.dirty
  /\ h.leaving => g.leaving \/ g.dirty
  /\ key = None => g.cur = 0
  /\ key # None => g.cur # 0 /\ g.els[g.cur].key = key

NoEntered(h) == [h EXCEPT !.entered = 0]

LEMMA ReplaceByNothing ==
  ASSUME InOutEnds(config), config.use \in {"if", "kept"}, NEW h, NEW l, NEW reopens,
         Good(config, h, 0, {}, 0, reopens), MayReplace(h, None, l, reopens), NEW g, g = Replace(h, None, l, reopens)
  PROVE  Good(config, g, 0, {}, 0, FALSE) /\ Replaced(h, g, None)
<1> DEFINE old == h.cur
           m == [h EXCEPT !.cur = 0]
           k == IF old = 0 THEN m ELSE leave(m, old, l, reopens)
<1>1. h \in HeapType /\ PlacesInv(config, h, {}) /\ config.use # "show"
  BY DEF Good
<1>2. /\ m.els = h.els /\ m.cur = 0 /\ m.entered = h.entered /\ m.shown = h.shown /\ m.mounted = h.mounted
      /\ m.leaving = h.leaving /\ m.dirty = h.dirty
  BY <1>1 DEF HeapType
<1>3. Good(config, m, 0, {old}, 0, reopens)
  BY <1>1, ClearedGood
<1>4. g = InsertHook([k EXCEPT !.entered = 0], k.entered)
  BY DEF Replace
<1>5. k = IF old = 0 THEN m ELSE leave(m, old, l, reopens)
  OBVIOUS
<1>6. MayRemove(m, old, 0, l, reopens)
  BY <1>1, <1>2 DEF MayReplace, MayRemove, MayReopen, PlacesInv
<1>a. config.use # "show"
  OBVIOUS
<1> HIDE DEF m, k, old
<1>7. Good(config, k, 0, {}, 0, FALSE) /\ (old # 0 => Leaving(config, m, k, old, l)) /\ (old = 0 => k = m)
  BY <1>a, <1>3, <1>5, <1>6, RemoveResult
<1>8. /\ k.entered = 0 /\ k.cur = 0 /\ k.shown = h.shown /\ k.mounted = h.mounted
      /\ (h.dirty => k.dirty) /\ (h.leaving => k.leaving \/ k.dirty)
  BY <1>2, <1>7 DEF Leaving, MayReplace
<1>9. g = k
  <2>1. [k EXCEPT !.entered = 0] = k
    BY <1>7, <1>8 DEF Good, HeapType
  <2>2. k.entered = 0
    BY <1>8
  <2> QED
    BY <1>4, <2>1, <2>2 DEF InsertHook
<1> QED
  BY <1>7, <1>8, <1>9 DEF Replaced

\* The one delayed leave that somebody is to begin is that of the element that the one that enters replaced.
LEMMA NoneLeavesLater ==
  ASSUME NEW k, NEW e, NEW old, NEW l, Good(config, k, 0, {}, e, FALSE), k.cur = e, e \in DOMAIN k.els,
         InEnter(k, e) => k.cbs[k.els[e].enterCb].link = l,
         l # 0 => k.cbs[k.links[l]].el = old /\ k.els[old].key # k.els[e].key
  PROVE  NoneDelayed(k, e)
<1> SUFFICES ASSUME NEW f \in DOMAIN k.els, f # e, k.els[f].key = k.els[e].key, Delayed(k, f) PROVE FALSE
  BY DEF NoneDelayed
<1> DEFINE i == k.els[f].leaveCb
<1>1. /\ k \in HeapType /\ CallbacksInv(config, k) /\ LinksInv(config, k, 0) /\ PlacesInv(config, k, {})
  BY DEF Good
<1>2. i # 0 /\ k.cbs[i].stage = "delayed"
  BY DEF Delayed, Leaves
<1>3. Uncalled(k, i) /\ k.cbs[i].el = f
  BY <1>1, <1>2 DEF CallbacksInv, CallbacksOf
<1>4. PICK j \in DOMAIN k.cbs : ~k.cbs[j].called /\ LinkOf(k, j) = i
  BY <1>1, <1>2, <1>3 DEF LinksInv, Waits, Uncalled
<1> HIDE DEF i
<1>5. k.cbs[j].link # 0 /\ k.links[k.cbs[j].link] = i
  BY <1>2, <1>4 DEF LinkOf
<1>6. CallbackInv(config, k, j) /\ k.cbs[j].kind \in {"enter", "leave"}
  <2>1. k.cbs[j] \in CallbackType
    BY <1>1, <1>4, CallbackChanges
  <2>2. k.cbs[j].kind \in {"enter", "leave"}
    BY <2>1 DEF CallbackType
  <2>3. CallbackInv(config, k, j)
    BY <1>1, <1>4 DEF CallbacksInv
  <2> QED
    BY <2>2, <2>3
<1>7. k.cbs[j].kind = "enter" /\ k.cbs[j].el \in DOMAIN k.els /\ k.els[k.cbs[j].el].enterCb = j
  BY <1>4, <1>5, <1>6 DEF CallbackInv
<1>8. InEnter(k, k.cbs[j].el)
  <2>1. j # 0
    BY <1>1, <1>4 DEF HeapType
  <2> QED
    BY <1>7, <2>1 DEF InEnter
<1>9. k.cbs[j].el = e
  BY <1>1, <1>7, <1>8 DEF PlacesInv
<1>10. k.cbs[j].link = l
  BY <1>7, <1>8, <1>9
<1>11. f = old
  BY <1>3, <1>5, <1>10
<1> QED
  BY <1>5, <1>10, <1>11

LEMMA ReplaceByView ==
  ASSUME InOutEnds(config), config.use \in {"if", "kept"}, NEW h, NEW l, NEW reopens, NEW key \in Views,
         Good(config, h, 0, {}, 0, reopens), MayReplace(h, key, l, reopens), NEW g, g = Replace(h, key, l, reopens)
  PROVE  Good(config, g, 0, {}, 0, FALSE) /\ Replaced(h, g, key)
<1> DEFINE old == h.cur
           m == Create(h, key, l)
           k == IF old = 0 THEN m ELSE leave(m, old, l, reopens)
           q == NoEntered(k)
<1>0. key # None
  BY Zenon, ConfigsAssumption
<1>1. h \in HeapType /\ PlacesInv(config, h, {}) /\ config.use # "show"
  BY DEF Good
<1>2. /\ h.entered = 0 /\ (old # 0 => h.els[old].key # key) /\ ~h.leaving /\ ~reopens /\ reopens \in BOOLEAN
      /\ l \in Nat /\ Fresh(h, l) /\ (l # 0 => config.mode = "in-out" /\ h.mounted /\ old # 0)
      /\ (~h.mounted => h.els = <<>>)
  BY <1>0 DEF MayReplace
<1>3. l # 0 => config.css \/ config.control
  BY <1>2 DEF InOutEnds
<1>4. PICK e : Good(config, m, 0, {old}, e, reopens) /\ Created(h, m, e, key, l)
  <2> HIDE DEF m, old
  <2> DEFINE o == h.cur
  <2>1. old = o /\ m = Create(h, key, l)
    BY DEF m, old
  <2> HIDE DEF o
  <2>2. (o # 0 => h.els[o].key # key) /\ o = h.cur
    BY <1>2, <2>1 DEF o
  <2> QED
    BY <1>1, <1>2, <1>3, <2>1, <2>2, CreateResult
<1>5. g = InsertHook(q, k.entered)
  BY <1>0 DEF Replace, NoEntered
<1>6. k = IF old = 0 THEN m ELSE leave(m, old, l, reopens)
  OBVIOUS
<1>7. q = NoEntered(k) /\ config.use # "show"
  BY <1>1
<1>8. old = h.cur
  OBVIOUS
<1> HIDE DEF q, k, m, old
<1>9. /\ DOMAIN h.els \subseteq DOMAIN m.els /\ \A f \in DOMAIN h.els : m.els[f].key = h.els[f].key
      /\ e \in DOMAIN m.els /\ m.cur = e /\ e # old /\ m.els[e].key = key
      /\ m.links = h.links /\ m.shown = h.shown /\ m.mounted = h.mounted
      /\ h.dirty => m.dirty
      /\ m.entered \in {0, e} /\ (h.mounted => m.entered = e)
      /\ InEnter(m, e) => m.cbs[m.els[e].enterCb].link = l
      /\ h.mounted /\ l # 0 => InEnter(m, e)
      /\ h.els = <<>> => DOMAIN m.els = {e}
      /\ old # 0 => old \in DOMAIN m.els /\ m.els[old].inDom
  BY <1>2, <1>4, <1>8 DEF Created
<1>10. m \in HeapType /\ CallbacksInv(config, m) /\ e # 0
  <2>1. m \in HeapType /\ CallbacksInv(config, m)
    BY <1>4 DEF Good
  <2> QED
    BY <1>9, <2>1 DEF HeapType
<1>11. MayRemove(m, old, e, l, reopens)
  <2>1. l # 0 => l \in DOMAIN m.links /\ m.links[l] = 0
    BY <1>2, <1>9 DEF Fresh
  <2>2. l # 0 => \E f \in DOMAIN m.els : f # old /\ InEnter(m, f) /\ m.cbs[m.els[f].enterCb].link = l
    BY <1>2, <1>9
  <2>3. MayReopen(m, reopens)
    BY <1>2 DEF MayReopen
  <2> QED
    BY <1>2, <1>9, <2>1, <2>2, <2>3 DEF MayRemove
<1>12. Good(config, k, 0, {}, e, FALSE) /\ (old # 0 => Leaving(config, m, k, old, l)) /\ (old = 0 => k = m)
  BY <1>4, <1>6, <1>7, <1>11, RemoveResult
<1>13. /\ DOMAIN k.els = DOMAIN m.els /\ \A f \in DOMAIN m.els : k.els[f].key = m.els[f].key
       /\ k.entered = m.entered /\ k.cur = e /\ k.shown = h.shown /\ k.mounted = h.mounted
       /\ h.dirty => k.dirty
       /\ DOMAIN m.cbs \subseteq DOMAIN k.cbs /\ \A j \in DOMAIN m.cbs : k.cbs[j].link = m.cbs[j].link
       /\ k.els[e].enterCb = m.els[e].enterCb
       /\ l # 0 => k.cbs[k.links[l]].el = old
  BY <1>2, <1>9, <1>12 DEF Leaving
<1>14. /\ q \in HeapType /\ q.els = k.els /\ q.cbs = k.cbs /\ q.links = k.links /\ q.pending = k.pending /\ q.cur = k.cur
       /\ q.leaving = k.leaving /\ q.entered = 0 /\ q.shown = k.shown /\ q.mounted = k.mounted /\ q.dirty = k.dirty
  <2>1. k \in HeapType
    BY <1>12 DEF Good
  <2> QED
    BY <1>7, <2>1 DEF NoEntered, HeapType
<1>15. Good(config, q, 0, {}, e, FALSE)
  BY <1>12, <1>14, SameGood
<1>16. e \in DOMAIN q.els /\ q.cur = e /\ q.els[e].key = key
  BY <1>9, <1>13, <1>14
<1>17. Good(config, g, 0, {}, 0, FALSE) /\ Kept(q, g, 0)
  <2>1. CASE k.entered = 0
    <3>1. g = q
      BY <1>5, <2>1 DEF InsertHook
    <3>2. DOMAIN q.els = {e}
      BY <1>2, <1>9, <1>10, <1>13, <1>14, <2>1
    <3>3. KeysInv(config, q, 0)
      BY <1>10, <3>2 DEF KeysInv
    <3>4. Good(config, q, 0, {}, 0, FALSE)
      BY <1>15, <3>3 DEF Good
    <3>5. Kept(q, q, 0)
      BY DEF Kept, SameCallback
    <3> QED
      BY <3>1, <3>4, <3>5
  <2>2. CASE k.entered # 0
    <3>1. g = InsertHook(q, e)
      BY <1>5, <1>9, <1>13, <2>2
    <3>2. InEnter(q, e) => q.cbs[q.els[e].enterCb].link = l
      <4> SUFFICES ASSUME InEnter(q, e) PROVE q.cbs[q.els[e].enterCb].link = l
        OBVIOUS
      <4>1. InEnter(m, e)
        BY <1>13, <1>14 DEF InEnter
      <4>2. m.els[e].enterCb \in DOMAIN m.cbs
        BY <1>9, <1>10, <4>1 DEF CallbacksInv, CallbacksOf, Uncalled, InEnter
      <4> QED
        BY <1>9, <1>13, <1>14, <4>1, <4>2
    <3>3. l # 0 => q.cbs[q.links[l]].el = old /\ q.els[old].key # q.els[e].key
      <4> SUFFICES ASSUME l # 0 PROVE q.cbs[q.links[l]].el = old /\ q.els[old].key # q.els[e].key
        OBVIOUS
      <4>1. old # 0 /\ old \in DOMAIN h.els
        BY <1>1, <1>2, <1>8 DEF PlacesInv
      <4>2. q.els[old].key = h.els[old].key /\ q.els[e].key = key
        BY <1>9, <1>13, <1>14, <1>16, <4>1
      <4> QED
        BY <1>2, <1>13, <1>14, <4>1, <4>2
    <3>4. NoneDelayed(q, e)
      BY <1>15, <1>16, <3>2, <3>3, NoneLeavesLater
    <3> QED
      BY <1>15, <1>16, <3>1, <3>4, InsertGood
  <2> QED
    BY <2>1, <2>2
<1>18. /\ g.entered = 0 /\ g.shown = h.shown /\ g.mounted = h.mounted /\ g.cur = e /\ (h.dirty => g.dirty)
       /\ g.els[e].key = key
  BY <1>13, <1>14, <1>16, <1>17 DEF Kept, Others
<1> QED
  BY <1>0, <1>2, <1>10, <1>17, <1>18 DEF Replaced

\* What a rendering makes of the heap
Rendered(h, g) ==
  /\ g.entered = 0 /\ g.mounted = h.mounted /\ g.shown = h.shown
  /\ ~g.dirty => IF g.cur # 0 THEN g.els[g.cur].key = want ELSE want = None \/ g.leaving

WithLeaving(h) == [h EXCEPT !.leaving = TRUE]

LEMMA RenderGood ==
  ASSUME InOutEnds(config), config.use \in {"if", "kept"}, want \in Views \union {None},
         NEW h, Good(config, h, 0, {}, 0, FALSE), h.entered = 0,
         ~h.mounted => h.els = <<>>, NEW g, g = Render(h)
  PROVE  Good(config, g, 0, {}, 0, FALSE) /\ Rendered(h, g)
<1> DEFINE no == FALSE
           yes == TRUE
           differs == h.cur # 0 /\ h.els[h.cur].key # want
           linked == WithLink(h)
           left == WithLeaving(h)
<1>1. h \in HeapType /\ PlacesInv(config, h, {}) /\ Good(config, h, 0, {}, 0, no) /\ ~no /\ no \in BOOLEAN /\ yes /\ yes \in BOOLEAN
  BY DEF Good
<1>2. None \notin Views
  BY Zenon, ConfigsAssumption
<1>3. CASE h.cur # 0 /\ ~differs
  <2>1. g = h
    BY <1>3 DEF Render
  <2> QED
    BY <1>3, <2>1 DEF Rendered
<1>4. Fresh(h, 0) /\ 0 \in Nat
  BY DEF Fresh
<1>5. CASE ~(h.cur # 0 /\ ~differs) /\ want = None
  <2>1. g = Replace(h, None, 0, no)
    BY <1>5 DEF Render
  <2>2. MayReplace(h, None, 0, no)
    BY <1>1, <1>4, <1>5 DEF MayReplace
  <2> HIDE DEF no
  <2>3. Good(config, g, 0, {}, 0, FALSE) /\ Replaced(h, g, None)
    BY <1>1, <2>1, <2>2, ReplaceByNothing
  <2> QED
    BY <1>5, <2>3 DEF Replaced, Rendered
<1>6. h.leaving => h.cur = 0
  BY DEF Good, OutInInv
<1>7. CASE ~(h.cur # 0 /\ ~differs) /\ want # None /\ h.leaving
  <2>1. g = h
    BY <1>7 DEF Render
  <2> QED
    BY <1>6, <1>7, <2>1 DEF Rendered
<1>8. CASE want # None /\ ~h.leaving /\ differs /\ config.mode = "out-in"
  <2>1. g = Replace(left, None, 0, yes)
    BY <1>8 DEF Render, WithLeaving
  <2>2. left = [h EXCEPT !.leaving = TRUE]
    BY DEF WithLeaving
  <2>3. Good(config, left, 0, {}, 0, yes)
    <3> HIDE DEF left, yes
    <3> QED
      BY <1>1, <1>8, <2>2, LeavingSet
  <2>4. /\ left.leaving /\ left.els = h.els /\ left.cur = h.cur /\ left.entered = h.entered /\ left.mounted = h.mounted
        /\ left.shown = h.shown /\ left.links = h.links /\ left.cbs = h.cbs
    BY <1>1, <2>2 DEF HeapType
  <2>5. h.els[h.cur].key # None
    <3>1. h.els[h.cur] \in ElementType
      BY Zenon, <1>1, <1>8, ElementChanges DEF PlacesInv
    <3> QED
      BY <1>2, <3>1 DEF ElementType
  <2>6. Fresh(left, 0)
    BY DEF Fresh
  <2> HIDE DEF left
  <2>7. MayReplace(left, None, 0, yes)
    BY <1>1, <1>4, <1>8, <2>4, <2>5, <2>6 DEF MayReplace
  <2> HIDE DEF yes
  <2>8. Good(config, g, 0, {}, 0, FALSE) /\ Replaced(left, g, None)
    BY <2>1, <2>3, <2>7, ReplaceByNothing
  <2> QED
    BY <2>4, <2>8 DEF Replaced, Rendered
<1>9. CASE want # None /\ ~h.leaving /\ differs /\ config.mode = "in-out" /\ h.mounted
  <2> DEFINE l == Len(linked.links)
  <2>1. g = Replace(linked, want, l, no)
    BY <1>9 DEF Render, WithLink
  <2> HIDE DEF linked, no
  <2>2. linked = WithLink(h)
    BY DEF linked
  <2>3. Good(config, linked, 0, {}, 0, no) /\ Fresh(linked, l)
    BY <1>1, <2>2, LinkAdded
  <2>4. /\ linked.leaving = h.leaving /\ linked.els = h.els /\ linked.cur = h.cur /\ linked.entered = h.entered
        /\ linked.mounted = h.mounted /\ linked.shown = h.shown /\ linked.links \in Seq(Nat)
    BY <1>1, <2>2, <2>3 DEF HeapType, WithLink, Good
  <2>5. l \in Nat
    BY <2>4
  <2> HIDE DEF l
  <2>6. MayReplace(linked, want, l, no)
    BY <1>1, <1>9, <2>3, <2>4, <2>5 DEF MayReplace
  <2>7. want \in Views
    BY <1>9
  <2>8. Good(config, g, 0, {}, 0, FALSE) /\ Replaced(linked, g, want)
    BY <2>1, <2>3, <2>6, <2>7, ReplaceByView
  <2> QED
    BY <1>9, <2>4, <2>8 DEF Replaced, Rendered
<1>10. CASE want # None /\ ~h.leaving /\ ~(h.cur # 0 /\ ~differs) /\ ~(differs /\ config.mode \in {"out-in", "in-out"})
  <2>1. g = Replace(h, want, 0, no)
    BY <1>10 DEF Render
  <2>2. MayReplace(h, want, 0, no)
    BY <1>1, <1>4, <1>10 DEF MayReplace
  <2>3. want \in Views
    BY <1>10
  <2> HIDE DEF no
  <2>4. Good(config, g, 0, {}, 0, FALSE) /\ Replaced(h, g, want)
    BY <1>1, <2>1, <2>2, <2>3, ReplaceByView
  <2> QED
    BY <1>10, <2>4 DEF Replaced, Rendered
<1>11. differs => h.mounted
  BY <1>1 DEF PlacesInv
<1> QED
  BY <1>3, <1>5, <1>7, <1>8, <1>9, <1>10, <1>11

-----------------------------------------------------------------------------
(***************************************************************************)
(* v-show.                                                                 *)
(***************************************************************************)
LEMMA CurrentExempt ==
  ASSUME NEW c, NEW h, NEW e, NEW z, Good(c, h, 0, {e}, 0, z), h.cur = e
  PROVE  Good(c, h, 0, {}, 0, z)
<1>1. ClassesInv(c, h, {})
  <2>1. ClassesInv(c, h, {e}) /\ CallbacksInv(c, h) /\ HooksInv(c, h)
    BY DEF Good
  <2> QED
    BY <2>1, SameClasses
<1>2. PlacesInv(c, h, {})
  BY DEF Good, PlacesInv
<1> QED
  BY <1>1, <1>2 DEF Good

\* The one element is made when v-show is bound.
Bound(h, g, b, value) ==
  /\ b \in ElementType /\ b.inDom /\ (b.display <=> value)
  /\ b.classes = {} /\ b.enterCb = 0 /\ b.leaveCb = 0 /\ b.hooks = <<>>
  /\ g \in HeapType /\ DOMAIN g.els = {1} /\ g.els[1] = b /\ Len(g.els) = 1
  /\ g.cur = 1 /\ (g.shown <=> value) /\ g.mounted = h.mounted /\ g.entered = h.entered
  /\ g.cbs = h.cbs /\ g.links = h.links /\ g.pending = h.pending /\ g.leaving = h.leaving

BoundElement(value) == [Element(CHOOSE v \in Views : TRUE) EXCEPT !.inDom = TRUE, !.display = value]

WithBound(h, b, value) == [h EXCEPT !.els = Append(@, b), !.cur = 1, !.shown = value]

LEMMA BindResult ==
  ASSUME NEW h \in HeapType, h.els = <<>>, NEW value \in BOOLEAN, NEW b, b = BoundElement(value),
         NEW g, g = WithBound(h, b, value)
  PROVE  Bound(h, g, b, value)
<1> DEFINE v == CHOOSE v \in Views : TRUE
           e == Element(v)
<1>1. v \in Views
  BY Zenon, ConfigsAssumption
<1> HIDE DEF v
<1>2. /\ e \in ElementType /\ e.classes = {} /\ e.enterCb = 0 /\ e.leaveCb = 0 /\ e.hooks = <<>>
  BY <1>1 DEF Element, ElementType
<1>3. b = [e EXCEPT !.inDom = TRUE, !.display = value]
  BY DEF BoundElement, v
<1> HIDE DEF e
<1>4. /\ b \in ElementType /\ b.inDom /\ (b.display <=> value)
      /\ b.classes = {} /\ b.enterCb = 0 /\ b.leaveCb = 0 /\ b.hooks = <<>>
  BY <1>2, <1>3 DEF ElementType
<1> DEFINE s == Append(h.els, b)
<1>5. s \in Seq(ElementType) /\ DOMAIN s = {1} /\ s[1] = b /\ Len(s) = 1
  BY <1>4
<1>6. g = [h EXCEPT !.els = s, !.cur = 1, !.shown = value]
  BY DEF WithBound
<1> HIDE DEF s
<1>7. /\ g \in HeapType /\ g.els = s
      /\ g.cur = 1 /\ (g.shown <=> value) /\ g.mounted = h.mounted /\ g.entered = h.entered
      /\ g.cbs = h.cbs /\ g.links = h.links /\ g.pending = h.pending /\ g.leaving = h.leaving
  <2>1. g \in HeapType
    <3> DEFINE k == [h EXCEPT !.els = s, !.cur = 1]
    <3>1. s \in Seq(ElementType) /\ 1 \in Nat
      BY <1>5
    <3>2. k \in HeapType
      BY <3>1 DEF HeapType
    <3>3. g = [k EXCEPT !.shown = value]
      BY <1>6
    <3> HIDE DEF k
    <3> QED
      BY <3>2, <3>3 DEF HeapType
  <2>2. /\ g.els = s /\ g.cur = 1 /\ g.mounted = h.mounted /\ g.entered = h.entered
        /\ g.cbs = h.cbs /\ g.links = h.links /\ g.pending = h.pending /\ g.leaving = h.leaving
    BY <1>6 DEF HeapType
  <2>3. g.shown = value
    BY <1>6 DEF HeapType
  <2> QED
    BY <2>1, <2>2, <2>3
<1> QED
  BY <1>4, <1>5, <1>7 DEF Bound

LEMMA BoundGood ==
  ASSUME NEW h, NEW z, Good(config, h, 0, {}, 0, z), config.use = "show", h.cur = 0, NEW b, NEW value, NEW g, Bound(h, g, b, value)
  PROVE  Good(config, g, 0, {}, 0, z) /\ ~InEnter(g, 1) /\ ~Leaves(g, 1)
<1>1. h \in HeapType /\ CallbacksInv(config, h) /\ LinksInv(config, h, 0) /\ OutInInv(h, z) /\ PlacesInv(config, h, {})
  BY DEF Good
<1>2. h.els \in Seq(ElementType) /\ h.cbs \in Seq(CallbackType)
  BY <1>1 DEF HeapType
<1>3. DOMAIN h.els = {}
  BY <1>1, <1>2 DEF PlacesInv
<1>4. DOMAIN h.cbs = {}
  BY <1>1, <1>3 DEF CallbacksInv, CallbackInv
<1>5. /\ b.inDom /\ b.classes = {} /\ b.enterCb = 0 /\ b.leaveCb = 0 /\ b.hooks = <<>>
      /\ g \in HeapType /\ DOMAIN g.els = {1} /\ g.els[1] = b /\ Len(g.els) = 1
      /\ g.cur = 1 /\ g.cbs = h.cbs /\ g.links = h.links /\ g.leaving = h.leaving
  BY DEF Bound
<1>6. ~InEnter(g, 1) /\ ~Leaves(g, 1) /\ ~Delayed(g, 1)
  BY <1>5 DEF InEnter, Leaves, Delayed
<1>7. CallbacksInv(config, g)
  BY <1>4, <1>5 DEF CallbacksInv, CallbacksOf
<1>8. HooksInv(config, g)
  <2>1. PairsUp(config, <<>>) /\ LastHook(<<>>) = "none"
    BY DEF PairsUp, LastHook
  <2>2. HookInv(config, g, 1)
    BY <1>5, <1>6, <2>1 DEF HookInv
  <2> QED
    BY <1>5, <2>2 DEF HooksInv
<1>9. LinksInv(config, g, 0)
  BY <1>1, <1>5, SameLinks
<1>10. ClassesInv(config, g, {})
  BY <1>4, <1>5 DEF ClassesInv, ClassesFit
<1>11. PlacesInv(config, g, {})
  BY <1>5, <1>6 DEF PlacesInv
<1>12. KeysInv(config, g, 0)
  BY <1>5 DEF KeysInv
<1>13. PendingInv(config, g)
  BY DEF PendingInv
<1>14. OutInInv(g, z)
  BY <1>1, <1>4, <1>5 DEF OutInInv
<1> QED
  BY <1>5, <1>6, <1>7, <1>8, <1>9, <1>10, <1>11, <1>12, <1>13, <1>14 DEF Good

\* What the directive makes of the heap
Displayed(h, g) ==
  /\ g.entered = 0 /\ g.mounted = h.mounted /\ g.cur = 1 /\ (g.shown <=> want # None)
  /\ ShownInv(config, g)

WithShown(h, value) == [h EXCEPT !.shown = value]

LEMMA WithShownGood ==
  ASSUME NEW h, NEW z, Good(config, h, 0, {}, 0, z), NEW value \in BOOLEAN, NEW g, g = WithShown(h, value)
  PROVE  /\ Good(config, g, 0, {}, 0, z) /\ (g.shown <=> value)
         /\ g.els = h.els /\ g.cbs = h.cbs /\ g.cur = h.cur /\ g.mounted = h.mounted /\ g.entered = h.entered
<1>1. h \in HeapType
  BY DEF Good
<1>2. g \in HeapType
  BY <1>1 DEF WithShown, HeapType
<1>3. /\ g.els = h.els /\ g.cbs = h.cbs /\ g.cur = h.cur /\ g.mounted = h.mounted /\ g.entered = h.entered
      /\ g.links = h.links /\ g.pending = h.pending /\ g.leaving = h.leaving
  BY <1>1 DEF WithShown, HeapType
<1>4. g.shown = value
  BY <1>1 DEF WithShown, HeapType
<1> HIDE DEF WithShown
<1>5. Good(config, g, 0, {}, 0, z)
  BY <1>2, <1>3, SameGood
<1> QED
  BY <1>3, <1>4, <1>5

\* The element is displayed: it enters.
LEMMA DisplayGood ==
  ASSUME InOutEnds(config), config.use = "show", NEW h, NEW z, Good(config, h, 0, {}, 0, z), h.cur = 1, h.entered = 0,
         h.shown, ~InEnter(h, 1), h.mounted \/ (h.els[1].display /\ ~Leaves(h, 1)), NEW g, g = enter(h, 1, 0)
  PROVE  /\ Good(config, g, 0, {}, 0, z)
         /\ g.entered = 0 /\ g.mounted = h.mounted /\ g.cur = 1 /\ g.shown /\ g.els[1].display /\ ~Leaves(g, 1)
<1>1. 1 \in DOMAIN h.els /\ OutInInv(h, z)
  BY DEF Good, PlacesInv
<1>2. \A j \in DOMAIN h.cbs : h.cbs[j].reopens => h.cbs[j].called
  BY <1>1 DEF OutInInv
<1>3. Fresh(h, 0)
  BY DEF Fresh
<1>4. Good(config, g, 0, {} \union {1}, 0, z) /\ Entered(config, h, g, 1, 0)
  <2>1. config.use # "if"
    OBVIOUS
  <2> QED
    BY <1>1, <1>2, <1>3, <2>1, EnterResult
<1>5. g.entered = 0 /\ g.mounted = h.mounted /\ g.cur = 1 /\ g.shown /\ g.els[1].display /\ ~Leaves(g, 1)
  BY <1>4 DEF Entered
<1>6. {} \union {1} = {1}
  OBVIOUS
<1>7. Good(config, g, 0, {1}, 0, z)
  BY <1>4, <1>6
<1>8. Good(config, g, 0, {}, 0, z)
  BY <1>5, <1>7, CurrentExempt
<1> QED
  BY <1>5, <1>8

\* It is hidden when it has left.
LEMMA HideGood ==
  ASSUME InOutEnds(config), config.use = "show", NEW h, NEW no \in BOOLEAN, ~no, Good(config, h, 0, {}, 0, no),
         h.cur = 1, h.entered = 0, ~h.shown, ~Leaves(h, 1), NEW g, g = leave(h, 1, 0, no)
  PROVE  /\ Good(config, g, 0, {}, 0, FALSE)
         /\ g.entered = 0 /\ g.mounted = h.mounted /\ g.cur = 1 /\ ~g.shown
         /\ ~InEnter(g, 1) /\ (Leaves(g, 1) \/ ~g.els[1].display)
<1>1. 1 \in DOMAIN h.els /\ h.els[1].inDom
  BY DEF Good, PlacesInv
<1>2. Callback("leave", 1, 0, no, "delayed") \in CallbackType
  BY DEF Callback, CallbackType, Running
<1>3. MayReopen(h, no)
  BY DEF MayReopen
<1> DEFINE X == {}
<1>4. Good(config, g, 0, X \ {1}, 0, FALSE) /\ Leaving(config, h, g, 1, 0)
  <2>1. Good(config, h, 0, X, 0, no)
    OBVIOUS
  <2> HIDE DEF X
  <2>2. 1 # 0 /\ 0 \in Nat /\ (config.use # "show" => 1 # h.cur)
    OBVIOUS
  <2> QED
    BY <1>1, <1>2, <1>3, <2>1, <2>2, LeaveResult
<1>5. X \ {1} = {}
  OBVIOUS
<1>6. Good(config, g, 0, {}, 0, FALSE)
  <2> HIDE DEF X
  <2> QED
    BY <1>4, <1>5
<1>7. /\ g.entered = 0 /\ g.mounted = h.mounted /\ g.cur = 1 /\ ~g.shown
      /\ ~InEnter(g, 1) /\ (Leaves(g, 1) \/ ~g.els[1].display)
  BY <1>4 DEF Leaving
<1> QED
  BY <1>6, <1>7

LEMMA ShowGood ==
  ASSUME InOutEnds(config), config.use = "show", NEW h, Good(config, h, 0, {}, 0, FALSE), h.entered = 0, ShownInv(config, h),
         h.cur # 0 => h.mounted, NEW g, g = Show(h)
  PROVE  Good(config, g, 0, {}, 0, FALSE) /\ Displayed(h, g)
<1> DEFINE no == FALSE
           value == want # None
           b == BoundElement(value)
           made == WithBound(h, b, value)
<1>1. /\ h \in HeapType /\ PlacesInv(config, h, {}) /\ Good(config, h, 0, {}, 0, no) /\ ~no /\ no \in BOOLEAN
      /\ value \in BOOLEAN
  BY DEF Good
<1>2. h.cur \in {0, 1} /\ (h.cur = 0 => h.els = <<>>)
  BY <1>1 DEF PlacesInv, HeapType
<1> DEFINE R == IF value = h.shown THEN h ELSE IF value THEN enter([h EXCEPT !.shown = TRUE], 1, 0)
                ELSE leave([h EXCEPT !.shown = FALSE], 1, 0, FALSE)
<1>a. h.cur = 1 => g = R
  BY DEF Show
<1> HIDE DEF R
<1>b. R = IF value <=> h.shown THEN h ELSE IF value THEN enter(WithShown(h, value), 1, 0)
          ELSE leave(WithShown(h, value), 1, 0, no)
  <2>0. h.shown \in BOOLEAN /\ value \in BOOLEAN
    BY <1>1 DEF HeapType
  <2>1. (value = h.shown) <=> (value <=> h.shown)
    <3> HIDE DEF value
    <3> QED
      BY <2>0
  <2>2. (value => value = TRUE) /\ (~value => value = FALSE)
    BY <2>0
  <2> HIDE DEF value
  <2>3. (value => WithShown(h, value) = [h EXCEPT !.shown = TRUE]) /\ (~value => WithShown(h, value) = [h EXCEPT !.shown = FALSE])
    BY <2>2 DEF WithShown
  <2>4. CASE value
    BY <2>1, <2>3, <2>4 DEF R
  <2>5. CASE ~value
    BY <2>1, <2>3, <2>5 DEF R
  <2> QED
    BY <2>4, <2>5
<1>3. CASE h.cur = 0
  <2>1. g = IF value THEN enter(made, 1, 0) ELSE made
    BY <1>3 DEF Show, WithBound, BoundElement
  <2> HIDE DEF b, value, made, no
  <2>2. b = BoundElement(value) /\ made = WithBound(h, b, value)
    BY DEF b, made
  <2>3. Bound(h, made, b, value)
    BY <1>1, <1>2, <1>3, <2>2, BindResult
  <2>4. Good(config, made, 0, {}, 0, no) /\ ~InEnter(made, 1) /\ ~Leaves(made, 1)
    BY <1>1, <1>3, <2>3, BoundGood
  <2>5. /\ made.els[1].display <=> value
        /\ made.cur = 1 /\ (made.shown <=> value) /\ made.mounted = h.mounted /\ made.entered = 0
    BY <2>3 DEF Bound
  <2>6. CASE value
    <3>1. /\ Good(config, g, 0, {}, 0, no)
          /\ g.entered = 0 /\ g.mounted = made.mounted /\ g.cur = 1 /\ g.shown /\ g.els[1].display /\ ~Leaves(g, 1)
      BY <2>1, <2>4, <2>5, <2>6, DisplayGood
    <3>2. ShownInv(config, g)
      BY <3>1 DEF ShownInv
    <3> QED
      BY <2>5, <2>6, <3>1, <3>2 DEF Displayed, no, value
  <2>7. CASE ~value
    <3>1. g = made
      BY <2>1, <2>7
    <3>2. ShownInv(config, g)
      BY <2>4, <2>5, <2>7, <3>1 DEF ShownInv
    <3> QED
      BY <2>4, <2>5, <2>7, <3>1, <3>2 DEF Displayed, no, value
  <2> QED
    BY <2>6, <2>7
<1>4. CASE h.cur = 1 /\ (value <=> h.shown)
  <2>1. g = h
    BY <1>a, <1>b, <1>4
  <2> QED
    BY <1>4, <2>1 DEF Displayed
<1>5. CASE h.cur = 1 /\ ~(value <=> h.shown)
  <2> DEFINE m == WithShown(h, value)
  <2>1. g = IF value THEN enter(m, 1, 0) ELSE leave(m, 1, 0, no)
    BY <1>a, <1>b, <1>5
  <2> HIDE DEF value, no
  <2>2. m = WithShown(h, value)
    OBVIOUS
  <2> HIDE DEF m
  <2>3. /\ Good(config, m, 0, {}, 0, no) /\ (m.shown <=> value)
        /\ m.els = h.els /\ m.cbs = h.cbs /\ m.cur = h.cur /\ m.mounted = h.mounted /\ m.entered = h.entered
    BY <1>1, <2>2, WithShownGood
  <2>4. (InEnter(m, 1) <=> InEnter(h, 1)) /\ (Leaves(m, 1) <=> Leaves(h, 1))
    BY <2>3 DEF InEnter, Leaves
  <2>5. CASE value
    <3>1. ~InEnter(h, 1)
      BY <1>5, <2>5 DEF ShownInv
    <3>2. g = enter(m, 1, 0) /\ m.mounted /\ m.shown /\ m.cur = 1 /\ m.entered = 0 /\ ~InEnter(m, 1)
      BY <1>5, <2>1, <2>3, <2>4, <2>5, <3>1
    <3>3. /\ Good(config, g, 0, {}, 0, no)
          /\ g.entered = 0 /\ g.mounted = m.mounted /\ g.cur = 1 /\ g.shown /\ g.els[1].display /\ ~Leaves(g, 1)
      BY <2>3, <3>2, DisplayGood
    <3>4. ShownInv(config, g)
      BY <3>3 DEF ShownInv
    <3> QED
      BY <2>3, <2>5, <3>3, <3>4 DEF Displayed, no, value
  <2>6. CASE ~value
    <3>1. ~Leaves(h, 1)
      BY <1>5, <2>6 DEF ShownInv
    <3>2. g = leave(m, 1, 0, no) /\ ~m.shown /\ m.cur = 1 /\ m.entered = 0 /\ ~Leaves(m, 1)
      BY <1>5, <2>1, <2>3, <2>4, <2>6, <3>1
    <3>3. /\ Good(config, g, 0, {}, 0, FALSE)
          /\ g.entered = 0 /\ g.mounted = m.mounted /\ g.cur = 1 /\ ~g.shown
          /\ ~InEnter(g, 1) /\ (Leaves(g, 1) \/ ~g.els[1].display)
      BY <1>1, <2>3, <3>2, HideGood
    <3>4. ShownInv(config, g)
      BY <3>3 DEF ShownInv
    <3> QED
      BY <2>3, <2>6, <3>3, <3>4 DEF Displayed, value
  <2> QED
    BY <2>5, <2>6
<1> QED
  BY <1>2, <1>3, <1>4, <1>5

-----------------------------------------------------------------------------
(***************************************************************************)
(* Frames and ends.                                                        *)
(***************************************************************************)
\* From h to g callback i of element e, which was to be called by a frame or by an end, gets on; e has classes cs.
Staged(c, h, g, i, e, cs) ==
  /\ Touches(h, g, e, i) /\ i \in DOMAIN h.cbs /\ e \in DOMAIN h.els
  /\ h.cbs[i].stage \in Running
  /\ g.cbs[i].stage \in {"user", "end", "ended"} /\ (g.cbs[i].stage = "end" => c.css)
  /\ ~h.cbs[i].called => g.cbs[i].stage # "ended"
  /\ g.cbs[i].called = h.cbs[i].called /\ g.cbs[i].cancelled = h.cbs[i].cancelled
  /\ g.els[e].enterCb = h.els[e].enterCb /\ g.els[e].leaveCb = h.els[e].leaveCb /\ g.els[e].inDom = h.els[e].inDom
  /\ g.els[e].display = h.els[e].display /\ g.els[e].hooks = h.els[e].hooks /\ g.els[e].classes = cs
  /\ g.pending = h.pending /\ g.leaving = h.leaving /\ g.dirty = h.dirty

LEMMA StagedParts ==
  ASSUME NEW c, NEW h, NEW g, NEW i, NEW e, NEW cs, h \in HeapType, CallbacksInv(c, h), IsOf(h, i, e), Staged(c, h, g, i, e, cs)
  PROVE  /\ CallbacksInv(c, g)
         /\ (InEnter(g, e) <=> InEnter(h, e)) /\ (Leaves(g, e) <=> Leaves(h, e)) /\ (Delayed(g, e) <=> Delayed(h, e))
         /\ h.cbs[i].called => ClassesOf(g, e) = ClassesOf(h, e)
         /\ ~h.cbs[i].called => IF h.cbs[i].kind = "enter"
                                THEN /\ ClassesOf(g, e) = {"enter-to", "enter-active"}
                                     /\ h.cbs[i].stage = "frame" => ClassesOf(h, e) = {"enter", "enter-active"}
                                ELSE /\ ClassesOf(g, e) = {"leave-to", "leave-active"}
                                     /\ h.cbs[i].stage = "frame" => ClassesOf(h, e) = {"leave", "leave-active"}
<1>1. /\ DOMAIN g.els = DOMAIN h.els /\ DOMAIN g.cbs = DOMAIN h.cbs
      /\ \A f \in DOMAIN h.els : f # e => g.els[f] = h.els[f]
      /\ \A j \in DOMAIN h.cbs : j # i => g.cbs[j] = h.cbs[j]
      /\ g.cbs[i].kind = h.cbs[i].kind /\ g.cbs[i].el = e /\ g.cbs[i].link = h.cbs[i].link
      /\ (g.cbs[i].reopens <=> h.cbs[i].reopens)
      /\ (g.cbs[i].called <=> h.cbs[i].called) /\ (g.cbs[i].cancelled <=> h.cbs[i].cancelled)
      /\ g.cbs[i].stage \in {"user", "end", "ended"} /\ (g.cbs[i].stage = "end" => c.css)
      /\ (~h.cbs[i].called => g.cbs[i].stage # "ended")
      /\ g.els[e].enterCb = h.els[e].enterCb /\ g.els[e].leaveCb = h.els[e].leaveCb
      /\ i \in DOMAIN h.cbs /\ e \in DOMAIN h.els /\ h.cbs[i].stage # "delayed"
  BY DEF Staged, Touches, SameCallback, IsOf, Running
<1>2. CallbackInv(c, h, i) /\ CallbacksOf(h, e)
  BY <1>1 DEF CallbacksInv
<1>3. CallbacksInv(c, g)
  <2>1. CallbacksOf(g, e)
    BY <1>1, <1>2 DEF CallbacksOf, Uncalled
  <2>2. CallbackInv(c, g, i)
    BY <1>1, <1>2 DEF CallbackInv, IsOf
  <2>3. \A j \in DOMAIN h.cbs : j # i => CallbackInv(c, g, j)
    <3>1. Touches(h, g, e, i)
      BY DEF Staged
    <3> QED
      BY <1>1, <3>1, OtherCallbacks
  <2>4. \A f \in DOMAIN h.els : f # e => CallbacksOf(g, f)
    <3>1. Touches(h, g, e, i)
      BY DEF Staged
    <3> QED
      BY <3>1, Elsewhere
  <2> QED
    BY <1>1, <2>1, <2>2, <2>3, <2>4 DEF CallbacksInv
<1>4. (InEnter(g, e) <=> InEnter(h, e)) /\ (Leaves(g, e) <=> Leaves(h, e))
  BY <1>1 DEF InEnter, Leaves
<1>5. Delayed(g, e) <=> Delayed(h, e)
  <2>1. Leaves(h, e) => h.els[e].leaveCb \in DOMAIN h.cbs
    BY <1>2 DEF CallbacksOf, Uncalled, Leaves
  <2> QED
    BY <1>1, <1>4, <2>1 DEF Delayed
<1>6. h.cbs[i].called => ClassesOf(g, e) = ClassesOf(h, e)
  <2>1. h.cbs[i].called => h.els[e].enterCb # i /\ h.els[e].leaveCb # i
    <3>1. i # 0
      BY <1>1 DEF HeapType
    <3> QED
      BY <1>2, <3>1 DEF CallbacksOf, Uncalled
  <2>2. /\ InEnter(h, e) => h.els[e].enterCb \in DOMAIN h.cbs
        /\ Leaves(h, e) => h.els[e].leaveCb \in DOMAIN h.cbs
    BY <1>2 DEF CallbacksOf, Uncalled, Leaves, InEnter
  <2> QED
    BY <1>1, <1>4, <1>5, <2>1, <2>2 DEF ClassesOf
<1>7. ASSUME ~h.cbs[i].called
      PROVE  IF h.cbs[i].kind = "enter"
             THEN /\ ClassesOf(g, e) = {"enter-to", "enter-active"}
                  /\ h.cbs[i].stage = "frame" => ClassesOf(h, e) = {"enter", "enter-active"}
             ELSE /\ ClassesOf(g, e) = {"leave-to", "leave-active"}
                  /\ h.cbs[i].stage = "frame" => ClassesOf(h, e) = {"leave", "leave-active"}
  <2>1. Uncalled(h, i) /\ h.cbs[i].kind \in {"enter", "leave"}
    <3>1. h.cbs[i] \in CallbackType
      BY <1>1, CallbackChanges
    <3> QED
      BY <1>1, <1>7, <3>1 DEF Uncalled, CallbackType
  <2>2. /\ i # 0
        /\ h.cbs[i].kind = "enter" => h.els[e].enterCb = i /\ h.els[e].leaveCb = 0
        /\ h.cbs[i].kind = "leave" => h.els[e].leaveCb = i /\ h.els[e].enterCb = 0
    BY <2>1, UncalledFacts
  <2>3. CASE h.cbs[i].kind = "enter"
    BY <1>1, <2>2, <2>3 DEF ClassesOf, InEnter
  <2>4. CASE h.cbs[i].kind = "leave"
    BY <1>1, <2>2, <2>4 DEF ClassesOf, InEnter, Leaves, Delayed
  <2> QED
    BY <2>1, <2>3, <2>4
<1> QED
  BY <1>3, <1>4, <1>5, <1>6, <1>7

\* The classes that e then has
StagedClasses(c, h, g, e, cs) ==
  /\ ~c.css => cs = {}
  /\ h.els[e].inDom \/ c.use # "if" => cs \subseteq ClassesOf(g, e)

LEMMA StagedGood ==
  ASSUME NEW c, NEW h, NEW g, NEW i, NEW e, NEW cs, Good(c, h, 0, {}, 0, FALSE), IsOf(h, i, e), Staged(c, h, g, i, e, cs),
         StagedClasses(c, h, g, e, cs)
  PROVE  Good(c, g, 0, {}, 0, FALSE)
<1> DEFINE z == FALSE
           X == {}
<1>1. h \in HeapType /\ CallbacksInv(c, h) /\ g \in HeapType /\ Touches(h, g, e, i) /\ Good(c, h, 0, X, 0, z)
  BY DEF Good, Staged, Touches
<1>2. /\ DOMAIN g.els = DOMAIN h.els /\ DOMAIN g.cbs = DOMAIN h.cbs
      /\ \A f \in DOMAIN h.els : f # e => g.els[f] = h.els[f]
      /\ \A j \in DOMAIN h.cbs : j # i => g.cbs[j] = h.cbs[j]
      /\ (g.cbs[i].reopens <=> h.cbs[i].reopens) /\ (g.cbs[i].called <=> h.cbs[i].called) /\ g.cbs[i].el = e
      /\ g.cbs[i].stage \in {"user", "end", "ended"}
      /\ g.els[e].key = h.els[e].key /\ (g.els[e].inDom <=> h.els[e].inDom) /\ g.els[e].hooks = h.els[e].hooks
      /\ g.els[e].classes = cs
      /\ i \in DOMAIN h.cbs /\ e \in DOMAIN h.els /\ h.cbs[i].stage # "delayed"
      /\ g.cur = h.cur /\ g.links = h.links /\ g.pending = h.pending /\ (g.leaving <=> h.leaving)
  BY DEF Staged, Touches, SameCallback, IsOf, Running, Others
<1> HIDE DEF z, X
<1>3. /\ CallbacksInv(c, g)
      /\ (InEnter(g, e) <=> InEnter(h, e)) /\ (Leaves(g, e) <=> Leaves(h, e)) /\ (Delayed(g, e) <=> Delayed(h, e))
  BY <1>1, StagedParts
<1>4. ASSUME NEW f \in DOMAIN h.els, f # e
      PROVE  /\ g.els[f] = h.els[f] /\ (Leaves(g, f) <=> Leaves(h, f)) /\ (Delayed(g, f) <=> Delayed(h, f))
             /\ (InEnter(g, f) <=> InEnter(h, f)) /\ ClassesOf(g, f) = ClassesOf(h, f)
  BY <1>1, <1>4, Elsewhere
<1>5. HooksInv(c, g)
  <2>1. ASSUME NEW f \in DOMAIN h.els PROVE HookInv(c, g, f)
    <3>1. HookInv(c, h, f)
      BY DEF Good, HooksInv
    <3>2. CASE f = e
      BY <1>2, <1>3, <3>1, <3>2 DEF HookInv
    <3>3. CASE f # e
      BY <1>4, <3>1, <3>3 DEF HookInv
    <3> QED
      BY <3>2, <3>3
  <2> QED
    BY <1>2, <2>1 DEF HooksInv
<1>6. LinksInv(c, g, 0)
  <2>1. Closures(h) /\ (\A j \in DOMAIN h.cbs : Holds(h, j)) /\ (\A j \in DOMAIN h.cbs \ {0} : Waits(c, h, j))
    BY DEF Good, LinksInv
  <2>2. /\ Closures(g)
        /\ \A j \in DOMAIN h.cbs : LinkOf(g, j) = LinkOf(h, j)
    BY <1>1, <1>2, <2>1, LinksSame
  <2>3. \A j \in DOMAIN h.cbs : ~h.cbs[j].called => LinkOf(h, j) # i
    <3>1. i # 0
      BY <1>1, <1>2 DEF HeapType
    <3> QED
      BY <1>2, <2>1, <3>1 DEF Holds
  <2>4. \A j \in DOMAIN h.cbs : ~g.cbs[j].called => ~h.cbs[j].called
    BY <1>2
  <2>5. \A j \in DOMAIN h.cbs : Holds(g, j)
    BY <1>1, <1>2, <2>1, <2>3, <2>4, HoldsKept
  <2>6. ASSUME NEW j \in DOMAIN h.cbs \ {0} PROVE Waits(c, g, j)
    <3>1. Waits(c, h, j)
      BY <2>1
    <3>2. CASE j = i
      BY <1>2, <3>2 DEF Waits
    <3>3. CASE j # i
      <4>1. g.cbs[j] = h.cbs[j]
        BY <1>2, <3>3
      <4>2. \A k \in DOMAIN h.cbs : (g.cbs[k].called <=> h.cbs[k].called)
        BY <1>2
      <4> QED
        BY <1>2, <2>2, <3>1, <4>1, <4>2 DEF Waits
    <3> QED
      BY <3>2, <3>3
  <2> QED
    BY <1>2, <2>2, <2>5, <2>6 DEF LinksInv
<1>7. ClassesInv(c, g, X)
  <2>1. ASSUME NEW f \in DOMAIN h.els PROVE ClassesFit(c, g, f, X)
    <3>1. ClassesFit(c, h, f, X)
      BY <1>1 DEF Good, ClassesInv
    <3>2. CASE f = e
      BY <1>2, <3>2 DEF ClassesFit, StagedClasses, X
    <3>3. CASE f # e
      BY <1>4, <3>1, <3>3 DEF ClassesFit
    <3> QED
      BY <3>2, <3>3
  <2>2. ASSUME NEW j \in DOMAIN h.cbs PROVE Unframed(c, g, j, X)
    <3>1. CASE j = i
      BY <1>2, <3>1 DEF Unframed
    <3>2. CASE j # i
      <4>1. g.cbs[j] = h.cbs[j] /\ h.cbs[j].el \in DOMAIN h.els
        BY <1>1, <1>2, <3>2 DEF CallbacksInv, CallbackInv
      <4>2. Unframed(c, h, j, X)
        BY <1>1 DEF Good, ClassesInv
      <4>3. g.els[h.cbs[j].el].inDom <=> h.els[h.cbs[j].el].inDom
        BY <1>2, <4>1
      <4> QED
        BY <4>1, <4>2, <4>3 DEF Unframed
    <3> QED
      BY <3>1, <3>2
  <2> QED
    BY <1>2, <2>1, <2>2 DEF ClassesInv
<1>8. Len(g.els) = Len(h.els)
  BY <1>1, <1>2 DEF HeapType
<1>9. PlacesInv(c, h, X) /\ KeysInv(c, h, 0) /\ PendingInv(c, h) /\ OutInInv(h, z)
  BY <1>1 DEF Good
<1>10. \A f \in DOMAIN h.els : /\ g.els[f].key = h.els[f].key /\ (g.els[f].inDom <=> h.els[f].inDom)
                               /\ (Leaves(g, f) <=> Leaves(h, f)) /\ (Delayed(g, f) <=> Delayed(h, f))
                               /\ (InEnter(g, f) <=> InEnter(h, f))
  BY <1>2, <1>3, <1>4
<1>11. PlacesInv(c, g, X)
  BY <1>2, <1>8, <1>9, <1>10 DEF PlacesInv
<1>12. KeysInv(c, g, 0) /\ PendingInv(c, g)
  BY <1>2, <1>9, <1>10 DEF KeysInv, PendingInv
<1>13. OutInInv(g, z)
  <2>1. \A j \in DOMAIN h.cbs : (g.cbs[j].reopens <=> h.cbs[j].reopens) /\ (g.cbs[j].called <=> h.cbs[j].called)
    BY <1>2
  <2> QED
    BY <1>2, <1>9, <2>1 DEF OutInInv
<1>14. Good(c, g, 0, X, 0, z)
  BY <1>1, <1>3, <1>5, <1>6, <1>7, <1>11, <1>12, <1>13 DEF Good
<1> QED
  BY <1>14 DEF X, z

LEMMA StagedResult ==
  ASSUME NEW c, NEW h, NEW m, NEW g, NEW i, NEW e, NEW r, NEW s, NEW st, NEW cs, h \in HeapType, e \in DOMAIN h.els, i \in DOMAIN h.cbs,
         ElementSet(h, m, e, r), r = [h.els[e] EXCEPT !.classes = cs],
         CallbackSet(m, g, i, s), s = [h.cbs[i] EXCEPT !.stage = st],
         h.cbs[i].stage \in Running, st \in {"user", "end", "ended"}, st = "end" => c.css,
         ~h.cbs[i].called => st # "ended"
  PROVE  Staged(c, h, g, i, e, cs)
<1>1. h.els[e] \in ElementType /\ h.cbs[i] \in CallbackType
  BY Zenon, ElementChanges, CallbackChanges
<1>2. /\ r.key = h.els[e].key /\ r.enterCb = h.els[e].enterCb /\ r.leaveCb = h.els[e].leaveCb /\ r.inDom = h.els[e].inDom
      /\ r.display = h.els[e].display /\ r.hooks = h.els[e].hooks /\ r.classes = cs
  BY <1>1 DEF ElementType
<1>3. /\ SameCallback(h.cbs[i], s) /\ s.stage = st /\ s.called = h.cbs[i].called /\ s.cancelled = h.cbs[i].cancelled
  BY <1>1 DEF CallbackType, SameCallback
<1>4. /\ DOMAIN m.els = DOMAIN h.els /\ m.els[e] = r /\ \A f \in DOMAIN h.els : f # e => m.els[f] = h.els[f]
      /\ m.cbs = h.cbs /\ Others(m) = Others(h)
      /\ m.pending = h.pending /\ m.leaving = h.leaving /\ m.dirty = h.dirty
  BY DEF ElementSet
<1>5. /\ g \in HeapType /\ g.els = m.els /\ DOMAIN g.cbs = DOMAIN m.cbs /\ g.cbs[i] = s
      /\ \A j \in DOMAIN m.cbs : j # i => g.cbs[j] = m.cbs[j]
      /\ Others(g) = Others(m) /\ g.pending = m.pending /\ g.leaving = m.leaving /\ g.dirty = m.dirty
  BY <1>4 DEF CallbackSet
<1>6. Touches(h, g, e, i)
  <2>1. DOMAIN g.els = DOMAIN h.els /\ \A f \in DOMAIN h.els : f # e => g.els[f] = h.els[f]
    BY <1>4, <1>5
  <2>2. DOMAIN g.cbs = DOMAIN h.cbs /\ \A j \in DOMAIN h.cbs : j # i => g.cbs[j] = h.cbs[j]
    BY <1>4, <1>5
  <2>3. g.els[e].key = h.els[e].key /\ SameCallback(h.cbs[i], g.cbs[i])
    <3>1. g.els[e] = r /\ g.cbs[i] = s
      BY <1>4, <1>5
    <3>2. g.els[e].key = h.els[e].key
      BY <1>2, <3>1
    <3> QED
      BY <1>3, <3>1, <3>2
  <2>4. Others(g) = Others(h) /\ g \in HeapType
    BY <1>4, <1>5
  <2> QED
    BY <2>1, <2>2, <2>3, <2>4 DEF Touches
<1>7. g.els[e] = r
  BY <1>4, <1>5
<1> QED
  BY ZenonT(30), <1>2, <1>3, <1>4, <1>5, <1>6, <1>7 DEF Staged

LEMMA StagedKept ==
  ASSUME NEW c, NEW h, NEW g, NEW i, NEW e, NEW cs, Staged(c, h, g, i, e, cs)
  PROVE  Kept(h, g, e)
<1>1. Touches(h, g, e, i) /\ (g.leaving => h.leaving) /\ (h.leaving => g.leaving \/ g.dirty) /\ (h.dirty => g.dirty)
  BY DEF Staged
<1> QED
  BY <1>1, TouchedKept

\* The rest of the invariant
LEMMA RestKept ==
  ASSUME NEW c, NEW w, NEW h, NEW g, NEW e, NEW i, Kept(h, g, e), WantInv(c, w, h), i \in DOMAIN h.cbs, PlacesInv(c, h, {})
  PROVE  WantInv(c, w, g)
<1>1. h.mounted /\ h.entered = 0
  BY DEF WantInv
<1>2. /\ g.entered = 0 /\ g.mounted /\ g.cur = h.cur /\ (g.shown <=> h.shown)
      /\ \A f \in DOMAIN h.els : g.els[f].key = h.els[f].key
      /\ (h.leaving => g.leaving \/ g.dirty) /\ (h.dirty => g.dirty)
  BY <1>1 DEF Kept, Others
<1>3. h.cur # 0 => h.cur \in DOMAIN h.els
  BY DEF PlacesInv
<1>4. ~h.dirty => IF c.use = "show" THEN h.cur = 1 /\ (h.shown <=> w # None)
                  ELSE IF h.cur # 0 THEN h.els[h.cur].key = w
                  ELSE w = None \/ h.leaving
  BY DEF WantInv
<1>5. ~g.dirty => IF c.use = "show" THEN g.cur = 1 /\ (g.shown <=> w # None)
                  ELSE IF g.cur # 0 THEN g.els[g.cur].key = w
                  ELSE w = None \/ g.leaving
  BY <1>2, <1>3, <1>4
<1> QED
  BY <1>2, <1>5 DEF WantInv

LEMMA StagedShown ==
  ASSUME NEW c, NEW h, NEW g, NEW i, NEW e, NEW cs, Staged(c, h, g, i, e, cs), ShownInv(c, h), PlacesInv(c, h, {})
  PROVE  ShownInv(c, g)
<1>1. /\ g.cur = h.cur /\ (g.shown <=> h.shown)
      /\ \A f \in DOMAIN h.els : f # e => g.els[f] = h.els[f]
  BY DEF Staged, Touches, Others
<1>2. /\ g.els[e].display = h.els[e].display /\ g.els[e].leaveCb = h.els[e].leaveCb /\ g.els[e].enterCb = h.els[e].enterCb
  BY DEF Staged
<1>3. h.cur = 1 => 1 \in DOMAIN h.els
  BY DEF PlacesInv
<1>4. h.cur = 1 => /\ (g.els[1].display <=> h.els[1].display) /\ g.els[1].leaveCb = h.els[1].leaveCb
                   /\ g.els[1].enterCb = h.els[1].enterCb
  BY <1>1, <1>2, <1>3
<1> QED
  BY <1>1, <1>4 DEF ShownInv, Leaves, InEnter

\* Frame, of a heap
NextFrame(h, i) ==
  LET cb == h.cbs[i]
      names == IF cb.kind = "enter" THEN <<"enter", "enter-to">> ELSE <<"leave", "leave-to">>
      m == RemoveClasses(h, cb.el, {names[1]})
  IN IF cb.cancelled THEN [m EXCEPT !.cbs[i].stage = "ended"]
     ELSE [AddClasses(m, cb.el, {names[2]}) EXCEPT !.cbs[i].stage = IF config.control THEN "user" ELSE "end"]

LEMMA NextFrameResult ==
  ASSUME NEW h \in HeapType, NEW i \in DOMAIN h.cbs, NEW e \in DOMAIN h.els, IsOf(h, i, e), h.cbs[i].stage = "frame", config.css,
         h.cbs[i].cancelled => h.cbs[i].called,
         NEW first, NEW second, first \in Classes, second \in Classes,
         h.cbs[i].kind = "enter" => first = "enter" /\ second = "enter-to",
         h.cbs[i].kind # "enter" => first = "leave" /\ second = "leave-to",
         NEW g, g = NextFrame(h, i)
  PROVE  Staged(config, h, g, i, e,
                IF h.cbs[i].cancelled THEN h.els[e].classes \ {first} ELSE (h.els[e].classes \ {first}) \union {second})
<1> DEFINE m == RemoveClasses(h, e, {first})
           k == AddClasses(m, e, {second})
           r == [h.els[e] EXCEPT !.classes = @ \ {first}]
           q == [r EXCEPT !.classes = @ \union {second}]
           st == IF config.control THEN "user" ELSE "end"
           names == IF h.cbs[i].kind = "enter" THEN <<"enter", "enter-to">> ELSE <<"leave", "leave-to">>
<1>1. h.els[e] \in ElementType /\ {first} \in SUBSET Classes /\ {second} \in SUBSET Classes
  BY Zenon, ElementChanges
<1>2. names[1] = first /\ names[2] = second
  <2>1. CASE h.cbs[i].kind = "enter"
    BY <2>1
  <2>2. CASE h.cbs[i].kind # "enter"
    BY <2>2
  <2> QED
    BY <2>1, <2>2
<1> HIDE DEF names
<1>3. g = IF h.cbs[i].cancelled THEN [m EXCEPT !.cbs[i].stage = "ended"] ELSE [k EXCEPT !.cbs[i].stage = st]
  <2>1. h.cbs[i].el = e
    BY DEF IsOf
  <2>2. g = IF h.cbs[i].cancelled THEN [RemoveClasses(h, e, {names[1]}) EXCEPT !.cbs[i].stage = "ended"]
            ELSE [AddClasses(RemoveClasses(h, e, {names[1]}), e, {names[2]}) EXCEPT !.cbs[i].stage = st]
    BY <2>1 DEF NextFrame, names
  <2> QED
    BY <1>2, <2>2
<1>4. ElementSet(h, m, e, r)
  <2>1. ElementSet(h, RemoveClasses(h, e, {first}), e, [h.els[e] EXCEPT !.classes = IF config.css THEN @ \ {first} ELSE @])
    BY Zenon, <1>1, ElementChanges
  <2> QED
    BY <2>1
<1>5. r = [h.els[e] EXCEPT !.classes = h.els[e].classes \ {first}]
  BY <1>1 DEF ElementType
<1>6. /\ m \in HeapType /\ e \in DOMAIN m.els /\ m.els[e] = r /\ m.cbs = h.cbs
  BY <1>4 DEF ElementSet
<1>7. ElementSet(m, k, e, [m.els[e] EXCEPT !.classes = @ \union {second}])
  <2> HIDE DEF m, r
  <2> QED
    BY Zenon, <1>1, <1>6, ElementChanges
<1>8. ElementSet(h, k, e, q)
  <2> HIDE DEF m, r, k
  <2>1. ElementSet(m, k, e, q)
    BY <1>6, <1>7
  <2> HIDE DEF q
  <2> QED
    BY <1>4, <2>1, ElementSetTwice
<1>9. q = [h.els[e] EXCEPT !.classes = (h.els[e].classes \ {first}) \union {second}]
  BY <1>1 DEF ElementType
<1>10. k \in HeapType /\ k.cbs = h.cbs
  BY <1>8 DEF ElementSet
<1>11. CASE h.cbs[i].cancelled
  <2> DEFINE s == [h.cbs[i] EXCEPT !.stage = "ended"]
  <2>1. g = [m EXCEPT !.cbs[i].stage = "ended"]
    BY <1>3, <1>11
  <2> HIDE DEF m, r
  <2>2. CallbackSet(m, g, i, s)
    <3>1. CallbackSet(m, [m EXCEPT !.cbs[i].stage = "ended"], i, [m.cbs[i] EXCEPT !.stage = "ended"])
      BY <1>6, CallbackChanges
    <3> QED
      BY <1>6, <2>1, <3>1
  <2>3. Staged(config, h, g, i, e, h.els[e].classes \ {first})
    <3>1. s = [h.cbs[i] EXCEPT !.stage = "ended"] /\ "ended" \in {"user", "end", "ended"} /\ h.cbs[i].stage \in Running
      BY DEF Running
    <3> DEFINE st2 == "ended"
               cs == h.els[e].classes \ {first}
    <3>2. /\ s = [h.cbs[i] EXCEPT !.stage = st2] /\ st2 \in {"user", "end", "ended"} /\ st2 # "end"
          /\ h.cbs[i].called /\ r = [h.els[e] EXCEPT !.classes = cs]
      BY <1>5, <1>11, <3>1
    <3> HIDE DEF s, st2, cs
    <3>3. Staged(config, h, g, i, e, cs)
      BY <1>4, <2>2, <3>1, <3>2, StagedResult
    <3> QED
      BY <3>3 DEF cs
  <2> QED
    BY <1>11, <2>3
<1>12. CASE ~h.cbs[i].cancelled
  <2> DEFINE s == [h.cbs[i] EXCEPT !.stage = st]
  <2>1. g = [k EXCEPT !.cbs[i].stage = st]
    BY <1>3, <1>12
  <2>0. st \in {"user", "end"}
    OBVIOUS
  <2> HIDE DEF k, q, st
  <2>2. CallbackSet(k, g, i, s)
    <3>1. CallbackSet(k, [k EXCEPT !.cbs[i].stage = st], i, [k.cbs[i] EXCEPT !.stage = st])
      BY <1>10, <2>0, CallbackChanges DEF Running
    <3> QED
      BY <1>10, <2>1, <3>1
  <2>3. Staged(config, h, g, i, e, (h.els[e].classes \ {first}) \union {second})
    <3> DEFINE cs == (h.els[e].classes \ {first}) \union {second}
    <3>2. /\ s = [h.cbs[i] EXCEPT !.stage = st] /\ st \in {"user", "end", "ended"} /\ st # "ended"
          /\ q = [h.els[e] EXCEPT !.classes = cs] /\ h.cbs[i].stage \in Running
      BY <1>9, <2>0 DEF Running
    <3> HIDE DEF s, cs
    <3>3. Staged(config, h, g, i, e, cs)
      BY <1>8, <2>2, <3>2, StagedResult
    <3> QED
      BY <3>3 DEF cs
  <2> QED
    BY <1>12, <2>3
<1> QED
  BY <1>11, <1>12

LEMMA FrameGood ==
  ASSUME NEW h, Good(config, h, 0, {}, 0, FALSE), NEW i \in DOMAIN h.cbs, h.cbs[i].stage = "frame", NEW g, g = NextFrame(h, i)
  PROVE  \E e, cs : IsOf(h, i, e) /\ Staged(config, h, g, i, e, cs) /\ Good(config, g, 0, {}, 0, FALSE)
<1> DEFINE e == h.cbs[i].el
           first == IF h.cbs[i].kind = "enter" THEN "enter" ELSE "leave"
           second == IF h.cbs[i].kind = "enter" THEN "enter-to" ELSE "leave-to"
           cs == IF h.cbs[i].cancelled THEN h.els[e].classes \ {first} ELSE (h.els[e].classes \ {first}) \union {second}
<1>1. h \in HeapType /\ CallbacksInv(config, h) /\ ClassesInv(config, h, {})
  BY DEF Good
<1>2. CallbackInv(config, h, i) /\ h.cbs[i] \in CallbackType
  BY <1>1, CallbackChanges DEF CallbacksInv
<1>3. e \in DOMAIN h.els /\ config.css /\ IsOf(h, i, e) /\ h.cbs[i].kind \in {"enter", "leave"}
      /\ (h.cbs[i].cancelled => h.cbs[i].called)
  BY <1>2 DEF CallbackInv, CallbackType, IsOf
<1>4. /\ first \in Classes /\ second \in Classes
      /\ h.cbs[i].kind = "enter" => first = "enter" /\ second = "enter-to"
      /\ h.cbs[i].kind # "enter" => first = "leave" /\ second = "leave-to"
  BY DEF Classes
<1>a. ClassesFit(config, h, e, {}) /\ Unframed(config, h, i, {})
  BY <1>1, <1>3 DEF ClassesInv
<1>b. h.cbs[i].called /\ ~h.cbs[i].cancelled => config.use = "if" /\ ~h.els[e].inDom
  BY <1>a DEF Unframed
<1>5. Staged(config, h, g, i, e, cs)
  <2> HIDE DEF first, second, e
  <2> QED
    BY <1>1, <1>3, <1>4, NextFrameResult
<1>6. (h.cbs[i].cancelled => cs = h.els[e].classes \ {first}) /\ (~h.cbs[i].cancelled => cs = (h.els[e].classes \ {first}) \union {second})
  OBVIOUS
<1> HIDE DEF cs, first, second, e
<1>7. /\ h.cbs[i].called => ClassesOf(g, e) = ClassesOf(h, e)
      /\ ~h.cbs[i].called => IF h.cbs[i].kind = "enter"
                             THEN /\ ClassesOf(g, e) = {"enter-to", "enter-active"}
                                  /\ h.cbs[i].stage = "frame" => ClassesOf(h, e) = {"enter", "enter-active"}
                             ELSE /\ ClassesOf(g, e) = {"leave-to", "leave-active"}
                                  /\ h.cbs[i].stage = "frame" => ClassesOf(h, e) = {"leave", "leave-active"}
  BY <1>1, <1>3, <1>5, StagedParts
<1>8. ASSUME h.els[e].inDom \/ config.use # "if" PROVE cs \subseteq ClassesOf(g, e)
  <2>1. h.els[e].classes \subseteq ClassesOf(h, e)
    BY <1>a, <1>8 DEF ClassesFit
  <2>2. CASE h.cbs[i].called
    BY <1>6, <1>7, <1>8, <1>b, <2>1, <2>2
  <2>3. CASE ~h.cbs[i].called /\ h.cbs[i].kind = "enter"
    BY <1>3, <1>4, <1>6, <1>7, <2>1, <2>3
  <2>4. CASE ~h.cbs[i].called /\ h.cbs[i].kind = "leave"
    BY <1>3, <1>4, <1>6, <1>7, <2>1, <2>4
  <2> QED
    BY <1>3, <2>2, <2>3, <2>4
<1>9. StagedClasses(config, h, g, e, cs)
  BY <1>3, <1>8 DEF StagedClasses
<1>10. Good(config, g, 0, {}, 0, FALSE)
  BY <1>3, <1>5, <1>9, StagedGood
<1> QED
  BY <1>3, <1>5, <1>10

\* End, of a heap
Ended(h, i) == [h EXCEPT !.cbs[i].stage = "ended"]
NextEnd(h, i) == IF h.cbs[i].kind = "enter" THEN CallEnterCb(Ended(h, i), i) ELSE CallLeaveCb(Ended(h, i), i)

\* A transition that was cancelled ends: nothing is left to be done.
LEMMA EndOfCalled ==
  ASSUME NEW h, Good(config, h, 0, {}, 0, FALSE), NEW i \in DOMAIN h.cbs, h.cbs[i].stage \in {"end", "user"}, h.cbs[i].called,
         NEW e, IsOf(h, i, e), NEW r, NEW g, r = [h.cbs[i] EXCEPT !.stage = "ended"], CallbackSet(h, g, i, r)
  PROVE  \E cs : Staged(config, h, g, i, e, cs) /\ Good(config, g, 0, {}, 0, FALSE)
<1> DEFINE cs == h.els[e].classes
           q == [h.els[e] EXCEPT !.classes = cs]
           st == "ended"
<1>1. h \in HeapType /\ CallbacksInv(config, h) /\ ClassesInv(config, h, {})
  BY DEF Good
<1>2. e \in DOMAIN h.els
  BY <1>1 DEF CallbacksInv, CallbackInv, IsOf
<1>3. h.els[e] \in ElementType
  BY Zenon, <1>1, <1>2, ElementChanges
<1>4. q = h.els[e]
  BY <1>3 DEF ElementType
<1>5. ElementSet(h, h, e, q)
  <2> HIDE DEF q
  <2> QED
    BY <1>1, <1>2, <1>4 DEF ElementSet
<1>6. /\ st \in {"user", "end", "ended"} /\ st # "end" /\ h.cbs[i].stage \in Running
      /\ q = [h.els[e] EXCEPT !.classes = cs] /\ r = [h.cbs[i] EXCEPT !.stage = st]
  BY DEF Running
<1> HIDE DEF cs, q, st
<1>7. Staged(config, h, g, i, e, cs)
  BY <1>1, <1>2, <1>5, <1>6, StagedResult
<1>8. ClassesFit(config, h, e, {}) /\ cs = h.els[e].classes
  BY <1>1, <1>2 DEF ClassesInv, cs
<1>9. ClassesOf(g, e) = ClassesOf(h, e)
  BY <1>1, <1>2, <1>7, StagedParts
<1>10. StagedClasses(config, h, g, e, cs)
  BY <1>8, <1>9 DEF StagedClasses, ClassesFit
<1>11. Good(config, g, 0, {}, 0, FALSE)
  BY <1>2, <1>7, <1>10, StagedGood
<1> QED
  BY <1>7, <1>11

LEMMA EndGood ==
  ASSUME InOutEnds(config), NEW h, Good(config, h, 0, {}, 0, FALSE), ShownInv(config, h),
         NEW i \in DOMAIN h.cbs, h.cbs[i].stage \in {"end", "user"}, NEW g, g = NextEnd(h, i)
  PROVE  Good(config, g, 0, {}, 0, FALSE) /\ ShownInv(config, g) /\ \E e : Kept(h, g, e)
<1> DEFINE e == h.cbs[i].el
           k == Ended(h, i)
           r == [h.cbs[i] EXCEPT !.stage = "ended"]
           no == FALSE
           X == {}
<1>1. /\ h \in HeapType /\ CallbacksInv(config, h) /\ PlacesInv(config, h, {})
      /\ Good(config, h, 0, X, 0, no)
  BY DEF Good
<1>2. h.cbs[i] \in CallbackType /\ CallbackSet(h, k, i, r)
  <2>1. CallbackSet(h, [h EXCEPT !.cbs[i].stage = "ended"], i, [h.cbs[i] EXCEPT !.stage = "ended"]) /\ h.cbs[i] \in CallbackType
    BY <1>1, CallbackChanges
  <2> QED
    BY <2>1 DEF Ended
<1>3. /\ SameCallback(h.cbs[i], r) /\ r.stage = "ended" /\ r.called = h.cbs[i].called /\ r.cancelled = h.cbs[i].cancelled
      /\ r \in CallbackType
  BY <1>2 DEF CallbackType, SameCallback
<1>4. e \in DOMAIN h.els /\ IsOf(h, i, e) /\ h.cbs[i].kind \in {"enter", "leave"}
  BY <1>1, <1>2 DEF CallbacksInv, CallbackInv, IsOf, CallbackType
<1>5. CASE h.cbs[i].called
  <2>1. k.cbs[i] = r
    BY <1>2 DEF CallbackSet
  <2>2. k.cbs[i].called
    BY <1>3, <1>5, <2>1
  <2>3. g = k
    <3> HIDE DEF k
    <3>1. (h.cbs[i].kind = "enter" => g = CallEnterCb(k, i)) /\ (h.cbs[i].kind # "enter" => g = CallLeaveCb(k, i))
      BY DEF NextEnd, k
    <3>2. CallEnterCb(k, i) = k
      BY <2>2 DEF CallEnterCb
    <3>3. CallLeaveCb(k, i) = k
      BY <2>2 DEF CallLeaveCb
    <3> QED
      BY <3>1, <3>2, <3>3
  <2>4. IsOf(h, i, e) /\ r = [h.cbs[i] EXCEPT !.stage = "ended"]
    BY <1>4
  <2> HIDE DEF k, r, e
  <2>5. \E cs : Staged(config, h, g, i, e, cs) /\ Good(config, g, 0, {}, 0, FALSE)
    BY <1>2, <1>5, <2>3, <2>4, EndOfCalled
  <2>6. PICK cs : Staged(config, h, g, i, e, cs) /\ Good(config, g, 0, {}, 0, FALSE)
    BY <2>5
  <2>7. Kept(h, g, e)
    BY <2>6, StagedKept
  <2>8. ShownInv(config, g)
    BY <1>1, <2>6, StagedShown
  <2> QED
    BY <2>6, <2>7, <2>8
<1>6. ASSUME ~h.cbs[i].called
      PROVE  Uncalled(h, i) /\ Marked(h, k, i, r) /\ ~r.cancelled /\ h.cbs[i].stage # "frame" /\ h.cbs[i].stage # "delayed"
  <2>1. Uncalled(h, i) /\ ~h.cbs[i].cancelled
    BY <1>1, <1>6 DEF Uncalled, CallbacksInv, CallbackInv
  <2> HIDE DEF k, r
  <2> QED
    BY <1>2, <1>3, <1>6, <2>1 DEF Marked
<1>7. config.use = "show" /\ h.cur = 1 => e = 1
  BY <1>1, <1>4 DEF PlacesInv, HeapType
<1>8. CASE ~h.cbs[i].called /\ h.cbs[i].kind = "enter"
  <2>1. g = CallEnterCb(k, i)
    BY <1>8 DEF NextEnd
  <2> HIDE DEF k, r, e, no, X
  <2>2. /\ Good(config, g, 0, X, 0, no) /\ Kept(h, g, e)
        /\ g.els[e].enterCb = 0 /\ g.els[e].leaveCb = 0 /\ g.els[e].display = h.els[e].display
    BY <1>1, <1>4, <1>6, <1>8, <2>1, EnterEnds
  <2>3. h.els[e].enterCb # 0
    BY <1>1, <1>4, <1>6, <1>8, UncalledFacts
  <2>4. g.cur = h.cur /\ (g.shown <=> h.shown)
    BY <2>2 DEF Kept, Others
  <2>5. ShownInv(config, g)
    BY <1>7, <2>2, <2>3, <2>4 DEF ShownInv, InEnter, Leaves
  <2> QED
    BY <2>2, <2>5 DEF no, X
<1>9. CASE ~h.cbs[i].called /\ h.cbs[i].kind = "leave"
  <2>1. g = CallLeaveCb(k, i)
    BY <1>9 DEF NextEnd
  <2> HIDE DEF k, r, e, no, X
  <2>2. MayLeave(config, h, i, r)
    BY <1>6, <1>9 DEF MayLeave
  <2>3. /\ LeftGood(config, g, X, 0, no, e, r) /\ Kept(h, g, 0)
        /\ g.els[e].enterCb = 0 /\ g.els[e].leaveCb = 0
        /\ Left(h, g, e, r)
    BY <1>1, <1>4, <1>6, <1>9, <2>1, <2>2, LeaveEnds
  <2>4. Good(config, g, 0, X, 0, no) /\ (config.use = "show" => ~g.els[e].display)
    BY <1>6, <1>9, <2>3 DEF LeftGood, Left
  <2>5. h.els[e].leaveCb # 0
    BY <1>1, <1>4, <1>6, <1>9, UncalledFacts
  <2>6. g.cur = h.cur /\ (g.shown <=> h.shown)
    BY <2>3 DEF Kept, Others
  <2>7. ShownInv(config, g)
    BY <1>7, <2>3, <2>4, <2>5, <2>6 DEF ShownInv, InEnter, Leaves
  <2> QED
    BY <2>3, <2>4, <2>7 DEF no, X
<1> QED
  BY <1>4, <1>5, <1>8, <1>9

-----------------------------------------------------------------------------
(***************************************************************************)
(* The steps.                                                              *)
(***************************************************************************)
\* The invariant, of a heap
HeapInv(c, w, h) == Good(c, h, 0, {}, 0, FALSE) /\ ShownInv(c, h) /\ WantInv(c, w, h)

Clean(h) == [h EXCEPT !.dirty = FALSE]
WithMounted(h) == [h EXCEPT !.mounted = TRUE]
Requested(h) == [h EXCEPT !.dirty = TRUE]

\* What these three change is of no matter to the elements.
LEMMA MarkedGood ==
  ASSUME NEW c, NEW h, Good(c, h, 0, {}, 0, FALSE), NEW g, g \in {Clean(h), WithMounted(h), Requested(h)}
  PROVE  /\ Good(c, g, 0, {}, 0, FALSE)
         /\ g.els = h.els /\ g.cbs = h.cbs /\ g.links = h.links /\ g.pending = h.pending /\ g.cur = h.cur
         /\ (g.leaving <=> h.leaving) /\ (g.shown <=> h.shown) /\ g.entered = h.entered
         /\ g = Clean(h) => (g.mounted <=> h.mounted)
         /\ g = WithMounted(h) => g.mounted /\ (g.dirty <=> h.dirty)
         /\ g = Requested(h) => g.dirty /\ (g.mounted <=> h.mounted)
<1>1. h \in HeapType
  BY DEF Good
<1>2. /\ g \in HeapType
      /\ g.els = h.els /\ g.cbs = h.cbs /\ g.links = h.links /\ g.pending = h.pending /\ g.cur = h.cur
      /\ g.leaving = h.leaving /\ g.shown = h.shown /\ g.entered = h.entered
      /\ g = Clean(h) => g.mounted = h.mounted
      /\ g = WithMounted(h) => g.mounted /\ g.dirty = h.dirty
      /\ g = Requested(h) => g.dirty /\ g.mounted = h.mounted
  <2>1. CASE g = Clean(h)
    <3>1. g \in HeapType /\ g.els = h.els /\ g.cbs = h.cbs /\ g.links = h.links /\ g.pending = h.pending /\ g.cur = h.cur
          /\ g.leaving = h.leaving /\ g.shown = h.shown /\ g.entered = h.entered /\ g.mounted = h.mounted /\ ~g.dirty
      BY <1>1, <2>1 DEF Clean, HeapType
    <3>2. g = WithMounted(h) => g.mounted /\ g.dirty = h.dirty
      BY <1>1 DEF WithMounted, HeapType
    <3>3. g = Requested(h) => g.dirty
      BY <1>1 DEF Requested, HeapType
    <3> QED
      BY <3>1, <3>2, <3>3
  <2>2. CASE g = WithMounted(h)
    <3>1. g \in HeapType /\ g.els = h.els /\ g.cbs = h.cbs /\ g.links = h.links /\ g.pending = h.pending /\ g.cur = h.cur
          /\ g.leaving = h.leaving /\ g.shown = h.shown /\ g.entered = h.entered /\ g.mounted /\ g.dirty = h.dirty
      BY <1>1, <2>2 DEF WithMounted, HeapType
    <3>2. g = Clean(h) => g.mounted = h.mounted
      BY <1>1 DEF Clean, HeapType
    <3>3. g = Requested(h) => g.dirty /\ g.mounted = h.mounted
      BY <1>1 DEF Requested, HeapType
    <3> QED
      BY <3>1, <3>2, <3>3
  <2>3. CASE g = Requested(h)
    <3>1. g \in HeapType /\ g.els = h.els /\ g.cbs = h.cbs /\ g.links = h.links /\ g.pending = h.pending /\ g.cur = h.cur
          /\ g.leaving = h.leaving /\ g.shown = h.shown /\ g.entered = h.entered /\ g.mounted = h.mounted /\ g.dirty
      BY <1>1, <2>3 DEF Requested, HeapType
    <3>2. g = WithMounted(h) => g.mounted /\ g.dirty = h.dirty
      BY <1>1 DEF WithMounted, HeapType
    <3> QED
      BY <3>1, <3>2
  <2> QED
    BY <2>1, <2>2, <2>3
<1> DEFINE no == FALSE
           X == {}
<1>3. Good(c, h, 0, X, 0, no)
  OBVIOUS
<1>4. Good(c, g, 0, X, 0, no)
  <2> HIDE DEF no, X
  <2> QED
    BY <1>2, <1>3, SameGood
<1> QED
  BY <1>2, <1>4

LEMMA MountedGood ==
  ASSUME NEW c, NEW h, Good(c, h, 0, {}, 0, FALSE), NEW g, g = WithMounted(h)
  PROVE  /\ Good(c, g, 0, {}, 0, FALSE) /\ g.els = h.els /\ g.cbs = h.cbs /\ g.cur = h.cur
         /\ (g.leaving <=> h.leaving) /\ (g.shown <=> h.shown) /\ g.entered = h.entered
         /\ g.mounted /\ (g.dirty <=> h.dirty)
  BY ZenonT(30), MarkedGood

LEMMA ShownHolds ==
  ASSUME config.use = "show", NEW k, NEW f, Good(config, f, 0, {}, 0, FALSE), Displayed(k, f), NEW g, g = WithMounted(f)
  PROVE  HeapInv(config, want, g)
<1>1. /\ Good(config, g, 0, {}, 0, FALSE) /\ g.els = f.els /\ g.cbs = f.cbs /\ g.cur = f.cur
      /\ (g.shown <=> f.shown) /\ g.entered = f.entered /\ g.mounted
  BY MountedGood
<1>2. ShownInv(config, g)
  BY <1>1 DEF Displayed, ShownInv, Leaves, InEnter
<1>3. WantInv(config, want, g)
  BY <1>1 DEF Displayed, WantInv
<1> QED
  BY <1>1, <1>2, <1>3 DEF HeapInv

LEMMA RenderedHolds ==
  ASSUME config.use \in {"if", "kept"}, NEW k, NEW f, Good(config, f, 0, {}, 0, FALSE), Rendered(k, f), NEW g, g = WithMounted(f)
  PROVE  HeapInv(config, want, g)
<1>1. /\ Good(config, g, 0, {}, 0, FALSE) /\ g.els = f.els /\ g.cur = f.cur /\ (g.leaving <=> f.leaving)
      /\ g.entered = f.entered /\ g.mounted /\ (g.dirty <=> f.dirty)
  BY ZenonT(30), MountedGood
<1>2. ShownInv(config, g)
  BY DEF ShownInv
<1>3. WantInv(config, want, g)
  BY <1>1 DEF Rendered, WantInv
<1> QED
  BY <1>1, <1>2, <1>3 DEF HeapInv

\* The task that renders, or runs the directive
LEMMA FlushInv ==
  ASSUME InOutEnds(config), config \in Configs, want \in Views \union {None},
         NEW h, HeapInv(config, want, h), NEW k, k = Clean(h),
         NEW f, f = IF ShowUse THEN Show(k) ELSE Render(k), NEW g, g = WithMounted(f)
  PROVE  HeapInv(config, want, g)
<1>1. config.use \in {"if", "kept", "show"}
  BY Zenon, ConfigsAssumption
<1>2. Good(config, h, 0, {}, 0, FALSE) /\ ShownInv(config, h) /\ WantInv(config, want, h)
  BY DEF HeapInv
<1>3. /\ Good(config, k, 0, {}, 0, FALSE) /\ k.els = h.els /\ k.cbs = h.cbs /\ k.cur = h.cur
      /\ (k.shown <=> h.shown) /\ k.entered = h.entered /\ (k.mounted <=> h.mounted)
  BY <1>2, MarkedGood
<1>4. k.entered = 0 /\ (~k.mounted => k.els = <<>> /\ k.cur = 0) /\ ShownInv(config, k)
  BY <1>2, <1>3 DEF WantInv, ShownInv, Leaves, InEnter
<1>5. CASE config.use = "show"
  <2>1. f = Show(k)
    BY <1>5 DEF ShowUse
  <2>2. Good(config, f, 0, {}, 0, FALSE) /\ Displayed(k, f)
    BY <1>3, <1>4, <1>5, <2>1, ShowGood
  <2> QED
    BY <1>5, <2>2, ShownHolds
<1>6. CASE config.use \in {"if", "kept"}
  <2>1. f = Render(k)
    BY <1>6 DEF ShowUse
  <2>2. Good(config, f, 0, {}, 0, FALSE) /\ Rendered(k, f)
    BY <1>3, <1>4, <1>6, <2>1, RenderGood
  <2> QED
    BY <1>6, <2>2, RenderedHolds
<1> QED
  BY <1>1, <1>5, <1>6

\* Another view is wanted.
LEMMA ToggleInv ==
  ASSUME NEW c, NEW w, NEW v, NEW h, HeapInv(c, w, h), h.mounted, NEW g, g = Requested(h)
  PROVE  HeapInv(c, v, g)
<1>1. Good(c, h, 0, {}, 0, FALSE) /\ ShownInv(c, h) /\ WantInv(c, w, h)
  BY DEF HeapInv
<1>2. /\ Good(c, g, 0, {}, 0, FALSE) /\ g.els = h.els /\ g.cur = h.cur
      /\ (g.shown <=> h.shown) /\ g.entered = h.entered /\ (g.mounted <=> h.mounted) /\ g.dirty
  BY <1>1, MarkedGood
<1>3. ShownInv(c, g) /\ WantInv(c, v, g)
  BY <1>1, <1>2 DEF ShownInv, WantInv, Leaves, InEnter
<1> QED
  BY <1>2, <1>3 DEF HeapInv

LEMMA FrameInv ==
  ASSUME NEW w, NEW h, HeapInv(config, w, h), NEW i \in DOMAIN h.cbs, h.cbs[i].stage = "frame", NEW g, g = NextFrame(h, i)
  PROVE  HeapInv(config, w, g)
<1>1. Good(config, h, 0, {}, 0, FALSE) /\ ShownInv(config, h) /\ WantInv(config, w, h)
  BY DEF HeapInv
<1>2. PlacesInv(config, h, {})
  BY <1>1 DEF Good
<1>3. PICK e, cs : Staged(config, h, g, i, e, cs) /\ Good(config, g, 0, {}, 0, FALSE)
  BY <1>1, FrameGood
<1>4. ShownInv(config, g)
  BY <1>1, <1>2, <1>3, StagedShown
<1>5. Kept(h, g, e)
  BY <1>3, StagedKept
<1>6. WantInv(config, w, g)
  BY <1>1, <1>2, <1>5, RestKept
<1> QED
  BY <1>3, <1>4, <1>6 DEF HeapInv

LEMMA EndInv ==
  ASSUME InOutEnds(config), NEW w, NEW h, HeapInv(config, w, h), NEW i \in DOMAIN h.cbs, h.cbs[i].stage \in {"end", "user"},
         NEW g, g = NextEnd(h, i)
  PROVE  HeapInv(config, w, g)
<1>1. Good(config, h, 0, {}, 0, FALSE) /\ ShownInv(config, h) /\ WantInv(config, w, h)
  BY DEF HeapInv
<1>2. PlacesInv(config, h, {})
  BY <1>1 DEF Good
<1>3. Good(config, g, 0, {}, 0, FALSE) /\ ShownInv(config, g) /\ \E e : Kept(h, g, e)
  BY <1>1, EndGood
<1>4. WantInv(config, w, g)
  BY <1>1, <1>2, <1>3, RestKept
<1> QED
  BY <1>3, <1>4 DEF HeapInv

\* At first there is nothing.
LEMMA InitInv ==
  ASSUME NEW c, NEW w, NEW h,
         h = [els |-> <<>>, cbs |-> <<>>, links |-> <<>>, entered |-> 0,
              pending |-> [v \in Views |-> 0], cur |-> 0, shown |-> FALSE,
              leaving |-> FALSE, mounted |-> FALSE, dirty |-> TRUE]
  PROVE  HeapInv(c, w, h)
<1>1. /\ h.els = <<>> /\ h.cbs = <<>> /\ h.links = <<>> /\ h.entered = 0 /\ h.pending = [v \in Views |-> 0]
      /\ h.cur = 0 /\ ~h.shown /\ ~h.leaving /\ ~h.mounted /\ h.dirty
  OBVIOUS
<1>2. h \in HeapType
  BY DEF HeapType
<1>3. DOMAIN h.els = {} /\ DOMAIN h.cbs = {} /\ DOMAIN h.links = {} /\ Len(h.els) = 0
  BY <1>1
<1>4. \A k \in Views : h.pending[k] = 0
  BY <1>1
<1>5. CallbacksInv(c, h) /\ HooksInv(c, h) /\ LinksInv(c, h, 0) /\ ClassesInv(c, h, {})
  BY <1>3 DEF CallbacksInv, HooksInv, LinksInv, Closures, ClassesInv
<1>6. PlacesInv(c, h, {}) /\ KeysInv(c, h, 0)
  BY <1>1, <1>3 DEF PlacesInv, KeysInv
<1>7. PendingInv(c, h)
  BY <1>3, <1>4 DEF PendingInv
<1>8. OutInInv(h, FALSE)
  BY <1>1, <1>3 DEF OutInInv
<1>9. ShownInv(c, h) /\ WantInv(c, w, h)
  BY <1>1 DEF ShownInv, WantInv
<1> QED
  BY <1>2, <1>5, <1>6, <1>7, <1>8, <1>9 DEF Good, HeapInv

Inv == config \in Configs /\ want \in Views \union {None} /\ HeapInv(config, want, heap)

\* In mode in-out somebody ends the transitions: the browser or the user.
Ends == \A c \in Configs : InOutEnds(c)

LEMMA InvInit == Init => Inv
<1> SUFFICES ASSUME Init PROVE Inv
  OBVIOUS
<1>1. HeapInv(config, want, heap)
  BY InitInv DEF Init
<1> QED
  BY <1>1 DEF Init, Inv

LEMMA InvNext ==
  ASSUME Ends
  PROVE  Inv /\ [Next]_vars => Inv'
<1> SUFFICES ASSUME Inv, [Next]_vars PROVE Inv'
  OBVIOUS
<1>1. config \in Configs /\ want \in Views \union {None} /\ HeapInv(config, want, heap) /\ InOutEnds(config)
  BY DEF Inv, Ends
<1>2. CASE Flush
  <2> DEFINE k == Clean(heap)
             f == IF ShowUse THEN Show(k) ELSE Render(k)
  <2>1. heap' = WithMounted(f) /\ config' = config /\ want' = want
    BY <1>2 DEF Flush, Clean, WithMounted
  <2>2. HeapInv(config, want, WithMounted(f))
    <3>1. k = Clean(heap) /\ f = IF ShowUse THEN Show(k) ELSE Render(k)
      OBVIOUS
    <3> HIDE DEF k, f
    <3> QED
      BY <1>1, <3>1, FlushInv
  <2> HIDE DEF f
  <2> QED
    BY <1>1, <2>1, <2>2 DEF Inv
<1>3. ASSUME NEW v \in Views \union {None}, Toggle(v) PROVE Inv'
  <2>1. heap' = Requested(heap) /\ config' = config /\ want' = v /\ heap.mounted
    BY <1>3 DEF Toggle, Requested
  <2>2. HeapInv(config, v, Requested(heap))
    BY <1>1, <2>1, ToggleInv
  <2> QED
    BY <1>1, <2>1, <2>2 DEF Inv
<1>4. ASSUME NEW i \in DOMAIN heap.cbs, Frame(i) PROVE Inv'
  <2>1. heap' = NextFrame(heap, i) /\ config' = config /\ want' = want /\ heap.cbs[i].stage = "frame"
    BY <1>4 DEF Frame, NextFrame
  <2>2. HeapInv(config, want, NextFrame(heap, i))
    BY <1>1, <2>1, FrameInv
  <2> QED
    BY <1>1, <2>1, <2>2 DEF Inv
<1>5. ASSUME NEW i \in DOMAIN heap.cbs, End(i) PROVE Inv'
  <2>1. heap' = NextEnd(heap, i) /\ config' = config /\ want' = want /\ heap.cbs[i].stage \in {"end", "user"}
    BY <1>5 DEF End, NextEnd, Ended
  <2>2. HeapInv(config, want, NextEnd(heap, i))
    BY <1>1, <2>1, EndInv
  <2> QED
    BY <1>1, <2>1, <2>2 DEF Inv
<1>6. CASE UNCHANGED vars
  BY <1>1, <1>6 DEF vars, Inv
<1> QED
  BY <1>2, <1>3, <1>4, <1>5, <1>6 DEF Next

-----------------------------------------------------------------------------
(***************************************************************************)
(* What the invariant says of a heap in which nothing goes on.             *)
(***************************************************************************)
Still(h) == ~h.dirty /\ \A i \in DOMAIN h.cbs : h.cbs[i].stage \notin Running

\* A leave that waits waits for an enter that goes on.
LEMMA StillCalled ==
  ASSUME NEW c, NEW h, Good(c, h, 0, {}, 0, FALSE), Still(h), NEW i \in DOMAIN h.cbs
  PROVE  h.cbs[i].called
<1>1. h \in HeapType /\ CallbacksInv(c, h) /\ LinksInv(c, h, 0)
  BY DEF Good
<1>2. ASSUME NEW j \in DOMAIN h.cbs, ~h.cbs[j].called PROVE h.cbs[j].stage = "delayed" /\ LinkOf(h, j) = 0
  <2>1. h.cbs[j] \in CallbackType /\ CallbackInv(c, h, j)
    BY <1>1, CallbackChanges DEF CallbacksInv
  <2>2. h.cbs[j].stage = "delayed"
    BY <1>2, <2>1 DEF CallbackInv, CallbackType, Still
  <2>3. h.cbs[j].link = 0
    BY <2>1, <2>2 DEF CallbackInv, CallbackType
  <2> QED
    BY <2>2, <2>3 DEF LinkOf
<1>3. SUFFICES ASSUME ~h.cbs[i].called PROVE FALSE
  OBVIOUS
<1>4. i # 0
  BY <1>1 DEF HeapType
<1>5. Waits(c, h, i) /\ h.cbs[i].stage = "delayed"
  BY <1>1, <1>2, <1>3, <1>4 DEF LinksInv
<1>6. PICK j \in DOMAIN h.cbs : ~h.cbs[j].called /\ LinkOf(h, j) = i
  BY <1>3, <1>5 DEF Waits
<1> QED
  BY <1>2, <1>4, <1>6

LEMMA StillElement ==
  ASSUME NEW c, NEW h, Good(c, h, 0, {}, 0, FALSE), Still(h), NEW e \in DOMAIN h.els
  PROVE  /\ h.els[e].enterCb = 0 /\ h.els[e].leaveCb = 0
         /\ h.els[e].inDom => h.els[e].classes = {} /\ e = h.cur
<1>1. CallbacksOf(h, e) /\ ClassesFit(c, h, e, {}) /\ PlacesInv(c, h, {})
  BY DEF Good, CallbacksInv, ClassesInv
<1>2. h.els[e].enterCb = 0 /\ h.els[e].leaveCb = 0
  BY <1>1, StillCalled DEF CallbacksOf, Uncalled
<1>3. ~InEnter(h, e) /\ ~Leaves(h, e)
  BY <1>2 DEF InEnter, Leaves
<1>4. ClassesOf(h, e) = {}
  BY <1>3 DEF ClassesOf
<1>5. h.els[e].inDom => h.els[e].classes = {}
  BY <1>1, <1>4 DEF ClassesFit
<1>6. h.els[e].inDom => e = h.cur
  BY <1>1, <1>3 DEF PlacesInv
<1> QED
  BY <1>2, <1>5, <1>6

LEMMA StillOpen ==
  ASSUME NEW c, NEW h, Good(c, h, 0, {}, 0, FALSE), Still(h)
  PROVE  ~h.leaving
<1>1. OutInInv(h, FALSE)
  BY DEF Good
<1> QED
  BY <1>1, StillCalled DEF OutInInv

\* What is in the document is what is wanted.
ShowsWanted(c, w, h, D) ==
  IF c.use = "show" THEN \A e \in D : h.els[e].display = (w # None)
  ELSE {h.els[e].key : e \in D} = {w} \ {None} /\ Cardinality(D) <= 1

LEMMA StillShows ==
  ASSUME NEW c, NEW w \in Views \union {None}, NEW h, HeapInv(c, w, h), Still(h), NEW D, D = {e \in DOMAIN h.els : h.els[e].inDom}
  PROVE  ShowsWanted(c, w, h, D)
<1>1. Good(c, h, 0, {}, 0, FALSE) /\ ShownInv(c, h) /\ WantInv(c, w, h) /\ PlacesInv(c, h, {}) /\ h \in HeapType
  BY DEF HeapInv, Good
<1>2. ~h.leaving /\ \A e \in D : e = h.cur /\ e \in DOMAIN h.els
  BY <1>1, StillOpen, StillElement
<1>3. h.cur # 0 => h.cur \in D
  BY <1>1 DEF PlacesInv
<1>4. CASE c.use = "show"
  <2>1. h.cur = 1 /\ (h.shown <=> w # None)
    BY <1>1, <1>4 DEF WantInv, Still
  <2>2. 1 \in DOMAIN h.els
    BY <1>1, <2>1 DEF PlacesInv
  <2>3. ~InEnter(h, 1) /\ ~Leaves(h, 1)
    <3>1. \A e \in DOMAIN h.els : h.els[e].enterCb = 0 /\ h.els[e].leaveCb = 0
      BY ZenonT(30), <1>1, StillElement
    <3> QED
      BY <2>2, <3>1 DEF InEnter, Leaves
  <2>4. h.els[1].display <=> w # None
    BY <1>1, <1>4, <2>1, <2>3 DEF ShownInv
  <2>5. h.els[1].display \in BOOLEAN
    BY Zenon, <1>1, <2>2, ElementChanges DEF ElementType
  <2>6. h.els[1].display = (w # None)
    BY <2>4, <2>5
  <2> QED
    BY <1>2, <1>4, <2>1, <2>6 DEF ShowsWanted
<1>5. CASE c.use # "show" /\ h.cur # 0
  <2>1. h.els[h.cur].key = w
    BY <1>1, <1>5 DEF WantInv, Still
  <2>2. h.els[h.cur] \in ElementType
    BY Zenon, <1>1, <1>3, <1>5, ElementChanges
  <2>3. w # None
    BY Zenon, <2>1, <2>2, ConfigsAssumption DEF ElementType
  <2>4. D = {h.cur}
    BY <1>2, <1>3, <1>5
  <2>5. Cardinality(D) = 1
    BY <2>4, FS_Singleton
  <2>6. {h.els[e].key : e \in D} = {w}
    BY <2>1, <2>4
  <2>7. {w} \ {None} = {w}
    BY <2>3
  <2>8. Cardinality(D) <= 1
    BY <2>5
  <2> QED
    BY <1>5, <2>6, <2>7, <2>8 DEF ShowsWanted
<1>6. CASE c.use # "show" /\ h.cur = 0
  <2>1. w = None
    BY <1>1, <1>2, <1>6 DEF WantInv, Still
  <2>2. D = {}
    <3>1. \A e \in D : e # 0
      BY <1>1, <1>2 DEF HeapType
    <3> QED
      BY <1>2, <1>6, <3>1
  <2>3. Cardinality(D) = 0
    BY <2>2, FS_EmptySet
  <2>4. {h.els[e].key : e \in D} = {} /\ {w} \ {None} = {}
    BY <2>1, <2>2
  <2>5. Cardinality(D) <= 1
    BY <2>3
  <2> QED
    BY <1>6, <2>4, <2>5 DEF ShowsWanted
<1> QED
  BY <1>4, <1>5, <1>6

LEMMA SettlesHolds == Inv => SettlesAsWanted
<1> SUFFICES ASSUME Inv PROVE SettlesAsWanted
  OBVIOUS
<1>1. want \in Views \union {None} /\ HeapInv(config, want, heap) /\ Good(config, heap, 0, {}, 0, FALSE)
  BY DEF Inv, HeapInv
<1>2. heap \in HeapType /\ KeysInv(config, heap, 0) /\ OutInInv(heap, FALSE)
  BY <1>1 DEF Good
<1>3. OneAtATime
  <2>1. 0 \notin DOMAIN heap.els
    BY <1>2 DEF HeapType
  <2> QED
    BY <1>2, <2>1 DEF OneAtATime, InDom, KeysInv, OutInInv
<1>4. ASSUME Settled PROVE Still(heap)
  BY <1>4 DEF Settled, Still, Running
<1>5. ASSUME Settled PROVE \A e \in InDom : heap.els[e].classes = {} /\ heap.els[e].enterCb = 0 /\ heap.els[e].leaveCb = 0
  BY <1>1, <1>4, <1>5, StillElement DEF InDom
<1>6. ASSUME Settled PROVE ~heap.leaving
  BY <1>1, <1>4, <1>6, StillOpen
<1>7. ASSUME Settled
      PROVE  IF ShowUse THEN \A e \in InDom : heap.els[e].display = (want # None)
             ELSE {heap.els[e].key : e \in InDom} = {want} \ {None} /\ Cardinality(InDom) <= 1
  <2>1. InDom = {e \in DOMAIN heap.els : heap.els[e].inDom}
    BY DEF InDom
  <2>2. ShowsWanted(config, want, heap, InDom)
    BY <1>1, <1>4, <1>7, <2>1, StillShows
  <2> QED
    BY <2>2 DEF ShowUse, ShowsWanted
<1> QED
  BY <1>3, <1>5, <1>6, <1>7 DEF SettlesAsWanted

LEMMA HooksHold == Inv => HooksPaired
<1> SUFFICES ASSUME Inv, NEW e \in DOMAIN heap.els PROVE PairsUp(config, heap.els[e].hooks)
  BY DEF HooksPaired, PairsUp
<1> QED
  BY DEF Inv, HeapInv, Good, HooksInv, HookInv

-----------------------------------------------------------------------------
\* However transitions are cancelled, delayed and overtaken, no view is in the document
\* twice, out-in does not let a view in while another leaves, and at rest the document
\* shows what is wanted, without a class or a callback left (transition.ts, _leaving of
\* components/transition.ts, v-show), where somebody ends the transitions of in-out.
THEOREM SettlesAsWantedCorrect ==
  ASSUME Ends
  PROVE  Spec => []SettlesAsWanted
<1>1. Init => Inv
  BY InvInit
<1>2. Inv /\ [Next]_vars => Inv'
  BY InvNext
<1>3. Inv => SettlesAsWanted
  BY SettlesHolds
<1> QED
  BY <1>1, <1>2, <1>3, PTL DEF Spec

\* Of every element, each transition that begins ends by one hook, after or cancelled,
\* before the next begins (_enterCb, _leaveCb and once, transition.ts:104, 213).
THEOREM HooksPairedCorrect ==
  ASSUME Ends
  PROVE  Spec => []HooksPaired
<1>1. Init => Inv
  BY InvInit
<1>2. Inv /\ [Next]_vars => Inv'
  BY InvNext
<1>3. Inv => HooksPaired
  BY HooksHold
<1> QED
  BY <1>1, <1>2, <1>3, PTL DEF Spec
=============================================================================
