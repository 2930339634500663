------------------------------ MODULE Instances ------------------------------
(***************************************************************************)
(* The tree of component instances, the virtual nodes they render and the  *)
(* document: creation, mounting, hydration, patching, replacement of a     *)
(* root and destruction, with the modules of the patch that keep template  *)
(* refs and directives, and what a parent hands down: props, listeners,    *)
(* slots and what it provides.                                             *)
(*                                                                         *)
(* All of this is synchronous code that calls itself through the hooks of  *)
(* components, so that it is written as functions of a heap h; what the    *)
(* hooks of the application do is a constant.                              *)
(***************************************************************************)
EXTENDS Integers, Sequences, FiniteSets, SequencesExt

CONSTANTS
  Views,     \* what a component can render: a sequence of nodes for each name
  Options,   \* its options: [prop : BOOLEAN, provide : Nat, inject : BOOLEAN]
  Reactions, \* what hooks may do: a set of functions from <<name, hook>>
  Servers,   \* what the server may have rendered: shapes of elements
  MaxSteps   \* bound on the operations of a behavior

None == "none"
Texts == {"t1", "t2"}
Root == "Root"
NoValue == [from |-> "none", n |-> 0]
Given(n) == [from |-> "given", n |-> n]

(***************************************************************************)
(* A node of a template: an element, a component, a text, the comment of a *)
(* false v-if, or the outlet of the default slot.                          *)
(***************************************************************************)
NoData == [ref |-> None, inFor |-> FALSE, dirs |-> {}, on |-> 0, prop |-> NoValue]
Node(k, name, key, data, kids) == [k |-> k, name |-> name, key |-> key, data |-> data, kids |-> kids]
EmptyNode == Node("empty", "!", 0, NoData, <<>>)

VARIABLES
  app,   \* the heap: instances, vnodes, vnode data, elements, and the rest
  steps

vars == <<app, steps>>

-----------------------------------------------------------------------------
(***************************************************************************)
(* The document.  Element 0 is none, element 1 is the body.                *)
(***************************************************************************)
NewElm(h, name) ==
  [h EXCEPT !.dom = Append(@, [name |-> name, kids |-> <<>>, up |-> 0]), !.ret = Len(h.dom) + 1]

Detach(h, e) ==
  LET p == h.dom[e].up
  IN  IF p = 0 THEN h
      ELSE [h EXCEPT !.dom[p].kids = SelectSeq(@, LAMBDA c : c # e), !.dom[e].up = 0]

PlaceOf(s, e) == CHOOSE n \in DOMAIN s : s[n] = e

NextSibling(h, e) ==
  LET p == h.dom[e].up
      s == IF p = 0 THEN <<>> ELSE h.dom[p].kids
      n == IF p = 0 THEN 0 ELSE PlaceOf(s, e)
  IN  IF n = Len(s) THEN 0 ELSE s[n + 1]

\* insertBefore(p, e, ref), at the end without ref.
InsertBefore(h, p, e, ref) ==
  LET d == Detach(h, e)
      s == d.dom[p].kids
      n == IF ref = 0 THEN Len(s) + 1 ELSE PlaceOf(s, ref)
  IN  [d EXCEPT !.dom[p].kids = InsertAt(s, n, e), !.dom[e].up = p]

insert(h, p, e, ref) ==
  IF p = 0 \/ (ref # 0 /\ h.dom[ref].up # p) THEN h ELSE InsertBefore(h, p, e, ref)

RECURSIVE InDocument(_, _)
InDocument(h, e) == e = 1 \/ (e # 0 /\ InDocument(h, h.dom[e].up))

-----------------------------------------------------------------------------
(***************************************************************************)
(* Rendering: fresh vnodes, but for the content of slots, which belongs to *)
(* the parent and is the same until the parent renders again.  The data of *)
(* a vnode, its hooks among them, is shared with its clones.               *)
(***************************************************************************)
HasData(n) == n.k = "comp" \/ n.key # 0 \/ n.data # NoData
HasTag(n) == n.k \in {"elm", "comp"}

RECURSIVE Make(_, _, _)
MakeAll(h, i, nodes) ==
  LET Add(r, n) ==
        LET M == IF n.k = "slot"
                 THEN IF h.vm[i].slots # <<>> THEN [h |-> r.h, vs |-> h.vm[i].slots]
                      ELSE Make(r.h, i, n)
                 ELSE Make(r.h, i, n)
        IN  [h |-> M.h, vs |-> r.vs \o M.vs]
  IN  FoldLeft(Add, [h |-> h, vs |-> <<>>], nodes)

Make(h, i, n) ==
  LET K == MakeAll(h, i, n.kids)
      v == Len(K.h.vn) + 1
      d == Len(K.h.dat) + 1
  IN  IF n.k = "slot" THEN K
      ELSE [h  |-> [K.h EXCEPT
                      !.vn = Append(@, [node |-> [n EXCEPT !.kids = <<>>], ctx |-> i, dat |-> d,
                                        kids |-> IF n.k = "comp" THEN <<>> ELSE K.vs,
                                        slot |-> IF n.k = "comp" THEN K.vs ELSE <<>>,
                                        elm |-> 0, inst |-> 0, up |-> 0]),
                      !.dat = Append(@, [ins  |-> IF n.k = "comp" THEN <<[fn |-> "comp", v |-> v, dirs |-> {}]>>
                                                  ELSE <<>>,
                                         hasIns |-> n.k = "comp", merged |-> FALSE,
                                         post |-> <<>>, pend |-> <<>>])],
            vs |-> <<v>>]

cloneVNode(h, v) ==
  [h EXCEPT !.vn = Append(@, [h.vn[v] EXCEPT !.inst = 0, !.up = 0]), !.ret = Len(h.vn) + 1]

\* The vnode to use for v, child number n of own: a clone if v has been used.
Unused(h, v, own, n) ==
  IF h.vn[v].elm = 0 \/ own = 0 THEN [h EXCEPT !.ret = v]
  ELSE LET c == cloneVNode(h, v) IN [c EXCEPT !.vn[own].kids[n] = c.ret]

resolveSlots(h, vs) == IF \A n \in DOMAIN vs : h.vn[vs[n]].node.k = "empty" THEN <<>> ELSE vs

sameVnode(h, a, b) ==
  LET m == h.vn[a].node  n == h.vn[b].node
  IN  /\ m.key = n.key /\ m.k = n.k /\ HasData(m) = HasData(n)
      /\ HasTag(m) => m.name = n.name

RECURSIVE isPatchable(_, _)
isPatchable(h, v) ==
  IF h.vn[v].inst # 0 THEN isPatchable(h, h.vm[h.vn[v].inst].vnode) ELSE HasTag(h.vn[v].node)

-----------------------------------------------------------------------------
(***************************************************************************)
(* Template refs.  A ref is a value or, in a v-for, an array.              *)
(***************************************************************************)
NoRef == [array |-> FALSE, of |-> <<>>]

RefValue(h, v) ==
  IF h.vn[v].inst # 0 THEN [vm |-> h.vn[v].inst, elm |-> 0] ELSE [vm |-> 0, elm |-> h.vn[v].elm]

\* mutant: a ref is removed without a look at what it holds, and holds one thing in a v-for
registerRefUnchecked(h, v, isRemoval) ==
  LET data == h.vn[v].node.data
      i    == h.vn[v].ctx
      Set(r) == [h EXCEPT !.vm[i].refs[data.ref] = r]
  IN  IF data.ref = None THEN h
      ELSE IF isRemoval THEN Set(NoRef)
      ELSE Set([array |-> data.inFor, of |-> <<RefValue(h, v)>>])

registerRef(h, v, isRemoval) ==
  LET data == h.vn[v].node.data
      Without(r, x) == IF data.inFor THEN IF r.array THEN [r EXCEPT !.of = Remove(@, x)] ELSE r
                       ELSE IF ~r.array /\ r.of = <<x>> THEN NoRef ELSE r
      With(r, x)    == IF ~data.inFor \/ ~r.array THEN [array |-> data.inFor, of |-> <<x>>]
                       ELSE IF Contains(r.of, x) THEN r ELSE [r EXCEPT !.of = Append(@, x)]
  IN  IF data.ref = None THEN h
      ELSE [h EXCEPT !.vm[h.vn[v].ctx].refs[data.ref] =
                       IF isRemoval THEN Without(@, RefValue(h, v)) ELSE With(@, RefValue(h, v))]

updateRef(h, old, v) ==
  IF h.vn[old].node.data.ref = h.vn[v].node.data.ref THEN h
  ELSE registerRef(registerRef(h, old, TRUE), v, FALSE)

-----------------------------------------------------------------------------
(***************************************************************************)
(* Directives.  old or v is 0 for the empty node.  The calls of inserted   *)
(* and componentUpdated are merged into the hooks of the vnode.            *)
(***************************************************************************)
Log(h, what, who, arg) == [h EXCEPT !.log = Append(@, [what |-> what, who |-> who, arg |-> arg])]

LogAll(h, what, who, dirs) ==
  FoldLeft(LAMBDA r, d : Log(r, what, who, d), h, SetToSeq(dirs))

LogInserted(h, e, dirs) ==
  LogAll(h, IF InDocument(h, e) THEN "inserted" ELSE "insertedOutside", e, dirs)

mergeInsert(h, v, dirs) ==
  LET d == h.vn[v].dat
  IN  [h EXCEPT !.dat[d].ins = Append(@, [fn |-> "dirs", v |-> v, dirs |-> dirs]),
                !.dat[d].hasIns = TRUE, !.dat[d].merged = TRUE]

updateDirectives(h, old, v) ==
  LET oldDirs == IF old = 0 THEN {} ELSE h.vn[old].node.data.dirs
      newDirs == IF v = 0 THEN {} ELSE h.vn[v].node.data.dirs
      Bind(r) == IF v = 0 THEN r ELSE LogAll(r, "bind", r.vn[v].elm, newDirs \ oldDirs)
      Inserted(r) == IF newDirs \ oldDirs = {} THEN r
                     ELSE IF old = 0 THEN mergeInsert(r, v, newDirs)
                     ELSE LogInserted(r, r.vn[v].elm, newDirs \ oldDirs)
      Postpatch(r) == IF newDirs \intersect oldDirs = {} THEN r
                      ELSE [r EXCEPT !.dat[r.vn[v].dat].post =
                                       Append(@, [v |-> v, dirs |-> newDirs \intersect oldDirs])]
      Unbind(r) == IF old = 0 THEN r ELSE LogAll(r, "unbind", r.vn[old].elm, oldDirs \ newDirs)
  IN  Unbind(Postpatch(Inserted(Bind(h))))

\* One call of the merged insert function f: it removes itself when it is done.
callInsert(h, d, f) ==
  [LogInserted(h, h.vn[f.v].elm, f.dirs) EXCEPT !.dat[d].ins = Remove(@, f)]

callPostpatch(h, v) ==
  LET d == h.vn[v].dat
  IN  [FoldLeft(LAMBDA r, p : LogAll(r, "componentUpdated", r.vn[p.v].elm, p.dirs), h, h.dat[d].post)
       EXCEPT !.dat[d].post = <<>>]

\* The create functions of the modules, then the queue of insert hooks.
createModules(h, v) == updateDirectives(registerRef(h, v, FALSE), 0, v)

destroyModules(h, v) == updateDirectives(registerRef(h, v, TRUE), v, 0)

invokeCreateHooks(h, v) ==
  LET Enqueue(r) == IF r.dat[r.vn[v].dat].hasIns THEN [r EXCEPT !.queue = Append(@, v)] ELSE r
  IN  Enqueue(createModules(h, v))

-----------------------------------------------------------------------------
(***************************************************************************)
(* What is handed down to an instance.                                     *)
(***************************************************************************)
\* A default is made by its factory, unless the prop was not given before either.
validateProp(h, i, raw) ==
  LET vm == h.vm[i]
      fresh == [h EXCEPT !.made = @ + 1,
                         !.vm[i].prop = [from |-> "default", n |-> h.made + 1], !.vm[i].raw = raw]
  IN  IF ~Options[vm.comp].prop THEN h
      ELSE IF raw # NoValue THEN [h EXCEPT !.vm[i].prop = raw, !.vm[i].raw = raw]
      ELSE IF vm.raw = NoValue /\ vm.prop # NoValue THEN h
      ELSE fresh

\* The handler in the invoker of the event and how often it is registered.
updateListeners(h, i, on) ==
  LET old == h.vm[i].on
  IN  [h EXCEPT !.vm[i].on = on,
                !.vm[i].calls = IF on # 0 /\ old = 0 THEN @ + 1
                                ELSE IF on = 0 /\ old # 0 THEN @ - 1 ELSE @]

\* Objects that hold what is provided inherit from the one of the parent.
RECURSIVE Lookup(_, _)
Lookup(h, o) == IF o = 0 THEN 0 ELSE IF h.prov[o].val # 0 THEN h.prov[o].val ELSE Lookup(h, h.prov[o].up)

resolveInject(h, i) ==
  IF Options[h.vm[i].comp].inject THEN [h EXCEPT !.vm[i].injected = Lookup(h, h.vm[i].prov)] ELSE h

resolveProvided(h, i) ==
  LET p == h.vm[i].parent
  IN  IF p # 0 /\ h.vm[p].prov = h.vm[i].prov
      THEN [h EXCEPT !.prov = Append(@, [up |-> h.vm[p].prov, val |-> 0]),
                     !.vm[i].prov = Len(h.prov) + 1]
      ELSE h

initProvide(h, i) ==
  LET val == Options[h.vm[i].comp].provide
      r   == resolveProvided(h, i)
  IN  IF val = 0 THEN h ELSE [r EXCEPT !.prov[r.vm[i].prov].val = val]

initLifecycle(h, comp, pv) ==
  LET p    == IF pv = 0 THEN 0 ELSE h.active
      i    == Len(h.vm) + 1
      prov == IF p = 0 THEN Len(h.prov) + 1 ELSE h.vm[p].prov
      vm   == [comp |-> comp, parent |-> p, pv |-> pv, vnode |-> 0, el |-> 0, children |-> <<>>,
               refs |-> [r \in {None, "r", "s"} |-> NoRef], on |-> 0, calls |-> 0, view |-> 1,
               slots |-> IF pv = 0 THEN <<>> ELSE resolveSlots(h, h.vn[pv].slot),
               given |-> IF pv = 0 THEN <<>> ELSE h.vn[pv].slot,
               raw |-> NoValue, prop |-> NoValue, prov |-> prov, injected |-> 0,
               watching |-> FALSE, mounted |-> FALSE, being |-> FALSE, destroyed |-> FALSE]
      h1   == [h EXCEPT !.vm = Append(@, vm), !.ret = i,
                        !.prov = IF p = 0 THEN Append(@, [up |-> 0, val |-> 0]) ELSE @]
  IN  IF p = 0 THEN h1 ELSE [h1 EXCEPT !.vm[p].children = Append(@, i)]

PlaceholderData(h, i) == IF h.vm[i].pv = 0 THEN NoData ELSE h.vn[h.vm[i].pv].node.data

forceUpdate(h, i) == IF h.vm[i].watching THEN [h EXCEPT !.dirty = @ \union {i}] ELSE h

\* The state that i renders changes: its watcher is queued if it depends on it.
SetView(h, i, n) ==
  IF h.vm[i].view = n THEN h
  ELSE [(IF h.vm[i].destroyed THEN h ELSE forceUpdate(h, i)) EXCEPT !.vm[i].view = n]

-----------------------------------------------------------------------------
(***************************************************************************)
(* Creation, patching and destruction call each other, which Call is for:  *)
(* c is the name of a function with its arguments.  Each returns the heap; *)
(* ok and ret hold the result of those that have one.                      *)
(***************************************************************************)
RECURSIVE Call(_, _)

callHook(h, i, hook) ==
  LET r == Log(h, hook, i, h.vm[i].comp)
      p == IF h.vm[i].parent = 0 THEN i ELSE h.vm[i].parent
      on == <<h.vm[i].comp, hook>>
      does == IF on \in DOMAIN h.reacts THEN h.reacts[on] ELSE None
  IN  CASE does = "next"    -> SetView(r, p, Len(Views[h.vm[p].comp]))
        [] does = "destroy" -> Call(r, <<"$destroy", i>>)
        [] OTHER            -> r

New(h, comp, pv) ==
  LET i    == Len(h.vm) + 1
      data == IF pv = 0 THEN NoData ELSE h.vn[pv].node.data
      Begin(r)     == updateListeners(initLifecycle(r, comp, pv), i, data.on)
      InitState(r) == initProvide(validateProp(resolveInject(r, i), i, data.prop), i)
  IN  [callHook(InitState(callHook(Begin(h), i, "beforeCreate")), i, "created") EXCEPT !.ret = i]

RECURSIVE invokeDestroyHook(_, _)
invokeDestroyHook(h, v) ==
  LET i == h.vn[v].inst
      Destroyed(r) == IF i = 0 \/ r.vm[i].destroyed THEN r ELSE Call(r, <<"$destroy", i>>)
      Modules(r)   == IF HasData(r.vn[v].node) THEN destroyModules(r, v) ELSE r
  IN  FoldLeft(invokeDestroyHook, Modules(Destroyed(h)), h.vn[v].kids)

removeVnodes(h, vs) ==
  FoldLeft(LAMBDA r, v : LET d == Detach(r, r.vn[v].elm)
                         IN  IF v = 0 THEN r
                             ELSE IF HasTag(r.vn[v].node) THEN invokeDestroyHook(d, v) ELSE d,
           h, vs)

\* mutant: the rendered tree is not told that the instance is gone
DestroyShallow(h, i) ==
  LET h1 == callHook(h, i, "beforeDestroy")
      p  == h1.vm[i].parent
      h2 == [h1 EXCEPT !.vm[i].being = TRUE, !.vm[i].destroyed = TRUE]
      h3 == IF p # 0 /\ ~h2.vm[p].being THEN [h2 EXCEPT !.vm[p].children = Remove(@, i)] ELSE h2
  IN  IF h.vm[i].being THEN h ELSE [callHook(h3, i, "destroyed") EXCEPT !.vm[i].calls = 0]

\* Destroys the instance i; the hooks of its modules run for its whole tree.
Destroy(h, i) ==
  LET Leave(r) == LET p == r.vm[i].parent
                  IN  IF p # 0 /\ ~r.vm[p].being
                      THEN [r EXCEPT !.vm[p].children = Remove(@, i), !.vm[i].being = TRUE]
                      ELSE [r EXCEPT !.vm[i].being = TRUE]
      Empty(r) == LET d == [r EXCEPT !.vm[i].destroyed = TRUE]
                  IN  IF r.vm[i].vnode = 0 THEN d ELSE invokeDestroyHook(d, r.vm[i].vnode)
      Free(r)  == LET pv == r.vm[i].pv
                      f  == [r EXCEPT !.vm[i].calls = 0]
                  IN  IF pv = 0 THEN f ELSE [f EXCEPT !.vn[pv].up = 0]
  IN  IF h.vm[i].being THEN h
      ELSE Free(callHook(Empty(Leave(callHook(h, i, "beforeDestroy"))), i, "destroyed"))

\* Without a root, or with several, an empty node is rendered.
Render(h, i) ==
  LET OneRoot(m) == IF Len(m.vs) = 1 THEN m ELSE Make(h, i, EmptyNode)
      Place(m)   == [m.h EXCEPT !.vn[Head(m.vs)].up = h.vm[i].pv, !.ret = Head(m.vs)]
  IN  Place(OneRoot(MakeAll(h, i, <<Views[h.vm[i].comp][h.vm[i].view]>>)))

invokeInsertHook(h, v, initial) ==
  LET up == h.vn[v].up
      comp(r, q) ==
        LET i == r.vn[q].inst
        IN  IF r.vm[i].mounted THEN r
            ELSE callHook([r EXCEPT !.vm[i].mounted = TRUE], i, "mounted")
      Insert(r, q) ==
        FoldLeft(LAMBDA s, f : IF f.fn = "comp" THEN comp(s, q) ELSE callInsert(s, s.vn[q].dat, f),
                 r, r.dat[r.vn[q].dat].ins)
  IN  IF initial /\ up # 0
      THEN [h EXCEPT !.dat[h.vn[up].dat].pend = h.queue]
      ELSE FoldLeft(Insert, h, h.queue)

RECURSIVE fromSecond(_, _, _)
fromSecond(h, a, n) ==
  LET d == h.vn[a].dat
  IN  IF ~h.dat[d].merged \/ n > Len(h.dat[d].ins) THEN h
      ELSE fromSecond(callInsert(h, d, h.dat[d].ins[n]), a, n + 1)

\* mutant: only the innermost placeholder gets the new element
AncestorsOnce(h, v, a) ==
  IF a = 0 THEN h
  ELSE LET h1 == [destroyModules(h, a) EXCEPT !.vn[a].elm = h.vn[v].elm]
       IN  IF isPatchable(h1, v) THEN fromSecond(createModules(h1, a), a, 2)
           ELSE registerRef(h1, a, FALSE)

\* The placeholders of a root that was replaced, from the inside out.
RECURSIVE Ancestors(_, _, _)
Ancestors(h, v, a) ==
  LET Move(r)   == [destroyModules(r, a) EXCEPT !.vn[a].elm = r.vn[v].elm]
      Create(r) == IF isPatchable(r, v) THEN fromSecond(createModules(r, a), a, 2)
                   ELSE registerRef(r, a, FALSE)
  IN  IF a = 0 THEN h ELSE Ancestors(Create(Move(h)), v, h.vn[a].up)

Replace(h, old, v) ==
  LET e == h.vn[old].elm
      p == h.dom[e].up
      Insert(r) == Call(r, <<"createElm", v, 0, 0, p, NextSibling(r, e)>>)
      Drop(r)   == IF p # 0 THEN removeVnodes(r, <<old>>)
                   ELSE IF HasTag(r.vn[old].node) THEN invokeDestroyHook(r, old) ELSE r
  IN  Drop(Ancestors(Insert(h), v, h.vn[v].up))

\* An element that is no vnode's yet: a node for it that Replace can remove.
emptyNodeAt(h, e) ==
  LET Give(m) == [m.h EXCEPT !.vn[Head(m.vs)].elm = e, !.ret = Head(m.vs)]
  IN  Give(Make(h, 0, Node("elm", h.dom[e].name, 0, NoData, <<>>)))

\* old is the vnode to patch, or el the element to mount on, or both are 0.
\* What is tried first gives the vnode that v is to replace, 0 for none.
Patch(h, old, el, v, hydrating) ==
  LET Hydrate(r) == IF hydrating THEN Call(r, <<"hydrate", el, v>>) ELSE [r EXCEPT !.ok = FALSE]
      Instead(r) == IF r.ok THEN [r EXCEPT !.ret = 0]
                    ELSE emptyNodeAt([r EXCEPT !.bailed = hydrating \/ @], el)
      Try(r)     == IF old = 0 /\ el = 0 THEN [Call(r, <<"createElm", v, 0, 0, 0, 0>>) EXCEPT !.ret = 0]
                    ELSE IF old = 0 THEN Instead(Hydrate(r))
                    ELSE IF sameVnode(r, old, v)
                         THEN [Call(r, <<"patchVnode", old, v, 0, 0>>) EXCEPT !.ret = 0]
                    ELSE [r EXCEPT !.ret = old]
      Show(r)    == IF r.ret = 0 THEN r ELSE Replace(r, r.ret, v)
      Insert(r)  == invokeInsertHook(r, v, old = 0 /\ (el = 0 \/ r.ok))
      Done(r)    == [r EXCEPT !.queue = h.queue,
                              !.ret = IF old = 0 /\ el # 0 /\ r.ok THEN el ELSE r.vn[v].elm]
  IN  Done(Insert(Show(Try([h EXCEPT !.queue = <<>>]))))

\* The instances whose root is the component i have its element, too.
RECURSIVE UpdateEl(_, _)
UpdateEl(h, i) ==
  LET p == h.vm[i].parent
  IN  IF h.vm[i].pv # 0 /\ p # 0 /\ h.vm[i].pv = h.vm[p].vnode
      THEN UpdateEl([h EXCEPT !.vm[p].el = h.vm[i].el], p) ELSE h

Update(h, i, hydrating) ==
  LET old == h.vm[i].vnode
      Show(r)  == Patch([r EXCEPT !.vm[i].vnode = r.ret, !.active = i],
                        old, IF old = 0 THEN h.vm[i].el ELSE 0, r.ret, hydrating)
      Shown(r) == UpdateEl([r EXCEPT !.vm[i].el = r.ret, !.active = h.active], i)
  IN  Shown(Show(Render(h, i)))

Mount(h, i, el, hydrating) ==
  LET Watch(r)   == Call([r EXCEPT !.vm[i].watching = TRUE], <<"_update", i, hydrating>>)
      Mounted(r) == IF r.vm[i].pv # 0 THEN r
                    ELSE callHook([r EXCEPT !.vm[i].mounted = TRUE], i, "mounted")
  IN  Mounted(Watch(callHook([h EXCEPT !.vm[i].el = el], i, "beforeMount")))

\* The init hook of the placeholder v.
init(h, v, el, hydrating) ==
  LET Place(r) == [r EXCEPT !.vn[v].inst = r.ret]
      Show(r)  == Mount(r, r.vn[v].inst, el, hydrating)
  IN  Show(Place(New(h, h.vn[v].node.name, v)))

initComponent(h, v) ==
  LET d == h.vn[v].dat
      Place(r)  == [r EXCEPT !.queue = @ \o r.dat[d].pend, !.dat[d].pend = <<>>,
                             !.vn[v].elm = r.vm[r.vn[v].inst].el]
      Create(r) == IF isPatchable(r, v) THEN invokeCreateHooks(r, v)
                   ELSE [registerRef(r, v, FALSE) EXCEPT !.queue = Append(@, v)]
  IN  Create(Place(h))

createElm(h, v0, own, n, p, ref) ==
  LET U == Unused(h, v0, own, n)
      Elm(r, v)    == [NewElm(r, r.vn[v].node.name) EXCEPT !.vn[v].elm = Len(r.dom) + 1]
      Create(r, v) == IF HasData(r.vn[v].node) THEN invokeCreateHooks(r, v) ELSE r
      NodeOf(r, v) == CASE r.vn[v].node.k = "comp" -> initComponent(init(r, v, 0, FALSE), v)
                        [] r.vn[v].node.k = "elm"  -> Create(Call(Elm(r, v), <<"createChildren", v>>), v)
                        [] OTHER                   -> Elm(r, v)
      Insert(r, v) == insert(r, p, r.vn[v].elm, ref)
  IN  Insert(NodeOf(U, U.ret), U.ret)

createChildren(h, v) ==
  FoldLeft(LAMBDA r, n : Call(r, <<"createElm", r.vn[v].kids[n], v, n, r.vn[v].elm, 0>>),
           h, [n \in DOMAIN h.vn[v].kids |-> n])

-----------------------------------------------------------------------------
\* The prepatch hook: the instance gets what the new placeholder hands down.
updateChildComponent(h, i, pv) ==
  LET data   == h.vn[pv].node.data
      given  == h.vn[pv].slot
      forced == given # <<>> \/ h.vm[i].given # <<>>
      Placed(r) == [r EXCEPT !.vm[i].pv = pv, !.vm[i].given = given,
                             !.vn = IF r.vm[i].vnode = 0 THEN @ ELSE [@ EXCEPT ![r.vm[i].vnode].up = pv]]
      Props(r)  == LET q == validateProp(r, i, data.prop)
                   IN  IF q.vm[i].prop = r.vm[i].prop \/ r.vm[i].destroyed THEN q ELSE forceUpdate(q, i)
      Slots(r)  == IF forced THEN forceUpdate([r EXCEPT !.vm[i].slots = resolveSlots(r, given)], i) ELSE r
  IN  Slots(Props(updateListeners(Placed(h), i, data.on)))

\* v is the vnode that patchVnode uses for the new one.
patchInto(h, old, v) ==
  LET d == h.vn[v].node
      Prepatch(r) ==
        IF d.k # "comp" THEN r
        ELSE updateChildComponent([r EXCEPT !.vn[v].inst = r.vn[old].inst], r.vn[old].inst, v)
      Modules(r) == IF HasData(d) /\ isPatchable(r, v)
                    THEN updateDirectives(updateRef(r, old, v), old, v) ELSE r
      Children(r) ==
        LET oldCh == r.vn[old].kids
            ch    == r.vn[v].kids
        IN  IF d.k = "text" THEN [r EXCEPT !.dom[r.vn[v].elm].name = d.name]
            ELSE IF oldCh # <<>> /\ ch # <<>>
                 THEN Call(r, <<"updateChildren", r.vn[v].elm, oldCh, v, 1, Len(oldCh), 1, Len(ch)>>)
            ELSE IF ch # <<>> THEN createChildren(r, v)
            ELSE removeVnodes(r, oldCh)
      Postpatch(r) == IF HasData(d) THEN callPostpatch(r, v) ELSE r
  IN  Postpatch(Children(Modules(Prepatch([h EXCEPT !.vn[v].elm = h.vn[old].elm]))))

patchVnode(h, old, v, own, n) ==
  LET U == Unused(h, v, own, n) IN IF old = v THEN h ELSE patchInto(U, old, U.ret)

\* The child among the old ones os to oe that the new one n can be: by its key,
\* in the map that keeps the last of each, or else the first of the same kind.
findIdxInOld(h, old, os, oe, n) ==
  LET key == h.vn[n].node.key
      here == { x \in os..(IF key # 0 THEN oe ELSE oe - 1) :
                  old[x] # 0 /\ IF key # 0 THEN h.vn[old[x]].node.key = key ELSE sameVnode(h, n, old[x]) }
  IN  IF here = {} THEN 0
      ELSE CHOOSE x \in here : \A y \in here : IF key # 0 THEN y <= x ELSE x <= y

\* The old children os to oe and the new ones ns to ne of v are to be matched.
RECURSIVE updateChildren(_, _, _, _, _, _, _, _)
updateChildren(h, p, old, v, os, oe, ns, ne) ==
  LET new == h.vn[v].kids
      Elm(x) == h.vn[x].elm
      Match(x, n) == Call(h, <<"patchVnode", old[x], new[n], v, n>>)
      MoveBefore(m, x, y) == InsertBefore(m, p, m.vn[old[x]].elm, m.vn[old[y]].elm)
      MoveAfter(m, x, y) == InsertBefore(m, p, m.vn[old[x]].elm, NextSibling(m, m.vn[old[y]].elm))
      Take(x) ==
        IF x # 0 /\ sameVnode(h, old[x], new[ns])
        THEN updateChildren(MoveBefore(Match(x, ns), x, os), p, [old EXCEPT ![x] = 0], v, os, oe, ns + 1, ne)
        ELSE updateChildren(Call(h, <<"createElm", new[ns], v, ns, p, Elm(old[os])>>),
                            p, old, v, os, oe, ns + 1, ne)
      ref == IF ne = Len(new) THEN 0 ELSE Elm(new[ne + 1])
  IN  IF os > oe
      THEN FoldLeft(LAMBDA r, n : Call(r, <<"createElm", r.vn[v].kids[n], v, n, p, ref>>), h,
                    [n \in 1..(ne - ns + 1) |-> ns + n - 1])
      ELSE IF ns > ne THEN removeVnodes(h, SubSeq(old, os, oe))
      ELSE IF old[os] = 0 THEN updateChildren(h, p, old, v, os + 1, oe, ns, ne)
      ELSE IF old[oe] = 0 THEN updateChildren(h, p, old, v, os, oe - 1, ns, ne)
      ELSE IF sameVnode(h, old[os], new[ns])
           THEN updateChildren(Match(os, ns), p, old, v, os + 1, oe, ns + 1, ne)
      ELSE IF sameVnode(h, old[oe], new[ne])
           THEN updateChildren(Match(oe, ne), p, old, v, os, oe - 1, ns, ne - 1)
      ELSE IF sameVnode(h, old[os], new[ne])
           THEN updateChildren(MoveAfter(Match(os, ne), os, oe), p, old, v, os + 1, oe, ns, ne - 1)
      ELSE IF sameVnode(h, old[oe], new[ns])
           THEN updateChildren(MoveBefore(Match(oe, ns), oe, os), p, old, v, os, oe - 1, ns + 1, ne)
      ELSE Take(findIdxInOld(h, old, os, oe, new[ns]))

-----------------------------------------------------------------------------
(***************************************************************************)
(* Hydration of the element e with v; ok tells whether they match.         *)
(***************************************************************************)
assertNodeMatch(h, e, n) ==
  LET name == h.dom[e].name
  IN  CASE n.k = "comp"  -> TRUE
        [] n.k = "elm"   -> name = n.name
        [] n.k = "text"  -> name \in Texts
        [] n.k = "empty" -> name = "!"

\* The children of v from number n on, the first of them with element e, 0 if none.
RECURSIVE hydrateChildren(_, _, _, _)
hydrateChildren(h, e, v, n) ==
  LET H == Call(h, <<"hydrate", e, h.vn[v].kids[n]>>)
  IN  IF n > Len(h.vn[v].kids) THEN [h EXCEPT !.ok = (e = 0)]
      ELSE IF e = 0 THEN [h EXCEPT !.ok = FALSE]
      ELSE IF ~H.ok THEN H
      ELSE hydrateChildren(H, NextSibling(H, e), v, n + 1)

hydrate(h, e, v) ==
  LET d == h.vn[v].node
      Found(r)    == [r EXCEPT !.vn[v].elm = e, !.ok = TRUE]
      Children(r) == IF r.vn[v].kids = <<>> THEN r
                     ELSE IF r.dom[e].kids = <<>> THEN [createChildren(r, v) EXCEPT !.ok = TRUE]
                     ELSE hydrateChildren(r, Head(r.dom[e].kids), v, 1)
      Create(r)   == IF r.ok /\ d.data # NoData THEN [invokeCreateHooks(r, v) EXCEPT !.ok = TRUE] ELSE r
  IN  IF ~assertNodeMatch(h, e, d) THEN [Found(h) EXCEPT !.ok = FALSE]
      ELSE CASE d.k = "comp" -> [initComponent(init(Found(h), v, e, TRUE), v) EXCEPT !.ok = TRUE]
             [] d.k = "elm"  -> Create(Children(Found(h)))
             [] d.k = "text" -> [Found(h) EXCEPT !.dom[e].name = d.name]
             [] OTHER        -> Found(h)

-----------------------------------------------------------------------------
callUpdatedHooks(h, ran) ==
  FoldLeft(LAMBDA r, i : IF r.vm[i].mounted /\ ~r.vm[i].destroyed THEN callHook(r, i, "updated") ELSE r,
           h, Reverse(ran))

\* Watchers run in the order of their instances, also those queued meanwhile.
RECURSIVE Flush(_, _)
Flush(h, ran) ==
  LET i == CHOOSE x \in h.dirty : \A y \in h.dirty : x <= y
      Before(r) == IF r.vm[i].mounted /\ ~r.vm[i].destroyed THEN callHook(r, i, "beforeUpdate") ELSE r
      Run(r)    == IF r.vm[i].destroyed THEN r ELSE Call(r, <<"_update", i, FALSE>>)
  IN  IF h.dirty = {} THEN callUpdatedHooks(h, ran)
      ELSE Flush(Run([Before(h) EXCEPT !.dirty = @ \ {i}]), Append(ran, i))

\* new Vue(options).$mount(el)
MountOn(h, el, hydrating) ==
  LET Show(r) == Mount(r, r.ret, el, hydrating) IN Show(New(h, Root, 0))

\* All calls that may come back to where they were made.
Call(h, c) ==
  CASE c[1] = "_update"        -> Update(h, c[2], c[3])
    [] c[1] = "$destroy"       -> Destroy(h, c[2])
    [] c[1] = "createElm"      -> createElm(h, c[2], c[3], c[4], c[5], c[6])
    [] c[1] = "createChildren" -> createChildren(h, c[2])
    [] c[1] = "patchVnode"     -> patchVnode(h, c[2], c[3], c[4], c[5])
    [] c[1] = "updateChildren" -> updateChildren(h, c[2], c[3], c[4], c[5], c[6], c[7], c[8])
    [] c[1] = "hydrate"        -> hydrate(h, c[2], c[3])
    [] c[1] = "$mount"         -> MountOn(h, c[2], c[3])
    [] c[1] = "flush"          -> Flush(h, <<>>)

-----------------------------------------------------------------------------
(***************************************************************************)
(* What the application and the scheduler do.                              *)
(***************************************************************************)
\* The elements of a shape, which the server has rendered in the body.
RECURSIVE Build(_, _, _)
Build(h, p, shape) ==
  LET E == NewElm(h, shape.name)
      e == E.ret
  IN  [FoldLeft(LAMBDA r, k : Build(r, e, k), InsertBefore(E, p, e, 0), shape.kids) EXCEPT !.ret = e]

Target == [name |-> "app", kids |-> <<>>]

Init ==
  /\ steps = 0
  /\ \E r \in Reactions :
       app = [vm |-> <<>>, vn |-> <<>>, dat |-> <<>>, prov |-> <<>>, made |-> 0,
              dom |-> <<[name |-> "body", kids |-> <<>>, up |-> 0]>>,
              queue |-> <<>>, active |-> 0, dirty |-> {}, log |-> <<>>, reacts |-> r,
              ok |-> TRUE, bailed |-> FALSE, ret |-> 0]

Step(h) == steps < MaxSteps /\ steps' = steps + 1 /\ app' = h

\* The application mounts its root on an element, an empty one or what the
\* server has rendered.
MountRoot ==
  /\ app.vm = <<>>
  /\ \E shape \in {Target} \union Servers :
       LET Show(r) == Call(r, <<"$mount", r.ret, shape # Target>>) IN Step(Show(Build(app, 1, shape)))

\* The state of an instance changes.
Change ==
  \E i \in DOMAIN app.vm : \E n \in DOMAIN Views[app.vm[i].comp] :
    ~app.vm[i].destroyed /\ n # app.vm[i].view /\ Step(SetView(app, i, n))

\* The scheduler flushes its queue.
FlushQueue == app.dirty # {} /\ Step(Call(app, <<"flush">>))

\* The application destroys an instance.
DestroyVm ==
  \E i \in DOMAIN app.vm : ~app.vm[i].destroyed /\ app.vm[i].comp \in {Root, "A"} /\ Step(Call(app, <<"$destroy", i>>))

Next == MountRoot \/ Change \/ FlushQueue \/ DestroyVm

Spec == Init /\ [][Next]_vars

-----------------------------------------------------------------------------
(***************************************************************************)
(* Properties.                                                             *)
(***************************************************************************)
Ids == DOMAIN app.vm
Alive == { i \in Ids : ~app.vm[i].destroyed }

\* The vnodes that an instance has rendered, with the content of its slots.
RECURSIVE Below(_)
Below(v) == {v} \union UNION { Below(app.vn[v].kids[n]) : n \in DOMAIN app.vn[v].kids }
Own(i) == Below(app.vm[i].vnode)
Holds(i) == { app.vn[v].inst : v \in { w \in Own(i) : app.vn[w].node.k = "comp" } }

\* The instances that live and are rendered, below the root.
RECURSIVE Tree(_)
Tree(i) == {i} \union UNION { Tree(j) : j \in { k \in Holds(i) : ~app.vm[k].destroyed } }
Rendered == IF app.vm = <<>> \/ app.vm[1].destroyed THEN {} ELSE Tree(1)

\* The same with what the instances below have rendered.
Whole(i) == UNION { Own(j) : j \in Tree(i) }

\* The instances that live are those in the trees of their parents, once each
\* among $children.  Only a hydration that failed leaves others behind.
OneHome(i) ==
  LET kids == app.vm[i].children
      held == Holds(i) \intersect Alive
  IN  /\ held \subseteq ToSet(kids)
      /\ app.bailed \/ (ToSet(kids) = held /\ Len(kids) = Cardinality(held))
      /\ \A j \in Holds(i) : app.vm[j].parent = i
      /\ app.vm[i].parent # 0 => app.vm[i].parent \in Alive

\* The element of an instance, and those of its vnodes with their children.
ElementsMatch(i) ==
  /\ app.vm[i].el = app.vn[app.vm[i].vnode].elm
  /\ InDocument(app, app.vm[i].el)
  /\ \A v \in Own(i) :
       LET n == app.vn[v].node
           e == app.vn[v].elm
       IN  IF n.k = "comp" THEN e = app.vm[app.vn[v].inst].el
           ELSE /\ app.dom[e].name = n.name
                /\ app.dom[e].kids = [m \in DOMAIN app.vn[v].kids |-> app.vn[app.vn[v].kids[m]].elm]

RECURSIVE Nearest(_)
Nearest(i) ==
  IF i = 0 THEN 0
  ELSE IF Options[app.vm[i].comp].provide # 0 THEN Options[app.vm[i].comp].provide
  ELSE Nearest(app.vm[i].parent)

\* What an instance works with is what its placeholder gives it now: the prop,
\* or a default while none is given; the listener, attached once; the content
\* of its slot; and what the nearest of its ancestors provides
\* (updateChildComponent, validateProp, resolveProvided).
IsHandedDown(i) ==
  LET vm == app.vm[i]  data == PlaceholderData(app, i) IN
  /\ vm.on = data.on /\ vm.calls = IF data.on = 0 THEN 0 ELSE 1
  /\ Options[vm.comp].inject => vm.injected = Nearest(vm.parent)
  /\ Options[vm.comp].prop =>
       IF data.prop # NoValue THEN vm.prop = data.prop ELSE vm.prop.from = "default"
  /\ vm.pv # 0 => vm.slots = resolveSlots(app, app.vn[vm.pv].slot)

\* After every operation the document is what the vnodes say, element by element
\* and in order, and every instance and placeholder has the element of its root,
\* however many roots were replaced inside of it; the instances that live are
\* those of these vnodes: none outlives the vnode that made it, none is lost;
\* and each works with what it is given now (patch.ts, _update, $destroy,
\* updateChildComponent).
TreeIsCurrent == \A i \in Rendered : OneHome(i) /\ ElementsMatch(i) /\ IsHandedDown(i)

Logged(what, i) == { n \in DOMAIN app.log : app.log[n].what = what /\ app.log[n].who = i }
LifeHooks == <<"beforeCreate", "created", "beforeMount", "mounted", "beforeDestroy", "destroyed">>
IsComp(n) == app.log[n].arg \in DOMAIN Views

\* Every hook of an instance is called at most once and in the order of its
\* life; parents are created before their children, which are mounted before
\* them and destroyed before them; all that is shown at rest has been mounted.
HooksInOrder ==
  LET H(what, i) == { n \in Logged(what, i) : IsComp(n) }
  IN  /\ \A i \in Ids : \A a \in DOMAIN LifeHooks :
           /\ Cardinality(H(LifeHooks[a], i)) <= 1
           /\ \A b \in 1..(a - 1) : \A n \in H(LifeHooks[a], i) : \A m \in H(LifeHooks[b], i) : m < n
      /\ \A i \in Ids : LET p == app.vm[i].parent IN
           p # 0 =>
             /\ \A n \in H("beforeMount", p) : \A m \in H("beforeCreate", i) : n < m
             /\ \A n \in H("mounted", p) : \A m \in H("mounted", i) :
                  m < n \/ (\A l \in H("created", i) : n < l)
             /\ app.bailed \/ \A n \in H("destroyed", p) : \A m \in H("destroyed", i) : m < n
      /\ \A i \in Rendered : H("mounted", i) # {} \/ app.bailed

\* A ref holds what is rendered under its name in the context of i, also in the
\* slots of others.
RefIsCurrent(i, r) ==
  LET named == { v \in Whole(i) : app.vn[v].ctx = i /\ app.vn[v].node.data.ref = r }
      here  == { RefValue(app, v) : v \in named }
      has   == app.vm[i].refs[r]
  IN  IF has.array \/ here = {} THEN ToSet(has.of) = here
      ELSE Len(has.of) = 1 /\ ToSet(has.of) \subseteq here

\* A directive is bound to e for every vnode that has it there now; comments,
\* the roots of components that render nothing, may be unbound without that.
DirectiveIsPaired(e, d) ==
  LET L(what) == Cardinality({ n \in Logged(what, e) : app.log[n].arg = d })
      now == { v \in UNION { Own(i) : i \in Rendered } :
                 app.vn[v].elm = e /\ d \in app.vn[v].node.data.dirs }
  IN  app.dom[e].name # "!" =>
        /\ L("bind") = L("unbind") + Cardinality(now)
        /\ L("insertedOutside") = 0 /\ L("inserted") = L("bind")

\* Refs and directives follow the elements through every patch: a ref never
\* keeps something that has gone nor misses what is there, a directive is bound
\* once, inserted once its element is in the document, and unbound once it has
\* gone (template-ref.ts, directives.ts, the loop over ancestors of patch).
RefsAndDirectives ==
  app.bailed \/
    /\ \A i \in Rendered \ app.dirty : \A r \in {"r", "s"} : RefIsCurrent(i, r)
    /\ \A e \in DOMAIN app.dom : \A d \in {"d1", "d2"} : DirectiveIsPaired(e, d)
=============================================================================
