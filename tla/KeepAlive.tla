------------------------------ MODULE KeepAlive ------------------------------
(***************************************************************************)
(* <keep-alive> (src/core/components/keep-alive.ts), the hooks of the      *)
(* component vnodes it renders (src/core/vdom/create-component.ts) and the *)
(* activation of kept instances (src/core/instance/lifecycle.ts,           *)
(* src/core/observer/scheduler.ts).                                        *)
(*                                                                         *)
(* inst lists the component instances in the order of their creation.  An  *)
(* instance of a kind that Shows others has a <keep-alive> in its template *)
(* whose only child is <component :is> of the kind it wants, if any; the   *)
(* record of the instance holds the data of that <keep-alive> too, which   *)
(* renders whenever its owner does.  A kind is a key and has a tag.        *)
(***************************************************************************)
EXTENDS Integers, Sequences, FiniteSets, SequencesExt, FiniteSetsExt

CONSTANTS
  Kinds,     \* components with their keys
  Tag,       \* the tag of the vnode of each kind
  Shows,     \* the kinds that the <keep-alive> of each kind, or of top, may show
  Limit,     \* its max, or 0
  top,       \* the kind of the root instance
  None,      \* undefined or null
  Together,  \* whether a flush may meet a new choice and a new include of one instance
  Redirects, \* whether hooks called in a patch may make another choice
  MaxOps     \* bound of the model: writes of the application

ASSUME ConstantsAssumption ==
  /\ top \notin Kinds /\ None \notin Nat \union Kinds
  /\ DOMAIN Tag = Kinds
  /\ Shows \in [Kinds \union {top} -> SUBSET Kinds]
  /\ Limit \in [Kinds \union {top} -> Nat]
  /\ \A k \in Shows[top] : \A l \in Shows[k] : Shows[l] = {}
  /\ Together \in BOOLEAN /\ Redirects \in BOOLEAN /\ MaxOps \in Nat

VARIABLES
  inst,      \* the instances
  queue,     \* instances whose render watchers are queued
  prunes,    \* instances whose watchers of include are queued
  flushing,  \* flushSchedulerQueue is running
  activated, \* activatedChildren
  updated,   \* instances rendered in this flush
  ops        \* writes so far

vars == <<inst, queue, prunes, flushing, activated, updated, ops>>

Root == 1

Record(k, h, keep) ==
  [ kind      |-> k,
    up        |-> h,           \* $parent
    children  |-> {},          \* $children
    kept      |-> keep,        \* $vnode.data.keepAlive
    inactive  |-> None,        \* _inactive
    direct    |-> FALSE,       \* _directInactive
    destroyed |-> FALSE,
    hook      |-> "created",   \* history: the last of the hooks called
    misused   |-> FALSE,       \* history: a hook was repeated, or came after destroyed
    want      |-> None,        \* what the render function of the owner asks for
    current   |-> None,        \* the instance of the _vnode of <keep-alive>
    include   |-> Shows[k],
    cache     |-> [l \in Kinds |-> None],
    keys      |-> <<>>,
    toCache   |-> None ]       \* the instance of vnodeToCache

Init ==
  /\ inst = <<Record(top, None, FALSE)>>
  /\ queue = {} /\ prunes = {} /\ flushing = FALSE
  /\ activated = <<>> /\ updated = {} /\ ops = 0

-----------------------------------------------------------------------------
(***************************************************************************)
(* Activation.  I is always a list of instances.                           *)
(***************************************************************************)
Ancestors(I, i) ==
  LET above[j \in DOMAIN I] == IF j = Root THEN {} ELSE {I[j].up} \union above[I[j].up]
  IN  above[i]

\* v and what a walk down $children from v reaches through the instances of S
Walk(I, v, S) ==
  {v} \union
  { d \in DOMAIN I :
      /\ v \in Ancestors(I, d)
      /\ \A w \in (Ancestors(I, d) \union {d}) \ (Ancestors(I, v) \union {v}) :
           w \in I[I[w].up].children /\ w \in S }

callHook(r, h) ==
  [r EXCEPT !.hook = h, !.misused = @ \/ r.hook = h \/ r.hook = "destroyed"]

isInInactiveTree(I, v) == \E a \in Ancestors(I, v) : I[a].inactive = TRUE

\* mutant: the walk goes past the children that were hidden by their own parent
ActivateAll(I, v) ==
  LET J == [I EXCEPT ![v].direct = FALSE]
      S == Walk(J, v, { w \in DOMAIN J : J[w].inactive # FALSE })
  IN  IF isInInactiveTree(J, v) \/ J[v].inactive = FALSE THEN J
      ELSE [ i \in DOMAIN J |->
               IF i \in S THEN callHook([J[i] EXCEPT !.inactive = FALSE], "activated")
                          ELSE J[i] ]

\* activateChildComponent(v, true)
Activate(I, v) ==
  LET J == [I EXCEPT ![v].direct = FALSE]
      S == Walk(J, v, { w \in DOMAIN J : ~J[w].direct /\ J[w].inactive # FALSE })
  IN  IF isInInactiveTree(J, v) \/ J[v].inactive = FALSE THEN J
      ELSE [ i \in DOMAIN J |->
               IF i \in S THEN callHook([J[i] EXCEPT !.inactive = FALSE], "activated")
                          ELSE J[i] ]

\* deactivateChildComponent(v, true)
Deactivate(I, v) ==
  LET J == [I EXCEPT ![v].direct = TRUE]
      S == Walk(J, v, { w \in DOMAIN J : J[w].inactive # TRUE })
  IN  IF isInInactiveTree(J, v) \/ J[v].inactive = TRUE THEN J
      ELSE [ i \in DOMAIN J |->
               IF i \in S THEN callHook([J[i] EXCEPT !.inactive = TRUE], "deactivated")
                          ELSE J[i] ]

-----------------------------------------------------------------------------
(***************************************************************************)
(* $destroy.                                                               *)
(***************************************************************************)
InCache(I, w) == w # Root /\ I[I[w].up].cache[I[w].kind] = w
IsCurrent(I, w) == w # Root /\ I[I[w].up].current = w

\* The destroy hook of a vnode destroys the instance or, if it is kept,
\* deactivates it; <keep-alive> then destroys what it has in its cache.
Owned(I, w) == ~I[w].destroyed /\ (InCache(I, w) \/ (IsCurrent(I, w) /\ ~I[w].kept))

Tree(I, v) ==
  {v} \union { d \in DOMAIN I :
                 /\ v \in Ancestors(I, d)
                 /\ \A w \in (Ancestors(I, d) \union {d}) \ (Ancestors(I, v) \union {v}) :
                      Owned(I, w) }

HideCurrent(I, h) ==
  LET c == I[h].current
  IN  IF c # None /\ I[c].kept /\ ~I[c].destroyed THEN Deactivate(I, c) ELSE I

Destroy(I, v) ==
  LET S == Tree(I, v)
      J == FoldLeft(HideCurrent, I, SetToSortSeq(S, <))
      gone == [ i \in DOMAIN J |->
                  IF i \in S
                    THEN [callHook(J[i], "destroyed") EXCEPT
                            !.destroyed = TRUE, !.cache = [k \in Kinds |-> None], !.keys = <<>>]
                    ELSE J[i] ]
  IN  IF I[v].destroyed THEN I
      ELSE IF v = Root THEN gone
      ELSE [gone EXCEPT ![I[v].up].children = @ \ {v}]

-----------------------------------------------------------------------------
(***************************************************************************)
(* The cache of the <keep-alive> of h.                                     *)
(***************************************************************************)

\* The entry is the instance on show: their tags are compared.
IsShown(I, h, k) ==
  LET c == I[h].current IN c # None /\ Tag[I[c].kind] = Tag[k]

\* mutant: nothing is destroyed
pruneCacheEntryLeaks(I, h, k) ==
  [I EXCEPT ![h].cache[k] = None, ![h].keys = Remove(@, k)]

pruneCacheEntry(I, h, k) ==
  LET e == I[h].cache[k]
      J == IF e = None \/ IsShown(I, h, k) THEN I ELSE Destroy(I, e)
  IN  [J EXCEPT ![h].cache[k] = None, ![h].keys = Remove(@, k)]

pruneCache(I, h) ==
  FoldSet(LAMBDA k, J : pruneCacheEntry(J, h, k), I,
          { k \in Kinds : I[h].cache[k] # None /\ k \notin I[h].include })

\* Put the instance of vnodeToCache in the cache.
Cached(I, h) ==
  LET t == I[h].toCache
  IN  [I EXCEPT ![h].cache[I[t].kind] = t, ![h].keys = Append(@, I[t].kind), ![h].toCache = None]

cacheVNode(I, h) ==
  IF I[h].toCache = None THEN I
  ELSE LET J == Cached(I, h)
       IN  IF Limit[I[h].kind] # 0 /\ Len(J[h].keys) > Limit[I[h].kind]
             THEN pruneCacheEntry(J, h, Head(J[h].keys))
             ELSE J

-----------------------------------------------------------------------------
(***************************************************************************)
(* Rendering the <keep-alive> of h, and the patch that follows.            *)
(***************************************************************************)
Keeps(h) == inst[h].want # None /\ inst[h].want \in inst[h].include

\* cache[key]
Hit(h) ==
  IF Keeps(h) THEN inst[h].cache[inst[h].want] ELSE None

\* render(): the key becomes the freshest, or the vnode is noted for the cache.
Note(I, h, i) ==
  IF ~Keeps(h) THEN I
  ELSE IF Hit(h) # None
    THEN [I EXCEPT ![h].keys = Append(Remove(@, inst[h].want), inst[h].want)]
    ELSE [I EXCEPT ![h].toCache = i]

\* The old vnode and the new one are the same: the instance stays.
Stays(h) ==
  LET c == inst[h].current
  IN  IF c = None THEN inst[h].want = None ELSE inst[c].kind = inst[h].want

\* A new instance, with what its own <keep-alive> shows first, in the cache of
\* that one since it was mounted, and activated
Created(h, w) ==
  LET k == inst[h].want
      n == Len(inst) + 1
      I == Append(inst, [Record(k, h, Keeps(h)) EXCEPT !.want = w])
      J == [I EXCEPT ![h].children = @ \union {n}]
      inner == Append(J, Record(w, n, TRUE))
  IN  IF w = None THEN J
      ELSE Activate(
             cacheVNode([inner EXCEPT ![n].children = {n + 1}, ![n].current = n + 1,
                                      ![n].toCache = n + 1], n), n + 1)

\* removeVnodes([oldVnode]): the destroy hook of the old vnode
Removed(I, h) ==
  LET c == inst[h].current
  IN  IF c = None THEN I
      ELSE IF inst[c].kept THEN Deactivate(I, c) ELSE Destroy(I, c)

Shown(I, h, i) == Removed([Note(I, h, i) EXCEPT ![h].current = i, ![i].kept = Keeps(h)], h)

\* The insert hook of a kept vnode: queueActivatedComponent
Queued(I, i) == [I EXCEPT ![i].inactive = FALSE]

Stay(h) ==
  LET c == inst[h].current
  IN  /\ Stays(h)
      /\ inst' = IF c = None THEN inst ELSE [Note(inst, h, c) EXCEPT ![c].kept = Keeps(h)]
      /\ UNCHANGED activated

Empty(h) ==
  /\ ~Stays(h) /\ inst[h].want = None
  /\ inst' = Removed([inst EXCEPT ![h].current = None], h)
  /\ UNCHANGED activated

ShowCached(h) ==
  /\ ~Stays(h) /\ Hit(h) # None
  /\ inst' = Queued(Shown(inst, h, Hit(h)), Hit(h))
  /\ activated' = Append(activated, Hit(h))

ShowNew(h) ==
  /\ ~Stays(h) /\ inst[h].want # None /\ Hit(h) = None
  /\ \E w \in Shows[inst[h].want] \union {None} :
       LET n == Len(inst) + 1
           I == Shown(Created(h, w), h, n)
       IN  inst' = IF Keeps(h) THEN Queued(I, n) ELSE I
  /\ activated' = IF Keeps(h) THEN Append(activated, Len(inst) + 1) ELSE activated

Rerender(h) == Stay(h) \/ Empty(h) \/ ShowCached(h) \/ ShowNew(h)

-----------------------------------------------------------------------------
(***************************************************************************)
(* Steps.                                                                  *)
(***************************************************************************)
Alive == { i \in DOMAIN inst : ~inst[i].destroyed }

\* The application writes: between the jobs of the event loop or, with
\* Redirects, in a hook that the patch before has called.
MayWrite == ops < MaxOps /\ (~flushing \/ (Redirects /\ updated # {}))

Choose(h, k) ==
  /\ MayWrite
  /\ Together \/ h \notin prunes
  /\ k \in (Shows[inst[h].kind] \union {None}) \ {inst[h].want}
  /\ inst' = [inst EXCEPT ![h].want = k]
  /\ queue' = queue \union {h}
  /\ ops' = ops + 1
  /\ UNCHANGED <<prunes, flushing, activated, updated>>

Include(h, S) ==
  /\ MayWrite
  /\ Together \/ h \notin queue \ prunes
  /\ S # inst[h].include
  /\ inst' = [inst EXCEPT ![h].include = S]
  /\ queue' = queue \union {h} /\ prunes' = prunes \union {h}
  /\ ops' = ops + 1
  /\ UNCHANGED <<flushing, activated, updated>>

BeginFlush ==
  /\ ~flushing /\ queue # {}
  /\ flushing' = TRUE
  /\ UNCHANGED <<inst, queue, prunes, activated, updated, ops>>

\* Watchers run in the order of their ids: those of h after those of its owner,
\* the one of include after the one that renders.
IsNext(h) == flushing /\ h = Min(queue \union prunes)

Render(h) ==
  /\ IsNext(h) /\ h \in queue
  /\ queue' = queue \ {h}
  /\ IF inst[h].destroyed
       THEN UNCHANGED <<inst, activated, updated>>
       ELSE Rerender(h) /\ updated' = updated \union {h}
  /\ UNCHANGED <<prunes, flushing, ops>>

Prune(h) ==
  /\ IsNext(h) /\ h \notin queue
  /\ prunes' = prunes \ {h}
  /\ inst' = IF inst[h].destroyed THEN inst ELSE pruneCache(inst, h)
  /\ UNCHANGED <<queue, flushing, activated, updated, ops>>

callActivatedHooks(I) ==
  FoldLeft(LAMBDA J, i : Activate([J EXCEPT ![i].inactive = TRUE], i), I, activated)

\* cacheVNode, the updated hook, of those that were rendered: the last one first
callUpdatedHooks(I) ==
  FoldLeft(LAMBDA J, h : IF J[h].destroyed THEN J ELSE cacheVNode(J, h), I,
           SetToSortSeq(updated, >))

EndFlush ==
  /\ flushing /\ queue \union prunes = {}
  /\ inst' = callUpdatedHooks(callActivatedHooks(inst))
  /\ flushing' = FALSE /\ activated' = <<>> /\ updated' = {}
  /\ UNCHANGED <<queue, prunes, ops>>

\* $destroy() of the root instance
DestroyRoot ==
  /\ ~flushing /\ ~inst[Root].destroyed
  /\ inst' = Destroy(inst, Root)
  /\ UNCHANGED <<queue, prunes, flushing, activated, updated, ops>>

Next ==
  \/ \E h \in Alive : \/ \E k \in Kinds \union {None} : Choose(h, k)
                      \/ \E S \in SUBSET Shows[inst[h].kind] : Include(h, S)
  \/ BeginFlush \/ EndFlush \/ DestroyRoot
  \/ \E h \in queue : Render(h)
  \/ \E h \in prunes : Prune(h)

Spec == Init /\ [][Next]_vars

-----------------------------------------------------------------------------
(***************************************************************************)
(* Safety.                                                                 *)
(***************************************************************************)

KeysMatchCache(h) ==
  LET r == inst[h]
  IN  /\ IsInjective(r.keys)
      /\ ToSet(r.keys) = { k \in Kinds : r.cache[k] # None }
      /\ Limit[r.kind] # 0 => Len(r.keys) <= Limit[r.kind]
      /\ r.current # None /\ inst[r.current].kept => Last(r.keys) = inst[r.current].kind

\* Between flushes, an instance that was not destroyed is on show or in the
\* cache of an instance that was not: none is lost, to keep its watchers and
\* its listeners for ever; and what is on show was not destroyed, though it may
\* have lost its place in the cache while it was (keep-alive.ts:51-65, 104-108).
\* So that the oldest is the one that goes, the keys are those of the cache, each
\* once, the one on show, if it is kept, the last, and no more than max
\* (keep-alive.ts:78-97, 149-158).
NoneLost ==
  ~flushing =>
    /\ \A h \in Alive : KeysMatchCache(h)
    /\ \A i \in Alive \ {Root} :
         ~inst[inst[i].up].destroyed /\ (InCache(inst, i) \/ IsCurrent(inst, i))
    /\ \A h \in Alive : inst[h].current # None => ~inst[inst[h].current].destroyed

\* Between flushes, an instance that its <keep-alive> keeps is not active while
\* it, or what it is part of, is not on show, and not inactive while it is; its
\* hooks activated and deactivated alternate, and neither is called after
\* destroyed (lifecycle.ts:399-438, scheduler.ts:148-160; "may call activated
\* hooks on incorrect children", the comment at create-component.ts:75-79).
OnShow(i) == \A j \in Ancestors(inst, i) \union {i} : j = Root \/ IsCurrent(inst, j)

ActiveIffShown ==
  /\ ~flushing => \A i \in Alive \ {Root} :
       inst[i].kept => inst[i].inactive # OnShow(i)
  /\ \A i \in DOMAIN inst : ~inst[i].misused
===============================================================================
