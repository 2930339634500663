----------------------------- MODULE ApiWatchProofs -----------------------------
(***************************************************************************)
(* Proofs about ApiWatch for any watchers, refs, scopes and user code: the *)
(* call stack is sound, and a scope that has stopped leaves no watcher     *)
(* alive.                                                                  *)
(***************************************************************************)
EXTENDS ApiWatch, SequenceLemmas

-----------------------------------------------------------------------------
(***************************************************************************)
(* The frames of the stack.                                                *)
(***************************************************************************)
AllScopes == Scopes \union {Own}
Frames    == ToSet(stack)
Made      == ToSet(created)
HasKind(k) == \E f \in Frames : f.kind = k

Above(f, g) == Precedes(stack, f, g)

Bottoms == {"setup", "render", "pre", "mounted", "once", "hook"}
StopFrames ==
  [kind : {"stop"}, w : {Free}, todo : Seq(Watchers), scope : AllScopes, up : BOOLEAN,
   phase : {"effects", "dispose", "scopes"}, i : Nat, length : Nat]

\* A run of f.w, which may call user code, or has.
IsRun(f) == f.kind \in {"get", "run", "effect", "callback"} \/ (f.kind = "cleanup" /\ f.then # "stop")

IsCleanup(f, then) == f.kind = "cleanup" /\ f.then = then

IsFrame(f) ==
  /\ f.kind \in Bottoms \union {"notify", "get", "run", "effect", "callback", "cleanup", "dispose",
                                "stop", "destroy"}
  /\ f.kind \in Bottoms => f.w = Free
  /\ f.kind \in {"pre", "once", "notify"} => f.todo \in Seq(Watchers) /\ ToSet(f.todo) \subseteq Made
  /\ f.kind = "setup" => f.todo \in Seq(Scopes)
  /\ IsRun(f) => f.w \in Made
  /\ f.kind = "callback" => f.w \notin Effects /\ f.new \in Values
  /\ f.kind = "effect" => f.w \in Effects
  /\ f.kind = "cleanup" =>
       /\ f.w \in cleanup /\ f.then \in {"effect", "callback", "stop"}
       /\ f.then = "effect" => f.w \in Effects
       /\ f.then = "callback" => f.w \notin Effects /\ f.new \in Values
  /\ f.kind = "dispose" => f.w \in Scopes
  /\ f.kind = "stop" => f \in StopFrames

\* Only the lowest frame is one of Bottoms; a getter starts at once.
InOrder(s) ==
  /\ IsASeq(s)
  /\ \A f, g \in ToSet(s) : Precedes(s, f, g) => f.kind \notin Bottoms /\ g.kind \notin {"get", "run"}

StackInv == InOrder(stack) /\ \A f \in Frames : IsFrame(f)

SubsInv ==
  /\ subs \in [Refs -> Seq(Watchers)]
  /\ \A r \in Refs : \A w \in ToSet(subs[r]) : SourceOf(w) = r /\ w \in Made

TypeInv ==
  /\ val \in [Refs -> Values]
  /\ created \in Seq(Watchers) /\ active \subseteq Made /\ owned \subseteq Made
  /\ cleanup \subseteq Made /\ owed \subseteq cleanup
  /\ queued \subseteq Made
  /\ once \in Seq(Watchers) /\ ToSet(once) \subseteq Made
  /\ buffer \in Seq(Watchers) /\ ToSet(buffer) \subseteq Made
  /\ old \in [Watchers -> Values \union {Initial}] /\ last \in [Watchers -> Values \union {Initial}]
  /\ isMounted \in BOOLEAN /\ destroyed \in BOOLEAN

BaseInv == StackInv /\ SubsInv /\ TypeInv

-----------------------------------------------------------------------------
(***************************************************************************)
(* Scopes.                                                                 *)
(***************************************************************************)
IsListed(s) == \E k \in DOMAIN scope[ParentOf[s]].scopes : scope[ParentOf[s]].scopes[k] = s

ScopeStates ==
  [AllScopes -> [active : BOOLEAN, scopes : Seq(Scopes), parent : AllScopes, index : Nat]]

TreeInv ==
  /\ scope \in ScopeStates
  /\ \A p \in AllScopes : \A k \in DOMAIN scope[p].scopes :
       LET s == scope[p].scopes[k]
       IN  IsNested(s) /\ ParentOf[s] = p /\ scope[s].parent = p /\ scope[s].index = k
  /\ \A s \in AllScopes : IsNested(s) /\ scope[s].active => IsListed(s)
  /\ \A s \in AllScopes : ~scope[s].active => \A t \in Within[s] : ~scope[t].active

\* setup() makes each scope once.
MakingInv ==
  \A f \in Frames : f.kind = "setup" =>
    /\ IsInjective(f.todo)
    /\ \A s \in ToSet(f.todo) : ~scope[s].active /\ ~IsListed(s)

\* The watchers recorded in s
Records(s, w) == ScopeOf(w) = s /\ (s = Own => w \in owned)

\* What a stop() that is under way has done
StopsInv ==
  /\ \A f \in Frames : f.kind = "stop" =>
       /\ \A w \in active : Records(f.scope, w) => w \in ToSet(f.todo)
       /\ f.phase # "effects" => f.todo = <<>>
       /\ f.phase # "scopes" => f.i = 1
       /\ f.phase = "scopes" => f.length = Len(scope[f.scope].scopes) /\ f.i \in 1 .. f.length + 1
       /\ IsNested(f.scope) /\ ~f.up => IsListed(f.scope)
       /\ f.scope = Own => HasKind("destroy")
  /\ \A f, g \in Frames : Above(f, g) /\ f.kind = "stop" /\ g.kind = "stop" /\ ~f.up =>
       /\ ~g.up => f.scope # g.scope
       /\ IsNested(f.scope) /\ g.phase = "scopes" => g.scope # ParentOf[f.scope]
  /\ \A f, g \in Frames : Above(f, g) /\ f.kind = "destroy" /\ g.kind = "stop" => g.scope # Own

\* A scope that a walk has passed has stopped, or is just being stopped.
StopAbove(st, n, s) == \E m \in 1 .. n - 1 : st[m].kind = "stop" /\ st[m].scope = s

HasPassed(st, sc, stopping) ==
  \A n \in DOMAIN st : st[n].kind = "stop" /\ st[n].phase = "scopes" =>
    \A k \in 1 .. st[n].i - 1 :
      LET s == sc[st[n].scope].scopes[k]
      IN  ~sc[s].active \/ s \in stopping \/ StopAbove(st, n, s)

WalksInv == HasPassed(stack, scope, {})

ScopesInv == TreeInv /\ MakingInv /\ StopsInv /\ WalksInv /\ ScopeStopsAll

-----------------------------------------------------------------------------
(***************************************************************************)
(* What a step does to the stack.                                          *)
(***************************************************************************)
LEMMA OrderOfOne ==
  ASSUME NEW s, InOrder(s), NEW f, NEW t, t = <<f>> \o s, f.kind \in Bottoms => s = <<>>,
         s # <<>> => Head(s).kind \notin {"get", "run"}
  PROVE  InOrder(t)
<1>1. /\ IsASeq(t) /\ ToSet(t) = {f} \union ToSet(s)
      /\ \A x, y : Precedes(t, x, y) <=> (x = f /\ y \in ToSet(s)) \/ Precedes(s, x, y)
  BY Stacked DEF InOrder
<1>2. ASSUME NEW y \in ToSet(s) PROVE f.kind \notin Bottoms /\ y.kind \notin {"get", "run"}
  <2>1. s # <<>>
    BY SetFacts DEF InOrder, ToSet
  <2>3. (y = Head(s) \/ Precedes(s, Head(s), y)) /\ Head(s) \in ToSet(s)
    BY <2>1, Unstacked DEF InOrder
  <2>4. y.kind \notin {"get", "run"}
    BY <2>1, <2>3 DEF InOrder
  <2> QED
    BY <2>1, <2>4
<1>3. \A x, y : Precedes(s, x, y) => x \in ToSet(s) /\ y \in ToSet(s)
  BY SetFacts DEF InOrder
<1> QED
  BY <1>1, <1>2, <1>3 DEF InOrder

\* The stack is its top on the frames that called it.
LEMMA Peeled ==
  ASSUME StackInv, stack # <<>>
  PROVE  /\ IsASeq(Callers) /\ stack = <<Top>> \o Callers /\ InOrder(Callers)
         /\ Frames = {Top} \union ToSet(Callers)
         /\ \A x, y : Above(x, y) <=> (x = Top /\ y \in ToSet(Callers)) \/ Precedes(Callers, x, y)
         /\ Callers # <<>> => Head(Callers).kind \notin {"get", "run"} /\ Top.kind \notin Bottoms
         /\ Callers = <<>> <=> ToSet(Callers) = {}
<1>1. IsASeq(Callers) /\ stack = <<Top>> \o Callers
  BY Unstacked DEF StackInv, InOrder, Top, Callers
<1>2. /\ Frames = {Top} \union ToSet(Callers)
      /\ \A x, y : Above(x, y) <=> (x = Top /\ y \in ToSet(Callers)) \/ Precedes(Callers, x, y)
  BY <1>1, Stacked DEF Frames, Above
<1>3. InOrder(Callers)
  BY <1>1, <1>2, SetFacts DEF StackInv, InOrder, Frames, Above
<1>4. ASSUME Callers # <<>> PROVE Head(Callers).kind \notin {"get", "run"} /\ Top.kind \notin Bottoms
  <2>2. Head(Callers) \in ToSet(Callers)
    BY <1>1, <1>4, Unstacked
  <2>3. Above(Top, Head(Callers)) /\ Top \in Frames /\ Head(Callers) \in Frames
    BY <1>2, <2>2
  <2> QED
    BY <2>3 DEF StackInv, InOrder, Frames, Above
<1>5. Callers = <<>> <=> ToSet(Callers) = {}
  <2>1. Callers = <<>> <=> Len(Callers) = 0
    BY <1>1, SetFacts
  <2>2. Len(Callers) \in Nat /\ \A x : x \in ToSet(Callers) <=> \E i \in 1 .. Len(Callers) : Callers[i] = x
    BY <1>1, SetFacts
  <2>3. Len(Callers) = 0 <=> ~(1 \in 1 .. Len(Callers))
    BY <2>2
  <2>4. Len(Callers) = 0 => ToSet(Callers) = {}
    BY <2>2
  <2>5. 1 \in 1 .. Len(Callers) => Callers[1] \in ToSet(Callers)
    BY <2>2
  <2> QED
    BY <2>1, <2>3, <2>4, <2>5
<1> QED
  BY <1>1, <1>2, <1>3, <1>4, <1>5

LEMMA FramesKept ==
  ASSUME StackInv, Made \subseteq Made', cleanup \subseteq cleanup'
  PROVE  \A f \in Frames : IsFrame(f)'
BY DEF StackInv, IsFrame, IsRun

LEMMA StackStays ==
  ASSUME StackInv, UNCHANGED stack, Made \subseteq Made', cleanup \subseteq cleanup'
  PROVE  StackInv'
BY FramesKept DEF StackInv, Frames

LEMMA StackPop ==
  ASSUME StackInv, stack # <<>>, stack' = Callers, Made \subseteq Made', cleanup \subseteq cleanup'
  PROVE  StackInv'
BY FramesKept, Peeled DEF StackInv, Frames

LEMMA StackSwap ==
  ASSUME StackInv, stack # <<>>, Made \subseteq Made', cleanup \subseteq cleanup',
         NEW f, stack' = <<f>> \o Callers, IsFrame(f)', f.kind \in Bottoms => Callers = <<>>
  PROVE  StackInv'
<1>1. InOrder(stack')
  BY Peeled, OrderOfOne
<1>2. ToSet(stack') = {f} \union ToSet(Callers) /\ ToSet(Callers) \subseteq Frames
  BY Peeled, Stacked
<1> QED
  BY <1>1, <1>2, FramesKept DEF StackInv, Frames

LEMMA StackPush ==
  ASSUME StackInv, Made \subseteq Made', cleanup \subseteq cleanup',
         stack # <<>> => Top.kind \notin {"get", "run"},
         NEW f, stack' = <<f>> \o stack, IsFrame(f)', f.kind \in Bottoms => stack = <<>>
  PROVE  StackInv'
<1>1. InOrder(stack')
  BY OrderOfOne DEF StackInv, Top
<1>2. ToSet(stack') = {f} \union ToSet(stack)
  BY Stacked DEF StackInv, InOrder
<1> QED
  BY <1>1, <1>2, FramesKept DEF StackInv, Frames

LEMMA StackSwapPush ==
  ASSUME StackInv, stack # <<>>, Made \subseteq Made', cleanup \subseteq cleanup',
         NEW f, NEW g, stack' = <<f>> \o (<<g>> \o Callers), IsFrame(f)', IsFrame(g)',
         f.kind \notin Bottoms, g.kind \notin {"get", "run"}, g.kind \in Bottoms => Callers = <<>>
  PROVE  StackInv'
<1>1. PICK t : t = <<g>> \o Callers
  OBVIOUS
<1>2. InOrder(t)
  BY <1>1, Peeled, OrderOfOne
<1>3. ToSet(t) = {g} \union ToSet(Callers) /\ Head(t) = g
  BY <1>1, Peeled, Stacked
<1>4. InOrder(stack')
  BY <1>1, <1>2, <1>3, OrderOfOne
<1>5. ToSet(stack') = {f} \union ToSet(t) /\ ToSet(Callers) \subseteq Frames
  BY <1>1, <1>2, Stacked, Peeled DEF InOrder
<1> QED
  BY <1>3, <1>4, <1>5, FramesKept DEF StackInv, Frames

LEMMA StackPushTwo ==
  ASSUME StackInv, Made \subseteq Made', cleanup \subseteq cleanup',
         stack # <<>> => Top.kind \notin {"get", "run"},
         NEW f, NEW g, stack' = <<f>> \o (<<g>> \o stack), IsFrame(f)', IsFrame(g)',
         f.kind \notin Bottoms, g.kind \notin {"get", "run"}, g.kind \notin Bottoms
  PROVE  StackInv'
<1>1. PICK t : t = <<g>> \o stack
  OBVIOUS
<1>2. InOrder(t)
  BY <1>1, OrderOfOne DEF StackInv, Top
<1>3. ToSet(t) = {g} \union ToSet(stack) /\ Head(t) = g
  BY <1>1, Stacked DEF StackInv, InOrder
<1>4. InOrder(stack')
  BY <1>1, <1>2, <1>3, OrderOfOne
<1>5. ToSet(stack') = {f} \union ToSet(t)
  BY <1>1, <1>2, Stacked DEF InOrder
<1> QED
  BY <1>3, <1>4, <1>5, FramesKept DEF StackInv, Frames

-----------------------------------------------------------------------------
(***************************************************************************)
(* What a step does to the subscriptions and to the rest of the state.     *)
(***************************************************************************)
LEMMA Subscribes ==
  ASSUME ConstantsAssumption, SubsInv, created \in Seq(Watchers), NEW w \in Made, Subscribe(w), Made \subseteq Made'
  PROVE  /\ SubsInv'
         /\ \A r \in Refs : ToSet(subs[r]) \subseteq ToSet(subs'[r])
         /\ w \in ToSet(subs'[SourceOf(w)])
<1>1. w \in Watchers /\ SourceOf(w) \in Refs
  BY DEF ConstantsAssumption, Made, ToSet
<1>2. PICK s : s = subs[SourceOf(w)]
  OBVIOUS
<1>3. s \in Seq(Watchers) /\ IsASeq(s)
  BY <1>1, <1>2, SeqIsASeq DEF SubsInv
<1>4. CASE Contains(s, w)
  <2>1. subs' = subs /\ w \in ToSet(s)
    BY <1>2, <1>3, <1>4, SetFacts DEF Subscribe
  <2> QED
    BY <1>2, <2>1 DEF SubsInv
<1>5. CASE ~Contains(s, w)
  <2>1. PICK t : t = Append(s, w)
    OBVIOUS
  <2>2. t \in Seq(Watchers) /\ IsASeq(t) /\ \A x : x \in ToSet(t) <=> x \in ToSet(s) \/ x = w
    <3>0. t \in Seq(Watchers)
      BY <1>1, <1>3, <2>1
    <3>1. t \in Seq(Watchers) /\ IsASeq(t)
      BY <3>0, SeqIsASeq
    <3>2. \A x : Contains(t, x) <=> Contains(s, x) \/ x = w
      BY <1>3, <2>1, AppendFacts
    <3> QED
      BY <1>3, <3>1, <3>2, SetFacts
  <2>3. subs' = [subs EXCEPT ![SourceOf(w)] = t]
    BY <1>2, <1>5, <2>1 DEF Subscribe
  <2>4. \A r \in Refs : subs'[r] = IF r = SourceOf(w) THEN t ELSE subs[r]
    BY <2>3 DEF SubsInv
  <2>5. subs' \in [Refs -> Seq(Watchers)]
    BY <2>2, <2>3 DEF SubsInv
  <2> QED
    BY <1>1, <1>2, <2>2, <2>4, <2>5 DEF SubsInv
<1> QED
  BY <1>4, <1>5

LEMMA Unsubscribes ==
  ASSUME SubsInv, NEW w, NEW r \in Refs
  PROVE  /\ Unsubscribed(r, w) \in Seq(Watchers)
         /\ ToSet(Unsubscribed(r, w)) = ToSet(subs[r]) \ {w}
<1>1. PICK s : s = subs[r]
  OBVIOUS
<1>2. s \in Seq(Watchers) /\ IsASeq(s)
  BY <1>1, SeqIsASeq DEF SubsInv
<1>3. PICK P : P = { i \in DOMAIN s : s[i] # w }
  OBVIOUS
<1>4. \A i : i \in P <=> i \in 1 .. Len(s) /\ s[i] # w
  BY <1>2, <1>3, SetFacts
<1>5. Sublist(s, P) \in Seq(Watchers) /\ \A x : x \in ToSet(Sublist(s, P)) <=> \E i \in P : s[i] = x
  BY <1>2, <1>4, SublistSet
<1>6. \A x : x \in ToSet(s) <=> \E i \in 1 .. Len(s) : s[i] = x
  BY <1>2, SetFacts
<1> QED
  BY <1>1, <1>3, <1>4, <1>5, <1>6 DEF Unsubscribed

LEMMA Leaves ==
  ASSUME SubsInv, NEW w, Made \subseteq Made', subs' = [r \in Refs |-> subs'[r]],
         \A r \in Refs : subs'[r] = Unsubscribed(r, w) \/ subs'[r] = subs[r]
  PROVE  /\ SubsInv'
         /\ \A r \in Refs : \A x \in ToSet(subs[r]) : x = w \/ x \in ToSet(subs'[r])
<1>1. ASSUME NEW r \in Refs
      PROVE  /\ subs'[r] \in Seq(Watchers) /\ ToSet(subs'[r]) \subseteq ToSet(subs[r])
             /\ \A x \in ToSet(subs[r]) : x = w \/ x \in ToSet(subs'[r])
  <2>1. CASE subs'[r] = Unsubscribed(r, w)
    BY <2>1, Unsubscribes
  <2>2. CASE subs'[r] = subs[r]
    BY <2>2 DEF SubsInv
  <2> QED
    BY <2>1, <2>2
<1>2. subs' \in [Refs -> Seq(Watchers)]
  BY <1>1
<1> QED
  BY <1>1, <1>2 DEF SubsInv

LEMMA EffectsFacts ==
  ASSUME created \in Seq(Watchers), NEW s
  PROVE  /\ EffectsOf(s) \in Seq(Watchers)
         /\ \A w : w \in ToSet(EffectsOf(s)) <=>
              w \in Made /\ ScopeOf(w) = s /\ (s = Own => w \in owned /\ w \in active)
<1>1. PICK P : P = { i \in DOMAIN created :
                       /\ ScopeOf(created[i]) = s
                       /\ s = Own => created[i] \in owned \intersect active }
  OBVIOUS
<1>0. DOMAIN created = 1 .. Len(created)
  OBVIOUS
<1>2. \A i : i \in P <=> (i \in 1 .. Len(created) /\ ScopeOf(created[i]) = s
                         /\ (s = Own => created[i] \in owned /\ created[i] \in active))
  BY <1>0, <1>1
<1>3. /\ Sublist(created, P) \in Seq(Watchers)
      /\ \A x : x \in ToSet(Sublist(created, P)) <=> \E i \in P : created[i] = x
  BY <1>2, SublistSet
<1>4. \A x : x \in Made <=> \E i \in 1 .. Len(created) : created[i] = x
  BY DEF Made, ToSet
<1> QED
  BY <1>1, <1>2, <1>3, <1>4 DEF EffectsOf

LEMMA TypeStays ==
  ASSUME SubsInv, TypeInv, active' \subseteq active, owed' \subseteq owed,
         UNCHANGED <<val, subs, created, owned, old, cleanup, once, queued, buffer, last, isMounted, destroyed>>
  PROVE  SubsInv' /\ TypeInv'
BY DEF SubsInv, TypeInv, Made

LEMMA TopFacts ==
  ASSUME StackInv, stack # <<>>
  PROVE  Top \in Frames /\ IsFrame(Top)
BY Peeled DEF StackInv

LEMMA MadeFacts ==
  ASSUME TypeInv
  PROVE  Made \subseteq Watchers /\ \A w \in Made : SourceOf(w) \in Refs /\ val[SourceOf(w)] \in Values
<1>1. Made \subseteq Watchers
  BY DEF TypeInv, Made, ToSet
<1> QED
  BY <1>1, ConstantsAssumption DEF TypeInv, ConstantsAssumption

-----------------------------------------------------------------------------
(***************************************************************************)
(* The types are kept.                                                     *)
(***************************************************************************)
\* The body of an effect is called.
LEMMA BeginEffectBase ==
  ASSUME BaseInv, stack # <<>>, NEW w \in Made, w \in Effects, BeginEffect(w, Callers), owed' \subseteq owed,
         UNCHANGED <<val, created, active, owned, cleanup, once, queued, buffer, last, isMounted, destroyed>>
  PROVE  BaseInv'
<1>1. StackInv /\ SubsInv /\ TypeInv
  BY DEF BaseInv
<1>2. w \in Watchers /\ val[SourceOf(w)] \in Values
  BY <1>1, MadeFacts
<1>3. Made' = Made
  BY DEF Made
<1>4. PICK f : f = Call("effect", w)
  OBVIOUS
<1>5. IsFrame(f)'
  BY <1>3, <1>4 DEF IsFrame, IsRun, Call, Bottoms
<1>6. StackInv'
  BY <1>1, <1>3, <1>4, <1>5, StackSwap DEF BeginEffect, Call, Bottoms
<1>7. SubsInv'
  BY <1>1, <1>3, Subscribes, ConstantsAssumption DEF BeginEffect, TypeInv
<1>8. TypeInv'
  BY <1>1, <1>2, <1>3 DEF TypeInv, BeginEffect
<1> QED
  BY <1>6, <1>7, <1>8 DEF BaseInv

LEMMA BeginCleanupBase ==
  ASSUME BaseInv, stack # <<>>, NEW w \in cleanup, NEW then, NEW new, BeginCleanup(w, then, new, Callers),
         then = "effect" => w \in Effects, then = "callback" => w \notin Effects /\ new \in Values,
         then \in {"effect", "callback", "stop"}, SubsInv', Made' = Made,
         UNCHANGED <<val, created, active, owned, old, cleanup, once, queued, buffer, last, isMounted, destroyed>>
  PROVE  BaseInv'
<1>1. StackInv /\ SubsInv /\ TypeInv
  BY DEF BaseInv
<1>4. PICK f : f = Cleaning(w, then, new)
  OBVIOUS
<1>5. IsFrame(f)'
  BY <1>1, <1>4 DEF IsFrame, IsRun, Cleaning, Bottoms, TypeInv
<1>6. StackInv'
  BY <1>1, <1>4, <1>5, StackSwap DEF BeginCleanup, Cleaning, Bottoms
<1>8. TypeInv'
  BY <1>1 DEF TypeInv, BeginCleanup
<1> QED
  BY <1>6, <1>8 DEF BaseInv

LEMMA BeginCallbackBase ==
  ASSUME BaseInv, stack # <<>>, NEW w \in Made, w \notin Effects, NEW new \in Values,
         BeginCallback(w, new, Callers), SubsInv', owed' \subseteq owed,
         UNCHANGED <<val, created, active, owned, old, cleanup, once, queued, buffer, isMounted, destroyed>>
  PROVE  BaseInv'
<1>1. StackInv /\ SubsInv /\ TypeInv
  BY DEF BaseInv
<1>2. w \in Watchers
  BY <1>1, MadeFacts
<1>3. Made' = Made
  BY DEF Made
<1>4. PICK f : f = Callback(w, new, old[w])
  OBVIOUS
<1>5. IsFrame(f)'
  BY <1>3, <1>4 DEF IsFrame, IsRun, Callback, Bottoms
<1>6. StackInv'
  BY <1>1, <1>3, <1>4, <1>5, StackSwap DEF BeginCallback, Callback, Bottoms
<1>8. TypeInv'
  BY <1>1, <1>2, <1>3 DEF TypeInv, BeginCallback
<1> QED
  BY <1>6, <1>8 DEF BaseInv

\* Frames are only popped.
LEMMA PopBase ==
  ASSUME BaseInv, stack # <<>>, stack' = Callers, active' \subseteq active, owed' \subseteq owed,
         UNCHANGED <<val, subs, created, owned, old, cleanup, once, queued, buffer, last, isMounted, destroyed>>
  PROVE  BaseInv'
<1>1. StackInv /\ SubsInv /\ TypeInv /\ Made' = Made
  BY DEF BaseInv, Made
<1> QED
  BY <1>1, StackPop, TypeStays DEF BaseInv

LEMMA SwapBase ==
  ASSUME BaseInv, stack # <<>>, active' \subseteq active, owed' \subseteq owed,
         NEW f, stack' = <<f>> \o Callers, IsFrame(f)', f.kind \in Bottoms => Callers = <<>>,
         UNCHANGED <<val, subs, created, owned, old, cleanup, once, queued, buffer, last, isMounted, destroyed>>
  PROVE  BaseInv'
<1>1. StackInv /\ SubsInv /\ TypeInv /\ Made' = Made
  BY DEF BaseInv, Made
<1> QED
  BY <1>1, StackSwap, TypeStays DEF BaseInv

LEMMA PushBase ==
  ASSUME BaseInv, stack # <<>> => Top.kind \notin {"get", "run"},
         NEW f, stack' = <<f>> \o stack, IsFrame(f)', f.kind \in Bottoms => stack = <<>>,
         active' \subseteq active, owed' \subseteq owed,
         UNCHANGED <<val, subs, created, owned, old, cleanup, once, queued, buffer, last, isMounted, destroyed>>
  PROVE  BaseInv'
<1>1. StackInv /\ SubsInv /\ TypeInv /\ Made' = Made
  BY DEF BaseInv, Made
<1> QED
  BY <1>1, StackPush, TypeStays DEF BaseInv

LEMMA SwapPushBase ==
  ASSUME BaseInv, stack # <<>>, active' \subseteq active, owed' \subseteq owed,
         NEW f, NEW g, stack' = <<f>> \o (<<g>> \o Callers), IsFrame(f)', IsFrame(g)',
         f.kind \notin Bottoms, g.kind \notin {"get", "run"}, g.kind \in Bottoms => Callers = <<>>,
         UNCHANGED <<val, subs, created, owned, old, cleanup, once, queued, buffer, last, isMounted, destroyed>>
  PROVE  BaseInv'
<1>1. StackInv /\ SubsInv /\ TypeInv /\ Made' = Made
  BY DEF BaseInv, Made
<1> QED
  BY <1>1, StackSwapPush, TypeStays DEF BaseInv

\* A watcher runs.
LEMMA RunBase ==
  ASSUME BaseInv,
         GetEffect \/ GetSource \/ RunStopped \/ RunEffect \/ RunWithCallback
           \/ EndCleanup \/ EndEffect \/ EndCallback
  PROVE  BaseInv'
<1>1. StackInv /\ SubsInv /\ TypeInv
  BY DEF BaseInv
<1>2. stack # <<>>
  BY DEF GetEffect, GetSource, RunStopped, RunEffect, RunWithCallback, EndCleanup, EndEffect,
         EndCallback, On
<1>3. IsFrame(Top)
  BY <1>1, <1>2, TopFacts
<1>4. PICK w : w = Top.w
  OBVIOUS
<1>5. \/ w \in Made /\ w \in Watchers /\ SourceOf(w) \in Refs /\ val[SourceOf(w)] \in Values
      \/ Top.kind = "cleanup" /\ Top.then = "stop"
  <2>1. Top.kind \in {"get", "run", "cleanup", "effect", "callback"}
    BY DEF GetEffect, GetSource, RunStopped, RunEffect, RunWithCallback, EndCleanup, EndEffect,
           EndCallback, On
  <2>2. CASE Top.kind = "cleanup"
    <3>1. Top.then = "stop" \/ w \in Made
      BY <1>3, <1>4, <2>2 DEF IsFrame, IsRun
    <3> QED
      BY <1>1, <2>2, <3>1, MadeFacts
  <2>3. CASE Top.kind # "cleanup"
    <3>1. w \in Made
      BY <1>3, <1>4, <2>1, <2>3 DEF IsFrame, IsRun
    <3> QED
      BY <1>1, <3>1, MadeFacts
  <2> QED
    BY <2>2, <2>3
<1>6. CASE GetEffect
  <2>1. Top.kind = "get" /\ w \in Made /\ w \in Effects
    BY <1>4, <1>5, <1>6 DEF GetEffect, On
  <2>2. UNCHANGED <<val, created, active, owned, cleanup, once, queued, buffer, last, isMounted, destroyed>>
    BY <1>6 DEF GetEffect
  <2>3. CASE /\ stack' = Callers /\ subs' = [r \in Refs |-> Unsubscribed(r, w)]
             /\ UNCHANGED <<old, owed>>
    <3>1. Made' = Made
      BY <2>2 DEF Made
    <3>2. StackInv'
      BY <1>1, <1>2, <2>2, <2>3, <3>1, StackPop
    <3>3. SubsInv'
      <4>1. subs' = [r \in Refs |-> subs'[r]] /\ \A r \in Refs : subs'[r] = Unsubscribed(r, w)
        BY <2>3
      <4> QED
        BY <1>1, <3>1, <4>1, Leaves
    <3>4. TypeInv'
      BY <1>1, <2>2, <2>3, <3>1 DEF TypeInv
    <3> QED
      BY <3>2, <3>3, <3>4 DEF BaseInv
  <2>4. CASE /\ w \in cleanup /\ BeginCleanup(w, "effect", Initial, Callers)
             /\ UNCHANGED <<subs, old>>
    <3>1. Made' = Made /\ SubsInv'
      BY <1>1, <2>2, <2>4 DEF Made, SubsInv
    <3> QED
      BY <1>2, <2>1, <2>2, <2>4, <3>1, BeginCleanupBase
  <2>5. CASE BeginEffect(w, Callers) /\ UNCHANGED owed
    BY <1>2, <2>1, <2>2, <2>5, BeginEffectBase
  <2> QED
    BY <1>4, <1>6, <2>3, <2>4, <2>5 DEF GetEffect
<1>7. CASE GetSource
  <2>1. w \in Made /\ w \in Watchers /\ val[SourceOf(w)] \in Values
    BY <1>5, <1>7 DEF GetSource, On
  <2>2. /\ Subscribe(w) /\ stack' = Callers
        /\ old' = [old EXCEPT ![w] = val[SourceOf(w)]] /\ last' = [last EXCEPT ![w] = val[SourceOf(w)]]
        /\ UNCHANGED <<val, created, active, owned, cleanup, once, queued, buffer, isMounted, destroyed, owed>>
    BY <1>4, <1>7 DEF GetSource
  <2>3. Made' = Made
    BY <2>2 DEF Made
  <2>4. StackInv'
    BY <1>1, <1>2, <2>2, <2>3, StackPop
  <2>5. SubsInv'
    BY <1>1, <2>1, <2>2, <2>3, Subscribes, ConstantsAssumption DEF TypeInv
  <2>6. TypeInv'
    BY <1>1, <2>1, <2>2, <2>3 DEF TypeInv
  <2> QED
    BY <2>4, <2>5, <2>6 DEF BaseInv
<1>8. CASE RunStopped
  BY <1>2, <1>8, PopBase DEF RunStopped, state, history
<1>9. CASE RunEffect
  <2>1. w \in Made
    BY <1>5, <1>9 DEF RunEffect, On
  <2>2. PICK f : f = Call("get", w)
    OBVIOUS
  <2>3. stack' = <<f>> \o Callers /\ f.kind \notin Bottoms
    BY <1>4, <1>9, <2>2 DEF RunEffect, Call, Bottoms
  <2>4. IsFrame(f)'
    BY <1>9, <2>1, <2>2 DEF RunEffect, state, IsFrame, IsRun, Call, Bottoms, Made
  <2> QED
    BY <1>2, <1>9, <2>3, <2>4, SwapBase DEF RunEffect, state, history
<1>10. CASE RunWithCallback
  <2>1. w \in Made /\ w \in Watchers /\ val[SourceOf(w)] \in Values /\ w \notin Effects
    BY <1>4, <1>5, <1>10 DEF RunWithCallback, On
  <2>2. PICK new : new = val[SourceOf(w)]
    OBVIOUS
  <2>3. /\ Subscribe(w)
        /\ UNCHANGED <<val, created, active, owned, old, cleanup, once, queued, buffer, isMounted, destroyed>>
        /\ \/ stack' = Callers /\ UNCHANGED <<owed, last>>
           \/ w \in cleanup /\ BeginCleanup(w, "callback", new, Callers) /\ UNCHANGED last
           \/ BeginCallback(w, new, Callers) /\ UNCHANGED owed
    BY <1>4, <1>10, <2>2 DEF RunWithCallback
  <2>4. Made' = Made
    BY <2>3 DEF Made
  <2>5. SubsInv'
    BY <1>1, <2>1, <2>3, <2>4, Subscribes, ConstantsAssumption DEF TypeInv
  <2>6. CASE stack' = Callers /\ UNCHANGED <<owed, last>>
    <3>1. StackInv'
      BY <1>1, <1>2, <2>3, <2>4, <2>6, StackPop
    <3>2. TypeInv'
      BY <1>1, <2>3, <2>4, <2>6 DEF TypeInv
    <3> QED
      BY <2>5, <3>1, <3>2 DEF BaseInv
  <2>7. CASE w \in cleanup /\ BeginCleanup(w, "callback", new, Callers) /\ UNCHANGED last
    BY <1>2, <2>1, <2>2, <2>3, <2>4, <2>5, <2>7, BeginCleanupBase
  <2>8. CASE BeginCallback(w, new, Callers) /\ UNCHANGED owed
    BY <1>2, <2>1, <2>2, <2>3, <2>5, <2>8, BeginCallbackBase
  <2> QED
    BY <2>3, <2>6, <2>7, <2>8
<1>11. CASE EndCleanup
  <2>1. /\ Top.kind = "cleanup"
        /\ UNCHANGED <<val, created, active, owned, cleanup, once, queued, buffer, isMounted, destroyed, owed>>
    BY <1>11 DEF EndCleanup, On
  <2>2. CASE Top.then = "effect" /\ BeginEffect(w, Callers) /\ UNCHANGED last
    <3>1. w \in Made /\ w \in Effects
      BY <1>3, <1>4, <1>5, <2>1, <2>2 DEF IsFrame
    <3> QED
      BY <1>2, <2>1, <2>2, <3>1, BeginEffectBase
  <2>3. CASE Top.then = "callback" /\ BeginCallback(w, Top.new, Callers) /\ UNCHANGED <<subs, old>>
    <3>1. PICK new : new = Top.new
      OBVIOUS
    <3>2. w \in Made /\ w \notin Effects /\ new \in Values
      BY <1>3, <1>4, <1>5, <2>1, <2>3, <3>1 DEF IsFrame
    <3>3. SubsInv'
      BY <1>1, <2>1, <2>3 DEF SubsInv, Made
    <3> QED
      BY <1>2, <2>1, <2>3, <3>1, <3>2, <3>3, BeginCallbackBase
  <2>4. CASE stack' = Callers /\ UNCHANGED <<subs, old, last>>
    BY <1>2, <2>1, <2>4, PopBase
  <2> QED
    BY <1>4, <1>11, <2>2, <2>3, <2>4 DEF EndCleanup
<1>12. CASE EndEffect
  BY <1>2, <1>12, PopBase DEF EndEffect, history
<1>13. CASE EndCallback
  <2>1. w \in Watchers /\ Top.new \in Values
    BY <1>3, <1>5, <1>13 DEF EndCallback, On, IsFrame
  <2>2. /\ stack' = Callers /\ old' = [old EXCEPT ![w] = Top.new]
        /\ UNCHANGED <<val, subs, created, active, owned, cleanup, once, queued, buffer, isMounted, destroyed,
                       last, owed>>
    BY <1>4, <1>13 DEF EndCallback, history
  <2>3. Made' = Made
    BY <2>2 DEF Made
  <2>4. StackInv'
    BY <1>1, <1>2, <2>2, <2>3, StackPop
  <2>5. SubsInv'
    BY <1>1, <2>2, <2>3 DEF SubsInv
  <2>6. TypeInv'
    BY <1>1, <2>1, <2>2, <2>3 DEF TypeInv
  <2> QED
    BY <2>4, <2>5, <2>6 DEF BaseInv
<1> QED
  BY <1>6, <1>7, <1>8, <1>9, <1>10, <1>11, <1>12, <1>13


LEMMA HeadFacts ==
  ASSUME NEW S, NEW s \in Seq(S), s # <<>>
  PROVE  /\ Head(s) \in S /\ Head(s) \in ToSet(s) /\ Tail(s) \in Seq(S)
         /\ ToSet(s) = {Head(s)} \union ToSet(Tail(s)) /\ IsASeq(s) /\ IsASeq(Tail(s))
<1>1. IsASeq(s) /\ Head(s) \in S /\ Tail(s) \in Seq(S)
  BY SeqIsASeq
<1>2. ToSet(s) = {Head(s)} \union ToSet(Tail(s)) /\ IsASeq(Tail(s))
  BY <1>1, Unstacked
<1> QED
  BY <1>1, <1>2

LEMMA AppendSet ==
  ASSUME NEW S, NEW s \in Seq(S), NEW e \in S
  PROVE  Append(s, e) \in Seq(S) /\ ToSet(Append(s, e)) = ToSet(s) \union {e}
<1>1. PICK t : t = Append(s, e)
  OBVIOUS
<1>2. t \in Seq(S)
  BY <1>1
<1>3. IsASeq(s) /\ IsASeq(t)
  BY <1>2, SeqIsASeq
<1>4. \A x : Contains(t, x) <=> Contains(s, x) \/ x = e
  BY <1>1, <1>3, AppendFacts
<1> QED
  BY <1>1, <1>2, <1>3, <1>4, SetFacts

\* A frame of the bottom kinds that is on top is alone.
LEMMA AloneAtBottom ==
  ASSUME StackInv, stack # <<>>, Top.kind \in Bottoms
  PROVE  Callers = <<>>
BY Peeled

\* The head of the list of a frame starts to run.
LEMMA NextRunBase ==
  ASSUME BaseInv, stack # <<>>, Top.kind \in {"pre", "once", "notify"}, Top.todo # <<>>,
         NEW kind \in {"get", "run"},
         stack' = <<Call(kind, Head(Top.todo)), ListFrame(Top.kind, Tail(Top.todo))>> \o Callers,
         UNCHANGED <<val, subs, created, active, owned, old, cleanup, queued, buffer, once, last, owed,
                     isMounted, destroyed>>
  PROVE  BaseInv'
<1>1. StackInv /\ IsFrame(Top) /\ Made' = Made
  BY TopFacts DEF BaseInv, Made
<1>2. PICK k : k = Top.kind
  OBVIOUS
<1>3. PICK s : s = Top.todo
  OBVIOUS
<1>4. s \in Seq(Watchers) /\ ToSet(s) \subseteq Made /\ s # <<>>
  BY <1>1, <1>3 DEF IsFrame
<1>5. PICK w, rest : w = Head(s) /\ rest = Tail(s)
  OBVIOUS
<1>6. w \in Made /\ rest \in Seq(Watchers) /\ ToSet(rest) \subseteq Made
  BY <1>4, <1>5, HeadFacts
<1>7. PICK f, g : f = Call(kind, w) /\ g = ListFrame(k, rest)
  OBVIOUS
<1>8. IsFrame(f)' /\ f.kind \notin Bottoms
  BY <1>1, <1>6, <1>7 DEF IsFrame, IsRun, Call, Bottoms
<1>9. IsFrame(g)' /\ g.kind \notin {"get", "run"}
  BY <1>1, <1>2, <1>6, <1>7 DEF IsFrame, IsRun, ListFrame, Bottoms
<1>10. g.kind \in Bottoms => Callers = <<>>
  BY <1>1, <1>2, <1>7, AloneAtBottom DEF ListFrame
<1>11. stack' = <<f>> \o (<<g>> \o Callers)
  BY <1>1, <1>2, <1>3, <1>5, <1>7, Peeled, StackedTwice
<1> QED
  BY <1>8, <1>9, <1>10, <1>11, SwapPushBase

LEMMA NotifyBase ==
  ASSUME BaseInv, NotifyNext
  PROVE  BaseInv'
<1>1. StackInv /\ SubsInv /\ TypeInv /\ Made' = Made
  BY DEF BaseInv, Made, NotifyNext
<1>2. stack # <<>> /\ Top.kind = "notify" /\ Top.todo # <<>>
  BY DEF NotifyNext, On
<1>3. PICK s : s = Top.todo
  OBVIOUS
<1>4. s \in Seq(Watchers) /\ ToSet(s) \subseteq Made /\ s # <<>>
  BY <1>1, <1>2, <1>3, TopFacts DEF IsFrame
<1>5. PICK w, tail : w = Head(s) /\ tail = Tail(s)
  OBVIOUS
<1>6. w \in Made /\ w \in Watchers /\ tail \in Seq(Watchers) /\ ToSet(tail) \subseteq Made
  BY <1>4, <1>5, HeadFacts
<1>7. PICK g : g = ListFrame("notify", tail)
  OBVIOUS
<1>8. IsFrame(g)' /\ g.kind = "notify"
  BY <1>1, <1>6, <1>7 DEF IsFrame, IsRun, ListFrame, Bottoms
<1>9. UNCHANGED <<val, subs, created, active, owned, old, cleanup, once, last, owed, isMounted, destroyed>>
  BY DEF NotifyNext
<1>10. \/ /\ stack' = <<Call("run", w)>> \o (<<g>> \o Callers)
          /\ UNCHANGED <<queued, buffer>>
       \/ /\ stack' = <<g>> \o Callers
          /\ queued' \subseteq queued \union {w}
          /\ buffer' = buffer \/ buffer' = Append(buffer, w)
  BY <1>3, <1>5, <1>7 DEF NotifyNext
<1>11. CASE /\ stack' = <<Call("run", w)>> \o (<<g>> \o Callers)
            /\ UNCHANGED <<queued, buffer>>
  <2>1. PICK f : f = Call("run", w)
    OBVIOUS
  <2>2. IsFrame(f)' /\ f.kind = "run"
    BY <1>1, <1>6, <2>1 DEF IsFrame, IsRun, Call, Bottoms
  <2> QED
    BY <1>2, <1>8, <1>9, <1>11, <2>1, <2>2, SwapPushBase DEF Bottoms
<1>12. CASE /\ stack' = <<g>> \o Callers
            /\ queued' \subseteq queued \union {w}
            /\ buffer' = buffer \/ buffer' = Append(buffer, w)
  <2>1. StackInv'
    BY <1>1, <1>2, <1>8, <1>9, <1>12, StackSwap DEF Bottoms
  <2>2. SubsInv'
    BY <1>1, <1>9 DEF SubsInv
  <2>3. buffer' \in Seq(Watchers) /\ ToSet(buffer') \subseteq Made
    <3>1. buffer \in Seq(Watchers) /\ ToSet(buffer) \subseteq Made
      BY <1>1 DEF TypeInv
    <3>2. Append(buffer, w) \in Seq(Watchers) /\ ToSet(Append(buffer, w)) = ToSet(buffer) \union {w}
      BY <1>6, <3>1, AppendSet
    <3>3. CASE buffer' = buffer
      BY <3>1, <3>3
    <3>4. CASE buffer' = Append(buffer, w)
      BY <1>6, <3>1, <3>2, <3>4
    <3> QED
      BY <1>12, <3>3, <3>4
  <2>4. TypeInv'
    BY <1>1, <1>6, <1>9, <1>12, <2>3 DEF TypeInv
  <2> QED
    BY <2>1, <2>2, <2>4 DEF BaseInv
<1> QED
  BY <1>10, <1>11, <1>12

LEMMA RunQueuedBase ==
  ASSUME BaseInv, NEW w \in Watchers, RunQueued(w)
  PROVE  BaseInv'
<1>1. StackInv /\ SubsInv /\ TypeInv /\ Made' = Made /\ w \in Made
  BY DEF BaseInv, Made, RunQueued, TypeInv
<1>2. PICK f : f = Call("run", w)
  OBVIOUS
<1>3. IsFrame(f)' /\ f.kind \notin Bottoms
  BY <1>1, <1>2 DEF IsFrame, IsRun, Call, Bottoms
<1>4. StackInv'
  BY <1>1, <1>2, <1>3, StackPush DEF RunQueued
<1>5. SubsInv' /\ TypeInv'
  BY <1>1 DEF SubsInv, TypeInv, RunQueued, history
<1> QED
  BY <1>4, <1>5 DEF BaseInv

\* Watchers are notified, the component mounts.
LEMMA ComponentBase ==
  ASSUME BaseInv,
         EndNotify \/ MakeScope \/ EndSetup \/ EndRender \/ RunBuffered \/ CallMounted \/ EmitMounted
           \/ RunOnce \/ EndMounted \/ BeginHook \/ EndHook
  PROVE  BaseInv'
<1>1. StackInv /\ SubsInv /\ TypeInv
  BY DEF BaseInv
<1>2. stack # <<>> => IsFrame(Top)
  BY <1>1, TopFacts
<1>3. CASE EndNotify
  BY <1>3, PopBase DEF EndNotify, On, state, history
<1>4. CASE MakeScope
  <2>1. stack # <<>> /\ Top.kind = "setup" /\ Top.todo # <<>> /\ Callers = <<>>
    BY <1>1, <1>4, AloneAtBottom DEF MakeScope, On, Bottoms
  <2>2. PICK s : s = Top.todo
    OBVIOUS
  <2>3. s \in Seq(Scopes) /\ Tail(s) \in Seq(Scopes)
    BY <1>2, <2>1, <2>2, HeadFacts DEF IsFrame
  <2>4. PICK f : f = ListFrame("setup", Tail(s))
    OBVIOUS
  <2>5. IsFrame(f)'
    BY <2>3, <2>4 DEF IsFrame, IsRun, ListFrame, Bottoms
  <2>6. stack' = <<f>> \o Callers
    BY <1>4, <2>2, <2>4 DEF MakeScope
  <2> QED
    BY <1>4, <2>1, <2>5, <2>6, SwapBase DEF MakeScope, history
<1>5. CASE EndSetup
  <2>1. stack # <<>> /\ Callers = <<>>
    BY <1>1, <1>5, AloneAtBottom DEF EndSetup, On, Bottoms
  <2>2. PICK f : f = Frame("render")
    OBVIOUS
  <2>3. IsFrame(f)'
    BY <2>2 DEF IsFrame, IsRun, Frame, Bottoms
  <2> QED
    BY <1>5, <2>1, <2>2, <2>3, SwapBase DEF EndSetup, state, history
<1>6. CASE EndRender
  <2>1. stack # <<>> /\ Callers = <<>>
    BY <1>1, <1>6, AloneAtBottom DEF EndRender, On, Bottoms
  <2>2. PICK f : f = ListFrame("pre", buffer)
    OBVIOUS
  <2>3. Made' = Made
    BY <1>6 DEF EndRender, state, Made
  <2>4. IsFrame(f)'
    BY <1>1, <2>2, <2>3 DEF IsFrame, IsRun, ListFrame, Bottoms, TypeInv
  <2> QED
    BY <1>6, <2>1, <2>2, <2>4, SwapBase DEF EndRender, state, history
<1>7. CASE RunBuffered
  BY <1>7, NextRunBase DEF RunBuffered, On, state, history
<1>8. CASE CallMounted
  <2>1. stack # <<>> /\ Callers = <<>>
    BY <1>1, <1>8, AloneAtBottom DEF CallMounted, On, Bottoms
  <2>2. PICK f : f = Frame("mounted")
    OBVIOUS
  <2>3. IsFrame(f)' /\ Made' = Made
    BY <1>8, <2>2 DEF IsFrame, IsRun, Frame, Bottoms, CallMounted, Made
  <2>4. StackInv'
    BY <1>1, <1>8, <2>1, <2>2, <2>3, StackSwap DEF CallMounted
  <2>5. SubsInv' /\ TypeInv'
    BY <1>1, <1>8, <2>3 DEF CallMounted, SubsInv, TypeInv, history
  <2> QED
    BY <2>4, <2>5 DEF BaseInv
<1>9. CASE EmitMounted
  <2>1. stack # <<>> /\ Callers = <<>>
    BY <1>1, <1>9, AloneAtBottom DEF EmitMounted, On, Bottoms
  <2>2. PICK f : f = ListFrame("once", once)
    OBVIOUS
  <2>3. Made' = Made
    BY <1>9 DEF EmitMounted, Made
  <2>4. IsFrame(f)'
    BY <1>1, <2>2, <2>3 DEF IsFrame, IsRun, ListFrame, Bottoms, TypeInv
  <2>5. StackInv'
    BY <1>1, <1>9, <2>1, <2>2, <2>3, <2>4, StackSwap DEF EmitMounted
  <2>6. once' = <<>> /\ ToSet(once') = {}
    BY <1>9 DEF EmitMounted, ToSet
  <2>7. SubsInv' /\ TypeInv'
    BY <1>1, <1>9, <2>3, <2>6 DEF EmitMounted, SubsInv, TypeInv, history
  <2> QED
    BY <2>5, <2>7 DEF BaseInv
<1>10. CASE RunOnce
  BY <1>10, NextRunBase DEF RunOnce, On, state, history
<1>11. CASE EndMounted
  BY <1>11, PopBase DEF EndMounted, On, state, history
<1>12. CASE BeginHook
  <2>1. PICK f : f = Frame("hook")
    OBVIOUS
  <2>2. IsFrame(f)'
    BY <2>1 DEF IsFrame, IsRun, Frame, Bottoms
  <2> QED
    BY <1>12, <2>1, <2>2, PushBase DEF BeginHook, state, history
<1>13. CASE EndHook
  BY <1>13, PopBase DEF EndHook, On, state, history
<1> QED
  BY <1>3, <1>4, <1>5, <1>6, <1>7, <1>8, <1>9, <1>10, <1>11, <1>12, <1>13

LEMMA TornDownBase ==
  ASSUME BaseInv, stack # <<>>, NEW w \in Watchers,
         NEW g, g.kind \notin {"get", "run"}, g.kind \in Bottoms => Callers = <<>>, IsFrame(g)',
         Teardown(w, <<g>> \o Callers), UNCHANGED destroyed
  PROVE  BaseInv'
<1>1. StackInv /\ SubsInv /\ TypeInv /\ Made' = Made
  BY DEF BaseInv, Made, Teardown
<1>2. SubsInv'
  <2>1. /\ subs' = [r \in Refs |-> subs'[r]]
        /\ \A r \in Refs : subs'[r] = Unsubscribed(r, w) \/ subs'[r] = subs[r]
    BY DEF Teardown
  <2> QED
    BY <1>1, <2>1, Leaves
<1>3. TypeInv'
  <2>1. owed' \subseteq owed
    BY DEF Teardown, TornDown, BeginCleanup
  <2> QED
    BY <1>1, <2>1 DEF TypeInv, Teardown
<1>4. CASE stack' = <<g>> \o Callers
  BY <1>1, <1>2, <1>3, <1>4, StackSwap DEF BaseInv, Teardown
<1>5. CASE w \in cleanup /\ stack' = <<Cleaning(w, "stop", Initial)>> \o (<<g>> \o Callers)
  <2>1. PICK f : f = Cleaning(w, "stop", Initial)
    OBVIOUS
  <2>2. IsFrame(f)' /\ f.kind = "cleanup" /\ cleanup' = cleanup
    BY <1>1, <1>5, <2>1 DEF IsFrame, IsRun, Cleaning, Bottoms, Teardown
  <2>3. StackInv'
    BY <1>1, <1>5, <2>1, <2>2, StackSwapPush DEF Bottoms
  <2> QED
    BY <1>2, <1>3, <2>3 DEF BaseInv
<1> QED
  BY <1>4, <1>5 DEF Teardown, TornDown, BeginCleanup

LEMMA StopBase ==
  ASSUME BaseInv, UserCode, NEW w \in Watchers, Teardown(w, stack), UNCHANGED destroyed
  PROVE  BaseInv'
<1>1. StackInv /\ SubsInv /\ TypeInv /\ Made' = Made
  BY DEF BaseInv, Made, Teardown
<1>2. SubsInv'
  <2>1. /\ subs' = [r \in Refs |-> subs'[r]]
        /\ \A r \in Refs : subs'[r] = Unsubscribed(r, w) \/ subs'[r] = subs[r]
    BY DEF Teardown
  <2> QED
    BY <1>1, <2>1, Leaves
<1>3. TypeInv'
  <2>1. owed' \subseteq owed
    BY DEF Teardown, TornDown, BeginCleanup
  <2> QED
    BY <1>1, <2>1 DEF TypeInv, Teardown
<1>4. CASE stack' = stack
  BY <1>1, <1>2, <1>3, <1>4, StackStays DEF BaseInv, Teardown
<1>5. CASE w \in cleanup /\ stack' = <<Cleaning(w, "stop", Initial)>> \o stack
  <2>1. PICK f : f = Cleaning(w, "stop", Initial)
    OBVIOUS
  <2>2. IsFrame(f)' /\ f.kind = "cleanup" /\ cleanup' = cleanup
    BY <1>1, <1>5, <2>1 DEF IsFrame, IsRun, Cleaning, Bottoms, Teardown
  <2>3. StackInv'
    BY <1>1, <1>5, <2>1, <2>2, StackPush DEF Bottoms, UserCode
  <2> QED
    BY <1>2, <1>3, <2>3 DEF BaseInv
<1> QED
  BY <1>4, <1>5 DEF Teardown, TornDown, BeginCleanup

\* The fields of a stop frame
LEMMA StopTop ==
  ASSUME BaseInv, On("stop"), NEW f, f = Top
  PROVE  /\ stack # <<>> /\ f \in StopFrames /\ f.kind = "stop"
         /\ \A t \in Seq(Watchers) : IsFrame([f EXCEPT !.todo = t])'
         /\ \A p \in {"effects", "dispose", "scopes"} : IsFrame([f EXCEPT !.phase = p])'
         /\ \A n \in Nat : /\ IsFrame([f EXCEPT !.i = n])'
                           /\ IsFrame([f EXCEPT !.phase = "scopes", !.length = n])'
<1>2. f \in StopFrames /\ f.kind = "stop" /\ stack # <<>>
  BY TopFacts DEF BaseInv, On, IsFrame
<1>3. ASSUME NEW g \in StopFrames PROVE IsFrame(g)'
  <2>1. g.kind = "stop" /\ g.w = Free
    BY DEF StopFrames
  <2> QED
    BY <2>1 DEF IsFrame, IsRun, Bottoms, StopFrames
<1>4. /\ \A t \in Seq(Watchers) : [f EXCEPT !.todo = t] \in StopFrames
      /\ \A p \in {"effects", "dispose", "scopes"} : [f EXCEPT !.phase = p] \in StopFrames
      /\ \A n \in Nat : /\ [f EXCEPT !.i = n] \in StopFrames
                        /\ [f EXCEPT !.phase = "scopes", !.length = n] \in StopFrames
  BY <1>2 DEF StopFrames
<1> QED
  BY <1>2, <1>3, <1>4

LEMMA StopFrameFacts ==
  ASSUME NEW s \in AllScopes, NEW ws \in Seq(Watchers), NEW up \in BOOLEAN, NEW f,
         f = StopFrame(s, ws, up)
  PROVE  f \in StopFrames /\ f.kind = "stop" /\ IsFrame(f)'
<1>1. f \in StopFrames /\ f.kind = "stop"
  BY DEF StopFrame, StopFrames
<1> QED
  BY <1>1 DEF IsFrame, IsRun, Bottoms, StopFrames

\* Scopes stop, the component is destroyed.  The lists of the scopes have only scopes.
LEMMA StoppingBase ==
  ASSUME BaseInv,
         \A s \in AllScopes : scope[s].scopes \in Seq(Scopes),
         \A f \in Frames : f.kind = "stop" /\ f.phase = "scopes" =>
           f.length = Len(scope[f.scope].scopes) /\ f.i \in 1 .. f.length + 1,
         StopEffect \/ BeginDispose \/ EndDispose \/ BeginScopes \/ StopScopes \/ EndStop \/ EndDestroy
  PROVE  BaseInv'
<1>1. StackInv /\ SubsInv /\ TypeInv
  BY DEF BaseInv
<1>2. PICK f : f = Top
  OBVIOUS
<1>3. CASE StopEffect
  <2>0. On("stop") /\ f.todo # <<>>
    BY <1>2, <1>3 DEF StopEffect
  <2>1. stack # <<>> /\ f \in StopFrames /\ f.kind = "stop" /\ f.todo # <<>> /\ f.todo \in Seq(Watchers)
    <3>1. stack # <<>> /\ f \in StopFrames /\ f.kind = "stop"
      BY <1>2, <2>0, StopTop
    <3> QED
      BY <2>0, <3>1 DEF StopFrames
  <2>2. PICK w, t : w = Head(f.todo) /\ t = Tail(f.todo)
    OBVIOUS
  <2>3. w \in Watchers /\ t \in Seq(Watchers)
    BY <2>1, <2>2, HeadFacts
  <2>4. PICK g : g = [f EXCEPT !.todo = t]
    OBVIOUS
  <2>5. IsFrame(g)' /\ g.kind = "stop"
    BY <1>2, <1>3, <2>1, <2>3, <2>4, StopTop DEF StopEffect, StopFrames
  <2>6. CASE Teardown(w, <<g>> \o Callers)
    BY <1>3, <2>1, <2>3, <2>5, <2>6, TornDownBase DEF Bottoms, StopEffect
  <2>7. CASE /\ stack' = <<g>> \o Callers
             /\ UNCHANGED <<val, subs, deps, created, active, owned, old, cleanup, queued,
                            buffer, once, isMounted, history, destroyed>>
    BY <2>1, <2>5, <2>7, SwapBase DEF Bottoms, history
  <2> QED
    BY <1>2, <1>3, <2>2, <2>4, <2>6, <2>7 DEF StopEffect
<1>4. CASE BeginDispose
  <2>1. On("stop") /\ stack # <<>> /\ f \in StopFrames /\ f.kind = "stop" /\ f.scope \in Scopes
    BY <1>2, <1>4, StopTop, ConstantsAssumption DEF BeginDispose, Disposing, ConstantsAssumption
  <2>2. PICK d, g : d = Call("dispose", f.scope) /\ g = [f EXCEPT !.phase = "dispose"]
    OBVIOUS
  <2>3. IsFrame(g)' /\ g.kind = "stop"
    BY <1>2, <2>1, <2>2, StopTop DEF StopFrames
  <2>4. IsFrame(d)' /\ d.kind = "dispose"
    BY <2>1, <2>2 DEF IsFrame, IsRun, Call, Bottoms
  <2>5. stack' = <<d>> \o (<<g>> \o Callers)
    BY <1>1, <1>2, <1>4, <2>1, <2>2, Peeled, StackedTwice, SMTT(30) DEF BeginDispose
  <2> QED
    BY <1>4, <2>1, <2>3, <2>4, <2>5, SwapPushBase DEF BeginDispose, Bottoms, state, history
<1>5. CASE EndDispose
  BY <1>5, PopBase DEF EndDispose, On, state, history
<1>6. CASE BeginScopes
  <2>1. On("stop") /\ stack # <<>> /\ f \in StopFrames /\ f.kind = "stop" /\ f.scope \in AllScopes
    <3>1. On("stop")
      BY <1>6 DEF BeginScopes
    <3>2. stack # <<>> /\ f \in StopFrames /\ f.kind = "stop"
      BY <1>2, <3>1, StopTop
    <3> QED
      BY <3>1, <3>2 DEF StopFrames
  <2>2. PICK n : n = Len(scope[f.scope].scopes)
    OBVIOUS
  <2>3. n \in Nat
    BY <2>1, <2>2
  <2>4. PICK g : g = [f EXCEPT !.phase = "scopes", !.length = n]
    OBVIOUS
  <2>5. IsFrame(g)' /\ g.kind = "stop"
    BY <1>2, <2>1, <2>3, <2>4, StopTop DEF StopFrames
  <2>6. stack' = <<g>> \o Callers
    BY <1>2, <1>6, <2>2, <2>4 DEF BeginScopes
  <2> QED
    BY <1>6, <2>1, <2>5, <2>6, SwapBase DEF BeginScopes, Bottoms, state, history
<1>7. CASE StopScopes
  <2>1. On("stop") /\ stack # <<>> /\ f \in StopFrames /\ f.kind = "stop" /\ f.scope \in AllScopes
    <3>1. On("stop")
      BY <1>7 DEF StopScopes
    <3>2. stack # <<>> /\ f \in StopFrames /\ f.kind = "stop"
      BY <1>2, <3>1, StopTop
    <3> QED
      BY <3>1, <3>2 DEF StopFrames
  <2>2. f.phase = "scopes" /\ f.i \in Nat /\ f.i \in 1 .. Len(scope[f.scope].scopes)
    <3>1. f.phase = "scopes" /\ f.i <= f.length /\ f \in Frames
      BY <1>1, <1>2, <1>7, <2>1, TopFacts DEF StopScopes
    <3>2. f.length = Len(scope[f.scope].scopes) /\ f.i \in 1 .. f.length + 1 /\ f.length \in Nat
      BY <2>1, <3>1 DEF StopFrames
    <3> QED
      BY <3>1, <3>2
  <2>3. PICK child : child = scope[f.scope].scopes[f.i]
    OBVIOUS
  <2>4. child \in AllScopes
    BY <2>1, <2>2, <2>3 DEF AllScopes
  <2>5. PICK g : g = [f EXCEPT !.i = f.i + 1]
    OBVIOUS
  <2>6. IsFrame(g)' /\ g.kind = "stop"
    <3>1. f.i + 1 \in Nat
      BY <2>2
    <3> QED
      BY <1>2, <2>1, <2>5, <3>1, StopTop DEF StopFrames
  <2>7. PICK ws : ws = EffectsOf(child)
    OBVIOUS
  <2>8. ws \in Seq(Watchers)
    BY <1>1, <2>7, EffectsFacts DEF TypeInv
  <2>9. PICK d : d = StopFrame(child, ws, TRUE)
    OBVIOUS
  <2>10. IsFrame(d)' /\ d.kind = "stop"
    BY <2>4, <2>8, <2>9, StopFrameFacts
  <2>11. stack' = <<d>> \o (<<g>> \o Callers) \/ stack' = <<g>> \o Callers
    BY <1>2, <1>7, <2>1, <2>3, <2>5, <2>7, <2>9 DEF StopScopes
  <2> QED
    BY <1>7, <2>1, <2>6, <2>10, <2>11, SwapBase, SwapPushBase DEF StopScopes, Bottoms, state, history
<1>8. CASE EndStop
  BY <1>8, PopBase DEF EndStop, On, history
<1>9. CASE EndDestroy
  <2>1. stack # <<>> /\ Made' = Made
    BY <1>9 DEF EndDestroy, On, Made
  <2>2. StackInv'
    BY <1>1, <1>9, <2>1, StackPop DEF EndDestroy
  <2>3. once' = <<>> /\ ToSet(once') = {}
    BY <1>9 DEF EndDestroy, ToSet
  <2>4. SubsInv' /\ TypeInv'
    BY <1>1, <1>9, <2>1, <2>3 DEF EndDestroy, SubsInv, TypeInv, history
  <2> QED
    BY <2>2, <2>4 DEF BaseInv
<1> QED
  BY <1>3, <1>4, <1>5, <1>6, <1>7, <1>8, <1>9

\* User code writes a ref, makes or stops watchers and scopes.
LEMMA UserBase ==
  ASSUME BaseInv,
         OnCleanup \/ Destroy \/ (\E w \in Watchers : Create(w) \/ Stop(w))
           \/ (\E s \in Scopes : StopScope(s)) \/ (\E r \in Refs, v \in Values : Write(r, v))
  PROVE  BaseInv'
<1>1. StackInv /\ SubsInv /\ TypeInv
  BY DEF BaseInv
<1>2. UserCode
  BY DEF OnCleanup, Destroy, Create, Stop, StopScope, Write, UserOp
<1>3. stack # <<>> => Top.kind \notin {"get", "run"}
  BY <1>2 DEF UserCode
<1>4. CASE OnCleanup
  <2>1. stack # <<>> /\ Top.kind \in {"callback", "effect"}
    BY <1>4 DEF OnCleanup, On
  <2>2. Top.w \in Made
    BY <1>1, <2>1, TopFacts DEF IsFrame, IsRun
  <2>3. Made' = Made /\ cleanup \subseteq cleanup' /\ UNCHANGED stack
    BY <1>4 DEF OnCleanup, Made
  <2>4. StackInv'
    BY <1>1, <2>3, StackStays
  <2>5. SubsInv' /\ TypeInv'
    BY <1>1, <1>4, <2>2, <2>3 DEF OnCleanup, SubsInv, TypeInv
  <2> QED
    BY <2>4, <2>5 DEF BaseInv
<1>5. CASE Destroy
  <2>1. PICK f, g : f = StopFrame(Own, EffectsOf(Own), FALSE) /\ g = Frame("destroy")
    OBVIOUS
  <2>2. IsFrame(f)' /\ f.kind = "stop"
    <3>1. PICK ws : ws = EffectsOf(Own)
      OBVIOUS
    <3>2. ws \in Seq(Watchers)
      BY <1>1, <3>1, EffectsFacts DEF TypeInv
    <3>3. Own \in AllScopes /\ FALSE \in BOOLEAN
      BY DEF AllScopes
    <3> QED
      BY <2>1, <3>1, <3>2, <3>3, StopFrameFacts
  <2>3. IsFrame(g)' /\ g.kind = "destroy"
    BY <2>1 DEF IsFrame, IsRun, Frame, Bottoms
  <2>4. stack' = <<f>> \o (<<g>> \o stack)
    <3>1. IsASeq(stack)
      BY <1>1 DEF StackInv, InOrder
    <3>2. stack' = <<f, g>> \o stack
      BY <1>5, <2>1 DEF Destroy
    <3> QED
      BY <3>1, <3>2, StackedTwice
  <2>5. Made' = Made /\ cleanup' = cleanup
    BY <1>5 DEF Destroy, state, Made
  <2>6. StackInv'
    BY <1>1, <1>3, <2>2, <2>3, <2>4, <2>5, StackPushTwo DEF Bottoms
  <2>7. SubsInv' /\ TypeInv'
    BY <1>1, <1>5, <2>5 DEF Destroy, state, history, SubsInv, TypeInv
  <2> QED
    BY <2>6, <2>7 DEF BaseInv
<1>6. ASSUME NEW w \in Watchers, Create(w) PROVE BaseInv'
  <2>1. PICK c : c = Append(created, w)
    OBVIOUS
  <2>2. c \in Seq(Watchers) /\ ToSet(c) = Made \union {w}
    BY <1>1, <2>1, AppendSet DEF TypeInv, Made
  <2>3. created' = c /\ Made' = Made \union {w}
    BY <1>6, <2>1, <2>2 DEF Create, Made
  <2>4. UNCHANGED <<val, subs, old, cleanup, queued, buffer, isMounted, destroyed, history>>
    BY <1>6 DEF Create
  <2>5. CASE once' = Append(once, w) /\ UNCHANGED stack
    <3>1. StackInv'
      BY <1>1, <2>3, <2>4, <2>5, StackStays
    <3>2. once' \in Seq(Watchers) /\ ToSet(once') = ToSet(once) \union {w}
      <4>1. Append(once, w) \in Seq(Watchers) /\ ToSet(Append(once, w)) = ToSet(once) \union {w}
        BY <1>1, AppendSet DEF TypeInv
      <4> QED
        BY <2>5, <4>1
    <3>3. SubsInv'
      BY <1>1, <2>3, <2>4 DEF SubsInv
    <3>4. TypeInv'
      BY <1>1, <1>6, <2>2, <2>3, <2>4, <3>2 DEF TypeInv, Create, history
    <3> QED
      BY <3>1, <3>3, <3>4 DEF BaseInv
  <2>6. CASE /\ stack' = <<Call(IF w \in Immediate THEN "run" ELSE "get", w)>> \o stack
             /\ UNCHANGED once
    <3>1. PICK f : f = Call(IF w \in Immediate THEN "run" ELSE "get", w)
      OBVIOUS
    <3>2. f.kind \in {"get", "run"} /\ f.w = w
      BY <3>1 DEF Call
    <3>3. IsFrame(f)'
      BY <2>3, <3>2 DEF IsFrame, IsRun, Bottoms
    <3>4. StackInv'
      BY <1>1, <1>3, <2>3, <2>4, <2>6, <3>1, <3>2, <3>3, StackPush DEF Bottoms
    <3>5. SubsInv'
      BY <1>1, <2>3, <2>4 DEF SubsInv
    <3>6. TypeInv'
      BY <1>1, <1>6, <2>2, <2>3, <2>4, <2>6 DEF TypeInv, Create, history
    <3> QED
      BY <3>4, <3>5, <3>6 DEF BaseInv
  <2> QED
    BY <1>6, <2>5, <2>6 DEF Create
<1>7. ASSUME NEW w \in Watchers, Stop(w) PROVE BaseInv'
  BY <1>2, <1>7, StopBase DEF Stop
<1>8. ASSUME NEW s \in Scopes, StopScope(s) PROVE BaseInv'
  <2>1. PICK ws : ws = EffectsOf(s)
    OBVIOUS
  <2>2. ws \in Seq(Watchers) /\ s \in AllScopes /\ FALSE \in BOOLEAN
    BY <1>1, <2>1, EffectsFacts DEF TypeInv, AllScopes
  <2>3. PICK f : f = StopFrame(s, ws, FALSE)
    OBVIOUS
  <2>4. IsFrame(f)' /\ f.kind = "stop"
    BY <2>2, <2>3, StopFrameFacts
  <2>5. stack' = <<f>> \o stack
    BY <1>8, <2>1, <2>3 DEF StopScope
  <2> QED
    BY <1>3, <1>8, <2>4, <2>5, PushBase DEF StopScope, Bottoms, state, history
<1>9. ASSUME NEW r \in Refs, NEW v \in Values, Write(r, v) PROVE BaseInv'
  <2>1. PICK f : f = ListFrame("notify", subs[r])
    OBVIOUS
  <2>2. Made' = Made /\ cleanup' = cleanup
    BY <1>9 DEF Write, Made
  <2>3. IsFrame(f)' /\ f.kind = "notify"
    BY <1>1, <2>1, <2>2 DEF IsFrame, IsRun, ListFrame, Bottoms, SubsInv
  <2>4. StackInv'
    BY <1>1, <1>3, <1>9, <2>1, <2>2, <2>3, StackPush DEF Bottoms, Write
  <2>5. SubsInv' /\ TypeInv'
    BY <1>1, <1>9, <2>2 DEF Write, SubsInv, TypeInv, history
  <2> QED
    BY <2>4, <2>5 DEF BaseInv
<1> QED
  BY <1>4, <1>5, <1>6, <1>7, <1>8, <1>9

LEMMA InitBase ==
  ASSUME Init
  PROVE  BaseInv
<1>1. PICK f : f = ListFrame("setup", ScopeOrder)
  OBVIOUS
<1>2. IsASeq(stack) /\ Frames = {f} /\ (\A x, y : ~Above(x, y))
  <2>1. stack = <<f>> /\ Len(stack) = 1 /\ DOMAIN stack = 1 .. 1
    BY <1>1 DEF Init
  <2>2. stack \in Seq({f})
    BY <2>1
  <2>3. IsASeq(stack)
    BY <2>2, SeqIsASeq
  <2>4. \A i, j \in 1 .. 1 : ~(i < j)
    OBVIOUS
  <2> QED
    BY <2>1, <2>3, <2>4 DEF Frames, Above, ToSet, Precedes
<1>3. ScopeOrder \in Seq(Scopes)
  BY ScopesAssumption DEF ScopesAssumption
<1>4. IsFrame(f)
  BY <1>1, <1>3 DEF IsFrame, IsRun, ListFrame, Bottoms
<1>5. StackInv
  BY <1>2, <1>4 DEF StackInv, InOrder, Frames, Above
<1>6. Made = {} /\ ToSet(once) = {} /\ ToSet(buffer) = {} /\ \A r \in Refs : ToSet(subs[r]) = {}
  BY DEF Init, Made, ToSet
<1>7. SubsInv
  BY <1>6 DEF Init, SubsInv
<1>8. TypeInv
  <2>1. \A S : <<>> \in Seq(S)
    OBVIOUS
  <2> QED
    BY <1>6, <2>1 DEF Init, TypeInv
<1> QED
  BY <1>5, <1>7, <1>8 DEF BaseInv

-----------------------------------------------------------------------------
(***************************************************************************)
(* Scopes within scopes.                                                   *)
(***************************************************************************)
Closed(S) == \A x \in Scopes \ Detached : ParentOf[x] \in S => x \in S

LEMMA WithinDef ==
  ASSUME NEW s \in AllScopes, NEW t
  PROVE  t \in Within[s] <=> (t \in AllScopes /\ \A S \in SUBSET AllScopes : s \in S /\ Closed(S) => t \in S)
BY DEF Within, AllScopes, Closed

LEMMA WithinFacts ==
  ASSUME NEW s \in AllScopes
  PROVE  /\ s \in Within[s] /\ Within[s] \subseteq AllScopes
         /\ \A x : IsNested(x) /\ ParentOf[x] \in Within[s] => x \in Within[s]
<1>1. s \in Within[s] /\ Within[s] \subseteq AllScopes
  BY WithinDef
<1>2. ASSUME NEW x, IsNested(x), ParentOf[x] \in Within[s] PROVE x \in Within[s]
  <2>1. x \in AllScopes /\ x \in Scopes \ Detached
    BY <1>2 DEF IsNested, AllScopes
  <2>2. ASSUME NEW S \in SUBSET AllScopes, s \in S /\ Closed(S) PROVE x \in S
    BY <1>2, <2>1, <2>2, WithinDef DEF Closed
  <2> QED
    BY <2>1, <2>2, WithinDef
<1> QED
  BY <1>1, <1>2

LEMMA WithinClosed ==
  ASSUME NEW s \in AllScopes
  PROVE  Closed(Within[s])
BY WithinFacts DEF Closed, IsNested

LEMMA WithinSmallest ==
  ASSUME NEW s \in AllScopes, NEW S \in SUBSET AllScopes, s \in S, Closed(S)
  PROVE  Within[s] \subseteq S
BY WithinDef

\* What is within a scope that is within s is within s.
LEMMA WithinMonotone ==
  ASSUME NEW s \in AllScopes, NEW c \in Within[s]
  PROVE  Within[c] \subseteq Within[s]
BY WithinFacts, WithinClosed, WithinSmallest

\* ... and s is the only one whose parent is not.
LEMMA WithinParent ==
  ASSUME NEW s \in AllScopes, NEW t \in Within[s], t # s
  PROVE  IsNested(t) /\ ParentOf[t] \in Within[s]
<1>1. PICK S : S = {s} \union { x \in Within[s] : IsNested(x) /\ ParentOf[x] \in Within[s] }
  OBVIOUS
<1>2. S \in SUBSET AllScopes /\ S \subseteq Within[s] /\ s \in S
  BY <1>1, WithinFacts
<1>3. Closed(S)
  BY <1>1, <1>2, WithinFacts DEF Closed, IsNested
<1> QED
  BY <1>1, <1>2, <1>3, WithinSmallest

LEMMA WithinChild ==
  ASSUME NEW s \in AllScopes, NEW t \in Within[s], t # s
  PROVE  \E c \in AllScopes : IsNested(c) /\ ParentOf[c] = s /\ t \in Within[c]
<1>1. PICK S : S = {s} \union { x \in AllScopes : \E c \in AllScopes : IsNested(c) /\ ParentOf[c] = s /\ x \in Within[c] }
  OBVIOUS
<1>2. ASSUME NEW x \in Scopes \ Detached, ParentOf[x] \in S PROVE x \in S
  <2>1. IsNested(x) /\ x \in AllScopes /\ x \in Within[x]
    BY WithinFacts DEF IsNested, AllScopes
  <2>2. CASE ParentOf[x] = s
    BY <1>1, <2>1, <2>2
  <2>3. CASE ParentOf[x] # s
    <3>1. PICK c \in AllScopes : IsNested(c) /\ ParentOf[c] = s /\ ParentOf[x] \in Within[c]
      BY <1>1, <1>2, <2>3
    <3>2. x \in Within[c]
      BY <2>1, <3>1, WithinFacts
    <3> QED
      BY <1>1, <2>1, <3>1, <3>2
  <2> QED
    BY <2>2, <2>3
<1>3. t \in S
  BY <1>1, <1>2, WithinSmallest DEF Closed
<1> QED
  BY <1>1, <1>3

-----------------------------------------------------------------------------
(***************************************************************************)
(* What a walk over the scopes within has passed.                          *)
(***************************************************************************)
Stopping(f) == IF f.kind = "stop" THEN {f.scope} ELSE {}

TopPassed(f, sc, stopping) ==
  f.kind = "stop" /\ f.phase = "scopes" =>
    \A k \in 1 .. f.i - 1 :
      ~sc[sc[f.scope].scopes[k]].active \/ sc[f.scope].scopes[k] \in stopping

LEMMA StopAboveOver ==
  ASSUME NEW s, IsASeq(s), NEW f, NEW t, t = <<f>> \o s, NEW n \in 1 .. Len(s), NEW x
  PROVE  StopAbove(t, n + 1, x) <=> x \in Stopping(f) \/ StopAbove(s, n, x)
<1>1. /\ Len(s) \in Nat /\ t[1] = f
      /\ \A i \in 1 .. Len(s) : t[i + 1] = s[i]
  BY PushFacts, ZenonT(60)
<1>2. (n + 1) - 1 = n /\ n \in Int
  BY <1>1
<1>3. ASSUME NEW m \in 1 .. n PROVE m = 1 \/ (m - 1 \in 1 .. n - 1 /\ t[m] = s[m - 1])
  <2>1. m = 1 \/ (m - 1 \in 1 .. n - 1 /\ m - 1 \in 1 .. Len(s) /\ (m - 1) + 1 = m)
    BY <1>1
  <2> QED
    BY <1>1, <2>1
<1>4. ASSUME NEW m \in 1 .. n - 1 PROVE m + 1 \in 1 .. n /\ t[m + 1] = s[m]
  <2>1. m + 1 \in 1 .. n /\ m \in 1 .. Len(s)
    BY <1>1
  <2> QED
    BY <1>1, <2>1
<1>5. 1 \in 1 .. n
  BY <1>1
<1>6. StopAbove(t, n + 1, x) <=> \E m \in 1 .. n : t[m].kind = "stop" /\ t[m].scope = x
  BY <1>2 DEF StopAbove
<1>7. x \in Stopping(f) <=> f.kind = "stop" /\ f.scope = x
  BY DEF Stopping
<1> QED
  BY <1>1, <1>3, <1>4, <1>5, <1>6, <1>7, ZenonT(60) DEF StopAbove

LEMMA PassedOver ==
  ASSUME NEW s, IsASeq(s), NEW f, NEW t, t = <<f>> \o s, NEW sc, NEW stopping
  PROVE  HasPassed(t, sc, stopping) <=>
           (TopPassed(f, sc, stopping) /\ HasPassed(s, sc, stopping \union Stopping(f)))
<1>1. /\ Len(s) \in Nat /\ t[1] = f /\ DOMAIN s = 1 .. Len(s) /\ DOMAIN t = 1 .. Len(s) + 1
      /\ \A i \in 1 .. Len(s) : t[i + 1] = s[i]
  BY PushFacts, SMTT(30)
<1>2. \A x : ~StopAbove(t, 1, x)
  <2>1. 1 .. 1 - 1 = {}
    OBVIOUS
  <2> QED
    BY <2>1 DEF StopAbove
<1>3. ASSUME NEW n \in 1 .. Len(s) + 1 PROVE n = 1 \/ (n - 1 \in 1 .. Len(s) /\ (n - 1) + 1 = n)
  BY <1>1
<1>4. ASSUME HasPassed(t, sc, stopping)
      PROVE  TopPassed(f, sc, stopping) /\ HasPassed(s, sc, stopping \union Stopping(f))
  <2>1. TopPassed(f, sc, stopping)
    <3>1. 1 \in DOMAIN t
      BY <1>1
    <3> QED
      BY <1>1, <1>2, <1>4, <3>1, SMTT(30) DEF HasPassed, TopPassed
  <2>2. ASSUME NEW n \in 1 .. Len(s), s[n].kind = "stop" /\ s[n].phase = "scopes",
               NEW k \in 1 .. s[n].i - 1, NEW x, x = sc[s[n].scope].scopes[k]
        PROVE  ~sc[x].active \/ x \in stopping \/ x \in Stopping(f) \/ StopAbove(s, n, x)
    <3>1. n + 1 \in DOMAIN t /\ t[n + 1] = s[n]
      BY <1>1
    <3>2. ~sc[x].active \/ x \in stopping \/ StopAbove(t, n + 1, x)
      BY <1>4, <2>2, <3>1 DEF HasPassed
    <3> QED
      BY <3>2, StopAboveOver
  <2>3. HasPassed(s, sc, stopping \union Stopping(f))
    BY <1>1, <2>2 DEF HasPassed
  <2> QED
    BY <2>1, <2>3
<1>5. ASSUME TopPassed(f, sc, stopping), HasPassed(s, sc, stopping \union Stopping(f))
      PROVE  HasPassed(t, sc, stopping)
  <2>1. ASSUME NEW n \in 1 .. Len(s) + 1, t[n].kind = "stop" /\ t[n].phase = "scopes",
               NEW k \in 1 .. t[n].i - 1, NEW x, x = sc[t[n].scope].scopes[k]
        PROVE  ~sc[x].active \/ x \in stopping \/ StopAbove(t, n, x)
    <3>1. CASE n = 1
      BY <1>1, <1>5, <2>1, <3>1 DEF TopPassed
    <3>2. CASE n # 1
      <4>1. PICK m \in 1 .. Len(s) : m = n - 1 /\ n = m + 1
        BY <1>3, <3>2
      <4>2. t[n] = s[m]
        BY <1>1, <4>1
      <4>0. /\ m \in DOMAIN s /\ s[m].kind = "stop" /\ s[m].phase = "scopes" /\ k \in 1 .. s[m].i - 1
            /\ x = sc[s[m].scope].scopes[k]
        BY <1>1, <2>1, <4>2
      <4>3. ~sc[x].active \/ x \in stopping \/ x \in Stopping(f) \/ StopAbove(s, m, x)
        BY <1>5, <4>0 DEF HasPassed
      <4> QED
        BY <4>1, <4>3, StopAboveOver
    <3> QED
      BY <3>1, <3>2
  <2> QED
    BY <1>1, <2>1 DEF HasPassed
<1> QED
  BY <1>4, <1>5

\* More scopes are being stopped, or have stopped.
LEMMA PassedMore ==
  ASSUME NEW s, NEW sc, NEW stopping, HasPassed(s, sc, stopping), NEW more, NEW sd,
         \A x \in stopping : x \in more \/ ~sd[x].active,
         \A x : ~sc[x].active => ~sd[x].active,
         \A n \in DOMAIN s : s[n].kind = "stop" /\ s[n].phase = "scopes" =>
           \A k \in 1 .. s[n].i - 1 : sd[s[n].scope].scopes[k] = sc[s[n].scope].scopes[k]
  PROVE  HasPassed(s, sd, more)
BY DEF HasPassed

-----------------------------------------------------------------------------
(***************************************************************************)
(* Steps that leave the scopes and what is being stopped alone.            *)
(***************************************************************************)
Quiet(f) == f.kind \notin {"stop", "setup", "destroy"}

LEMMA QuietPassed ==
  ASSUME NEW s, IsASeq(s), NEW f, f.kind # "stop", NEW t, t = <<f>> \o s, NEW sc
  PROVE  HasPassed(t, sc, {}) <=> HasPassed(s, sc, {})
<1>1. TopPassed(f, sc, {}) /\ {} \union Stopping(f) = {}
  BY DEF TopPassed, Stopping
<1>2. HasPassed(t, sc, {}) <=> (TopPassed(f, sc, {}) /\ HasPassed(s, sc, {} \union Stopping(f)))
  BY PassedOver
<1> QED
  BY <1>1, <1>2

\* The stop frames and what is above what stay as they are.
LEMMA ScopesKeep ==
  ASSUME ScopesInv, UNCHANGED <<scope, owned>>, active' \subseteq active,
         \A f \in Frames' : f \in Frames \/ Quiet(f),
         \A f, g : Above(f, g)' => Above(f, g) \/ Quiet(f) \/ Quiet(g),
         \A f, g : f \in Frames /\ f.kind = "destroy" /\ g \in Frames' /\ g.kind = "stop" =>
           f \in Frames' \/ Above(f, g),
         WalksInv'
  PROVE  ScopesInv'
<1>1. TreeInv' /\ MakingInv'
  <2>1. TreeInv'
    BY DEF ScopesInv, TreeInv, IsListed
  <2>2. MakingInv'
    BY DEF ScopesInv, MakingInv, IsListed, Quiet
  <2> QED
    BY <2>1, <2>2
<1>2. StopsInv'
  <2>1. ASSUME NEW f \in Frames', f.kind = "stop"
        PROVE  /\ \A w \in active' : Records(f.scope, w)' => w \in ToSet(f.todo)
               /\ f.phase # "effects" => f.todo = <<>>
               /\ f.phase # "scopes" => f.i = 1
               /\ f.phase = "scopes" => f.length = Len(scope'[f.scope].scopes) /\ f.i \in 1 .. f.length + 1
               /\ IsNested(f.scope) /\ ~f.up => IsListed(f.scope)'
               /\ f.scope = Own => HasKind("destroy")'
    <3>1. f \in Frames
      BY <2>1 DEF Quiet
    <3>2. f.scope = Own => HasKind("destroy")'
      BY <2>1, <3>1 DEF ScopesInv, StopsInv, HasKind
    <3> QED
      BY <2>1, <3>1, <3>2 DEF ScopesInv, StopsInv, Records, IsListed
  <2>2. ASSUME NEW f \in Frames', NEW g \in Frames', Above(f, g)' /\ f.kind = "stop" /\ g.kind = "stop" /\ ~f.up
        PROVE  /\ ~g.up => f.scope # g.scope
               /\ IsNested(f.scope) /\ g.phase = "scopes" => g.scope # ParentOf[f.scope]
    BY <2>2 DEF ScopesInv, StopsInv, Quiet
  <2>3. ASSUME NEW f \in Frames', NEW g \in Frames', Above(f, g)' /\ f.kind = "destroy" /\ g.kind = "stop"
        PROVE  g.scope # Own
    BY <2>3 DEF ScopesInv, StopsInv, Quiet
  <2> QED
    BY <2>1, <2>2, <2>3 DEF StopsInv
<1>3. ScopeStopsAll'
  BY DEF ScopesInv, ScopeStopsAll, AllScopes
<1> QED
  BY <1>1, <1>2, <1>3 DEF ScopesInv

LEMMA ScopesStay ==
  ASSUME StackInv, ScopesInv, UNCHANGED <<scope, owned, stack>>, active' \subseteq active
  PROVE  ScopesInv'
<1>1. /\ WalksInv' /\ Frames' = Frames
      /\ \A f, g : (Above(f, g)' <=> Above(f, g)) /\ (Above(f, g) => g \in Frames)
  BY SetFacts DEF ScopesInv, WalksInv, Frames, Above, StackInv, InOrder
<1> QED
  BY <1>1, ScopesKeep

LEMMA ScopesPop ==
  ASSUME StackInv, ScopesInv, UNCHANGED <<scope, owned>>, active' \subseteq active,
         stack # <<>>, Top.kind # "stop", stack' = Callers
  PROVE  ScopesInv'
<1>1. /\ Frames = {Top} \union Frames'
      /\ \A x, y : Above(x, y) <=> (x = Top /\ y \in Frames') \/ Above(x, y)'
  BY Peeled DEF Frames, Above
<1>2. WalksInv'
  BY Peeled, QuietPassed DEF ScopesInv, WalksInv
<1>3. \A x, y : Above(x, y)' => y \in Frames'
  BY Peeled, SetFacts DEF Frames, Above
<1> QED
  BY <1>1, <1>2, <1>3, ScopesKeep

LEMMA ScopesSwap ==
  ASSUME StackInv, ScopesInv, UNCHANGED <<scope, owned>>, active' \subseteq active,
         stack # <<>>, Top.kind # "stop", NEW f, Quiet(f), stack' = <<f>> \o Callers
  PROVE  ScopesInv'
<1>0. PICK c : c = Callers
  OBVIOUS
<1>1. /\ Frames = {Top} \union ToSet(c) /\ IsASeq(c)
      /\ \A x, y : Above(x, y) <=> (x = Top /\ y \in ToSet(c)) \/ Precedes(c, x, y)
  BY <1>0, Peeled DEF Frames, Above
<1>2. /\ Frames' = {f} \union ToSet(c)
      /\ \A x, y : Above(x, y)' <=> (x = f /\ y \in ToSet(c)) \/ Precedes(c, x, y)
  BY <1>0, <1>1, Stacked DEF Frames, Above
<1>3. WalksInv'
  BY <1>0, <1>1, Peeled, QuietPassed DEF ScopesInv, WalksInv, Quiet
<1>4. \A x, y : Precedes(c, x, y) => x \in ToSet(c) /\ y \in ToSet(c)
  BY <1>1, SetFacts
<1> QED
  BY <1>1, <1>2, <1>3, <1>4, ScopesKeep DEF Quiet

LEMMA ScopesPush ==
  ASSUME StackInv, ScopesInv, UNCHANGED <<scope, owned>>, active' \subseteq active,
         NEW f, Quiet(f), stack' = <<f>> \o stack
  PROVE  ScopesInv'
<1>0. PICK c : c = stack
  OBVIOUS
<1>1. Frames = ToSet(c) /\ IsASeq(c) /\ \A x, y : Above(x, y) <=> Precedes(c, x, y)
  BY <1>0 DEF Frames, Above, StackInv, InOrder
<1>2. /\ Frames' = {f} \union ToSet(c)
      /\ \A x, y : Above(x, y)' <=> (x = f /\ y \in ToSet(c)) \/ Precedes(c, x, y)
  BY <1>0, <1>1, Stacked DEF Frames, Above
<1>3. WalksInv'
  BY <1>0, <1>1, QuietPassed DEF ScopesInv, WalksInv, Quiet
<1>4. \A x, y : Precedes(c, x, y) => x \in ToSet(c) /\ y \in ToSet(c)
  BY <1>1, SetFacts
<1> QED
  BY <1>1, <1>2, <1>3, <1>4, ScopesKeep DEF Quiet

LEMMA ScopesSwapPush ==
  ASSUME StackInv, ScopesInv, UNCHANGED <<scope, owned>>, active' \subseteq active,
         stack # <<>>, Top.kind # "stop", NEW f, NEW g, Quiet(f), Quiet(g),
         stack' = <<f>> \o (<<g>> \o Callers)
  PROVE  ScopesInv'
<1>0. PICK c, t : c = Callers /\ t = <<g>> \o c
  OBVIOUS
<1>1. /\ Frames = {Top} \union ToSet(c) /\ IsASeq(c) /\ IsASeq(t)
      /\ \A x, y : Above(x, y) <=> (x = Top /\ y \in ToSet(c)) \/ Precedes(c, x, y)
  BY <1>0, Peeled, Stacked DEF Frames, Above
<1>2. /\ Frames' = {f, g} \union ToSet(c)
      /\ \A x, y : Above(x, y)' <=> (\/ x = f /\ y \in {g} \union ToSet(c)
                                     \/ x = g /\ y \in ToSet(c)
                                     \/ Precedes(c, x, y))
  <2>1. /\ ToSet(t) = {g} \union ToSet(c)
        /\ \A x, y : Precedes(t, x, y) <=> (x = g /\ y \in ToSet(c)) \/ Precedes(c, x, y)
    BY <1>0, <1>1, Stacked
  <2>2. /\ ToSet(stack') = {f} \union ToSet(t)
        /\ \A x, y : Precedes(stack', x, y) <=> (x = f /\ y \in ToSet(t)) \/ Precedes(t, x, y)
    <3>1. PICK u : u = stack'
      OBVIOUS
    <3>2. u = <<f>> \o t
      BY <1>0, <3>1
    <3>3. /\ ToSet(u) = {f} \union ToSet(t)
          /\ \A x, y : Precedes(u, x, y) <=> (x = f /\ y \in ToSet(t)) \/ Precedes(t, x, y)
      BY <1>1, <3>2, Stacked
    <3> QED
      BY <3>1, <3>3
  <2> QED
    BY <2>1, <2>2 DEF Frames, Above
<1>3. WalksInv'
  <2>1. HasPassed(c, scope, {})
    BY <1>0, <1>1, Peeled, QuietPassed DEF ScopesInv, WalksInv
  <2>2. HasPassed(t, scope, {})
    BY <1>0, <1>1, <2>1, QuietPassed DEF Quiet
  <2>3. HasPassed(stack', scope, {})
    BY <1>0, <1>1, <2>2, QuietPassed, ZenonT(60) DEF Quiet
  <2> QED
    BY <2>3 DEF WalksInv
<1>4. \A x, y : Precedes(c, x, y) => x \in ToSet(c) /\ y \in ToSet(c)
  BY <1>1, SetFacts
<1> QED
  BY <1>1, <1>2, <1>3, <1>4, ScopesKeep DEF Quiet

-----------------------------------------------------------------------------
(***************************************************************************)
(* Scopes stop.                                                            *)
(***************************************************************************)
\* What a step does to the frames, as its stack' is built.
LEMMA SwapFrames ==
  ASSUME StackInv, stack # <<>>, NEW f, NEW c, c = Callers, stack' = <<f>> \o c
  PROVE  /\ IsASeq(c) /\ Frames = {Top} \union ToSet(c) /\ Frames' = {f} \union ToSet(c)
         /\ \A x, y : Above(x, y) <=> (x = Top /\ y \in ToSet(c)) \/ Precedes(c, x, y)
         /\ \A x, y : Above(x, y)' <=> (x = f /\ y \in ToSet(c)) \/ Precedes(c, x, y)
         /\ \A x, y : Precedes(c, x, y) => x \in ToSet(c) /\ y \in ToSet(c)
<1>1. /\ Frames = {Top} \union ToSet(c) /\ IsASeq(c)
      /\ \A x, y : Above(x, y) <=> (x = Top /\ y \in ToSet(c)) \/ Precedes(c, x, y)
  BY Peeled DEF Frames, Above
<1>2. /\ Frames' = {f} \union ToSet(c)
      /\ \A x, y : Above(x, y)' <=> (x = f /\ y \in ToSet(c)) \/ Precedes(c, x, y)
  BY <1>1, Stacked DEF Frames, Above
<1>3. \A x, y : Precedes(c, x, y) => x \in ToSet(c) /\ y \in ToSet(c)
  BY <1>1, SetFacts
<1> QED
  BY <1>1, <1>2, <1>3

LEMMA PushFrames ==
  ASSUME StackInv, NEW f, NEW c, c = stack, stack' = <<f>> \o c
  PROVE  /\ IsASeq(c) /\ Frames = ToSet(c) /\ Frames' = {f} \union ToSet(c)
         /\ \A x, y : Above(x, y) <=> Precedes(c, x, y)
         /\ \A x, y : Above(x, y)' <=> (x = f /\ y \in ToSet(c)) \/ Precedes(c, x, y)
         /\ \A x, y : Precedes(c, x, y) => x \in ToSet(c) /\ y \in ToSet(c)
<1>1. Frames = ToSet(c) /\ IsASeq(c) /\ \A x, y : Above(x, y) <=> Precedes(c, x, y)
  BY DEF Frames, Above, StackInv, InOrder
<1>2. /\ Frames' = {f} \union ToSet(c)
      /\ \A x, y : Above(x, y)' <=> (x = f /\ y \in ToSet(c)) \/ Precedes(c, x, y)
  BY <1>1, Stacked DEF Frames, Above
<1>3. \A x, y : Precedes(c, x, y) => x \in ToSet(c) /\ y \in ToSet(c)
  BY <1>1, SetFacts
<1> QED
  BY <1>1, <1>2, <1>3

LEMMA SwapPushFrames ==
  ASSUME StackInv, stack # <<>>, NEW f, NEW g, NEW c, c = Callers, stack' = <<f>> \o (<<g>> \o c)
  PROVE  /\ IsASeq(c) /\ IsASeq(<<g>> \o c)
         /\ Frames = {Top} \union ToSet(c) /\ Frames' = {f, g} \union ToSet(c)
         /\ \A x, y : Above(x, y) <=> (x = Top /\ y \in ToSet(c)) \/ Precedes(c, x, y)
         /\ \A x, y : Above(x, y)' <=> (\/ x = f /\ y \in {g} \union ToSet(c)
                                        \/ x = g /\ y \in ToSet(c)
                                        \/ Precedes(c, x, y))
         /\ \A x, y : Precedes(c, x, y) => x \in ToSet(c) /\ y \in ToSet(c)
<1>0. PICK t : t = <<g>> \o c
  OBVIOUS
<1>1. /\ Frames = {Top} \union ToSet(c) /\ IsASeq(c) /\ IsASeq(t)
      /\ \A x, y : Above(x, y) <=> (x = Top /\ y \in ToSet(c)) \/ Precedes(c, x, y)
  BY <1>0, Peeled, Stacked DEF Frames, Above
<1>2. /\ ToSet(t) = {g} \union ToSet(c)
      /\ \A x, y : Precedes(t, x, y) <=> (x = g /\ y \in ToSet(c)) \/ Precedes(c, x, y)
  BY <1>0, <1>1, Stacked
<1>3. PICK u : u = stack'
  OBVIOUS
<1>4. u = <<f>> \o t
  BY <1>0, <1>3
<1>5. /\ ToSet(u) = {f} \union ToSet(t)
      /\ \A x, y : Precedes(u, x, y) <=> (x = f /\ y \in ToSet(t)) \/ Precedes(t, x, y)
  BY <1>1, <1>4, Stacked
<1>6. \A x, y : Precedes(c, x, y) => x \in ToSet(c) /\ y \in ToSet(c)
  BY <1>1, SetFacts
<1> QED
  BY <1>0, <1>1, <1>2, <1>3, <1>5, <1>6 DEF Frames, Above

\* The frame of a stop() goes on, and user code may be called by it.  keep is
\* what is left of the stack under it, with more on top of it.
StopGoesOn(f, g) ==
  /\ f.kind = "stop" /\ g.kind = "stop" /\ g.scope = f.scope /\ g.up = f.up
  /\ \A w \in active' : Records(f.scope, w) => w \in ToSet(g.todo)
  /\ g.phase # "effects" => g.todo = <<>>
  /\ g.phase # "scopes" => g.i = 1
  /\ g.phase = "scopes" => g.length = Len(scope[g.scope].scopes) /\ g.i \in 1 .. g.length + 1

\* A scope that a walk over the scopes around it stops
StopBegins(f) ==
  /\ f.kind = "stop" /\ f.up /\ f.scope # Own /\ f.phase = "effects" /\ f.i = 1
  /\ \A w \in active : Records(f.scope, w) => w \in ToSet(f.todo)

LEMMA StopsGoOn ==
  ASSUME StackInv, ScopesInv, UNCHANGED <<scope, owned>>, active' \subseteq active,
         stack # <<>>, NEW g, StopGoesOn(Top, g),
         NEW more, \A f \in more : Quiet(f) \/ StopBegins(f), g \notin more,
         Frames' = {g} \union more \union ToSet(Callers),
         \A x, y : Above(x, y)' <=> (\/ x \in more /\ y \in {g} \union ToSet(Callers)
                                     \/ x = g /\ y \in ToSet(Callers)
                                     \/ Precedes(Callers, x, y)),
         HasPassed(stack', scope, {})
  PROVE  ScopesInv'
<1>0. PICK c, f : c = Callers /\ f = Top
  OBVIOUS
<1>1. /\ Frames = {f} \union ToSet(c)
      /\ \A x, y : Above(x, y) <=> (x = f /\ y \in ToSet(c)) \/ Precedes(c, x, y)
      /\ \A x, y : Precedes(c, x, y) => x \in ToSet(c) /\ y \in ToSet(c)
  BY <1>0, Peeled, SetFacts DEF Frames, Above
<1>2. /\ Frames' = {g} \union more \union ToSet(c)
      /\ \A x, y : Above(x, y)' <=> (\/ x \in more /\ y \in {g} \union ToSet(c)
                                     \/ x = g /\ y \in ToSet(c)
                                     \/ Precedes(c, x, y))
      /\ StopGoesOn(f, g)
  BY <1>0
<1>3. TreeInv' /\ MakingInv'
  <2>1. TreeInv'
    BY DEF ScopesInv, TreeInv, IsListed
  <2>2. \A x \in Frames' : x.kind = "setup" => x \in Frames
    BY <1>1, <1>2 DEF Quiet, StopBegins, StopGoesOn
  <2>3. MakingInv'
    BY <2>2 DEF ScopesInv, MakingInv, IsListed
  <2> QED
    BY <2>1, <2>3
<1>4. StopsInv'
  <2>0. HasKind("destroy") => HasKind("destroy")'
    BY <1>1, <1>2 DEF HasKind, StopGoesOn
  <2>1. ASSUME NEW x \in Frames', x.kind = "stop"
        PROVE  /\ \A w \in active' : Records(x.scope, w)' => w \in ToSet(x.todo)
               /\ x.phase # "effects" => x.todo = <<>>
               /\ x.phase # "scopes" => x.i = 1
               /\ x.phase = "scopes" => x.length = Len(scope'[x.scope].scopes) /\ x.i \in 1 .. x.length + 1
               /\ IsNested(x.scope) /\ ~x.up => IsListed(x.scope)'
               /\ x.scope = Own => HasKind("destroy")'
    <3>1. CASE x = g
      <4>1. Records(x.scope, x)' <=> Records(x.scope, x)
        BY DEF Records
      <4>2. /\ IsNested(f.scope) /\ ~f.up => IsListed(f.scope)
            /\ f.scope = Own => HasKind("destroy")
        BY <1>1, <1>2 DEF ScopesInv, StopsInv, StopGoesOn
      <4>3. \A w \in active' : Records(x.scope, w)' => w \in ToSet(x.todo)
        BY <1>2, <3>1 DEF StopGoesOn, Records
      <4>4. IsListed(f.scope)' <=> IsListed(f.scope)
        BY DEF IsListed
      <4> QED
        BY <1>2, <2>0, <3>1, <4>2, <4>3, <4>4 DEF StopGoesOn
    <3>2. CASE x \in more
      <4>1. StopBegins(x) /\ active' \subseteq active
        BY <2>1, <3>2 DEF Quiet
      <4> QED
        BY <4>1 DEF StopBegins, Records
    <3>3. CASE x # g /\ x \notin more
      <4>1. x \in ToSet(c) /\ x \in Frames
        BY <1>1, <1>2, <3>3
      <4>2. /\ \A w \in active : Records(x.scope, w) => w \in ToSet(x.todo)
            /\ x.phase # "effects" => x.todo = <<>>
            /\ x.phase # "scopes" => x.i = 1
            /\ x.phase = "scopes" => x.length = Len(scope[x.scope].scopes) /\ x.i \in 1 .. x.length + 1
            /\ IsNested(x.scope) /\ ~x.up => IsListed(x.scope)
            /\ x.scope = Own => HasKind("destroy")
        BY <2>1, <4>1 DEF ScopesInv, StopsInv
      <4> QED
        BY <2>0, <4>2 DEF Records, IsListed
    <3> QED
      BY <3>1, <3>2, <3>3
  <2>2. ASSUME NEW x \in Frames', NEW y \in Frames', Above(x, y)' /\ x.kind = "stop" /\ y.kind = "stop" /\ ~x.up
        PROVE  /\ ~y.up => x.scope # y.scope
               /\ IsNested(x.scope) /\ y.phase = "scopes" => y.scope # ParentOf[x.scope]
    <3>1. x \notin more
      BY <2>2 DEF Quiet, StopBegins
    <3>2. CASE x = g /\ y \in ToSet(c)
      <4>1. Above(f, y) /\ f \in Frames /\ y \in Frames
        BY <1>1, <3>2
      <4> QED
        BY <1>2, <2>2, <3>2, <4>1 DEF ScopesInv, StopsInv, StopGoesOn
    <3>3. CASE Precedes(c, x, y)
      <4>1. Above(x, y) /\ x \in Frames /\ y \in Frames
        BY <1>1, <3>3
      <4> QED
        BY <2>2, <4>1 DEF ScopesInv, StopsInv
    <3> QED
      BY <1>2, <2>2, <3>1, <3>2, <3>3
  <2>3. ASSUME NEW x \in Frames', NEW y \in Frames', Above(x, y)' /\ x.kind = "destroy" /\ y.kind = "stop"
        PROVE  y.scope # Own
    <3>1. Precedes(c, x, y)
      BY <1>2, <2>3 DEF Quiet, StopGoesOn, StopBegins
    <3> QED
      BY <1>1, <2>3, <3>1 DEF ScopesInv, StopsInv
  <2> QED
    BY <2>1, <2>2, <2>3 DEF StopsInv
<1>5. WalksInv' /\ ScopeStopsAll'
  BY DEF ScopesInv, ScopeStopsAll, AllScopes, WalksInv
<1> QED
  BY <1>3, <1>4, <1>5 DEF ScopesInv

\* A stop frame on top, or another one in its place
LEMMA StopPassed ==
  ASSUME NEW c, IsASeq(c), NEW f, f.kind = "stop", NEW t, t = <<f>> \o c, NEW sc
  PROVE  HasPassed(t, sc, {}) <=> (TopPassed(f, sc, {}) /\ HasPassed(c, sc, {f.scope}))
<1>1. {} \union Stopping(f) = {f.scope}
  BY DEF Stopping
<1>2. HasPassed(t, sc, {}) <=> (TopPassed(f, sc, {}) /\ HasPassed(c, sc, {} \union Stopping(f)))
  BY PassedOver
<1> QED
  BY <1>1, <1>2

LEMMA SwapStop ==
  ASSUME StackInv, ScopesInv, UNCHANGED <<scope, owned>>, active' \subseteq active,
         stack # <<>>, NEW g, StopGoesOn(Top, g), stack' = <<g>> \o Callers,
         TopPassed(Top, scope, {}) => TopPassed(g, scope, {})
  PROVE  ScopesInv'
<1>1. PICK c, f : c = Callers /\ f = Top
  OBVIOUS
<1>2. /\ IsASeq(c) /\ Frames' = {g} \union ToSet(c)
      /\ \A x, y : Above(x, y)' <=> (x = g /\ y \in ToSet(c)) \/ Precedes(c, x, y)
  BY <1>1, SwapFrames
<1>3. PICK more : more = {}
  OBVIOUS
<1>4. HasPassed(stack', scope, {})
  <2>1. TopPassed(f, scope, {}) /\ HasPassed(c, scope, {f.scope})
    BY <1>1, <1>2, Peeled, StopPassed DEF ScopesInv, WalksInv, StopGoesOn
  <2> QED
    BY <1>1, <1>2, <2>1, StopPassed DEF StopGoesOn
<1>5. /\ Frames' = {g} \union more \union ToSet(c)
      /\ \A x, y : Above(x, y)' <=> (\/ x \in more /\ y \in {g} \union ToSet(c)
                                     \/ x = g /\ y \in ToSet(c)
                                     \/ Precedes(c, x, y))
      /\ g \notin more /\ \A x \in more : Quiet(x)
  BY <1>2, <1>3
<1> QED
  BY <1>1, <1>4, <1>5, StopsGoOn

LEMMA SwapStopPush ==
  ASSUME StackInv, ScopesInv, UNCHANGED <<scope, owned>>, active' \subseteq active,
         stack # <<>>, NEW g, StopGoesOn(Top, g), NEW d, Quiet(d), stack' = <<d>> \o (<<g>> \o Callers),
         TopPassed(Top, scope, {}) => TopPassed(g, scope, {})
  PROVE  ScopesInv'
<1>1. PICK c, f, t : c = Callers /\ f = Top /\ t = <<g>> \o c
  OBVIOUS
<1>2. /\ IsASeq(c) /\ IsASeq(t) /\ Frames' = {d, g} \union ToSet(c)
      /\ \A x, y : Above(x, y)' <=> (\/ x = d /\ y \in {g} \union ToSet(c)
                                     \/ x = g /\ y \in ToSet(c)
                                     \/ Precedes(c, x, y))
  BY <1>1, SwapPushFrames, ZenonT(60)
<1>3. PICK more : more = {d}
  OBVIOUS
<1>4. HasPassed(stack', scope, {})
  <2>1. TopPassed(f, scope, {}) /\ HasPassed(c, scope, {f.scope})
    BY <1>1, <1>2, Peeled, StopPassed DEF ScopesInv, WalksInv, StopGoesOn
  <2>2. HasPassed(t, scope, {})
    BY <1>1, <1>2, <2>1, StopPassed DEF StopGoesOn
  <2> QED
    BY <1>1, <1>2, <2>2, QuietPassed, ZenonT(60) DEF Quiet
<1>5. g \notin more
  BY <1>3 DEF StopGoesOn, Quiet
<1> QED
  BY <1>1, <1>2, <1>3, <1>4, <1>5, StopsGoOn

\* The frame on top of the stack in a step of stop()
LEMMA StopsTop ==
  ASSUME BaseInv, ScopesInv, On("stop"), NEW f, f = Top
  PROVE  /\ stack # <<>> /\ f \in StopFrames /\ f.kind = "stop" /\ f \in Frames
         /\ \A w \in active : Records(f.scope, w) => w \in ToSet(f.todo)
         /\ f.phase # "effects" => f.todo = <<>>
         /\ f.phase # "scopes" => f.i = 1
         /\ f.phase = "scopes" => f.length = Len(scope[f.scope].scopes) /\ f.i \in 1 .. f.length + 1
         /\ IsNested(f.scope) /\ ~f.up => IsListed(f.scope)
         /\ scope[f.scope].scopes \in Seq(Scopes)
<1>1. stack # <<>> /\ f \in StopFrames /\ f.kind = "stop"
  BY StopTop
<1>2. f \in Frames
  BY <1>1, TopFacts DEF BaseInv
<1>3. f.scope \in AllScopes
  BY <1>1 DEF StopFrames
<1>4. scope[f.scope].scopes \in Seq(Scopes)
  BY <1>3 DEF ScopesInv, TreeInv, ScopeStates
<1> QED
  BY <1>1, <1>2, <1>4 DEF ScopesInv, StopsInv

LEMMA StopEffectScopes ==
  ASSUME BaseInv, ScopesInv, StopEffect
  PROVE  ScopesInv'
<1>1. PICK f : f = Top
  OBVIOUS
<1>2. On("stop") /\ f.todo # <<>> /\ UNCHANGED scope
  BY <1>1 DEF StopEffect
<1>3. /\ stack # <<>> /\ f \in StopFrames /\ f.kind = "stop"
      /\ \A w \in active : Records(f.scope, w) => w \in ToSet(f.todo)
      /\ f.phase = "effects" /\ f.i = 1
  BY <1>1, <1>2, StopsTop
<1>4. f.todo \in Seq(Watchers)
  BY <1>3 DEF StopFrames
<1>5. PICK w, t : w = Head(f.todo) /\ t = Tail(f.todo)
  OBVIOUS
<1>6. ToSet(f.todo) = {w} \union ToSet(t)
  BY <1>2, <1>4, <1>5, HeadFacts
<1>7. PICK g : g = [f EXCEPT !.todo = t]
  OBVIOUS
<1>8. /\ g.kind = "stop" /\ g.scope = f.scope /\ g.up = f.up /\ g.todo = t /\ g.phase = "effects"
      /\ g.i = 1
  BY <1>3, <1>7 DEF StopFrames
<1>9. CASE w \in active /\ Teardown(w, <<g>> \o Callers)
  <2>1. active' = active \ {w} /\ UNCHANGED owned
    BY <1>9 DEF Teardown
  <2>2. StopGoesOn(f, g) /\ TopPassed(g, scope, {})
    BY <1>3, <1>6, <1>8, <2>1 DEF StopGoesOn, TopPassed
  <2>3. \/ stack' = <<g>> \o Callers
        \/ stack' = <<Cleaning(w, "stop", Initial)>> \o (<<g>> \o Callers)
    BY <1>9 DEF Teardown, TornDown, BeginCleanup
  <2>4. PICK d : d = Cleaning(w, "stop", Initial)
    OBVIOUS
  <2>5. Quiet(d)
    BY <2>4 DEF Quiet, Cleaning
  <2> QED
    BY <1>1, <1>2, <1>3, <2>1, <2>2, <2>3, <2>4, <2>5, SwapStop, SwapStopPush DEF BaseInv
<1>10. CASE w \notin active /\ stack' = <<g>> \o Callers /\ UNCHANGED <<active, owned>>
  <2>1. StopGoesOn(f, g) /\ TopPassed(g, scope, {})
    BY <1>3, <1>6, <1>8, <1>10 DEF StopGoesOn, TopPassed
  <2> QED
    BY <1>1, <1>2, <1>3, <1>10, <2>1, SwapStop DEF BaseInv
<1> QED
  BY <1>1, <1>5, <1>7, <1>9, <1>10 DEF StopEffect

LEMMA BeginDisposeScopes ==
  ASSUME BaseInv, ScopesInv, BeginDispose
  PROVE  ScopesInv'
<1>1. PICK f : f = Top
  OBVIOUS
<1>2. On("stop") /\ f.todo = <<>> /\ f.phase = "effects" /\ UNCHANGED <<scope, owned, active>>
  BY <1>1 DEF BeginDispose, Disposing, state
<1>3. /\ stack # <<>> /\ f \in StopFrames /\ f.kind = "stop"
      /\ \A w \in active : Records(f.scope, w) => w \in ToSet(f.todo)
      /\ f.i = 1
  BY <1>1, <1>2, StopsTop
<1>4. PICK d, g : d = Call("dispose", f.scope) /\ g = [f EXCEPT !.phase = "dispose"]
  OBVIOUS
<1>5. /\ g.kind = "stop" /\ g.scope = f.scope /\ g.up = f.up /\ g.todo = f.todo /\ g.phase = "dispose"
      /\ g.i = 1
  BY <1>3, <1>4 DEF StopFrames
<1>6. StopGoesOn(f, g) /\ TopPassed(g, scope, {}) /\ Quiet(d)
  BY <1>2, <1>3, <1>4, <1>5 DEF StopGoesOn, TopPassed, Quiet, Call
<1>7. stack' = <<d>> \o (<<g>> \o Callers)
  <2>1. stack' = <<d, g>> \o Callers
    BY <1>1, <1>4 DEF BeginDispose
  <2>2. IsASeq(Callers)
    BY <1>3, Peeled DEF BaseInv
  <2> QED
    BY <2>1, <2>2, StackedTwice
<1> QED
  BY <1>1, <1>2, <1>3, <1>6, <1>7, SwapStopPush DEF BaseInv

LEMMA BeginScopesScopes ==
  ASSUME BaseInv, ScopesInv, BeginScopes
  PROVE  ScopesInv'
<1>1. PICK f : f = Top
  OBVIOUS
<1>2. On("stop") /\ f.todo = <<>> /\ f.phase # "scopes" /\ UNCHANGED <<scope, owned, active>>
  BY <1>1 DEF BeginScopes, state
<1>3. /\ stack # <<>> /\ f \in StopFrames /\ f.kind = "stop"
      /\ \A w \in active : Records(f.scope, w) => w \in ToSet(f.todo)
      /\ f.i = 1 /\ scope[f.scope].scopes \in Seq(Scopes)
  BY <1>1, <1>2, StopsTop
<1>4. PICK n : n = Len(scope[f.scope].scopes)
  OBVIOUS
<1>5. n \in Nat /\ 1 \in 1 .. n + 1 /\ 1 .. 1 - 1 = {}
  BY <1>3, <1>4
<1>6. PICK g : g = [f EXCEPT !.phase = "scopes", !.length = n]
  OBVIOUS
<1>7. /\ g.kind = "stop" /\ g.scope = f.scope /\ g.up = f.up /\ g.todo = f.todo /\ g.phase = "scopes"
      /\ g.i = 1 /\ g.length = n
  BY <1>3, <1>6 DEF StopFrames
<1>8. StopGoesOn(f, g)
  BY <1>2, <1>3, <1>4, <1>5, <1>7 DEF StopGoesOn
<1>9. TopPassed(g, scope, {})
  BY <1>5, <1>7 DEF TopPassed
<1>10. stack' = <<g>> \o Callers
  BY <1>1, <1>4, <1>6 DEF BeginScopes
<1> QED
  BY <1>1, <1>2, <1>3, <1>8, <1>9, <1>10, SwapStop DEF BaseInv

LEMMA StopScopesScopes ==
  ASSUME BaseInv, ScopesInv, StopScopes
  PROVE  ScopesInv'
<1>1. PICK f, c : f = Top /\ c = Callers
  OBVIOUS
<1>2. /\ On("stop") /\ f.phase = "scopes" /\ f.i <= f.length
      /\ UNCHANGED <<scope, owned, active, created>>
  BY <1>1 DEF StopScopes, state
<1>3. /\ stack # <<>> /\ f \in StopFrames /\ f.kind = "stop"
      /\ \A w \in active : Records(f.scope, w) => w \in ToSet(f.todo)
      /\ f.todo = <<>>
      /\ f.length = Len(scope[f.scope].scopes) /\ f.i \in 1 .. f.length + 1
      /\ scope[f.scope].scopes \in Seq(Scopes)
  BY <1>1, <1>2, StopsTop
<1>4. f.i \in Nat /\ f.length \in Nat /\ f.i \in 1 .. Len(scope[f.scope].scopes)
  BY <1>2, <1>3 DEF StopFrames
<1>5. PICK child, n, g : child = scope[f.scope].scopes[f.i] /\ n = f.i + 1 /\ g = [f EXCEPT !.i = n]
  OBVIOUS
<1>6. child \in Scopes
  BY <1>3, <1>4, <1>5
<1>7. n \in 1 .. f.length + 1 /\ 1 .. n - 1 = (1 .. f.i - 1) \union {f.i}
  <2>1. n \in 1 .. f.length + 1
    BY <1>2, <1>4, <1>5
  <2>2. ASSUME NEW k PROVE k \in 1 .. n - 1 <=> k \in (1 .. f.i - 1) \union {f.i}
    BY <1>4, <1>5
  <2> QED
    BY <2>1, <2>2
<1>8. /\ g.kind = "stop" /\ g.scope = f.scope /\ g.up = f.up /\ g.todo = f.todo /\ g.phase = "scopes"
      /\ g.i = n /\ g.length = f.length
  BY <1>2, <1>3, <1>5 DEF StopFrames
<1>9. StopGoesOn(f, g)
  BY <1>2, <1>3, <1>7, <1>8 DEF StopGoesOn
<1>10. CASE ~scope[child].active /\ stack' = <<g>> \o Callers
  <2>1. TopPassed(f, scope, {}) => TopPassed(g, scope, {})
    BY <1>2, <1>3, <1>5, <1>7, <1>8, <1>10 DEF TopPassed
  <2> QED
    BY <1>1, <1>2, <1>3, <1>9, <1>10, <2>1, SwapStop DEF BaseInv
<1>11. CASE stack' = <<StopFrame(child, EffectsOf(child), TRUE)>> \o (<<g>> \o Callers)
  <2>1. PICK ws : ws = EffectsOf(child)
    OBVIOUS
  <2>2. PICK d : d = StopFrame(child, ws, TRUE)
    OBVIOUS
  <2>3. /\ d.kind = "stop" /\ d.up /\ d.scope = child /\ d.todo = ws /\ d.phase = "effects"
        /\ d.i = 1
    BY <2>2 DEF StopFrame
  <2>4. child # Own /\ \A w \in active : Records(child, w) => w \in ToSet(ws)
    BY <1>6, <2>1, EffectsFacts, ScopesAssumption DEF BaseInv, TypeInv, Records, ScopesAssumption
  <2>5. StopBegins(d)
    BY <2>3, <2>4 DEF StopBegins
  <2>6. PICK t : t = <<g>> \o c
    OBVIOUS
  <2>7. /\ IsASeq(c) /\ IsASeq(t) /\ Frames' = {d, g} \union ToSet(c)
        /\ \A x, y : Above(x, y)' <=> (\/ x = d /\ y \in {g} \union ToSet(c)
                                       \/ x = g /\ y \in ToSet(c)
                                       \/ Precedes(c, x, y))
    <3>1. stack' = <<d>> \o (<<g>> \o c) /\ StackInv
      BY <1>1, <1>11, <2>1, <2>2 DEF BaseInv
    <3> QED
      BY <1>1, <1>3, <2>6, <3>1, SwapPushFrames, ZenonT(60)
  <2>8. d # g
    BY <1>8, <2>3
  <2>9. HasPassed(stack', scope, {})
    <3>1. TopPassed(f, scope, {}) /\ HasPassed(c, scope, {f.scope})
      BY <1>1, <1>3, <2>7, Peeled, StopPassed DEF BaseInv, ScopesInv, WalksInv
    <3>2. PICK S : S = {} \union Stopping(d)
      OBVIOUS
    <3>3. S = {child} /\ Stopping(g) = {f.scope}
      BY <1>8, <2>3, <3>2 DEF Stopping
    <3>4. TopPassed(g, scope, S)
      <4>1. ASSUME NEW k \in 1 .. n - 1
            PROVE  ~scope[scope[f.scope].scopes[k]].active \/ scope[f.scope].scopes[k] \in S
        <5>1. CASE k = f.i
          BY <1>5, <3>3, <5>1
        <5>2. CASE k \in 1 .. f.i - 1
          BY <1>2, <1>3, <3>1, <5>2 DEF TopPassed
        <5> QED
          BY <1>7, <5>1, <5>2
      <4> QED
        BY <1>8, <4>1 DEF TopPassed
    <3>5. PICK R : R = S \union Stopping(g)
      OBVIOUS
    <3>6. HasPassed(c, scope, R)
      <4>1. {f.scope} \subseteq R
        BY <3>3, <3>5
      <4> QED
        BY <3>1, <4>1, PassedMore
    <3>7. HasPassed(t, scope, S)
      BY <2>6, <2>7, <3>4, <3>5, <3>6, PassedOver
    <3>8. TopPassed(d, scope, {})
      BY <2>3 DEF TopPassed
    <3>9. stack' = <<d>> \o t
      BY <1>1, <1>11, <2>1, <2>2, <2>6
    <3> QED
      BY <2>7, <3>2, <3>7, <3>8, <3>9, PassedOver
  <2>10. PICK more : more = {d}
    OBVIOUS
  <2>11. /\ Frames' = {g} \union more \union ToSet(c)
         /\ \A x, y : Above(x, y)' <=> (\/ x \in more /\ y \in {g} \union ToSet(c)
                                        \/ x = g /\ y \in ToSet(c)
                                        \/ Precedes(c, x, y))
         /\ g \notin more /\ \A x \in more : Quiet(x) \/ StopBegins(x)
    BY <2>5, <2>7, <2>8, <2>10
  <2> QED
    BY <1>1, <1>2, <1>3, <1>9, <2>9, <2>11, StopsGoOn DEF BaseInv
<1> QED
  BY <1>1, <1>5, <1>10, <1>11 DEF StopScopes

Replaced(s, i, x) == [s EXCEPT ![i] = x]

LEMMA ReplacedType ==
  ASSUME NEW s \in Seq(Scopes), NEW i \in 1 .. Len(s), NEW x \in Scopes
  PROVE  Replaced(s, i, x) \in Seq(Scopes)
BY DEF Replaced

LEMMA ReplacedLength ==
  ASSUME NEW s \in Seq(Scopes), NEW i, NEW x
  PROVE  Len(Replaced(s, i, x)) = Len(s)
BY DEF Replaced

WithoutPlace(L, i) ==
  IF L[Len(L)] = L[i] THEN Front(L) ELSE Replaced(Front(L), i, L[Len(L)])

\* R is L without its i-th scope, the last one in its place.
IsWithout(R, L, i) ==
  /\ R \in Seq(Scopes) /\ Len(R) = Len(L) - 1
  /\ \A k \in 1 .. Len(R) : k \in 1 .. Len(L) /\ R[k] = IF k = i THEN L[Len(L)] ELSE L[k]
  /\ i # Len(L) => L[Len(L)] # L[i] /\ i \in 1 .. Len(R)

LEMMA RemovedFrom ==
  ASSUME NEW L \in Seq(Scopes), NEW i, i \in 1 .. Len(L), NEW R, R = WithoutPlace(L, i),
         \A k \in 1 .. Len(L) : L[k] = L[i] => k = i
  PROVE  IsWithout(R, L, i)
<1>1. Len(L) \in Nat /\ Len(L) # 0 /\ Len(L) \in 1 .. Len(L)
  OBVIOUS
<1>2. PICK F : F = Front(L)
  OBVIOUS
<1>3. F \in Seq(Scopes) /\ Len(F) = Len(L) - 1 /\ \A k \in 1 .. Len(L) - 1 : F[k] = L[k]
  <2>1. PICK n : n = Len(L) - 1
    OBVIOUS
  <2>2. n \in Nat /\ \A k \in 1 .. n : k \in 1 .. Len(L)
    BY <1>1, <2>1
  <2>3. F = SubSeq(L, 1, n)
    BY <1>2, <2>1 DEF Front
  <2>4. F = [k \in 1 .. n |-> L[k]]
    BY <2>2, <2>3
  <2>5. \A k \in 1 .. n : L[k] \in Scopes
    BY <2>2
  <2>6. F \in Seq(Scopes) /\ Len(F) = n
    BY <2>2, <2>4, <2>5
  <2> QED
    BY <2>1, <2>4, <2>6
<1>4. CASE i = Len(L)
  <2>1. R = F
    BY <1>2, <1>4 DEF WithoutPlace
  <2>2. \A k \in 1 .. Len(L) - 1 : k # Len(L) /\ k \in 1 .. Len(L)
    BY <1>1
  <2> QED
    BY <1>3, <1>4, <2>1, <2>2 DEF IsWithout
<1>5. CASE i # Len(L)
  <2>1. L[Len(L)] # L[i] /\ i \in 1 .. Len(L) - 1
    BY <1>1, <1>5
  <2>2. R = Replaced(F, i, L[Len(L)])
    BY <1>2, <2>1 DEF WithoutPlace
  <2>3. L[Len(L)] \in Scopes
    BY <1>1
  <2>4. PICK x : x = L[Len(L)]
    OBVIOUS
  <2>5. R \in Seq(Scopes) /\ Len(R) = Len(F) /\ \A k \in 1 .. Len(F) : R[k] = IF k = i THEN x ELSE F[k]
    <3>1. i \in 1 .. Len(F) /\ x \in Scopes /\ R = Replaced(F, i, x)
      BY <1>3, <2>1, <2>2, <2>3, <2>4
    <3>2. R \in Seq(Scopes)
      BY <1>3, <3>1, ReplacedType
    <3>3. Len(R) = Len(F)
      BY <1>3, <3>1, ReplacedLength, SMTT(30)
    <3>4. \A k \in 1 .. Len(F) : R[k] = IF k = i THEN x ELSE F[k]
      <4>1. F \in Seq(Scopes)
        BY <1>3
      <4> QED
        BY <3>1, <4>1 DEF Replaced
    <3> QED
      BY <3>2, <3>3, <3>4
  <2>6. \A k \in 1 .. Len(L) - 1 : k \in 1 .. Len(L)
    BY <1>1
  <2> QED
    BY <1>3, <2>1, <2>4, <2>5, <2>6 DEF IsWithout
<1> QED
  BY <1>4, <1>5

Deactivated(sc, s) == [sc EXCEPT ![s].active = FALSE]

LEMMA ActiveExcept ==
  ASSUME NEW sc \in ScopeStates, NEW s \in AllScopes, NEW q \in AllScopes
  PROVE  /\ Deactivated(sc, s)[q].active <=> (q # s /\ sc[q].active)
         /\ Deactivated(sc, s)[q].scopes = sc[q].scopes
         /\ Deactivated(sc, s)[q].parent = sc[q].parent
         /\ Deactivated(sc, s)[q].index = sc[q].index
BY DEF Deactivated, ScopeStates

LEMMA ActiveExceptType ==
  ASSUME NEW sc \in ScopeStates, NEW s \in AllScopes
  PROVE  Deactivated(sc, s) \in ScopeStates
<1>1. PICK r : r = [sc[s] EXCEPT !.active = FALSE]
  OBVIOUS
<1>2. sc[s] \in [active : BOOLEAN, scopes : Seq(Scopes), parent : AllScopes, index : Nat]
  BY DEF ScopeStates
<1>3. r \in [active : BOOLEAN, scopes : Seq(Scopes), parent : AllScopes, index : Nat]
  BY <1>1, <1>2
<1>4. Deactivated(sc, s) = [sc EXCEPT ![s] = r]
  BY <1>1 DEF Deactivated
<1> QED
  BY <1>3, <1>4 DEF ScopeStates

WithScopes(sc, s, R) == [sc EXCEPT ![s].scopes = R]

LEMMA ScopesExcept ==
  ASSUME NEW sc \in ScopeStates, NEW s \in AllScopes, NEW R, NEW q \in AllScopes
  PROVE  /\ WithScopes(sc, s, R)[q].scopes = IF q = s THEN R ELSE sc[q].scopes
         /\ WithScopes(sc, s, R)[q].active = sc[q].active
         /\ WithScopes(sc, s, R)[q].parent = sc[q].parent
         /\ WithScopes(sc, s, R)[q].index = sc[q].index
BY DEF WithScopes, ScopeStates

LEMMA ScopesExceptType ==
  ASSUME NEW sc \in ScopeStates, NEW s \in AllScopes, NEW R \in Seq(Scopes)
  PROVE  WithScopes(sc, s, R) \in ScopeStates
<1>1. PICK r : r = [sc[s] EXCEPT !.scopes = R]
  OBVIOUS
<1>2. sc[s] \in [active : BOOLEAN, scopes : Seq(Scopes), parent : AllScopes, index : Nat]
  BY DEF ScopeStates
<1>3. r \in [active : BOOLEAN, scopes : Seq(Scopes), parent : AllScopes, index : Nat]
  BY <1>1, <1>2
<1>4. WithScopes(sc, s, R) = [sc EXCEPT ![s] = r]
  BY <1>1 DEF WithScopes
<1> QED
  BY <1>3, <1>4 DEF ScopeStates

WithIndex(sc, s, i) == [sc EXCEPT ![s].index = i]

LEMMA IndexExcept ==
  ASSUME NEW sc \in ScopeStates, NEW s \in AllScopes, NEW i, NEW q \in AllScopes
  PROVE  /\ WithIndex(sc, s, i)[q].index = IF q = s THEN i ELSE sc[q].index
         /\ WithIndex(sc, s, i)[q].active = sc[q].active
         /\ WithIndex(sc, s, i)[q].parent = sc[q].parent
         /\ WithIndex(sc, s, i)[q].scopes = sc[q].scopes
BY DEF WithIndex, ScopeStates

LEMMA IndexExceptType ==
  ASSUME NEW sc \in ScopeStates, NEW s \in AllScopes, NEW i \in Nat
  PROVE  WithIndex(sc, s, i) \in ScopeStates
<1>1. PICK r : r = [sc[s] EXCEPT !.index = i]
  OBVIOUS
<1>2. sc[s] \in [active : BOOLEAN, scopes : Seq(Scopes), parent : AllScopes, index : Nat]
  BY DEF ScopeStates
<1>3. r \in [active : BOOLEAN, scopes : Seq(Scopes), parent : AllScopes, index : Nat]
  BY <1>1, <1>2
<1>4. WithIndex(sc, s, i) = [sc EXCEPT ![s] = r]
  BY <1>1 DEF WithIndex
<1> QED
  BY <1>3, <1>4 DEF ScopeStates

\* sd is sc, but s is inactive, the scopes of p are R, and n is the index of m
IsChanged(sd, sc, s, p, R, m, n) ==
  /\ sd \in ScopeStates
  /\ \A q \in AllScopes : /\ sd[q].active <=> (q # s /\ sc[q].active)
                          /\ sd[q].scopes = IF q = p THEN R ELSE sc[q].scopes
                          /\ sd[q].parent = sc[q].parent
                          /\ sd[q].index  = IF q = m THEN n ELSE sc[q].index

LEMMA ScopeLeaves ==
  ASSUME NEW sc \in ScopeStates, NEW s \in AllScopes, NEW p \in AllScopes, NEW R \in Seq(Scopes),
         NEW m \in AllScopes, NEW i \in Nat, NEW h, NEW sd, sd = Deactivated(h, s),
         h = IF m = s THEN WithScopes(sc, p, R) ELSE WithIndex(WithScopes(sc, p, R), m, i)
  PROVE  IsChanged(sd, sc, s, p, R, m, IF m = s THEN sc[s].index ELSE i)
<1>1. PICK g : g = WithScopes(sc, p, R)
  OBVIOUS
<1>2. g \in ScopeStates
  BY <1>1, ScopesExceptType
<1>3. \A q \in AllScopes : /\ g[q].scopes = IF q = p THEN R ELSE sc[q].scopes
                          /\ g[q].active = sc[q].active
                          /\ g[q].parent = sc[q].parent /\ g[q].index = sc[q].index
  BY <1>1, ScopesExcept
<1>4. CASE m = s
  <2>1. h = g
    BY <1>1, <1>4
  <2>2. sd \in ScopeStates
    BY <1>2, <2>1, ActiveExceptType
  <2>3. \A q \in AllScopes : /\ sd[q].active <=> (q # s /\ g[q].active)
                            /\ sd[q].scopes = g[q].scopes
                            /\ sd[q].parent = g[q].parent /\ sd[q].index = g[q].index
    BY <1>2, <2>1, ActiveExcept
  <2> QED
    BY <1>3, <1>4, <2>2, <2>3 DEF IsChanged
<1>5. CASE m # s
  <2>1. h = WithIndex(g, m, i)
    BY <1>1, <1>5
  <2>2. h \in ScopeStates
    BY <1>2, <2>1, IndexExceptType
  <2>3. \A q \in AllScopes : /\ h[q].index = IF q = m THEN i ELSE g[q].index
                            /\ h[q].active = g[q].active
                            /\ h[q].parent = g[q].parent /\ h[q].scopes = g[q].scopes
    BY <1>2, <2>1, IndexExcept
  <2>4. sd \in ScopeStates
    BY <2>2, ActiveExceptType
  <2>5. \A q \in AllScopes : /\ sd[q].active <=> (q # s /\ h[q].active)
                            /\ sd[q].scopes = h[q].scopes
                            /\ sd[q].parent = h[q].parent /\ sd[q].index = h[q].index
    BY <2>2, ActiveExcept
  <2> QED
    BY <1>3, <1>5, <2>3, <2>4, <2>5 DEF IsChanged
<1> QED
  BY <1>4, <1>5

\* What the end of a stop() does to the scopes
LEMMA StoppedKeeps ==
  ASSUME TreeInv, NEW s \in AllScopes, NEW up \in BOOLEAN, ~(IsNested(s) /\ ~up),
         NEW sd, sd = Stopped(scope, s, up)
  PROVE  /\ sd \in ScopeStates
         /\ \A q \in AllScopes :
              /\ sd[q].active <=> (q # s /\ scope[q].active)
              /\ sd[q].scopes = scope[q].scopes
              /\ sd[q].parent = scope[q].parent
              /\ sd[q].index = scope[q].index
<1>1. sd = Deactivated(scope, s)
  BY DEF Stopped, Deactivated
<1>2. scope \in ScopeStates
  BY DEF TreeInv
<1>3. sd \in ScopeStates
  BY <1>1, <1>2, ActiveExceptType
<1> QED
  BY <1>1, <1>2, <1>3, ActiveExcept

\* sd is scope after s has left L, the list of p.
HasLeft(sd, s, p, L, R, i) ==
  /\ p = ParentOf[s] /\ L = scope[p].scopes /\ i \in 1 .. Len(L) /\ L[i] = s
  /\ IsWithout(R, L, i)
  /\ IsChanged(sd, scope, s, p, R, L[Len(L)], i)

LEMMA StoppedRemoves ==
  ASSUME TreeInv, NEW s \in AllScopes, IsNested(s), IsListed(s),
         NEW sd, sd = Stopped(scope, s, FALSE)
  PROVE  \E p \in AllScopes, L \in Seq(Scopes) : \E R, i : HasLeft(sd, s, p, L, R, i)
<1>1. PICK p, L : p = ParentOf[s] /\ L = scope[p].scopes
  OBVIOUS
<1>2. p \in AllScopes /\ L \in Seq(Scopes) /\ DOMAIN L = 1 .. Len(L)
  <2>1. p \in AllScopes
    BY <1>1, ScopesAssumption DEF ScopesAssumption, AllScopes, IsNested
  <2>2. L \in Seq(Scopes)
    BY <1>1, <2>1 DEF TreeInv, ScopeStates
  <2> QED
    BY <2>1, <2>2
<1>3. PICK i : i \in 1 .. Len(L) /\ L[i] = s
  BY <1>1, <1>2 DEF IsListed
<1>4. scope[s].parent = p /\ scope[s].index = i
  BY <1>1, <1>2, <1>3 DEF TreeInv
<1>5. \A k \in 1 .. Len(L) : scope[L[k]].index = k
  BY <1>1, <1>2 DEF TreeInv
<1>6. \A k \in 1 .. Len(L) : L[k] = L[i] => k = i
  BY <1>3, <1>4, <1>5
<1>7. PICK m, R, h : m = L[Len(L)] /\ R = WithoutPlace(L, i) /\ h = Removed(scope, s)
  OBVIOUS
<1>8. IsWithout(R, L, i)
  BY <1>2, <1>3, <1>6, <1>7, RemovedFrom
<1>9. i = Len(L) <=> m = s
  BY <1>3, <1>7, <1>8 DEF IsWithout
<1>10. Last(L) = m
  BY <1>7 DEF Last
<1>11. h = IF m = s THEN WithScopes(scope, p, R) ELSE WithIndex(WithScopes(scope, p, R), m, i)
  <2>1. CASE m = s
    BY <1>1, <1>3, <1>4, <1>7, <1>10, <2>1 DEF Removed, WithScopes, WithoutPlace
  <2>2. CASE m # s
    BY <1>1, <1>3, <1>4, <1>7, <1>10, <2>2 DEF Removed, WithScopes, WithIndex, WithoutPlace, Replaced
  <2> QED
    BY <2>1, <2>2
<1>12. sd = Deactivated(h, s)
  BY <1>7 DEF Stopped, Deactivated
<1>13. m \in AllScopes /\ i \in Nat /\ scope \in ScopeStates
  <2>1. Len(L) \in 1 .. Len(L) /\ i \in Nat
    BY <1>2, <1>3
  <2>2. L[Len(L)] \in Scopes
    BY <1>2, <2>1
  <2> QED
    BY <1>7, <2>1, <2>2 DEF AllScopes, TreeInv
<1>14. R \in Seq(Scopes)
  BY <1>8 DEF IsWithout
<1>15. IsChanged(sd, scope, s, p, R, m, IF m = s THEN scope[s].index ELSE i)
  BY <1>2, <1>11, <1>12, <1>13, <1>14, ScopeLeaves
<1>16. (IF m = s THEN scope[s].index ELSE i) = i
  BY <1>4
<1>17. HasLeft(sd, s, p, L, R, i)
  BY <1>1, <1>3, <1>7, <1>8, <1>15, <1>16 DEF HasLeft
<1> QED
  BY <1>2, <1>17

-----------------------------------------------------------------------------
(***************************************************************************)
(* The end of a stop().                                                    *)
(***************************************************************************)
ListedIn(sc, s) == \E k \in DOMAIN sc[ParentOf[s]].scopes : sc[ParentOf[s]].scopes[k] = s

IsTree(sc) ==
  \A p \in AllScopes : \A k \in DOMAIN sc[p].scopes :
    LET s == sc[p].scopes[k]
    IN  IsNested(s) /\ ParentOf[s] = p /\ sc[s].parent = p /\ sc[s].index = k

\* sd is scope after s has stopped; changed are the scopes whose lists are others.
HasStopped(sd, s, up, changed) ==
  /\ sd \in ScopeStates /\ IsTree(sd)
  /\ \A q \in AllScopes : sd[q].active <=> (q # s /\ scope[q].active)
  /\ changed = {} \/ (changed = {ParentOf[s]} /\ IsNested(s) /\ ~up)
  /\ \A q \in AllScopes \ changed : sd[q].scopes = scope[q].scopes
  /\ \A q \in Scopes : (q = s => changed = {}) /\ ListedIn(scope, q) => ListedIn(sd, q)
  /\ \A q \in Scopes : ListedIn(sd, q) => ListedIn(scope, q)

LEMMA ParentFacts ==
  ASSUME NEW q \in Scopes
  PROVE  ParentOf[q] \in AllScopes /\ q \in AllScopes
BY ScopesAssumption DEF ScopesAssumption, AllScopes

LEMMA StoppedKeepsTree ==
  ASSUME TreeInv, NEW s \in AllScopes, NEW up \in BOOLEAN, ~(IsNested(s) /\ ~up),
         NEW sd, sd = Stopped(scope, s, up)
  PROVE  HasStopped(sd, s, up, {})
<1>1. /\ sd \in ScopeStates
      /\ \A q \in AllScopes :
           /\ sd[q].active <=> (q # s /\ scope[q].active)
           /\ sd[q].scopes = scope[q].scopes
           /\ sd[q].parent = scope[q].parent
           /\ sd[q].index = scope[q].index
  BY StoppedKeeps
<1>2. \A q \in Scopes : ListedIn(sd, q) <=> ListedIn(scope, q)
  BY <1>1, ParentFacts DEF ListedIn
<1>3. IsTree(sd)
  <2>1. IsTree(scope)
    BY DEF TreeInv, IsTree
  <2>2. \A q : IsNested(q) => q \in AllScopes
    BY DEF IsNested, AllScopes
  <2> QED
    BY <1>1, <2>1, <2>2 DEF IsTree
<1> QED
  BY <1>1, <1>2, <1>3 DEF HasStopped

\* In the list that s has left every other scope of it is found, and found at its index.
LEMMA LeftIsListed ==
  ASSUME TreeInv, NEW s, NEW p \in AllScopes, NEW L \in Seq(Scopes), NEW R, NEW i, NEW sd,
         HasLeft(sd, s, p, L, R, i), NEW q \in Scopes, q # s, ListedIn(scope, q)
  PROVE  ListedIn(sd, q)
<1>1. /\ p = ParentOf[s] /\ L = scope[p].scopes /\ i \in 1 .. Len(L) /\ L[i] = s
      /\ R \in Seq(Scopes) /\ Len(R) = Len(L) - 1
      /\ \A k \in 1 .. Len(R) : R[k] = IF k = i THEN L[Len(L)] ELSE L[k]
      /\ i # Len(L) => i \in 1 .. Len(R)
      /\ \A x \in AllScopes : sd[x].scopes = IF x = p THEN R ELSE scope[x].scopes
  BY DEF HasLeft, IsWithout, IsChanged
<1>2. ParentOf[q] \in AllScopes
  BY ParentFacts
<1>3. CASE ParentOf[q] # p
  BY <1>1, <1>2, <1>3 DEF ListedIn
<1>4. CASE ParentOf[q] = p
  <2>1. PICK k \in 1 .. Len(L) : L[k] = q
    BY <1>1, <1>4 DEF ListedIn
  <2>2. k # i
    BY <1>1, <2>1
  <2>3. DOMAIN R = 1 .. Len(R) /\ Len(L) \in Nat
    BY <1>1
  <2>4. \E j \in DOMAIN R : R[j] = q
    <3>1. CASE k = Len(L)
      BY <1>1, <2>1, <2>2, <2>3, <3>1
    <3>2. CASE k # Len(L)
      <4>1. k \in 1 .. Len(R)
        BY <1>1, <2>1, <2>3, <3>2
      <4>2. R[k] = q
        BY <1>1, <2>1, <2>2, <4>1
      <4> QED
        BY <2>3, <4>1, <4>2
    <3> QED
      BY <3>1, <3>2
  <2>5. sd[ParentOf[q]].scopes = R
    BY <1>1, <1>2, <1>4
  <2> QED
    BY <2>4, <2>5 DEF ListedIn
<1> QED
  BY <1>3, <1>4

LEMMA StoppedRemovesTree ==
  ASSUME TreeInv, NEW s \in AllScopes, NEW p \in AllScopes, NEW L \in Seq(Scopes), NEW R, NEW i,
         NEW sd, IsNested(s), HasLeft(sd, s, p, L, R, i)
  PROVE  HasStopped(sd, s, FALSE, {p})
<1>1. /\ p = ParentOf[s] /\ L = scope[p].scopes /\ i \in 1 .. Len(L) /\ L[i] = s
      /\ R \in Seq(Scopes) /\ Len(R) = Len(L) - 1
      /\ \A k \in 1 .. Len(R) : k \in 1 .. Len(L) /\ R[k] = IF k = i THEN L[Len(L)] ELSE L[k]
      /\ i # Len(L) => i \in 1 .. Len(R)
  BY DEF HasLeft, IsWithout
<1>2. /\ sd \in ScopeStates
      /\ \A q \in AllScopes :
           /\ sd[q].active <=> (q # s /\ scope[q].active)
           /\ sd[q].scopes = IF q = p THEN R ELSE scope[q].scopes
           /\ sd[q].parent = scope[q].parent
           /\ sd[q].index  = IF q = L[Len(L)] THEN i ELSE scope[q].index
  BY DEF HasLeft, IsChanged
<1>3. DOMAIN L = 1 .. Len(L) /\ DOMAIN R = 1 .. Len(R) /\ Len(L) \in 1 .. Len(L)
  BY <1>1
<1>4. \A k \in 1 .. Len(L) :
        /\ L[k] \in AllScopes /\ IsNested(L[k]) /\ ParentOf[L[k]] = p
        /\ scope[L[k]].parent = p /\ scope[L[k]].index = k
  BY <1>1, <1>3, SMTT(30) DEF TreeInv, AllScopes
<1>5. IsTree(sd)
  <2>1. ASSUME NEW k \in 1 .. Len(R), NEW x, x = R[k]
        PROVE  IsNested(x) /\ ParentOf[x] = p /\ sd[x].parent = p /\ sd[x].index = k
    <3>1. CASE k = i
      <4>1. PICK m : m = L[Len(L)]
        OBVIOUS
      <4>2. x = m
        BY <1>1, <2>1, <3>1, <4>1
      <4>3. m \in AllScopes /\ IsNested(m) /\ ParentOf[m] = p /\ scope[m].parent = p
        BY <1>3, <1>4, <4>1
      <4>4. sd[m].parent = p /\ sd[m].index = i
        BY <1>2, <4>1, <4>3
      <4> QED
        BY <3>1, <4>2, <4>3, <4>4
    <3>2. CASE k # i
      <4>1. x = L[k] /\ k \in 1 .. Len(L) /\ k # Len(L)
        BY <1>1, <1>3, <2>1, <3>2, SMTT(30)
      <4>2. x # L[Len(L)]
        BY <1>3, <1>4, <4>1
      <4> QED
        BY <1>2, <1>4, <4>1, <4>2
    <3> QED
      BY <3>1, <3>2
  <2>2. ASSUME NEW q \in AllScopes, q # p, NEW k \in DOMAIN scope[q].scopes, NEW x, x = scope[q].scopes[k]
        PROVE  IsNested(x) /\ ParentOf[x] = q /\ sd[x].parent = q /\ sd[x].index = k
    <3>1. IsNested(x) /\ ParentOf[x] = q /\ scope[x].parent = q /\ scope[x].index = k
      BY <2>2 DEF TreeInv
    <3>2. x \in AllScopes /\ x # L[Len(L)]
      BY <1>3, <1>4, <2>2, <3>1 DEF IsNested, AllScopes
    <3> QED
      BY <1>2, <3>1, <3>2
  <2> QED
    BY <1>2, <1>3, <2>1, <2>2 DEF IsTree
<1>6. ASSUME NEW q \in Scopes, ListedIn(sd, q) PROVE ListedIn(scope, q)
  <2>1. ParentOf[q] \in AllScopes
    BY ParentFacts
  <2>2. CASE ParentOf[q] # p
    BY <1>2, <1>6, <2>1, <2>2 DEF ListedIn
  <2>3. CASE ParentOf[q] = p
    <3>1. PICK k \in 1 .. Len(R) : R[k] = q
      BY <1>2, <1>3, <1>6, <2>1, <2>3 DEF ListedIn
    <3>2. \E j \in 1 .. Len(L) : L[j] = q
      BY <1>1, <1>3, <3>1
    <3> QED
      BY <1>1, <1>3, <2>3, <3>2 DEF ListedIn
  <2> QED
    BY <2>2, <2>3
<1>7. \A q \in Scopes : (q = s => {p} = {}) /\ ListedIn(scope, q) => ListedIn(sd, q)
  BY LeftIsListed
<1> QED
  BY <1>1, <1>2, <1>5, <1>6, <1>7 DEF HasStopped

LEMMA StoppedTree ==
  ASSUME TreeInv, NEW s \in AllScopes, NEW up \in BOOLEAN, IsNested(s) /\ ~up => IsListed(s),
         NEW sd, sd = Stopped(scope, s, up)
  PROVE  \E changed : HasStopped(sd, s, up, changed)
<1>1. CASE ~(IsNested(s) /\ ~up)
  BY <1>1, StoppedKeepsTree
<1>2. CASE IsNested(s) /\ ~up
  <2>1. up = FALSE
    BY <1>2
  <2>2. \E p \in AllScopes, L \in Seq(Scopes) : \E R, i : HasLeft(sd, s, p, L, R, i)
    BY <1>2, <2>1, StoppedRemoves
  <2> QED
    BY <1>2, <2>1, <2>2, StoppedRemovesTree
<1> QED
  BY <1>1, <1>2

\* What has been passed stays passed.
LEMMA PassedStill ==
  ASSUME NEW s, NEW sc, NEW stopping, HasPassed(s, sc, stopping), NEW sd,
         \A n \in DOMAIN s : s[n].kind = "stop" /\ s[n].phase = "scopes" =>
           \A k \in 1 .. s[n].i - 1 : \A x : x = sc[s[n].scope].scopes[k] =>
             /\ sd[s[n].scope].scopes[k] = x
             /\ ~sc[x].active \/ x \in stopping => ~sd[x].active
  PROVE  HasPassed(s, sd, {})
BY DEF HasPassed

LEMMA EndStopScopes ==
  ASSUME BaseInv, ScopesInv, EndStop
  PROVE  ScopesInv'
<1>1. PICK f, c, s, sd : f = Top /\ c = Callers /\ s = f.scope /\ sd = Stopped(scope, s, f.up)
  OBVIOUS
<1>2. /\ On("stop") /\ f.phase = "scopes" /\ f.i > f.length
      /\ UNCHANGED <<owned, active, created>> /\ scope' = sd /\ stack' = c
  BY <1>1 DEF EndStop
<1>3. /\ stack # <<>> /\ f \in StopFrames /\ f.kind = "stop" /\ f \in Frames
      /\ \A w \in active : Records(s, w) => w \in ToSet(f.todo)
      /\ f.todo = <<>>
      /\ f.length = Len(scope[s].scopes) /\ f.i \in 1 .. f.length + 1
      /\ IsNested(s) /\ ~f.up => IsListed(s)
      /\ scope[s].scopes \in Seq(Scopes)
  BY <1>1, <1>2, StopsTop
<1>4. s \in AllScopes /\ f.up \in BOOLEAN /\ f.i = f.length + 1 /\ f.length \in Nat
  BY <1>1, <1>2, <1>3 DEF StopFrames
<1>5. /\ Frames = {f} \union ToSet(c) /\ Frames' = ToSet(c) /\ IsASeq(c)
      /\ \A x, y : Above(x, y) <=> (x = f /\ y \in ToSet(c)) \/ Above(x, y)'
      /\ TopPassed(f, scope, {}) /\ HasPassed(c, scope, {s})
  <2>1. /\ IsASeq(c) /\ stack = <<f>> \o c /\ Frames = {f} \union ToSet(c) /\ Frames' = ToSet(c)
        /\ \A x, y : Above(x, y) <=> (x = f /\ y \in ToSet(c)) \/ Above(x, y)'
    BY <1>1, <1>2, <1>3, Peeled DEF BaseInv, Frames, Above
  <2> QED
    BY <1>1, <1>3, <2>1, StopPassed DEF ScopesInv, WalksInv
<1>6. TreeInv
  BY DEF ScopesInv
<1>7. PICK changed : HasStopped(sd, s, f.up, changed)
  BY <1>1, <1>3, <1>4, <1>6, StoppedTree
<1>8. /\ sd \in ScopeStates /\ IsTree(sd)
      /\ \A q \in AllScopes : sd[q].active <=> (q # s /\ scope[q].active)
      /\ changed = {} \/ (changed = {ParentOf[s]} /\ IsNested(s) /\ ~f.up)
      /\ \A q \in AllScopes \ changed : sd[q].scopes = scope[q].scopes
  BY <1>7 DEF HasStopped
<1>9. /\ \A q \in Scopes : (q = s => changed = {}) /\ ListedIn(scope, q) => ListedIn(sd, q)
      /\ \A q \in Scopes : ListedIn(sd, q) => ListedIn(scope, q)
  BY <1>7 DEF HasStopped
<1>10. \A q : (IsListed(q) <=> ListedIn(scope, q)) /\ (IsListed(q)' <=> ListedIn(sd, q))
  BY <1>2 DEF IsListed, ListedIn
\* All the scopes within s had stopped.
<1>11. ASSUME NEW t \in Within[s], t # s PROVE ~scope[t].active
  <2>1. PICK x \in AllScopes : IsNested(x) /\ ParentOf[x] = s /\ t \in Within[x]
    BY <1>4, <1>11, WithinChild
  <2>2. ~scope[x].active
    <3>1. SUFFICES ASSUME scope[x].active PROVE FALSE
      OBVIOUS
    <3>2. IsListed(x)
      BY <1>6, <2>1, <3>1 DEF TreeInv
    <3>3. PICK k \in 1 .. Len(scope[s].scopes) : scope[s].scopes[k] = x
      BY <1>3, <2>1, <3>2 DEF IsListed
    <3>4. k \in 1 .. f.i - 1
      BY <1>3, <1>4
    <3> QED
      BY <1>1, <1>2, <1>3, <1>5, <3>1, <3>3, <3>4 DEF TopPassed
  <2> QED
    BY <1>6, <2>1, <2>2 DEF TreeInv
<1>12. TreeInv'
  <2>1. ASSUME NEW q \in AllScopes, IsNested(q), sd[q].active PROVE ListedIn(sd, q)
    <3>1. q \in Scopes /\ q # s /\ scope[q].active
      BY <1>8, <2>1 DEF IsNested
    <3>2. ListedIn(scope, q)
      BY <1>6, <1>10, <2>1, <3>1 DEF TreeInv
    <3> QED
      BY <1>9, <3>1, <3>2
  <2>2. ASSUME NEW q \in AllScopes, ~sd[q].active, NEW t \in Within[q] PROVE ~sd[t].active
    <3>1. t \in AllScopes
      BY WithinFacts
    <3>2. CASE q = s
      BY <1>8, <1>11, <2>2, <3>1, <3>2
    <3>3. CASE q # s
      BY <1>6, <1>8, <2>2, <3>1, <3>3 DEF TreeInv
    <3> QED
      BY <3>2, <3>3
  <2> QED
    BY <1>2, <1>8, <1>10, <2>1, <2>2 DEF TreeInv, IsTree
<1>13. MakingInv'
  <2>1. ASSUME NEW x \in Frames', x.kind = "setup", NEW t \in ToSet(x.todo)
        PROVE  ~sd[t].active /\ ~ListedIn(sd, t)
    <3>1. x \in Frames /\ IsFrame(x)
      BY <1>5 DEF BaseInv, StackInv
    <3>2. ~scope[t].active /\ ~ListedIn(scope, t)
      BY <1>10, <2>1, <3>1 DEF ScopesInv, MakingInv
    <3>3. t \in Scopes
      <4>1. x.todo \in Seq(Scopes)
        BY <2>1, <3>1 DEF IsFrame
      <4> QED
        BY <4>1, SetFacts DEF ToSet
    <3> QED
      BY <1>8, <1>9, <3>2, <3>3 DEF AllScopes
  <2>2. \A x \in Frames' : x.kind = "setup" => IsInjective(x.todo)
    BY <1>5 DEF ScopesInv, MakingInv
  <2> QED
    BY <1>2, <1>10, <2>1, <2>2 DEF MakingInv
<1>14. ASSUME NEW g \in ToSet(c), g.kind = "stop"
       PROVE  /\ g \in Frames /\ Above(f, g) /\ g.scope \in AllScopes
              /\ g.phase = "scopes" => g.scope \notin changed
              /\ IsNested(g.scope) /\ ~g.up /\ g.scope = s => changed = {}
  <2>1. g \in Frames /\ Above(f, g)
    BY <1>5, <1>14
  <2>2. g \in StopFrames
    BY <1>14, <2>1 DEF BaseInv, StackInv, IsFrame
  <2>3. ~f.up => /\ ~g.up => f.scope # g.scope
                 /\ IsNested(f.scope) /\ g.phase = "scopes" => g.scope # ParentOf[f.scope]
    BY <1>3, <1>14, <2>1 DEF ScopesInv, StopsInv
  <2> QED
    BY <1>1, <1>8, <2>1, <2>2, <2>3 DEF StopFrames
<1>15. StopsInv'
  <2>1. ASSUME NEW g \in Frames', g.kind = "stop"
        PROVE  /\ \A w \in active' : Records(g.scope, w)' => w \in ToSet(g.todo)
               /\ g.phase # "effects" => g.todo = <<>>
               /\ g.phase # "scopes" => g.i = 1
               /\ g.phase = "scopes" => g.length = Len(scope'[g.scope].scopes) /\ g.i \in 1 .. g.length + 1
               /\ IsNested(g.scope) /\ ~g.up => IsListed(g.scope)'
               /\ g.scope = Own => HasKind("destroy")'
    <3>1. g \in Frames /\ g \in ToSet(c)
      BY <1>5, <2>1
    <3>2. /\ \A w \in active : Records(g.scope, w) => w \in ToSet(g.todo)
          /\ g.phase # "effects" => g.todo = <<>>
          /\ g.phase # "scopes" => g.i = 1
          /\ g.phase = "scopes" => g.length = Len(scope[g.scope].scopes) /\ g.i \in 1 .. g.length + 1
          /\ IsNested(g.scope) /\ ~g.up => IsListed(g.scope)
          /\ g.scope = Own => HasKind("destroy")
      BY <2>1, <3>1 DEF ScopesInv, StopsInv
    <3>3. \A w \in active' : Records(g.scope, w)' => w \in ToSet(g.todo)
      BY <1>2, <3>2 DEF Records
    <3>4. g.phase = "scopes" => scope'[g.scope].scopes = scope[g.scope].scopes
      BY <1>2, <1>8, <1>14, <2>1, <3>1
    <3>5. IsNested(g.scope) /\ ~g.up => IsListed(g.scope)'
      BY <1>9, <1>10, <1>14, <2>1, <3>1, <3>2 DEF IsNested
    <3>6. HasKind("destroy") => HasKind("destroy")'
      BY <1>3, <1>5 DEF HasKind
    <3> QED
      BY <3>2, <3>3, <3>4, <3>5, <3>6
  <2>2. \A x \in Frames' : x \in Frames
    BY <1>5
  <2>3. \A x, y : Above(x, y)' => Above(x, y)
    BY <1>5
  <2> QED
    BY <2>1, <2>2, <2>3 DEF ScopesInv, StopsInv
<1>16. WalksInv'
  <2>1. ASSUME NEW n \in DOMAIN c, c[n].kind = "stop" /\ c[n].phase = "scopes",
               NEW k \in 1 .. c[n].i - 1, NEW x, x = scope[c[n].scope].scopes[k]
        PROVE  /\ sd[c[n].scope].scopes[k] = x
               /\ ~scope[x].active \/ x \in {s} => ~sd[x].active
    <3>1. PICK g : g = c[n]
      OBVIOUS
    <3>2. g \in ToSet(c) /\ g.kind = "stop"
      BY <2>1, <3>1 DEF ToSet
    <3>3. /\ g \in Frames /\ g.scope \in AllScopes /\ g.scope \notin changed
      BY <1>14, <2>1, <3>1, <3>2
    <3>4. g.length = Len(scope[g.scope].scopes) /\ g.i \in 1 .. g.length + 1
      BY <2>1, <3>1, <3>3 DEF ScopesInv, StopsInv
    <3>5. scope[g.scope].scopes \in Seq(Scopes)
      BY <1>6, <3>3 DEF TreeInv, ScopeStates
    <3>6. k \in 1 .. Len(scope[g.scope].scopes)
      BY <2>1, <3>1, <3>4, <3>5
    <3>7. x \in AllScopes
      BY <2>1, <3>1, <3>5, <3>6 DEF AllScopes
    <3> QED
      BY <1>8, <2>1, <3>1, <3>3, <3>7
  <2>2. HasPassed(c, sd, {})
    BY <1>5, <2>1, PassedStill
  <2> QED
    BY <1>2, <2>2 DEF WalksInv
<1>17. ScopeStopsAll'
  <2>1. ASSUME NEW q \in AllScopes, ~sd[q].active, NEW w \in active, ScopeOf(w) \in Within[q]
        PROVE  ScopeOf(w) = Own /\ w \notin owned
    <3>1. CASE q # s
      BY <1>8, <2>1, <3>1 DEF ScopesInv, ScopeStopsAll, AllScopes, IsWithin
    <3>2. CASE q = s /\ ScopeOf(w) # s
      <4>1. PICK t : t = ScopeOf(w)
        OBVIOUS
      <4>2. t \in AllScopes /\ ~scope[t].active /\ t \in Within[t]
        BY <1>4, <1>11, <2>1, <3>2, <4>1, WithinFacts
      <4> QED
        BY <2>1, <4>1, <4>2 DEF ScopesInv, ScopeStopsAll, AllScopes, IsWithin
    <3>3. CASE q = s /\ ScopeOf(w) = s
      <4>1. ~Records(s, w)
        BY <1>3, <2>1 DEF ToSet
      <4> QED
        BY <3>3, <4>1 DEF Records
    <3> QED
      BY <3>1, <3>2, <3>3
  <2> QED
    BY <1>2, <2>1 DEF ScopeStopsAll, AllScopes, IsWithin
<1> QED
  BY <1>12, <1>13, <1>15, <1>16, <1>17 DEF ScopesInv

-----------------------------------------------------------------------------
(***************************************************************************)
(* setup() makes a scope, user code makes a watcher or begins a stop().    *)
(***************************************************************************)
LEMMA NoStops ==
  ASSUME NEW s, IsASeq(s), s = stack', \A f \in ToSet(s) : f.kind # "stop"
  PROVE  StopsInv' /\ WalksInv'
<1>1. Frames' = ToSet(s)
  BY DEF Frames
<1>2. StopsInv'
  BY <1>1 DEF StopsInv
<1>3. WalksInv'
  BY DEF WalksInv, HasPassed, ToSet
<1> QED
  BY <1>2, <1>3

\* sd is scope with s made in its parent p, which is active.
IsMade(sd, s, p, L, new) ==
  /\ sd \in ScopeStates
  /\ \A q \in AllScopes :
       /\ sd[q].active <=> (q = s \/ scope[q].active)
       /\ sd[q].scopes = IF q = s THEN <<>> ELSE IF q = p /\ new THEN Append(L, s) ELSE scope[q].scopes
       /\ sd[q].parent = IF q = s THEN p ELSE scope[q].parent
       /\ sd[q].index  = IF q = s THEN (IF new THEN Len(L) + 1 ELSE 0) ELSE scope[q].index

LEMMA ConstructedFacts ==
  ASSUME TreeInv, NEW s \in Scopes, ~scope[s].active, scope[ParentOf[s]].active,
         NEW p, p = ParentOf[s], NEW L, L = scope[p].scopes
  PROVE  p \in AllScopes /\ p # s /\ L \in Seq(Scopes) /\ IsMade(Constructed(scope, s), s, p, L, IsNested(s))
<1>1. p \in AllScopes /\ s \in AllScopes /\ p # s /\ scope \in ScopeStates
  BY ParentFacts DEF TreeInv
<1>2. scope[p] \in [active : BOOLEAN, scopes : Seq(Scopes), parent : AllScopes, index : Nat]
  BY <1>1 DEF ScopeStates
<1>3. L \in Seq(Scopes) /\ Append(L, s) \in Seq(Scopes) /\ Len(L) + 1 \in Nat /\ <<>> \in Seq(Scopes)
  BY <1>2
<1>4. PICK R, n, g, h : /\ R = (IF IsNested(s) THEN Append(L, s) ELSE L)
                        /\ n = (IF IsNested(s) THEN Len(L) + 1 ELSE 0)
                        /\ g = Scope(p, n) /\ h = [scope[p] EXCEPT !.scopes = R]
  OBVIOUS
<1>5. R \in Seq(Scopes) /\ n \in Nat
  BY <1>3, <1>4
<1>6. /\ g \in [active : BOOLEAN, scopes : Seq(Scopes), parent : AllScopes, index : Nat]
      /\ g.active = TRUE /\ g.scopes = <<>> /\ g.parent = p /\ g.index = n
  BY <1>1, <1>3, <1>4, <1>5 DEF Scope
<1>7. /\ h \in [active : BOOLEAN, scopes : Seq(Scopes), parent : AllScopes, index : Nat]
      /\ h.active = scope[p].active /\ h.scopes = R /\ h.parent = scope[p].parent /\ h.index = scope[p].index
  BY <1>2, <1>4, <1>5
<1>8. PICK sd : sd = [[scope EXCEPT ![s] = g] EXCEPT ![p] = h]
  OBVIOUS
<1>9. Constructed(scope, s) = sd
  <2>1. Constructed(scope, s) = [[scope EXCEPT ![s] = g] EXCEPT ![p].scopes = R]
    BY <1>4 DEF Constructed
  <2>2. [scope EXCEPT ![s] = g][p] = scope[p]
    BY <1>1 DEF ScopeStates
  <2> QED
    BY <1>4, <1>8, <2>1, <2>2
<1>10. sd \in ScopeStates /\ sd[s] = g /\ sd[p] = h /\ \A q \in AllScopes : q # s /\ q # p => sd[q] = scope[q]
  BY <1>1, <1>6, <1>7, <1>8 DEF ScopeStates
<1>11. \A q \in AllScopes :
         /\ sd[q].scopes = IF q = s THEN <<>> ELSE IF q = p /\ IsNested(s) THEN Append(L, s) ELSE scope[q].scopes
         /\ sd[q].parent = IF q = s THEN p ELSE scope[q].parent
         /\ sd[q].index  = IF q = s THEN (IF IsNested(s) THEN Len(L) + 1 ELSE 0) ELSE scope[q].index
  <2>1. /\ sd[s].scopes = <<>> /\ sd[s].parent = p /\ sd[s].index = n
        /\ sd[p].scopes = R /\ sd[p].parent = scope[p].parent /\ sd[p].index = scope[p].index
    BY <1>6, <1>7, <1>10
  <2>2. \A q \in AllScopes : q # s /\ q # p => sd[q] = scope[q]
    BY <1>10
  <2>3. CASE IsNested(s)
    <3>1. R = Append(L, s) /\ n = Len(L) + 1
      BY <1>4, <2>3
    <3> QED
      BY <1>1, <2>1, <2>2, <2>3, <3>1
  <2>4. CASE ~IsNested(s)
    <3>1. R = scope[p].scopes /\ n = 0
      BY <1>4, <2>4
    <3> QED
      BY <1>1, <2>1, <2>2, <2>4, <3>1
  <2> QED
    BY <2>3, <2>4
<1>12. \A q \in AllScopes : sd[q].active <=> (q = s \/ scope[q].active)
  BY <1>1, <1>6, <1>7, <1>10
<1> QED
  BY <1>1, <1>3, <1>9, <1>10, <1>11, <1>12 DEF IsMade

LEMMA MadeTree ==
  ASSUME TreeInv, ScopeStopsAll, NEW s \in Scopes, ~scope[s].active, ~IsListed(s),
         scope[ParentOf[s]].active, scope' = Constructed(scope, s), UNCHANGED <<active, owned>>
  PROVE  /\ TreeInv' /\ ScopeStopsAll'
         /\ \A q \in Scopes : q # s /\ ~scope[q].active /\ ~IsListed(q) =>
              ~scope'[q].active /\ ~IsListed(q)'
<1>1. PICK p, L, sd : p = ParentOf[s] /\ L = scope[p].scopes /\ sd = Constructed(scope, s)
  OBVIOUS
<1>2. p \in AllScopes /\ p # s /\ L \in Seq(Scopes) /\ IsMade(sd, s, p, L, IsNested(s))
  BY <1>1, ConstructedFacts
<1>3. s \in AllScopes /\ DOMAIN L = 1 .. Len(L) /\ Len(L) \in Nat
  BY <1>2, ParentFacts
<1>4. PICK M : M = IF IsNested(s) THEN Append(L, s) ELSE L
  OBVIOUS
<1>5. /\ sd \in ScopeStates
      /\ \A q \in AllScopes :
           /\ sd[q].active <=> (q = s \/ scope[q].active)
           /\ sd[q].scopes = IF q = s THEN <<>> ELSE IF q = p THEN M ELSE scope[q].scopes
           /\ q # s => sd[q].parent = scope[q].parent /\ sd[q].index = scope[q].index
      /\ sd[s].parent = p
      /\ IsNested(s) => sd[s].index = Len(L) + 1
  BY <1>1, <1>2, <1>3, <1>4 DEF IsMade
<1>6. /\ DOMAIN M = IF IsNested(s) THEN 1 .. Len(L) + 1 ELSE 1 .. Len(L)
      /\ \A k \in 1 .. Len(L) : M[k] = L[k] /\ k \in DOMAIN M
      /\ IsNested(s) => M[Len(L) + 1] = s /\ Len(L) + 1 \in DOMAIN M
      /\ \A k \in DOMAIN M : k \in 1 .. Len(L) \/ (IsNested(s) /\ k = Len(L) + 1)
  BY <1>2, <1>3, <1>4
<1>7. ~ListedIn(scope, s) /\ scope[p].active
  BY <1>1 DEF IsListed, ListedIn
<1>8. \A q : (IsListed(q) <=> ListedIn(scope, q)) /\ (IsListed(q)' <=> ListedIn(sd, q))
  BY <1>1 DEF IsListed, ListedIn
\* The scopes within s are not active.
<1>9. ASSUME NEW q, IsNested(q), ParentOf[q] = s PROVE ~scope[q].active /\ q # s
  BY <1>3, <1>9, <1>1, <1>7, WithinFacts DEF TreeInv
<1>10. IsTree(sd)
  <2>1. ASSUME NEW k \in DOMAIN M, NEW x, x = M[k]
        PROVE  IsNested(x) /\ ParentOf[x] = p /\ sd[x].parent = p /\ sd[x].index = k
    <3>1. CASE k \in 1 .. Len(L)
      <4>1. x = L[k] /\ IsNested(x) /\ ParentOf[x] = p /\ scope[x].parent = p /\ scope[x].index = k
        BY <1>1, <1>2, <1>3, <1>6, <2>1, <3>1 DEF TreeInv
      <4>2. x # s
        BY <1>1, <1>3, <1>7, <3>1, <4>1 DEF ListedIn
      <4>3. x \in AllScopes
        BY <4>1 DEF IsNested, AllScopes
      <4> QED
        BY <1>5, <4>1, <4>2, <4>3
    <3>2. CASE IsNested(s) /\ k = Len(L) + 1
      <4>1. x = s
        BY <1>6, <2>1, <3>2
      <4> QED
        BY <1>1, <1>5, <3>2, <4>1
    <3> QED
      BY <1>6, <3>1, <3>2
  <2>2. ASSUME NEW q \in AllScopes, q # p, q # s, NEW k \in DOMAIN scope[q].scopes, NEW x, x = scope[q].scopes[k]
        PROVE  IsNested(x) /\ ParentOf[x] = q /\ sd[x].parent = q /\ sd[x].index = k
    <3>1. IsNested(x) /\ ParentOf[x] = q /\ scope[x].parent = q /\ scope[x].index = k
      BY <2>2 DEF TreeInv
    <3>2. x \in AllScopes /\ x # s
      BY <1>1, <2>2, <3>1 DEF IsNested, AllScopes
    <3> QED
      BY <1>5, <3>1, <3>2
  <2>3. DOMAIN <<>> = {}
    OBVIOUS
  <2>4. sd[s].scopes = <<>> /\ sd[p].scopes = M
    BY <1>2, <1>3, <1>5
  <2>5. \A q \in AllScopes : q # p /\ q # s => sd[q].scopes = scope[q].scopes
    BY <1>5
  <2> QED
    BY <2>1, <2>2, <2>3, <2>4, <2>5 DEF IsTree
<1>11. ASSUME NEW q \in Scopes, q # s, ParentOf[q] # s
       PROVE  ListedIn(sd, q) <=> ListedIn(scope, q)
  <2>1. ParentOf[q] \in AllScopes
    BY ParentFacts
  <2>2. CASE ParentOf[q] # p
    BY <1>5, <1>11, <2>1, <2>2 DEF ListedIn
  <2>3. CASE ParentOf[q] = p
    <3>1. sd[ParentOf[q]].scopes = M /\ scope[ParentOf[q]].scopes = L
      BY <1>1, <1>2, <1>5, <2>3
    <3>2. (\E k \in DOMAIN M : M[k] = q) <=> (\E k \in DOMAIN L : L[k] = q)
      BY <1>3, <1>6, <1>11
    <3> QED
      BY <3>1, <3>2 DEF ListedIn
  <2> QED
    BY <2>2, <2>3
<1>12. ASSUME NEW q \in AllScopes, IsNested(q), sd[q].active PROVE ListedIn(sd, q)
  <2>1. q \in Scopes
    BY <1>12 DEF IsNested
  <2>2. CASE q = s
    <3>1. sd[p].scopes = M
      BY <1>2, <1>5
    <3> QED
      BY <1>1, <1>6, <1>12, <2>2, <3>1 DEF ListedIn
  <2>3. CASE q # s
    <3>1. scope[q].active
      BY <1>5, <1>12, <2>3
    <3>2. ParentOf[q] # s
      BY <1>9, <1>12, <3>1
    <3>3. ListedIn(scope, q)
      BY <1>8, <1>12, <3>1 DEF TreeInv
    <3> QED
      BY <1>11, <2>1, <2>3, <3>2, <3>3
  <2> QED
    BY <2>2, <2>3
<1>13. ASSUME NEW q \in AllScopes, ~sd[q].active, NEW t \in Within[q] PROVE ~sd[t].active
  <2>1. t \in AllScopes /\ q # s /\ ~scope[q].active
    BY <1>3, <1>5, <1>13, WithinFacts
  <2>2. ~scope[t].active
    BY <1>13, <2>1 DEF TreeInv
  <2>3. t # s
    <3>1. SUFFICES ASSUME t = s PROVE FALSE
      OBVIOUS
    <3>2. p \in Within[q]
      BY <1>1, <1>13, <2>1, <3>1, WithinParent
    <3> QED
      BY <1>7, <2>1, <3>2 DEF TreeInv
  <2> QED
    BY <1>5, <2>1, <2>2, <2>3
<1>14. TreeInv'
  BY <1>1, <1>5, <1>8, <1>10, <1>12, <1>13 DEF TreeInv, IsTree
<1>15. ScopeStopsAll'
  <2>1. \A q \in AllScopes : ~sd[q].active => ~scope[q].active
    BY <1>5
  <2> QED
    BY <1>1, <2>1 DEF ScopeStopsAll, AllScopes
<1>16. ASSUME NEW q \in Scopes, q # s, ~scope[q].active, ~IsListed(q)
       PROVE  ~sd[q].active /\ ~ListedIn(sd, q)
  <2>1. ~sd[q].active
    BY <1>5, <1>16, ParentFacts
  <2>2. CASE ParentOf[q] = s
    <3>1. sd[s].scopes = <<>> /\ DOMAIN <<>> = {}
      BY <1>3, <1>5
    <3> QED
      BY <2>1, <2>2, <3>1 DEF ListedIn
  <2>3. CASE ParentOf[q] # s
    BY <1>8, <1>11, <1>16, <2>1, <2>3
  <2> QED
    BY <2>2, <2>3
<1> QED
  BY <1>1, <1>8, <1>14, <1>15, <1>16

LEMMA MakeScopeScopes ==
  ASSUME BaseInv, ScopesInv, MakeScope
  PROVE  ScopesInv'
<1>1. PICK f, s, t, g : f = Top /\ s = Head(f.todo) /\ t = Tail(f.todo) /\ g = ListFrame("setup", t)
  OBVIOUS
<1>2. /\ stack # <<>> /\ f.kind = "setup" /\ f.todo # <<>> /\ stack' = <<g>> \o Callers
      /\ UNCHANGED <<active, owned>>
  BY <1>1 DEF MakeScope, On
<1>3. f \in Frames /\ f.todo \in Seq(Scopes) /\ Callers = <<>>
  BY <1>1, <1>2, TopFacts, AloneAtBottom DEF BaseInv, IsFrame, Bottoms
<1>4. /\ s \in Scopes /\ t \in Seq(Scopes) /\ s \in ToSet(f.todo) /\ ToSet(t) \subseteq ToSet(f.todo)
      /\ IsInjective(f.todo)
      /\ \A x \in ToSet(f.todo) : ~scope[x].active /\ ~IsListed(x)
  <2>1. /\ s \in Scopes /\ t \in Seq(Scopes) /\ s \in ToSet(f.todo) /\ ToSet(t) \subseteq ToSet(f.todo)
    BY <1>1, <1>2, <1>3, HeadFacts
  <2> QED
    BY <1>2, <1>3, <2>1 DEF ScopesInv, MakingInv
<1>5. IsInjective(t) /\ s \notin ToSet(t)
  <2>1. /\ Len(f.todo) \in Nat /\ DOMAIN f.todo = 1 .. Len(f.todo) /\ Len(f.todo) # 0 /\ s = f.todo[1]
        /\ Len(t) = Len(f.todo) - 1 /\ DOMAIN t = 1 .. Len(t)
        /\ \A i \in 1 .. Len(t) : t[i] = f.todo[i + 1]
    BY <1>1, <1>2, <1>3
  <2>2. \A i \in 1 .. Len(t) : i + 1 \in 1 .. Len(f.todo) /\ i + 1 # 1 /\ 1 \in 1 .. Len(f.todo)
    BY <2>1
  <2>3. \A i, j \in 1 .. Len(f.todo) : f.todo[i] = f.todo[j] => i = j
    BY <1>4, <2>1 DEF IsInjective
  <2>4. \A i, j \in 1 .. Len(t) : t[i] = t[j] => i = j
    BY <2>1, <2>2, <2>3
  <2>5. \A i \in 1 .. Len(t) : t[i] # s
    BY <2>1, <2>2, <2>3
  <2> QED
    BY <2>1, <2>4, <2>5 DEF IsInjective, ToSet
<1>6. IsASeq(<<>>)
  <2>1. <<>> \in Seq({})
    OBVIOUS
  <2> QED
    BY <2>1, SeqIsASeq
<1>7. PICK u : u = stack'
  OBVIOUS
<1>8. IsASeq(u) /\ ToSet(u) = {g}
  <2>1. u = <<g>> \o <<>>
    BY <1>2, <1>3, <1>7
  <2>2. ToSet(<<>>) = {}
    BY DEF ToSet
  <2> QED
    <3>1. PICK e : e = <<>>
      OBVIOUS
    <3>2. IsASeq(e) /\ u = <<g>> \o e /\ ToSet(e) = {}
      BY <1>6, <2>1, <2>2, <3>1
    <3>3. IsASeq(u) /\ ToSet(u) = {g} \union ToSet(e)
      BY <3>2, Stacked
    <3> QED
      BY <3>2, <3>3
<1>9. g.kind = "setup" /\ g.todo = t
  BY <1>1 DEF ListFrame
<1>10. StopsInv' /\ WalksInv'
  BY <1>7, <1>8, <1>9, NoStops
<1>11. /\ TreeInv' /\ ScopeStopsAll'
       /\ \A x \in ToSet(t) : ~scope'[x].active /\ ~IsListed(x)'
  <2>1. \A x \in ToSet(t) : x \in Scopes /\ x # s /\ ~scope[x].active /\ ~IsListed(x)
    BY <1>4, <1>5 DEF ToSet
  <2>2. TreeInv /\ ScopeStopsAll
    BY DEF ScopesInv
  <2>3. CASE scope[ParentOf[s]].active /\ scope' = Constructed(scope, s)
    BY <1>2, <1>4, <2>1, <2>2, <2>3, MadeTree
  <2>4. CASE scope' = scope
    BY <1>2, <2>1, <2>2, <2>4 DEF TreeInv, ScopeStopsAll, IsListed
  <2> QED
    BY <1>1, <2>3, <2>4 DEF MakeScope
<1>12. MakingInv'
  BY <1>5, <1>7, <1>8, <1>9, <1>11 DEF MakingInv, Frames
<1> QED
  BY <1>10, <1>11, <1>12 DEF ScopesInv

\* The code that may create watchers is not called by a stop().
LEMMA FreeAtBottom ==
  ASSUME BaseInv, UserCode, Author = Free, stack # <<>>
  PROVE  Top.kind \in Bottoms /\ Callers = <<>>
<1>1. Top.kind \in Bottoms
  <2>1. Top.w = Free /\ Top.kind \in {"setup", "render", "mounted", "hook", "callback", "effect", "cleanup", "dispose"}
    BY DEF Author, UserCode
  <2>2. IsFrame(Top) /\ Made \subseteq Watchers /\ cleanup \subseteq Made
    BY TopFacts, MadeFacts DEF BaseInv, TypeInv
  <2>3. Top.kind \in {"callback", "effect"} => Top.w \in Made
    BY <2>2 DEF IsFrame, IsRun
  <2>4. Top.kind = "cleanup" => Top.w \in Made
    BY <2>2 DEF IsFrame
  <2>5. Top.kind = "dispose" => Top.w \in Scopes
    BY <2>2 DEF IsFrame
  <2>6. Free \notin Watchers /\ Free \notin Scopes
    BY ConstantsAssumption DEF ConstantsAssumption
  <2> QED
    BY <2>1, <2>2, <2>3, <2>4, <2>5, <2>6 DEF Bottoms
<1> QED
  BY <1>1, AloneAtBottom DEF BaseInv

LEMMA CreateScopes ==
  ASSUME BaseInv, ScopesInv, NEW w \in Watchers, Create(w)
  PROVE  ScopesInv'
<1>1. /\ UserCode /\ Author = Free /\ scope[ScopeOf(w)].active /\ UNCHANGED scope
      /\ active' = active \union {w} /\ (\A x : x \in owned' => x \in owned \/ x = w)
  BY DEF Create, UserOp
<1>2. IsASeq(stack) /\ (\A f \in Frames : f.kind # "stop")
  <2>1. IsASeq(stack) /\ StackInv
    BY DEF BaseInv, StackInv, InOrder
  <2>2. CASE stack = <<>>
    <3>1. ToSet(<<>>) = {}
      BY DEF ToSet
    <3> QED
      BY <2>1, <2>2, <3>1 DEF Frames
  <2>3. CASE stack # <<>>
    <3>1. Top.kind \in Bottoms /\ Callers = <<>>
      BY <1>1, <2>3, FreeAtBottom
    <3>2. Frames = {Top}
      BY <2>1, <2>3, <3>1, Peeled
    <3> QED
      BY <2>1, <3>1, <3>2 DEF Bottoms
  <2> QED
    BY <2>1, <2>2, <2>3
<1>3. PICK u : u = stack'
  OBVIOUS
<1>4. PICK f : f = Call(IF w \in Immediate THEN "run" ELSE "get", w)
  OBVIOUS
<1>5. f.kind \in {"get", "run"}
  BY <1>4 DEF Call
<1>6. IsASeq(u) /\ ToSet(u) \subseteq Frames \union {f}
  <2>1. u = stack \/ u = <<f>> \o stack
    BY <1>3, <1>4 DEF Create
  <2> QED
    BY <1>2, <2>1, Stacked DEF Frames
<1>7. StopsInv' /\ WalksInv'
  BY <1>2, <1>3, <1>5, <1>6, NoStops
<1>8. TreeInv'
  BY <1>1 DEF ScopesInv, TreeInv, IsListed
<1>9. MakingInv'
  <2>1. \A x \in Frames' : x.kind = "setup" => x \in Frames
    BY <1>3, <1>5, <1>6 DEF Frames
  <2> QED
    BY <1>1, <2>1 DEF ScopesInv, MakingInv, IsListed
<1>10. ScopeStopsAll'
  <2>1. ASSUME NEW s \in AllScopes, ~scope[s].active, NEW x \in active', IsWithin(ScopeOf(x), s)
        PROVE  ScopeOf(x) = Own /\ x \notin owned'
    <3>1. x # w
      BY <1>1, <2>1 DEF ScopesInv, TreeInv, IsWithin
    <3> QED
      BY <1>1, <2>1, <3>1 DEF ScopesInv, ScopeStopsAll, AllScopes
  <2> QED
    BY <1>1, <2>1 DEF ScopeStopsAll, AllScopes
<1> QED
  BY <1>7, <1>8, <1>9, <1>10 DEF ScopesInv

LEMMA StopScopeScopes ==
  ASSUME BaseInv, ScopesInv, NEW s \in Scopes, StopScope(s)
  PROVE  ScopesInv'
<1>1. PICK c, ws, d : c = stack /\ ws = EffectsOf(s) /\ d = StopFrame(s, ws, FALSE)
  OBVIOUS
<1>2. /\ scope[s].active /\ ~BeingStopped(s) /\ ~(IsNested(s) /\ Walks(scope[s].parent))
      /\ stack' = <<d>> \o c /\ UNCHANGED <<scope, active, owned, created>>
  BY <1>1 DEF StopScope, state
<1>3. /\ IsASeq(c) /\ Frames = ToSet(c) /\ Frames' = {d} \union ToSet(c)
      /\ \A x, y : Above(x, y) <=> Precedes(c, x, y)
      /\ \A x, y : Above(x, y)' <=> (x = d /\ y \in ToSet(c)) \/ Precedes(c, x, y)
      /\ \A x, y : Precedes(c, x, y) => x \in ToSet(c) /\ y \in ToSet(c)
  BY <1>1, <1>2, PushFrames DEF BaseInv
<1>4. d.kind = "stop" /\ d.scope = s /\ ~d.up /\ d.todo = ws /\ d.phase = "effects" /\ d.i = 1
  BY <1>1 DEF StopFrame
<1>5. s \in AllScopes /\ s # Own
  BY ScopesAssumption DEF ScopesAssumption, AllScopes
<1>6. \A w \in active : Records(s, w) => w \in ToSet(ws)
  BY <1>1, EffectsFacts DEF BaseInv, TypeInv, Records
<1>7. IsNested(s) => IsListed(s) /\ scope[s].parent = ParentOf[s]
  <2>1. IsNested(s) => IsListed(s)
    BY <1>2, <1>5 DEF ScopesInv, TreeInv
  <2>2. ParentOf[s] \in AllScopes
    BY ParentFacts
  <2> QED
    BY <2>1, <2>2 DEF ScopesInv, TreeInv, IsListed
<1>8. ASSUME NEW g \in ToSet(c), g.kind = "stop"
      PROVE  g.scope # s /\ (IsNested(s) /\ g.phase = "scopes" => g.scope # ParentOf[s])
  <2>1. PICK i \in DOMAIN stack : stack[i] = g
    BY <1>1, <1>8 DEF ToSet
  <2> QED
    BY <1>2, <1>7, <1>8, <2>1 DEF BeingStopped, Walks
<1>9. TreeInv' /\ ScopeStopsAll'
  BY <1>2 DEF ScopesInv, TreeInv, IsListed, ScopeStopsAll
<1>10. MakingInv'
  BY <1>2, <1>3, <1>4 DEF ScopesInv, MakingInv, IsListed
<1>11. StopsInv'
  <2>1. ASSUME NEW x \in Frames', x.kind = "stop"
        PROVE  /\ \A w \in active' : Records(x.scope, w)' => w \in ToSet(x.todo)
               /\ x.phase # "effects" => x.todo = <<>>
               /\ x.phase # "scopes" => x.i = 1
               /\ x.phase = "scopes" => x.length = Len(scope'[x.scope].scopes) /\ x.i \in 1 .. x.length + 1
               /\ IsNested(x.scope) /\ ~x.up => IsListed(x.scope)'
               /\ x.scope = Own => HasKind("destroy")'
    <3>1. CASE x = d
      BY <1>2, <1>4, <1>5, <1>6, <1>7, <3>1 DEF Records, IsListed
    <3>2. CASE x \in Frames
      <4>1. /\ \A w \in active : Records(x.scope, w) => w \in ToSet(x.todo)
            /\ x.phase # "effects" => x.todo = <<>>
            /\ x.phase # "scopes" => x.i = 1
            /\ x.phase = "scopes" => x.length = Len(scope[x.scope].scopes) /\ x.i \in 1 .. x.length + 1
            /\ IsNested(x.scope) /\ ~x.up => IsListed(x.scope)
            /\ x.scope = Own => HasKind("destroy")
        BY <2>1, <3>2 DEF ScopesInv, StopsInv
      <4>2. HasKind("destroy") => HasKind("destroy")'
        BY <1>3 DEF HasKind
      <4> QED
        BY <1>2, <4>1, <4>2 DEF Records, IsListed
    <3> QED
      BY <1>3, <2>1, <3>1, <3>2
  <2>2. ASSUME NEW x \in Frames', NEW y \in Frames', Above(x, y)' /\ x.kind = "stop" /\ y.kind = "stop" /\ ~x.up
        PROVE  /\ ~y.up => x.scope # y.scope
               /\ IsNested(x.scope) /\ y.phase = "scopes" => y.scope # ParentOf[x.scope]
    <3>1. CASE x = d /\ y \in ToSet(c)
      BY <1>4, <1>8, <2>2, <3>1
    <3>2. CASE Precedes(c, x, y)
      BY <1>3, <2>2, <3>2 DEF ScopesInv, StopsInv
    <3> QED
      BY <1>3, <2>2, <3>1, <3>2
  <2>3. ASSUME NEW x \in Frames', NEW y \in Frames', Above(x, y)' /\ x.kind = "destroy" /\ y.kind = "stop"
        PROVE  y.scope # Own
    BY <1>3, <1>4, <2>3 DEF ScopesInv, StopsInv
  <2> QED
    BY <2>1, <2>2, <2>3 DEF StopsInv
<1>12. WalksInv'
  <2>1. HasPassed(c, scope, {})
    BY <1>1 DEF ScopesInv, WalksInv
  <2>2. HasPassed(c, scope, {s})
    BY <2>1, PassedMore
  <2>3. TopPassed(d, scope, {})
    BY <1>4 DEF TopPassed
  <2>4. PICK u : u = stack'
    OBVIOUS
  <2>5. HasPassed(u, scope, {})
    BY <1>2, <1>3, <1>4, <2>2, <2>3, <2>4, StopPassed
  <2> QED
    BY <1>2, <2>4, <2>5 DEF WalksInv
<1> QED
  BY <1>9, <1>10, <1>11, <1>12 DEF ScopesInv

LEMMA DestroyScopes ==
  ASSUME BaseInv, ScopesInv, Destroy
  PROVE  ScopesInv'
<1>1. PICK c, ws, d, e, t : /\ c = stack /\ ws = EffectsOf(Own) /\ d = StopFrame(Own, ws, FALSE)
                            /\ e = Frame("destroy") /\ t = <<e>> \o c
  OBVIOUS
<1>2. IsASeq(c) /\ Frames = ToSet(c) /\ \A x, y : Above(x, y) <=> Precedes(c, x, y)
  BY <1>1 DEF BaseInv, StackInv, InOrder, Frames, Above
<1>3. /\ \A f \in Frames : f.kind # "destroy"
      /\ stack' = <<d>> \o t /\ UNCHANGED <<scope, active, owned, created>>
  <2>1. \A f \in Frames : f.kind # "destroy"
    BY DEF Destroy, Frames, ToSet
  <2>2. stack' = <<d, e>> \o c
    BY <1>1 DEF Destroy
  <2>3. stack' = <<d>> \o t
    BY <1>1, <1>2, <2>2, StackedTwice, ZenonT(60)
  <2> QED
    BY <2>1, <2>3 DEF Destroy, state
<1>4. /\ IsASeq(t) /\ Frames' = {d, e} \union ToSet(c)
      /\ \A x, y : Above(x, y)' <=> (\/ x = d /\ y \in {e} \union ToSet(c)
                                     \/ x = e /\ y \in ToSet(c)
                                     \/ Precedes(c, x, y))
      /\ \A x, y : Precedes(c, x, y) => x \in ToSet(c) /\ y \in ToSet(c)
  <2>1. /\ IsASeq(t) /\ ToSet(t) = {e} \union ToSet(c)
        /\ \A x, y : Precedes(t, x, y) <=> (x = e /\ y \in ToSet(c)) \/ Precedes(c, x, y)
    <3>1. t = <<e>> \o c /\ IsASeq(c)
      BY <1>1, <1>2
    <3> QED
      BY <3>1, Stacked
  <2>2. PICK u : u = stack'
    OBVIOUS
  <2>3. /\ ToSet(u) = {d} \union ToSet(t)
        /\ \A x, y : Precedes(u, x, y) <=> (x = d /\ y \in ToSet(t)) \/ Precedes(t, x, y)
    BY <1>3, <2>1, <2>2, Stacked
  <2>4. \A x, y : Precedes(c, x, y) => x \in ToSet(c) /\ y \in ToSet(c)
    BY <1>2, SetFacts
  <2> QED
    BY <2>1, <2>2, <2>3, <2>4 DEF Frames, Above
<1>5. /\ d.kind = "stop" /\ d.scope = Own /\ ~d.up /\ d.todo = ws /\ d.phase = "effects" /\ d.i = 1
      /\ e.kind = "destroy"
  BY <1>1 DEF StopFrame, Frame
<1>6. \A w \in active : Records(Own, w) => w \in ToSet(ws)
  BY <1>1, EffectsFacts DEF BaseInv, TypeInv, Records
<1>7. ~IsNested(Own)
  BY ScopesAssumption DEF ScopesAssumption, IsNested
\* There has been no stop() of the scope of the component.
<1>8. ASSUME NEW g \in ToSet(c), g.kind = "stop" PROVE g.scope # Own
  BY <1>2, <1>3, <1>8 DEF ScopesInv, StopsInv, HasKind
<1>9. TreeInv' /\ ScopeStopsAll'
  BY <1>3 DEF ScopesInv, TreeInv, IsListed, ScopeStopsAll
<1>10. MakingInv'
  BY <1>2, <1>3, <1>4, <1>5 DEF ScopesInv, MakingInv, IsListed
<1>11. StopsInv'
  <2>1. ASSUME NEW x \in Frames', x.kind = "stop"
        PROVE  /\ \A w \in active' : Records(x.scope, w)' => w \in ToSet(x.todo)
               /\ x.phase # "effects" => x.todo = <<>>
               /\ x.phase # "scopes" => x.i = 1
               /\ x.phase = "scopes" => x.length = Len(scope'[x.scope].scopes) /\ x.i \in 1 .. x.length + 1
               /\ IsNested(x.scope) /\ ~x.up => IsListed(x.scope)'
               /\ x.scope = Own => HasKind("destroy")'
    <3>1. CASE x = d
      <4>1. HasKind("destroy")'
        BY <1>4, <1>5 DEF HasKind
      <4>2. \A w \in active' : Records(Own, w)' => w \in ToSet(ws)
        BY <1>3, <1>6 DEF Records
      <4> QED
        BY <1>5, <1>7, <3>1, <4>1, <4>2
    <3>2. CASE x \in Frames
      <4>1. /\ \A w \in active : Records(x.scope, w) => w \in ToSet(x.todo)
            /\ x.phase # "effects" => x.todo = <<>>
            /\ x.phase # "scopes" => x.i = 1
            /\ x.phase = "scopes" => x.length = Len(scope[x.scope].scopes) /\ x.i \in 1 .. x.length + 1
            /\ IsNested(x.scope) /\ ~x.up => IsListed(x.scope)
            /\ x.scope # Own
        BY <1>2, <1>8, <2>1, <3>2 DEF ScopesInv, StopsInv
      <4> QED
        BY <1>3, <4>1 DEF Records, IsListed
    <3> QED
      BY <1>2, <1>4, <1>5, <2>1, <3>1, <3>2
  <2>2. ASSUME NEW x \in Frames', NEW y \in Frames', Above(x, y)' /\ x.kind = "stop" /\ y.kind = "stop" /\ ~x.up
        PROVE  /\ ~y.up => x.scope # y.scope
               /\ IsNested(x.scope) /\ y.phase = "scopes" => y.scope # ParentOf[x.scope]
    <3>1. CASE x = d /\ y \in ToSet(c)
      BY <1>5, <1>7, <1>8, <2>2, <3>1
    <3>2. CASE Precedes(c, x, y)
      BY <1>2, <1>4, <2>2, <3>2 DEF ScopesInv, StopsInv
    <3> QED
      BY <1>4, <1>5, <2>2, <3>1, <3>2
  <2>3. ASSUME NEW x \in Frames', NEW y \in Frames', Above(x, y)' /\ x.kind = "destroy" /\ y.kind = "stop"
        PROVE  y.scope # Own
    <3>1. y \in ToSet(c)
      BY <1>4, <1>5, <2>3
    <3> QED
      BY <1>8, <2>3, <3>1
  <2> QED
    BY <2>1, <2>2, <2>3 DEF StopsInv
<1>12. WalksInv'
  <2>1. HasPassed(t, scope, {})
    BY <1>1, <1>2, <1>5, QuietPassed DEF ScopesInv, WalksInv
  <2>2. HasPassed(t, scope, {Own})
    BY <2>1, PassedMore
  <2>3. TopPassed(d, scope, {})
    BY <1>5 DEF TopPassed
  <2>4. PICK u : u = stack'
    OBVIOUS
  <2>5. HasPassed(u, scope, {})
    BY <1>3, <1>4, <1>5, <2>2, <2>3, <2>4, StopPassed
  <2> QED
    BY <1>3, <2>4, <2>5 DEF WalksInv
<1> QED
  BY <1>9, <1>10, <1>11, <1>12 DEF ScopesInv

-----------------------------------------------------------------------------
(***************************************************************************)
(* The other steps, and the theorem.                                       *)
(***************************************************************************)
QuietStep ==
  \/ UNCHANGED stack
  \/ stack # <<>> /\ Top.kind # "stop" /\ stack' = Callers
  \/ \E f : Quiet(f) /\ stack # <<>> /\ Top.kind # "stop" /\ stack' = <<f>> \o Callers
  \/ \E f : Quiet(f) /\ stack' = <<f>> \o stack
  \/ \E f, g : /\ Quiet(f) /\ Quiet(g) /\ stack # <<>> /\ Top.kind # "stop"
               /\ stack' = <<f>> \o (<<g>> \o Callers)

LEMMA QuietScopes ==
  ASSUME BaseInv, ScopesInv, UNCHANGED <<scope, owned>>, active' \subseteq active, QuietStep
  PROVE  ScopesInv'
<1>1. StackInv
  BY DEF BaseInv
<1>2. CASE UNCHANGED stack
  BY <1>1, <1>2, ScopesStay
<1>3. CASE stack # <<>> /\ Top.kind # "stop" /\ stack' = Callers
  BY <1>1, <1>3, ScopesPop
<1>4. CASE \E f : Quiet(f) /\ stack # <<>> /\ Top.kind # "stop" /\ stack' = <<f>> \o Callers
  BY <1>1, <1>4, ScopesSwap
<1>5. CASE \E f : Quiet(f) /\ stack' = <<f>> \o stack
  BY <1>1, <1>5, ScopesPush
<1>6. CASE \E f, g : /\ Quiet(f) /\ Quiet(g) /\ stack # <<>> /\ Top.kind # "stop"
                     /\ stack' = <<f>> \o (<<g>> \o Callers)
  BY <1>1, <1>6, ScopesSwapPush
<1> QED
  BY <1>2, <1>3, <1>4, <1>5, <1>6 DEF QuietStep

LEMMA FramesAreQuiet ==
  /\ \A w, n, o : Quiet(Callback(w, n, o))
  /\ \A w, t, n : Quiet(Cleaning(w, t, n))
  /\ \A k, w : k \notin {"stop", "setup", "destroy"} => Quiet(Call(k, w)) /\ Quiet(ListFrame(k, w)) /\ Quiet(Frame(k))
BY DEF Quiet, Callback, Cleaning, Call, ListFrame, Frame

LEMMA RunningQuiet ==
  ASSUME GetEffect \/ GetSource \/ RunStopped \/ RunEffect \/ RunWithCallback \/ EndCleanup
           \/ EndEffect \/ EndCallback
  PROVE  QuietStep /\ UNCHANGED <<scope, owned, active>>
<1>1. UNCHANGED <<scope, owned, active>> /\ stack # <<>> /\ Top.kind # "stop"
  BY DEF GetEffect, GetSource, RunStopped, RunEffect, RunWithCallback, EndCleanup, EndEffect,
         EndCallback, On, state
<1>2. PICK w, o, n : w = Top.w /\ o = old[w] /\ n = val[SourceOf(w)]
  OBVIOUS
<1>3. PICK m : m = Top.new
  OBVIOUS
<1>4. /\ Quiet(Callback(w, n, o)) /\ Quiet(Callback(w, m, o))
      /\ Quiet(Cleaning(w, "effect", Initial)) /\ Quiet(Cleaning(w, "callback", n))
      /\ Quiet(Call("get", w)) /\ Quiet(Call("effect", w))
  BY FramesAreQuiet
<1>5. \/ stack' = Callers
      \/ stack' = <<Callback(w, n, o)>> \o Callers \/ stack' = <<Callback(w, m, o)>> \o Callers
      \/ stack' = <<Cleaning(w, "effect", Initial)>> \o Callers
      \/ stack' = <<Cleaning(w, "callback", n)>> \o Callers
      \/ stack' = <<Call("get", w)>> \o Callers \/ stack' = <<Call("effect", w)>> \o Callers
  BY <1>2, <1>3 DEF GetEffect, GetSource, RunStopped, RunEffect, RunWithCallback, EndCleanup, EndEffect,
         EndCallback, BeginEffect, BeginCleanup, BeginCallback
<1> QED
  BY <1>1, <1>4, <1>5 DEF QuietStep

LEMMA ComponentQuiet ==
  ASSUME BaseInv,
         NotifyNext \/ EndNotify \/ EndSetup \/ EndRender \/ RunBuffered \/ CallMounted \/ EmitMounted
           \/ RunOnce \/ EndMounted \/ BeginHook \/ EndHook \/ EndDestroy \/ EndDispose
           \/ (\E w \in Watchers : RunQueued(w))
  PROVE  QuietStep /\ UNCHANGED <<scope, owned, active>>
<1>1. UNCHANGED <<scope, owned, active>>
  BY DEF NotifyNext, EndNotify, EndSetup, EndRender, RunBuffered, CallMounted, EmitMounted, RunOnce,
         EndMounted, BeginHook, EndHook, EndDestroy, EndDispose, RunQueued, state
<1>0. SUFFICES QuietStep
  BY <1>1
<1>2. CASE EndNotify \/ EndMounted \/ EndHook \/ EndDestroy \/ EndDispose
  BY <1>2 DEF EndNotify, EndMounted, EndHook, EndDestroy, EndDispose, On, QuietStep
<1>3. CASE NotifyNext
  <2>1. PICK w, g : w = Head(Top.todo) /\ g = ListFrame("notify", Tail(Top.todo))
    OBVIOUS
  <2>2. PICK f : f = Call("run", w)
    OBVIOUS
  <2>3. Quiet(f) /\ Quiet(g)
    BY <2>1, <2>2, FramesAreQuiet
  <2>4. stack' = <<f>> \o (<<g>> \o Callers) \/ stack' = <<g>> \o Callers
    BY <1>3, <2>1, <2>2 DEF NotifyNext
  <2>5. stack # <<>> /\ Top.kind # "stop"
    BY <1>3 DEF NotifyNext, On
  <2> QED
    BY <2>3, <2>4, <2>5 DEF QuietStep
<1>4. CASE EndSetup \/ EndRender \/ CallMounted \/ EmitMounted
  <2>1. PICK b, o : b = buffer /\ o = once
    OBVIOUS
  <2>2. /\ Quiet(Frame("render")) /\ Quiet(ListFrame("pre", b)) /\ Quiet(Frame("mounted"))
        /\ Quiet(ListFrame("once", o))
    BY FramesAreQuiet
  <2>3. \/ stack' = <<Frame("render")>> \o Callers \/ stack' = <<ListFrame("pre", b)>> \o Callers
        \/ stack' = <<Frame("mounted")>> \o Callers \/ stack' = <<ListFrame("once", o)>> \o Callers
    BY <1>4, <2>1 DEF EndSetup, EndRender, CallMounted, EmitMounted
  <2>4. stack # <<>> /\ Top.kind # "stop"
    BY <1>4 DEF EndSetup, EndRender, CallMounted, EmitMounted, On
  <2> QED
    BY <2>2, <2>3, <2>4 DEF QuietStep
<1>5. CASE RunBuffered \/ RunOnce
  <2>1. PICK w, t : w = Head(Top.todo) /\ t = Tail(Top.todo)
    OBVIOUS
  <2>2. stack # <<>> /\ Top.kind # "stop"
    BY <1>5 DEF RunBuffered, RunOnce, On
  <2>3. IsASeq(Callers)
    BY <2>2, Peeled DEF BaseInv
  <2>4. \E f, g : Quiet(f) /\ Quiet(g) /\ stack' = <<f, g>> \o Callers
    <3>1. /\ Quiet(Call("run", w)) /\ Quiet(Call("get", w))
          /\ Quiet(ListFrame("pre", t)) /\ Quiet(ListFrame("once", t))
      BY FramesAreQuiet
    <3>2. \/ stack' = <<Call("run", w), ListFrame("pre", t)>> \o Callers
          \/ stack' = <<Call("get", w), ListFrame("once", t)>> \o Callers
      BY <1>5, <2>1 DEF RunBuffered, RunOnce
    <3> QED
      BY <3>1, <3>2
  <2>5. PICK f, g : Quiet(f) /\ Quiet(g) /\ stack' = <<f, g>> \o Callers
    BY <2>4
  <2>6. stack' = <<f>> \o (<<g>> \o Callers)
    BY <2>3, <2>5, StackedTwice
  <2> QED
    BY <2>2, <2>5, <2>6 DEF QuietStep
<1>6. CASE BeginHook \/ (\E w \in Watchers : RunQueued(w))
  <2>1. \A w : Quiet(Frame("hook")) /\ Quiet(Call("run", w))
    BY FramesAreQuiet
  <2>2. stack' = <<Frame("hook")>> \o stack \/ \E w \in Watchers : stack' = <<Call("run", w)>> \o stack
    BY <1>6 DEF BeginHook, RunQueued
  <2> QED
    BY <2>1, <2>2 DEF QuietStep
<1> QED
  BY <1>2, <1>3, <1>4, <1>5, <1>6

LEMMA UserQuiet ==
  ASSUME OnCleanup \/ (\E w \in Watchers : Stop(w)) \/ (\E r \in Refs, v \in Values : Write(r, v))
  PROVE  QuietStep /\ UNCHANGED <<scope, owned>> /\ active' \subseteq active
<1>1. UNCHANGED <<scope, owned>> /\ active' \subseteq active
  BY DEF OnCleanup, Stop, Write, Teardown
<1>2. CASE OnCleanup
  BY <1>2 DEF OnCleanup, QuietStep
<1>3. ASSUME NEW w \in Watchers, Stop(w) PROVE QuietStep
  <2>1. Quiet(Cleaning(w, "stop", Initial))
    BY FramesAreQuiet
  <2>2. UNCHANGED stack \/ stack' = <<Cleaning(w, "stop", Initial)>> \o stack
    BY <1>3 DEF Stop, Teardown, TornDown, BeginCleanup
  <2> QED
    BY <2>1, <2>2 DEF QuietStep
<1>4. ASSUME NEW r \in Refs, NEW v \in Values, Write(r, v) PROVE QuietStep
  <2>1. PICK f : f = ListFrame("notify", subs[r])
    OBVIOUS
  <2>2. Quiet(f) /\ stack' = <<f>> \o stack
    BY <1>4, <2>1, FramesAreQuiet DEF Write
  <2> QED
    BY <2>2 DEF QuietStep
<1> QED
  BY <1>1, <1>2, <1>3, <1>4

LEMMA ScopesNext ==
  ASSUME BaseInv, ScopesInv, Next
  PROVE  ScopesInv'
<1>1. CASE GetEffect \/ GetSource \/ RunStopped \/ RunEffect \/ RunWithCallback \/ EndCleanup
             \/ EndEffect \/ EndCallback
  BY <1>1, RunningQuiet, QuietScopes
<1>2. CASE NotifyNext \/ EndNotify \/ EndSetup \/ EndRender \/ RunBuffered \/ CallMounted \/ EmitMounted
             \/ RunOnce \/ EndMounted \/ BeginHook \/ EndHook \/ EndDestroy \/ EndDispose
             \/ (\E w \in Watchers : RunQueued(w))
  BY <1>2, ComponentQuiet, QuietScopes
<1>3. CASE OnCleanup \/ (\E w \in Watchers : Stop(w)) \/ (\E r \in Refs, v \in Values : Write(r, v))
  BY <1>3, UserQuiet, QuietScopes
<1>4. CASE MakeScope \/ Destroy
  BY <1>4, MakeScopeScopes, DestroyScopes
<1>5. CASE StopEffect \/ BeginDispose \/ BeginScopes \/ StopScopes \/ EndStop
  BY <1>5, StopEffectScopes, BeginDisposeScopes, BeginScopesScopes, StopScopesScopes, EndStopScopes
<1>6. ASSUME NEW w \in Watchers, Create(w) PROVE ScopesInv'
  BY <1>6, CreateScopes
<1>7. ASSUME NEW s \in Scopes, StopScope(s) PROVE ScopesInv'
  BY <1>7, StopScopeScopes
<1> QED
  BY <1>1, <1>2, <1>3, <1>4, <1>5, <1>6, <1>7 DEF Next

LEMMA ScopesInit ==
  ASSUME Init
  PROVE  ScopesInv
<1>1. PICK f : f = ListFrame("setup", ScopeOrder)
  OBVIOUS
<1>2. f.kind = "setup" /\ f.todo = ScopeOrder
  BY <1>1 DEF ListFrame
<1>3. Frames = {f}
  <2>1. stack = <<f>>
    BY <1>1 DEF Init
  <2>2. DOMAIN <<f>> = {1} /\ <<f>>[1] = f
    OBVIOUS
  <2> QED
    BY <2>1, <2>2 DEF Frames, ToSet
<1>4. PICK r : r = [Scope(Own, 0) EXCEPT !.active = FALSE]
  OBVIOUS
<1>5. /\ r = [active |-> FALSE, scopes |-> <<>>, parent |-> Own, index |-> 0]
      /\ Scope(Own, 0) = [active |-> TRUE, scopes |-> <<>>, parent |-> Own, index |-> 0]
  BY <1>4 DEF Scope
<1>6. /\ scope = [s \in AllScopes |-> scope[s]]
      /\ \A s \in AllScopes : scope[s] = [active |-> s = Own, scopes |-> <<>>, parent |-> Own, index |-> 0]
  BY <1>5 DEF Init, NoneConstructed, AllScopes, Scope
<1>7. Own \in AllScopes /\ ~IsNested(Own)
  BY ScopesAssumption DEF ScopesAssumption, IsNested, AllScopes
<1>8. /\ scope \in ScopeStates
      /\ \A s \in AllScopes : scope[s].scopes = <<>> /\ (scope[s].active <=> s = Own)
  <2>1. \A s \in AllScopes : scope[s].scopes = <<>>
    BY <1>6
  <2>2. ASSUME NEW s \in AllScopes PROVE scope[s].active <=> s = Own
    <3>1. CASE s = Own
      <4>1. scope[s] = [active |-> TRUE, scopes |-> <<>>, parent |-> Own, index |-> 0]
        BY <1>7, <3>1, Zenon DEF Init, NoneConstructed, AllScopes, Scope
      <4> QED
        BY <3>1, <4>1
    <3>2. CASE s # Own
      <4>1. scope[s] = [active |-> FALSE, scopes |-> <<>>, parent |-> Own, index |-> 0]
        BY <1>6, <3>2
      <4> QED
        BY <3>2, <4>1
    <3> QED
      BY <3>1, <3>2
  <2>3. ASSUME NEW s \in AllScopes
        PROVE  scope[s] \in [active : BOOLEAN, scopes : Seq(Scopes), parent : AllScopes, index : Nat]
    <3>1. PICK b : b = (s = Own)
      OBVIOUS
    <3>2. b \in BOOLEAN /\ <<>> \in Seq(Scopes) /\ 0 \in Nat
      BY <3>1
    <3>3. scope[s] = [active |-> b, scopes |-> <<>>, parent |-> Own, index |-> 0]
      BY <1>6, <3>1
    <3> QED
      BY <1>7, <3>2, <3>3
  <2>4. scope \in ScopeStates
    BY <1>6, <2>3 DEF ScopeStates
  <2> QED
    BY <2>1, <2>2, <2>4
<1>9. DOMAIN <<>> = {}
  OBVIOUS
<1>10. TreeInv
  <2>1. ASSUME NEW s \in AllScopes, ~scope[s].active, NEW t \in Within[s] PROVE ~scope[t].active
    <3>1. t \in AllScopes /\ s # Own
      BY <1>7, <1>8, <2>1, WithinFacts
    <3>2. t # Own
      BY <1>7, <2>1, <3>1, WithinParent
    <3> QED
      BY <1>8, <3>1, <3>2
  <2> QED
    BY <1>7, <1>8, <1>9, <2>1 DEF TreeInv
<1>11. MakingInv
  <2>1. ASSUME NEW s \in ToSet(ScopeOrder) PROVE ~scope[s].active /\ ~IsListed(s)
    <3>1. s \in Scopes /\ s # Own /\ s \in AllScopes /\ ParentOf[s] \in AllScopes
      BY <2>1, ParentFacts, ScopesAssumption DEF Scopes, ScopesAssumption
    <3> QED
      BY <1>8, <1>9, <3>1 DEF IsListed
  <2>2. IsInjective(ScopeOrder)
    BY ScopesAssumption DEF ScopesAssumption
  <2> QED
    BY <1>2, <1>3, <2>1, <2>2 DEF MakingInv
<1>12. StopsInv
  BY <1>2, <1>3 DEF StopsInv
<1>13. WalksInv
  BY <1>2, <1>3 DEF WalksInv, HasPassed, Frames, ToSet
<1>14. ScopeStopsAll
  BY DEF Init, ScopeStopsAll
<1> QED
  BY <1>10, <1>11, <1>12, <1>13, <1>14 DEF ScopesInv

\* The stack is sound ...
LEMMA BaseNext ==
  ASSUME BaseInv, ScopesInv, Next
  PROVE  BaseInv'
<1>1. CASE GetEffect \/ GetSource \/ RunStopped \/ RunEffect \/ RunWithCallback
             \/ EndCleanup \/ EndEffect \/ EndCallback
  BY <1>1, RunBase
<1>2. CASE NotifyNext
  BY <1>2, NotifyBase
<1>3. CASE \E w \in Watchers : RunQueued(w)
  BY <1>3, RunQueuedBase
<1>4. CASE EndNotify \/ MakeScope \/ EndSetup \/ EndRender \/ RunBuffered \/ CallMounted \/ EmitMounted
             \/ RunOnce \/ EndMounted \/ BeginHook \/ EndHook
  BY <1>4, ComponentBase
<1>5. CASE StopEffect \/ BeginDispose \/ EndDispose \/ BeginScopes \/ StopScopes \/ EndStop \/ EndDestroy
  <2>1. \A s \in AllScopes : scope[s].scopes \in Seq(Scopes)
    BY DEF ScopesInv, TreeInv, ScopeStates
  <2>2. \A f \in Frames : f.kind = "stop" /\ f.phase = "scopes" =>
          f.length = Len(scope[f.scope].scopes) /\ f.i \in 1 .. f.length + 1
    BY DEF ScopesInv, StopsInv
  <2> QED
    BY <1>5, <2>1, <2>2, StoppingBase
<1>6. CASE OnCleanup \/ Destroy \/ (\E w \in Watchers : Create(w) \/ Stop(w))
             \/ (\E s \in Scopes : StopScope(s)) \/ (\E r \in Refs, v \in Values : Write(r, v))
  BY <1>6, UserBase
<1> QED
  BY <1>1, <1>2, <1>3, <1>4, <1>5, <1>6 DEF Next

\* A stuttering step changes nothing.
LEMMA ScopesStutter ==
  ASSUME BaseInv, ScopesInv, UNCHANGED vars
  PROVE  BaseInv' /\ ScopesInv'
<1>1. /\ UNCHANGED <<val, subs, deps, created, active, owned, old, cleanup, queued, buffer, once,
                     isMounted, destroyed, scope, stack>>
      /\ UNCHANGED <<last, owed, early, ownTrigger>>
  BY DEF vars, state, history
<1>2. Frames' = Frames /\ Made' = Made /\ (\A f, g : Above(f, g)' <=> Above(f, g))
  BY <1>1 DEF Frames, Made, Above
<1>3. ScopesInv'
  <2>1. StackInv
    BY DEF BaseInv
  <2> QED
    BY <1>1, <2>1, ScopesStay
<1>4. SubsInv' /\ TypeInv'
  BY <1>1, <1>2 DEF BaseInv, SubsInv, TypeInv
<1>5. StackInv'
  <2>1. StackInv
    BY DEF BaseInv
  <2> QED
    BY <1>1, <1>2, <2>1, StackStays
<1> QED
  BY <1>3, <1>4, <1>5 DEF BaseInv

LEMMA ScopesInductive ==
  Spec => [](BaseInv /\ ScopesInv)
<1>1. Init => BaseInv /\ ScopesInv
  BY InitBase, ScopesInit
<1>2. BaseInv /\ ScopesInv /\ [Next]_vars => (BaseInv /\ ScopesInv)'
  BY BaseNext, ScopesNext, ScopesStutter
<1> QED
  BY <1>1, <1>2, PTL DEF Spec

\* Whatever user code does, in whatever order scopes, watchers and the component are
\* stopped from wherever it runs: once stop() of a scope has ended none of the watchers
\* recorded in it, or in a scope inside of it, is alive (effectScope.ts:85-118).
THEOREM ScopeStopsAllCorrect == Spec => []ScopeStopsAll
<1>1. ScopesInv => ScopeStopsAll
  BY DEF ScopesInv
<1> QED
  BY <1>1, ScopesInductive, PTL
=============================================================================
