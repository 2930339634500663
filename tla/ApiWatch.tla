------------------------------- MODULE ApiWatch -------------------------------
(***************************************************************************)
(* watch() and watchEffect() of the composition API                        *)
(* (src/v3/apiWatch.ts): the watchers of one component from its setup()    *)
(* to its destruction, their flush timings, their old values and their     *)
(* cleanup functions, and the effect scopes they are recorded in.          *)
(*                                                                         *)
(* Every watcher has one source, a ref.  What user code does is left open: *)
(* in setup(), in hooks, in callbacks, effects and cleanups it may write   *)
(* refs, create and stop watchers and register cleanups.  stack is the     *)
(* JavaScript call stack, its top first.  The order in which queued        *)
(* watchers run is the subject of Scheduler; here any of them may be next. *)
(***************************************************************************)
EXTENDS EffectScope, FiniteSets, FiniteSetsExt, Sublists

CONSTANTS
  Refs,            \* the refs that watchers watch
  Values,          \* their values
  Watchers,        \* all the watchers that may be created
  Effects,         \* those of watchEffect(); the others have a callback
  Immediate,       \* watchers with the option immediate
  Deep,            \* watchers with the option deep, or of a shallow ref
  Pre, Post, Sync, \* the flush timings
  SourceOf(_),     \* the ref a watcher watches
  ScopeOf(_),      \* the scope in whose run() a watcher is made, or Own
  Disposes,        \* the scopes with a function given to onScopeDispose
  CreatedIn,       \* the bottom frames under which watchers are created, see Frames
  StopsMidway,     \* may a watcher be stopped by its own cleanup, when it is called for a
                   \* rerun, and a post effect before hook:mounted?
  Reenters,        \* may code that a sync watcher calls write the source of that watcher?
  Initial,         \* INITIAL_WATCHER_VALUE
  Free,            \* user code outside of watchers
  MaxOps           \* bound of the model: number of user operations

ASSUME ConstantsAssumption ==
  /\ Effects \subseteq Watchers
  /\ Immediate \subseteq Watchers \ Effects
  /\ Deep \subseteq Watchers \ Effects
  /\ Watchers = Pre \union Post \union Sync
  /\ Pre \intersect Post = {} /\ Sync \intersect (Pre \union Post) = {}
  /\ \A w \in Watchers : SourceOf(w) \in Refs
  /\ \A w \in Watchers : ScopeOf(w) \in Scopes \union {Own}
  /\ Disposes \subseteq Scopes
  /\ CreatedIn \subseteq {"setup", "mounted", "hook", "job"}
  /\ StopsMidway \in BOOLEAN /\ Reenters \in BOOLEAN
  /\ Initial \notin Values
  /\ (Watchers \union {Free}) \intersect (Scopes \union {Own}) = {}
  /\ Free \notin Watchers
  /\ MaxOps \in Nat

VARIABLES
  val,        \* val[r]: the value of ref r
  subs,       \* subs[r]: the watchers subscribed to r, in that order
  deps,       \* watchers whose last evaluation left them with a dependency
  created,    \* watchers created so far, in that order
  active,     \* those not torn down since
  owned,      \* those created with the component as current instance
  old,        \* old[w]: oldValue of w; what the body of an effect has read
  cleanup,    \* watchers with a cleanup function
  queued,     \* watchers in the queue of the scheduler
  buffer,     \* instance._preWatchers
  once,       \* effects waiting for hook:mounted
  isMounted,  \* instance._isMounted
  destroyed,  \* instance._isDestroyed
  scope,      \* the effect scopes
  stack,      \* frames of the call stack, the top first
  ops         \* user operations so far

\* What the properties need to know of the past
VARIABLES
  last,       \* last[w]: the value the last callback of w got, or the first value
  owed,       \* watchers whose latest cleanup has not been called
  early,      \* watchers triggered in setup() and not run since
  ownTrigger  \* effects triggered by themselves since their body began

history == <<last, owed, early, ownTrigger>>
state == <<val, subs, deps, created, active, owned, old, cleanup, queued, buffer, once,
           isMounted, destroyed, scope>>
vars == <<state, stack, ops, history>>

-----------------------------------------------------------------------------
(***************************************************************************)
(* Frames.  "setup", "render", "pre", "mounted", "once" and "hook" are at  *)
(* the bottom; without any of them a job of the scheduler or of the        *)
(* application is running.                                                 *)
(***************************************************************************)
Frame(kind)          == [kind |-> kind, w |-> Free, todo |-> <<>>]
ListFrame(kind, ws)  == [kind |-> kind, w |-> Free, todo |-> ws]
Call(kind, w)        == [kind |-> kind, w |-> w, todo |-> <<>>]
Callback(w, new, o)  == [kind |-> "callback", w |-> w, todo |-> <<>>, new |-> new, old |-> o]
StopFrame(s, ws, up) == [kind |-> "stop", w |-> Free, todo |-> ws, scope |-> s, up |-> up,
                         phase |-> "effects", i |-> 1, length |-> 0]
Cleaning(w, then, n) == [kind |-> "cleanup", w |-> w, todo |-> <<>>, then |-> then, new |-> n]

Top == Head(stack)
Callers == Tail(stack)
On(kind) == stack # <<>> /\ Top.kind = kind
Bottom == IF stack = <<>> THEN "job" ELSE
          IF Last(stack).kind \in {"setup", "render", "pre", "mounted", "once", "hook"}
            THEN Last(stack).kind ELSE "job"

\* currentInstance is the component
IsCurrent == Bottom \in {"setup", "mounted", "once", "hook"}

\* Dep.target: the effect whose getter is on top, calling its cleanup or its body
Targets(f) == f.kind = "effect" \/ (f.kind = "cleanup" /\ f.then = "effect")
Target ==
  LET getters == { i \in DOMAIN stack : Targets(stack[i]) }
  IN  IF getters = {} THEN Free ELSE stack[Min(getters)].w

\* a run of w is under way
IsUnderWay(w) == \E i \in DOMAIN stack :
  stack[i].w = w /\ ~(stack[i].kind = "cleanup" /\ stack[i].then = "stop")

-----------------------------------------------------------------------------
Init ==
  /\ val \in [Refs -> Values]
  /\ subs = [r \in Refs |-> <<>>]
  /\ deps = {} /\ created = <<>> /\ active = {} /\ owned = {}
  /\ old = [w \in Watchers |-> Initial]
  /\ cleanup = {} /\ queued = {} /\ buffer = <<>> /\ once = <<>>
  /\ isMounted = FALSE /\ destroyed = FALSE
  /\ scope = NoneConstructed
  /\ stack = <<ListFrame("setup", ScopeOrder)>>
  /\ ops = 0
  /\ last = [w \in Watchers |-> Initial]
  /\ owed = {} /\ early = {} /\ ownTrigger = {}

-----------------------------------------------------------------------------
(***************************************************************************)
(* Running a watcher.                                                      *)
(***************************************************************************)

\* the getter of w reads its source
Subscribe(w) ==
  LET r == SourceOf(w)
  IN  subs' = IF Contains(subs[r], w) THEN subs ELSE [subs EXCEPT ![r] = Append(@, w)]

\* removeSub, for a watcher that goes
Unsubscribed(r, w) == Sublist(subs[r], { i \in DOMAIN subs[r] : subs[r][i] # w })

\* get() of an effect calls the body
BeginEffect(w, below) ==
  /\ Subscribe(w)
  /\ old' = [old EXCEPT ![w] = val[SourceOf(w)]]
  /\ ownTrigger' = ownTrigger \ {w}
  /\ early' = early \ {w}
  /\ stack' = <<Call("effect", w)>> \o below

\* The cleanup function of w is called, and then then happens.
BeginCleanup(w, then, new, below) ==
  /\ stack' = <<Cleaning(w, then, new)>> \o below
  /\ owed' = owed \ {w}

\* mutant: the cleanup is left to stop()
GetEffectWithoutCleanup ==
  /\ On("get") /\ Top.w \in Effects
  /\ BeginEffect(Top.w, Callers) /\ UNCHANGED <<deps, owed>>
  /\ UNCHANGED <<val, created, active, owned, cleanup, queued, buffer, once, isMounted,
                 destroyed, scope, ops, last>>

\* the getter of an effect: not when the instance is destroyed; cleanup first
GetEffect ==
  /\ On("get") /\ Top.w \in Effects
  /\ LET w == Top.w
     IN  \/ /\ w \in owned /\ destroyed
            /\ stack' = Callers
            /\ deps' = deps \ {w}
            /\ subs' = [r \in Refs |-> Unsubscribed(r, w)]
            /\ UNCHANGED <<old, owed, early, ownTrigger>>
         \/ /\ ~(w \in owned /\ destroyed) /\ w \in cleanup
            /\ BeginCleanup(w, "effect", Initial, Callers)
            /\ UNCHANGED <<subs, deps, old, early, ownTrigger>>
         \/ /\ ~(w \in owned /\ destroyed) /\ w \notin cleanup
            /\ BeginEffect(w, Callers)
            /\ UNCHANGED <<deps, owed>>
  /\ UNCHANGED <<val, created, active, owned, cleanup, queued, buffer, once, isMounted,
                 destroyed, scope, ops, last>>

\* the first evaluation of a source that is not immediate
GetSource ==
  /\ On("get") /\ Top.w \notin Effects
  /\ Subscribe(Top.w)
  /\ deps' = deps \union {Top.w}
  /\ old' = [old EXCEPT ![Top.w] = val[SourceOf(Top.w)]]
  /\ last' = [last EXCEPT ![Top.w] = val[SourceOf(Top.w)]]
  /\ stack' = Callers
  /\ UNCHANGED <<val, created, active, owned, cleanup, queued, buffer, once, isMounted,
                 destroyed, scope, ops, owed, early, ownTrigger>>

\* mutant: run() of a watcher that was stopped
RunsStopped(w) == TRUE

Runs(w) == w \in active

\* watcher.run as apiWatch.ts defines it
RunStopped ==
  /\ On("run") /\ ~Runs(Top.w)
  /\ stack' = Callers
  /\ UNCHANGED <<state, ops, history>>

RunEffect ==
  /\ On("run") /\ Runs(Top.w) /\ Top.w \in Effects
  /\ stack' = <<Call("get", Top.w)>> \o Callers
  /\ UNCHANGED <<state, ops, history>>

BeginCallback(w, new, below) ==
  /\ stack' = <<Callback(w, new, old[w])>> \o below
  /\ last' = [last EXCEPT ![w] = new]

RunWithCallback ==
  /\ On("run") /\ Runs(Top.w) /\ Top.w \notin Effects
  /\ LET w   == Top.w
         new == val[SourceOf(w)]
         fires == w \in Deep \/ new # old[w]
     IN  /\ Subscribe(w)
         /\ deps' = deps \union {w}
         /\ early' = early \ {w}
         /\ \/ ~fires /\ stack' = Callers /\ UNCHANGED <<owed, last>>
            \/ fires /\ w \in cleanup /\ BeginCleanup(w, "callback", new, Callers)
               /\ UNCHANGED last
            \/ fires /\ w \notin cleanup /\ BeginCallback(w, new, Callers)
               /\ UNCHANGED owed
  /\ UNCHANGED <<val, created, active, owned, old, cleanup, queued, buffer, once, isMounted,
                 destroyed, scope, ops, ownTrigger>>

EndCleanup ==
  /\ On("cleanup")
  /\ \/ /\ Top.then = "effect" /\ BeginEffect(Top.w, Callers) /\ UNCHANGED last
     \/ /\ Top.then = "callback" /\ BeginCallback(Top.w, Top.new, Callers)
        /\ UNCHANGED <<subs, old, early, ownTrigger>>
     \/ /\ Top.then = "stop" /\ stack' = Callers
        /\ UNCHANGED <<subs, old, early, ownTrigger, last>>
  /\ UNCHANGED <<val, deps, created, active, owned, cleanup, queued, buffer, once, isMounted,
                 destroyed, scope, ops, owed>>

EndEffect ==
  /\ On("effect")
  /\ deps' = deps \union {Top.w}
  /\ stack' = Callers
  /\ UNCHANGED <<val, subs, created, active, owned, old, cleanup, queued, buffer, once,
                 isMounted, destroyed, scope, ops, history>>

\* mutant: the old value stays
EndCallbackKeepsOld ==
  /\ On("callback")
  /\ stack' = Callers
  /\ UNCHANGED <<state, ops, history>>

\* oldValue = newValue, after the callback
EndCallback ==
  /\ On("callback")
  /\ old' = [old EXCEPT ![Top.w] = Top.new]
  /\ stack' = Callers
  /\ UNCHANGED <<val, subs, deps, created, active, owned, cleanup, queued, buffer, once,
                 isMounted, destroyed, scope, ops, history>>

-----------------------------------------------------------------------------
(***************************************************************************)
(* Triggering: watcher.update as the flush timing defines it.              *)
(***************************************************************************)

\* a pre watcher triggered in setup() waits for the mount
IsBuffered(w) == w \in Pre /\ w \in owned /\ IsCurrent /\ ~isMounted

\* mutant: effects do not trigger each other
IsOwnTriggerAny(w) == w \in Effects /\ Target # Free

\* queueWatcher does not let an effect trigger itself
IsOwnTrigger(w) == w \in Effects /\ w = Target

NotifyNext ==
  /\ On("notify") /\ Top.todo # <<>>
  /\ LET w    == Head(Top.todo)
         rest == <<ListFrame("notify", Tail(Top.todo))>> \o Callers
     IN  /\ \/ /\ w \in Sync
               /\ stack' = <<Call("run", w)>> \o rest
               /\ UNCHANGED <<queued, buffer, ownTrigger>>
            \/ /\ w \notin Sync /\ IsBuffered(w)
               /\ buffer' = IF Contains(buffer, w) THEN buffer ELSE Append(buffer, w)
               /\ stack' = rest
               /\ UNCHANGED <<queued, ownTrigger>>
            \/ /\ w \notin Sync /\ ~IsBuffered(w)
               /\ queued' = IF IsOwnTrigger(w) THEN queued ELSE queued \union {w}
               /\ ownTrigger' = IF w = Target THEN ownTrigger \union {w} ELSE ownTrigger
               /\ stack' = rest
               /\ UNCHANGED buffer
         /\ early' = IF w \in Pre /\ Bottom = "setup" THEN early \union {w} ELSE early
  /\ UNCHANGED <<val, subs, deps, created, active, owned, old, cleanup, once, isMounted,
                 destroyed, scope, ops, last, owed>>

EndNotify ==
  /\ On("notify") /\ Top.todo = <<>>
  /\ stack' = Callers
  /\ UNCHANGED <<state, ops, history>>

RunQueued(w) ==
  /\ stack = <<>>
  /\ w \in queued
  /\ queued' = queued \ {w}
  /\ stack' = <<Call("run", w)>> \o stack
  /\ UNCHANGED <<val, subs, deps, created, active, owned, old, cleanup, buffer, once,
                 isMounted, destroyed, scope, ops, history>>

-----------------------------------------------------------------------------
(***************************************************************************)
(* The life of the component.                                              *)
(***************************************************************************)
\* effectScope() in setup(), inside of the run() of its parent unless that has
\* stopped; the scope of a watcher is made before it
MakeScope ==
  /\ On("setup") /\ Top.todo # <<>>
  /\ LET s == Head(Top.todo)
     IN  scope' = IF scope[ParentOf[s]].active THEN Constructed(scope, s) ELSE scope
  /\ stack' = <<ListFrame("setup", Tail(Top.todo))>> \o Callers
  /\ UNCHANGED <<val, subs, deps, created, active, owned, old, cleanup, queued, buffer, once,
                 isMounted, destroyed, ops, history>>

EndSetup ==
  /\ On("setup") /\ Top.todo = <<>>
  /\ stack' = <<Frame("render")>> \o Callers
  /\ UNCHANGED <<state, ops, history>>

\* mountComponent: the first render, then the buffered watchers
EndRender ==
  /\ On("render")
  /\ stack' = <<ListFrame("pre", buffer)>> \o Callers
  /\ UNCHANGED <<state, ops, history>>

RunBuffered ==
  /\ On("pre") /\ Top.todo # <<>>
  /\ stack' = <<Call("run", Head(Top.todo)), ListFrame("pre", Tail(Top.todo))>> \o Callers
  /\ UNCHANGED <<state, ops, history>>

CallMounted ==
  /\ On("pre") /\ Top.todo = <<>>
  /\ isMounted' = TRUE
  /\ stack' = <<Frame("mounted")>> \o Callers
  /\ UNCHANGED <<val, subs, deps, created, active, owned, old, cleanup, queued, buffer, once,
                 destroyed, scope, ops, history>>

\* $emit('hook:mounted') calls a copy of the handlers, each for the last time.
EmitMounted ==
  /\ On("mounted")
  /\ stack' = <<ListFrame("once", once)>> \o Callers
  /\ once' = <<>>
  /\ UNCHANGED <<val, subs, deps, created, active, owned, old, cleanup, queued, buffer,
                 isMounted, destroyed, scope, ops, history>>

\* the handler calls get(), not run()
RunOnce ==
  /\ On("once") /\ Top.todo # <<>>
  /\ stack' = <<Call("get", Head(Top.todo)), ListFrame("once", Tail(Top.todo))>> \o Callers
  /\ UNCHANGED <<state, ops, history>>

EndMounted ==
  /\ On("once") /\ Top.todo = <<>>
  /\ stack' = Callers
  /\ UNCHANGED <<state, ops, history>>

\* a hook of the mounted component: updated, activated ...
BeginHook ==
  /\ stack = <<>> /\ isMounted /\ ~destroyed
  /\ ops < MaxOps /\ ops' = ops + 1
  /\ stack' = <<Frame("hook")>> \o stack
  /\ UNCHANGED <<state, history>>

EndHook ==
  /\ On("hook")
  /\ stack' = Callers
  /\ UNCHANGED <<state, ops, history>>

\* teardown() of a live watcher ends with onStop
TornDown(w, below) ==
  IF w \in cleanup THEN BeginCleanup(w, "stop", Initial, below)
                   ELSE stack' = below /\ UNCHANGED owed

Teardown(w, below) ==
  /\ active' = active \ {w}
  /\ subs' = [r \in Refs |-> IF w \in deps THEN Unsubscribed(r, w) ELSE subs[r]]
  /\ TornDown(w, below)
  /\ UNCHANGED <<val, deps, created, owned, old, cleanup, queued, buffer, once, isMounted,
                 last, early, ownTrigger>>

(***************************************************************************)
(* EffectScope.stop: the effects, the functions given to onScopeDispose,   *)
(* then the scopes within, as many as there are at that moment.            *)
(***************************************************************************)
\* A watcher of the component that is torn down leaves the effects of its scope.
EffectsOf(s) ==
  Sublist(created, { i \in DOMAIN created :
    /\ ScopeOf(created[i]) = s
    /\ s = Own => created[i] \in owned \intersect active })

StopEffect ==
  /\ On("stop") /\ Top.todo # <<>>
  /\ LET w    == Head(Top.todo)
         rest == <<[Top EXCEPT !.todo = Tail(@)]>> \o Callers
     IN  IF w \in active
           THEN Teardown(w, rest)
           ELSE /\ stack' = rest
                /\ UNCHANGED <<val, subs, deps, created, active, owned, old, cleanup, queued,
                               buffer, once, isMounted, history>>
  /\ UNCHANGED <<destroyed, scope, ops>>

Disposing(f) == f.phase = "effects" /\ f.scope \in Disposes

\* user code given to onScopeDispose
BeginDispose ==
  /\ On("stop") /\ Top.todo = <<>> /\ Disposing(Top)
  /\ stack' = <<Call("dispose", Top.scope), [Top EXCEPT !.phase = "dispose"]>> \o Callers
  /\ UNCHANGED <<state, ops, history>>

EndDispose ==
  /\ On("dispose")
  /\ stack' = Callers
  /\ UNCHANGED <<state, ops, history>>

BeginScopes ==
  /\ On("stop") /\ Top.todo = <<>> /\ ~Disposing(Top) /\ Top.phase # "scopes"
  /\ stack' = <<[Top EXCEPT !.phase = "scopes", !.length = Len(scope[Top.scope].scopes)]>> \o Callers
  /\ UNCHANGED <<state, ops, history>>

StopScopes ==
  /\ On("stop") /\ Top.phase = "scopes" /\ Top.i <= Top.length
  /\ LET child == scope[Top.scope].scopes[Top.i]
         rest  == <<[Top EXCEPT !.i = @ + 1]>> \o Callers
     IN  stack' = IF scope[child].active THEN <<StopFrame(child, EffectsOf(child), TRUE)>> \o rest
                                        ELSE rest
  /\ UNCHANGED <<state, ops, history>>

EndStop ==
  /\ On("stop") /\ Top.phase = "scopes" /\ Top.i > Top.length
  /\ scope' = Stopped(scope, Top.scope, Top.up)
  /\ stack' = Callers
  /\ UNCHANGED <<val, subs, deps, created, active, owned, old, cleanup, queued, buffer, once,
                 isMounted, destroyed, ops, history>>

\* ... and $off() removes the listeners, those of hook:mounted too
EndDestroy ==
  /\ On("destroy")
  /\ destroyed' = TRUE
  /\ once' = <<>>
  /\ stack' = Callers
  /\ UNCHANGED <<val, subs, deps, created, active, owned, old, cleanup, queued, buffer,
                 isMounted, scope, ops, history>>

-----------------------------------------------------------------------------
(***************************************************************************)
(* User code.                                                              *)
(***************************************************************************)
UserCode ==
  stack # <<>> =>
    Top.kind \in {"setup", "render", "mounted", "hook", "callback", "effect", "cleanup", "dispose"}

UserOp == UserCode /\ ops < MaxOps /\ ops' = ops + 1

\* whose code is running: a watcher, a scope that is stopped, or Free
Author == IF stack = <<>> THEN Free ELSE Top.w

Write(r, v) ==
  /\ UserOp
  /\ Reenters \/ \A w \in Sync : IsUnderWay(w) => SourceOf(w) # r
  /\ v # val[r]
  /\ val' = [val EXCEPT ![r] = v]
  /\ stack' = <<ListFrame("notify", subs[r])>> \o stack
  /\ UNCHANGED <<subs, deps, created, active, owned, old, cleanup, queued, buffer, once,
                 isMounted, destroyed, scope, history>>

\* watch() and watchEffect(), to the first evaluation
Create(w) ==
  /\ UserOp
  /\ ~Contains(created, w)
  /\ Bottom \in CreatedIn
  /\ Author = Free
  /\ ~destroyed
  /\ scope[ScopeOf(w)].active
  /\ created' = Append(created, w)
  /\ active' = active \union {w}
  /\ owned' = IF IsCurrent THEN owned \union {w} ELSE owned
  /\ IF w \in Effects \intersect Post /\ IsCurrent
       THEN once' = Append(once, w) /\ UNCHANGED stack
       ELSE /\ stack' = <<Call(IF w \in Immediate THEN "run" ELSE "get", w)>> \o stack
            /\ UNCHANGED once
  /\ UNCHANGED <<val, subs, deps, old, cleanup, queued, buffer, isMounted, destroyed, scope, history>>

\* onCleanup(), in the callback or the effect it was passed to
OnCleanup ==
  /\ UserOp
  /\ On("callback") \/ On("effect")
  /\ Top.w \in active
  /\ cleanup' = cleanup \union {Top.w}
  /\ owed' = owed \union {Top.w}
  /\ UNCHANGED <<val, subs, deps, created, active, owned, old, queued, buffer, once,
                 isMounted, destroyed, scope, stack, last, early, ownTrigger>>

InRerun(w) == \E i \in DOMAIN stack :
  stack[i].kind = "cleanup" /\ stack[i].then # "stop" /\ stack[i].w = w

IsWaiting(w) ==
  Contains(once, w) \/ \E i \in DOMAIN stack : stack[i].kind = "once" /\ Contains(stack[i].todo, w)

\* the function that watch() returned
Stop(w) ==
  /\ UserOp
  /\ w \in active
  /\ StopsMidway \/ ~(InRerun(w) \/ IsWaiting(w))
  /\ Teardown(w, stack)
  /\ UNCHANGED <<destroyed, scope>>

\* scope.stop().  Left out: a function of onScopeDispose that stops its own scope
\* or, while the scope around walks its list, another one of that list; see the
\* README.
BeingStopped(s) == \E i \in DOMAIN stack : stack[i].kind = "stop" /\ stack[i].scope = s

Walks(s) == \E i \in DOMAIN stack :
  stack[i].kind = "stop" /\ stack[i].scope = s /\ stack[i].phase = "scopes"

StopScope(s) ==
  /\ UserOp
  /\ scope[s].active /\ ~BeingStopped(s)
  /\ ~(IsNested(s) /\ Walks(scope[s].parent))
  /\ StopsMidway \/ \A w \in active : IsWithin(ScopeOf(w), s) => ~(InRerun(w) \/ IsWaiting(w))
  /\ stack' = <<StopFrame(s, EffectsOf(s), FALSE)>> \o stack
  /\ UNCHANGED <<state, history>>

\* $destroy of the mounted component: _scope.stop() tears its watchers down
Destroy ==
  /\ UserOp
  /\ StopsMidway \/ \A w \in active : ~InRerun(w)
  /\ isMounted /\ ~destroyed
  /\ \A i \in DOMAIN stack : stack[i].kind # "destroy"
  /\ stack' = <<StopFrame(Own, EffectsOf(Own), FALSE), Frame("destroy")>> \o stack
  /\ UNCHANGED <<state, history>>

-----------------------------------------------------------------------------
Next ==
  \/ GetEffect \/ GetSource \/ RunStopped \/ RunEffect \/ RunWithCallback
  \/ EndCleanup \/ EndEffect \/ EndCallback \/ NotifyNext \/ EndNotify
  \/ MakeScope \/ EndSetup \/ EndRender \/ RunBuffered \/ CallMounted \/ EmitMounted \/ RunOnce
  \/ EndMounted \/ BeginHook \/ EndHook \/ EndDestroy
  \/ StopEffect \/ BeginDispose \/ EndDispose \/ BeginScopes \/ StopScopes \/ EndStop
  \/ OnCleanup \/ Destroy
  \/ \E w \in Watchers : RunQueued(w) \/ Create(w) \/ Stop(w)
  \/ \E s \in Scopes : StopScope(s)
  \/ \E r \in Refs, v \in Values : Write(r, v)

Spec == Init /\ [][Next]_vars

-----------------------------------------------------------------------------
(***************************************************************************)
(* Safety.                                                                 *)
(***************************************************************************)
IsRunning(w) ==
  \E i \in DOMAIN stack : stack[i].w = w \/ Contains(stack[i].todo, w)

\* A step calls the callback or the effect of w.
Begins(w) ==
  /\ stack' # <<>> /\ stack' # stack /\ Len(stack') >= Len(stack)
  /\ Head(stack').w = w /\ Head(stack').kind \in {"callback", "effect"}

IsPending(w) == w \in queued \/ IsRunning(w) \/ (~isMounted /\ Contains(buffer, w))

\* No change is missed.  A live watcher that has nothing pending compares with,
\* or has seen, the current value of its source, except for what an effect
\* wrote itself (apiWatch.ts:273-327).  Pre watchers triggered in setup() run
\* before the mounted hook ("should be buffered and called before mounted", a
\* test, apiWatch.spec.ts:619), and post effects created before it have run at
\* the end of the mount ('flush timing: post', a test, apiWatch.spec.ts:370).
SeesCurrentValue ==
  /\ \A w \in active :
       ~IsPending(w) /\ ~Contains(once, w) /\ w \notin ownTrigger => old[w] = val[SourceOf(w)]
  /\ isMounted => early \intersect active = {}
  /\ stack = <<>> /\ isMounted => \A w \in active \intersect Effects : old[w] # Initial

\* Before a callback or an effect runs again the cleanup registered by an
\* earlier run has been called, and when a watcher is stopped, by stop() or by
\* $destroy, the one that is still to be called is (apiWatch.ts:229, 247, 292,
\* watcher.ts:272).
CleanedBeforeRerun ==
  [][/\ \A w \in Watchers : Begins(w) => w \notin owed
     /\ \A w \in active \ active' : w \notin owed']_vars

\* The old value a callback gets is the new value its previous call got, or
\* the first value of the source, or undefined in the first call of an
\* immediate watcher (apiWatch.ts:296-302).
OldIsLast ==
  [][\A w \in Watchers :
       Begins(w) /\ Head(stack').kind = "callback" => Head(stack').old = last[w]]_vars

\* A scope that has stopped has stopped all the watchers recorded in it and in the
\* scopes inside of it, in whatever order scopes were stopped before; and so has a
\* component that is destroyed (EffectScope.stop, with its removal of a scope from
\* the list of its parent).
ScopeStopsAll ==
  \A s \in Scopes \union {Own} : ~scope[s].active =>
    \A w \in active : ~IsWithin(ScopeOf(w), s) \/ (ScopeOf(w) = Own /\ w \notin owned)

\* A stopped watcher never calls its callback or its effect again ("stopping
\* the watcher (effect)" ... "should not update", a test,
\* test/unit/features/v3/apiWatch.spec.ts:230-242).
NeverAfterStop == [][\A w \in Watchers : Begins(w) => w \in active]_vars
===============================================================================
