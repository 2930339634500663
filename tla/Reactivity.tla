------------------------------ MODULE Reactivity ------------------------------
(***************************************************************************)
(* Dependency tracking: deps, watchers and computed properties             *)
(* (src/core/observer/dep.ts, src/core/observer/watcher.ts, the getter of  *)
(* a computed property in src/core/instance/state.ts and                   *)
(* src/v3/reactivity/computed.ts).                                         *)
(*                                                                         *)
(* The data are a parameter; ReactiveData is Vue's.  A getter is a         *)
(* program: NextSource(w, seen) is what the getter of watcher w reads      *)
(* next, a source in the data or a computed property, given the values it  *)
(* has seen so far, so that its dependencies may change with the data.     *)
(* The value of a watcher is what its getter saw.  stack is the JavaScript *)
(* call stack, its top first.                                              *)
(*                                                                         *)
(* When queued watchers run, and in which order, is the subject of         *)
(* Scheduler; here the scheduler may run any of them when the stack is     *)
(* empty.                                                                  *)
(***************************************************************************)
EXTENDS Integers, Sequences, FiniteSets, SequencesExt

CONSTANTS
  InitialData,       \* the data when the first watcher is made
  TouchedBy(_, _),   \* in given data, the Deps that a read of a source touches, in order
  ValueIn(_, _),     \* the value it gives
  AfterRead(_, _),   \* the data it leaves
  CanMutate(_, _),   \* is the mutation possible?
  MutatedBy(_, _),   \* its result: the data, and the Dep it notifies, if any
  Mutations,         \* what user code does to the data, by name
  Deps,              \* the Deps of the data
  Lazy,              \* computed properties
  Sync,              \* watchers that run inside the notification (sync: true)
  Async,             \* watchers that are queued, the render watchers among them
  WithCallback,      \* the watchers with a user callback
  Deep,              \* those that are deep, or whose value is an object
  NextSource(_, _),  \* what the getter of a watcher reads next
  Done,              \* the getter returns
  DepsOf(_, _),      \* in given data, the Deps that speak for a source: one of them is
                     \* notified when what it yields changes
  Hole,              \* null in the subscriber list of a dep
  ReadsMidway,       \* may callbacks read computed properties, or create watchers
                     \* that do, while a notification is in progress?
  MaxOps             \* bound of the model: number of user operations

Watchers == Lazy \union Sync \union Async

ASSUME ConstantsAssumption ==
  /\ Lazy \intersect (Sync \union Async) = {}
  /\ Sync \intersect Async = {}
  /\ WithCallback \subseteq Sync \union Async
  /\ Deep \subseteq WithCallback
  /\ Done \notin Lazy
  /\ Hole \notin Watchers
  /\ ReadsMidway \in BOOLEAN
  /\ MaxOps \in Nat

VARIABLES
  heap,     \* the data
  subs,     \* subs[d]: subscribers in order of subscription, holes included
  pending,  \* deps in pendingCleanupDeps, those with _pending set
  deps,     \* deps[w]: what w depends on, in the order it was read
  newDeps,  \* newDeps[w]: what the current evaluation of w has read so far
  value,    \* value[w]: what the getter of w saw when it last returned
  dirty,    \* computed properties to be evaluated when read next
  created,  \* watchers whose constructor has been called
  active,   \* those not torn down since
  queued,   \* watchers in the queue of the scheduler
  stack,    \* frames of the call stack, the top first
  ops       \* user operations so far

vars == <<heap, subs, pending, deps, newDeps, value, dirty, created, active, queued, stack, ops>>

-----------------------------------------------------------------------------
(***************************************************************************)
(* The call stack.                                                         *)
(***************************************************************************)
Frame(kind, w, why, seen, todo) ==
  [kind |-> kind, w |-> w, why |-> why, seen |-> seen, todo |-> todo]

\* A getter has seen values, and has yet to depend on the Deps of the last one.
GetFrame(w, why) == Frame("get", w, why, <<>>, <<>>)
Getting(f, seen, ds) == Frame("get", f.w, f.why, seen, ds)

CallbackFrame(w) == Frame("callback", w, "run", <<>>, <<>>)

\* A notification has yet to call the subscribers ws.
NotifyFrame(ws) == Frame("notify", Hole, "set", <<>>, ws)

Top == Head(stack)
Callers == Tail(stack)

InGetter == stack # <<>> /\ Top.kind = "get"
InNotify == stack # <<>> /\ Top.kind = "notify"

\* Code that writes runs between jobs and in callbacks: getters only read.
UserCode == stack # <<>> => Top.kind = "callback"

Evaluating == { stack[i].w : i \in { j \in DOMAIN stack : stack[j].kind = "get" } }

\* Subscribers the notifications in progress have yet to call
ToNotify == UNION { ToSet(stack[i].todo) : i \in { j \in DOMAIN stack : stack[j].kind = "notify" } }

-----------------------------------------------------------------------------
Init ==
  /\ heap = InitialData
  /\ subs = [d \in Deps |-> <<>>]
  /\ pending = {}
  /\ deps = [w \in Watchers |-> <<>>]
  /\ newDeps = [w \in Watchers |-> <<>>]
  /\ value = [w \in Watchers |-> <<>>]
  /\ dirty = Lazy
  /\ created = Lazy
  /\ active = Lazy
  /\ queued = {}
  /\ stack = <<>>
  /\ ops = 0

-----------------------------------------------------------------------------
(***************************************************************************)
(* Subscribing and unsubscribing.                                          *)
(***************************************************************************)
\* Watcher.addDep
addDep(w, d) ==
  IF Contains(newDeps[w], d) THEN UNCHANGED <<newDeps, subs>>
  ELSE /\ newDeps' = [newDeps EXCEPT ![w] = Append(@, d)]
       /\ subs' = IF Contains(deps[w], d) THEN subs ELSE [subs EXCEPT ![d] = Append(@, w)]

\* Dep.removeSub: the subscriber becomes a hole until the next cleanup
Unsubscribed(w, ds) ==
  [d \in Deps |->
     IF d \in ds /\ Contains(subs[d], w)
       THEN [subs[d] EXCEPT ![CHOOSE i \in DOMAIN subs[d] : subs[d][i] = w] = Hole]
       ELSE subs[d]]

\* mutant: deps that are no longer read stay subscribed
DroppedDepsNone(w) == {}

\* Watcher.cleanupDeps: what the last evaluation read and this one did not
DroppedDeps(w) == ToSet(deps[w]) \ ToSet(newDeps[w])

\* The subscribers in the list s, in their order; SelectSeq, but not recursive
Filtered(s) ==
  LET kept == { i \in DOMAIN s : s[i] # Hole }
  IN  [n \in 1 .. Cardinality(kept) |->
         s[CHOOSE i \in kept : Cardinality({ j \in kept : j <= i }) = n]]

\* A read gives v, and touches ds, for the getter that reads, if any.
Returned(st, v, ds) ==
  IF st # <<>> /\ Head(st).kind = "get"
    THEN <<Getting(Head(st), Append(Head(st).seen, v), ds)>> \o Tail(st)
    ELSE st

-----------------------------------------------------------------------------
(***************************************************************************)
(* A getter runs.                                                          *)
(***************************************************************************)
\* Dep.depend of the next Dep of what was read last
Depend ==
  /\ InGetter /\ Top.todo # <<>>
  /\ addDep(Top.w, Head(Top.todo))
  /\ stack' = <<Getting(Top, Top.seen, Tail(Top.todo))>> \o Callers
  /\ UNCHANGED <<heap, pending, deps, value, dirty, created, active, queued, ops>>

Source == NextSource(Top.w, Top.seen)

Reading == InGetter /\ Top.todo = <<>>

ReadData ==
  /\ Reading /\ Source \notin Lazy \union {Done}
  /\ stack' = Returned(stack, ValueIn(heap, Source), TouchedBy(heap, Source))
  /\ heap' = AfterRead(heap, Source)
  /\ UNCHANGED <<subs, pending, deps, newDeps, value, dirty, created, active, queued, ops>>

\* computedGetter of c: evaluate if dirty, else return the value; its reader
\* depends on its deps from the last to the first
Computed(c) ==
  stack' = IF c \in dirty THEN <<GetFrame(c, "read")>> \o stack
                          ELSE Returned(stack, value[c], Reverse(deps[c]))

ReadComputed(c) ==
  /\ Reading /\ Source = c
  /\ Computed(c)
  /\ UNCHANGED <<heap, subs, pending, deps, newDeps, value, dirty, created, active, queued, ops>>

\* The getter returns: popTarget() and cleanupDeps().
Finish(why) ==
  /\ Reading /\ Source = Done /\ Top.why = why
  /\ deps' = [deps EXCEPT ![Top.w] = newDeps[Top.w]]
  /\ newDeps' = [newDeps EXCEPT ![Top.w] = <<>>]
  /\ subs' = Unsubscribed(Top.w, DroppedDeps(Top.w))
  /\ pending' = pending \union DroppedDeps(Top.w)
  /\ value' = [value EXCEPT ![Top.w] = Top.seen]
  /\ UNCHANGED <<heap, created, active, queued, ops>>

\* evaluate(), and what is left of the computedGetter that called it
EndEvaluate ==
  /\ Finish("read")
  /\ dirty' = dirty \ {Top.w}
  /\ stack' = Returned(Callers, Top.seen, Reverse(newDeps[Top.w]))

\* the constructor keeps the value
EndConstruct ==
  /\ Finish("new")
  /\ stack' = Callers
  /\ UNCHANGED dirty

\* run() calls the callback if the value has changed, or may have inside
CallsBack(w) == w \in Deep \/ (w \in WithCallback /\ Top.seen # value[w])

EndRun ==
  /\ Finish("run")
  /\ stack' = IF CallsBack(Top.w) THEN <<CallbackFrame(Top.w)>> \o Callers ELSE Callers
  /\ UNCHANGED dirty

EndCallback ==
  /\ stack # <<>> /\ Top.kind = "callback"
  /\ stack' = Callers
  /\ UNCHANGED <<heap, subs, pending, deps, newDeps, value, dirty, created, active, queued, ops>>

-----------------------------------------------------------------------------
(***************************************************************************)
(* A notification calls update() of each subscriber.                       *)
(***************************************************************************)

\* mutant: run() does not look at active
RunsAnyway(w, below) == <<GetFrame(w, "run")>> \o below

\* Watcher.run on top of the frames below
Runs(w, below) ==
  IF w \in active THEN <<GetFrame(w, "run")>> \o below ELSE below

NotifyNext ==
  /\ InNotify /\ Top.todo # <<>>
  /\ LET w    == Head(Top.todo)
         rest == <<NotifyFrame(Tail(Top.todo))>> \o Callers
     IN  /\ dirty' = IF w \in Lazy THEN dirty \union {w} ELSE dirty
         /\ queued' = IF w \in Async THEN queued \union {w} ELSE queued
         /\ stack' = IF w \in Sync THEN Runs(w, rest) ELSE rest
  /\ UNCHANGED <<heap, subs, pending, deps, newDeps, value, created, active, ops>>

EndNotify ==
  /\ InNotify /\ Top.todo = <<>>
  /\ stack' = Callers
  /\ UNCHANGED <<heap, subs, pending, deps, newDeps, value, dirty, created, active, queued, ops>>

-----------------------------------------------------------------------------
(***************************************************************************)
(* The scheduler: run a queued watcher; drop the holes after the flush.    *)
(***************************************************************************)
RunQueued(w) ==
  /\ stack = <<>>
  /\ w \in queued
  /\ queued' = queued \ {w}
  /\ stack' = Runs(w, stack)
  /\ UNCHANGED <<heap, subs, pending, deps, newDeps, value, dirty, created, active, ops>>

CleanupDeps ==
  /\ stack = <<>>
  /\ pending # {}
  /\ subs' = [d \in Deps |-> IF d \in pending THEN Filtered(subs[d]) ELSE subs[d]]
  /\ pending' = {}
  /\ UNCHANGED <<heap, deps, newDeps, value, dirty, created, active, queued, stack, ops>>

-----------------------------------------------------------------------------
(***************************************************************************)
(* User code.                                                              *)
(***************************************************************************)
UserOp == UserCode /\ ops < MaxOps /\ ops' = ops + 1

\* User code writes: the data, then Dep.notify, which calls the subscribers as
\* they are now
Write(op) ==
  /\ UserOp
  /\ CanMutate(heap, op)
  /\ LET done == MutatedBy(heap, op)
     IN  /\ done.heap # heap \/ done.notified \in Deps
         /\ heap' = done.heap
         /\ stack' = IF done.notified \in Deps
                       THEN <<NotifyFrame(Filtered(subs[done.notified]))>> \o stack
                       ELSE stack
  /\ UNCHANGED <<subs, pending, deps, newDeps, value, dirty, created, active, queued>>

MayRead == ReadsMidway \/ \A i \in DOMAIN stack : stack[i].kind # "notify"

\* new Watcher(): the constructor evaluates the getter
Create(w) ==
  /\ UserCode
  /\ w \in (Sync \union Async) \ created
  /\ MayRead
  /\ created' = created \union {w}
  /\ active' = active \union {w}
  /\ stack' = <<GetFrame(w, "new")>> \o stack
  /\ UNCHANGED <<heap, subs, pending, deps, newDeps, value, dirty, queued, ops>>

\* unwatch()
Teardown(w) ==
  /\ UserOp
  /\ w \in active \ Lazy
  /\ active' = active \ {w}
  /\ subs' = Unsubscribed(w, ToSet(deps[w]))
  /\ pending' = pending \union ToSet(deps[w])
  /\ UNCHANGED <<heap, deps, newDeps, value, dirty, created, queued, stack>>

\* user code reads a computed property
Use(c) ==
  /\ UserOp
  /\ ~InGetter
  /\ MayRead
  /\ Computed(c)
  /\ UNCHANGED <<heap, subs, pending, deps, newDeps, value, dirty, created, active, queued>>

-----------------------------------------------------------------------------
Next ==
  \/ Depend \/ ReadData \/ EndEvaluate \/ EndConstruct \/ EndRun \/ EndCallback
  \/ NotifyNext \/ EndNotify \/ CleanupDeps
  \/ \E w \in Watchers : RunQueued(w) \/ Create(w) \/ Teardown(w)
  \/ \E op \in Mutations : Write(op)
  \/ \E c \in Lazy : ReadComputed(c) \/ Use(c)

Spec == Init /\ [][Next]_vars

-----------------------------------------------------------------------------
(***************************************************************************)
(* Safety.                                                                 *)
(***************************************************************************)
Count(s, w) == Cardinality({ i \in DOMAIN s : s[i] = w })

\* The two sides of a subscription agree at every moment, in the middle of an
\* evaluation too: a live watcher is in the list of a dep once if it depends on
\* it (or has just read it), and not at all otherwise; a watcher torn down is
\* in no list; and a list with holes is waiting for its cleanup, so that none is
\* left for ever (watcher.ts:160-190, 263-277, dep.ts:52-56).
SubscribedToDeps ==
  /\ \A w \in Watchers, d \in Deps :
       Count(subs[d], w) =
         IF w \in active /\ (Contains(deps[w], d) \/ Contains(newDeps[w], d)) THEN 1 ELSE 0
  /\ \A d \in Deps : Contains(subs[d], Hole) => d \in pending

\* What the source s of a getter yields now, without evaluating anything
UpToDate(s, v) ==
  IF s \in Lazy THEN s \notin dirty /\ v = value[s] ELSE v = ValueIn(heap, s)

\* The value of w is what its getter would see now.
Fresh(w) ==
  /\ \A i \in DOMAIN value[w] : UpToDate(NextSource(w, SubSeq(value[w], 1, i - 1)), value[w][i])
  /\ NextSource(w, value[w]) = Done

\* No cache is stale and no update is missed: a computed property that is not
\* dirty has the value its getter would return now, unless a notification in
\* progress has yet to reach it (state.ts:295), and a live watcher that is
\* neither queued nor being evaluated nor about to be notified holds the current
\* value, through all the computed properties it reads.
NothingStale ==
  /\ \A c \in Lazy \ (dirty \union ToNotify) : Fresh(c)
  /\ \A w \in active \ (Lazy \union queued \union Evaluating \union ToNotify) :
       \A i \in DOMAIN value[w] :
         LET s == NextSource(w, SubSeq(value[w], 1, i - 1))
         IN  s \in Lazy \intersect ToNotify \/ UpToDate(s, value[w][i])

\* No callback after unwatch(): a callback is called only for a live watcher
\* ("a function that cancels the watching, to stop calling the callback",
\* the comment at state.ts:454).
BeginsCallback(w) == stack # <<>> /\ stack' = <<CallbackFrame(w)>> \o Callers /\ Top.kind = "get"

CallbackOnlyIfActive == [][\A w \in Watchers : BeginsCallback(w) => w \in active]_vars

-----------------------------------------------------------------------------
(***************************************************************************)
(* What tracking relies on.                                                *)
(***************************************************************************)
\* The sources in the data that the getter of w has read
SourcesIn(w, seen) == { NextSource(w, SubSeq(seen, 1, i - 1)) : i \in DOMAIN seen } \ Lazy

HasBeenRead ==
  UNION ({ SourcesIn(w, value[w]) : w \in Watchers }
         \union { SourcesIn(stack[i].w, stack[i].seen) : i \in { j \in DOMAIN stack : stack[j].kind = "get" } })

\* When a write of any kind changes what a source that has been read yields, or which
\* Deps speak for it, one of the Deps that spoke for it notifies; a read changes nothing.
Notified ==
  heap' # heap =>
    \A s \in HasBeenRead' :
      \/ ValueIn(heap', s) = ValueIn(heap, s) /\ DepsOf(heap', s) \subseteq DepsOf(heap, s)
      \/ \E d \in DepsOf(heap, s) \intersect Deps :
           stack' = <<NotifyFrame(Filtered(subs[d]))>> \o stack

\* The Deps that speak for a source are touched by reading it, or the getter depends on
\* them since it read what handed it the object, as for the keys of an object, the
\* items of an array and a property that is not there yet.
Covered ==
  Reading /\ Source \notin Lazy \union {Done} =>
    /\ TouchedBy(heap, Source) \in Seq(Deps)
    /\ DepsOf(heap, Source) \subseteq ToSet(newDeps[Top.w]) \union ToSet(TouchedBy(heap, Source))

\* No change goes unnoticed, in the data: whatever is changed, in the same step one of
\* the Deps notifies that speak for it (reactiveSetter, set, del, the mutators of
\* arrays, triggerRef, index.ts:190-225, 234-336, array.ts:22-53), and no getter gets
\* at anything without having been handed those Deps (childOb.dep.depend() and
\* dependArray, index.ts:179-185).
ChangesReachReaders == [][Notified /\ Covered]_vars

=============================================================================
