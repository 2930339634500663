------------------------------ MODULE Scheduler ------------------------------
(***************************************************************************)
(* The update scheduler of the runtime (src/core/observer/scheduler.ts)    *)
(* together with the nextTick queue it rides on                            *)
(* (src/core/util/next-tick.ts).                                           *)
(*                                                                         *)
(* JavaScript runs one job at a time, so what makes this code hard is not  *)
(* preemption but reentrancy: every hook, getter and callback the flush    *)
(* calls is user code that may queue further watchers, register nextTick   *)
(* callbacks, tear watchers down or destroy components before it returns.  *)
(* Each such call is bracketed by two actions, and between them the user   *)
(* actions below may happen in any order; pc says whose code is running.   *)
(*                                                                         *)
(* A watcher is identified by its id: ids are handed out in creation       *)
(* order, so a parent's are smaller than those of its children.  A         *)
(* component is identified by its render watcher.  The model is the        *)
(* asynchronous (config.async) development build; the production build is  *)
(* the same with MaxUpdateCount beyond reach.                              *)
(***************************************************************************)
EXTENDS Naturals, Sequences, FiniteSets

CONSTANTS
  Watchers,        \* ids of the watchers
  Render,          \* those that are the render watcher (vm._watcher) of a component
  Post,            \* those of watch(source, cb, { flush: 'post' })
  NoRecurse,       \* those of watchEffect: Dep.target during their whole run
  Owner,           \* Owner[w]: the component (its render watcher) that owns w
  CanThrow,        \* those whose run() may let an exception escape (a failing patch)
  Callbacks,       \* callbacks user code hands to nextTick
  Flush,           \* the callback flushSchedulerQueue, as nextTick sees it
  MaxUpdateCount,  \* MAX_UPDATE_COUNT
  MaxOps           \* bound of the model: number of user operations

ASSUME ConstantsAssumption ==
  /\ Watchers \subseteq Nat
  /\ Render \subseteq Watchers
  /\ Post \subseteq Watchers \ Render
  /\ NoRecurse \subseteq Watchers \ Render
  /\ Owner \in [Watchers -> Render]
  /\ CanThrow \subseteq Watchers
  /\ Flush \notin Callbacks
  /\ MaxUpdateCount \in Nat
  /\ MaxOps \in Nat

VARIABLES
  queue,      \* the watchers of this flush, those already run included
  has,        \* the ids w with has[w] = true
  circular,   \* circular[w]: how often w re-queued itself during this flush
  waiting,    \* a flush has been requested and has not finished
  flushing,   \* the flush has started
  index,      \* position of the flush in queue, from 0
  activated,  \* activatedChildren: kept-alive components to activate after the flush
  callbacks,  \* nextTick callbacks of the next tick
  pending,    \* a tick is scheduled
  ticks,      \* flushCallbacks jobs in the microtask queue of the host
  copies,     \* callbacks of the tick being run that are still to be called
  hooks,      \* activated and updated hooks still to be called by this flush
  active,     \* watchers not torn down
  destroyed,  \* destroyed components
  pc,         \* whose code is running
  ops,        \* user operations so far
  need,       \* history: active watchers with a trigger no run has answered yet
  owed,       \* history: owed[c], the watchers needing a run when c was registered
  runs,       \* history: runs[w], how often this flush has run w
  dropped     \* history: watchers the circular-update guard made this flush abandon

queueVars == <<queue, has, circular, waiting, flushing, index, activated>>
tickVars  == <<callbacks, pending, ticks, copies>>
vmVars    == <<active, destroyed>>
ghosts    == <<need, owed, runs, dropped>>
vars      == <<queueVars, tickVars, hooks, vmVars, pc, ops, ghosts>>

-----------------------------------------------------------------------------
(***************************************************************************)
(* Who is running.                                                         *)
(***************************************************************************)
InTick  == {"tick", "callback"}       \* flushCallbacks; one of its callbacks
InFlush == {"loop", "before", "run"}  \* the loop of flushSchedulerQueue; hook; run()
InHooks == {"hooks", "hook"}          \* its activated and updated hooks; one of them

UserCode == pc \in {"idle", "callback", "before", "run", "hook"}

Current == queue[index + 1]

\* The positions of the queue (from 1) whose watcher the flush has yet to
\* start: has[id] is reset when the run of the watcher starts.
Started == IF flushing /\ pc \notin {"loop", "before"} THEN index + 1 ELSE index

Ahead == { i \in DOMAIN queue : i > Started }

Elements(s) == { s[i] : i \in DOMAIN s }

-----------------------------------------------------------------------------
Init ==
  /\ queue = <<>>
  /\ has = {}
  /\ circular = [w \in Watchers |-> 0]
  /\ waiting = FALSE
  /\ flushing = FALSE
  /\ index = 0
  /\ activated = <<>>
  /\ callbacks = <<>>
  /\ pending = FALSE
  /\ ticks = 0
  /\ copies = <<>>
  /\ hooks = <<>>
  /\ active = Watchers
  /\ destroyed = {}
  /\ pc = "idle"
  /\ ops = 0
  /\ need = {}
  /\ owed = [c \in Callbacks |-> {}]
  /\ runs = [w \in Watchers |-> 0]
  /\ dropped = {}

-----------------------------------------------------------------------------
(***************************************************************************)
(* nextTick(cb): append, and schedule a tick unless one is scheduled.      *)
(***************************************************************************)
\* mutant: callbacks.unshift instead of push
NextTickUnshifts(cb) ==
  /\ callbacks' = <<cb>> \o callbacks
  /\ pending' = TRUE
  /\ ticks' = IF pending THEN ticks ELSE ticks + 1
  /\ UNCHANGED copies

NextTickOf(cb) ==
  /\ callbacks' = Append(callbacks, cb)
  /\ pending' = TRUE
  /\ ticks' = IF pending THEN ticks ELSE ticks + 1
  /\ UNCHANGED copies

(***************************************************************************)
(* queueWatcher(w).  Before the flush a watcher is appended; during it the *)
(* watcher goes in front of the trailing watchers with larger ids, but     *)
(* never in front of the one being run.                                    *)
(***************************************************************************)
Spliced(s, p, w) ==
  [i \in 1 .. Len(s) + 1 |->
     IF i < p THEN s[i] ELSE IF i = p THEN w ELSE s[i - 1]]

\* mutant: i >= index, in front of the watcher being run
SplicePointAtCurrent(p, w) ==
  /\ p \in index + 1 .. Len(queue) + 1
  /\ \A i \in p .. Len(queue) : queue[i] > w
  /\ p > index + 1 => queue[p - 1] <= w

\* mutant: queue.push(watcher) also while flushing
SplicePointAtEnd(p, w) == p = Len(queue) + 1

SplicePoint(p, w) ==
  /\ p \in index + 2 .. Len(queue) + 1
  /\ \A i \in p .. Len(queue) : queue[i] > w
  /\ p > index + 2 => queue[p - 1] <= w

Enqueued(w) ==
  IF flushing
    THEN \E p \in 1 .. Len(queue) + 1 :
           SplicePoint(p, w) /\ queue' = Spliced(queue, p, w)
    ELSE queue' = Append(queue, w)

\* watcher === Dep.target && watcher.noRecurse
SelfTrigger(w) == pc = "run" /\ w = Current /\ w \in NoRecurse

\* mutant: the guard if (!waiting) is dropped
RequestFlushAlways == NextTickOf(Flush)

RequestFlush == IF waiting THEN UNCHANGED tickVars ELSE NextTickOf(Flush)

QueueWatcher(w) ==
  IF w \in has \/ SelfTrigger(w)
    THEN UNCHANGED <<queueVars, tickVars>>
    ELSE /\ has' = has \union {w}
         /\ Enqueued(w)
         /\ waiting' = TRUE
         /\ RequestFlush
         /\ UNCHANGED <<circular, flushing, index, activated>>

-----------------------------------------------------------------------------
(***************************************************************************)
(* What user code may do while it runs.  Each operation uses up one unit   *)
(* of the bound MaxOps.                                                    *)
(***************************************************************************)
UserOp == UserCode /\ ops < MaxOps /\ ops' = ops + 1

\* A dependency of w changed (or $forceUpdate): w.update().
Trigger(w) ==
  /\ UserOp
  /\ QueueWatcher(w)
  /\ need' = IF w \in active /\ ~SelfTrigger(w) THEN need \union {w} ELSE need
  /\ UNCHANGED <<hooks, vmVars, pc, owed, runs, dropped>>

\* Vue.nextTick(c)
NextTick(c) ==
  /\ UserOp
  /\ c \notin Elements(callbacks) \union Elements(copies)
  /\ NextTickOf(c)
  /\ owed' = [owed EXCEPT ![c] = need]
  /\ UNCHANGED <<queueVars, hooks, vmVars, pc, need, runs, dropped>>

Forget(ws) ==
  /\ active' = active \ ws
  /\ need' = need \ ws
  /\ owed' = [c \in Callbacks |-> owed[c] \ ws]

\* unwatch(): Watcher.teardown of one watcher
Teardown(w) ==
  /\ UserOp
  /\ w \in active \ Render
  /\ Forget({w})
  /\ UNCHANGED <<queueVars, tickVars, hooks, destroyed, pc, runs, dropped>>

\* vm.$destroy(): the scope of the component tears all its watchers down
Destroy(r) ==
  /\ UserOp
  /\ r \in Render \ destroyed
  /\ destroyed' = destroyed \union {r}
  /\ Forget({ w \in Watchers : Owner[w] = r })
  /\ UNCHANGED <<queueVars, tickVars, hooks, pc, runs, dropped>>

\* queueActivatedComponent, called by the insert hook while a component patches
QueueActivated(r) ==
  /\ UserOp
  /\ pc = "run" /\ Current \in Render
  /\ r \in Render \ destroyed
  /\ activated' = Append(activated, r)
  /\ UNCHANGED <<queue, has, circular, waiting, flushing, index, tickVars,
                 hooks, vmVars, pc, ghosts>>

-----------------------------------------------------------------------------
(***************************************************************************)
(* flushCallbacks: the microtask takes a copy of the callbacks and calls   *)
(* them in order.  Every callback is wrapped in a try/catch.               *)
(***************************************************************************)
\* mutant: the callbacks are cleared before they are copied
BeginTickClearsFirst ==
  /\ pc = "idle" /\ ticks > 0
  /\ ticks' = ticks - 1
  /\ pending' = FALSE
  /\ copies' = <<>>
  /\ callbacks' = <<>>
  /\ pc' = "tick"
  /\ UNCHANGED <<queueVars, hooks, vmVars, ops, ghosts>>

BeginTick ==
  /\ pc = "idle" /\ ticks > 0
  /\ ticks' = ticks - 1
  /\ pending' = FALSE
  /\ copies' = callbacks
  /\ callbacks' = <<>>
  /\ pc' = "tick"
  /\ UNCHANGED <<queueVars, hooks, vmVars, ops, ghosts>>

BeginCallback ==
  /\ pc = "tick" /\ copies # <<>> /\ Head(copies) # Flush
  /\ copies' = Tail(copies)
  /\ pc' = "callback"
  /\ UNCHANGED <<queueVars, callbacks, pending, ticks, hooks, vmVars, ops, ghosts>>

EndCallback ==
  /\ pc = "callback"
  /\ pc' = "tick"
  /\ UNCHANGED <<queueVars, tickVars, hooks, vmVars, ops, ghosts>>

EndTick ==
  /\ pc = "tick" /\ copies = <<>>
  /\ pc' = "idle"
  /\ UNCHANGED <<queueVars, tickVars, hooks, vmVars, ops, ghosts>>

-----------------------------------------------------------------------------
(***************************************************************************)
(* flushSchedulerQueue.                                                    *)
(***************************************************************************)

\* sortCompareFn(a, b) < 0
RunsBefore(a, b) ==
  \/ a \notin Post /\ b \in Post
  \/ (a \in Post <=> b \in Post) /\ a < b

\* queue.sort(sortCompareFn): the one ordering of the (distinct) queued ids
SortedQueues ==
  { s \in [1 .. Len(queue) -> Elements(queue)] :
      /\ Elements(s) = Elements(queue)
      /\ \A i, j \in 1 .. Len(queue) : i < j => RunsBefore(s[i], s[j]) }

BeginFlush ==
  /\ pc = "tick" /\ copies # <<>> /\ Head(copies) = Flush
  /\ copies' = Tail(copies)
  /\ flushing' = TRUE
  /\ queue' \in SortedQueues
  /\ index' = 0
  /\ pc' = "loop"
  /\ runs' = [w \in Watchers |-> 0]
  /\ dropped' = {}
  /\ UNCHANGED <<has, circular, waiting, activated, callbacks, pending, ticks,
                 hooks, vmVars, ops, need, owed>>

More == pc = "loop" /\ index < Len(queue)

\* watcher.before(): the beforeUpdate hook of a component still alive
HasBefore == Current \in Render \ destroyed

BeginBefore ==
  /\ More /\ HasBefore
  /\ pc' = "before"
  /\ UNCHANGED <<queueVars, tickVars, hooks, vmVars, ops, ghosts>>

\* has[id] = null; watcher.run(), which returns at once for a torn-down watcher
BeginRun ==
  /\ pc = "before" \/ (More /\ ~HasBefore)
  /\ has' = has \ {Current}
  /\ IF Current \in active
       THEN /\ pc' = "run"
            /\ need' = need \ {Current}
            /\ owed' = [c \in Callbacks |-> owed[c] \ {Current}]
            /\ runs' = [runs EXCEPT ![Current] = @ + 1]
            /\ UNCHANGED index
       ELSE /\ pc' = "loop"
            /\ index' = index + 1
            /\ UNCHANGED <<need, owed, runs>>
  /\ UNCHANGED <<queue, circular, waiting, flushing, activated, tickVars,
                 hooks, vmVars, ops, dropped>>

\* mutant: waiting stays set
ResetKeepsWaiting ==
  /\ queue' = <<>> /\ activated' = <<>> /\ index' = 0
  /\ has' = {}
  /\ circular' = [w \in Watchers |-> 0]
  /\ waiting' = waiting /\ flushing' = FALSE

ResetSchedulerState ==
  /\ queue' = <<>> /\ activated' = <<>> /\ index' = 0
  /\ has' = {}
  /\ circular' = [w \in Watchers |-> 0]
  /\ waiting' = FALSE /\ flushing' = FALSE

\* The end of flushSchedulerQueue: copies of the two hook queues are taken
\* before the reset; callUpdatedHooks will walk its copy from the end.
FinishLoop ==
  /\ hooks' = [i \in 1 .. Len(activated) |-> <<"activated", activated[i]>>]
              \o [i \in 1 .. Len(queue) |-> <<"updated", queue[Len(queue) + 1 - i]>>]
  /\ ResetSchedulerState
  /\ pc' = "hooks"

TooOften == Current \in has /\ circular[Current] + 1 > MaxUpdateCount

EndRun ==
  /\ pc = "run" /\ ~TooOften
  /\ circular' = IF Current \in has
                   THEN [circular EXCEPT ![Current] = @ + 1] ELSE circular
  /\ index' = index + 1
  /\ pc' = "loop"
  /\ UNCHANGED <<queue, has, waiting, flushing, activated, tickVars, hooks,
                 vmVars, ops, ghosts>>

\* 'You may have an infinite update loop': the rest of the queue is abandoned
BreakFlush ==
  /\ pc = "run" /\ TooOften
  /\ FinishLoop
  /\ dropped' = { queue[i] : i \in Ahead }
  /\ need' = need \ dropped'
  /\ owed' = [c \in Callbacks |-> owed[c] \ dropped']
  /\ UNCHANGED <<tickVars, vmVars, ops, runs>>

\* An exception leaves run() and the flush; the wrapper of nextTick catches
\* it, and nothing resets the state of the scheduler.
RunThrows ==
  /\ pc = "run" /\ Current \in CanThrow
  /\ pc' = "tick"
  /\ UNCHANGED <<queueVars, tickVars, hooks, vmVars, ops, ghosts>>

EndLoop ==
  /\ pc = "loop" /\ index >= Len(queue)
  /\ FinishLoop
  /\ UNCHANGED <<tickVars, vmVars, ops, ghosts>>

\* callActivatedHooks, then callUpdatedHooks: the updated hook is for render
\* watchers of live components only
Calls(h) == h[1] = "activated" \/ h[2] \in Render \ destroyed

BeginHook ==
  /\ pc = "hooks" /\ hooks # <<>>
  /\ hooks' = Tail(hooks)
  /\ pc' = IF Calls(Head(hooks)) THEN "hook" ELSE "hooks"
  /\ UNCHANGED <<queueVars, tickVars, vmVars, ops, ghosts>>

EndHook ==
  /\ pc = "hook"
  /\ pc' = "hooks"
  /\ UNCHANGED <<queueVars, tickVars, hooks, vmVars, ops, ghosts>>

EndFlush ==
  /\ pc = "hooks" /\ hooks = <<>>
  /\ pc' = "tick"
  /\ UNCHANGED <<queueVars, tickVars, hooks, vmVars, ops, ghosts>>

-----------------------------------------------------------------------------
User ==
  \/ \E w \in Watchers : Trigger(w) \/ Teardown(w)
  \/ \E r \in Render : Destroy(r) \/ QueueActivated(r)
  \/ \E c \in Callbacks : NextTick(c)

\* The steps the engine takes on its own: the microtask job is run, and every
\* call into user code returns.
Engine ==
  \/ BeginTick \/ BeginCallback \/ EndCallback \/ EndTick
  \/ BeginFlush \/ BeginBefore \/ BeginRun \/ EndRun \/ BreakFlush
  \/ RunThrows \/ EndLoop \/ BeginHook \/ EndHook \/ EndFlush

Next == User \/ Engine

Spec == Init /\ [][Next]_vars

\* The host runs its microtasks and user code is assumed to return.
FairSpec == Spec /\ WF_vars(Engine)

-----------------------------------------------------------------------------
(***************************************************************************)
(* Type invariant.                                                         *)
(***************************************************************************)
TypeOK ==
  /\ queue \in Seq(Watchers)
  /\ has \subseteq Watchers
  /\ circular \in [Watchers -> Nat]
  /\ waiting \in BOOLEAN
  /\ flushing \in BOOLEAN
  /\ index \in Nat
  /\ activated \in Seq(Render)
  /\ callbacks \in Seq(Callbacks \union {Flush})
  /\ pending \in BOOLEAN
  /\ ticks \in Nat
  /\ copies \in Seq(Callbacks \union {Flush})
  /\ hooks \in Seq({"activated", "updated"} \X Watchers)
  /\ active \subseteq Watchers
  /\ destroyed \subseteq Render
  /\ pc \in {"idle"} \union InTick \union InFlush \union InHooks
  /\ ops \in Nat
  /\ need \subseteq active
  /\ owed \in [Callbacks -> SUBSET active]
  /\ runs \in [Watchers -> Nat]
  /\ dropped \subseteq Watchers

-----------------------------------------------------------------------------
(***************************************************************************)
(* Safety.                                                                 *)
(***************************************************************************)

\* The flag pending counts the microtasks: one flushCallbacks job is in the
\* queue of the host exactly when pending is set, so callbacks are never left
\* without a job, and no tick is scheduled twice (next-tick.ts:107).
OneTick ==
  /\ ticks = IF pending THEN 1 ELSE 0
  /\ callbacks # <<>> => pending

\* An exception has left a run and with it the flush.
Stopped == flushing /\ pc \notin InFlush

\* The flags waiting and flushing tell the truth: while waiting is set there
\* is one and only one flush, scheduled for the next tick, further on in this
\* one or running, and flushing says which (scheduler.ts:190, 57).  A second
\* flush would run watchers twice; with none, waiting would stay set and the
\* application would never update again, as it does once an exception has left
\* a run (Stopped).
InNextTick == \E i \in DOMAIN callbacks : callbacks[i] = Flush

InThisTick == \E i \in DOMAIN copies : copies[i] = Flush

OneFlush ==
  ~Stopped =>
    /\ waiting <=> InNextTick \/ InThisTick \/ pc \in InFlush
    /\ InNextTick => ~InThisTick /\ pc \notin InFlush
    /\ InThisTick => pc \notin InFlush
    /\ \A i, j \in DOMAIN callbacks : callbacks[i] = Flush /\ callbacks[j] = Flush => i = j
    /\ \A i, j \in DOMAIN copies : copies[i] = Flush /\ copies[j] = Flush => i = j
    /\ flushing <=> pc \in InFlush

\* pending, waiting and flushing say where the one tick and the one flush are, in
\* whatever order triggers, callbacks and flushes come (next-tick.ts, scheduler.ts).
FlagsTellTruth == OneTick /\ OneFlush

\* has and the rest of the queue agree: an id is marked exactly when its
\* watcher lies ahead of the flush, and it lies there once.  This is what
\* "Jobs with duplicate IDs will be skipped unless it's pushed when the queue
\* is being flushed" (scheduler.ts:164) needs to be true.
HasIsQueued ==
  /\ has = { queue[i] : i \in Ahead }
  /\ \A i, j \in Ahead : queue[i] = queue[j] => i = j

\* No trigger is lost: a live watcher whose dependency changed and that has
\* not run since lies ahead of a flush that is scheduled or running, unless an
\* exception has stopped the scheduler.
NoLostTrigger ==
  ~Stopped =>
    \A w \in need :
      /\ \E i \in Ahead : queue[i] = w
      /\ InNextTick \/ InThisTick \/ pc \in InFlush

\* A nextTick callback sees the updates requested before it was registered:
\* when it is called, every watcher that needed a run at that time has run.
NextTickSeesUpdates ==
  ~Stopped /\ pc = "tick" /\ copies # <<>> /\ Head(copies) \in Callbacks
    => owed[Head(copies)] = {}

\* Parents before children, user watchers before the render watcher
\* (scheduler.ts:79-86): the watcher the flush turns to next has the smallest
\* id of all that are queued, whatever was queued in the meantime.
OldestFirst ==
  More => \A w \in has : Current <= w

-----------------------------------------------------------------------------
(***************************************************************************)
(* Exceptions, and liveness under FairSpec.                                *)
(***************************************************************************)

\* Once an exception has left a run, no watcher ever runs again: nothing resets
\* waiting and flushing (scheduler.ts:98, next-tick.ts:96).
StoppedForGood == [][Stopped => Stopped' /\ runs' = runs]_vars

Registered(c) == c \in Elements(callbacks) \union Elements(copies)

Turn(c) == pc = "tick" /\ copies # <<>> /\ Head(copies) = c

\* Every trigger of a watcher is answered by a run of it (unless the watcher
\* is torn down or an update loop broken off), as long as no exception escapes
\* a run; and every nextTick callback gets its turn, even then.
EveryCallAnswered ==
  /\ \A w \in Watchers : (w \in need) ~> (w \notin need \/ Stopped)
  /\ \A c \in Callbacks : Registered(c) ~> Turn(c)

=============================================================================
