---------------------------- MODULE AsyncComponent ----------------------------
(***************************************************************************)
(* One async component and the components that render it                   *)
(* (src/core/vdom/helpers/resolve-async-component.ts, the placeholder of   *)
(* src/core/vdom/create-component.ts).  The factory is a callback factory, *)
(* a function that returns a promise, or one made by defineAsyncComponent; *)
(* the promise is that of request 1 of DefineAsync.                        *)
(*                                                                         *)
(* A render calls resolveAsyncComponent once; a timer, a microtask and a   *)
(* render are steps, and timers fire in any order.                         *)
(***************************************************************************)
EXTENDS DefineAsync, FiniteSets

CONSTANTS Owners \* components whose templates have the async component

ASSUME OwnersAssumption == \A S \in SUBSET Owners : S # None

VARIABLES
  opts,     \* the kind of factory and its options
  resolved, \* factory.resolved is defined
  error,    \* factory.error
  loading,  \* factory.loading
  errorComp, loadingComp, \* are defined
  owners,   \* factory.owners as a set (a push tests indexOf), None if undefined
  first,    \* the owner whose hook:destroyed takes it out of owners
  once,     \* the functions of resolve and reject that were called
  heard,    \* a reaction of the promise was called
  timers,   \* timerLoading and timerTimeout, if pending
  queued,   \* owners whose render watchers are queued
  view      \* what each owner shows: "new" before its first render

factory == <<resolved, error, loading, errorComp, loadingComp, owners>>
vars == <<requestVars, opts, factory, first, once, heard, timers, queued, view>>

Kinds == {"callback", "promise", "define"}
Options == [kind : Kinds, loading : BOOLEAN, delay : BOOLEAN, error : BOOLEAN, timeout : BOOLEAN]

\* Only defineAsyncComponent's object has options.
Init ==
  /\ opts \in { o \in Options : (o.kind # "define" => ~(o.loading \/ o.error \/ o.timeout))
                                /\ (~o.loading => ~o.delay) }
  /\ onError \in (IF opts.kind = "define" THEN BOOLEAN ELSE {FALSE})
  /\ InitRequests
  /\ resolved = FALSE /\ error = FALSE /\ loading = FALSE
  /\ errorComp = FALSE /\ loadingComp = FALSE
  /\ owners = None /\ first = None /\ once = {} /\ heard = FALSE
  /\ timers = {} /\ queued = {}
  /\ view = [o \in Owners |-> "new"]

-----------------------------------------------------------------------------
(***************************************************************************)
(* forceRender, resolve and reject.                                        *)
(***************************************************************************)
Alive(S) == { o \in S : view[o] # "gone" }

\* mutant: a render that is not the last one drops owners and timers too
forceRenderAll(renderCompleted, left) ==
  /\ queued' = queued \union Alive(owners)
  /\ owners' = {} /\ timers' = {}

\* mutant: only the component that began the request is updated
forceRenderFirst(renderCompleted, left) ==
  /\ queued' = queued \union (Alive(owners) \intersect {first})
  /\ owners' = IF renderCompleted THEN {} ELSE owners
  /\ timers' = IF renderCompleted THEN {} ELSE left

\* left are the timers that are pending.  $forceUpdate of a destroyed owner
\* queues a watcher that does nothing.
forceRender(renderCompleted, left) ==
  /\ queued' = queued \union Alive(owners)
  /\ owners' = IF renderCompleted THEN {} ELSE owners
  /\ timers' = IF renderCompleted THEN {} ELSE left

\* A module or loader may come to nothing: res is then undefined.
resolve(res) ==
  /\ UNCHANGED <<error, loading, errorComp, loadingComp>>
  /\ IF "resolve" \in once
     THEN UNCHANGED <<resolved, once, queued, owners, timers>>
     ELSE /\ once' = once \union {"resolve"}
          /\ resolved' = res
          /\ forceRender(TRUE, timers)

reject ==
  /\ UNCHANGED <<resolved, loading, errorComp, loadingComp>>
  /\ IF "reject" \in once \/ ~errorComp
     THEN once' = once \union {"reject"} /\ UNCHANGED <<error, queued, owners, timers>>
     ELSE /\ once' = once \union {"reject"}
          /\ error' = TRUE
          /\ forceRender(TRUE, timers)

-----------------------------------------------------------------------------
(***************************************************************************)
(* An owner renders: it is new, or its watcher is in the queue.            *)
(***************************************************************************)
Renders(o, answer) ==
  /\ view[o] = "new" \/ o \in queued
  /\ view' = [view EXCEPT ![o] = answer]
  /\ queued' = queued \ {o}
  /\ UNCHANGED <<requestVars, opts, resolved, error, errorComp, loadingComp, heard>>

ShowError(o) ==
  /\ error /\ errorComp
  /\ Renders(o, "error")
  /\ UNCHANGED <<loading, owners, first, once, timers>>

ShowResolved(o) ==
  /\ ~(error /\ errorComp) /\ resolved
  /\ Renders(o, "component")
  /\ UNCHANGED <<loading, owners, first, once, timers>>

\* mutant: a component that comes while the request is pending is not noted
JoinUnnoted(o) ==
  /\ ~(error /\ errorComp) /\ ~resolved /\ owners # None
  /\ Renders(o, IF loading /\ loadingComp THEN "loading" ELSE "placeholder")
  /\ UNCHANGED <<loading, owners, first, once, timers>>

\* "already pending"
Join(o) ==
  /\ ~(error /\ errorComp) /\ ~resolved /\ owners # None
  /\ owners' = owners \union {o}
  /\ Renders(o, IF loading /\ loadingComp THEN "loading" ELSE "placeholder")
  /\ UNCHANGED <<loading, first, once, timers>>

\* The first render calls the factory.
Start(o) ==
  /\ owners = None
  /\ view[o] = "new"
  /\ queued' = queued \ {o} /\ first' = o
  /\ UNCHANGED <<opts, error, heard, onError>>
  /\ \/ /\ opts.kind = "callback" \* resolve is called at once
        /\ owners' = {} /\ resolved' = TRUE /\ once' = {"resolve"}
        /\ view' = [view EXCEPT ![o] = "component"]
        /\ UNCHANGED <<loading, loadingComp, errorComp, timers, requests, pendingRequest>>
     \/ /\ opts.kind = "callback"
        /\ owners' = {o}
        /\ view' = [view EXCEPT ![o] = "placeholder"]
        /\ UNCHANGED <<resolved, once, loading, loadingComp, errorComp, timers, requests, pendingRequest>>
     \/ /\ opts.kind # "callback"
        /\ owners' = {o}
        /\ requests' = Load(requests) /\ pendingRequest' = 1
        /\ errorComp' = opts.error /\ loadingComp' = opts.loading
        /\ loading' = (opts.loading /\ ~opts.delay)
        /\ timers' = { t \in {"loading", "timeout"} :
                         IF t = "loading" THEN opts.loading /\ opts.delay ELSE opts.timeout }
        /\ view' = [view EXCEPT ![o] = IF loading' THEN "loading" ELSE "placeholder"]
        /\ UNCHANGED <<resolved, once>>

Render(o) == ShowError(o) \/ ShowResolved(o) \/ Join(o) \/ Start(o)

\* An owner is queued for reasons of its own, or destroyed.
Update(o) ==
  /\ view[o] \notin {"new", "gone"} /\ o \notin queued
  /\ queued' = queued \union {o}
  /\ UNCHANGED <<requestVars, opts, factory, first, once, heard, timers, view>>

Destroy(o) ==
  /\ view[o] \notin {"new", "gone"}
  /\ view' = [view EXCEPT ![o] = "gone"]
  /\ queued' = queued \ {o}
  /\ owners' = IF o = first THEN owners \ {o} ELSE owners
  /\ UNCHANGED <<requestVars, opts, resolved, error, loading, errorComp, loadingComp,
                 first, once, heard, timers>>

-----------------------------------------------------------------------------
(***************************************************************************)
(* Timers and the answers of the loader.                                   *)
(***************************************************************************)
LoadingTimer ==
  /\ "loading" \in timers
  /\ IF ~resolved /\ ~error
     THEN loading' = TRUE /\ forceRender(FALSE, timers \ {"loading"})
     ELSE timers' = timers \ {"loading"} /\ UNCHANGED <<loading, queued, owners>>
  /\ UNCHANGED <<requestVars, opts, resolved, error, errorComp, loadingComp,
                 first, once, heard, view>>

\* The timer is pending only while nothing was resolved or rejected with an
\* error component: reject clears what is left of the timers.
TimeoutTimer ==
  /\ "timeout" \in timers
  /\ IF resolved \/ "reject" \in once \/ ~errorComp
     THEN /\ once' = IF resolved THEN once ELSE once \union {"reject"}
          /\ timers' = timers \ {"timeout"}
          /\ UNCHANGED <<error, queued, owners>>
     ELSE /\ once' = once \union {"reject"} /\ error' = TRUE
          /\ forceRender(TRUE, timers)
  /\ UNCHANGED <<requestVars, opts, resolved, loading, errorComp, loadingComp,
                 first, heard, view>>

\* res.then(resolve, reject), or that of res.component
PromiseSettles ==
  /\ requests # <<>> /\ ~heard /\ heard' = TRUE
  /\ \/ requests[1].phase = "done" /\ \E res \in BOOLEAN : resolve(res)
     \/ requests[1].phase = "failed" /\ reject
  /\ UNCHANGED <<requestVars, opts, first, view>>

\* A callback factory calls what it was given, in any order, even both.
CallbackSettles ==
  /\ opts.kind = "callback" /\ owners # None
  /\ \/ "resolve" \notin once /\ \E res \in BOOLEAN : resolve(res)
     \/ "reject" \notin once /\ reject
  /\ UNCHANGED <<requestVars, opts, first, heard, view>>

Request1 == NextRequest /\ UNCHANGED <<opts, factory, first, once, heard, timers, queued, view>>

Next ==
  \/ \E o \in Owners : Render(o) \/ Update(o) \/ Destroy(o)
  \/ LoadingTimer \/ TimeoutTimer \/ PromiseSettles \/ CallbackSettles
  \/ Request1

\* The queue of renders is flushed and timers fire.  That the loader or the
\* user of onError ever answers is not assumed.
Fairness ==
  /\ \A o \in Owners : WF_vars(o \in queued /\ Render(o))
  /\ WF_vars(LoadingTimer) /\ WF_vars(TimeoutTimer) /\ WF_vars(PromiseSettles)

Spec == Init /\ [][Next]_vars /\ Fairness

-----------------------------------------------------------------------------
(***************************************************************************)
(* Properties.                                                             *)
(***************************************************************************)
Outcome == IF error /\ errorComp THEN "error" ELSE IF resolved THEN "component" ELSE "pending"

Shown == [o \in Owners |->
            CASE view[o] \in {"new", "gone"} -> "none"
              [] view[o] \in {"placeholder", "loading"} -> "pending"
              [] OTHER -> view[o]]

Abstract == INSTANCE AsyncRequest WITH outcome <- Outcome, shown <- Shown

\* However the loader, its retries, the delay, the timeout and the owners
\* interleave, the first outcome is the outcome for ever and every owner that
\* stays comes to show it (resolve, reject and forceRender).
SettlesOnce == Abstract!Spec

\* With a timeout and an error component a request does not stay pending: it
\* ends in the component, the error or a loader that resolved to nothing
\* (the timer of resolveAsyncComponent).
TimeoutSettles ==
  (owners # None /\ opts.timeout /\ opts.error) ~> (error \/ "resolve" \in once)

\* While a request is pending, the loading component is shown by none or, once
\* the queue is flushed, by all owners (the delay of resolveAsyncComponent).
LoadingForAll ==
  queued = {} => Cardinality({ view[o] : o \in { p \in Owners : Shown[p] = "pending" } }) <= 1
===============================================================================
