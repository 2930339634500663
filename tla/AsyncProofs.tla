----------------------------- MODULE AsyncProofs -----------------------------
(***************************************************************************)
(* Proofs about AsyncComponent, for every set of owners and every number   *)
(* of retries: an answer that was overtaken is never given, the loading    *)
(* component is shown by all owners or none, and every step is a step of   *)
(* AsyncRequest.                                                           *)
(***************************************************************************)
EXTENDS AsyncComponent, FiniteSetTheorems, TLAPS

-----------------------------------------------------------------------------
(***************************************************************************)
(* The chain of requests.                                                  *)
(***************************************************************************)
Phases == {"loading", "asked", "waits", "loaded", "adopts", "done", "failed"}

Requests ==
  [phase : Phases, on : Nat \union {None}, value : Nat \union {None}, asked : BOOLEAN, newer : BOOLEAN]

\* Request v may answer: nothing began between its call of the loader and its end.
IsAnswer(v) ==
  v \in DOMAIN requests /\ requests[v].phase = "done" /\ ~requests[v].newer

\* What is done has an answer, and so has what was loaded for a retry; whoever
\* follows another request follows one that exists; the latest has none after it.
RequestInv(i) ==
  /\ requests[i].phase = "done" => IsAnswer(requests[i].value)
  /\ requests[i].phase = "loaded" => requests[i].value = i \/ IsAnswer(requests[i].value)
  /\ requests[i].phase \in {"waits", "adopts"} => requests[i].on \in DOMAIN requests
  /\ requests[i].newer => i < Len(requests)

RequestsInv ==
  /\ requests \in Seq(Requests) /\ onError \in BOOLEAN
  /\ requests # <<>> => pendingRequest = Len(requests)
  /\ \A i \in DOMAIN requests : RequestInv(i)

\* A request with the mark set is a request.
LEMMA MarkedType ==
  ASSUME NEW q \in Requests, NEW b \in BOOLEAN
  PROVE  /\ [q EXCEPT !.newer = b] \in Requests
         /\ [q EXCEPT !.newer = b].newer = b
         /\ [q EXCEPT !.newer = b].phase = q.phase /\ [q EXCEPT !.newer = b].value = q.value
         /\ [q EXCEPT !.newer = b].on = q.on
BY DEF Requests

\* A new request leaves the others as they are, but for the mark of those under way.
LEMMA LoadFacts ==
  ASSUME NEW Q \in Seq(Requests)
  PROVE  /\ Load(Q) \in Seq(Requests) /\ Len(Load(Q)) = Len(Q) + 1
         /\ Load(Q)[Len(Q) + 1] = Request
         /\ \A i \in 1 .. Len(Q) :
              /\ Load(Q)[i].newer <=> Q[i].newer \/ Q[i].phase # "done"
              /\ Load(Q)[i].phase = Q[i].phase /\ Load(Q)[i].value = Q[i].value
              /\ Load(Q)[i].on = Q[i].on
<1> DEFINE b(i) == Q[i].newer \/ Q[i].phase # "done"
           m(i) == [Q[i] EXCEPT !.newer = b(i)]
           M == [i \in DOMAIN Q |-> m(i)]
<1>1. Request \in Requests
  BY DEF Request, Requests, Phases
<1>2. \A i \in 1 .. Len(Q) : Q[i] \in Requests
  OBVIOUS
<1>3. \A i : b(i) \in BOOLEAN
  OBVIOUS
<1>4. Load(Q) = Append(M, Request)
  BY DEF Load
<1> HIDE DEF b
<1>5. \A i \in 1 .. Len(Q) :
        /\ m(i) \in Requests /\ m(i).newer = b(i) /\ m(i).phase = Q[i].phase
        /\ m(i).value = Q[i].value /\ m(i).on = Q[i].on
  BY <1>2, <1>3, MarkedType
<1> HIDE DEF m
<1>6. M \in [1 .. Len(Q) -> Requests]
  BY <1>5
<1>7. M \in Seq(Requests) /\ Len(M) = Len(Q) /\ \A i \in 1 .. Len(Q) : M[i] = m(i)
  BY <1>6
<1> HIDE DEF M
<1>8. /\ Load(Q) \in Seq(Requests) /\ Len(Load(Q)) = Len(Q) + 1
      /\ Load(Q)[Len(Q) + 1] = Request
      /\ \A i \in 1 .. Len(Q) : Load(Q)[i] = m(i)
  BY <1>1, <1>4, <1>7
<1>9. \A i \in 1 .. Len(Q) : b(i) <=> Q[i].newer \/ Q[i].phase # "done"
  BY DEF b
<1>10. \A i \in 1 .. Len(Q) :
         /\ Load(Q)[i].newer = b(i) /\ Load(Q)[i].phase = Q[i].phase
         /\ Load(Q)[i].value = Q[i].value /\ Load(Q)[i].on = Q[i].on
  BY <1>5, <1>8
<1> QED
  BY <1>8, <1>9, <1>10

\* One request that is not done takes a step.
LEMMA OneStep ==
  ASSUME RequestsInv, NEW i \in DOMAIN requests, requests[i].phase # "done",
         NEW r \in Requests, requests' = [requests EXCEPT ![i] = r],
         UNCHANGED <<pendingRequest, onError>>,
         r.newer = requests[i].newer,
         r.phase = "done" => IsAnswer(r.value) \/ (r.value = i /\ ~r.newer),
         r.phase = "loaded" => r.value = i \/ IsAnswer(r.value),
         r.phase \in {"waits", "adopts"} => r.on \in DOMAIN requests
  PROVE  RequestsInv'
<1>1. /\ requests' \in Seq(Requests) /\ Len(requests') = Len(requests)
      /\ DOMAIN requests' = DOMAIN requests
      /\ requests'[i] = r /\ \A j \in DOMAIN requests : j # i => requests'[j] = requests[j]
  BY DEF RequestsInv
<1>2. \A v : IsAnswer(v) => IsAnswer(v)'
  BY <1>1 DEF IsAnswer
<1>3. RequestInv(i)'
  BY <1>1, <1>2 DEF RequestsInv, RequestInv, IsAnswer
<1>4. \A j \in DOMAIN requests : j # i => RequestInv(j)'
  BY <1>1, <1>2 DEF RequestsInv, RequestInv
<1> QED
  BY <1>1, <1>3, <1>4 DEF RequestsInv

\* A request begins; one that asked may come to wait for it.
LEMMA OneMore ==
  ASSUME RequestsInv,
         requests' \in Seq(Requests), Len(requests') = Len(requests) + 1,
         requests'[Len(requests) + 1] = Request,
         \A j \in DOMAIN requests :
           /\ requests'[j].newer <=> requests[j].newer \/ requests[j].phase # "done"
           /\ requests'[j].value = requests[j].value
           /\ \/ requests'[j].phase = requests[j].phase /\ requests'[j].on = requests[j].on
              \/ /\ requests[j].phase # "done"
                 /\ requests'[j].phase = "waits" /\ requests'[j].on = Len(requests) + 1,
         pendingRequest' = Len(requests) + 1, UNCHANGED onError
  PROVE  RequestsInv'
<1>0. PICK n \in Nat : n = Len(requests)
  BY DEF RequestsInv
<1>1. DOMAIN requests = 1 .. n /\ DOMAIN requests' = 1 .. n + 1
  BY <1>0 DEF RequestsInv
<1>2. \A v : IsAnswer(v) => IsAnswer(v)'
  BY <1>1 DEF IsAnswer
<1>3. \A j \in 1 .. n : RequestInv(j)'
  BY <1>0, <1>1, <1>2 DEF RequestsInv, RequestInv
<1>4. RequestInv(n + 1)'
  <2>1. requests'[n + 1].phase = "loading" /\ requests'[n + 1].newer = FALSE
    BY <1>0 DEF Request
  <2> QED
    BY <2>1 DEF RequestInv
<1>5. ASSUME NEW j \in DOMAIN requests' PROVE RequestInv(j)'
  <2>1. CASE j \in 1 .. n
    BY <1>3, <2>1
  <2>2. CASE j = n + 1
    BY <1>4, <2>2
  <2> QED
    BY <1>1, <2>1, <2>2
<1> QED
  BY <1>0, <1>5 DEF RequestsInv

\* The chain of requests keeps its invariant.
LEMMA NextRequestInv ==
  ASSUME RequestsAssumption, RequestsInv, NextRequest
  PROVE  RequestsInv'
<1>1. PICK i \in DOMAIN requests :
        LoaderAnswers(i) \/ UserRetry(i) \/ UserFail(i) \/ Follow(i) \/ Then(i)
  BY DEF NextRequest
<1>2. /\ requests \in Seq(Requests) /\ onError \in BOOLEAN /\ requests[i] \in Requests
      /\ Len(requests) \in Nat /\ DOMAIN requests = 1 .. Len(requests)
      /\ RequestInv(i) /\ pendingRequest = Len(requests)
      /\ {i, Len(requests), Len(requests) + 1} \subseteq Nat \union {None}
  BY DEF RequestsInv
<1>3. CASE LoaderAnswers(i)
  <2>1. CASE requests' = [requests EXCEPT ![i].phase = "loaded", ![i].value = i]
    <3> DEFINE r == [requests[i] EXCEPT !.phase = "loaded", !.value = i]
    <3>1. requests' = [requests EXCEPT ![i] = r]
      BY <2>1, <1>2
    <3>2. r \in Requests /\ r.phase = "loaded" /\ r.value = i /\ r.newer = requests[i].newer
      BY <1>2 DEF Requests, Phases
    <3> QED
      BY <1>3, <3>1, <3>2, OneStep DEF LoaderAnswers
  <2>2. CASE requests' = [requests EXCEPT ![i].phase = IF onError THEN "asked" ELSE "failed",
                                          ![i].asked = onError]
    <3> DEFINE r == [requests[i] EXCEPT !.phase = IF onError THEN "asked" ELSE "failed",
                                        !.asked = onError]
    <3>1. requests' = [requests EXCEPT ![i] = r]
      BY <2>2, <1>2
    <3>2. r \in Requests /\ r.phase \in {"asked", "failed"} /\ r.newer = requests[i].newer
      BY <1>2 DEF Requests, Phases
    <3> QED
      BY <1>3, <3>1, <3>2, OneStep DEF LoaderAnswers
  <2> QED
    BY <1>3, <2>1, <2>2 DEF LoaderAnswers
<1>4. CASE UserRetry(i)
  <2> DEFINE L == Load(requests)
  <2>1. /\ L \in Seq(Requests) /\ Len(L) = Len(requests) + 1 /\ L[Len(requests) + 1] = Request
        /\ \A j \in 1 .. Len(requests) :
             /\ L[j].newer <=> requests[j].newer \/ requests[j].phase # "done"
             /\ L[j].phase = requests[j].phase /\ L[j].value = requests[j].value
             /\ L[j].on = requests[j].on
    BY <1>2, LoadFacts
  <2> HIDE DEF L
  <2>2. L[i] \in Requests
    BY <1>2, <2>1
  <2>3. pendingRequest' = Len(requests) + 1 /\ UNCHANGED onError
    BY <1>4 DEF UserRetry
  <2>4. CASE requests[i].phase = "asked"
    <3> DEFINE r == [L[i] EXCEPT !.phase = "waits", !.on = Len(requests) + 1]
    <3>1. requests' = [L EXCEPT ![i] = r]
      BY <1>2, <1>4, <2>1, <2>4 DEF UserRetry, L
    <3>2. /\ r \in Requests /\ r.newer = L[i].newer /\ r.value = L[i].value
          /\ r.phase = "waits" /\ r.on = Len(requests) + 1
      BY <1>2, <2>2 DEF Requests, Phases
    <3> HIDE DEF r
    <3>3. /\ requests' \in Seq(Requests) /\ Len(requests') = Len(requests) + 1
          /\ requests'[Len(requests) + 1] = Request
          /\ requests'[i] = r /\ \A j \in 1 .. Len(requests) : j # i => requests'[j] = L[j]
      BY <1>2, <2>1, <3>1, <3>2
    <3> QED
      BY <1>2, <2>1, <2>3, <2>4, <3>2, <3>3, OneMore
  <2>5. CASE requests[i].phase # "asked"
    <3>1. requests' = L
      BY <1>4, <2>5 DEF UserRetry, L
    <3> QED
      BY <1>2, <2>1, <2>3, <3>1, OneMore
  <2> QED
    BY <2>4, <2>5
<1>5. CASE UserFail(i)
  <2> DEFINE r == [requests[i] EXCEPT !.phase = "failed"]
  <2>1. requests' = [requests EXCEPT ![i] = r]
    BY <1>2, <1>5 DEF UserFail
  <2>2. r \in Requests /\ r.phase = "failed" /\ r.newer = requests[i].newer
    BY <1>2 DEF Requests, Phases
  <2> QED
    BY <1>5, <2>1, <2>2, OneStep DEF UserFail
<1>6. CASE Follow(i)
  <2> DEFINE other == requests[requests[i].on]
  <2>1. requests[i].on \in DOMAIN requests /\ RequestInv(requests[i].on) /\ other \in Requests
    BY <1>2, <1>6 DEF Follow, RequestsInv, RequestInv
  <2>2. CASE /\ other.phase = "done"
             /\ requests' = [requests EXCEPT
                  ![i].phase = IF @ = "waits" THEN "loaded" ELSE "done", ![i].value = other.value]
    <3> DEFINE r == [requests[i] EXCEPT !.phase = IF requests[i].phase = "waits" THEN "loaded" ELSE "done",
                                        !.value = other.value]
    <3>1. requests' = [requests EXCEPT ![i] = r]
      BY <1>2, <2>2
    <3>2. /\ r \in Requests /\ r.phase \in {"loaded", "done"} /\ r.value = other.value
          /\ r.newer = requests[i].newer
      BY <1>2, <2>1 DEF Requests, Phases
    <3>3. IsAnswer(other.value)
      BY <2>1, <2>2 DEF RequestInv
    <3> QED
      BY <1>6, <3>1, <3>2, <3>3, OneStep DEF Follow
  <2>3. CASE requests' = [requests EXCEPT ![i].phase = "failed"]
    <3> DEFINE r == [requests[i] EXCEPT !.phase = "failed"]
    <3>1. requests' = [requests EXCEPT ![i] = r]
      BY <1>2, <2>3
    <3>2. r \in Requests /\ r.phase = "failed" /\ r.newer = requests[i].newer
      BY <1>2 DEF Requests, Phases
    <3> QED
      BY <1>6, <3>1, <3>2, OneStep DEF Follow
  <2> QED
    BY <1>6, <2>2, <2>3 DEF Follow
<1>7. CASE Then(i)
  <2>1. requests[i].phase = "loaded" /\ UNCHANGED <<pendingRequest, onError>>
    BY <1>7 DEF Then
  <2>2. CASE requests' = [requests EXCEPT ![i].phase = "adopts", ![i].on = pendingRequest]
    <3> DEFINE r == [requests[i] EXCEPT !.phase = "adopts", !.on = pendingRequest]
    <3>1. requests' = [requests EXCEPT ![i] = r]
      BY <1>2, <2>2
    <3>2. /\ r \in Requests /\ r.phase = "adopts" /\ r.newer = requests[i].newer
          /\ r.on = pendingRequest
      BY <1>2 DEF Requests, Phases
    <3>3. pendingRequest \in DOMAIN requests
      BY <1>2
    <3> QED
      BY <2>1, <3>1, <3>2, <3>3, OneStep
  <2>3. ASSUME ~IsStale(i), NEW outcome \in {"done", "failed"},
               requests' = [requests EXCEPT ![i].phase = outcome]
        PROVE  RequestsInv'
    <3> DEFINE r == [requests[i] EXCEPT !.phase = outcome]
    <3>1. requests' = [requests EXCEPT ![i] = r]
      BY <1>2, <2>3
    <3>2. /\ r \in Requests /\ r.phase \in {"done", "failed"} /\ r.newer = requests[i].newer
          /\ r.value = requests[i].value
      BY <1>2 DEF Requests, Phases
    <3>3. ~requests[i].newer
      BY <1>2, <2>3, RequestsAssumption DEF IsStale, RequestInv
    <3>4. r.value = i \/ IsAnswer(r.value)
      BY <1>2, <2>1, <3>2 DEF RequestInv
    <3> QED
      BY <2>1, <3>1, <3>2, <3>3, <3>4, OneStep
  <2> QED
    BY <1>7, <2>2, <2>3 DEF Then
<1> QED
  BY <1>1, <1>3, <1>4, <1>5, <1>6, <1>7

-----------------------------------------------------------------------------
(***************************************************************************)
(* The factory and its owners.                                             *)
(***************************************************************************)
Views == {"new", "placeholder", "loading", "component", "error", "gone"}

AsyncType ==
  /\ opts \in Options
  /\ owners = None \/ owners \in SUBSET Owners
  /\ view \in [Owners -> Views]
  /\ queued \in SUBSET Owners
  /\ resolved \in BOOLEAN /\ error \in BOOLEAN /\ loading \in BOOLEAN
  /\ errorComp \in BOOLEAN /\ loadingComp \in BOOLEAN /\ heard \in BOOLEAN

\* Before the first render nothing has begun.
Unstarted ==
  owners = None =>
    /\ requests = <<>> /\ timers = {}
    /\ ~resolved /\ ~error /\ ~loading
    /\ \A o \in Owners : view[o] = "new"

\* Who may reject after a resolve: only a callback factory, which has no error
\* component.
DecidedOnce ==
  /\ error => errorComp
  /\ errorComp => opts.kind # "callback"
  /\ resolved => "resolve" \in once
  /\ resolved /\ opts.kind # "callback" => heard

Waiting == IF loading /\ loadingComp THEN "loading" ELSE "placeholder"

\* An owner that waits is queued, or noted and shows what all of them show.
Noted ==
  \A o \in Owners :
    view[o] \in {"placeholder", "loading"} =>
      o \in queued \/ (owners # None /\ o \in owners /\ view[o] = Waiting)

FactoryInv ==
  /\ AsyncType /\ Unstarted /\ DecidedOnce /\ Noted
  /\ \A o \in queued : view[o] # "gone"

Inv == RequestsInv /\ FactoryInv

\* After a forced render all owners that wait are queued.
LEMMA ForceRenderFacts ==
  ASSUME OwnersAssumption, FactoryInv, owners # None,
         NEW c, NEW left, forceRender(c, left), UNCHANGED view
  PROVE  /\ owners' # None /\ owners' \in SUBSET Owners /\ queued' \in SUBSET Owners
         /\ Noted' /\ \A o \in queued' : view'[o] # "gone"
<1>1. owners \in SUBSET Owners /\ queued \in SUBSET Owners
  BY DEF FactoryInv, AsyncType
<1>2. owners' \in SUBSET Owners
  BY <1>1 DEF forceRender
<1>3. Noted'
  <2> SUFFICES ASSUME NEW o \in Owners, view[o] \in {"placeholder", "loading"}
               PROVE  o \in queued'
    BY DEF Noted
  <2>1. o \in queued \/ o \in owners
    BY DEF FactoryInv, Noted
  <2> QED
    BY <2>1 DEF forceRender, Alive
<1> QED
  BY <1>1, <1>2, <1>3, OwnersAssumption DEF forceRender, Alive, FactoryInv

\* A call of resolve.
LEMMA ResolveInv ==
  ASSUME OwnersAssumption, FactoryInv, owners # None, NEW res \in BOOLEAN, resolve(res),
         UNCHANGED <<opts, view>>, heard' \in BOOLEAN, heard => heard',
         opts.kind # "callback" => heard'
  PROVE  FactoryInv'
<1>1. UNCHANGED <<error, loading, errorComp, loadingComp>>
  BY DEF resolve
<1>2. CASE "resolve" \in once
  <2>1. UNCHANGED <<resolved, once, queued, owners, timers>>
    BY <1>2 DEF resolve
  <2> QED
    BY <1>1, <2>1 DEF FactoryInv, AsyncType, Unstarted, DecidedOnce, Noted, Waiting
<1>3. CASE "resolve" \notin once
  <2>1. once' = once \union {"resolve"} /\ resolved' = res /\ forceRender(TRUE, timers)
    BY <1>3 DEF resolve
  <2>2. /\ owners' # None /\ owners' \in SUBSET Owners /\ queued' \in SUBSET Owners
        /\ Noted' /\ \A o \in queued' : view'[o] # "gone"
    BY <2>1, ForceRenderFacts
  <2> QED
    BY <1>1, <2>1, <2>2 DEF FactoryInv, AsyncType, Unstarted, DecidedOnce
<1> QED
  BY <1>2, <1>3

\* A call of reject.
LEMMA RejectInv ==
  ASSUME OwnersAssumption, FactoryInv, owners # None, reject,
         UNCHANGED <<opts, view>>, heard' \in BOOLEAN, heard => heard'
  PROVE  FactoryInv'
<1>1. UNCHANGED <<resolved, loading, errorComp, loadingComp>> /\ once' = once \union {"reject"}
  BY DEF reject
<1>2. CASE "reject" \in once \/ ~errorComp
  <2>1. UNCHANGED <<error, queued, owners, timers>>
    BY <1>2 DEF reject
  <2> QED
    BY <1>1, <2>1 DEF FactoryInv, AsyncType, Unstarted, DecidedOnce, Noted, Waiting
<1>3. CASE ~("reject" \in once \/ ~errorComp)
  <2>1. error' = TRUE /\ forceRender(TRUE, timers)
    BY <1>3 DEF reject
  <2>2. /\ owners' # None /\ owners' \in SUBSET Owners /\ queued' \in SUBSET Owners
        /\ Noted' /\ \A o \in queued' : view'[o] # "gone"
    BY <2>1, ForceRenderFacts
  <2> QED
    BY <1>1, <1>3, <2>1, <2>2 DEF FactoryInv, AsyncType, Unstarted, DecidedOnce
<1> QED
  BY <1>2, <1>3

\* An owner renders what is known by now, or becomes one of those who wait.
LEMMA RenderInv ==
  ASSUME RequestsAssumption, OwnersAssumption, Inv, NEW o \in Owners, Render(o)
  PROVE  Inv'
<1> USE DEF Inv
<1>1. CASE ShowError(o) \/ ShowResolved(o)
  <2>1. /\ UNCHANGED <<requestVars, opts, factory, once, timers, heard>>
        /\ queued' = queued \ {o}
        /\ \E x \in {"error", "component"} : view' = [view EXCEPT ![o] = x]
    BY <1>1 DEF ShowError, ShowResolved, Renders, factory
  <2>2. RequestsInv'
    BY <2>1 DEF RequestsInv, RequestInv, IsAnswer, requestVars
  <2>3. owners # None
    BY <1>1 DEF ShowError, ShowResolved, FactoryInv, Unstarted
  <2> QED
    BY <2>1, <2>2, <2>3 DEF FactoryInv, AsyncType, Unstarted, DecidedOnce, Noted, Waiting, Views, factory
<1>2. CASE Join(o)
  <2>1. /\ UNCHANGED <<requestVars, opts, resolved, error, errorComp, loadingComp, loading,
                       once, timers, heard>>
        /\ owners # None /\ owners' = owners \union {o} /\ queued' = queued \ {o}
        /\ view' = [view EXCEPT ![o] = Waiting]
    BY <1>2 DEF Join, Renders, Waiting
  <2>2. RequestsInv'
    BY <2>1 DEF RequestsInv, RequestInv, IsAnswer, requestVars
  <2>3. owners' \in SUBSET Owners /\ owners' # None
    BY <2>1, OwnersAssumption DEF FactoryInv, AsyncType
  <2>4. Waiting \in {"placeholder", "loading"} /\ Waiting' = Waiting
    BY <2>1 DEF Waiting
  <2>5. AsyncType' /\ Unstarted' /\ DecidedOnce' /\ \A p \in queued' : view'[p] # "gone"
    BY <2>1, <2>3, <2>4 DEF FactoryInv, AsyncType, Unstarted, DecidedOnce, Views
  <2>6. Noted'
    BY <2>1, <2>3, <2>4 DEF FactoryInv, AsyncType, Noted
  <2> QED
    BY <2>2, <2>5, <2>6 DEF FactoryInv
<1>3. CASE Start(o)
  <2>1. /\ owners = None /\ requests = <<>> /\ ~resolved /\ ~error /\ ~loading
        /\ \A p \in Owners : view[p] = "new"
        /\ queued' = queued \ {o} /\ UNCHANGED <<opts, error, heard, onError>>
    BY <1>3 DEF Start, FactoryInv, Unstarted
  <2>2. CASE /\ opts.kind = "callback"
             /\ owners' = {} /\ resolved' = TRUE /\ once' = {"resolve"}
             /\ view' = [view EXCEPT ![o] = "component"]
             /\ UNCHANGED <<loading, loadingComp, errorComp, timers, requests, pendingRequest>>
    <3>1. RequestsInv'
      BY <2>1, <2>2 DEF RequestsInv, RequestInv, IsAnswer
    <3> QED
      BY <2>1, <2>2, <3>1, OwnersAssumption
      DEF FactoryInv, AsyncType, Unstarted, DecidedOnce, Noted, Views
  <2>3. CASE /\ opts.kind = "callback"
             /\ owners' = {o}
             /\ view' = [view EXCEPT ![o] = "placeholder"]
             /\ UNCHANGED <<resolved, once, loading, loadingComp, errorComp, timers,
                            requests, pendingRequest>>
    <3>1. RequestsInv'
      BY <2>1, <2>3 DEF RequestsInv, RequestInv, IsAnswer
    <3> QED
      BY <2>1, <2>3, <3>1, OwnersAssumption
      DEF FactoryInv, AsyncType, Unstarted, DecidedOnce, Noted, Waiting, Views
  <2>4. CASE /\ opts.kind # "callback"
             /\ owners' = {o}
             /\ requests' = Load(requests) /\ pendingRequest' = 1
             /\ errorComp' = opts.error /\ loadingComp' = opts.loading
             /\ loading' = (opts.loading /\ ~opts.delay)
             /\ view' = [view EXCEPT ![o] = IF loading' THEN "loading" ELSE "placeholder"]
             /\ UNCHANGED <<resolved, once>>
    <3>1. RequestsInv'
      <4>1. <<>> \in Seq(Requests) /\ Len(<<>>) = 0
        OBVIOUS
      <4>2. /\ Load(<<>>) \in Seq(Requests) /\ Len(Load(<<>>)) = Len(<<>>) + 1
            /\ Load(<<>>)[Len(<<>>) + 1] = Request
        BY <4>1, LoadFacts
      <4>3. requests' = Load(<<>>) /\ pendingRequest' = Len(<<>>) + 1
        BY <2>1, <2>4, <4>1
      <4> QED
        BY <2>1, <4>1, <4>2, <4>3, OneMore
    <3>2. opts.error \in BOOLEAN /\ opts.loading \in BOOLEAN
      BY DEF FactoryInv, AsyncType, Options
    <3>3. loading' \in BOOLEAN /\ (loading' => loadingComp')
      BY <2>4, <3>2
    <3>4. view'[o] = Waiting' /\ \A p \in Owners : p # o => view'[p] = "new"
      BY <2>1, <2>4, <3>3 DEF FactoryInv, AsyncType, Waiting
    <3>5. owners' # None /\ owners' \in SUBSET Owners /\ o \in owners'
      BY <2>4, OwnersAssumption
    <3>6. AsyncType'
      BY <2>1, <2>4, <3>2, <3>3, <3>5 DEF FactoryInv, AsyncType, Views
    <3>7. Unstarted' /\ DecidedOnce'
      BY <2>1, <2>4, <3>5 DEF FactoryInv, Unstarted, DecidedOnce
    <3>8. Noted' /\ \A p \in queued' : view'[p] # "gone"
      BY <2>1, <3>4, <3>5 DEF FactoryInv, AsyncType, Noted
    <3> QED
      BY <3>1, <3>6, <3>7, <3>8 DEF FactoryInv
  <2> QED
    BY <1>3, <2>2, <2>3, <2>4 DEF Start
<1> QED
  BY <1>1, <1>2, <1>3 DEF Render

\* The timers and the answers.
LEMMA AnswersInv ==
  ASSUME OwnersAssumption, Inv, LoadingTimer \/ TimeoutTimer \/ PromiseSettles \/ CallbackSettles
  PROVE  Inv'
<1> USE DEF Inv
<1>1. UNCHANGED <<requests, pendingRequest, onError, opts, view>>
  BY DEF LoadingTimer, TimeoutTimer, PromiseSettles, CallbackSettles, requestVars
<1>2. RequestsInv'
  BY <1>1 DEF RequestsInv, RequestInv, IsAnswer
<1>3. owners # None
  BY DEF LoadingTimer, TimeoutTimer, PromiseSettles, CallbackSettles, FactoryInv, Unstarted
<1>4. CASE LoadingTimer
  <2>1. UNCHANGED <<resolved, error, errorComp, loadingComp, once, heard>>
    BY <1>4 DEF LoadingTimer
  <2>2. CASE ~resolved /\ ~error
    <3>1. loading' = TRUE /\ forceRender(FALSE, timers \ {"loading"})
      BY <1>4, <2>2 DEF LoadingTimer
    <3>2. /\ owners' # None /\ owners' \in SUBSET Owners /\ queued' \in SUBSET Owners
          /\ Noted' /\ \A o \in queued' : view'[o] # "gone"
      BY <1>1, <1>3, <3>1, ForceRenderFacts
    <3> QED
      BY <1>1, <1>2, <2>1, <3>1, <3>2 DEF FactoryInv, AsyncType, Unstarted, DecidedOnce
  <2>3. CASE ~(~resolved /\ ~error)
    <3>1. UNCHANGED <<loading, queued, owners>>
      BY <1>4, <2>3 DEF LoadingTimer
    <3> QED
      BY <1>1, <1>2, <1>3, <2>1, <3>1 DEF FactoryInv, AsyncType, Unstarted, DecidedOnce, Noted, Waiting
  <2> QED
    BY <2>2, <2>3
<1>5. CASE TimeoutTimer
  <2>1. UNCHANGED <<resolved, loading, errorComp, loadingComp, heard>>
    BY <1>5 DEF TimeoutTimer
  <2>2. CASE resolved \/ "reject" \in once \/ ~errorComp
    <3>1. UNCHANGED <<error, queued, owners>> /\ (once' = once \/ once' = once \union {"reject"})
      BY <1>5, <2>2 DEF TimeoutTimer
    <3> QED
      BY <1>1, <1>2, <1>3, <2>1, <3>1 DEF FactoryInv, AsyncType, Unstarted, DecidedOnce, Noted, Waiting
  <2>3. CASE ~(resolved \/ "reject" \in once \/ ~errorComp)
    <3>1. error' = TRUE /\ forceRender(TRUE, timers) /\ once' = once \union {"reject"}
      BY <1>5, <2>3 DEF TimeoutTimer
    <3>2. /\ owners' # None /\ owners' \in SUBSET Owners /\ queued' \in SUBSET Owners
          /\ Noted' /\ \A o \in queued' : view'[o] # "gone"
      BY <1>1, <1>3, <3>1, ForceRenderFacts
    <3> QED
      BY <1>1, <1>2, <2>1, <2>3, <3>1, <3>2 DEF FactoryInv, AsyncType, Unstarted, DecidedOnce
  <2> QED
    BY <2>2, <2>3
<1>6. CASE PromiseSettles
  <2>1. heard' = TRUE /\ (reject \/ \E res \in BOOLEAN : resolve(res))
    BY <1>6 DEF PromiseSettles
  <2> QED
    BY <1>1, <1>2, <1>3, <2>1, ResolveInv, RejectInv
<1>7. CASE CallbackSettles
  <2>1. /\ opts.kind = "callback" /\ UNCHANGED heard
        /\ reject \/ \E res \in BOOLEAN : resolve(res)
    BY <1>7 DEF CallbackSettles
  <2>2. heard \in BOOLEAN
    BY DEF FactoryInv, AsyncType
  <2> QED
    BY <1>1, <1>2, <1>3, <2>1, <2>2, ResolveInv, RejectInv
<1> QED
  BY <1>4, <1>5, <1>6, <1>7

\* At the beginning.
LEMMA InitInv == ASSUME OwnersAssumption, Init PROVE Inv
<1>1. requests = <<>> /\ onError \in BOOLEAN
  BY DEF Init, InitRequests
<1>2. RequestsInv
  BY <1>1 DEF RequestsInv
<1>3. FactoryInv
  BY <1>1 DEF Init, InitRequests, FactoryInv, AsyncType, Unstarted, DecidedOnce, Noted, Views
<1> QED
  BY <1>2, <1>3 DEF Inv

\* Every step keeps the invariant.
LEMMA NextInv ==
  ASSUME RequestsAssumption, OwnersAssumption, Inv, [Next]_vars
  PROVE  Inv'
<1>1. ASSUME NEW o \in Owners, Render(o) PROVE Inv'
  BY <1>1, RenderInv
<1>2. ASSUME NEW o \in Owners, Update(o) PROVE Inv'
  <2>1. /\ UNCHANGED <<requests, pendingRequest, onError, opts, resolved, error, loading, errorComp,
                       loadingComp, owners, once, heard, timers, view>>
        /\ view[o] \notin {"new", "gone"} /\ queued' = queued \union {o}
    BY <1>2 DEF Update, requestVars, factory
  <2>2. RequestsInv'
    BY <2>1 DEF Inv, RequestsInv, RequestInv, IsAnswer
  <2> QED
    BY <2>1, <2>2 DEF Inv, FactoryInv, AsyncType, Unstarted, DecidedOnce, Noted, Waiting
<1>3. ASSUME NEW o \in Owners, Destroy(o) PROVE Inv'
  <2>1. /\ UNCHANGED <<requests, pendingRequest, onError, opts, resolved, error, loading, errorComp,
                       loadingComp, once, heard, timers>>
        /\ view[o] \notin {"new", "gone"} /\ queued' = queued \ {o}
        /\ view' = [view EXCEPT ![o] = "gone"]
        /\ owners' = owners \/ owners' = owners \ {o}
    BY <1>3 DEF Destroy, requestVars
  <2>2. RequestsInv'
    BY <2>1 DEF Inv, RequestsInv, RequestInv, IsAnswer
  <2>3. owners # None /\ owners \in SUBSET Owners
    BY <2>1 DEF Inv, FactoryInv, Unstarted, AsyncType
  <2>4. owners' # None /\ owners' \in SUBSET Owners /\ \A p \in owners : p # o => p \in owners'
    BY <2>1, <2>3, OwnersAssumption
  <2>5. \A p \in Owners : p # o => view'[p] = view[p]
    BY <2>1 DEF Inv, FactoryInv, AsyncType
  <2>6. view'[o] = "gone"
    BY <2>1 DEF Inv, FactoryInv, AsyncType
  <2>7. AsyncType' /\ Unstarted' /\ DecidedOnce'
    BY <2>1, <2>4 DEF Inv, FactoryInv, AsyncType, Unstarted, DecidedOnce, Views
  <2>8. Noted' /\ \A p \in queued' : view'[p] # "gone"
    BY <2>1, <2>3, <2>4, <2>5, <2>6 DEF Inv, FactoryInv, AsyncType, Noted, Waiting
  <2> QED
    BY <2>2, <2>7, <2>8 DEF Inv, FactoryInv
<1>4. ASSUME Request1 PROVE Inv'
  <2>1. NextRequest /\ UNCHANGED <<opts, resolved, error, loading, errorComp, loadingComp, owners,
                                   once, heard, timers, queued, view>>
    BY <1>4 DEF Request1, factory
  <2>2. RequestsInv'
    BY <2>1, NextRequestInv DEF Inv
  <2>3. owners # None
    BY <2>1 DEF Inv, FactoryInv, Unstarted, NextRequest
  <2> QED
    BY <2>1, <2>2, <2>3 DEF Inv, FactoryInv, AsyncType, Unstarted, DecidedOnce, Noted, Waiting
<1>5. ASSUME UNCHANGED vars PROVE Inv'
  BY <1>5 DEF vars, requestVars, factory, Inv, RequestsInv, RequestInv, IsAnswer,
              FactoryInv, AsyncType, Unstarted, DecidedOnce, Noted, Waiting
<1> QED
  BY <1>1, <1>2, <1>3, <1>4, <1>5, AnswersInv DEF Next

-----------------------------------------------------------------------------
(***************************************************************************)
(* The theorems.                                                           *)
(***************************************************************************)
\* The invariant holds in every state.
LEMMA SpecInv == Spec => []Inv
<1>1. Init => Inv
  BY InitInv, OwnersAssumption
<1>2. Inv /\ [Next]_vars => Inv'
  BY NextInv, RequestsAssumption, OwnersAssumption
<1> QED
  BY <1>1, <1>2, PTL DEF Spec

\* An answer that was overtaken by a retry is never given, however many retries
\* overlap (the test of thisRequest against pendingRequest in load()).
THEOREM LatestWinsCorrect == Spec => []LatestWins
<1>1. Inv => LatestWins
  BY DEF Inv, RequestsInv, RequestInv, IsAnswer, LatestWins
<1> QED
  BY <1>1, SpecInv, PTL

\* Once the queue is flushed, the loading component is on show with all owners
\* that wait, or with none (the delay of resolveAsyncComponent).
THEOREM LoadingForAllCorrect == Spec => []LoadingForAll
<1>1. ASSUME Inv, queued = {}
      PROVE  Cardinality({ view[o] : o \in { p \in Owners : Shown[p] = "pending" } }) <= 1
  <2> DEFINE S == { view[o] : o \in { p \in Owners : Shown[p] = "pending" } }
  <2>1. ASSUME NEW o \in Owners, Shown[o] = "pending" PROVE view[o] = Waiting
    BY <1>1, <2>1 DEF Inv, FactoryInv, AsyncType, Noted, Shown, Views
  <2>2. S = {} \/ S = {Waiting}
    BY <2>1
  <2>3. Cardinality(S) = 0 \/ Cardinality(S) = 1
    BY <2>2, FS_EmptySet, FS_Singleton
  <2> QED
    BY <2>3
<1>2. Inv => LoadingForAll
  BY <1>1 DEF LoadingForAll
<1> QED
  BY <1>2, SpecInv, PTL

-----------------------------------------------------------------------------
(***************************************************************************)
(* Every step is a step of AsyncRequest, or changes nothing of it.         *)
(***************************************************************************)
Showing(v) ==
  CASE v \in {"new", "gone"} -> "none"
    [] v \in {"placeholder", "loading"} -> "pending"
    [] OTHER -> v

\* What an owner shows is said by its view alone.
LEMMA OneShown ==
  ASSUME view \in [Owners -> Views], NEW o \in Owners, NEW v, view' = [view EXCEPT ![o] = v]
  PROVE  Shown[o] = Showing(view[o]) /\ Shown' = [Shown EXCEPT ![o] = Showing(v)]
<1>1. Shown = [p \in Owners |-> Showing(view[p])] /\ Shown' = [p \in Owners |-> Showing(view'[p])]
  BY DEF Shown, Showing
<1>2. \A p \in Owners : view'[p] = IF p = o THEN v ELSE view[p]
  OBVIOUS
<1> QED
  BY <1>1, <1>2

AbstractStep == [Abstract!Next]_(Abstract!vars)

\* An owner renders: it appears, is brought up to date or stays as it was.
LEMMA RenderStep ==
  ASSUME Inv, NEW o \in Owners, Render(o)
  PROVE  AbstractStep
<1>1. view \in [Owners -> Views] /\ \A p \in queued : view[p] # "gone"
  BY DEF Inv, FactoryInv, AsyncType
<1>2. ASSUME NEW v \in Views, view' = [view EXCEPT ![o] = v], Showing(v) = Outcome,
             view[o] = "new" \/ o \in queued, UNCHANGED Outcome
      PROVE  AbstractStep
  <2>1. Shown[o] = Showing(view[o]) /\ Shown' = [Shown EXCEPT ![o] = Outcome]
    BY <1>1, <1>2, OneShown
  <2>2. CASE Shown[o] = "none"
    BY <1>2, <2>1, <2>2 DEF AbstractStep, Abstract!Next, Abstract!Appear
  <2>3. CASE Shown[o] = Outcome
    <3>1. Shown' = Shown
      BY <2>1, <2>3 DEF Shown
    <3> QED
      BY <1>2, <3>1 DEF AbstractStep, Abstract!vars
  <2>4. CASE Shown[o] \notin {"none", Outcome}
    BY <1>2, <2>1, <2>4 DEF AbstractStep, Abstract!Next, Abstract!Refresh
  <2> QED
    BY <2>2, <2>3, <2>4
<1>3. CASE ShowError(o)
  <2>1. /\ view' = [view EXCEPT ![o] = "error"] /\ (view[o] = "new" \/ o \in queued)
        /\ Outcome = "error" /\ UNCHANGED Outcome
    BY <1>3 DEF ShowError, Renders, Outcome
  <2> QED
    BY <1>2, <2>1 DEF Showing, Views
<1>4. CASE ShowResolved(o)
  <2>1. /\ view' = [view EXCEPT ![o] = "component"] /\ (view[o] = "new" \/ o \in queued)
        /\ Outcome = "component" /\ UNCHANGED Outcome
    BY <1>4 DEF ShowResolved, Renders, Outcome
  <2> QED
    BY <1>2, <2>1 DEF Showing, Views
<1>5. CASE Join(o)
  <2>1. /\ view' = [view EXCEPT ![o] = Waiting] /\ (view[o] = "new" \/ o \in queued)
        /\ Outcome = "pending" /\ UNCHANGED Outcome
    BY <1>5 DEF Join, Renders, Outcome, Waiting
  <2> QED
    BY <1>2, <2>1 DEF Showing, Views, Waiting
<1>6. CASE Start(o)
  <2>1. /\ view[o] = "new" /\ ~resolved /\ ~error /\ UNCHANGED error
        /\ Outcome = "pending"
    BY <1>6 DEF Start, Inv, FactoryInv, Unstarted, Outcome
  <2>2. CASE resolved' = TRUE /\ view' = [view EXCEPT ![o] = "component"]
    <3>1. Outcome' = "component"
      BY <2>1, <2>2 DEF Outcome
    <3>2. Shown' = [Shown EXCEPT ![o] = Outcome']
      BY <1>1, <2>2, <3>1, OneShown DEF Showing
    <3> QED
      BY <2>1, <3>1, <3>2 DEF AbstractStep, Abstract!Next, Abstract!SettleAndShow
  <2>3. CASE /\ UNCHANGED resolved
             /\ \E v \in {"placeholder", "loading"} : view' = [view EXCEPT ![o] = v]
    <3>1. UNCHANGED Outcome
      BY <2>1, <2>3 DEF Outcome
    <3> QED
      BY <1>2, <2>1, <2>3, <3>1 DEF Showing, Views
  <2>4. \/ resolved' = TRUE /\ view' = [view EXCEPT ![o] = "component"]
        \/ /\ UNCHANGED resolved
           /\ \E v \in {"placeholder", "loading"} : view' = [view EXCEPT ![o] = v]
    BY <1>6 DEF Start
  <2> QED
    BY <2>2, <2>3, <2>4
<1> QED
  BY <1>3, <1>4, <1>5, <1>6 DEF Render

\* What leaves the views alone settles the outcome, or leaves it as it was.
LEMMA SettleStep ==
  ASSUME UNCHANGED view, UNCHANGED Outcome \/ Outcome = "pending"
  PROVE  AbstractStep
<1>1. UNCHANGED Shown
  BY DEF Shown
<1>2. Outcome' \in {"pending", "component", "error"}
  BY DEF Outcome
<1> QED
  BY <1>1, <1>2 DEF AbstractStep, Abstract!Next, Abstract!Settle, Abstract!vars

\* A call of resolve or reject finds the outcome pending, or changes nothing.
LEMMA AnswerStep ==
  ASSUME Inv, UNCHANGED view, reject \/ \E res \in BOOLEAN : resolve(res),
         ~(reject /\ resolved /\ errorComp)
  PROVE  AbstractStep
<1>1. CASE reject
  <2>1. UNCHANGED <<resolved, errorComp>> /\ (UNCHANGED error \/ (errorComp /\ error' = TRUE))
    BY <1>1 DEF reject
  <2>2. UNCHANGED Outcome \/ Outcome = "pending"
    BY <1>1, <2>1 DEF Outcome
  <2> QED
    BY <2>2, SettleStep
<1>2. CASE \E res \in BOOLEAN : resolve(res)
  <2>1. UNCHANGED <<error, errorComp>> /\ (UNCHANGED resolved \/ "resolve" \notin once)
    BY <1>2 DEF resolve
  <2>2. UNCHANGED Outcome \/ Outcome = "pending"
    BY <2>1 DEF Outcome, Inv, FactoryInv, DecidedOnce
  <2> QED
    BY <2>2, SettleStep
<1> QED
  BY <1>1, <1>2

\* Every step.
LEMMA NextStep == ASSUME Inv, [Next]_vars PROVE AbstractStep
<1>1. ASSUME NEW o \in Owners, Destroy(o) PROVE AbstractStep
  <2>1. /\ view' = [view EXCEPT ![o] = "gone"] /\ view[o] \notin {"new", "gone"}
        /\ UNCHANGED <<resolved, error, errorComp>> /\ view \in [Owners -> Views]
    BY <1>1 DEF Destroy, Inv, FactoryInv, AsyncType
  <2>2. Shown[o] # "none" /\ Shown' = [Shown EXCEPT ![o] = "none"] /\ UNCHANGED Outcome
    BY <2>1, OneShown DEF Showing, Views, Outcome
  <2> QED
    BY <2>2 DEF AbstractStep, Abstract!Next, Abstract!Leave
<1>2. ASSUME UNCHANGED <<resolved, error, errorComp, view>> PROVE AbstractStep
  BY <1>2, SettleStep DEF Outcome
<1>3. ASSUME NEW o \in Owners, Update(o) PROVE AbstractStep
  BY <1>2, <1>3 DEF Update, factory
<1>4. CASE LoadingTimer
  BY <1>2, <1>4 DEF LoadingTimer
<1>5. CASE TimeoutTimer
  <2>1. UNCHANGED <<resolved, errorComp, view>> /\ (UNCHANGED error \/ (~resolved /\ error' = TRUE))
    BY <1>5 DEF TimeoutTimer
  <2>2. UNCHANGED Outcome \/ Outcome = "pending"
    BY <2>1 DEF Outcome
  <2> QED
    BY <2>1, <2>2, SettleStep
<1>6. CASE PromiseSettles
  BY <1>6, AnswerStep DEF PromiseSettles, Inv, FactoryInv, DecidedOnce
<1>7. CASE CallbackSettles
  BY <1>7, AnswerStep DEF CallbackSettles, Inv, FactoryInv, DecidedOnce
<1>8. CASE Request1
  BY <1>2, <1>8 DEF Request1, factory
<1>9. CASE UNCHANGED vars
  BY <1>2, <1>9 DEF vars, factory
<1> QED
  BY <1>1, <1>3, <1>4, <1>5, <1>6, <1>7, <1>8, <1>9, RenderStep DEF Next

\* AsyncComponent implements the safety half of AsyncRequest: its outcome is
\* decided at most once, for all owners, and an owner that renders shows it
\* (resolveAsyncComponent).  That every owner comes to do so is left to TLC.
THEOREM ImplementsAsyncRequest ==
  Spec => Abstract!Init /\ [][Abstract!Next]_(Abstract!vars)
<1>1. Init => Abstract!Init
  BY DEF Init, Abstract!Init, Outcome, Shown
<1>2. Inv /\ [Next]_vars => [Abstract!Next]_(Abstract!vars)
  BY NextStep DEF AbstractStep
<1> QED
  BY <1>1, <1>2, SpecInv, PTL DEF Spec

=============================================================================
