------------------------------ MODULE DefineAsync ------------------------------
(***************************************************************************)
(* defineAsyncComponent (src/v3/apiAsyncComponent.ts): the chain of        *)
(* promises that load() builds for every request of the loader.            *)
(*                                                                         *)
(* requests lists the calls of loader() in their order; request 1 is the   *)
(* one whose promise the factory hands out.  Microtasks of different       *)
(* promises are steps of their own, in any order.                          *)
(***************************************************************************)
EXTENDS Naturals, Sequences

CONSTANTS
  None,
  MaxRequests \* bound of the model: calls of loader()

ASSUME RequestsAssumption == MaxRequests \in Nat \ {0} /\ None \notin Nat

VARIABLES
  requests,
  pendingRequest,
  onError \* whether the options have onError

requestVars == <<requests, pendingRequest, onError>>

\* phase: "loading" until the loader answers, "asked" until the user's onError
\* calls retry or fail, "waits" for the promise of a retry, "loaded" before the
\* handler of then, "adopts" the promise of a later request, "done" or "failed".
Request ==
  [ phase |-> "loading",
    on    |-> None,   \* the request waited for or adopted
    value |-> None,   \* the request whose loader gave the value
    asked |-> FALSE,  \* the user holds userRetry and userFail
    newer |-> FALSE ] \* history: a later request began before this one was done

\* load() when pendingRequest is null
Load(Q) ==
  Append([i \in DOMAIN Q |-> [Q[i] EXCEPT !.newer = @ \/ Q[i].phase # "done"]], Request)

InitRequests == requests = <<>> /\ pendingRequest = None

\* The loader's promise is settled; the handler of catch is part of the step.
LoaderAnswers(i) ==
  /\ requests[i].phase = "loading"
  /\ \/ requests' = [requests EXCEPT ![i].phase = "loaded", ![i].value = i]
     \/ requests' = [requests EXCEPT ![i].phase = IF onError THEN "asked" ELSE "failed",
                                     ![i].asked = onError]
  /\ UNCHANGED <<pendingRequest, onError>>

\* resolve(retry()): retry() begins a request even when the promise is settled.
UserRetry(i) ==
  /\ requests[i].asked /\ Len(requests) < MaxRequests
  /\ LET new == Len(requests) + 1
     IN  /\ requests' = IF requests[i].phase = "asked"
                        THEN [Load(requests) EXCEPT ![i].phase = "waits", ![i].on = new]
                        ELSE Load(requests)
         /\ pendingRequest' = new
  /\ UNCHANGED onError

UserFail(i) ==
  /\ requests[i].phase = "asked"
  /\ requests' = [requests EXCEPT ![i].phase = "failed"]
  /\ UNCHANGED <<pendingRequest, onError>>

\* The promise that request i waits for or adopts is settled.
Follow(i) ==
  /\ requests[i].phase \in {"waits", "adopts"}
  /\ LET other == requests[requests[i].on]
     IN  \/ /\ other.phase = "done"
            /\ requests' = [requests EXCEPT
                 ![i].phase = IF @ = "waits" THEN "loaded" ELSE "done",
                 ![i].value = other.value]
         \/ /\ other.phase = "failed"
            /\ requests' = [requests EXCEPT ![i].phase = "failed"]
  /\ UNCHANGED <<pendingRequest, onError>>

\* mutant: the request keeps its own value
IsStaleNever(i) == FALSE

\* thisRequest !== pendingRequest && pendingRequest
IsStale(i) == pendingRequest \notin {i, None}

\* The handler of then; a value that is no component is an error.
Then(i) ==
  /\ requests[i].phase = "loaded"
  /\ \/ /\ IsStale(i)
        /\ requests' = [requests EXCEPT ![i].phase = "adopts", ![i].on = pendingRequest]
     \/ /\ ~IsStale(i)
        /\ \E outcome \in {"done", "failed"} :
             requests' = [requests EXCEPT ![i].phase = outcome]
  /\ UNCHANGED <<pendingRequest, onError>>

NextRequest ==
  \E i \in DOMAIN requests :
    \/ LoaderAnswers(i) \/ UserRetry(i) \/ UserFail(i) \/ Follow(i) \/ Then(i)

\* A request that is done has the value of a request that was the latest when
\* it was done itself: an answer that was overtaken by a retry is never given
\* (apiAsyncComponent.ts, the test of thisRequest against pendingRequest).
LatestWins ==
  \A i \in DOMAIN requests :
    requests[i].phase = "done" => ~requests[requests[i].value].newer
===============================================================================
