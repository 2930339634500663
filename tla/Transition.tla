------------------------------- MODULE Transition -------------------------------
(***************************************************************************)
(* Enter and leave transitions: enter and leave of                         *)
(* platforms/web/runtime/modules/transition.ts, the modes of the           *)
(* <transition> component and the part of v-show that calls them.          *)
(*                                                                         *)
(* A parent shows one of several views, or none, inside one <transition>:  *)
(* by v-if (every showing makes an element), kept alive (a view keeps its  *)
(* element), or by v-show (one element, displayed or not).  Rendering and  *)
(* patching are one task; frames, ends of transitions and the user's done  *)
(* come between tasks, in any order, also after they were cancelled.       *)
(*                                                                         *)
(* External: the frames and the events of the browser, and a user who      *)
(* calls done once, not before the frame in which the transition begins.   *)
(***************************************************************************)
EXTENDS Integers, Sequences, FiniteSets

CONSTANTS
  Views,
  Configs,    \* [use, mode, css, control, appear]
  MaxToggles, \* bound of the model
  None

ASSUME ConfigsAssumption ==
  /\ Views # {} /\ None \notin Views /\ MaxToggles \in Nat
  /\ Configs \subseteq [use : {"if", "kept", "show"}, mode : {"", "out-in", "in-out"},
                        css : BOOLEAN, control : BOOLEAN, appear : BOOLEAN]

VARIABLES
  config,
  want,    \* the view the parent shows; with v-show, None hides the view
  toggles,
  heap     \* the document, the elements and the callbacks

vars == <<config, want, toggles, heap>>

Element(key) ==
  [key |-> key, inDom |-> FALSE, display |-> TRUE, classes |-> {},
   enterCb |-> 0, leaveCb |-> 0, hooks |-> <<>>]

\* link: the delayedLeave of a rendering in mode in-out; reopens: afterLeave of out-in
Callback(kind, el, link, reopens, stage) ==
  [kind |-> kind, el |-> el, cancelled |-> FALSE, called |-> FALSE,
   link |-> link, reopens |-> reopens, stage |-> stage]

ShowUse == config.use = "show"

-----------------------------------------------------------------------------
(***************************************************************************)
(* The callbacks that end a transition.  Each runs once.                   *)
(***************************************************************************)
AddClasses(h, el, cs) == [h EXCEPT !.els[el].classes = @ \union cs]
RemoveClasses(h, el, cs) == IF config.css THEN [h EXCEPT !.els[el].classes = @ \ cs] ELSE h
Hook(h, el, name) == [h EXCEPT !.els[el].hooks = Append(@, name)]

\* rm: createRmCb of patch removes the node; that of v-show hides it
Rm(h, el) ==
  IF ShowUse THEN [h EXCEPT !.els[el].display = FALSE] ELSE [h EXCEPT !.els[el].inDom = FALSE]

CallLeaveCb(h, id) ==
  LET cb == h.cbs[id]
      el == cb.el
      h1 == [h EXCEPT !.cbs[id].called = TRUE,
                      !.pending = IF h.els[el].inDom THEN [@ EXCEPT ![h.els[el].key] = 0] ELSE @]
      h2 == RemoveClasses(h1, el, {"leave-to", "leave-active"})
      h3 == IF cb.cancelled THEN Hook(RemoveClasses(h2, el, {"leave"}), el, "leaveCancelled")
            ELSE Hook(Rm(h2, el), el, "afterLeave")
      h4 == IF cb.reopens /\ ~cb.cancelled THEN [h3 EXCEPT !.leaving = FALSE, !.dirty = TRUE] ELSE h3
  IN IF cb.called THEN h ELSE [h4 EXCEPT !.els[el].leaveCb = 0]

PerformLeave(h, id) ==
  LET el == h.cbs[id].el
      h1 == Hook([h EXCEPT !.pending =
                    IF ~ShowUse /\ h.els[el].inDom THEN [@ EXCEPT ![h.els[el].key] = el] ELSE @],
                 el, "beforeLeave")
  IN IF h.cbs[id].cancelled THEN h
     ELSE IF config.css
          THEN [AddClasses(h1, el, {"leave", "leave-active"}) EXCEPT !.cbs[id].stage = "frame"]
     ELSE IF config.control THEN [h1 EXCEPT !.cbs[id].stage = "user"]
     ELSE CallLeaveCb(h1, id)

\* afterEnter and enterCancelled of an in-out rendering perform the delayed leave.
CallEnterCb(h, id) ==
  LET cb == h.cbs[id]
      h1 == RemoveClasses([h EXCEPT !.cbs[id].called = TRUE], cb.el, {"enter-to", "enter-active"})
      h2 == IF cb.cancelled THEN Hook(RemoveClasses(h1, cb.el, {"enter"}), cb.el, "enterCancelled")
            ELSE Hook(h1, cb.el, "afterEnter")
      delayed == IF cb.link = 0 THEN 0 ELSE h.links[cb.link]
      h3 == IF delayed = 0 THEN h2 ELSE PerformLeave(h2, delayed)
  IN IF cb.called THEN h ELSE [h3 EXCEPT !.els[cb.el].enterCb = 0]

CancelEnter(h, el) ==
  LET id == h.els[el].enterCb IN
  IF id = 0 THEN h ELSE CallEnterCb([h EXCEPT !.cbs[id].cancelled = TRUE], id)

CancelLeave(h, el) ==
  LET id == h.els[el].leaveCb IN
  IF id = 0 THEN h ELSE CallLeaveCb([h EXCEPT !.cbs[id].cancelled = TRUE], id)

-----------------------------------------------------------------------------
(***************************************************************************)
(* enter and leave.                                                        *)
(***************************************************************************)
\* The id that the callback made next will have
NextCb(h) == Len(h.cbs) + 1

\* What the first conditions of enter let through
Enters(h, el) == h.els[el].enterCb = 0 /\ (h.mounted \/ config.appear)

StartEnter(h, el, link) ==
  LET id == NextCb(h)
      stage == IF config.css THEN "frame" ELSE "user"
      h1 == Hook([h EXCEPT !.cbs = Append(@, Callback("enter", el, link, FALSE, stage)),
                           !.els[el].enterCb = id,
                           !.entered = IF ShowUse THEN @ ELSE el],
                 el, "beforeEnter")
      h2 == IF config.css THEN AddClasses(h1, el, {"enter", "enter-active"}) ELSE h1
      h3 == IF ShowUse THEN [h2 EXCEPT !.els[el].display = TRUE] ELSE h2
  IN IF ~config.css /\ ~config.control THEN CallEnterCb(h3, id) ELSE h3

enter(h, el, link) ==
  LET h1 == CancelLeave(h, el) IN IF Enters(h1, el) THEN StartEnter(h1, el, link) ELSE h1

\* The hook that enter merges into insert, if there is one (el): what is still
\* leaving under the same key goes at once.
\* mutant: it stays
InsertHookLate(h, el) == h

InsertHook(h, el) ==
  LET p == IF el = 0 THEN 0 ELSE h.pending[h.els[el].key] IN
  IF p # 0 /\ h.els[p].leaveCb # 0 THEN CallLeaveCb(h, h.els[p].leaveCb) ELSE h

\* mutant: an element that enters leaves without its enter being cancelled
leaveUncancelled(h, el, link, reopens) ==
  LET id == NextCb(h)
      h2 == [h EXCEPT !.cbs = Append(@, Callback("leave", el, 0, reopens, "delayed")),
                      !.els[el].leaveCb = id]
  IN IF h.els[el].leaveCb # 0 THEN h
     ELSE IF link # 0 THEN [h2 EXCEPT !.links[link] = id]
     ELSE PerformLeave(h2, id)

\* With a link, delayLeave keeps performLeave for the entering element.
leave(h, el, link, reopens) ==
  LET h1 == CancelEnter(h, el)
      id == NextCb(h1)
      h2 == [h1 EXCEPT !.cbs = Append(@, Callback("leave", el, 0, reopens, "delayed")),
                       !.els[el].leaveCb = id]
  IN IF h1.els[el].leaveCb # 0 THEN h1
     ELSE IF link # 0 THEN [h2 EXCEPT !.links[link] = id]
     ELSE PerformLeave(h2, id)

-----------------------------------------------------------------------------
(***************************************************************************)
(* The render function of <transition>, and the patch of what it returns.  *)
(* cur is the element of its virtual node, 0 for the empty one.            *)
(***************************************************************************)
\* createElm, or the element that keep-alive kept; then the module's create hook
Create(h, key, link) ==
  LET Kept == {e \in DOMAIN h.els : config.use = "kept" /\ h.els[e].key = key}
      h1 == IF Kept = {} THEN [h EXCEPT !.els = Append(@, Element(key))] ELSE h
      el == IF Kept = {} THEN Len(h1.els) ELSE CHOOSE e \in Kept : TRUE
  IN [enter(h1, el, link) EXCEPT !.els[el].inDom = TRUE, !.cur = el]

\* patch: create the new node, remove the old one, then the insert hook
Replace(h, key, link, reopens) ==
  LET old == h.cur
      h1 == IF key = None THEN [h EXCEPT !.cur = 0] ELSE Create(h, key, link)
      h2 == IF old = 0 THEN h1 ELSE leave(h1, old, link, reopens)
  IN InsertHook([h2 EXCEPT !.entered = 0], h2.entered)

\* render of <transition>.  While an old child leaves in mode out-in it is empty.
Render(h) ==
  LET differs == h.cur # 0 /\ h.els[h.cur].key # want
      linked == [h EXCEPT !.links = Append(@, 0)]
  IN IF h.cur # 0 /\ ~differs THEN h
     ELSE IF want = None THEN Replace(h, None, 0, FALSE)
     ELSE IF h.leaving THEN h
     ELSE IF differs /\ config.mode = "out-in"
          THEN Replace([h EXCEPT !.leaving = TRUE], None, 0, TRUE)
     ELSE IF differs /\ config.mode = "in-out"
          THEN Replace(linked, want, Len(linked.links), FALSE)
     ELSE Replace(h, want, 0, FALSE)

\* bind and update of v-show, on the one element
Show(h) ==
  LET value == want # None
      made == [h EXCEPT !.els = Append(@, [Element(CHOOSE v \in Views : TRUE) EXCEPT
                                             !.inDom = TRUE, !.display = value]),
                        !.cur = 1, !.shown = value]
  IN IF h.cur = 0 THEN (IF value THEN enter(made, 1, 0) ELSE made)
     ELSE IF value = h.shown THEN h
     ELSE IF value THEN enter([h EXCEPT !.shown = TRUE], 1, 0)
     ELSE leave([h EXCEPT !.shown = FALSE], 1, 0, FALSE)

-----------------------------------------------------------------------------
Flush ==
  /\ heap.dirty
  /\ LET h == [heap EXCEPT !.dirty = FALSE] IN
     heap' = [(IF ShowUse THEN Show(h) ELSE Render(h)) EXCEPT !.mounted = TRUE]
  /\ UNCHANGED <<config, want, toggles>>

\* The parent shows another view, the same one anew, or none.
Toggle(v) ==
  /\ toggles < MaxToggles /\ heap.mounted
  /\ toggles' = toggles + 1
  /\ want' = v
  /\ heap' = [heap EXCEPT !.dirty = TRUE]
  /\ UNCHANGED config

\* nextFrame of enter and of leave: cancelled or not, the first class goes.
Frame(id) ==
  LET cb == heap.cbs[id]
      names == IF cb.kind = "enter" THEN <<"enter", "enter-to">> ELSE <<"leave", "leave-to">>
      h == RemoveClasses(heap, cb.el, {names[1]})
  IN /\ cb.stage = "frame"
     /\ heap' = IF cb.cancelled THEN [h EXCEPT !.cbs[id].stage = "ended"]
                ELSE [AddClasses(h, cb.el, {names[2]}) EXCEPT
                        !.cbs[id].stage = IF config.control THEN "user" ELSE "end"]
     /\ UNCHANGED <<config, want, toggles>>

\* The transition ends, its time is over, or the user calls done.
End(id) ==
  LET cb == heap.cbs[id]
      h == [heap EXCEPT !.cbs[id].stage = "ended"]
  IN /\ cb.stage \in {"end", "user"}
     /\ heap' = IF cb.kind = "enter" THEN CallEnterCb(h, id) ELSE CallLeaveCb(h, id)
     /\ UNCHANGED <<config, want, toggles>>

Init ==
  /\ config \in Configs
  /\ want \in Views \union {None}
  /\ toggles = 0
  /\ heap = [els |-> <<>>, cbs |-> <<>>, links |-> <<>>, entered |-> 0,
             pending |-> [v \in Views |-> 0], cur |-> 0, shown |-> FALSE,
             leaving |-> FALSE, mounted |-> FALSE, dirty |-> TRUE]

Next ==
  \/ Flush
  \/ \E v \in Views \union {None} : Toggle(v)
  \/ \E id \in DOMAIN heap.cbs : Frame(id)
  \/ \E id \in DOMAIN heap.cbs : End(id)

Spec == Init /\ [][Next]_vars

-----------------------------------------------------------------------------
(***************************************************************************)
(* Properties.                                                             *)
(***************************************************************************)
InDom == {e \in DOMAIN heap.els : heap.els[e].inDom}

\* Nothing more will happen by itself.
Settled ==
  /\ ~heap.dirty
  /\ \A id \in DOMAIN heap.cbs : heap.cbs[id].stage \notin {"frame", "end", "user"}

\* A view is never in the document twice: a leaving element goes when the same view
\* enters again (the insert hook of enter).  In mode out-in nothing enters while the
\* element it takes the place of has not left (_leaving), unless that one made place
\* for nothing.
OneAtATime ==
  /\ \A e, f \in InDom : e # f => heap.els[e].key # heap.els[f].key
  /\ \A id \in DOMAIN heap.cbs :
       heap.cbs[id].reopens /\ ~heap.cbs[id].called => heap.leaving /\ heap.cur = 0

\* Views come and go one at a time (OneAtATime), and however transitions were
\* cancelled, delayed and overtaken, once all has ended the document shows the view
\* that is wanted, without a class of a transition and without a callback, and a
\* transition of mode out-in is open again (enter, leave, _pending, _leaving and
\* delayedLeave).
SettlesAsWanted ==
  /\ OneAtATime
  /\ Settled =>
       /\ \A e \in InDom : heap.els[e].classes = {} /\ heap.els[e].enterCb = 0 /\ heap.els[e].leaveCb = 0
       /\ ~heap.leaving
       /\ IF ShowUse THEN \A e \in InDom : heap.els[e].display = (want # None)
          ELSE {heap.els[e].key : e \in InDom} = {want} \ {None} /\ Cardinality(InDom) <= 1

\* Each transition that begins ends before the next one of its element begins, by
\* an after hook or a cancelled hook and not by both (_enterCb, _leaveCb, once).
\* Only a leave that is delayed may be cancelled before it begins.
HooksPaired ==
  \A e \in DOMAIN heap.els :
    LET s == heap.els[e].hooks
        Before(i) == IF i = 1 THEN "none" ELSE s[i - 1]
    IN \A i \in DOMAIN s :
         CASE s[i] \in {"afterEnter", "enterCancelled"} -> Before(i) = "beforeEnter"
           [] s[i] = "afterLeave" -> Before(i) = "beforeLeave"
           [] s[i] = "leaveCancelled" ->
                Before(i) = "beforeLeave" \/ (config.mode = "in-out" /\ Before(i) # "beforeEnter")
           [] s[i] \in {"beforeEnter", "beforeLeave"} -> Before(i) \notin {"beforeEnter", "beforeLeave"}
=============================================================================
