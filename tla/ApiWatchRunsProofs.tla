--------------------------- MODULE ApiWatchRunsProofs ---------------------------
(***************************************************************************)
(* Proofs about ApiWatch: what the runs of one watcher have to do with     *)
(* each other, with its being stopped, and with what its source is now.    *)
(***************************************************************************)
EXTENDS ApiWatchProofs

-----------------------------------------------------------------------------
(***************************************************************************)
(* Runs.                                                                   *)
(***************************************************************************)
\* What a frame f above g has to do with it: a run does not begin in a run of the same
\* watcher, nor will it, if the watcher is a sync one that is about to be notified.
Apart(f, g) ==
  /\ IsRun(f) /\ IsRun(g) => f.w # g.w
  /\ f.kind = "notify" /\ IsRun(g) /\ g.w \in Sync => g.w \notin ToSet(f.todo)

AloneInv == \A f, g \in Frames : Above(f, g) => Apart(f, g)

CleanInv == \A f \in Frames : f.kind = "cleanup" /\ f.then # "stop" => f.w \notin owed

ChainInv ==
  /\ \A f \in Frames : f.kind = "callback" => f.new = last[f.w]
  /\ \A w \in Watchers \ Effects :
       old[w] = last[w] \/ \E f \in Frames : f.kind = "callback" /\ f.w = w

RunsInv == AloneInv /\ CleanInv /\ ChainInv

-----------------------------------------------------------------------------
(***************************************************************************)
(* Steps in which no run begins or goes on.                                *)
(***************************************************************************)
LEMMA PushTwoFrames ==
  ASSUME StackInv, NEW f, NEW g, NEW c, c = stack, stack' = <<f, g>> \o c
  PROVE  /\ IsASeq(c) /\ Frames = ToSet(c) /\ Frames' = {f, g} \union ToSet(c)
         /\ Head(stack') = f
         /\ \A x, y : Above(x, y) <=> Precedes(c, x, y)
         /\ \A x, y : Above(x, y)' <=> (\/ x = f /\ y \in {g} \union ToSet(c)
                                        \/ x = g /\ y \in ToSet(c)
                                        \/ Precedes(c, x, y))
         /\ \A x, y : Precedes(c, x, y) => x \in ToSet(c) /\ y \in ToSet(c)
<1>1. Frames = ToSet(c) /\ IsASeq(c) /\ \A x, y : Above(x, y) <=> Precedes(c, x, y)
  BY DEF Frames, Above, StackInv, InOrder
<1>2. PICK t, u : t = <<g>> \o c /\ u = stack'
  OBVIOUS
<1>3. /\ IsASeq(t) /\ ToSet(t) = {g} \union ToSet(c)
      /\ \A x, y : Precedes(t, x, y) <=> (x = g /\ y \in ToSet(c)) \/ Precedes(c, x, y)
  BY <1>1, <1>2, Stacked
<1>4. u = <<f>> \o t
  BY <1>1, <1>2, StackedTwice
<1>5. /\ ToSet(u) = {f} \union ToSet(t) /\ Head(u) = f
      /\ \A x, y : Precedes(u, x, y) <=> (x = f /\ y \in ToSet(t)) \/ Precedes(t, x, y)
  BY <1>3, <1>4, Stacked
<1>6. \A x, y : Precedes(c, x, y) => x \in ToSet(c) /\ y \in ToSet(c)
  BY <1>1, SetFacts
<1> QED
  BY <1>1, <1>2, <1>3, <1>5, <1>6 DEF Frames, Above

Tame(f) == ~IsRun(f) /\ f.kind # "notify"

TameStep ==
  \/ UNCHANGED stack
  \/ stack # <<>> /\ Top.kind # "callback" /\ stack' = Callers
  \/ \E f : Tame(f) /\ stack # <<>> /\ Top.kind # "callback" /\ stack' = <<f>> \o Callers
  \/ \E f : Tame(f) /\ stack' = <<f>> \o stack
  \/ \E f, g : /\ Tame(f) /\ Tame(g) /\ stack # <<>> /\ Top.kind # "callback"
               /\ stack' = <<f>> \o (<<g>> \o Callers)
  \/ \E f, g : Tame(f) /\ Tame(g) /\ stack' = <<f, g>> \o stack

\* What tame steps leave on the stack
TameFrames ==
  /\ \A f \in Frames' : f \in Frames \/ Tame(f)
  /\ \A f, g : Above(f, g)' => Above(f, g) \/ Tame(f)
  /\ \A f \in Frames : f.kind = "callback" => f \in Frames'

LEMMA TameStepFacts ==
  ASSUME StackInv, TameStep
  PROVE  TameFrames
<1>1. CASE UNCHANGED stack
  BY <1>1 DEF TameFrames, Frames, Above
<1>2. CASE stack # <<>> /\ Top.kind # "callback" /\ stack' = Callers
  <2>1. /\ Frames = {Top} \union ToSet(Callers)
        /\ \A x, y : Above(x, y) <=> (x = Top /\ y \in ToSet(Callers)) \/ Precedes(Callers, x, y)
    BY <1>2, Peeled
  <2>2. Frames' = ToSet(Callers) /\ \A x, y : Above(x, y)' <=> Precedes(Callers, x, y)
    BY <1>2 DEF Frames, Above
  <2> QED
    BY <1>2, <2>1, <2>2 DEF TameFrames
<1>3. ASSUME NEW f, Tame(f), stack # <<>>, Top.kind # "callback", stack' = <<f>> \o Callers
      PROVE  TameFrames
  <2>1. PICK c : c = Callers
    OBVIOUS
  <2>2. /\ Frames = {Top} \union ToSet(c) /\ Frames' = {f} \union ToSet(c)
        /\ \A x, y : Above(x, y) <=> (x = Top /\ y \in ToSet(c)) \/ Precedes(c, x, y)
        /\ \A x, y : Above(x, y)' <=> (x = f /\ y \in ToSet(c)) \/ Precedes(c, x, y)
    BY <1>3, <2>1, SwapFrames
  <2> QED
    BY <1>3, <2>2 DEF TameFrames
<1>4. ASSUME NEW f, Tame(f), stack' = <<f>> \o stack PROVE TameFrames
  <2>1. PICK c : c = stack
    OBVIOUS
  <2>2. /\ Frames = ToSet(c) /\ Frames' = {f} \union ToSet(c)
        /\ \A x, y : Above(x, y) <=> Precedes(c, x, y)
        /\ \A x, y : Above(x, y)' <=> (x = f /\ y \in ToSet(c)) \/ Precedes(c, x, y)
    BY <1>4, <2>1, PushFrames
  <2> QED
    BY <1>4, <2>2 DEF TameFrames
<1>5. ASSUME NEW f, NEW g, Tame(f), Tame(g), stack # <<>>, Top.kind # "callback",
             stack' = <<f>> \o (<<g>> \o Callers)
      PROVE  TameFrames
  <2>1. PICK c : c = Callers
    OBVIOUS
  <2>2. /\ Frames = {Top} \union ToSet(c) /\ Frames' = {f, g} \union ToSet(c)
        /\ \A x, y : Above(x, y) <=> (x = Top /\ y \in ToSet(c)) \/ Precedes(c, x, y)
        /\ \A x, y : Above(x, y)' <=> (\/ x = f /\ y \in {g} \union ToSet(c)
                                       \/ x = g /\ y \in ToSet(c)
                                       \/ Precedes(c, x, y))
    BY <1>5, <2>1, SwapPushFrames, ZenonT(60)
  <2> QED
    BY <1>5, <2>2 DEF TameFrames
<1>6. ASSUME NEW f, NEW g, Tame(f), Tame(g), stack' = <<f, g>> \o stack PROVE TameFrames
  <2>1. PICK c : c = stack
    OBVIOUS
  <2>2. /\ Frames = ToSet(c) /\ Frames' = {f, g} \union ToSet(c)
        /\ \A x, y : Above(x, y) <=> Precedes(c, x, y)
        /\ \A x, y : Above(x, y)' <=> (\/ x = f /\ y \in {g} \union ToSet(c)
                                       \/ x = g /\ y \in ToSet(c)
                                       \/ Precedes(c, x, y))
    BY <1>6, <2>1, PushTwoFrames
  <2> QED
    BY <1>6, <2>2 DEF TameFrames
<1> QED
  BY <1>1, <1>2, <1>3, <1>4, <1>5, <1>6 DEF TameStep

LEMMA AboveFrames ==
  ASSUME StackInv
  PROVE  \A x, y : Above(x, y) => x \in Frames /\ y \in Frames
BY SetFacts DEF StackInv, InOrder, Above, Frames

\* A frame that is no run and no notification is apart from everything.
LEMMA TameApart ==
  ASSUME NEW f, Tame(f), NEW g
  PROVE  Apart(f, g)
BY DEF Tame, Apart

LEMMA TameRuns ==
  ASSUME StackInv, RunsInv, TameStep, owed' \subseteq owed, UNCHANGED <<old, last>>
  PROVE  RunsInv'
<1>1. TameFrames
  BY TameStepFacts
<1>2. AloneInv'
  <2>1. ASSUME NEW f, NEW g, Above(f, g)' PROVE Apart(f, g)
    <3>1. Above(f, g) \/ Tame(f)
      BY <1>1, <2>1 DEF TameFrames
    <3> QED
      BY <3>1, AboveFrames, TameApart DEF RunsInv, AloneInv
  <2> QED
    BY <2>1 DEF AloneInv
<1>3. CleanInv'
  BY <1>1 DEF TameFrames, Tame, IsRun, RunsInv, CleanInv
<1>4. ChainInv'
  BY <1>1 DEF TameFrames, Tame, IsRun, RunsInv, ChainInv
<1> QED
  BY <1>2, <1>3, <1>4 DEF RunsInv

-----------------------------------------------------------------------------
(***************************************************************************)
(* A run begins, goes on or ends.                                          *)
(***************************************************************************)
\* No other run of the watcher whose run is on top
LEMMA AloneTop ==
  ASSUME StackInv, AloneInv, stack # <<>>, IsRun(Top), NEW w, w = Top.w
  PROVE  \A g \in ToSet(Callers) : IsRun(g) => g.w # w
<1>1. ASSUME NEW g \in ToSet(Callers), IsRun(g) PROVE g.w # w
  <2>1. Above(Top, g) /\ Top \in Frames /\ g \in Frames
    BY <1>1, Peeled
  <2> QED
    BY <1>1, <2>1 DEF AloneInv, Apart
<1> QED
  BY <1>1

\* ... nor a callback of it that has not returned
LEMMA OldHere ==
  ASSUME StackInv, RunsInv, stack # <<>>, IsRun(Top), Top.kind # "callback", NEW w \in Watchers, w = Top.w,
         w \notin Effects
  PROVE  old[w] = last[w]
<1>1. \A f \in Frames : f.kind = "callback" => f.w # w
  <2>1. ASSUME NEW f \in Frames, f.kind = "callback" PROVE f.w # w
    <3>1. f \in ToSet(Callers) /\ IsRun(f)
      BY <2>1, Peeled DEF IsRun
    <3> QED
      BY <3>1, AloneTop DEF RunsInv
  <2> QED
    BY <2>1
<1> QED
  BY <1>1 DEF RunsInv, ChainInv

LEMMA RunGoesOn ==
  ASSUME StackInv, RunsInv, stack # <<>>, IsRun(Top), Top.kind # "callback", NEW w, w = Top.w,
         NEW f, IsRun(f), f.w = w, stack' = <<f>> \o Callers,
         owed' \subseteq owed, f.kind = "cleanup" => w \notin owed',
         f.kind = "callback" => f.new = last'[w],
         f.kind # "callback" => last'[w] = last[w],
         \A x \in Watchers : x # w => last'[x] = last[x],
         \A x \in Watchers \ Effects : old'[x] = old[x],
         \A g \in Frames : IsRun(g) => g.w \in Watchers
  PROVE  RunsInv'
<1>1. PICK c : c = Callers
  OBVIOUS
<1>2. /\ Frames = {Top} \union ToSet(c) /\ Frames' = {f} \union ToSet(c)
      /\ \A x, y : Above(x, y) <=> (x = Top /\ y \in ToSet(c)) \/ Precedes(c, x, y)
      /\ \A x, y : Above(x, y)' <=> (x = f /\ y \in ToSet(c)) \/ Precedes(c, x, y)
      /\ \A x, y : Precedes(c, x, y) => x \in ToSet(c) /\ y \in ToSet(c)
  BY <1>1, SwapFrames
<1>3. \A g \in ToSet(c) : IsRun(g) => g.w # w
  BY <1>1, AloneTop DEF RunsInv
<1>4. AloneInv'
  <2>1. ASSUME NEW x, NEW y, Above(x, y)' PROVE Apart(x, y)
    <3>1. CASE x = f /\ y \in ToSet(c)
      <4>1. f.kind # "notify"
        BY DEF IsRun
      <4> QED
        BY <1>3, <3>1, <4>1 DEF Apart
    <3>2. CASE Precedes(c, x, y)
      <4>1. Above(x, y) /\ x \in Frames /\ y \in Frames
        BY <1>2, <3>2
      <4> QED
        BY <4>1 DEF RunsInv, AloneInv
    <3> QED
      BY <1>2, <2>1, <3>1, <3>2
  <2> QED
    BY <2>1 DEF AloneInv
<1>5. CleanInv'
  BY <1>2 DEF RunsInv, CleanInv
<1>6. ChainInv'
  <2>1. ASSUME NEW g \in Frames', g.kind = "callback" PROVE g.new = last'[g.w]
    <3>1. CASE g = f
      BY <2>1, <3>1
    <3>2. CASE g \in ToSet(c)
      <4>1. g.w # w /\ g \in Frames /\ g.w \in Watchers
        BY <1>2, <1>3, <2>1, <3>2 DEF IsRun
      <4> QED
        BY <2>1, <4>1 DEF RunsInv, ChainInv
    <3> QED
      BY <1>2, <3>1, <3>2
  <2>2. ASSUME NEW x \in Watchers \ Effects
        PROVE  old'[x] = last'[x] \/ \E g \in Frames' : g.kind = "callback" /\ g.w = x
    <3>1. CASE x = w
      <4>1. old[x] = last[x]
        BY <3>1, OldHere
      <4>2. CASE f.kind = "callback"
        BY <1>2, <3>1, <4>2
      <4>3. CASE f.kind # "callback"
        BY <3>1, <4>1, <4>3
      <4> QED
        BY <4>2, <4>3
    <3>2. CASE x # w
      <4>1. old'[x] = old[x] /\ last'[x] = last[x]
        BY <3>2
      <4>2. ASSUME NEW g \in Frames, g.kind = "callback", g.w = x PROVE g \in Frames'
        BY <1>2, <4>2
      <4> QED
        BY <4>1, <4>2 DEF RunsInv, ChainInv
    <3> QED
      BY <3>1, <3>2
  <2> QED
    BY <2>1, <2>2 DEF ChainInv
<1> QED
  BY <1>4, <1>5, <1>6 DEF RunsInv

\* A run ends with the old value it leaves behind.
LEMMA RunEnds ==
  ASSUME StackInv, RunsInv, stack # <<>>, IsRun(Top), NEW w, w = Top.w, stack' = Callers,
         owed' \subseteq owed, old'[w] = last'[w],
         \A x \in Watchers : x # w => last'[x] = last[x] /\ old'[x] = old[x],
         \A g \in Frames : IsRun(g) => g.w \in Watchers
  PROVE  RunsInv'
<1>1. PICK c : c = Callers
  OBVIOUS
<1>2. /\ Frames = {Top} \union ToSet(c) /\ Frames' = ToSet(c)
      /\ \A x, y : Above(x, y) <=> (x = Top /\ y \in ToSet(c)) \/ Precedes(c, x, y)
      /\ \A x, y : Above(x, y)' <=> Precedes(c, x, y)
  BY <1>1, Peeled DEF Frames, Above
<1>3. \A g \in ToSet(c) : IsRun(g) => g.w # w
  BY <1>1, AloneTop DEF RunsInv
<1>4. AloneInv' /\ CleanInv'
  BY <1>2 DEF RunsInv, AloneInv, CleanInv
<1>5. ASSUME NEW g \in Frames', g.kind = "callback" PROVE g.new = last'[g.w]
  <2>1. g.w # w /\ g \in Frames /\ g.w \in Watchers
    BY <1>2, <1>3, <1>5 DEF IsRun
  <2> QED
    BY <1>5, <2>1 DEF RunsInv, ChainInv
<1>6. ASSUME NEW x \in Watchers \ Effects
      PROVE  old'[x] = last'[x] \/ \E g \in Frames' : g.kind = "callback" /\ g.w = x
  <2>1. CASE x = w
    BY <2>1
  <2>2. CASE x # w
    <3>1. old'[x] = old[x] /\ last'[x] = last[x]
      BY <2>2
    <3>2. ASSUME NEW g \in Frames, g.kind = "callback", g.w = x PROVE g \in Frames'
      BY <1>2, <2>2, <3>2
    <3> QED
      BY <3>1, <3>2 DEF RunsInv, ChainInv
  <2> QED
    BY <2>1, <2>2
<1> QED
  BY <1>4, <1>5, <1>6 DEF RunsInv, ChainInv

LEMMA RunBegins ==
  ASSUME StackInv, RunsInv, NEW f, f.kind \in {"get", "run"}, \A g \in Frames : IsRun(g) => g.w # f.w,
         stack' = <<f>> \o stack, owed' \subseteq owed, UNCHANGED <<old, last>>
  PROVE  RunsInv'
<1>1. PICK c : c = stack
  OBVIOUS
<1>2. /\ Frames = ToSet(c) /\ Frames' = {f} \union ToSet(c)
      /\ \A x, y : Above(x, y) <=> Precedes(c, x, y)
      /\ \A x, y : Above(x, y)' <=> (x = f /\ y \in ToSet(c)) \/ Precedes(c, x, y)
      /\ \A x, y : Precedes(c, x, y) => x \in ToSet(c) /\ y \in ToSet(c)
  BY <1>1, PushFrames
<1>3. AloneInv'
  BY <1>2 DEF RunsInv, AloneInv, Apart
<1>4. CleanInv' /\ ChainInv'
  BY <1>2 DEF RunsInv, CleanInv, ChainInv
<1> QED
  BY <1>3, <1>4 DEF RunsInv

\* The list of the frame on top gets shorter: nothing more, or its head starts to run.
Shortened(g) ==
  /\ g.kind = Top.kind /\ Top.kind \in {"notify", "pre", "once"}
  /\ ToSet(g.todo) \subseteq ToSet(Top.todo)

LEMMA ListShortens ==
  ASSUME StackInv, RunsInv, stack # <<>>, NEW g, Shortened(g),
         stack' = <<g>> \o Callers, UNCHANGED <<old, last, owed>>
  PROVE  RunsInv'
<1>1. PICK c : c = Callers
  OBVIOUS
<1>2. /\ Frames = {Top} \union ToSet(c) /\ Frames' = {g} \union ToSet(c)
      /\ \A x, y : Above(x, y) <=> (x = Top /\ y \in ToSet(c)) \/ Precedes(c, x, y)
      /\ \A x, y : Above(x, y)' <=> (x = g /\ y \in ToSet(c)) \/ Precedes(c, x, y)
      /\ \A x, y : Precedes(c, x, y) => x \in ToSet(c) /\ y \in ToSet(c)
  BY <1>1, SwapFrames
<1>3. \A y \in ToSet(c) : Apart(g, y)
  <2>1. ASSUME NEW y \in ToSet(c) PROVE Apart(g, y)
    <3>1. Apart(Top, y)
      BY <1>2, <2>1 DEF RunsInv, AloneInv
    <3> QED
      BY <3>1 DEF Apart, Shortened, IsRun
  <2> QED
    BY <2>1
<1>4. AloneInv'
  BY <1>2, <1>3 DEF RunsInv, AloneInv
<1>5. CleanInv' /\ ChainInv'
  BY <1>2 DEF RunsInv, CleanInv, ChainInv, Shortened
<1> QED
  BY <1>4, <1>5 DEF RunsInv

LEMMA HeadRuns ==
  ASSUME StackInv, RunsInv, stack # <<>>, NEW g, Shortened(g), NEW f, f.kind \in {"get", "run"},
         \A h \in ToSet(Callers) : IsRun(h) => h.w # f.w,
         stack' = <<f>> \o (<<g>> \o Callers), UNCHANGED <<old, last, owed>>
  PROVE  RunsInv'
<1>1. PICK c : c = Callers
  OBVIOUS
<1>2. /\ Frames = {Top} \union ToSet(c) /\ Frames' = {f, g} \union ToSet(c)
      /\ \A x, y : Above(x, y) <=> (x = Top /\ y \in ToSet(c)) \/ Precedes(c, x, y)
      /\ \A x, y : Above(x, y)' <=> (\/ x = f /\ y \in {g} \union ToSet(c)
                                     \/ x = g /\ y \in ToSet(c)
                                     \/ Precedes(c, x, y))
      /\ \A x, y : Precedes(c, x, y) => x \in ToSet(c) /\ y \in ToSet(c)
  BY <1>1, SwapPushFrames, ZenonT(60)
<1>3. \A y \in ToSet(c) : Apart(g, y)
  <2>1. ASSUME NEW y \in ToSet(c) PROVE Apart(g, y)
    <3>1. Apart(Top, y)
      BY <1>2, <2>1 DEF RunsInv, AloneInv
    <3> QED
      BY <3>1 DEF Apart, Shortened, IsRun
  <2> QED
    BY <2>1
<1>4. \A y \in {g} \union ToSet(c) : Apart(f, y)
  <2>1. ~IsRun(g) /\ f.kind # "notify"
    BY DEF Shortened, IsRun
  <2> QED
    BY <1>1, <2>1 DEF Apart
<1>5. AloneInv'
  BY <1>2, <1>3, <1>4 DEF RunsInv, AloneInv
<1>6. CleanInv' /\ ChainInv'
  BY <1>2 DEF RunsInv, CleanInv, ChainInv, Shortened
<1> QED
  BY <1>5, <1>6 DEF RunsInv

-----------------------------------------------------------------------------
(***************************************************************************)
(* What each action does to the runs.                                      *)
(***************************************************************************)
LEMMA FramesAreTame ==
  /\ \A w, n : Tame(Cleaning(w, "stop", n))
  /\ \A s, ws, up : Tame(StopFrame(s, ws, up))
  /\ \A w : Tame(Call("dispose", w))
  /\ \A k : k \in {"render", "mounted", "hook", "destroy"} => Tame(Frame(k))
  /\ \A k, ws : k \in {"setup", "pre", "once"} => Tame(ListFrame(k, ws))
BY DEF Tame, IsRun, Cleaning, StopFrame, Call, Frame, ListFrame

LEMMA StopIsTame ==
  ASSUME BaseInv, On("stop"), NEW f, f = Top
  PROVE  /\ stack # <<>> /\ f.kind = "stop"
         /\ \A t : Tame([f EXCEPT !.todo = t])
         /\ \A p : Tame([f EXCEPT !.phase = p])
         /\ \A n : Tame([f EXCEPT !.i = n]) /\ Tame([f EXCEPT !.phase = "scopes", !.length = n])
<1>1. stack # <<>> /\ f \in StopFrames /\ f.kind = "stop"
  BY StopTop
<1>2. \A t : [f EXCEPT !.todo = t].kind = "stop"
  BY <1>1 DEF StopFrames
<1>3. \A p : [f EXCEPT !.phase = p].kind = "stop"
  BY <1>1 DEF StopFrames
<1>4. \A n : [f EXCEPT !.i = n].kind = "stop" /\ [f EXCEPT !.phase = "scopes", !.length = n].kind = "stop"
  BY <1>1 DEF StopFrames
<1> QED
  BY <1>1, <1>2, <1>3, <1>4 DEF Tame, IsRun

LEMMA TornDownTame ==
  ASSUME NEW w, NEW t, Teardown(w, t)
  PROVE  /\ (stack' = t \/ stack' = <<Cleaning(w, "stop", Initial)>> \o t)
         /\ owed' \subseteq owed /\ UNCHANGED <<old, last>>
BY DEF Teardown, TornDown, BeginCleanup

LEMMA StoppingTame ==
  ASSUME BaseInv, StopEffect \/ BeginDispose \/ BeginScopes \/ StopScopes \/ EndStop
  PROVE  TameStep /\ owed' \subseteq owed /\ UNCHANGED <<old, last>>
<1>1. PICK f, c : f = Top /\ c = Callers
  OBVIOUS
<1>2. On("stop")
  BY DEF StopEffect, BeginDispose, BeginScopes, StopScopes, EndStop
<1>3. /\ stack # <<>> /\ f.kind = "stop" /\ IsASeq(c)
      /\ \A t : Tame([f EXCEPT !.todo = t])
      /\ \A p : Tame([f EXCEPT !.phase = p])
      /\ \A n : Tame([f EXCEPT !.i = n]) /\ Tame([f EXCEPT !.phase = "scopes", !.length = n])
  BY <1>1, <1>2, StopIsTame, Peeled DEF BaseInv
<1>4. CASE StopEffect
  <2>1. PICK w, g : w = Head(Top.todo) /\ g = [f EXCEPT !.todo = Tail(@)]
    OBVIOUS
  <2>2. \/ Teardown(w, <<g>> \o Callers)
        \/ stack' = <<g>> \o Callers /\ UNCHANGED history /\ UNCHANGED old
    BY <1>1, <1>4, <2>1 DEF StopEffect
  <2>3. Tame(g) /\ Tame(Cleaning(w, "stop", Initial)) /\ f.kind # "callback"
    BY <1>3, <2>1, FramesAreTame
  <2>4. owed' \subseteq owed /\ UNCHANGED <<old, last>>
    BY <2>2, TornDownTame DEF history
  <2>5. stack' = <<g>> \o Callers \/ stack' = <<Cleaning(w, "stop", Initial)>> \o (<<g>> \o Callers)
    BY <2>2, TornDownTame
  <2> QED
    BY <1>1, <1>3, <2>3, <2>4, <2>5 DEF TameStep
<1>5. CASE BeginDispose
  <2>1. PICK d, g : d = Call("dispose", f.scope) /\ g = [f EXCEPT !.phase = "dispose"]
    OBVIOUS
  <2>2. stack' = <<d, g>> \o c
    BY <1>1, <1>5, <2>1 DEF BeginDispose
  <2>3. stack' = <<d>> \o (<<g>> \o Callers)
    BY <1>1, <1>3, <2>2, StackedTwice
  <2>4. Tame(d) /\ Tame(g)
    BY <1>3, <2>1, FramesAreTame
  <2>5. UNCHANGED <<old, last, owed>>
    BY <1>5 DEF BeginDispose, state, history
  <2> QED
    BY <1>1, <1>3, <2>3, <2>4, <2>5 DEF TameStep
<1>6. CASE BeginScopes
  <2>1. PICK n : n = Len(scope[Top.scope].scopes)
    OBVIOUS
  <2>2. stack' = <<[f EXCEPT !.phase = "scopes", !.length = n]>> \o Callers
    BY <1>1, <1>6, <2>1 DEF BeginScopes
  <2>3. UNCHANGED <<old, last, owed>>
    BY <1>6 DEF BeginScopes, state, history
  <2> QED
    BY <1>1, <1>3, <2>2, <2>3 DEF TameStep
<1>7. CASE StopScopes
  <2>1. PICK child, g : child = scope[Top.scope].scopes[Top.i] /\ g = [f EXCEPT !.i = @ + 1]
    OBVIOUS
  <2>2. PICK d : d = StopFrame(child, EffectsOf(child), TRUE)
    OBVIOUS
  <2>3. stack' = <<g>> \o Callers \/ stack' = <<d>> \o (<<g>> \o Callers)
    BY <1>1, <1>7, <2>1, <2>2 DEF StopScopes
  <2>4. Tame(g) /\ Tame(d)
    BY <1>3, <2>1, <2>2, FramesAreTame
  <2>5. UNCHANGED <<old, last, owed>>
    BY <1>7 DEF StopScopes, state, history
  <2> QED
    BY <1>1, <1>3, <2>3, <2>4, <2>5 DEF TameStep
<1>8. CASE EndStop
  BY <1>1, <1>3, <1>8 DEF EndStop, TameStep, history
<1> QED
  BY <1>4, <1>5, <1>6, <1>7, <1>8

LEMMA ComponentTame ==
  ASSUME BaseInv,
         RunStopped \/ EndEffect \/ EndNotify \/ MakeScope \/ EndSetup \/ EndRender \/ CallMounted
           \/ EmitMounted \/ EndMounted \/ BeginHook \/ EndHook \/ EndDispose \/ EndDestroy
  PROVE  TameStep /\ UNCHANGED <<old, last, owed>>
<1>1. UNCHANGED <<old, last, owed>>
  BY DEF RunStopped, EndEffect, EndNotify, MakeScope, EndSetup, EndRender, CallMounted, EmitMounted,
         EndMounted, BeginHook, EndHook, EndDispose, EndDestroy, state, history
<1>2. CASE RunStopped \/ EndEffect \/ EndNotify \/ EndMounted \/ EndHook \/ EndDispose \/ EndDestroy
  <2>1. stack # <<>> /\ Top.kind # "callback" /\ stack' = Callers
    BY <1>2 DEF RunStopped, EndEffect, EndNotify, EndMounted, EndHook, EndDispose, EndDestroy, On
  <2> QED
    BY <1>1, <2>1 DEF TameStep
<1>3. CASE MakeScope \/ EndSetup \/ EndRender \/ CallMounted \/ EmitMounted
  <2>1. PICK b, o, t : b = buffer /\ o = once /\ t = Tail(Top.todo)
    OBVIOUS
  <2>2. /\ Tame(ListFrame("setup", t)) /\ Tame(Frame("render")) /\ Tame(ListFrame("pre", b))
        /\ Tame(Frame("mounted")) /\ Tame(ListFrame("once", o))
    BY FramesAreTame
  <2>3. \/ stack' = <<ListFrame("setup", t)>> \o Callers \/ stack' = <<Frame("render")>> \o Callers
        \/ stack' = <<ListFrame("pre", b)>> \o Callers \/ stack' = <<Frame("mounted")>> \o Callers
        \/ stack' = <<ListFrame("once", o)>> \o Callers
    BY <1>3, <2>1 DEF MakeScope, EndSetup, EndRender, CallMounted, EmitMounted
  <2>4. stack # <<>> /\ Top.kind # "callback"
    BY <1>3 DEF MakeScope, EndSetup, EndRender, CallMounted, EmitMounted, On
  <2> QED
    BY <1>1, <2>2, <2>3, <2>4 DEF TameStep
<1>4. CASE BeginHook
  BY <1>1, <1>4, FramesAreTame DEF BeginHook, TameStep
<1> QED
  BY <1>2, <1>3, <1>4

LEMMA UserTame ==
  ASSUME Destroy \/ (\E w \in Watchers : Stop(w)) \/ (\E s \in Scopes : StopScope(s))
  PROVE  TameStep /\ owed' \subseteq owed /\ UNCHANGED <<old, last>>
<1>1. CASE Destroy
  <2>1. PICK d, e : d = StopFrame(Own, EffectsOf(Own), FALSE) /\ e = Frame("destroy")
    OBVIOUS
  <2>2. stack' = <<d, e>> \o stack /\ UNCHANGED <<old, last, owed>>
    BY <1>1, <2>1 DEF Destroy, state, history
  <2>3. Tame(d) /\ Tame(e)
    BY <2>1, FramesAreTame
  <2> QED
    BY <2>2, <2>3 DEF TameStep
<1>2. ASSUME NEW w \in Watchers, Stop(w) PROVE TameStep /\ owed' \subseteq owed /\ UNCHANGED <<old, last>>
  <2>1. Teardown(w, stack)
    BY <1>2 DEF Stop
  <2>2. PICK d : d = Cleaning(w, "stop", Initial)
    OBVIOUS
  <2>3. Tame(d) /\ (UNCHANGED stack \/ stack' = <<d>> \o stack) /\ owed' \subseteq owed /\ UNCHANGED <<old, last>>
    BY <2>1, <2>2, TornDownTame, FramesAreTame
  <2> QED
    BY <2>3 DEF TameStep
<1>3. ASSUME NEW s \in Scopes, StopScope(s)
      PROVE  TameStep /\ owed' \subseteq owed /\ UNCHANGED <<old, last>>
  <2>1. PICK d : d = StopFrame(s, EffectsOf(s), FALSE)
    OBVIOUS
  <2>2. stack' = <<d>> \o stack /\ UNCHANGED <<old, last, owed>>
    BY <1>3, <2>1 DEF StopScope, state, history
  <2>3. Tame(d)
    BY <2>1, FramesAreTame
  <2> QED
    BY <2>2, <2>3 DEF TameStep
<1> QED
  BY <1>1, <1>2, <1>3

\* Runs of the watcher on top
LEMMA RunningRuns ==
  ASSUME BaseInv, RunsInv, GetEffect \/ GetSource \/ RunEffect \/ RunWithCallback \/ EndCleanup \/ EndCallback
  PROVE  RunsInv'
<1>1. StackInv /\ TypeInv /\ Made \subseteq Watchers
  BY MadeFacts DEF BaseInv
<1>2. stack # <<>> /\ IsFrame(Top) /\ Top \in Frames
  BY <1>1, TopFacts DEF GetEffect, GetSource, RunEffect, RunWithCallback, EndCleanup, EndCallback, On
<1>3. PICK w, n, o : w = Top.w /\ n = val[SourceOf(w)] /\ o = old[w]
  OBVIOUS
<1>4. \A g \in Frames : IsRun(g) => g.w \in Watchers
  BY <1>1 DEF StackInv, IsFrame
<1>5. old \in [Watchers -> Values \union {Initial}] /\ last \in [Watchers -> Values \union {Initial}]
  BY <1>1 DEF TypeInv
<1>6. CASE UNCHANGED <<old, last, owed>> /\ stack' = Callers /\ Top.kind # "callback"
  <2>1. TameStep
    BY <1>2, <1>6 DEF TameStep
  <2> QED
    BY <1>1, <1>6, <2>1, TameRuns
<1>7. ASSUME IsRun(Top), Top.kind # "callback", w \in Effects, BeginEffect(w, Callers), UNCHANGED <<last, owed>>
      PROVE  RunsInv'
  <2>1. PICK f : f = Call("effect", w)
    OBVIOUS
  <2>2. stack' = <<f>> \o Callers /\ IsRun(f) /\ f.w = w /\ f.kind = "effect"
    BY <1>7, <2>1 DEF BeginEffect, Call, IsRun
  <2>3. \A x \in Watchers \ Effects : old'[x] = old[x]
    BY <1>5, <1>7 DEF BeginEffect
  <2> QED
    BY <1>1, <1>2, <1>3, <1>4, <1>7, <2>2, <2>3, RunGoesOn
<1>8. ASSUME IsRun(Top), Top.kind # "callback", NEW then \in {"effect", "callback"}, NEW m,
             BeginCleanup(w, then, m, Callers), UNCHANGED <<old, last>>
      PROVE  RunsInv'
  <2>1. PICK f : f = Cleaning(w, then, m)
    OBVIOUS
  <2>2. stack' = <<f>> \o Callers /\ IsRun(f) /\ f.w = w /\ f.kind = "cleanup"
    BY <1>8, <2>1 DEF BeginCleanup, Cleaning, IsRun
  <2>3. owed' \subseteq owed /\ w \notin owed'
    BY <1>8 DEF BeginCleanup
  <2> QED
    BY <1>1, <1>2, <1>3, <1>4, <1>8, <2>2, <2>3, RunGoesOn
<1>9. ASSUME IsRun(Top), Top.kind # "callback", w \in Watchers, NEW m,
             BeginCallback(w, m, Callers), UNCHANGED <<old, owed>>
      PROVE  RunsInv'
  <2>1. PICK f : f = Callback(w, m, o)
    OBVIOUS
  <2>2. stack' = <<f>> \o Callers /\ IsRun(f) /\ f.w = w /\ f.kind = "callback" /\ f.new = m
    BY <1>3, <1>9, <2>1 DEF BeginCallback, Callback, IsRun
  <2>3. last'[w] = m /\ \A x \in Watchers : x # w => last'[x] = last[x]
    BY <1>5, <1>9 DEF BeginCallback
  <2> QED
    BY <1>1, <1>2, <1>3, <1>4, <1>9, <2>2, <2>3, RunGoesOn
<1>10. CASE GetEffect
  <2>1. Top.kind = "get" /\ w \in Effects /\ IsRun(Top)
    BY <1>3, <1>10 DEF GetEffect, On, IsRun
  <2>2. \/ stack' = Callers /\ UNCHANGED <<old, owed>>
        \/ BeginCleanup(w, "effect", Initial, Callers) /\ UNCHANGED old
        \/ BeginEffect(w, Callers) /\ UNCHANGED owed
    BY <1>3, <1>10 DEF GetEffect
  <2>3. UNCHANGED last
    BY <1>10 DEF GetEffect
  <2> QED
    BY <1>6, <1>7, <1>8, <2>1, <2>2, <2>3
<1>11. CASE GetSource
  <2>1. IsRun(Top) /\ stack' = Callers /\ UNCHANGED owed
    BY <1>11 DEF GetSource, On, IsRun
  <2>2. old' = [old EXCEPT ![w] = n] /\ last' = [last EXCEPT ![w] = n] /\ w \in Watchers
    BY <1>2, <1>3, <1>4, <1>11, <2>1 DEF GetSource
  <2>3. old'[w] = last'[w] /\ \A x \in Watchers : x # w => last'[x] = last[x] /\ old'[x] = old[x]
    BY <1>5, <2>2
  <2> QED
    BY <1>1, <1>2, <1>3, <1>4, <2>1, <2>3, RunEnds
<1>12. CASE RunEffect
  <2>1. PICK f : f = Call("get", w)
    OBVIOUS
  <2>2. IsRun(Top) /\ Top.kind # "callback" /\ stack' = <<f>> \o Callers /\ UNCHANGED <<old, last, owed>>
    BY <1>3, <1>12, <2>1 DEF RunEffect, On, IsRun, state, history
  <2>3. IsRun(f) /\ f.w = w /\ f.kind = "get"
    BY <2>1 DEF Call, IsRun
  <2> QED
    BY <1>1, <1>2, <1>3, <1>4, <2>2, <2>3, RunGoesOn
<1>13. CASE RunWithCallback
  <2>1. Top.kind = "run" /\ IsRun(Top) /\ w \in Watchers
    BY <1>2, <1>3, <1>4, <1>13 DEF RunWithCallback, On, IsRun
  <2>2. /\ UNCHANGED old
        /\ \/ stack' = Callers /\ UNCHANGED <<owed, last>>
           \/ BeginCleanup(w, "callback", n, Callers) /\ UNCHANGED last
           \/ BeginCallback(w, n, Callers) /\ UNCHANGED owed
    BY <1>3, <1>13 DEF RunWithCallback
  <2> QED
    BY <1>6, <1>8, <1>9, <2>1, <2>2
<1>14. CASE EndCleanup
  <2>1. Top.kind = "cleanup" /\ UNCHANGED owed
    BY <1>14 DEF EndCleanup, On
  <2>2. PICK m : m = Top.new
    OBVIOUS
  <2>3. \/ Top.then = "effect" /\ BeginEffect(w, Callers) /\ UNCHANGED last
        \/ Top.then = "callback" /\ BeginCallback(w, m, Callers) /\ UNCHANGED old
        \/ stack' = Callers /\ UNCHANGED <<old, last>>
    BY <1>3, <1>14, <2>2 DEF EndCleanup
  <2>4. CASE Top.then = "effect" /\ BeginEffect(w, Callers) /\ UNCHANGED last
    <3>1. IsRun(Top) /\ w \in Effects
      BY <1>2, <1>3, <2>1, <2>4 DEF IsFrame, IsRun
    <3> QED
      BY <1>7, <2>1, <2>4, <3>1
  <2>5. CASE Top.then = "callback" /\ BeginCallback(w, m, Callers) /\ UNCHANGED old
    <3>1. IsRun(Top)
      BY <2>1, <2>5 DEF IsRun
    <3>2. w \in Watchers
      BY <1>2, <1>3, <1>4, <3>1
    <3> QED
      BY <1>9, <2>1, <2>5, <3>1, <3>2
  <2> QED
    BY <1>6, <2>1, <2>3, <2>4, <2>5
<1>15. CASE EndCallback
  <2>1. IsRun(Top) /\ Top.kind = "callback" /\ stack' = Callers /\ UNCHANGED <<last, owed>>
    BY <1>15 DEF EndCallback, On, IsRun, history
  <2>2. PICK m : m = Top.new
    OBVIOUS
  <2>3. old' = [old EXCEPT ![w] = m] /\ w \in Watchers /\ m = last[w]
    BY <1>2, <1>3, <1>4, <1>15, <2>1, <2>2 DEF EndCallback, RunsInv, ChainInv
  <2>4. old'[w] = last'[w] /\ \A x \in Watchers : x # w => last'[x] = last[x] /\ old'[x] = old[x]
    BY <1>5, <2>1, <2>3
  <2> QED
    BY <1>1, <1>2, <1>3, <1>4, <2>1, <2>4, RunEnds
<1> QED
  BY <1>10, <1>11, <1>12, <1>13, <1>14, <1>15

\* The head of a list runs, or is put into the queue.
LEMMA ListRuns ==
  ASSUME BaseInv, RunsInv, NotifyNext \/ RunBuffered \/ RunOnce
  PROVE  RunsInv'
<1>1. StackInv
  BY DEF BaseInv
<1>2. stack # <<>> /\ IsFrame(Top) /\ Top.kind \in {"notify", "pre", "once"} /\ Top.todo # <<>>
  BY <1>1, TopFacts DEF NotifyNext, RunBuffered, RunOnce, On
<1>3. PICK k, s, c : k = Top.kind /\ s = Top.todo /\ c = Callers
  OBVIOUS
<1>4. s \in Seq(Watchers) /\ s # <<>> /\ IsASeq(c)
  BY <1>1, <1>2, <1>3, Peeled DEF IsFrame
<1>5. PICK w, t : w = Head(s) /\ t = Tail(s)
  OBVIOUS
<1>6. w \in ToSet(s) /\ ToSet(t) \subseteq ToSet(s)
  BY <1>4, <1>5, HeadFacts
<1>7. PICK g : g = ListFrame(k, t)
  OBVIOUS
<1>8. Shortened(g)
  BY <1>2, <1>3, <1>6, <1>7 DEF Shortened, ListFrame
<1>9. UNCHANGED <<old, last, owed>>
  BY DEF NotifyNext, RunBuffered, RunOnce, state, history
<1>10. CASE NotifyNext
  <2>1. k = "notify"
    BY <1>3, <1>10 DEF NotifyNext, On
  <2>2. \/ w \in Sync /\ stack' = <<Call("run", w)>> \o (<<g>> \o c)
        \/ stack' = <<g>> \o c
    BY <1>3, <1>5, <1>7, <1>10, <2>1 DEF NotifyNext
  <2>3. CASE w \in Sync /\ stack' = <<Call("run", w)>> \o (<<g>> \o c)
    <3>1. PICK f : f = Call("run", w)
      OBVIOUS
    <3>2. f.kind = "run" /\ f.w = w /\ stack' = <<f>> \o (<<g>> \o c)
      BY <2>3, <3>1 DEF Call
    <3>3. ASSUME NEW h \in ToSet(c), IsRun(h) PROVE h.w # w
      <4>1. Apart(Top, h)
        BY <1>1, <1>2, <1>3, <3>3, Peeled DEF RunsInv, AloneInv
      <4> QED
        BY <1>3, <1>6, <2>1, <2>3, <3>3, <4>1 DEF Apart
    <3> QED
      BY <1>1, <1>2, <1>3, <1>8, <1>9, <3>2, <3>3, HeadRuns
  <2>4. CASE stack' = <<g>> \o c
    BY <1>1, <1>2, <1>3, <1>8, <1>9, <2>4, ListShortens
  <2> QED
    BY <2>2, <2>3, <2>4
<1>11. CASE RunBuffered \/ RunOnce
  <2>1. k \in {"pre", "once"} /\ c = <<>> /\ ToSet(c) = {}
    <3>1. k \in {"pre", "once"}
      BY <1>3, <1>11 DEF RunBuffered, RunOnce, On
    <3>2. c = <<>>
      BY <1>1, <1>2, <1>3, <3>1, AloneAtBottom DEF Bottoms
    <3> QED
      BY <1>1, <1>2, <1>3, <3>1, <3>2, Peeled
  <2>2. PICK f : f = Call(IF k = "pre" THEN "run" ELSE "get", w)
    OBVIOUS
  <2>3. f.kind \in {"get", "run"} /\ stack' = <<f, g>> \o c
    <3>1. f.kind \in {"get", "run"}
      BY <2>2 DEF Call
    <3>2. CASE RunBuffered
      <4>1. k = "pre"
        BY <1>3, <3>2 DEF RunBuffered, On
      <4> QED
        BY <1>3, <1>5, <1>7, <2>2, <3>1, <3>2, <4>1 DEF RunBuffered
    <3>3. CASE RunOnce
      <4>1. k = "once"
        BY <1>3, <3>3 DEF RunOnce, On
      <4> QED
        BY <1>3, <1>5, <1>7, <2>2, <3>1, <3>3, <4>1 DEF RunOnce
    <3> QED
      BY <1>11, <3>2, <3>3
  <2>4. stack' = <<f>> \o (<<g>> \o c)
    BY <1>4, <2>3, StackedTwice
  <2> QED
    BY <1>1, <1>2, <1>3, <1>8, <1>9, <2>1, <2>3, <2>4, HeadRuns
<1> QED
  BY <1>10, <1>11

\* A watcher begins to run, or user code does something that counts for runs.
LEMMA BeginningRuns ==
  ASSUME BaseInv, RunsInv, Reenters = FALSE,
         OnCleanup \/ (\E w \in Watchers : RunQueued(w) \/ Create(w))
           \/ (\E r \in Refs, v \in Values : Write(r, v))
  PROVE  RunsInv'
<1>1. StackInv /\ TypeInv /\ SubsInv
  BY DEF BaseInv
<1>2. CASE OnCleanup
  <2>1. PICK w : w = Top.w
    OBVIOUS
  <2>2. /\ stack # <<>> /\ Top.kind \in {"callback", "effect"} /\ IsRun(Top)
        /\ UNCHANGED <<stack, old, last>> /\ owed' = owed \union {w}
    BY <1>2, <2>1 DEF OnCleanup, On, IsRun
  <2>3. Frames' = Frames /\ \A x, y : Above(x, y)' <=> Above(x, y)
    BY <2>2 DEF Frames, Above
  <2>4. AloneInv' /\ ChainInv'
    BY <2>2, <2>3 DEF RunsInv, AloneInv, ChainInv
  <2>5. ASSUME NEW f \in Frames, f.kind = "cleanup", f.then # "stop" PROVE f.w \notin owed'
    <3>1. f \in ToSet(Callers) /\ IsRun(f)
      BY <1>1, <2>2, <2>5, Peeled DEF IsRun
    <3>2. f.w # w
      BY <1>1, <2>1, <2>2, <3>1, AloneTop DEF RunsInv
    <3> QED
      BY <2>2, <2>5, <3>2 DEF RunsInv, CleanInv
  <2> QED
    BY <2>3, <2>4, <2>5 DEF RunsInv, CleanInv
<1>3. ASSUME NEW w \in Watchers, RunQueued(w) PROVE RunsInv'
  <2>1. PICK f : f = Call("run", w)
    OBVIOUS
  <2>2. f.kind = "run" /\ stack' = <<f>> \o stack /\ UNCHANGED <<old, last, owed>>
    BY <1>3, <2>1 DEF RunQueued, Call, history
  <2>3. stack = <<>> /\ Frames = {}
    BY <1>3, SetFacts, EmptyIsASeq DEF RunQueued, Frames, ToSet
  <2> QED
    BY <1>1, <2>2, <2>3, RunBegins
<1>4. ASSUME NEW w \in Watchers, Create(w) PROVE RunsInv'
  <2>1. UNCHANGED <<old, last, owed>> /\ ~Contains(created, w)
    BY <1>4 DEF Create, history
  <2>2. CASE UNCHANGED stack
    <3>1. TameStep
      BY <2>2 DEF TameStep
    <3> QED
      BY <1>1, <2>1, <3>1, TameRuns
  <2>3. CASE \E k \in {"get", "run"} : stack' = <<Call(k, w)>> \o stack
    <3>1. PICK k \in {"get", "run"} : stack' = <<Call(k, w)>> \o stack
      BY <2>3
    <3>2. PICK f : f = Call(k, w)
      OBVIOUS
    <3>3. f.kind = k /\ f.w = w
      BY <3>2 DEF Call
    <3>4. w \notin Made
      BY <1>1, <2>1 DEF TypeInv, Made, Contains, ToSet
    <3>5. \A g \in Frames : IsRun(g) => g.w # w
      BY <1>1, <3>4 DEF StackInv, IsFrame
    <3> QED
      BY <1>1, <2>1, <3>1, <3>2, <3>3, <3>5, RunBegins
  <2> QED
    BY <1>4, <2>2, <2>3 DEF Create
<1>5. ASSUME NEW r \in Refs, NEW v \in Values, Write(r, v) PROVE RunsInv'
  <2>1. PICK c, f : c = stack /\ f = ListFrame("notify", subs[r])
    OBVIOUS
  <2>2. stack' = <<f>> \o c /\ UNCHANGED <<old, last, owed>> /\ f.kind = "notify" /\ f.todo = subs[r]
    BY <1>5, <2>1 DEF Write, ListFrame, history
  <2>3. /\ Frames = ToSet(c) /\ Frames' = {f} \union ToSet(c)
        /\ \A x, y : Above(x, y) <=> Precedes(c, x, y)
        /\ \A x, y : Above(x, y)' <=> (x = f /\ y \in ToSet(c)) \/ Precedes(c, x, y)
        /\ \A x, y : Precedes(c, x, y) => x \in ToSet(c) /\ y \in ToSet(c)
    BY <1>1, <2>1, <2>2, PushFrames
  <2>4. ASSUME NEW g \in Frames, IsRun(g), g.w \in Sync PROVE g.w \notin ToSet(subs[r])
    <3>1. IsUnderWay(g.w)
      <4>1. PICK i \in DOMAIN stack : stack[i] = g
        BY <2>4 DEF Frames, ToSet
      <4> QED
        BY <2>4, <4>1 DEF IsUnderWay, IsRun
    <3>2. SourceOf(g.w) # r
      BY <1>5, <2>4, <3>1 DEF Write
    <3> QED
      BY <1>1, <3>2 DEF SubsInv
  <2>5. \A g \in Frames : Apart(f, g)
    BY <2>2, <2>4 DEF Apart, IsRun
  <2>6. AloneInv'
    BY <2>3, <2>5 DEF RunsInv, AloneInv
  <2>7. CleanInv' /\ ChainInv'
    BY <2>2, <2>3 DEF RunsInv, CleanInv, ChainInv
  <2> QED
    BY <2>6, <2>7 DEF RunsInv
<1> QED
  BY <1>2, <1>3, <1>4, <1>5

LEMMA RunsNext ==
  ASSUME BaseInv, RunsInv, Reenters = FALSE, Next
  PROVE  RunsInv'
<1>1. StackInv
  BY DEF BaseInv
<1>2. CASE GetEffect \/ GetSource \/ RunEffect \/ RunWithCallback \/ EndCleanup \/ EndCallback
  BY <1>2, RunningRuns
<1>3. CASE RunStopped \/ EndEffect \/ EndNotify \/ MakeScope \/ EndSetup \/ EndRender \/ CallMounted
             \/ EmitMounted \/ EndMounted \/ BeginHook \/ EndHook \/ EndDispose \/ EndDestroy
  BY <1>1, <1>3, ComponentTame, TameRuns
<1>4. CASE StopEffect \/ BeginDispose \/ BeginScopes \/ StopScopes \/ EndStop
  BY <1>1, <1>4, StoppingTame, TameRuns
<1>5. CASE NotifyNext \/ RunBuffered \/ RunOnce
  BY <1>5, ListRuns
<1>6. CASE Destroy \/ (\E w \in Watchers : Stop(w)) \/ (\E s \in Scopes : StopScope(s))
  BY <1>1, <1>6, UserTame, TameRuns
<1>7. CASE OnCleanup \/ (\E w \in Watchers : RunQueued(w) \/ Create(w))
             \/ (\E r \in Refs, v \in Values : Write(r, v))
  BY <1>7, BeginningRuns
<1> QED
  BY <1>2, <1>3, <1>4, <1>5, <1>6, <1>7 DEF Next

LEMMA RunsInit ==
  ASSUME Init
  PROVE  RunsInv
<1>1. PICK f : f = ListFrame("setup", ScopeOrder)
  OBVIOUS
<1>2. stack = <<f>> /\ f.kind = "setup"
  BY <1>1 DEF Init, ListFrame
<1>3. Frames = {f}
  BY <1>2 DEF Frames, ToSet
<1>4. AloneInv
  BY <1>2, <1>3 DEF AloneInv, Apart, IsRun
<1>5. CleanInv /\ ChainInv
  BY <1>2, <1>3 DEF Init, CleanInv, ChainInv
<1> QED
  BY <1>4, <1>5 DEF RunsInv

LEMMA RunsInductive ==
  ASSUME Reenters = FALSE
  PROVE  Spec => [](BaseInv /\ ScopesInv /\ RunsInv)
<1>1. Init => RunsInv
  BY RunsInit
<1>2. BaseInv /\ RunsInv /\ [Next]_vars => RunsInv'
  <2>1. ASSUME BaseInv, RunsInv, UNCHANGED vars PROVE RunsInv'
    <3>1. TameStep /\ UNCHANGED <<old, last, owed>> /\ StackInv
      BY <2>1 DEF vars, state, history, TameStep, BaseInv
    <3> QED
      BY <2>1, <3>1, TameRuns
  <2> QED
    BY <2>1, RunsNext
<1> QED
  BY <1>1, <1>2, ScopesInductive, PTL DEF Spec

-----------------------------------------------------------------------------
(***************************************************************************)
(* Where a callback or an effect begins.                                   *)
(***************************************************************************)
Calm(f) == f.kind \notin {"callback", "effect"}

CalmStep ==
  \/ UNCHANGED stack
  \/ stack # <<>> /\ stack' = Callers
  \/ \E f : Calm(f) /\ stack # <<>> /\ stack' = <<f>> \o Callers
  \/ \E f : Calm(f) /\ stack' = <<f>> \o stack
  \/ \E f, g : Calm(f) /\ stack # <<>> /\ stack' = <<f>> \o (<<g>> \o Callers)
  \/ \E f, g : Calm(f) /\ stack' = <<f, g>> \o stack

LEMMA TameIsCalm ==
  ASSUME TameStep
  PROVE  CalmStep
<1>1. \A f : Tame(f) => Calm(f)
  BY DEF Tame, IsRun, Calm
<1> QED
  BY <1>1 DEF TameStep, CalmStep

LEMMA CalmBegins ==
  ASSUME StackInv, CalmStep, NEW w
  PROVE  ~Begins(w)
<1>1. CASE UNCHANGED stack
  BY <1>1 DEF Begins
<1>2. CASE stack # <<>> /\ stack' = Callers
  <2>1. PICK s : s = stack
    OBVIOUS
  <2>2. IsASeq(s) /\ s # <<>> /\ stack' = Tail(s)
    BY <1>2, <2>1 DEF StackInv, InOrder, Callers
  <2>3. Len(s) \in Nat /\ Len(Tail(s)) = Len(s) - 1
    BY <2>2, TailFacts
  <2>4. ~(Len(stack') >= Len(stack))
    BY <2>1, <2>2, <2>3
  <2> QED
    BY <2>4 DEF Begins
<1>3. ASSUME NEW f, Calm(f), Head(stack') = f PROVE ~Begins(w)
  BY <1>3 DEF Calm, Begins
<1>4. ASSUME NEW f, Calm(f), stack # <<>>, stack' = <<f>> \o Callers PROVE ~Begins(w)
  <2>1. IsASeq(Callers)
    BY <1>4, Peeled
  <2>2. Head(stack') = f
    BY <1>4, <2>1, Stacked
  <2> QED
    BY <1>3, <1>4, <2>2
<1>5. ASSUME NEW f, Calm(f), stack' = <<f>> \o stack PROVE ~Begins(w)
  <2>1. Head(stack') = f
    BY <1>5, Stacked DEF StackInv, InOrder
  <2> QED
    BY <1>3, <1>5, <2>1
<1>6. ASSUME NEW f, NEW g, Calm(f), stack # <<>>, stack' = <<f>> \o (<<g>> \o Callers) PROVE ~Begins(w)
  <2>1. PICK t : t = <<g>> \o Callers
    OBVIOUS
  <2>2. IsASeq(t)
    BY <1>6, <2>1, Peeled, Stacked
  <2>3. Head(stack') = f
    BY <1>6, <2>1, <2>2, Stacked
  <2> QED
    BY <1>3, <1>6, <2>3
<1>7. ASSUME NEW f, NEW g, Calm(f), stack' = <<f, g>> \o stack PROVE ~Begins(w)
  <2>1. Head(stack') = f
    BY <1>7, PushTwoFrames
  <2> QED
    BY <1>3, <1>7, <2>1
<1> QED
  BY <1>1, <1>2, <1>4, <1>5, <1>6, <1>7 DEF CalmStep

LEMMA OthersAreCalm ==
  ASSUME BaseInv,
         GetSource \/ RunEffect \/ EndCallback \/ NotifyNext \/ RunBuffered \/ RunOnce \/ OnCleanup
           \/ (\E w \in Watchers : RunQueued(w) \/ Create(w))
           \/ (\E r \in Refs, v \in Values : Write(r, v))
  PROVE  CalmStep /\ active \subseteq active'
<1>1. active \subseteq active'
  BY DEF GetSource, RunEffect, EndCallback, NotifyNext, RunBuffered, RunOnce, OnCleanup, RunQueued,
         Create, Write, state
<1>2. \A k, x : k \notin {"callback", "effect"} => Calm(Call(k, x)) /\ Calm(ListFrame(k, x))
  BY DEF Calm, Call, ListFrame
<1>3. CASE GetSource \/ EndCallback \/ OnCleanup
  <2>1. UNCHANGED stack \/ (stack # <<>> /\ stack' = Callers)
    BY <1>3 DEF GetSource, EndCallback, OnCleanup, On
  <2> QED
    BY <1>1, <2>1 DEF CalmStep
<1>4. CASE RunEffect
  BY <1>1, <1>2, <1>4 DEF RunEffect, On, CalmStep
<1>5. CASE NotifyNext
  <2>1. PICK w, g : w = Head(Top.todo) /\ g = ListFrame("notify", Tail(Top.todo))
    OBVIOUS
  <2>2. PICK f : f = Call("run", w)
    OBVIOUS
  <2>3. Calm(f) /\ Calm(g)
    BY <1>2, <2>1, <2>2
  <2>4. stack # <<>> /\ (stack' = <<f>> \o (<<g>> \o Callers) \/ stack' = <<g>> \o Callers)
    BY <1>5, <2>1, <2>2 DEF NotifyNext, On
  <2> QED
    BY <1>1, <2>3, <2>4 DEF CalmStep
<1>6. CASE RunBuffered \/ RunOnce
  <2>1. PICK k, l, g : k = Call("run", Head(Top.todo)) /\ l = Call("get", Head(Top.todo))
                       /\ g = ListFrame(Top.kind, Tail(Top.todo))
    OBVIOUS
  <2>2. Calm(k) /\ Calm(l)
    BY <1>2, <2>1
  <2>3. stack # <<>> /\ (stack' = <<k, g>> \o Callers \/ stack' = <<l, g>> \o Callers)
    BY <1>6, <2>1 DEF RunBuffered, RunOnce, On
  <2>4. IsASeq(Callers)
    BY <2>3, Peeled DEF BaseInv
  <2>5. stack' = <<k>> \o (<<g>> \o Callers) \/ stack' = <<l>> \o (<<g>> \o Callers)
    BY <2>3, <2>4, StackedTwice
  <2> QED
    BY <1>1, <2>2, <2>3, <2>5 DEF CalmStep
<1>7. ASSUME NEW w \in Watchers, RunQueued(w) \/ Create(w) PROVE CalmStep
  <2>1. PICK k, l : k = Call("run", w) /\ l = Call("get", w)
    OBVIOUS
  <2>2. Calm(k) /\ Calm(l)
    BY <1>2, <2>1
  <2>3. UNCHANGED stack \/ stack' = <<k>> \o stack \/ stack' = <<l>> \o stack
    BY <1>7, <2>1 DEF RunQueued, Create
  <2> QED
    BY <2>2, <2>3 DEF CalmStep
<1>8. ASSUME NEW r \in Refs, NEW v \in Values, Write(r, v) PROVE CalmStep
  BY <1>2, <1>8 DEF Write, CalmStep
<1> QED
  BY <1>1, <1>3, <1>4, <1>5, <1>6, <1>7, <1>8

LEMMA BeginsInRun ==
  ASSUME BaseInv, Next, NEW w, Begins(w)
  PROVE  GetEffect \/ RunWithCallback \/ EndCleanup
<1>1. StackInv
  BY DEF BaseInv
<1>2. ~TameStep /\ ~CalmStep
  BY <1>1, TameIsCalm, CalmBegins
<1>3. ~(RunStopped \/ EndEffect \/ EndNotify \/ MakeScope \/ EndSetup \/ EndRender \/ CallMounted
          \/ EmitMounted \/ EndMounted \/ BeginHook \/ EndHook \/ EndDispose \/ EndDestroy)
  BY <1>2, ComponentTame
<1>4. ~(StopEffect \/ BeginDispose \/ BeginScopes \/ StopScopes \/ EndStop)
  BY <1>2, StoppingTame
<1>5. ~(Destroy \/ (\E x \in Watchers : Stop(x)) \/ (\E s \in Scopes : StopScope(s)))
  BY <1>2, UserTame
<1>6. ~(GetSource \/ RunEffect \/ EndCallback \/ NotifyNext \/ RunBuffered \/ RunOnce \/ OnCleanup
          \/ (\E x \in Watchers : RunQueued(x) \/ Create(x))
          \/ (\E r \in Refs, v \in Values : Write(r, v)))
  BY <1>2, OthersAreCalm
<1> QED
  BY <1>3, <1>4, <1>5, <1>6 DEF Next

\* What begins is of the watcher on top, has been cleaned up after, and continues the chain.
LEMMA WhatBegins ==
  ASSUME BaseInv, GetEffect \/ RunWithCallback \/ EndCleanup, NEW w, Begins(w)
  PROVE  /\ stack # <<>> /\ IsRun(Top) /\ Top.kind \in {"get", "run", "cleanup"} /\ w = Top.w
         /\ Top.kind = "get" => ~(w \in owned /\ destroyed)
         /\ Top.kind = "run" => w \in active
         /\ Top.kind \in {"get", "run"} => w \notin cleanup
         /\ Head(stack').kind = "callback" => w \notin Effects /\ Head(stack').old = old[w]
<1>1. StackInv
  BY DEF BaseInv
<1>2. stack # <<>> /\ IsASeq(Callers)
  BY <1>1, Peeled DEF GetEffect, RunWithCallback, EndCleanup, On
<1>3. PICK x, n, o, m : x = Top.w /\ n = val[SourceOf(x)] /\ o = old[x] /\ m = Top.new
  OBVIOUS
<1>4. PICK f, d, e, c : f = Call("effect", x) /\ d = Callback(x, n, o) /\ e = Callback(x, m, o) /\ c = Callers
  OBVIOUS
<1>5. /\ f.kind = "effect" /\ f.w = x
      /\ d.kind = "callback" /\ d.w = x /\ d.old = o
      /\ e.kind = "callback" /\ e.w = x /\ e.old = o
  BY <1>4 DEF Call, Callback
<1>6. \A g : stack' = <<g>> \o c => Head(stack') = g
  BY <1>2, <1>4, Stacked
<1>7. \A t, k : ~(stack' = <<Cleaning(x, t, k)>> \o c)
  <2>1. \A t, k : Calm(Cleaning(x, t, k))
    BY DEF Calm, Cleaning
  <2>2. ASSUME NEW t, NEW k, stack' = <<Cleaning(x, t, k)>> \o c PROVE FALSE
    <3>1. CalmStep
      BY <1>2, <1>4, <2>1, <2>2 DEF CalmStep
    <3> QED
      BY <1>1, <3>1, CalmBegins
  <2> QED
    BY <2>2
<1>8. stack' # c
  <2>1. stack' = Callers => CalmStep
    BY <1>2 DEF CalmStep
  <2> QED
    BY <1>1, <1>4, <2>1, CalmBegins
<1>9. CASE GetEffect
  <2>1. /\ Top.kind = "get" /\ IsRun(Top)
        /\ ~(x \in owned /\ destroyed) /\ x \notin cleanup /\ stack' = <<f>> \o c
    BY <1>3, <1>4, <1>7, <1>8, <1>9 DEF GetEffect, On, IsRun, BeginEffect, BeginCleanup
  <2>2. Head(stack') = f /\ w = x
    BY <1>5, <1>6, <2>1 DEF Begins
  <2> QED
    BY <1>2, <1>3, <1>5, <2>1, <2>2
<1>10. CASE RunWithCallback
  <2>1. /\ Top.kind = "run" /\ IsRun(Top) /\ x \in active /\ x \notin Effects
        /\ x \notin cleanup /\ stack' = <<d>> \o c
    BY <1>3, <1>4, <1>7, <1>8, <1>10
       DEF RunWithCallback, On, IsRun, Runs, BeginCallback, BeginCleanup
  <2>2. Head(stack') = d /\ w = x
    BY <1>5, <1>6, <2>1 DEF Begins
  <2> QED
    BY <1>2, <1>3, <1>5, <2>1, <2>2
<1>11. CASE EndCleanup
  <2>1. /\ Top.kind = "cleanup"
        /\ \/ Top.then = "effect" /\ stack' = <<f>> \o c
           \/ Top.then = "callback" /\ stack' = <<e>> \o c
    BY <1>3, <1>4, <1>8, <1>11 DEF EndCleanup, On, BeginEffect, BeginCallback
  <2>2. IsRun(Top) /\ (Top.then = "callback" => x \notin Effects)
    BY <1>1, <1>2, <1>3, <2>1, TopFacts DEF IsRun, IsFrame
  <2>3. Head(stack').w = x /\ w = x /\ Head(stack') \in {f, e}
    BY <1>5, <1>6, <2>1 DEF Begins
  <2>4. Head(stack').kind = "callback" => x \notin Effects /\ Head(stack').old = o
    BY <1>5, <1>6, <2>1, <2>2
  <2> QED
    BY <1>2, <1>3, <2>1, <2>2, <2>3, <2>4
<1> QED
  BY <1>9, <1>10, <1>11

-----------------------------------------------------------------------------
(***************************************************************************)
(* Theorems about runs.                                                    *)
(***************************************************************************)
\* A watcher that is torn down is cleaned up after.
LEMMA LostIsTornDown ==
  ASSUME Next, NEW w, w \in active \ active'
  PROVE  \/ StopEffect /\ w = Head(Top.todo) /\ \E t : Teardown(w, t)
         \/ w \in Watchers /\ Stop(w) /\ \E t : Teardown(w, t)
<1>1. ~(GetEffect \/ RunWithCallback \/ EndCleanup \/ RunStopped \/ EndEffect \/ EndNotify \/ MakeScope
          \/ EndSetup \/ EndRender \/ CallMounted \/ EmitMounted \/ EndMounted \/ BeginHook \/ EndHook
          \/ EndDispose \/ EndDestroy \/ GetSource \/ RunEffect \/ EndCallback \/ NotifyNext \/ RunBuffered
          \/ RunOnce \/ OnCleanup \/ BeginDispose \/ BeginScopes \/ StopScopes \/ EndStop \/ Destroy)
  BY DEF GetEffect, RunWithCallback, EndCleanup, RunStopped, EndEffect, EndNotify, MakeScope, EndSetup,
         EndRender, CallMounted, EmitMounted, EndMounted, BeginHook, EndHook, EndDispose, EndDestroy,
         GetSource, RunEffect, EndCallback, NotifyNext, RunBuffered, RunOnce, OnCleanup, BeginDispose,
         BeginScopes, StopScopes, EndStop, Destroy, state
<1>2. ~(\/ \E x \in Watchers : RunQueued(x) \/ Create(x)
        \/ \E s \in Scopes : StopScope(s)
        \/ \E r \in Refs, v \in Values : Write(r, v))
  BY DEF RunQueued, Create, StopScope, Write, state
<1>3. CASE StopEffect
  <2>1. PICK x, t : /\ x = Head(Top.todo)
                    /\ (Teardown(x, t) \/ UNCHANGED active)
    BY <1>3 DEF StopEffect
  <2>2. Teardown(x, t) /\ x = w
    BY <2>1 DEF Teardown
  <2> QED
    BY <1>3, <2>1, <2>2
<1>4. ASSUME NEW x \in Watchers, Stop(x) PROVE x = w /\ \E t : Teardown(w, t)
  <2>1. Teardown(x, stack)
    BY <1>4 DEF Stop
  <2>2. x = w
    BY <2>1 DEF Teardown
  <2> QED
    BY <2>1, <2>2
<1> QED
  BY <1>1, <1>2, <1>3, <1>4 DEF Next

\* Whatever user code does, except that code which a sync watcher calls does not write
\* the source of that watcher: when a callback or an effect is called again, the cleanup
\* that its last run registered has been called, and so has that of a watcher which is
\* stopped, by stop(), by its scope or with its component (apiWatch.ts:229, 247, 292).
THEOREM CleanedBeforeRerunCorrect ==
  ASSUME Reenters = FALSE
  PROVE  Spec => CleanedBeforeRerun
<1>1. ASSUME BaseInv, RunsInv, Next, NEW w, Begins(w) PROVE w \notin owed
  <2>1. /\ stack # <<>> /\ IsRun(Top) /\ Top.kind \in {"get", "run", "cleanup"} /\ w = Top.w
        /\ Top.kind \in {"get", "run"} => w \notin cleanup
    BY <1>1, BeginsInRun, WhatBegins
  <2>2. CASE Top.kind = "cleanup"
    <3>1. Top \in Frames /\ Top.then # "stop"
      BY <1>1, <2>1, <2>2, TopFacts DEF BaseInv, IsRun
    <3> QED
      BY <1>1, <2>1, <2>2, <3>1 DEF RunsInv, CleanInv
  <2>3. CASE Top.kind # "cleanup"
    BY <1>1, <2>1, <2>3 DEF BaseInv, TypeInv
  <2> QED
    BY <2>2, <2>3
<1>2. ASSUME BaseInv, Next, NEW w \in active \ active' PROVE w \notin owed'
  <2>1. PICK t : Teardown(w, t)
    BY <1>2, LostIsTornDown
  <2>2. CASE w \in cleanup
    BY <2>1, <2>2 DEF Teardown, TornDown, BeginCleanup
  <2>3. CASE w \notin cleanup
    <3>1. owed' = owed /\ owed \subseteq cleanup
      BY <1>2, <2>1, <2>3 DEF Teardown, TornDown, BaseInv, TypeInv
    <3> QED
      BY <2>3, <3>1
  <2> QED
    BY <2>2, <2>3
<1>3. BaseInv /\ RunsInv /\ [Next]_vars =>
        [/\ \A w \in Watchers : Begins(w) => w \notin owed
         /\ \A w \in active \ active' : w \notin owed']_vars
  BY <1>1, <1>2
<1>4. Spec => [](BaseInv /\ RunsInv)
  BY RunsInductive, PTL
<1> QED
  BY <1>3, <1>4, PTL DEF Spec, CleanedBeforeRerun

\* Under the same condition every callback is given as old value what the callback
\* before it was given as new one, or the first value of the source; whatever is
\* created, stopped, queued or notified in between (apiWatch.ts:296-302).
THEOREM OldIsLastCorrect ==
  ASSUME Reenters = FALSE
  PROVE  Spec => OldIsLast
<1>1. ASSUME BaseInv, RunsInv, Next, NEW w \in Watchers, Begins(w), Head(stack').kind = "callback"
      PROVE  Head(stack').old = last[w]
  <2>1. /\ stack # <<>> /\ IsRun(Top) /\ Top.kind # "callback" /\ w = Top.w
        /\ w \notin Effects /\ Head(stack').old = old[w]
    BY <1>1, BeginsInRun, WhatBegins
  <2>2. old[w] = last[w]
    BY <1>1, <2>1, OldHere DEF BaseInv
  <2> QED
    BY <2>1, <2>2
<1>2. BaseInv /\ RunsInv /\ [Next]_vars =>
        [\A w \in Watchers : Begins(w) /\ Head(stack').kind = "callback" => Head(stack').old = last[w]]_vars
  BY <1>1
<1>3. Spec => [](BaseInv /\ RunsInv)
  BY RunsInductive, PTL
<1> QED
  BY <1>2, <1>3, PTL DEF Spec, OldIsLast

-----------------------------------------------------------------------------
(***************************************************************************)
(* Stopped watchers.                                                       *)
(***************************************************************************)
IsRerun(f) == f.kind = "cleanup" /\ f.then # "stop"

\* Effects that wait for hook:mounted
Waits(w) == w \in ToSet(once) \/ \E f \in Frames : f.kind = "once" /\ w \in ToSet(f.todo)

Dying == destroyed \/ HasKind("destroy")

\* A watcher whose getter is called is not torn down, unless with its component.
GetsRightly(w) == w \in active \/ (w \in owned /\ destroyed)

\* What is left of the stop of f does not tear w down.
Spares(f, w) == ~IsWithin(ScopeOf(w), f.scope) /\ w \notin ToSet(f.todo)

StoppedInv ==
  /\ \A f \in Frames : f.kind = "get" => GetsRightly(f.w)
  /\ \A f \in Frames : IsRerun(f) => f.w \in active
  /\ \A f, g \in Frames : Above(f, g) /\ f.kind = "stop" /\ IsRerun(g) => Spares(f, g.w)
  /\ \A w \in Watchers : Waits(w) => w \in owned /\ (w \in active \/ Dying)
  /\ \A f \in Frames : f.kind = "stop" => \A w \in Watchers : Waits(w) => Dying \/ Spares(f, w)

\* A stop f that tears down no more than another one, h, does.
Softer(f, h) == \A w \in Watchers : Spares(h, w) => Spares(f, w)

\* A stop that user code begins
SparesAll(f) ==
  /\ \A g \in Frames : IsRerun(g) => Spares(f, g.w)
  /\ \A w \in Watchers : Waits(w) => Dying' \/ Spares(f, w)

\* f may come onto the stack.
Welcome(f) ==
  /\ f.kind = "get" => GetsRightly(f.w)'
  /\ IsRerun(f) => f.w \in active'
  /\ f.kind = "once" => \A w \in ToSet(f.todo) : Waits(w)
  /\ f.kind = "stop" => (On("stop") /\ Softer(f, Top)) \/ SparesAll(f)

\* Top may leave the stack.
MayLeave(f) == f.kind = "destroy" => destroyed'

WelcomeStep ==
  \/ UNCHANGED stack
  \/ stack # <<>> /\ MayLeave(Top) /\ stack' = Callers
  \/ \E f : Welcome(f) /\ stack # <<>> /\ MayLeave(Top) /\ stack' = <<f>> \o Callers
  \/ \E f : Welcome(f) /\ stack' = <<f>> \o stack
  \/ \E f, g : /\ Welcome(f) /\ Welcome(g) /\ ~IsRerun(g) /\ stack # <<>> /\ MayLeave(Top)
               /\ stack' = <<f>> \o (<<g>> \o Callers)
  \/ \E f, g : Welcome(f) /\ Welcome(g) /\ ~IsRerun(g) /\ stack' = <<f, g>> \o stack

\* f continues a stop that was under way.
Continues(f) ==
  \E h \in Frames : /\ h.kind = "stop" /\ Softer(f, h)
                    /\ \A g : IsRerun(g) /\ Above(f, g)' => Above(h, g)

WelcomeFrames ==
  /\ \A f \in Frames' : f \in Frames \/ Welcome(f)
  /\ \A f \in Frames : f.kind = "destroy" => f \in Frames' \/ destroyed'
  /\ \A f \in Frames' : f.kind = "stop" => Continues(f) \/ SparesAll(f)
  /\ \A f, g : Above(f, g)' /\ IsRerun(g) => g \in Frames

LEMMA StopContinues ==
  ASSUME StackInv, stack # <<>>, On("stop"), NEW f, Softer(f, Top),
         \A g : IsRerun(g) /\ Above(f, g)' => g \in ToSet(Callers)
  PROVE  Continues(f)
<1>1. PICK h : h = Top
  OBVIOUS
<1>2. h \in Frames /\ h.kind = "stop" /\ Softer(f, h)
  BY <1>1, TopFacts DEF On
<1>3. \A g \in ToSet(Callers) : Above(h, g)
  BY <1>1, Peeled
<1> QED
  BY <1>2, <1>3 DEF Continues

LEMMA StopStays ==
  ASSUME NEW f \in Frames, f.kind = "stop", \A g : Above(f, g)' /\ IsRerun(g) => Above(f, g)
  PROVE  Continues(f)
<1>1. Softer(f, f)
  BY DEF Softer
<1> QED
  BY <1>1 DEF Continues

\* What new frames bring in, whatever they are
LEMMA WelcomeOnto ==
  ASSUME StackInv, NEW c, NEW N, \A f \in N : Welcome(f),
         Frames' = N \union c, c \subseteq Frames,
         \A f \in Frames : f \in c \/ (stack # <<>> /\ f = Top /\ MayLeave(f)),
         stack # <<>> => ToSet(Callers) \subseteq c,
         \A f, g : Above(f, g)' /\ IsRerun(g) =>
           g \in c /\ (f \in N \/ Above(f, g)) /\ (On("stop") => g \in ToSet(Callers))
  PROVE  WelcomeFrames
<1>1. \A f \in Frames' : f \in Frames \/ Welcome(f)
  OBVIOUS
<1>2. \A f \in Frames : f.kind = "destroy" => f \in Frames' \/ destroyed'
  BY DEF MayLeave
<1>3. \A f, g : Above(f, g)' /\ IsRerun(g) => g \in Frames
  OBVIOUS
<1>4. ASSUME NEW f \in Frames', f.kind = "stop" PROVE Continues(f) \/ SparesAll(f)
  <2>1. CASE f \in N
    <3>1. (On("stop") /\ Softer(f, Top)) \/ SparesAll(f)
      BY <1>4, <2>1 DEF Welcome
    <3>2. CASE On("stop") /\ Softer(f, Top)
      <4>1. \A g : IsRerun(g) /\ Above(f, g)' => g \in ToSet(Callers)
        BY <3>2
      <4> QED
        BY <3>2, <4>1, StopContinues DEF On
    <3> QED
      BY <3>1, <3>2
  <2>2. CASE f \notin N
    <3>1. f \in Frames /\ \A g : Above(f, g)' /\ IsRerun(g) => Above(f, g)
      BY <2>2
    <3> QED
      BY <1>4, <3>1, StopStays
  <2> QED
    BY <2>1, <2>2
<1> QED
  BY <1>1, <1>2, <1>3, <1>4 DEF WelcomeFrames

LEMMA WelcomeSwap ==
  ASSUME StackInv, stack # <<>>, MayLeave(Top), NEW f, Welcome(f), stack' = <<f>> \o Callers
  PROVE  WelcomeFrames
<1>1. PICK c : c = Callers
  OBVIOUS
<1>2. /\ Frames = {Top} \union ToSet(c) /\ Frames' = {f} \union ToSet(c)
      /\ \A x, y : Above(x, y) <=> (x = Top /\ y \in ToSet(c)) \/ Precedes(c, x, y)
      /\ \A x, y : Above(x, y)' <=> (x = f /\ y \in ToSet(c)) \/ Precedes(c, x, y)
      /\ \A x, y : Precedes(c, x, y) => x \in ToSet(c) /\ y \in ToSet(c)
  BY <1>1, SwapFrames
<1>3. PICK N, C : N = {f} /\ C = ToSet(c)
  OBVIOUS
<1>4. /\ \A h \in N : Welcome(h)
      /\ Frames' = N \union C /\ C \subseteq Frames /\ ToSet(Callers) \subseteq C
      /\ \A h \in Frames : h \in C \/ h = Top
  BY <1>1, <1>2, <1>3
<1>5. \A h, g : Above(h, g)' /\ IsRerun(g) =>
        g \in C /\ (h \in N \/ Above(h, g)) /\ (On("stop") => g \in ToSet(Callers))
  BY <1>1, <1>2, <1>3
<1> QED
  BY <1>4, <1>5, WelcomeOnto

LEMMA WelcomePush ==
  ASSUME StackInv, NEW f, Welcome(f), stack' = <<f>> \o stack
  PROVE  WelcomeFrames
<1>1. PICK c : c = stack
  OBVIOUS
<1>2. /\ Frames = ToSet(c) /\ Frames' = {f} \union ToSet(c)
      /\ \A x, y : Above(x, y) <=> Precedes(c, x, y)
      /\ \A x, y : Above(x, y)' <=> (x = f /\ y \in ToSet(c)) \/ Precedes(c, x, y)
      /\ \A x, y : Precedes(c, x, y) => x \in ToSet(c) /\ y \in ToSet(c)
  BY <1>1, PushFrames
<1>3. PICK N, C : N = {f} /\ C = Frames
  OBVIOUS
<1>4. stack # <<>> => Frames = {Top} \union ToSet(Callers)
  BY Peeled
<1>5. /\ \A h \in N : Welcome(h)
      /\ Frames' = N \union C /\ C \subseteq Frames /\ (stack # <<>> => ToSet(Callers) \subseteq C)
      /\ \A h \in Frames : h \in C
  BY <1>2, <1>3, <1>4
<1>6. On("stop") => ~IsRerun(Top)
  BY DEF On, IsRerun
<1>7. \A h, g : Above(h, g)' /\ IsRerun(g) =>
        g \in C /\ (h \in N \/ Above(h, g)) /\ (On("stop") => g \in ToSet(Callers))
  BY <1>2, <1>3, <1>4, <1>6 DEF On
<1> QED
  BY <1>5, <1>7, WelcomeOnto

LEMMA WelcomeSwapPush ==
  ASSUME StackInv, stack # <<>>, MayLeave(Top), NEW f, NEW g, Welcome(f), Welcome(g), ~IsRerun(g),
         stack' = <<f>> \o (<<g>> \o Callers)
  PROVE  WelcomeFrames
<1>1. PICK c : c = Callers
  OBVIOUS
<1>2. /\ Frames = {Top} \union ToSet(c) /\ Frames' = {f, g} \union ToSet(c)
      /\ \A x, y : Above(x, y) <=> (x = Top /\ y \in ToSet(c)) \/ Precedes(c, x, y)
      /\ \A x, y : Above(x, y)' <=> (\/ x = f /\ y \in {g} \union ToSet(c)
                                     \/ x = g /\ y \in ToSet(c)
                                     \/ Precedes(c, x, y))
      /\ \A x, y : Precedes(c, x, y) => x \in ToSet(c) /\ y \in ToSet(c)
  BY <1>1, SwapPushFrames, ZenonT(60)
<1>3. PICK N, C : N = {f, g} /\ C = ToSet(c)
  OBVIOUS
<1>4. /\ \A h \in N : Welcome(h)
      /\ Frames' = N \union C /\ C \subseteq Frames /\ ToSet(Callers) \subseteq C
      /\ \A h \in Frames : h \in C \/ h = Top
  BY <1>1, <1>2, <1>3
<1>5. \A x, y : Above(x, y)' /\ IsRerun(y) =>
        y \in C /\ (x \in N \/ Above(x, y)) /\ (On("stop") => y \in ToSet(Callers))
  BY <1>1, <1>2, <1>3
<1> QED
  BY <1>4, <1>5, WelcomeOnto

LEMMA WelcomePushTwo ==
  ASSUME StackInv, NEW f, NEW g, Welcome(f), Welcome(g), ~IsRerun(g), stack' = <<f, g>> \o stack
  PROVE  WelcomeFrames
<1>1. PICK c : c = stack
  OBVIOUS
<1>2. /\ Frames = ToSet(c) /\ Frames' = {f, g} \union ToSet(c)
      /\ \A x, y : Above(x, y) <=> Precedes(c, x, y)
      /\ \A x, y : Above(x, y)' <=> (\/ x = f /\ y \in {g} \union ToSet(c)
                                     \/ x = g /\ y \in ToSet(c)
                                     \/ Precedes(c, x, y))
      /\ \A x, y : Precedes(c, x, y) => x \in ToSet(c) /\ y \in ToSet(c)
  BY <1>1, PushTwoFrames
<1>3. PICK N, C : N = {f, g} /\ C = Frames
  OBVIOUS
<1>4. stack # <<>> => Frames = {Top} \union ToSet(Callers)
  BY Peeled
<1>5. /\ \A h \in N : Welcome(h)
      /\ Frames' = N \union C /\ C \subseteq Frames /\ (stack # <<>> => ToSet(Callers) \subseteq C)
      /\ \A h \in Frames : h \in C
  BY <1>2, <1>3, <1>4
<1>6. On("stop") => ~IsRerun(Top)
  BY DEF On, IsRerun
<1>7. \A x, y : Above(x, y)' /\ IsRerun(y) =>
        y \in C /\ (x \in N \/ Above(x, y)) /\ (On("stop") => y \in ToSet(Callers))
  BY <1>2, <1>3, <1>4, <1>6 DEF On
<1> QED
  BY <1>5, <1>7, WelcomeOnto

LEMMA WelcomeStepFacts ==
  ASSUME StackInv, WelcomeStep
  PROVE  WelcomeFrames
<1>1. CASE UNCHANGED stack
  <2>1. Frames' = Frames /\ \A x, y : Above(x, y)' <=> Above(x, y)
    BY <1>1 DEF Frames, Above
  <2>2. \A f \in Frames : f.kind = "stop" => Continues(f)
    BY <2>1, StopStays
  <2> QED
    BY <2>1, <2>2, AboveFrames DEF WelcomeFrames
<1>2. CASE stack # <<>> /\ MayLeave(Top) /\ stack' = Callers
  <2>1. PICK c : c = Callers
    OBVIOUS
  <2>2. /\ Frames = {Top} \union ToSet(c)
        /\ \A x, y : Above(x, y) <=> (x = Top /\ y \in ToSet(c)) \/ Precedes(c, x, y)
    BY <1>2, <2>1, Peeled
  <2>3. Frames' = ToSet(c) /\ \A x, y : Above(x, y)' <=> Precedes(c, x, y)
    BY <1>2, <2>1 DEF Frames, Above
  <2>4. \A f \in Frames' : f.kind = "stop" => Continues(f)
    BY <2>2, <2>3, StopStays
  <2>5. \A f, g : Above(f, g)' => g \in Frames
    BY <2>2, <2>3, AboveFrames
  <2> QED
    BY <1>2, <2>2, <2>3, <2>4, <2>5 DEF WelcomeFrames, MayLeave
<1> QED
  BY <1>1, <1>2, WelcomeSwap, WelcomePush, WelcomeSwapPush, WelcomePushTwo DEF WelcomeStep

\* x is torn down, which nobody minds.
LostRightly(x) ==
  /\ \A f \in Frames' : f.kind = "get" \/ IsRerun(f) => f.w # x
  /\ Waits(x) => Dying'

\* x begins to wait.
WaitsFirst(x) == x \in active' /\ x \in owned' /\ \A f \in Frames' : f.kind # "stop"

LEMMA StoppedStays ==
  ASSUME StoppedInv, WelcomeFrames, \A x \in active \ active' : LostRightly(x),
         owned \subseteq owned', destroyed => destroyed',
         \A x \in ToSet(once') : x \in ToSet(once) \/ WaitsFirst(x),
         \A g \in Frames : IsRerun(g) => g.w \in Watchers
  PROVE  StoppedInv'
<1>1. Dying => Dying'
  BY DEF Dying, HasKind, WelcomeFrames
<1>2. \A x : Waits(x)' => Waits(x) \/ WaitsFirst(x)
  BY DEF Waits, WelcomeFrames, Welcome
<1>3. ASSUME NEW f \in Frames', f.kind = "get" PROVE GetsRightly(f.w)'
  <2>1. GetsRightly(f.w) \/ GetsRightly(f.w)'
    BY <1>3 DEF StoppedInv, WelcomeFrames, Welcome
  <2>2. f.w \in active => f.w \in active'
    BY <1>3 DEF LostRightly
  <2> QED
    BY <2>1, <2>2 DEF GetsRightly
<1>4. ASSUME NEW f \in Frames', IsRerun(f) PROVE f.w \in active'
  <2>1. f.w \in active \/ f.w \in active'
    BY <1>4 DEF StoppedInv, WelcomeFrames, Welcome
  <2> QED
    BY <1>4, <2>1 DEF LostRightly
<1>5. ASSUME NEW f \in Frames', NEW g \in Frames', Above(f, g)', f.kind = "stop", IsRerun(g)
      PROVE  Spares(f, g.w)
  <2>1. g \in Frames /\ g.w \in Watchers
    BY <1>5 DEF WelcomeFrames
  <2>2. CASE SparesAll(f)
    BY <1>5, <2>1, <2>2 DEF SparesAll
  <2>3. CASE Continues(f)
    <3>1. PICK h \in Frames : h.kind = "stop" /\ Softer(f, h) /\ Above(h, g)
      BY <1>5, <2>3 DEF Continues
    <3>2. Spares(h, g.w)
      BY <1>5, <2>1, <3>1 DEF StoppedInv
    <3> QED
      BY <2>1, <3>1, <3>2 DEF Softer
  <2> QED
    BY <1>5, <2>2, <2>3 DEF WelcomeFrames
<1>6. ASSUME NEW w \in Watchers, Waits(w)' PROVE w \in owned' /\ (w \in active' \/ Dying')
  <2>1. CASE WaitsFirst(w)
    BY <2>1 DEF WaitsFirst
  <2>2. CASE Waits(w)
    <3>1. w \in owned /\ (w \in active \/ Dying)
      BY <2>2 DEF StoppedInv
    <3> QED
      BY <1>1, <2>2, <3>1 DEF LostRightly
  <2> QED
    BY <1>2, <1>6, <2>1, <2>2
<1>7. ASSUME NEW f \in Frames', f.kind = "stop", NEW w \in Watchers, Waits(w)' PROVE Dying' \/ Spares(f, w)
  <2>1. Waits(w)
    BY <1>2, <1>7 DEF WaitsFirst
  <2>2. CASE SparesAll(f)
    BY <2>1, <2>2 DEF SparesAll
  <2>3. CASE Continues(f)
    <3>1. PICK h \in Frames : h.kind = "stop" /\ Softer(f, h)
      BY <2>3 DEF Continues
    <3>2. Dying \/ Spares(h, w)
      BY <2>1, <3>1 DEF StoppedInv
    <3> QED
      BY <1>1, <3>1, <3>2 DEF Softer
  <2> QED
    BY <1>7, <2>2, <2>3 DEF WelcomeFrames
<1> QED
  BY <1>3, <1>4, <1>5, <1>6, <1>7 DEF StoppedInv, Spares, IsRerun

LEMMA StoppedKept ==
  ASSUME BaseInv, StoppedInv, WelcomeStep, active \subseteq active', owned \subseteq owned',
         destroyed => destroyed', ToSet(once') \subseteq ToSet(once)
  PROVE  StoppedInv'
<1>1. WelcomeFrames
  BY WelcomeStepFacts DEF BaseInv
<1>2. \A g \in Frames : IsRerun(g) => g.w \in Watchers
  BY MadeFacts DEF BaseInv, StackInv, IsFrame, IsRun, IsRerun
<1> QED
  BY <1>1, <1>2, StoppedStays

-----------------------------------------------------------------------------
(***************************************************************************)
(* What each action does to stopped watchers.                              *)
(***************************************************************************)
LEMMA FramesAreWelcome ==
  /\ \A k, x : k \notin {"get", "cleanup", "once", "stop"} =>
       Welcome(Call(k, x)) /\ Welcome(ListFrame(k, x)) /\ Welcome(Frame(k))
  /\ \A w, n, o : Welcome(Callback(w, n, o))
  /\ \A w, n : Welcome(Cleaning(w, "stop", n))
BY DEF Welcome, IsRerun, Call, ListFrame, Frame, Callback, Cleaning

LEMMA RunningStopped ==
  ASSUME BaseInv, StoppedInv,
         GetEffect \/ GetSource \/ RunStopped \/ RunEffect \/ RunWithCallback \/ EndCleanup
           \/ EndEffect \/ EndCallback
  PROVE  StoppedInv'
<1>1. UNCHANGED <<active, owned, destroyed, once>>
  BY DEF GetEffect, GetSource, RunStopped, RunEffect, RunWithCallback, EndCleanup, EndEffect, EndCallback, state
<1>2. stack # <<>> /\ Top \in Frames /\ MayLeave(Top)
  BY TopFacts DEF BaseInv, MayLeave, On, GetEffect, GetSource, RunStopped, RunEffect, RunWithCallback,
                  EndCleanup, EndEffect, EndCallback
<1>3. WelcomeStep => StoppedInv'
  BY <1>1, StoppedKept
<1>4. PICK w, n, o, m : w = Top.w /\ n = val[SourceOf(w)] /\ o = old[w] /\ m = Top.new
  OBVIOUS
<1>5. \A f : Welcome(f) /\ stack' = <<f>> \o Callers => WelcomeStep
  BY <1>2 DEF WelcomeStep
<1>6. stack' = Callers => WelcomeStep
  BY <1>2 DEF WelcomeStep
<1>7. \A t, k : w \in active => Welcome(Cleaning(w, t, k))
  BY <1>1 DEF Welcome, Cleaning, IsRerun
<1>8. CASE GetSource \/ RunStopped \/ EndEffect \/ EndCallback
  BY <1>3, <1>6, <1>8 DEF GetSource, RunStopped, EndEffect, EndCallback
<1>9. CASE GetEffect
  <2>1. GetsRightly(w)
    BY <1>2, <1>4, <1>9 DEF GetEffect, On, StoppedInv
  <2>2. \/ stack' = Callers
        \/ w \in active /\ stack' = <<Cleaning(w, "effect", Initial)>> \o Callers
        \/ stack' = <<Call("effect", w)>> \o Callers
    BY <1>4, <1>9, <2>1 DEF GetEffect, BeginCleanup, BeginEffect, GetsRightly
  <2> QED
    BY <1>3, <1>5, <1>6, <1>7, <2>2, FramesAreWelcome
<1>10. CASE RunEffect
  <2>1. stack' = <<Call("get", w)>> \o Callers /\ w \in active
    BY <1>4, <1>10 DEF RunEffect, Runs
  <2>2. Welcome(Call("get", w))
    BY <1>1, <2>1 DEF Welcome, Call, IsRerun, GetsRightly
  <2> QED
    BY <1>3, <1>5, <2>1, <2>2
<1>11. CASE RunWithCallback
  <2>1. /\ w \in active
        /\ \/ stack' = Callers
           \/ stack' = <<Cleaning(w, "callback", n)>> \o Callers
           \/ stack' = <<Callback(w, n, o)>> \o Callers
    BY <1>4, <1>11 DEF RunWithCallback, Runs, BeginCleanup, BeginCallback
  <2> QED
    BY <1>3, <1>5, <1>6, <1>7, <2>1, FramesAreWelcome
<1>12. CASE EndCleanup
  <2>1. \/ stack' = Callers
        \/ stack' = <<Callback(w, m, o)>> \o Callers
        \/ stack' = <<Call("effect", w)>> \o Callers
    BY <1>4, <1>12 DEF EndCleanup, BeginEffect, BeginCallback
  <2> QED
    BY <1>3, <1>5, <1>6, <2>1, FramesAreWelcome
<1> QED
  BY <1>8, <1>9, <1>10, <1>11, <1>12

LEMMA ComponentStopped ==
  ASSUME BaseInv, StoppedInv,
         NotifyNext \/ EndNotify \/ MakeScope \/ EndSetup \/ EndRender \/ RunBuffered \/ CallMounted
           \/ EmitMounted \/ RunOnce \/ EndMounted \/ BeginHook \/ EndHook \/ EndDestroy \/ EndDispose
           \/ (\E w \in Watchers : RunQueued(w))
  PROVE  StoppedInv'
<1>1. UNCHANGED <<active, owned>> /\ (destroyed => destroyed') /\ ToSet(once') \subseteq ToSet(once)
  <2>1. UNCHANGED <<active, owned>> /\ (once' = once \/ once' = <<>>)
    BY DEF NotifyNext, EndNotify, MakeScope, EndSetup, EndRender, RunBuffered, CallMounted, EmitMounted,
           RunOnce, EndMounted, BeginHook, EndHook, EndDestroy, EndDispose, RunQueued, state
  <2>2. UNCHANGED destroyed \/ destroyed' = TRUE
    BY DEF NotifyNext, EndNotify, MakeScope, EndSetup, EndRender, RunBuffered, CallMounted, EmitMounted,
           RunOnce, EndMounted, BeginHook, EndHook, EndDestroy, EndDispose, RunQueued, state
  <2>3. destroyed => destroyed'
    BY <2>2
  <2>4. ToSet(<<>>) = {}
    BY SetFacts, EmptyIsASeq
  <2> QED
    BY <2>1, <2>3, <2>4
<1>2. WelcomeStep => StoppedInv'
  BY <1>1, StoppedKept
<1>3. CASE BeginHook \/ (\E w \in Watchers : RunQueued(w))
  <2>1. (\E w : stack' = <<Call("run", w)>> \o stack) \/ stack' = <<Frame("hook")>> \o stack
    BY <1>3 DEF BeginHook, RunQueued
  <2> QED
    BY <1>2, <2>1, FramesAreWelcome DEF WelcomeStep
<1>4. CASE EndNotify \/ EndMounted \/ EndHook \/ EndDestroy \/ EndDispose
  <2>1. stack # <<>> /\ MayLeave(Top) /\ stack' = Callers
    BY <1>4 DEF EndNotify, EndMounted, EndHook, EndDestroy, EndDispose, On, MayLeave
  <2> QED
    BY <1>2, <2>1 DEF WelcomeStep
<1>5. CASE MakeScope \/ EndSetup \/ EndRender \/ CallMounted \/ EmitMounted
  <2>1. PICK b, o, t : b = buffer /\ o = once /\ t = Tail(Top.todo)
    OBVIOUS
  <2>2. stack # <<>> /\ MayLeave(Top)
    BY <1>5 DEF MakeScope, EndSetup, EndRender, CallMounted, EmitMounted, On, MayLeave
  <2>3. \/ stack' = <<ListFrame("setup", t)>> \o Callers
        \/ stack' = <<Frame("render")>> \o Callers
        \/ stack' = <<ListFrame("pre", b)>> \o Callers
        \/ stack' = <<Frame("mounted")>> \o Callers
        \/ stack' = <<ListFrame("once", o)>> \o Callers
    BY <1>5, <2>1 DEF MakeScope, EndSetup, EndRender, CallMounted, EmitMounted
  <2>4. Welcome(ListFrame("once", o))
    BY <2>1 DEF Welcome, ListFrame, IsRerun, Waits
  <2> QED
    BY <1>2, <2>2, <2>3, <2>4, FramesAreWelcome DEF WelcomeStep
<1>6. CASE NotifyNext \/ RunBuffered \/ RunOnce
  <2>1. PICK k, s, c : k = Top.kind /\ s = Top.todo /\ c = Callers
    OBVIOUS
  <2>2. /\ stack # <<>> /\ MayLeave(Top) /\ Top \in Frames /\ k \in {"notify", "pre", "once"}
        /\ s \in Seq(Watchers) /\ s # <<>> /\ IsASeq(c)
    <3>1. stack # <<>> /\ k \in {"notify", "pre", "once"} /\ s # <<>>
      BY <1>6, <2>1 DEF NotifyNext, RunBuffered, RunOnce, On
    <3>2. Top \in Frames /\ IsFrame(Top) /\ IsASeq(c)
      BY <2>1, <3>1, TopFacts, Peeled DEF BaseInv
    <3> QED
      BY <2>1, <3>1, <3>2 DEF MayLeave, IsFrame
  <2>3. PICK w, t : w = Head(s) /\ t = Tail(s)
    OBVIOUS
  <2>4. w \in ToSet(s) /\ ToSet(t) \subseteq ToSet(s) /\ w \in Watchers
    BY <2>2, <2>3, HeadFacts
  <2>5. PICK g, r, e : g = ListFrame(k, t) /\ r = Call("run", w) /\ e = Call("get", w)
    OBVIOUS
  <2>6. Welcome(g) /\ ~IsRerun(g)
    BY <2>1, <2>2, <2>4, <2>5 DEF Welcome, ListFrame, IsRerun, Waits
  <2>7. Welcome(r)
    BY <2>5, FramesAreWelcome
  <2>8. CASE NotifyNext
    <3>1. k = "notify"
      BY <1>6, <2>1, <2>8 DEF NotifyNext, On
    <3>2. stack' = <<r>> \o (<<g>> \o Callers) \/ stack' = <<g>> \o Callers
      BY <2>1, <2>3, <2>5, <2>8, <3>1 DEF NotifyNext
    <3> QED
      BY <1>2, <2>2, <2>6, <2>7, <3>2 DEF WelcomeStep
  <2>9. CASE RunBuffered
    <3>1. k = "pre"
      BY <2>1, <2>9 DEF RunBuffered, On
    <3>2. stack' = <<r, g>> \o c
      BY <2>1, <2>3, <2>5, <2>9, <3>1 DEF RunBuffered
    <3>3. stack' = <<r>> \o (<<g>> \o Callers)
      BY <2>1, <2>2, <3>2, StackedTwice
    <3> QED
      BY <1>2, <2>2, <2>6, <2>7, <3>3 DEF WelcomeStep
  <2>10. CASE RunOnce
    <3>1. k = "once"
      BY <2>1, <2>10 DEF RunOnce, On
    <3>2. stack' = <<e, g>> \o c
      BY <2>1, <2>3, <2>5, <2>10, <3>1 DEF RunOnce
    <3>3. stack' = <<e>> \o (<<g>> \o Callers)
      BY <2>1, <2>2, <3>2, StackedTwice
    <3>4. ~HasKind("destroy")
      <4>1. Frames = {Top}
        BY <2>1, <2>2, <3>1, AloneAtBottom, Peeled DEF BaseInv, Bottoms
      <4> QED
        BY <2>1, <3>1, <4>1 DEF HasKind
    <3>5. GetsRightly(w)
      <4>1. Waits(w)
        BY <2>1, <2>2, <2>4, <3>1 DEF Waits
      <4> QED
        BY <2>4, <3>4, <4>1 DEF StoppedInv, Dying, GetsRightly
    <3>6. Welcome(e)
      BY <1>1, <2>5, <3>5 DEF Welcome, Call, IsRerun, GetsRightly
    <3> QED
      BY <1>2, <2>2, <2>6, <3>3, <3>6 DEF WelcomeStep
  <2> QED
    BY <1>6, <2>8, <2>9, <2>10
<1> QED
  BY <1>3, <1>4, <1>5, <1>6

\* A watcher that a stop or user code tears down
LEMMA LosesStopped ==
  ASSUME BaseInv, StoppedInv, WelcomeStep, NEW x, active' = active \ {x}, LostRightly(x),
         UNCHANGED <<owned, destroyed, once>>
  PROVE  StoppedInv'
<1>1. WelcomeFrames
  BY WelcomeStepFacts DEF BaseInv
<1>2. \A g \in Frames : IsRerun(g) => g.w \in Watchers
  BY MadeFacts DEF BaseInv, StackInv, IsFrame, IsRun, IsRerun
<1>3. \A y \in active \ active' : LostRightly(y)
  OBVIOUS
<1> QED
  BY <1>1, <1>2, <1>3, StoppedStays

LEMMA SofterStops ==
  ASSUME NEW f \in StopFrames, f.todo \in Seq(Watchers)
  PROVE  /\ f.todo # <<>> => Softer([f EXCEPT !.todo = Tail(@)], f)
         /\ \A p, n, m : Softer([f EXCEPT !.phase = p], f) /\ Softer([f EXCEPT !.i = n], f)
                         /\ Softer([f EXCEPT !.phase = p, !.length = m], f)
         /\ \A c, ws, up : c \in Within[f.scope] /\ (\A w \in ToSet(ws) : ScopeOf(w) = c) =>
              Softer(StopFrame(c, ws, up), f)
<1>1. ASSUME f.todo # <<>>, NEW g, g = [f EXCEPT !.todo = Tail(@)] PROVE Softer(g, f)
  <2>1. g.scope = f.scope /\ g.todo = Tail(f.todo)
    BY <1>1 DEF StopFrames
  <2>2. ToSet(Tail(f.todo)) \subseteq ToSet(f.todo)
    BY <1>1, HeadFacts
  <2> QED
    BY <2>1, <2>2 DEF Softer, Spares
<1>2. ASSUME NEW g, g.scope = f.scope, g.todo = f.todo PROVE Softer(g, f)
  BY <1>2 DEF Softer, Spares
<1>3. ASSUME NEW p, NEW n, NEW m
      PROVE  /\ [f EXCEPT !.phase = p].scope = f.scope /\ [f EXCEPT !.phase = p].todo = f.todo
             /\ [f EXCEPT !.i = n].scope = f.scope /\ [f EXCEPT !.i = n].todo = f.todo
             /\ [f EXCEPT !.phase = p, !.length = m].scope = f.scope
             /\ [f EXCEPT !.phase = p, !.length = m].todo = f.todo
  BY DEF StopFrames
<1>4. ASSUME NEW c \in Within[f.scope], NEW ws, NEW up, \A w \in ToSet(ws) : ScopeOf(w) = c
      PROVE  Softer(StopFrame(c, ws, up), f)
  <2>1. PICK g : g = StopFrame(c, ws, up)
    OBVIOUS
  <2>2. g.scope = c /\ g.todo = ws
    BY <2>1 DEF StopFrame
  <2>3. f.scope \in AllScopes
    BY DEF StopFrames
  <2>4. c \in AllScopes /\ Within[c] \subseteq Within[f.scope]
    BY <1>4, <2>3, WithinFacts, WithinMonotone
  <2>5. c \in Within[c]
    BY <2>4, WithinFacts
  <2> QED
    BY <1>4, <2>1, <2>2, <2>4, <2>5 DEF Softer, Spares, IsWithin
<1> QED
  BY <1>1, <1>2, <1>3, <1>4

LEMMA SofterIsWelcome ==
  ASSUME On("stop"), NEW g, g.kind = "stop", Softer(g, Top)
  PROVE  Welcome(g) /\ ~IsRerun(g)
BY DEF Welcome, IsRerun

LEMMA StopEffectStopped ==
  ASSUME BaseInv, ScopesInv, StoppedInv, StopEffect
  PROVE  StoppedInv'
<1>1. PICK f, c : f = Top /\ c = Callers
  OBVIOUS
<1>2. On("stop") /\ f.todo # <<>> /\ UNCHANGED <<owned, destroyed, once>>
  BY <1>1 DEF StopEffect, Teardown
<1>3. stack # <<>> /\ f \in StopFrames /\ f.kind = "stop" /\ f \in Frames /\ f.todo \in Seq(Watchers)
  BY <1>1, <1>2, StopsTop DEF StopFrames
<1>4. PICK x, g : x = Head(f.todo) /\ g = [f EXCEPT !.todo = Tail(@)]
  OBVIOUS
<1>5. x \in ToSet(f.todo) /\ x \in Watchers
  BY <1>2, <1>3, <1>4, HeadFacts
<1>6. g.kind = "stop" /\ Softer(g, f)
  BY <1>2, <1>3, <1>4, SofterStops DEF StopFrames
<1>7. Welcome(g) /\ ~IsRerun(g) /\ MayLeave(Top)
  BY <1>1, <1>2, <1>3, <1>6, SofterIsWelcome DEF MayLeave
<1>8. CASE x \notin active
  <2>1. stack' = <<g>> \o Callers /\ UNCHANGED active
    BY <1>1, <1>4, <1>8 DEF StopEffect
  <2>2. WelcomeStep
    BY <1>3, <1>7, <2>1 DEF WelcomeStep
  <2> QED
    BY <1>2, <2>1, <2>2, StoppedKept
<1>9. CASE x \in active
  <2>1. Teardown(x, <<g>> \o Callers)
    BY <1>1, <1>4, <1>9 DEF StopEffect
  <2>2. PICK d : d = Cleaning(x, "stop", Initial)
    OBVIOUS
  <2>3. /\ Welcome(d) /\ d.kind # "get" /\ ~IsRerun(d)
        /\ stack' = <<g>> \o Callers \/ stack' = <<d>> \o (<<g>> \o Callers)
    BY <2>1, <2>2, TornDownTame, FramesAreWelcome DEF Cleaning, IsRerun
  <2>4. WelcomeStep
    BY <1>3, <1>7, <2>3 DEF WelcomeStep
  <2>5. WelcomeFrames
    BY <2>4, WelcomeStepFacts DEF BaseInv
  <2>6. ASSUME NEW h \in ToSet(c) PROVE h.kind # "get" /\ (IsRerun(h) => h.w # x)
    <3>1. Above(f, h) /\ h \in Frames
      BY <1>1, <1>3, <2>6, Peeled DEF BaseInv
    <3>2. h.kind # "get"
      BY <1>3, <3>1 DEF BaseInv, StackInv, InOrder, Above, Frames
    <3>3. IsRerun(h) => Spares(f, h.w)
      BY <1>3, <3>1 DEF StoppedInv
    <3> QED
      BY <1>5, <3>2, <3>3 DEF Spares
  <2>7. \A h \in Frames' : h \in {d, g} \/ h \in ToSet(c)
    <3>1. CASE stack' = <<g>> \o Callers
      BY <1>1, <1>3, <3>1, SwapFrames DEF BaseInv
    <3>2. CASE stack' = <<d>> \o (<<g>> \o Callers)
      <4>1. Frames' = {d, g} \union ToSet(c)
        BY <1>1, <1>3, <3>2, SwapPushFrames, ZenonT(60) DEF BaseInv
      <4> QED
        BY <4>1
    <3> QED
      BY <2>3, <3>1, <3>2
  <2>8. Waits(x) => Dying'
    <3>1. Waits(x) => Dying
      BY <1>3, <1>5 DEF StoppedInv, Spares
    <3> QED
      BY <1>2, <2>5, <3>1 DEF Dying, HasKind, WelcomeFrames
  <2>9. LostRightly(x)
    BY <1>6, <1>7, <2>3, <2>6, <2>7, <2>8 DEF LostRightly
  <2>10. active' = active \ {x}
    BY <2>1 DEF Teardown
  <2> QED
    BY <1>2, <2>4, <2>9, <2>10, LosesStopped
<1> QED
  BY <1>8, <1>9

LEMMA StoppingStopped ==
  ASSUME BaseInv, ScopesInv, StoppedInv, BeginDispose \/ BeginScopes \/ StopScopes \/ EndStop
  PROVE  StoppedInv'
<1>1. PICK f, c : f = Top /\ c = Callers
  OBVIOUS
<1>2. On("stop") /\ UNCHANGED <<active, owned, destroyed, once>>
  BY DEF BeginDispose, BeginScopes, StopScopes, EndStop, state
<1>3. stack # <<>> /\ f \in StopFrames /\ f.kind = "stop" /\ f.todo \in Seq(Watchers) /\ f.scope \in AllScopes
  BY <1>1, <1>2, StopsTop DEF StopFrames
<1>4. MayLeave(Top) /\ IsASeq(c)
  BY <1>1, <1>3, Peeled DEF MayLeave, BaseInv
<1>5. WelcomeStep => StoppedInv'
  BY <1>2, StoppedKept
<1>6. \A g : g.kind = "stop" /\ Softer(g, f) => Welcome(g) /\ ~IsRerun(g)
  BY <1>1, <1>2, SofterIsWelcome
<1>7. CASE BeginDispose
  <2>1. PICK d, g : d = Call("dispose", f.scope) /\ g = [f EXCEPT !.phase = "dispose"]
    OBVIOUS
  <2>2. stack' = <<d, g>> \o c
    BY <1>1, <1>7, <2>1 DEF BeginDispose
  <2>3. stack' = <<d>> \o (<<g>> \o Callers)
    BY <1>1, <1>4, <2>2, StackedTwice
  <2>4. g.kind = "stop" /\ Softer(g, f)
    BY <1>3, <2>1, SofterStops DEF StopFrames
  <2> QED
    BY <1>3, <1>4, <1>5, <1>6, <2>1, <2>3, <2>4, FramesAreWelcome DEF WelcomeStep
<1>8. CASE BeginScopes
  <2>1. PICK n, g : n = Len(scope[Top.scope].scopes) /\ g = [f EXCEPT !.phase = "scopes", !.length = n]
    OBVIOUS
  <2>2. stack' = <<g>> \o Callers
    BY <1>1, <1>8, <2>1 DEF BeginScopes
  <2>3. g.kind = "stop" /\ Softer(g, f)
    BY <1>3, <2>1, SofterStops DEF StopFrames
  <2> QED
    BY <1>3, <1>4, <1>5, <1>6, <2>2, <2>3 DEF WelcomeStep
<1>9. CASE StopScopes
  <2>1. PICK child, n, g : child = scope[f.scope].scopes[f.i] /\ n = f.i + 1 /\ g = [f EXCEPT !.i = n]
    OBVIOUS
  <2>2. PICK ws : ws = EffectsOf(child)
    OBVIOUS
  <2>3. PICK d : d = StopFrame(child, ws, TRUE)
    OBVIOUS
  <2>4. stack' = <<g>> \o Callers \/ stack' = <<d>> \o (<<g>> \o Callers)
    BY <1>1, <1>9, <2>1, <2>2, <2>3 DEF StopScopes
  <2>5. g.kind = "stop" /\ Softer(g, f)
    BY <1>3, <2>1, SofterStops DEF StopFrames
  <2>6. child \in Within[f.scope]
    <3>1. f.i \in 1 .. Len(scope[f.scope].scopes) /\ scope[f.scope].scopes \in Seq(Scopes)
      <4>1. /\ f.i \in 1 .. f.length + 1 /\ f.length = Len(scope[f.scope].scopes)
            /\ scope[f.scope].scopes \in Seq(Scopes) /\ f.i <= f.length
        BY <1>1, <1>2, <1>9, StopsTop DEF StopScopes
      <4> QED
        BY <1>3, <4>1 DEF StopFrames
    <3>2. IsNested(child) /\ ParentOf[child] = f.scope
      BY <1>3, <2>1, <3>1 DEF ScopesInv, TreeInv
    <3> QED
      BY <1>3, <3>2, WithinFacts
  <2>7. \A w \in ToSet(ws) : ScopeOf(w) = child
    BY <2>2, EffectsFacts DEF BaseInv, TypeInv
  <2>8. d.kind = "stop" /\ Softer(d, f)
    BY <1>3, <2>3, <2>6, <2>7, SofterStops DEF StopFrame
  <2> QED
    BY <1>3, <1>4, <1>5, <1>6, <2>4, <2>5, <2>8 DEF WelcomeStep
<1>10. CASE EndStop
  BY <1>3, <1>4, <1>5, <1>10 DEF EndStop, WelcomeStep
<1> QED
  BY <1>7, <1>8, <1>9, <1>10

\* What the guards of user code say
LEMMA GuardsMean ==
  ASSUME BaseInv, NEW w
  PROVE  /\ InRerun(w) <=> \E f \in Frames : IsRerun(f) /\ f.w = w
         /\ IsWaiting(w) <=> Waits(w)
<1>1. IsASeq(stack) /\ once \in Seq(Watchers)
  BY DEF BaseInv, StackInv, InOrder, TypeInv
<1>2. \A f : f \in Frames <=> \E i \in DOMAIN stack : stack[i] = f
  BY <1>1, SetFacts DEF Frames
<1>3. InRerun(w) <=> \E f \in Frames : IsRerun(f) /\ f.w = w
  BY <1>2 DEF InRerun, IsRerun
<1>4. Contains(once, w) <=> w \in ToSet(once)
  BY DEF Contains, ToSet
<1>5. \A f : Contains(f.todo, w) <=> w \in ToSet(f.todo)
  BY DEF Contains, ToSet
<1>6. IsWaiting(w) <=> Waits(w)
  BY <1>2, <1>4, <1>5 DEF IsWaiting, Waits
<1> QED
  BY <1>3, <1>6

LEMMA NoGetters ==
  ASSUME BaseInv, UserCode
  PROVE  \A f \in Frames : f.kind # "get"
<1>1. CASE stack = <<>>
  BY <1>1, SetFacts, EmptyIsASeq DEF Frames
<1>2. CASE stack # <<>>
  <2>1. PICK f : f = Top
    OBVIOUS
  <2>2. f.kind # "get" /\ f \in Frames
    BY <1>2, <2>1, TopFacts DEF UserCode, BaseInv
  <2>3. \A h \in Frames : h = f \/ Above(f, h)
    BY <1>2, <2>1, Peeled DEF BaseInv
  <2>4. \A h \in Frames : Above(f, h) => h.kind # "get"
    BY <2>2 DEF BaseInv, StackInv, InOrder, Above, Frames
  <2> QED
    BY <2>2, <2>3, <2>4
<1> QED
  BY <1>1, <1>2

LEMMA StopStopped ==
  ASSUME BaseInv, StoppedInv, StopsMidway = FALSE, NEW w \in Watchers, Stop(w)
  PROVE  StoppedInv'
<1>1. UserCode /\ w \in active /\ ~InRerun(w) /\ ~IsWaiting(w) /\ Teardown(w, stack) /\ UNCHANGED destroyed
  BY DEF Stop, UserOp
<1>2. PICK d : d = Cleaning(w, "stop", Initial)
  OBVIOUS
<1>3. /\ Welcome(d) /\ d.kind # "get" /\ ~IsRerun(d)
      /\ stack' = stack \/ stack' = <<d>> \o stack
  BY <1>1, <1>2, TornDownTame, FramesAreWelcome DEF Cleaning, IsRerun
<1>4. WelcomeStep
  BY <1>3 DEF WelcomeStep
<1>5. \A h \in Frames' : h = d \/ h \in Frames
  <2>1. CASE stack' = stack
    BY <2>1 DEF Frames
  <2>2. CASE stack' = <<d>> \o stack
    BY <2>2, PushFrames DEF BaseInv
  <2> QED
    BY <1>3, <2>1, <2>2
<1>6. ~Waits(w) /\ \A h \in Frames : h.kind # "get" /\ (IsRerun(h) => h.w # w)
  BY <1>1, GuardsMean, NoGetters
<1>7. LostRightly(w)
  BY <1>3, <1>5, <1>6 DEF LostRightly
<1>8. active' = active \ {w} /\ UNCHANGED <<owned, once>>
  BY <1>1 DEF Teardown
<1> QED
  BY <1>1, <1>4, <1>7, <1>8, LosesStopped

LEMMA StopScopeStopped ==
  ASSUME BaseInv, StoppedInv, StopsMidway = FALSE, NEW s \in Scopes, StopScope(s)
  PROVE  StoppedInv'
<1>1. PICK ws, d : ws = EffectsOf(s) /\ d = StopFrame(s, ws, FALSE)
  OBVIOUS
<1>2. /\ \A w \in active : IsWithin(ScopeOf(w), s) => ~(InRerun(w) \/ IsWaiting(w))
      /\ stack' = <<d>> \o stack /\ UNCHANGED <<active, owned, destroyed, once>>
  BY <1>1 DEF StopScope, state
<1>3. d.kind = "stop" /\ d.scope = s /\ d.todo = ws
  BY <1>1 DEF StopFrame
<1>4. s \in Within[s]
  BY WithinFacts DEF AllScopes
<1>5. \A w : ~IsWithin(ScopeOf(w), s) => Spares(d, w)
  <2>1. \A w \in ToSet(ws) : ScopeOf(w) = s
    BY <1>1, EffectsFacts DEF BaseInv, TypeInv
  <2> QED
    BY <1>3, <1>4, <2>1 DEF Spares, IsWithin
<1>6. \A g \in Frames : IsRerun(g) => Spares(d, g.w)
  <2>1. ASSUME NEW g \in Frames, IsRerun(g) PROVE ~IsWithin(ScopeOf(g.w), s)
    <3>1. g.w \in active /\ InRerun(g.w)
      BY <2>1, GuardsMean DEF StoppedInv
    <3> QED
      BY <1>2, <3>1
  <2> QED
    BY <1>5, <2>1
<1>7. \A w \in Watchers : Waits(w) => Dying' \/ Spares(d, w)
  <2>1. ASSUME NEW w \in Watchers, Waits(w) PROVE Dying' \/ Spares(d, w)
    <3>1. CASE w \in active
      <4>1. IsWaiting(w)
        BY <2>1, GuardsMean
      <4> QED
        BY <1>2, <1>5, <3>1, <4>1
    <3>2. CASE Dying
      <4>1. Frames \subseteq Frames'
        BY <1>2, PushFrames DEF BaseInv
      <4> QED
        BY <1>2, <3>2, <4>1 DEF Dying, HasKind
    <3> QED
      BY <2>1, <3>1, <3>2 DEF StoppedInv
  <2> QED
    BY <2>1
<1>8. Welcome(d)
  BY <1>3, <1>6, <1>7 DEF Welcome, SparesAll, IsRerun
<1>9. WelcomeStep
  BY <1>2, <1>8 DEF WelcomeStep
<1> QED
  BY <1>2, <1>9, StoppedKept

LEMMA DestroyStopped ==
  ASSUME BaseInv, StoppedInv, StopsMidway = FALSE, Destroy
  PROVE  StoppedInv'
<1>1. PICK d, e : d = StopFrame(Own, EffectsOf(Own), FALSE) /\ e = Frame("destroy")
  OBVIOUS
<1>2. /\ \A w \in active : ~InRerun(w)
      /\ stack' = <<d, e>> \o stack /\ UNCHANGED <<active, owned, destroyed, once>>
  BY <1>1 DEF Destroy, state
<1>3. d.kind = "stop" /\ e.kind = "destroy"
  BY <1>1 DEF StopFrame, Frame
<1>4. \A g \in Frames : ~IsRerun(g)
  <2>1. ASSUME NEW g \in Frames, IsRerun(g) PROVE FALSE
    <3>1. g.w \in active /\ InRerun(g.w)
      BY <2>1, GuardsMean DEF StoppedInv
    <3> QED
      BY <1>2, <3>1
  <2> QED
    BY <2>1
<1>5. Dying'
  <2>1. e \in Frames'
    BY <1>2, PushTwoFrames DEF BaseInv
  <2> QED
    BY <1>3, <2>1 DEF Dying, HasKind
<1>6. Welcome(d) /\ Welcome(e) /\ ~IsRerun(e)
  BY <1>3, <1>4, <1>5 DEF Welcome, SparesAll, IsRerun
<1>7. WelcomeStep
  BY <1>2, <1>6 DEF WelcomeStep
<1> QED
  BY <1>2, <1>7, StoppedKept

LEMMA CreateStopped ==
  ASSUME BaseInv, StoppedInv, NEW w \in Watchers, Create(w)
  PROVE  StoppedInv'
<1>1. /\ UserCode /\ Author = Free /\ UNCHANGED destroyed
      /\ active' = active \union {w} /\ owned \subseteq owned'
  BY DEF Create, UserOp
<1>2. PICK r, e : r = Call("run", w) /\ e = Call("get", w)
  OBVIOUS
<1>3. /\ Welcome(r) /\ Welcome(e) /\ r.kind # "stop" /\ e.kind # "stop"
  BY <1>1, <1>2 DEF Welcome, Call, IsRerun, GetsRightly
<1>4. \/ IsCurrent /\ once' = Append(once, w) /\ UNCHANGED stack
      \/ UNCHANGED once /\ (stack' = <<r>> \o stack \/ stack' = <<e>> \o stack)
  BY <1>2 DEF Create
<1>5. WelcomeStep
  BY <1>3, <1>4 DEF WelcomeStep
<1>6. CASE UNCHANGED once
  BY <1>1, <1>5, <1>6, StoppedKept
<1>7. CASE IsCurrent /\ once' = Append(once, w) /\ UNCHANGED stack
  <2>1. w \in owned'
    BY <1>7 DEF Create
  <2>2. \A f \in Frames' : f.kind # "stop"
    <3>1. CASE stack = <<>>
      BY <1>7, <3>1, SetFacts, EmptyIsASeq DEF Frames
    <3>2. CASE stack # <<>>
      <4>1. Top.kind \in Bottoms /\ Frames = {Top}
        BY <1>1, <3>2, FreeAtBottom, Peeled DEF BaseInv
      <4> QED
        BY <1>7, <4>1 DEF Bottoms, Frames
    <3> QED
      BY <3>1, <3>2
  <2>3. WaitsFirst(w)
    BY <1>1, <2>1, <2>2 DEF WaitsFirst
  <2>4. \A x \in ToSet(once') : x \in ToSet(once) \/ WaitsFirst(x)
    BY <1>7, <2>3, AppendSet DEF BaseInv, TypeInv
  <2>5. WelcomeFrames
    BY <1>5, WelcomeStepFacts DEF BaseInv
  <2>6. \A g \in Frames : IsRerun(g) => g.w \in Watchers
    BY MadeFacts DEF BaseInv, StackInv, IsFrame, IsRun, IsRerun
  <2> QED
    BY <1>1, <2>4, <2>5, <2>6, StoppedStays
<1> QED
  BY <1>4, <1>6, <1>7

LEMMA StoppedNext ==
  ASSUME BaseInv, ScopesInv, StoppedInv, StopsMidway = FALSE, Next
  PROVE  StoppedInv'
<1>1. CASE OnCleanup \/ (\E r \in Refs, v \in Values : Write(r, v))
  <2>1. UNCHANGED <<active, owned, destroyed, once>>
    BY <1>1 DEF OnCleanup, Write
  <2>2. UNCHANGED stack \/ \E ws : stack' = <<ListFrame("notify", ws)>> \o stack
    BY <1>1 DEF OnCleanup, Write
  <2>3. WelcomeStep
    BY <2>2, FramesAreWelcome DEF WelcomeStep
  <2> QED
    BY <2>1, <2>3, StoppedKept
<1> QED
  BY <1>1, RunningStopped, ComponentStopped, StopEffectStopped, StoppingStopped, StopStopped,
     StopScopeStopped, DestroyStopped, CreateStopped DEF Next

LEMMA StoppedInit ==
  ASSUME Init
  PROVE  StoppedInv
<1>1. PICK f : f = ListFrame("setup", ScopeOrder)
  OBVIOUS
<1>2. stack = <<f>> /\ f.kind = "setup" /\ once = <<>>
  BY <1>1 DEF Init, ListFrame
<1>3. Frames = {f} /\ ToSet(once) = {}
  BY <1>2, SetFacts, EmptyIsASeq DEF Frames, ToSet
<1> QED
  BY <1>2, <1>3 DEF StoppedInv, Waits, IsRerun

LEMMA StoppedInductive ==
  ASSUME StopsMidway = FALSE
  PROVE  Spec => [](BaseInv /\ ScopesInv /\ StoppedInv)
<1>1. Init => StoppedInv
  BY StoppedInit
<1>2. (BaseInv /\ ScopesInv) /\ StoppedInv /\ [Next]_vars => StoppedInv'
  <2>1. ASSUME BaseInv, StoppedInv, UNCHANGED vars PROVE StoppedInv'
    <3>1. UNCHANGED <<active, owned, destroyed, once, stack>>
      BY <2>1 DEF vars, state
    <3>2. WelcomeStep
      BY <3>1 DEF WelcomeStep
    <3> QED
      BY <2>1, <3>1, <3>2, StoppedKept
  <2> QED
    BY <2>1, StoppedNext
<1> QED
  BY <1>1, <1>2, ScopesInductive, PTL DEF Spec

\* Whatever the watchers, the scopes and what user code does, except that it stops no
\* watcher from the cleanup called for its own rerun and no post effect before
\* hook:mounted: a watcher that was stopped, by stop(), by its scope or with its
\* component, never calls its callback or its effect again (apiWatch.ts:230, 274, 341).
THEOREM NeverAfterStopCorrect ==
  ASSUME StopsMidway = FALSE
  PROVE  Spec => NeverAfterStop
<1>1. ASSUME BaseInv, StoppedInv, Next, NEW w \in Watchers, Begins(w) PROVE w \in active
  <2>1. /\ stack # <<>> /\ IsRun(Top) /\ Top.kind \in {"get", "run", "cleanup"} /\ w = Top.w
        /\ Top.kind = "get" => ~(w \in owned /\ destroyed)
        /\ Top.kind = "run" => w \in active
    BY <1>1, BeginsInRun, WhatBegins
  <2>2. Top \in Frames
    BY <1>1, <2>1, TopFacts DEF BaseInv
  <2>3. CASE Top.kind = "get"
    BY <1>1, <2>1, <2>2, <2>3 DEF StoppedInv, GetsRightly
  <2>4. CASE Top.kind = "cleanup"
    BY <1>1, <2>1, <2>2, <2>4 DEF StoppedInv, IsRerun, IsRun
  <2> QED
    BY <2>1, <2>3, <2>4
<1>2. BaseInv /\ StoppedInv /\ [Next]_vars => [\A w \in Watchers : Begins(w) => w \in active]_vars
  BY <1>1
<1>3. Spec => [](BaseInv /\ StoppedInv)
  BY StoppedInductive, PTL
<1> QED
  BY <1>2, <1>3, PTL DEF Spec, NeverAfterStop

-----------------------------------------------------------------------------
(***************************************************************************)
(* What watchers have seen.                                                *)
(***************************************************************************)
HasStop(s) == \E f \in Frames : f.kind = "stop" /\ f.scope = s

\* Where the mount of the component has got to
PhaseInv ==
  /\ isMounted <=> ~(HasKind("setup") \/ HasKind("render") \/ HasKind("pre"))
  /\ HasKind("setup") => Made \subseteq owned
  /\ \A w \in Watchers : Waits(w) => w \in owned /\ w \in Effects
  /\ once # <<>> => HasKind("setup") \/ HasKind("render") \/ HasKind("pre") \/ HasKind("mounted")

\* All that is made is stopped with the component.
DeathInv ==
  /\ \A s \in AllScopes : scope[s].active => s \in Within[Own]
  /\ \A w \in Made : ScopeOf(w) \in Within[Own]
  /\ destroyed => ~scope[Own].active
  /\ HasKind("destroy") => ~scope[Own].active \/ HasStop(Own)

\* The run of w that is under way, if any
RunsOf(w) == { f \in Frames : IsRun(f) /\ f.w = w }

Lists(k, w) == \E f \in Frames : f.kind = k /\ w \in ToSet(f.todo)

\* w has been triggered in setup() and is to run before the component is mounted.
AwaitsMount(w) == ((HasKind("setup") \/ HasKind("render")) /\ w \in ToSet(buffer)) \/ Lists("pre", w)

\* w has been evaluated, and will be triggered.
Evaluated(w) == w \in ToSet(subs[SourceOf(w)]) /\ (w \in Effects => old[w] # Initial)

Seen(w) == old[w] = val[SourceOf(w)]

\* A run that has still to read the source, and one that has and will assign oldValue
WillRead(f) == f.kind \in {"get", "run"} \/ IsCleanup(f, "effect")
HasRead(f)  == f.kind = "callback" \/ IsCleanup(f, "callback")

\* Something will make w run, or run on, and it has not read its source yet.
Marked(w) ==
  \/ w \in queued \/ w \in ownTrigger \/ Waits(w) \/ AwaitsMount(w) \/ Lists("notify", w)
  \/ \E f \in RunsOf(w) : WillRead(f)

Knows(w) ==
  /\ Evaluated(w) \/ Waits(w) \/ \E f \in RunsOf(w) : f.kind \in {"get", "run"}
  /\ w \in cleanup => Evaluated(w)
  /\ \A f \in RunsOf(w) : f.kind \in {"effect", "callback"} => Evaluated(w)
  /\ \/ Marked(w)
     \/ \E f \in RunsOf(w) : HasRead(f) /\ f.new = val[SourceOf(w)]
     \/ Seen(w) /\ \A f \in RunsOf(w) : ~HasRead(f)
  /\ w \in early => AwaitsMount(w) \/ (HasKind("pre") /\ \E f \in RunsOf(w) : WillRead(f))

EarlyInv == early \subseteq Made /\ \A f \in Frames : f.kind = "get" /\ f.w \notin Effects => f.w \notin early
-----------------------------------------------------------------------------
(***************************************************************************)
(* The frames before and after a step.                                     *)
(***************************************************************************)
Adds(N) == Frames' = N \union Frames

Replaces(N) ==
  /\ stack # <<>> /\ Frames = {Top} \union ToSet(Callers) /\ Frames' = N \union ToSet(Callers)

LEMMA Shapes ==
  ASSUME StackInv, NEW f, NEW g
  PROVE  /\ UNCHANGED stack => Adds({})
         /\ stack' = <<f>> \o stack => Adds({f})
         /\ stack' = <<f, g>> \o stack => Adds({f, g})
         /\ stack # <<>> /\ stack' = Callers => Replaces({})
         /\ stack # <<>> /\ stack' = <<f>> \o Callers => Replaces({f})
         /\ stack # <<>> /\ stack' = <<f>> \o (<<g>> \o Callers) => Replaces({f, g})
<1>1. UNCHANGED stack => Adds({})
  BY DEF Adds, Frames
<1>2. ASSUME stack' = <<f>> \o stack PROVE Adds({f})
  BY <1>2, PushFrames DEF Adds
<1>3. ASSUME stack' = <<f, g>> \o stack PROVE Adds({f, g})
  BY <1>3, PushTwoFrames DEF Adds
<1>4. ASSUME stack # <<>>, stack' = Callers PROVE Replaces({})
  <2>1. Frames = {Top} \union ToSet(Callers)
    BY <1>4, Peeled
  <2> QED
    BY <1>4, <2>1 DEF Replaces, Frames
<1>5. ASSUME stack # <<>>, stack' = <<f>> \o Callers PROVE Replaces({f})
  BY <1>5, SwapFrames DEF Replaces
<1>6. ASSUME stack # <<>>, stack' = <<f>> \o (<<g>> \o Callers) PROVE Replaces({f, g})
  <2>1. PICK c : c = Callers
    OBVIOUS
  <2>2. Frames = {Top} \union ToSet(c) /\ Frames' = {f, g} \union ToSet(c)
    BY <1>6, <2>1, SwapPushFrames, ZenonT(60)
  <2> QED
    BY <1>6, <2>1, <2>2 DEF Replaces
<1> QED
  BY <1>1, <1>2, <1>3, <1>4, <1>5, <1>6

\* There is one frame at the bottom that says where the component has got to.
LEMMA BottomMeans ==
  ASSUME StackInv, NEW k \in Bottoms
  PROVE  Bottom = k <=> HasKind(k)
<1>1. IsASeq(stack)
  BY DEF StackInv, InOrder
<1>2. CASE stack = <<>>
  <2>1. Frames = {}
    BY <1>2, SetFacts, EmptyIsASeq DEF Frames
  <2>2. Bottom = "job"
    BY <1>2 DEF Bottom
  <2> QED
    BY <2>1, <2>2 DEF HasKind, Bottoms
<1>3. CASE stack # <<>>
  <2>1. PICK n, l : n = Len(stack) /\ l = stack[n]
    OBVIOUS
  <2>2. n \in Nat \ {0} /\ l \in Frames /\ Last(stack) = l
    BY <1>1, <1>3, <2>1, SetFacts DEF Frames, Last
  <2>3. ASSUME NEW f \in Frames, f.kind \in Bottoms PROVE f = l
    <3>1. PICK i \in 1 .. n : stack[i] = f
      BY <1>1, <2>1, <2>3, SetFacts DEF Frames
    <3>2. CASE i = n
      BY <2>1, <3>1, <3>2
    <3>3. CASE i # n
      <4>1. i < n /\ i \in 1 .. Len(stack) /\ n \in 1 .. Len(stack)
        BY <2>1, <2>2, <3>1, <3>3
      <4>2. Precedes(stack, f, l)
        BY <1>1, <2>1, <3>1, <4>1, SetFacts DEF Precedes
      <4> QED
        BY <2>2, <2>3, <4>2 DEF StackInv, InOrder, Frames
    <3> QED
      BY <3>2, <3>3
  <2>4. Bottom = IF l.kind \in Bottoms THEN l.kind ELSE "job"
    BY <1>3, <2>2 DEF Bottom, Bottoms
  <2> QED
    BY <2>2, <2>3, <2>4 DEF HasKind, Bottoms
<1> QED
  BY <1>2, <1>3

-----------------------------------------------------------------------------
(***************************************************************************)
(* What steps keep.                                                        *)
(***************************************************************************)
Phases == {"setup", "render", "pre", "mounted"}

\* The frame on top stays, or may go without a change of phase.
KeepsPhase(N) == Adds(N) \/ (Replaces(N) /\ Top.kind \notin Phases)

LEMMA PhaseStays ==
  ASSUME PhaseInv, NEW N, KeepsPhase(N), \A f \in N : f.kind \notin Phases,
         UNCHANGED isMounted, owned \subseteq owned', HasKind("setup") => Made' \subseteq owned',
         \A w \in Watchers : Waits(w)' => Waits(w), once' = once \/ once' = <<>>
  PROVE  PhaseInv'
<1>1. \A k \in Phases : HasKind(k)' <=> HasKind(k)
  BY DEF KeepsPhase, Adds, Replaces, HasKind
<1>2. /\ HasKind("setup")' <=> HasKind("setup")
      /\ HasKind("render")' <=> HasKind("render")
      /\ HasKind("pre")' <=> HasKind("pre")
      /\ HasKind("mounted")' <=> HasKind("mounted")
  BY <1>1 DEF Phases
<1>3. (isMounted <=> ~(HasKind("setup") \/ HasKind("render") \/ HasKind("pre")))'
  BY <1>2 DEF PhaseInv
<1>4. (HasKind("setup") => Made \subseteq owned)'
  BY <1>2
<1>5. (\A w \in Watchers : Waits(w) => w \in owned /\ w \in Effects)'
  BY DEF PhaseInv
<1>6. (once # <<>> => HasKind("setup") \/ HasKind("render") \/ HasKind("pre") \/ HasKind("mounted"))'
  BY <1>2 DEF PhaseInv
<1> QED
  BY <1>3, <1>4, <1>5, <1>6 DEF PhaseInv

\* What waits has waited before.
LEMMA WaitsStay ==
  ASSUME NEW N, Adds(N) \/ Replaces(N), \A f \in N : f.kind = "once" => \A w \in ToSet(f.todo) : Waits(w),
         ToSet(once') \subseteq ToSet(once)
  PROVE  \A w : Waits(w)' => Waits(w)
<1>1. \A f \in Frames' : f \in N \/ f \in Frames
  BY DEF Adds, Replaces
<1> QED
  BY <1>1 DEF Waits

\* A stop of the component's scope is under way in N.
StopsOwn(N) == \E f \in N : f.kind = "stop" /\ f.scope = Own

LEMMA DeathStays ==
  ASSUME DeathInv, NEW N,
         Adds(N) \/ (Replaces(N) /\ (Top.kind = "stop" /\ Top.scope = Own =>
                                       ~scope'[Own].active \/ StopsOwn(N))),
         (\E f \in N : f.kind = "destroy") => StopsOwn(N),
         \A s \in AllScopes : scope'[s].active => scope[s].active \/ s \in Within[Own],
         scope'[Own].active => scope[Own].active,
         \A w \in Made' : w \in Made \/ ScopeOf(w) \in Within[Own],
         destroyed' => destroyed \/ ~scope'[Own].active
  PROVE  DeathInv'
<1>1. \A f \in Frames' : f \in N \/ f \in Frames
  BY DEF Adds, Replaces
<1>2. N \subseteq Frames'
  BY DEF Adds, Replaces
<1>3. StopsOwn(N) => HasStop(Own)'
  BY <1>2 DEF StopsOwn, HasStop
<1>4. HasStop(Own) => HasStop(Own)' \/ ~scope'[Own].active
  <2>1. CASE Adds(N)
    BY <2>1 DEF Adds, HasStop
  <2>2. CASE Replaces(N) /\ (Top.kind = "stop" /\ Top.scope = Own => ~scope'[Own].active \/ StopsOwn(N))
    <3>1. \A f \in Frames : f = Top \/ f \in Frames'
      BY <2>2 DEF Replaces
    <3>2. \A f \in Frames : f.kind = "stop" /\ f.scope = Own => HasStop(Own)' \/ ~scope'[Own].active
      BY <1>3, <2>2, <3>1 DEF HasStop
    <3> QED
      BY <3>2 DEF HasStop
  <2> QED
    BY <2>1, <2>2
<1>5. HasKind("destroy")' => HasKind("destroy") \/ HasStop(Own)'
  BY <1>1, <1>3 DEF HasKind
<1>6. (HasKind("destroy") => ~scope[Own].active \/ HasStop(Own))'
  BY <1>4, <1>5 DEF DeathInv
<1>7. (destroyed => ~scope[Own].active)'
  BY DEF DeathInv
<1> QED
  BY <1>6, <1>7 DEF DeathInv

LEMMA EarlyStays ==
  ASSUME EarlyInv, NEW N, Adds(N) \/ Replaces(N), early' \subseteq early, Made \subseteq Made',
         \A f \in N : f.kind = "get" => f.w \in Effects \/ f.w \notin early
  PROVE  EarlyInv'
<1>1. \A f \in Frames' : f \in N \/ f \in Frames
  BY DEF Adds, Replaces
<1> QED
  BY <1>1 DEF EarlyInv

\* The frames, and the variables, have for w in them what they had before.
FramesKeep(w) ==
  /\ RunsOf(w)' = RunsOf(w)
  /\ AwaitsMount(w) => AwaitsMount(w)'
  /\ HasKind("pre") => HasKind("pre")' \/ RunsOf(w) = {}
  /\ Waits(w) => Waits(w)'
  /\ Lists("notify", w) => Lists("notify", w)'

DataKeeps(w) ==
  /\ old'[w] = old[w] /\ val'[SourceOf(w)] = val[SourceOf(w)]
  /\ w \in ToSet(subs[SourceOf(w)]) => w \in ToSet(subs'[SourceOf(w)])
  /\ w \in queued => w \in queued'
  /\ w \in ownTrigger => w \in ownTrigger'
  /\ w \in cleanup' => w \in cleanup \/ Evaluated(w)
  /\ w \in early' => w \in early

LEMMA KnowsStays ==
  ASSUME NEW w, Knows(w), FramesKeep(w), DataKeeps(w)
  PROVE  Knows(w)'
<1>1. Evaluated(w) => Evaluated(w)'
  BY DEF Evaluated, DataKeeps
<1>2. Seen(w) => Seen(w)'
  BY DEF Seen, DataKeeps
<1>3. Marked(w) => Marked(w)'
  BY DEF Marked, FramesKeep, DataKeeps
<1>4. RunsOf(w)' = RunsOf(w) /\ val'[SourceOf(w)] = val[SourceOf(w)]
  BY DEF FramesKeep, DataKeeps
<1>5. (Evaluated(w) \/ Waits(w) \/ \E f \in RunsOf(w) : f.kind \in {"get", "run"})'
  BY <1>1, <1>4 DEF Knows, FramesKeep
<1>6. (w \in cleanup => Evaluated(w))'
  BY <1>1 DEF Knows, DataKeeps
<1>7. (\A f \in RunsOf(w) : f.kind \in {"effect", "callback"} => Evaluated(w))'
  BY <1>1, <1>4 DEF Knows
<1>8. (\/ Marked(w)
       \/ \E f \in RunsOf(w) : HasRead(f) /\ f.new = val[SourceOf(w)]
       \/ Seen(w) /\ \A f \in RunsOf(w) : ~HasRead(f))'
  BY <1>2, <1>3, <1>4 DEF Knows
<1>9. (w \in early => AwaitsMount(w) \/ (HasKind("pre") /\ \E f \in RunsOf(w) : WillRead(f)))'
  <2>1. w \in early' => AwaitsMount(w) \/ (HasKind("pre") /\ \E f \in RunsOf(w) : WillRead(f))
    BY DEF Knows, DataKeeps
  <2>2. HasKind("pre") /\ (\E f \in RunsOf(w) : WillRead(f)) => HasKind("pre")'
    BY DEF FramesKeep
  <2> QED
    BY <1>4, <2>1, <2>2 DEF FramesKeep
<1> QED
  BY <1>5, <1>6, <1>7, <1>8, <1>9 DEF Knows

LEMMA RunningFrames ==
  ASSUME NEW w, NEW N, Adds(N) \/ Replaces(N)
  PROVE  /\ \A f \in RunsOf(w)' : f \in N \/ f \in RunsOf(w)
         /\ \A f \in N : IsRun(f) /\ f.w = w => f \in RunsOf(w)'
         /\ \A f \in RunsOf(w) : f \in RunsOf(w)' \/ (Replaces(N) /\ f = Top)
BY DEF Adds, Replaces, RunsOf

\* f may go from the top of the stack, for what w needs of it.
Passes(f, w) ==
  /\ IsRun(f) => f.w # w
  /\ f.kind \in {"notify", "once"} => w \notin ToSet(f.todo)
  /\ f.kind \notin {"setup", "render", "pre"}

LEMMA FramesStay ==
  ASSUME NEW w, NEW N, Adds(N) \/ (Replaces(N) /\ Passes(Top, w)),
         \A f \in N : IsRun(f) => f.w # w,
         w \in ToSet(buffer) => w \in ToSet(buffer'), w \in ToSet(once) => w \in ToSet(once')
  PROVE  FramesKeep(w)
<1>1. \A f \in Frames : f \in Frames' \/ (f = Top /\ Passes(f, w))
  BY DEF Adds, Replaces
<1>2. RunsOf(w)' = RunsOf(w)
  <2>1. \A f : f \in RunsOf(w)' => f \in RunsOf(w)
    BY RunningFrames DEF RunsOf
  <2>2. \A f : f \in RunsOf(w) => f \in RunsOf(w)'
    BY <1>1 DEF RunsOf, Passes
  <2> QED
    BY <2>1, <2>2 DEF RunsOf
<1>3. \A k \in {"setup", "render", "pre"} : HasKind(k) => HasKind(k)'
  BY <1>1 DEF HasKind, Passes
<1>4. Lists("pre", w) => Lists("pre", w)'
  BY <1>1 DEF Lists, Passes
<1>5. Lists("notify", w) => Lists("notify", w)'
  BY <1>1 DEF Lists, Passes
<1>6. Waits(w) => Waits(w)'
  BY <1>1 DEF Waits, Passes
<1>7. AwaitsMount(w) => AwaitsMount(w)'
  BY <1>3, <1>4 DEF AwaitsMount
<1> QED
  BY <1>2, <1>3, <1>5, <1>6, <1>7 DEF FramesKeep

\* ... as above, notifications aside.
PlaceKeeps(w) ==
  /\ RunsOf(w)' = RunsOf(w)
  /\ AwaitsMount(w) => AwaitsMount(w)'
  /\ HasKind("pre") => HasKind("pre")'
  /\ Waits(w) => Waits(w)'

\* w is about to be run.
LEMMA KnowsMarked ==
  ASSUME NEW w, Knows(w), PlaceKeeps(w), UNCHANGED <<subs, old, cleanup>>,
         w \in early' => w \in early \/ AwaitsMount(w)', Marked(w)'
  PROVE  Knows(w)'
<1>1. Evaluated(w)' <=> Evaluated(w)
  BY DEF Evaluated
<1>2. RunsOf(w)' = RunsOf(w) /\ (Waits(w) => Waits(w)')
  BY DEF PlaceKeeps
<1>3. (Evaluated(w) \/ Waits(w) \/ \E f \in RunsOf(w) : f.kind \in {"get", "run"})'
  BY <1>1, <1>2 DEF Knows
<1>4. (w \in cleanup => Evaluated(w))'
  BY <1>1 DEF Knows
<1>5. (\A f \in RunsOf(w) : f.kind \in {"effect", "callback"} => Evaluated(w))'
  BY <1>1, <1>2 DEF Knows
<1>6. (w \in early => AwaitsMount(w) \/ (HasKind("pre") /\ \E f \in RunsOf(w) : WillRead(f)))'
  BY <1>2 DEF Knows, PlaceKeeps
<1> QED
  BY <1>3, <1>4, <1>5, <1>6 DEF Knows

\* A run of w goes on, or ends: N has what comes of it.
GoesOn(w, N) ==
  /\ RunsOf(w) = {Top} /\ RunsOf(w)' = N
  /\ AwaitsMount(w) => AwaitsMount(w)'
  /\ HasKind("pre") => HasKind("pre")'
  /\ Waits(w) => Waits(w)'
  /\ Lists("notify", w) => Lists("notify", w)'

LEMMA OwnRun ==
  ASSUME StackInv, AloneInv, stack # <<>>, IsRun(Top), NEW w, w = Top.w, NEW N, Replaces(N),
         \A f \in N : IsRun(f) /\ f.w = w, UNCHANGED <<buffer, once>>
  PROVE  GoesOn(w, N)
<1>1. \A g \in ToSet(Callers) : IsRun(g) => g.w # w
  BY AloneTop
<1>2. Frames = {Top} \union ToSet(Callers) /\ Frames' = N \union ToSet(Callers)
  BY DEF Replaces
<1>3. RunsOf(w) = {Top}
  BY <1>1, <1>2 DEF RunsOf
<1>4. RunsOf(w)' = N
  <2>1. \A f : f \in RunsOf(w)' <=> f \in Frames' /\ IsRun(f) /\ f.w = w
    BY DEF RunsOf
  <2>2. \A f : f \in RunsOf(w)' <=> f \in N
    BY <1>1, <1>2, <2>1
  <2> QED
    BY <2>2
<1>5. \A f \in Frames : f \in Frames' \/ f = Top
  BY <1>2
<1>6. Top.kind \notin {"setup", "render", "pre", "once", "notify"}
  BY DEF IsRun
<1>7. \A k \in {"setup", "render", "pre"} : HasKind(k) => HasKind(k)'
  BY <1>5, <1>6 DEF HasKind
<1>8. \A k \in {"pre", "notify"} : Lists(k, w) => Lists(k, w)'
  BY <1>5, <1>6 DEF Lists
<1>9. Waits(w) => Waits(w)'
  BY <1>5, <1>6 DEF Waits
<1>10. AwaitsMount(w) => AwaitsMount(w)'
  BY <1>7, <1>8 DEF AwaitsMount
<1> QED
  BY <1>3, <1>4, <1>7, <1>8, <1>9, <1>10 DEF GoesOn

\* The source is still to be read.
LEMMA ReadsLater ==
  ASSUME NEW w, Knows(w), NEW f, GoesOn(w, {f}), WillRead(f), WillRead(Top),
         f.kind \in {"get", "run"} \/ w \in cleanup, UNCHANGED <<subs, old, cleanup, early>>
  PROVE  Knows(w)'
<1>1. Evaluated(w)' <=> Evaluated(w)
  BY DEF Evaluated
<1>2. RunsOf(w)' = {f} /\ f.kind \notin {"effect", "callback"}
  BY DEF GoesOn, WillRead, IsCleanup
<1>3. (Evaluated(w) \/ Waits(w) \/ \E g \in RunsOf(w) : g.kind \in {"get", "run"})'
  BY <1>1, <1>2 DEF Knows
<1>4. (w \in cleanup => Evaluated(w))'
  BY <1>1 DEF Knows
<1>5. (\A g \in RunsOf(w) : g.kind \in {"effect", "callback"} => Evaluated(w))'
  BY <1>2
<1>6. Marked(w)'
  BY <1>2 DEF Marked
<1>7. (w \in early => AwaitsMount(w) \/ (HasKind("pre") /\ \E g \in RunsOf(w) : WillRead(g)))'
  BY <1>2 DEF Knows, GoesOn
<1> QED
  BY <1>3, <1>4, <1>5, <1>6, <1>7 DEF Knows

\* It is being read, and oldValue is assigned at once, or when the callback returns.
LEMMA ReadsNow ==
  ASSUME NEW w, NEW N, GoesOn(w, N), Evaluated(w)', w \notin early',
         \/ Seen(w)' /\ \A f \in N : ~HasRead(f)
         \/ \E f \in N : HasRead(f) /\ f.new = val'[SourceOf(w)]
  PROVE  Knows(w)'
BY DEF Knows, GoesOn

\* It has been read.
LEMMA HasBeenRead ==
  ASSUME NEW w, Knows(w), NEW N, GoesOn(w, N), Evaluated(w), Evaluated(w)', ~WillRead(Top),
         UNCHANGED <<val, cleanup, queued, ownTrigger, early>>,
         \/ HasRead(Top) /\ \E f \in N : HasRead(f) /\ f.new = Top.new
         \/ HasRead(Top) /\ N = {} /\ old'[w] = Top.new
         \/ ~HasRead(Top) /\ N = {} /\ UNCHANGED old
  PROVE  Knows(w)'
<1>1. RunsOf(w) = {Top} /\ RunsOf(w)' = N
  BY DEF GoesOn
<1>2. Marked(w) => Marked(w)'
  BY <1>1 DEF Marked, GoesOn
<1>3. (\/ Marked(w)
       \/ \E f \in RunsOf(w) : HasRead(f) /\ f.new = val[SourceOf(w)]
       \/ Seen(w) /\ \A f \in RunsOf(w) : ~HasRead(f))'
  <2>1. \/ Marked(w)
        \/ HasRead(Top) /\ Top.new = val[SourceOf(w)]
        \/ Seen(w) /\ ~HasRead(Top)
    BY <1>1 DEF Knows
  <2> QED
    BY <1>1, <1>2, <2>1 DEF Seen
<1>4. w \in early' => AwaitsMount(w)'
  BY <1>1 DEF Knows, GoesOn
<1> QED
  BY <1>3, <1>4 DEF Knows

\* A run of w begins.
LEMMA KnowsRun ==
  ASSUME NEW w, NEW f, RunsOf(w)' = {f}, f.kind \in {"get", "run"}, w \in cleanup' => Evaluated(w)',
         w \in early' => AwaitsMount(w)' \/ HasKind("pre")'
  PROVE  Knows(w)'
<1>1. WillRead(f) /\ f.kind \notin {"effect", "callback"}
  BY DEF WillRead
<1>2. Marked(w)'
  BY <1>1 DEF Marked
<1> QED
  BY <1>1, <1>2 DEF Knows

\* The list of the frame on top loses its head, which is not x.
LEMMA ListStays ==
  ASSUME NEW x, NEW N, Replaces(N), NEW g \in N, Shortened(g), x \in ToSet(Top.todo) => x \in ToSet(g.todo),
         \A f \in N : IsRun(f) => f.w # x,
         x \in ToSet(buffer) => x \in ToSet(buffer'), UNCHANGED once
  PROVE  FramesKeep(x)
<1>1. \A f \in Frames : f \in Frames' \/ f = Top
  BY DEF Replaces
<1>2. g \in Frames' /\ g.kind = Top.kind /\ ~IsRun(Top) /\ Top.kind \notin {"setup", "render"}
  BY DEF Replaces, Shortened, IsRun
<1>3. RunsOf(x)' = RunsOf(x)
  <2>1. \A f : f \in RunsOf(x)' => f \in RunsOf(x)
    BY DEF RunsOf, Replaces
  <2>2. \A f : f \in RunsOf(x) => f \in RunsOf(x)'
    BY <1>1, <1>2 DEF RunsOf
  <2> QED
    BY <2>1, <2>2 DEF RunsOf
<1>4. \A k : HasKind(k) => HasKind(k)'
  BY <1>1, <1>2 DEF HasKind
<1>5. \A k : Lists(k, x) => Lists(k, x)'
  BY <1>1, <1>2 DEF Lists
<1>6. Waits(x) => Waits(x)'
  BY <1>1, <1>2 DEF Waits
<1>7. AwaitsMount(x) => AwaitsMount(x)'
  BY <1>4, <1>5 DEF AwaitsMount
<1> QED
  BY <1>3, <1>4, <1>5, <1>6, <1>7 DEF FramesKeep

\* ... which is w.
LEMMA HeadLeaves ==
  ASSUME NEW w, NEW g, Replaces({g}), Shortened(g), Top.kind = "notify",
         w \in ToSet(buffer) => w \in ToSet(buffer'), UNCHANGED once
  PROVE  PlaceKeeps(w)
<1>1. \A f \in Frames : f \in Frames' \/ f = Top
  BY DEF Replaces
<1>2. ~IsRun(Top) /\ ~IsRun(g)
  BY DEF Shortened, IsRun
<1>3. RunsOf(w)' = RunsOf(w)
  <2>1. \A f : f \in RunsOf(w)' => f \in RunsOf(w)
    BY <1>2 DEF RunsOf, Replaces
  <2>2. \A f : f \in RunsOf(w) => f \in RunsOf(w)'
    BY <1>1, <1>2 DEF RunsOf
  <2> QED
    BY <2>1, <2>2 DEF RunsOf
<1>4. \A k \in {"setup", "render", "pre"} : HasKind(k) => HasKind(k)'
  BY <1>1 DEF HasKind
<1>5. Lists("pre", w) => Lists("pre", w)'
  BY <1>1 DEF Lists
<1>6. Waits(w) => Waits(w)'
  BY <1>1 DEF Waits
<1>7. AwaitsMount(w) => AwaitsMount(w)'
  BY <1>4, <1>5 DEF AwaitsMount
<1> QED
  BY <1>3, <1>4, <1>6, <1>7 DEF PlaceKeeps

-----------------------------------------------------------------------------
(***************************************************************************)
(* The mount and the end of the component.                                 *)
(***************************************************************************)
\* N comes onto the stack, for Top or on it, and nothing of the component changes.
Aloof(N) ==
  /\ \/ Adds(N)
     \/ /\ Replaces(N) /\ Top.kind \notin Phases
        /\ Top.kind = "stop" /\ Top.scope = Own => StopsOwn(N)
  /\ \A f \in N : f.kind \notin Phases /\ (f.kind = "once" => \A w \in ToSet(f.todo) : Waits(w))
  /\ (\E f \in N : f.kind = "destroy") => StopsOwn(N)
  /\ UNCHANGED <<isMounted, destroyed, owned, created, scope, once>>

LEMMA AloofKeeps ==
  ASSUME PhaseInv, DeathInv, NEW N, Aloof(N)
  PROVE  PhaseInv' /\ DeathInv'
<1>1. Made' = Made
  BY DEF Aloof, Made
<1>2. \A w : Waits(w)' => Waits(w)
  BY WaitsStay DEF Aloof
<1>3. PhaseInv'
  <2>1. KeepsPhase(N) /\ \A f \in N : f.kind \notin Phases
    BY DEF Aloof, KeepsPhase
  <2> QED
    BY <1>1, <1>2, <2>1, PhaseStays DEF Aloof, PhaseInv
<1>4. DeathInv'
  <2>1. \/ Adds(N)
        \/ Replaces(N) /\ (Top.kind = "stop" /\ Top.scope = Own => ~scope'[Own].active \/ StopsOwn(N))
    BY DEF Aloof
  <2>2. /\ (\E f \in N : f.kind = "destroy") => StopsOwn(N)
        /\ scope' = scope /\ destroyed' = destroyed
    BY DEF Aloof
  <2> QED
    BY <1>1, <2>1, <2>2, DeathStays
<1> QED
  BY <1>3, <1>4

\* A frame that says nothing of the component
Plain(f) == f.kind \notin Phases \union {"once", "destroy"}

AloofStep ==
  /\ UNCHANGED <<isMounted, destroyed, owned, created, scope, once>>
  /\ \/ UNCHANGED stack
     \/ \E f : Plain(f) /\ stack' = <<f>> \o stack
     \/ /\ stack # <<>> /\ Top.kind \notin Phases \union {"stop"}
        /\ \/ stack' = Callers
           \/ \E f : Plain(f) /\ stack' = <<f>> \o Callers
           \/ \E f, g : Plain(f) /\ Plain(g) /\ stack' = <<f>> \o (<<g>> \o Callers)

LEMMA AloofStepKeeps ==
  ASSUME StackInv, PhaseInv, DeathInv, AloofStep
  PROVE  PhaseInv' /\ DeathInv'
<1>1. ASSUME NEW N, \A f \in N : Plain(f), Adds(N) \/ (Replaces(N) /\ Top.kind \notin Phases \union {"stop"})
      PROVE  PhaseInv' /\ DeathInv'
  <2>1. Aloof(N)
    BY <1>1 DEF Aloof, AloofStep, Plain
  <2> QED
    BY <2>1, AloofKeeps
<1>2. CASE UNCHANGED stack
  <2>1. Adds({})
    BY <1>2, Shapes
  <2> QED
    BY <1>1, <2>1
<1>3. ASSUME NEW f, Plain(f), stack' = <<f>> \o stack PROVE PhaseInv' /\ DeathInv'
  <2>1. Adds({f})
    BY <1>3, Shapes
  <2> QED
    BY <1>1, <1>3, <2>1
<1>4. CASE stack # <<>> /\ Top.kind \notin Phases \union {"stop"} /\ stack' = Callers
  <2>1. Replaces({})
    BY <1>4, Shapes
  <2> QED
    BY <1>1, <1>4, <2>1
<1>5. ASSUME stack # <<>>, Top.kind \notin Phases \union {"stop"}, NEW f, Plain(f), stack' = <<f>> \o Callers
      PROVE  PhaseInv' /\ DeathInv'
  <2>1. Replaces({f})
    BY <1>5, Shapes
  <2> QED
    BY <1>1, <1>5, <2>1
<1>6. ASSUME stack # <<>>, Top.kind \notin Phases \union {"stop"}, NEW f, NEW g, Plain(f), Plain(g),
             stack' = <<f>> \o (<<g>> \o Callers)
      PROVE  PhaseInv' /\ DeathInv'
  <2>1. Replaces({f, g})
    BY <1>6, Shapes
  <2> QED
    BY <1>1, <1>6, <2>1
<1> QED
  BY <1>2, <1>3, <1>4, <1>5, <1>6 DEF AloofStep

LEMMA PlainFrames ==
  /\ \A w, n, o : Plain(Callback(w, n, o))
  /\ \A w, t, n : Plain(Cleaning(w, t, n))
  /\ \A k, w : k \in {"get", "run", "effect", "dispose"} => Plain(Call(k, w))
  /\ \A ws : Plain(ListFrame("notify", ws))
  /\ \A s, ws, up : Plain(StopFrame(s, ws, up))
  /\ Plain(Frame("hook"))
BY DEF Plain, Phases, Callback, Cleaning, Call, ListFrame, StopFrame, Frame

LEMMA RunningIsAloof ==
  ASSUME GetEffect \/ GetSource \/ RunStopped \/ RunEffect \/ RunWithCallback \/ EndCleanup
           \/ EndEffect \/ EndCallback
  PROVE  AloofStep
<1>1. UNCHANGED <<isMounted, destroyed, owned, created, scope, once>>
  BY DEF GetEffect, GetSource, RunStopped, RunEffect, RunWithCallback, EndCleanup, EndEffect, EndCallback, state
<1>2. stack # <<>> /\ Top.kind \in {"get", "run", "cleanup", "effect", "callback"}
  BY DEF GetEffect, GetSource, RunStopped, RunEffect, RunWithCallback, EndCleanup, EndEffect, EndCallback, On
<1>3. PICK w, n, m, o : w = Top.w /\ n = val[SourceOf(w)] /\ m = Top.new /\ o = old[w]
  OBVIOUS
<1>4. \/ stack' = Callers
      \/ stack' = <<Call("effect", w)>> \o Callers
      \/ stack' = <<Cleaning(w, "effect", Initial)>> \o Callers
      \/ stack' = <<Cleaning(w, "callback", n)>> \o Callers
      \/ stack' = <<Call("get", w)>> \o Callers
      \/ stack' = <<Callback(w, n, o)>> \o Callers
      \/ stack' = <<Callback(w, m, o)>> \o Callers
  BY <1>3 DEF GetEffect, GetSource, RunStopped, RunEffect, RunWithCallback, EndCleanup, EndEffect, EndCallback,
              BeginEffect, BeginCleanup, BeginCallback
<1>5. stack' = Callers \/ \E f : Plain(f) /\ stack' = <<f>> \o Callers
  BY <1>4, PlainFrames
<1> QED
  BY <1>1, <1>2, <1>5 DEF AloofStep, Phases

LEMMA OthersAreAloof ==
  ASSUME BaseInv,
         NotifyNext \/ EndNotify \/ EndMounted \/ BeginHook \/ EndHook \/ EndDispose \/ OnCleanup
           \/ (\E w \in Watchers : RunQueued(w) \/ Stop(w)) \/ (\E s \in Scopes : StopScope(s))
           \/ (\E r \in Refs, v \in Values : Write(r, v))
  PROVE  AloofStep
<1>1. UNCHANGED <<isMounted, destroyed, owned, created, scope, once>>
  BY DEF NotifyNext, EndNotify, EndMounted, BeginHook, EndHook, EndDispose, OnCleanup, RunQueued, Stop,
         StopScope, Write, Teardown, state
<1>2. CASE NotifyNext
  <2>1. PICK w, t : w = Head(Top.todo) /\ t = Tail(Top.todo)
    OBVIOUS
  <2>2. PICK f, g, c : f = Call("run", w) /\ g = ListFrame("notify", t) /\ c = Callers
    OBVIOUS
  <2>3. stack' = <<f>> \o (<<g>> \o Callers) \/ stack' = <<g>> \o Callers
    BY <1>2, <2>1, <2>2 DEF NotifyNext
  <2>4. Plain(f) /\ Plain(g)
    BY <2>2, PlainFrames
  <2> QED
    BY <1>1, <1>2, <2>3, <2>4 DEF NotifyNext, On, AloofStep, Phases
<1>3. CASE EndNotify \/ EndMounted \/ EndHook \/ EndDispose
  BY <1>1, <1>3 DEF EndNotify, EndMounted, EndHook, EndDispose, On, AloofStep, Phases
<1>4. CASE BeginHook
  BY <1>1, <1>4, PlainFrames DEF BeginHook, AloofStep
<1>5. CASE OnCleanup
  BY <1>1, <1>5 DEF OnCleanup, AloofStep
<1>6. ASSUME NEW w \in Watchers, RunQueued(w) PROVE AloofStep
  <2>1. Plain(Call("run", w)) /\ stack' = <<Call("run", w)>> \o stack
    BY <1>6, PlainFrames DEF RunQueued
  <2> QED
    BY <1>1, <2>1 DEF AloofStep
<1>7. ASSUME NEW w \in Watchers, Stop(w) PROVE AloofStep
  <2>1. UNCHANGED stack \/ stack' = <<Cleaning(w, "stop", Initial)>> \o stack
    BY <1>7, TornDownTame DEF Stop
  <2> QED
    BY <1>1, <2>1, PlainFrames DEF AloofStep
<1>8. ASSUME NEW s \in Scopes, StopScope(s) PROVE AloofStep
  <2>1. PICK d : d = StopFrame(s, EffectsOf(s), FALSE)
    OBVIOUS
  <2>2. Plain(d) /\ stack' = <<d>> \o stack
    BY <1>8, <2>1, PlainFrames DEF StopScope
  <2> QED
    BY <1>1, <2>2 DEF AloofStep
<1>9. ASSUME NEW r \in Refs, NEW v \in Values, Write(r, v) PROVE AloofStep
  <2>1. PICK d : d = ListFrame("notify", subs[r])
    OBVIOUS
  <2>2. Plain(d) /\ stack' = <<d>> \o stack
    BY <1>9, <2>1, PlainFrames DEF Write
  <2> QED
    BY <1>1, <2>2 DEF AloofStep
<1> QED
  BY <1>2, <1>3, <1>4, <1>5, <1>6, <1>7, <1>8, <1>9

\* A step of a stop, of any scope
LEMMA StopsAreAloof ==
  ASSUME BaseInv, StopEffect \/ BeginDispose \/ BeginScopes \/ StopScopes
  PROVE  \E N : Aloof(N)
<1>1. PICK f, c : f = Top /\ c = Callers
  OBVIOUS
<1>2. On("stop") /\ UNCHANGED <<isMounted, destroyed, owned, created, scope, once>>
  BY DEF StopEffect, BeginDispose, BeginScopes, StopScopes, Teardown, state
<1>3. /\ stack # <<>> /\ f \in StopFrames /\ f.kind = "stop" /\ IsASeq(c)
  BY <1>1, <1>2, StopTop, Peeled DEF BaseInv
<1>4. ASSUME NEW g, g.kind = "stop", g.scope = f.scope,
             stack' = <<g>> \o Callers \/ \E d : Plain(d) /\ stack' = <<d>> \o (<<g>> \o Callers)
      PROVE  \E N : Aloof(N)
  <2>1. \E N : Replaces(N) /\ g \in N /\ \A d \in N : d = g \/ Plain(d)
    <3>1. CASE stack' = <<g>> \o Callers
      <4>1. Replaces({g})
        BY <1>3, <3>1, Shapes DEF BaseInv
      <4> QED
        BY <4>1
    <3>2. ASSUME NEW d, Plain(d), stack' = <<d>> \o (<<g>> \o Callers)
          PROVE  \E N : Replaces(N) /\ g \in N /\ \A x \in N : x = g \/ Plain(x)
      <4>1. Replaces({d, g})
        BY <1>3, <3>2, Shapes DEF BaseInv
      <4> QED
        BY <3>2, <4>1
    <3> QED
      BY <1>4, <3>1, <3>2
  <2>2. PICK N : Replaces(N) /\ g \in N /\ \A d \in N : d = g \/ Plain(d)
    BY <2>1
  <2>3. \A d \in N : Plain(d)
    BY <1>4, <2>2 DEF Plain, Phases
  <2>4. f.scope = Own => StopsOwn(N)
    BY <1>4, <2>2 DEF StopsOwn
  <2>5. Top.kind \notin Phases /\ (Top.kind = "stop" /\ Top.scope = Own => StopsOwn(N))
    BY <1>1, <1>3, <2>4 DEF Phases
  <2>6. \A d \in N : d.kind \notin Phases /\ d.kind # "once" /\ d.kind # "destroy"
    BY <2>3 DEF Plain
  <2>7. Aloof(N)
    BY <1>2, <2>2, <2>5, <2>6 DEF Aloof
  <2> QED
    BY <2>7
<1>5. CASE StopEffect
  <2>1. PICK w, g : w = Head(Top.todo) /\ g = [f EXCEPT !.todo = Tail(@)]
    OBVIOUS
  <2>2. Teardown(w, <<g>> \o Callers) \/ stack' = <<g>> \o Callers
    BY <1>1, <1>5, <2>1 DEF StopEffect
  <2>3. g.kind = "stop" /\ g.scope = f.scope
    BY <1>3, <2>1 DEF StopFrames
  <2>4. stack' = <<g>> \o Callers \/ stack' = <<Cleaning(w, "stop", Initial)>> \o (<<g>> \o Callers)
    BY <2>2, TornDownTame
  <2> QED
    BY <1>4, <2>3, <2>4, PlainFrames
<1>6. CASE BeginDispose
  <2>1. PICK d, g : d = Call("dispose", f.scope) /\ g = [f EXCEPT !.phase = "dispose"]
    OBVIOUS
  <2>2. stack' = <<d, g>> \o c
    BY <1>1, <1>6, <2>1 DEF BeginDispose
  <2>3. stack' = <<d>> \o (<<g>> \o Callers)
    BY <1>1, <1>3, <2>2, StackedTwice
  <2>4. Plain(d) /\ g.kind = "stop" /\ g.scope = f.scope
    BY <1>3, <2>1, PlainFrames DEF StopFrames
  <2> QED
    BY <1>4, <2>3, <2>4
<1>7. CASE BeginScopes
  <2>1. PICK n : n = Len(scope[Top.scope].scopes)
    OBVIOUS
  <2>2. PICK g : g = [f EXCEPT !.phase = "scopes", !.length = n]
    OBVIOUS
  <2>3. stack' = <<g>> \o Callers
    BY <1>1, <1>7, <2>1, <2>2 DEF BeginScopes
  <2>4. g.kind = "stop" /\ g.scope = f.scope
    BY <1>3, <2>2 DEF StopFrames
  <2> QED
    BY <1>4, <2>3, <2>4
<1>8. CASE StopScopes
  <2>1. PICK child, g : child = scope[Top.scope].scopes[Top.i] /\ g = [f EXCEPT !.i = @ + 1]
    OBVIOUS
  <2>2. PICK d : d = StopFrame(child, EffectsOf(child), TRUE)
    OBVIOUS
  <2>3. stack' = <<g>> \o Callers \/ stack' = <<d>> \o (<<g>> \o Callers)
    BY <1>1, <1>8, <2>1, <2>2 DEF StopScopes
  <2>4. Plain(d) /\ g.kind = "stop" /\ g.scope = f.scope
    BY <1>3, <2>1, <2>2, PlainFrames DEF StopFrames
  <2> QED
    BY <1>4, <2>3, <2>4
<1> QED
  BY <1>5, <1>6, <1>7, <1>8

\* A frame of the mount is alone on the stack.
LEMMA OnlyFrame ==
  ASSUME StackInv, stack # <<>>, Top.kind \in Bottoms
  PROVE  Callers = <<>> /\ Frames = {Top} /\ \A N : Replaces(N) => Frames' = N
<1>1. Callers = <<>> /\ Frames = {Top} \union ToSet(Callers) /\ ToSet(Callers) = {}
  BY AloneAtBottom, Peeled
<1> QED
  BY <1>1 DEF Replaces

\* The step of the mount from one phase, t, to the next, u, with the frames N
Mounts(t, u, N) ==
  /\ stack # <<>> /\ Top.kind = t /\ Frames = {Top} /\ Frames' = N /\ Replaces(N)
  /\ \A f \in N : f.kind \in {u, "run"}
  /\ \E f \in N : f.kind = u
  /\ u = "once" => once' = <<>> /\ \A f \in N : f.kind = "once" => f.todo = once
  /\ u # "once" => UNCHANGED once
  /\ u = "mounted" => isMounted' = TRUE
  /\ u # "mounted" => UNCHANGED isMounted
  /\ UNCHANGED <<destroyed, owned, created, active, val, old, subs, cleanup, queued, buffer, early, ownTrigger>>

IsPhaseStep(t, u) == <<t, u>> \in {<<"setup", "setup">>, <<"setup", "render">>, <<"render", "pre">>, <<"pre", "pre">>,
                                   <<"pre", "mounted">>, <<"mounted", "once">>}

LEMMA MountShape ==
  ASSUME StackInv, NEW t, NEW u, t \in Bottoms, On(t), IsPhaseStep(t, u),
         u = "once" => once' = <<>>, u # "once" => UNCHANGED once, u = "mounted" => isMounted' = TRUE, u # "mounted" => UNCHANGED isMounted,
         UNCHANGED <<destroyed, owned, created, active, val, old, subs, cleanup, queued, buffer, early, ownTrigger>>,
         NEW g, g.kind = u, u = "once" => g.todo = once,
         \/ stack' = <<g>> \o Callers
         \/ u = "pre" /\ \E f : f.kind = "run" /\ stack' = <<f>> \o (<<g>> \o Callers)
  PROVE  \E N : Mounts(t, u, N) /\ g \in N
<1>1. stack # <<>> /\ Top.kind = t /\ Frames = {Top} /\ \A N : Replaces(N) => Frames' = N
  BY OnlyFrame DEF On
<1>2. CASE stack' = <<g>> \o Callers
  <2>1. Replaces({g})
    BY <1>1, <1>2, Shapes
  <2>2. Frames' = {g}
    BY <1>1, <2>1
  <2>3. Mounts(t, u, {g})
    BY <1>1, <2>1, <2>2 DEF Mounts
  <2> QED
    BY <2>3
<1>3. ASSUME u = "pre", NEW f, f.kind = "run", stack' = <<f>> \o (<<g>> \o Callers)
      PROVE  \E N : Mounts(t, u, N) /\ g \in N
  <2>1. Replaces({f, g})
    BY <1>1, <1>3, Shapes
  <2>2. Frames' = {f, g}
    BY <1>1, <2>1
  <2>3. Mounts(t, u, {f, g})
    BY <1>1, <1>3, <2>1, <2>2 DEF Mounts
  <2> QED
    BY <2>3
<1> QED
  BY <1>2, <1>3

LEMMA MountsFacts ==
  ASSUME StackInv, MakeScope \/ EndSetup \/ EndRender \/ RunBuffered \/ CallMounted \/ EmitMounted
  PROVE  /\ MakeScope => \E N : Mounts("setup", "setup", N)
         /\ EndSetup => \E N : Mounts("setup", "render", N)
         /\ EndRender => \E N : Mounts("render", "pre", N) /\ ListFrame("pre", buffer) \in N
         /\ RunBuffered => \E N : Mounts("pre", "pre", N) /\ ListFrame("pre", Tail(Top.todo)) \in N
         /\ CallMounted => \E N : Mounts("pre", "mounted", N)
         /\ EmitMounted => \E N : Mounts("mounted", "once", N) /\ ListFrame("once", once) \in N
<1>1. {"setup", "render", "pre", "mounted"} \subseteq Bottoms
  BY DEF Bottoms
<1>2. ASSUME MakeScope PROVE \E N : Mounts("setup", "setup", N)
  <2>1. PICK g : g = ListFrame("setup", Tail(Top.todo))
    OBVIOUS
  <2>2. g.kind = "setup" /\ On("setup") /\ stack' = <<g>> \o Callers /\ isMounted' = isMounted
    BY <1>2, <2>1 DEF MakeScope, ListFrame
  <2>3. UNCHANGED <<destroyed, owned, created, active, val, old, subs, cleanup, queued, buffer, once, early, ownTrigger>>
    BY <1>2 DEF MakeScope, history
  <2>4. IsPhaseStep("setup", "setup")
    BY <2>2 DEF IsPhaseStep
  <2> QED
    BY <1>1, <2>2, <2>3, <2>4, MountShape
<1>3. ASSUME EndSetup PROVE \E N : Mounts("setup", "render", N)
  <2>1. PICK g : g = Frame("render")
    OBVIOUS
  <2>2. g.kind = "render" /\ On("setup") /\ stack' = <<g>> \o Callers /\ isMounted' = isMounted
    BY <1>3, <2>1 DEF EndSetup, Frame, state
  <2>3. UNCHANGED <<destroyed, owned, created, active, val, old, subs, cleanup, queued, buffer, once, early, ownTrigger>>
    BY <1>3 DEF EndSetup, state, history
  <2>4. IsPhaseStep("setup", "render")
    BY <2>2 DEF IsPhaseStep
  <2> QED
    BY <1>1, <2>2, <2>3, <2>4, MountShape
<1>4. ASSUME EndRender PROVE \E N : Mounts("render", "pre", N) /\ ListFrame("pre", buffer) \in N
  <2>1. PICK g : g = ListFrame("pre", buffer)
    OBVIOUS
  <2>2. g.kind = "pre" /\ On("render") /\ stack' = <<g>> \o Callers /\ isMounted' = isMounted
    BY <1>4, <2>1 DEF EndRender, ListFrame, state
  <2>3. UNCHANGED <<destroyed, owned, created, active, val, old, subs, cleanup, queued, buffer, once, early, ownTrigger>>
    BY <1>4 DEF EndRender, state, history
  <2>4. IsPhaseStep("render", "pre")
    BY <2>2 DEF IsPhaseStep
  <2> QED
    BY <1>1, <2>1, <2>2, <2>3, <2>4, MountShape
<1>5. ASSUME RunBuffered PROVE \E N : Mounts("pre", "pre", N) /\ ListFrame("pre", Tail(Top.todo)) \in N
  <2>1. PICK f, g, c : f = Call("run", Head(Top.todo)) /\ g = ListFrame("pre", Tail(Top.todo)) /\ c = Callers
    OBVIOUS
  <2>2. g.kind = "pre" /\ f.kind = "run" /\ On("pre") /\ stack' = <<f, g>> \o c /\ isMounted' = isMounted
    BY <1>5, <2>1 DEF RunBuffered, ListFrame, Call, state
  <2>3. UNCHANGED <<destroyed, owned, created, active, val, old, subs, cleanup, queued, buffer, once, early, ownTrigger>>
    BY <1>5 DEF RunBuffered, state, history
  <2>4. IsPhaseStep("pre", "pre")
    BY <2>2 DEF IsPhaseStep
  <2>5. stack' = <<f>> \o (<<g>> \o Callers)
    BY <2>1, <2>2, Peeled, StackedTwice DEF On
  <2> QED
    BY <1>1, <2>1, <2>2, <2>3, <2>4, <2>5, MountShape
<1>6. ASSUME CallMounted PROVE \E N : Mounts("pre", "mounted", N)
  <2>1. PICK g : g = Frame("mounted")
    OBVIOUS
  <2>2. g.kind = "mounted" /\ On("pre") /\ stack' = <<g>> \o Callers
    BY <1>6, <2>1 DEF CallMounted, Frame
  <2>3. UNCHANGED <<destroyed, owned, created, active, val, old, subs, cleanup, queued, buffer, once, early, ownTrigger>>
    BY <1>6 DEF CallMounted, history
  <2>4. isMounted' = TRUE /\ IsPhaseStep("pre", "mounted")
    BY <1>6 DEF IsPhaseStep, CallMounted
  <2> QED
    BY <1>1, <2>2, <2>3, <2>4, MountShape
<1>7. ASSUME EmitMounted PROVE \E N : Mounts("mounted", "once", N) /\ ListFrame("once", once) \in N
  <2>1. PICK g : g = ListFrame("once", once)
    OBVIOUS
  <2>2. g.kind = "once" /\ g.todo = once /\ On("mounted") /\ stack' = <<g>> \o Callers /\ isMounted' = isMounted /\ once' = <<>>
    BY <1>7, <2>1 DEF EmitMounted, ListFrame
  <2>3. UNCHANGED <<destroyed, owned, created, active, val, old, subs, cleanup, queued, buffer, early, ownTrigger>>
    BY <1>7 DEF EmitMounted, history
  <2>4. IsPhaseStep("mounted", "once")
    BY <2>2 DEF IsPhaseStep
  <2> QED
    BY <1>1, <2>1, <2>2, <2>3, <2>4, MountShape
<1> QED
  BY <1>2, <1>3, <1>4, <1>5, <1>6, <1>7

LEMMA MountsPhase ==
  ASSUME PhaseInv, NEW t, NEW u, NEW N, Mounts(t, u, N), IsPhaseStep(t, u), isMounted \in BOOLEAN
  PROVE  PhaseInv'
<1>1. \A k : HasKind(k) <=> k = t
  BY DEF HasKind, Mounts
<1>2. \A k : k # "run" => (HasKind(k)' <=> k = u)
  BY DEF HasKind, Mounts
<1>3. Made' = Made
  BY DEF Mounts, Made
<1>4. \A w : Waits(w)' => Waits(w)
  <2>1. \A w : w \in ToSet(once') => w \in ToSet(once)
    BY SetFacts, EmptyIsASeq DEF Mounts
  <2>2. \A f \in Frames' : f.kind = "once" => f.todo = once
    BY DEF Mounts
  <2> QED
    BY <2>1, <2>2 DEF Waits
<1>5. <<t, u>> \in {<<"setup", "setup">>, <<"setup", "render">>, <<"render", "pre">>, <<"pre", "pre">>,
                    <<"pre", "mounted">>, <<"mounted", "once">>}
  BY DEF IsPhaseStep
<1>6. (isMounted <=> ~(HasKind("setup") \/ HasKind("render") \/ HasKind("pre")))'
  BY <1>1, <1>2, <1>5 DEF PhaseInv, Mounts
<1>7. (HasKind("setup") => Made \subseteq owned)'
  BY <1>1, <1>2, <1>3, <1>5 DEF PhaseInv, Mounts
<1>8. (\A w \in Watchers : Waits(w) => w \in owned /\ w \in Effects)'
  BY <1>4 DEF PhaseInv, Mounts
<1>9. (once # <<>> => HasKind("setup") \/ HasKind("render") \/ HasKind("pre") \/ HasKind("mounted"))'
  BY <1>1, <1>2, <1>5 DEF PhaseInv, Mounts
<1> QED
  BY <1>6, <1>7, <1>8, <1>9 DEF PhaseInv

\* No scope, no watcher and nothing of a stop
LEMMA DeathSame ==
  ASSUME DeathInv, NEW N, Replaces(N), Top.kind # "stop", \A f \in N : f.kind # "destroy",
         UNCHANGED <<scope, created, destroyed>>
  PROVE  DeathInv'
<1>1. Made' = Made /\ ~\E f \in N : f.kind = "destroy"
  BY DEF Made
<1> QED
  BY <1>1, DeathStays

LEMMA MountsDeath ==
  ASSUME DeathInv, NEW t, NEW u, NEW N, Mounts(t, u, N), IsPhaseStep(t, u), UNCHANGED scope
  PROVE  DeathInv'
<1>1. Replaces(N) /\ Top.kind # "stop" /\ (\A f \in N : f.kind # "destroy") /\ UNCHANGED <<created, destroyed>>
  BY DEF Mounts, IsPhaseStep
<1> QED
  BY <1>1, DeathSame

LEMMA RunOnceAloof ==
  ASSUME BaseInv, RunOnce
  PROVE  \E N : Aloof(N)
<1>1. PICK s, c : s = Top.todo /\ c = Callers
  OBVIOUS
<1>2. PICK w, t : w = Head(s) /\ t = Tail(s)
  OBVIOUS
<1>3. PICK f, g : f = Call("get", w) /\ g = ListFrame("once", t)
  OBVIOUS
<1>4. stack # <<>> /\ Top.kind = "once" /\ s # <<>> /\ stack' = <<f, g>> \o c /\ UNCHANGED state
  BY <1>1, <1>2, <1>3 DEF RunOnce, On
<1>5. IsASeq(c) /\ Top \in Frames /\ s \in Seq(Watchers)
  BY <1>1, <1>4, Peeled, TopFacts DEF BaseInv, IsFrame
<1>6. stack' = <<f>> \o (<<g>> \o Callers)
  BY <1>1, <1>4, <1>5, StackedTwice
<1>7. Replaces({f, g})
  BY <1>4, <1>6, Shapes DEF BaseInv
<1>8. \A x \in ToSet(t) : Waits(x)
  <2>1. ToSet(t) \subseteq ToSet(s)
    BY <1>2, <1>4, <1>5, HeadFacts
  <2> QED
    BY <1>1, <1>4, <1>5, <2>1 DEF Waits
<1>9. f.kind = "get" /\ g.kind = "once" /\ g.todo = t
  BY <1>3 DEF Call, ListFrame
<1>10. UNCHANGED <<isMounted, destroyed, owned, created, scope, once>>
  BY <1>4 DEF state
<1>11. Aloof({f, g})
  BY <1>4, <1>7, <1>8, <1>9, <1>10 DEF Aloof, Phases
<1> QED
  BY <1>11

LEMMA DestroyAloof ==
  ASSUME BaseInv, Destroy
  PROVE  \E N : Aloof(N)
<1>1. PICK d, e : d = StopFrame(Own, EffectsOf(Own), FALSE) /\ e = Frame("destroy")
  OBVIOUS
<1>2. stack' = <<d, e>> \o stack /\ UNCHANGED <<isMounted, destroyed, owned, created, scope, once>>
  BY <1>1 DEF Destroy, state
<1>3. d.kind = "stop" /\ d.scope = Own /\ e.kind = "destroy"
  BY <1>1 DEF StopFrame, Frame
<1>4. Adds({d, e})
  BY <1>2, Shapes DEF BaseInv
<1>5. Aloof({d, e})
  BY <1>2, <1>3, <1>4 DEF Aloof, Phases, StopsOwn
<1> QED
  BY <1>5

\* The end of a component
LEMMA EndDestroyFacts ==
  ASSUME BaseInv, ScopesInv, PhaseInv, DeathInv, On("destroy")
  PROVE  /\ ~scope[Own].active
         /\ \A w \in active : w \notin owned /\ ~Waits(w)
<1>1. stack # <<>> /\ Top.kind = "destroy" /\ Top \in Frames /\ Frames = {Top} \union ToSet(Callers)
  BY TopFacts, Peeled DEF On, BaseInv
<1>2. ~HasStop(Own)
  <2>1. ASSUME NEW g \in Frames, g.kind = "stop" PROVE g.scope # Own
    <3>1. g \in ToSet(Callers)
      BY <1>1, <2>1
    <3>2. Above(Top, g)
      BY <1>1, <3>1, Peeled DEF BaseInv
    <3> QED
      BY <1>1, <2>1, <3>2 DEF ScopesInv, StopsInv
  <2> QED
    BY <2>1 DEF HasStop
<1>3. ~scope[Own].active
  BY <1>1, <1>2 DEF DeathInv, HasKind
<1>4. ASSUME NEW w \in active PROVE w \notin owned /\ ~Waits(w)
  <2>1. w \in Made /\ w \in Watchers
    BY MadeFacts DEF BaseInv, TypeInv
  <2>2. IsWithin(ScopeOf(w), Own)
    BY <2>1 DEF DeathInv, IsWithin
  <2>3. w \notin owned
    BY <1>3, <2>2 DEF ScopesInv, ScopeStopsAll
  <2> QED
    BY <2>1, <2>3 DEF PhaseInv
<1> QED
  BY <1>3, <1>4

LEMMA EndDestroyDeath ==
  ASSUME BaseInv, ScopesInv, PhaseInv, DeathInv, EndDestroy
  PROVE  PhaseInv' /\ DeathInv'
<1>1. /\ stack # <<>> /\ Top.kind = "destroy" /\ stack' = Callers /\ once' = <<>> /\ destroyed' = TRUE
      /\ UNCHANGED <<isMounted, owned, created, scope>>
  BY DEF EndDestroy, On
<1>2. Replaces({}) /\ Made' = Made
  BY <1>1, Shapes DEF BaseInv, Made
<1>3. ~scope[Own].active
  BY EndDestroyFacts DEF EndDestroy
<1>4. \A w : Waits(w)' => Waits(w)
  <2>1. ToSet(once') \subseteq ToSet(once)
    BY <1>1, SetFacts, EmptyIsASeq
  <2> QED
    BY <1>2, <2>1, WaitsStay
<1>5. PhaseInv'
  <2>1. KeepsPhase({})
    BY <1>1, <1>2 DEF KeepsPhase, Phases
  <2> QED
    BY <1>1, <1>2, <1>4, <2>1, PhaseStays DEF PhaseInv
<1>6. DeathInv'
  BY <1>1, <1>2, <1>3, DeathStays
<1> QED
  BY <1>5, <1>6

LEMMA EndStopDeath ==
  ASSUME BaseInv, ScopesInv, PhaseInv, DeathInv, EndStop
  PROVE  PhaseInv' /\ DeathInv'
<1>1. PICK f, s, sd : f = Top /\ s = f.scope /\ sd = Stopped(scope, s, f.up)
  OBVIOUS
<1>2. /\ On("stop") /\ scope' = sd /\ stack' = Callers
      /\ UNCHANGED <<isMounted, destroyed, owned, created, once>>
  BY <1>1 DEF EndStop
<1>3. /\ stack # <<>> /\ f \in StopFrames /\ f.kind = "stop" /\ (IsNested(s) /\ ~f.up => IsListed(s))
  BY <1>1, <1>2, StopsTop
<1>4. s \in AllScopes /\ f.up \in BOOLEAN /\ TreeInv /\ Own \in AllScopes
  BY <1>1, <1>3 DEF StopFrames, ScopesInv, AllScopes
<1>5. PICK changed : HasStopped(sd, s, f.up, changed)
  BY <1>1, <1>3, <1>4, StoppedTree
<1>6. \A q \in AllScopes : sd[q].active <=> (q # s /\ scope[q].active)
  BY <1>5 DEF HasStopped
<1>7. Replaces({}) /\ Made' = Made
  BY <1>2, <1>3, Shapes DEF BaseInv, Made
<1>8. \A w : Waits(w)' => Waits(w)
  BY <1>2, <1>7, WaitsStay
<1>9. PhaseInv'
  <2>1. KeepsPhase({})
    BY <1>1, <1>3, <1>7 DEF KeepsPhase, Phases
  <2> QED
    BY <1>2, <1>7, <1>8, <2>1, PhaseStays DEF PhaseInv
<1>10. DeathInv'
  <2>1. Top.kind = "stop" /\ Top.scope = Own => ~scope'[Own].active
    BY <1>1, <1>2, <1>4, <1>6
  <2>2. \A q \in AllScopes : scope'[q].active => scope[q].active
    BY <1>2, <1>6
  <2> QED
    BY <1>2, <1>4, <1>7, <2>1, <2>2, DeathStays
<1> QED
  BY <1>9, <1>10

LEMMA MakeScopeDeath ==
  ASSUME BaseInv, ScopesInv, DeathInv, MakeScope, Detached = {}
  PROVE  DeathInv'
<1>1. PICK f, s, g : f = Top /\ s = Head(f.todo) /\ g = ListFrame("setup", Tail(f.todo))
  OBVIOUS
<1>2. /\ stack # <<>> /\ f.kind = "setup" /\ f.todo # <<>> /\ stack' = <<g>> \o Callers
      /\ UNCHANGED <<created, destroyed>>
      /\ scope' = IF scope[ParentOf[s]].active THEN Constructed(scope, s) ELSE scope
  BY <1>1 DEF MakeScope, On
<1>3. f \in Frames /\ f.todo \in Seq(Scopes)
  BY <1>1, <1>2, TopFacts DEF BaseInv, IsFrame
<1>4. s \in Scopes /\ s \in ToSet(f.todo)
  BY <1>1, <1>2, <1>3, HeadFacts
<1>5. ~scope[s].active /\ TreeInv
  BY <1>2, <1>3, <1>4 DEF ScopesInv, MakingInv
<1>6. Replaces({g}) /\ g.kind = "setup" /\ Made' = Made
  BY <1>1, <1>2, Shapes DEF BaseInv, ListFrame, Made
<1>7. /\ \A q \in AllScopes : scope'[q].active => scope[q].active \/ q \in Within[Own]
      /\ scope'[Own].active => scope[Own].active
  <2>1. CASE scope[ParentOf[s]].active
    <3>1. PICK p, L : p = ParentOf[s] /\ L = scope[p].scopes
      OBVIOUS
    <3>2. p \in AllScopes /\ IsMade(scope', s, p, L, IsNested(s))
      BY <1>2, <1>4, <1>5, <2>1, <3>1, ConstructedFacts
    <3>3. \A q \in AllScopes : scope'[q].active <=> (q = s \/ scope[q].active)
      BY <3>2 DEF IsMade
    <3>4. p \in Within[Own] /\ IsNested(s)
      BY <1>4, <2>1, <3>1, <3>2 DEF DeathInv, IsNested
    <3>5. Own \in AllScopes /\ Own # s
      BY <1>4, ScopesAssumption DEF AllScopes
    <3>6. s \in Within[Own]
      BY <3>1, <3>4, <3>5, WithinFacts
    <3> QED
      BY <3>3, <3>5, <3>6
  <2>2. CASE ~scope[ParentOf[s]].active
    BY <1>2, <2>2
  <2> QED
    BY <2>1, <2>2
<1> QED
  BY <1>1, <1>2, <1>6, <1>7, DeathStays

\* A watcher is made under one frame of the mount or in a job.
LEMMA CreateFacts ==
  ASSUME BaseInv, PhaseInv, NEW w \in Watchers, Create(w), "hook" \notin CreatedIn
  PROVE  /\ w \notin Made /\ Made' = Made \union {w} /\ scope[ScopeOf(w)].active
         /\ active' = active \union {w}
         /\ (IsCurrent => HasKind("setup") \/ HasKind("mounted"))
         /\ (HasKind("setup") => IsCurrent)
         /\ \/ /\ w \in Effects /\ IsCurrent
               /\ once' = Append(once, w) /\ ToSet(once') = ToSet(once) \union {w} /\ Adds({})
            \/ UNCHANGED once /\ \E f : f.kind \in {"get", "run"} /\ f.w = w /\ Adds({f})
<1>1. created \in Seq(Watchers) /\ once \in Seq(Watchers) /\ StackInv
  BY DEF BaseInv, TypeInv
<1>2. w \notin Made
  <2>1. ~Contains(created, w)
    BY DEF Create
  <2> QED
    BY <1>1, <2>1, SeqIsASeq, SetFacts DEF Made
<1>3. Made' = Made \union {w}
  <2>1. created' = Append(created, w)
    BY DEF Create
  <2> QED
    BY <1>1, <2>1, AppendSet DEF Made
<1>4. scope[ScopeOf(w)].active /\ active' = active \union {w} /\ Bottom \in CreatedIn
  BY DEF Create
<1>5. Bottom \in {"setup", "mounted", "job"}
  BY <1>4, ConstantsAssumption
<1>6. /\ Bottom = "setup" <=> HasKind("setup")
      /\ Bottom = "mounted" <=> HasKind("mounted")
  BY <1>1, BottomMeans DEF Bottoms
<1>7. (IsCurrent => HasKind("setup") \/ HasKind("mounted")) /\ (HasKind("setup") => IsCurrent)
  BY <1>5, <1>6 DEF IsCurrent
<1>8. \/ /\ w \in Effects /\ IsCurrent
         /\ once' = Append(once, w) /\ ToSet(once') = ToSet(once) \union {w} /\ Adds({})
      \/ UNCHANGED once /\ \E f : f.kind \in {"get", "run"} /\ f.w = w /\ Adds({f})
  <2>1. CASE w \in Effects \intersect Post /\ IsCurrent
    <3>1. once' = Append(once, w) /\ UNCHANGED stack
      BY <2>1 DEF Create
    <3>2. ToSet(once') = ToSet(once) \union {w}
      BY <1>1, <3>1, AppendSet
    <3>3. Adds({})
      BY <1>1, <3>1, Shapes
    <3> QED
      BY <2>1, <3>1, <3>2, <3>3
  <2>2. CASE ~(w \in Effects \intersect Post /\ IsCurrent)
    <3>1. PICK f : f = Call(IF w \in Immediate THEN "run" ELSE "get", w)
      OBVIOUS
    <3>2. f.kind \in {"get", "run"} /\ f.w = w
      BY <3>1 DEF Call
    <3>3. UNCHANGED once /\ stack' = <<f>> \o stack
      BY <2>2, <3>1 DEF Create
    <3>4. Adds({f})
      BY <1>1, <3>3, Shapes
    <3> QED
      BY <3>2, <3>3, <3>4
  <2> QED
    BY <2>1, <2>2
<1> QED
  BY <1>2, <1>3, <1>4, <1>7, <1>8

LEMMA CreatePhase ==
  ASSUME BaseInv, ScopesInv, PhaseInv, DeathInv, NEW w \in Watchers, Create(w), "hook" \notin CreatedIn
  PROVE  PhaseInv' /\ DeathInv'
<1>1. /\ UNCHANGED <<scope, isMounted, destroyed>>
      /\ owned' = IF IsCurrent THEN owned \union {w} ELSE owned
  BY DEF Create
<1>2. /\ w \notin Made /\ Made' = Made \union {w} /\ scope[ScopeOf(w)].active
      /\ (IsCurrent => HasKind("setup") \/ HasKind("mounted"))
      /\ (HasKind("setup") => IsCurrent)
  BY CreateFacts
<1>3. PICK N : /\ Adds(N) /\ \A f \in N : f.kind \in {"get", "run"}
               /\ \/ w \in Effects /\ IsCurrent /\ ToSet(once') = ToSet(once) \union {w}
                  \/ UNCHANGED once
  <2>1. \/ w \in Effects /\ IsCurrent /\ ToSet(once') = ToSet(once) \union {w} /\ Adds({})
        \/ UNCHANGED once /\ \E f : f.kind \in {"get", "run"} /\ f.w = w /\ Adds({f})
    BY CreateFacts
  <2>2. CASE w \in Effects /\ IsCurrent /\ ToSet(once') = ToSet(once) \union {w} /\ Adds({})
    BY <2>2
  <2>3. ASSUME UNCHANGED once, NEW f, f.kind \in {"get", "run"}, Adds({f})
        PROVE  \E N : /\ Adds(N) /\ \A g \in N : g.kind \in {"get", "run"}
                      /\ UNCHANGED once
    <3>1. \A g \in {f} : g.kind \in {"get", "run"}
      BY <2>3
    <3> QED
      BY <2>3, <3>1
  <2> QED
    BY <2>1, <2>2, <2>3
<1>4. \A k \in Phases : HasKind(k)' <=> HasKind(k)
  BY <1>3 DEF Adds, HasKind, Phases
<1>5. /\ HasKind("setup")' <=> HasKind("setup")
      /\ HasKind("render")' <=> HasKind("render")
      /\ HasKind("pre")' <=> HasKind("pre")
      /\ HasKind("mounted")' <=> HasKind("mounted")
  BY <1>4 DEF Phases
<1>6. \A x : Waits(x)' => Waits(x) \/ (x = w /\ w \in Effects /\ IsCurrent)
  <2>1. \A f \in Frames' : f.kind = "once" => f \in Frames
    BY <1>3 DEF Adds
  <2> QED
    BY <1>3, <2>1 DEF Waits
<1>7. (isMounted <=> ~(HasKind("setup") \/ HasKind("render") \/ HasKind("pre")))'
  BY <1>1, <1>5 DEF PhaseInv
<1>8. (HasKind("setup") => Made \subseteq owned)'
  BY <1>1, <1>2, <1>5 DEF PhaseInv
<1>9. (\A x \in Watchers : Waits(x) => x \in owned /\ x \in Effects)'
  BY <1>1, <1>6 DEF PhaseInv
<1>10. (once # <<>> => HasKind("setup") \/ HasKind("render") \/ HasKind("pre") \/ HasKind("mounted"))'
  BY <1>2, <1>3, <1>5 DEF PhaseInv
<1>11. PhaseInv'
  BY <1>7, <1>8, <1>9, <1>10 DEF PhaseInv
<1>12. DeathInv'
  <2>1. ScopeOf(w) \in Within[Own]
    <3>1. ScopeOf(w) \in AllScopes
      BY ConstantsAssumption DEF AllScopes
    <3> QED
      BY <1>2, <3>1 DEF DeathInv
  <2>2. \A f \in N : f.kind # "destroy"
    BY <1>3
  <2> QED
    BY <1>1, <1>2, <1>3, <2>1, <2>2, DeathStays
<1> QED
  BY <1>11, <1>12

LEMMA PhaseDeathNext ==
  ASSUME BaseInv, ScopesInv, PhaseInv, DeathInv, Next, Detached = {}, "hook" \notin CreatedIn
  PROVE  PhaseInv' /\ DeathInv'
<1>1. StackInv /\ isMounted \in BOOLEAN
  BY DEF BaseInv, TypeInv
<1>2. CASE GetEffect \/ GetSource \/ RunStopped \/ RunEffect \/ RunWithCallback \/ EndCleanup
             \/ EndEffect \/ EndCallback
  BY <1>1, <1>2, RunningIsAloof, AloofStepKeeps
<1>3. CASE NotifyNext \/ EndNotify \/ EndMounted \/ BeginHook \/ EndHook \/ EndDispose \/ OnCleanup
             \/ (\E w \in Watchers : RunQueued(w) \/ Stop(w)) \/ (\E s \in Scopes : StopScope(s))
             \/ (\E r \in Refs, v \in Values : Write(r, v))
  BY <1>1, <1>3, OthersAreAloof, AloofStepKeeps
<1>4. CASE StopEffect \/ BeginDispose \/ BeginScopes \/ StopScopes
  BY <1>4, StopsAreAloof, AloofKeeps
<1>5. CASE RunOnce
  BY <1>5, RunOnceAloof, AloofKeeps
<1>6. CASE Destroy
  BY <1>6, DestroyAloof, AloofKeeps
<1>7. CASE MakeScope \/ EndSetup \/ EndRender \/ RunBuffered \/ CallMounted \/ EmitMounted
  <2>1. PhaseInv'
    <3>1. \E t, u, N : Mounts(t, u, N) /\ IsPhaseStep(t, u)
      <4>1. /\ IsPhaseStep("setup", "setup") /\ IsPhaseStep("setup", "render") /\ IsPhaseStep("render", "pre")
            /\ IsPhaseStep("pre", "pre") /\ IsPhaseStep("pre", "mounted") /\ IsPhaseStep("mounted", "once")
        BY DEF IsPhaseStep
      <4> QED
        BY <1>1, <1>7, <4>1, MountsFacts
    <3> QED
      BY <1>1, <3>1, MountsPhase
  <2>2. DeathInv'
    <3>1. CASE MakeScope
      BY <3>1, MakeScopeDeath
    <3>2. CASE EndSetup \/ EndRender \/ RunBuffered \/ CallMounted \/ EmitMounted
      <4>1. UNCHANGED scope
        BY <3>2 DEF EndSetup, EndRender, RunBuffered, CallMounted, EmitMounted, state
      <4>2. \E t, u, N : Mounts(t, u, N) /\ IsPhaseStep(t, u)
        <5>1. /\ IsPhaseStep("setup", "render") /\ IsPhaseStep("render", "pre")
              /\ IsPhaseStep("pre", "pre") /\ IsPhaseStep("pre", "mounted") /\ IsPhaseStep("mounted", "once")
          BY DEF IsPhaseStep
        <5> QED
          BY <1>1, <3>2, <5>1, MountsFacts
      <4> QED
        BY <4>1, <4>2, MountsDeath
    <3> QED
      BY <1>7, <3>1, <3>2
  <2> QED
    BY <2>1, <2>2
<1>8. CASE EndDestroy
  BY <1>8, EndDestroyDeath
<1>9. CASE EndStop
  BY <1>9, EndStopDeath
<1>10. ASSUME NEW w \in Watchers, Create(w) PROVE PhaseInv' /\ DeathInv'
  BY <1>10, CreatePhase
<1> QED
  BY <1>2, <1>3, <1>4, <1>5, <1>6, <1>7, <1>8, <1>9, <1>10 DEF Next

-----------------------------------------------------------------------------
(***************************************************************************)
(* Watchers triggered in setup().                                          *)
(***************************************************************************)
\* A new frame f
EarlyAllows(f) == f.kind = "get" => f.w \in Effects \/ f.w \notin early

LEMMA RunningEarly ==
  ASSUME BaseInv, EarlyInv, GetEffect \/ GetSource \/ RunEffect \/ RunWithCallback \/ EndCleanup \/ EndCallback
  PROVE  EarlyInv'
<1>1. Made' = Made /\ early' \subseteq early
  <2>1. UNCHANGED created
    BY DEF GetEffect, GetSource, RunEffect, RunWithCallback, EndCleanup, EndCallback, state
  <2>2. UNCHANGED early \/ early' = early \ {Top.w}
    BY DEF GetEffect, GetSource, RunEffect, RunWithCallback, EndCleanup, EndCallback, BeginEffect, history
  <2> QED
    BY <2>1, <2>2 DEF Made
<1>2. stack # <<>>
  BY DEF GetEffect, GetSource, RunEffect, RunWithCallback, EndCleanup, EndCallback, On
<1>3. PICK w, n, m, o : w = Top.w /\ n = val[SourceOf(w)] /\ m = Top.new /\ o = old[w]
  OBVIOUS
<1>4. \/ stack' = Callers
      \/ stack' = <<Call("effect", w)>> \o Callers
      \/ stack' = <<Cleaning(w, "effect", Initial)>> \o Callers
      \/ stack' = <<Cleaning(w, "callback", n)>> \o Callers
      \/ w \in Effects /\ stack' = <<Call("get", w)>> \o Callers
      \/ stack' = <<Callback(w, n, o)>> \o Callers
      \/ stack' = <<Callback(w, m, o)>> \o Callers
  BY <1>3 DEF GetEffect, GetSource, RunEffect, RunWithCallback, EndCleanup, EndCallback,
              BeginEffect, BeginCleanup, BeginCallback
<1>5. /\ EarlyAllows(Call("effect", w)) /\ (w \in Effects => EarlyAllows(Call("get", w)))
      /\ EarlyAllows(Cleaning(w, "effect", Initial)) /\ EarlyAllows(Cleaning(w, "callback", n))
      /\ EarlyAllows(Callback(w, n, o)) /\ EarlyAllows(Callback(w, m, o))
  BY DEF EarlyAllows, Call, Cleaning, Callback
<1>6. \E N : Replaces(N) /\ \A f \in N : EarlyAllows(f)
  <2>1. CASE stack' = Callers
    <3>1. Replaces({})
      BY <1>2, <2>1, Shapes DEF BaseInv
    <3> QED
      BY <3>1
  <2>2. ASSUME NEW f, EarlyAllows(f), stack' = <<f>> \o Callers PROVE \E N : Replaces(N) /\ \A g \in N : EarlyAllows(g)
    <3>1. Replaces({f})
      BY <1>2, <2>2, Shapes DEF BaseInv
    <3> QED
      BY <2>2, <3>1
  <2> QED
    BY <1>4, <1>5, <2>1, <2>2
<1> QED
  BY <1>1, <1>6, EarlyStays DEF EarlyAllows

LEMMA ListEarly ==
  ASSUME BaseInv, PhaseInv, EarlyInv, RunBuffered \/ RunOnce
  PROVE  EarlyInv'
<1>1. PICK s, k, c : s = Top.todo /\ k = Top.kind /\ c = Callers
  OBVIOUS
<1>2. PICK w, t : w = Head(s) /\ t = Tail(s)
  OBVIOUS
<1>3. PICK f, g : f = Call(IF k = "pre" THEN "run" ELSE "get", w) /\ g = ListFrame(k, t)
  OBVIOUS
<1>4. stack # <<>> /\ k \in {"pre", "once"} /\ s # <<>> /\ stack' = <<f, g>> \o c /\ UNCHANGED <<created, early>>
  BY <1>1, <1>2, <1>3 DEF RunBuffered, RunOnce, On, state, history
<1>5. IsASeq(c) /\ Top \in Frames /\ s \in Seq(Watchers)
  BY <1>1, <1>4, Peeled, TopFacts DEF BaseInv, IsFrame
<1>6. stack' = <<f>> \o (<<g>> \o Callers)
  BY <1>1, <1>4, <1>5, StackedTwice
<1>7. Replaces({f, g})
  BY <1>4, <1>6, Shapes DEF BaseInv
<1>8. f.kind = "get" => f.w \in Effects
  <2>1. w \in ToSet(s) /\ w \in Watchers
    BY <1>2, <1>4, <1>5, HeadFacts
  <2>2. k = "once" => Waits(w)
    BY <1>1, <1>5, <2>1 DEF Waits
  <2> QED
    BY <1>3, <1>4, <2>1, <2>2 DEF Call, PhaseInv
<1>9. g.kind # "get" /\ Made' = Made
  BY <1>3, <1>4 DEF ListFrame, Made
<1> QED
  BY <1>4, <1>7, <1>8, <1>9, EarlyStays

LEMMA NotifyEarly ==
  ASSUME BaseInv, EarlyInv, NotifyNext
  PROVE  EarlyInv'
<1>1. PICK s, w, t : s = Top.todo /\ w = Head(s) /\ t = Tail(s)
  OBVIOUS
<1>2. PICK f, g : f = Call("run", w) /\ g = ListFrame("notify", t)
  OBVIOUS
<1>3. /\ stack # <<>> /\ Top.kind = "notify" /\ s # <<>> /\ UNCHANGED created
      /\ stack' = <<f>> \o (<<g>> \o Callers) \/ stack' = <<g>> \o Callers
      /\ early' \subseteq early \union {w}
  BY <1>1, <1>2 DEF NotifyNext, On
<1>4. StackInv /\ IsFrame(Top) /\ f.kind = "run" /\ g.kind = "notify" /\ Made' = Made
  BY <1>2, <1>3, TopFacts DEF BaseInv, Call, ListFrame, Made
<1>5. early' \subseteq Made'
  <2>1. s \in Seq(Watchers) /\ ToSet(s) \subseteq Made
    BY <1>1, <1>3, <1>4 DEF IsFrame
  <2>2. w \in Made
    BY <1>1, <1>3, <2>1, HeadFacts
  <2> QED
    BY <1>3, <1>4, <2>2 DEF EarlyInv
<1>6. \A h \in Frames' : h.kind # "get"
  <2>1. ASSUME NEW h \in ToSet(Callers) PROVE h.kind # "get"
    <3>1. Above(Top, h) /\ Top \in Frames /\ h \in Frames
      BY <1>3, <1>4, Peeled
    <3>2. \A x, y \in Frames : Above(x, y) => y.kind \notin {"get", "run"}
      BY <1>4 DEF StackInv, InOrder, Above, Frames
    <3> QED
      BY <3>1, <3>2
  <2>2. Replaces({f, g}) \/ Replaces({g})
    BY <1>3, <1>4, Shapes
  <2> QED
    BY <1>4, <2>1, <2>2 DEF Replaces
<1> QED
  BY <1>5, <1>6 DEF EarlyInv

LEMMA PushEarly ==
  ASSUME BaseInv, EarlyInv, UNCHANGED early,
         OnCleanup \/ (\E w \in Watchers : RunQueued(w) \/ Create(w)) \/ (\E r \in Refs, v \in Values : Write(r, v))
  PROVE  EarlyInv'
<1>1. StackInv /\ (created' = created => Made' = Made)
  BY DEF BaseInv, Made
<1>2. CASE OnCleanup
  <2>1. Adds({}) /\ Made' = Made
    BY <1>1, <1>2, Shapes DEF OnCleanup
  <2> QED
    BY <2>1, EarlyStays
<1>3. ASSUME NEW w \in Watchers, RunQueued(w) PROVE EarlyInv'
  <2>1. Adds({Call("run", w)}) /\ Made' = Made
    BY <1>1, <1>3, Shapes DEF RunQueued
  <2>2. Call("run", w).kind # "get"
    BY DEF Call
  <2> QED
    BY <2>1, <2>2, EarlyStays
<1>4. ASSUME NEW r \in Refs, NEW v \in Values, Write(r, v) PROVE EarlyInv'
  <2>1. Adds({ListFrame("notify", subs[r])}) /\ Made' = Made
    BY <1>1, <1>4, Shapes DEF Write
  <2>2. ListFrame("notify", subs[r]).kind # "get"
    BY DEF ListFrame
  <2> QED
    BY <2>1, <2>2, EarlyStays
<1>5. ASSUME NEW w \in Watchers, Create(w) PROVE EarlyInv'
  <2>1. w \notin Made /\ Made' = Made \union {w}
    <3>1. created \in Seq(Watchers) /\ ~Contains(created, w) /\ created' = Append(created, w)
      BY <1>5 DEF Create, BaseInv, TypeInv
    <3> QED
      BY <3>1, SeqIsASeq, SetFacts, AppendSet DEF Made
  <2>2. PICK f : f = Call(IF w \in Immediate THEN "run" ELSE "get", w)
    OBVIOUS
  <2>3. UNCHANGED stack \/ stack' = <<f>> \o stack
    BY <1>5, <2>2 DEF Create
  <2>4. Adds({}) \/ Adds({f})
    BY <1>1, <2>3, Shapes
  <2>5. f.w = w /\ w \notin early
    BY <2>1, <2>2 DEF Call, EarlyInv
  <2> QED
    BY <2>1, <2>4, <2>5, EarlyStays
<1> QED
  BY <1>2, <1>3, <1>4, <1>5

LEMMA EarlyNext ==
  ASSUME BaseInv, PhaseInv, EarlyInv, Next
  PROVE  EarlyInv'
<1>1. ASSUME TameStep, UNCHANGED <<created, early>> PROVE EarlyInv'
  <2>1. \A f \in Frames' : f \in Frames \/ f.kind # "get"
    BY <1>1, TameStepFacts DEF BaseInv, TameFrames, Tame, IsRun
  <2> QED
    BY <1>1, <2>1 DEF EarlyInv, Made
<1>2. CASE RunStopped \/ EndEffect \/ EndNotify \/ MakeScope \/ EndSetup \/ EndRender \/ CallMounted
             \/ EmitMounted \/ EndMounted \/ BeginHook \/ EndHook \/ EndDispose \/ EndDestroy
  <2>1. UNCHANGED <<created, early>>
    BY <1>2 DEF RunStopped, EndEffect, EndNotify, MakeScope, EndSetup, EndRender, CallMounted, EmitMounted,
                EndMounted, BeginHook, EndHook, EndDispose, EndDestroy, state, history
  <2> QED
    BY <1>1, <1>2, <2>1, ComponentTame
<1>3. CASE StopEffect \/ BeginDispose \/ BeginScopes \/ StopScopes \/ EndStop
  <2>1. UNCHANGED <<created, early>>
    BY <1>3 DEF StopEffect, BeginDispose, BeginScopes, StopScopes, EndStop, Teardown, state, history
  <2> QED
    BY <1>1, <1>3, <2>1, StoppingTame
<1>4. CASE Destroy \/ (\E w \in Watchers : Stop(w)) \/ (\E s \in Scopes : StopScope(s))
  <2>1. UNCHANGED <<created, early>>
    BY <1>4 DEF Destroy, Stop, StopScope, Teardown, state, history
  <2> QED
    BY <1>1, <1>4, <2>1, UserTame
<1>5. CASE GetEffect \/ GetSource \/ RunEffect \/ RunWithCallback \/ EndCleanup \/ EndCallback
  BY <1>5, RunningEarly
<1>6. CASE RunBuffered \/ RunOnce
  BY <1>6, ListEarly
<1>7. CASE NotifyNext
  BY <1>7, NotifyEarly
<1>8. CASE OnCleanup \/ (\E w \in Watchers : RunQueued(w) \/ Create(w)) \/ (\E r \in Refs, v \in Values : Write(r, v))
  <2>1. UNCHANGED early
    BY <1>8 DEF OnCleanup, RunQueued, Create, Write, history
  <2> QED
    BY <1>8, <2>1, PushEarly
<1> QED
  BY <1>2, <1>3, <1>4, <1>5, <1>6, <1>7, <1>8 DEF Next

-----------------------------------------------------------------------------
(***************************************************************************)
(* What watchers know, when one of them runs.                              *)
(***************************************************************************)
AllKnow == \A x \in active : Knows(x)

SubsKeep(x) == x \in ToSet(subs[SourceOf(x)]) => x \in ToSet(subs'[SourceOf(x)])

LEMMA OthersKnow ==
  ASSUME NEW N, Replaces(N), IsRun(Top), NEW w, w = Top.w, \A f \in N : f.w = w,
         NEW x, x # w, Knows(x), SubsKeep(x), old'[x] = old[x],
         UNCHANGED <<val, cleanup, queued, buffer, once>>,
         x \in ownTrigger => x \in ownTrigger', early' \subseteq early
  PROVE  Knows(x)'
<1>1. Passes(Top, x)
  BY DEF Passes, IsRun
<1>2. FramesKeep(x)
  BY <1>1, FramesStay
<1>3. DataKeeps(x)
  BY DEF DataKeeps, SubsKeep
<1> QED
  BY <1>2, <1>3, KnowsStays

LEMMA SourceRead ==
  ASSUME BaseInv, NEW w \in Made, Subscribe(w), UNCHANGED created
  PROVE  w \in ToSet(subs'[SourceOf(w)]) /\ \A x \in Made : SubsKeep(x)
<1>1. SubsInv /\ created \in Seq(Watchers) /\ Made' = Made
  BY DEF BaseInv, TypeInv, Made
<1>2. /\ \A r \in Refs : ToSet(subs[r]) \subseteq ToSet(subs'[r])
      /\ w \in ToSet(subs'[SourceOf(w)])
  BY <1>1, ConstantsAssumption, Subscribes
<1>3. \A x \in Made : SourceOf(x) \in Refs
  BY MadeFacts DEF BaseInv
<1> QED
  BY <1>2, <1>3 DEF SubsKeep

\* The effect of w begins.
LEMMA BeginEffectKnows ==
  ASSUME BaseInv, RunsInv, AllKnow, stack # <<>>, IsRun(Top), NEW w, w = Top.w, w \in Effects, w \in Made,
         BeginEffect(w, Callers), UNCHANGED <<val, created, active, cleanup, queued, buffer, once>>
  PROVE  AllKnow'
<1>1. PICK f : f = Call("effect", w)
  OBVIOUS
<1>2. f.kind = "effect" /\ f.w = w /\ IsRun(f) /\ ~HasRead(f)
  BY <1>1 DEF Call, IsRun, HasRead, IsCleanup
<1>3. /\ Subscribe(w) /\ old' = [old EXCEPT ![w] = val[SourceOf(w)]]
      /\ ownTrigger' = ownTrigger \ {w} /\ early' = early \ {w} /\ stack' = <<f>> \o Callers
  BY <1>1 DEF BeginEffect
<1>4. Replaces({f})
  BY <1>3, Shapes DEF BaseInv
<1>5. w \in ToSet(subs'[SourceOf(w)]) /\ \A x \in Made : SubsKeep(x)
  BY <1>3, SourceRead
<1>6. w \in Watchers /\ active \subseteq Made /\ old \in [Watchers -> Values \union {Initial}] /\ val[SourceOf(w)] \in Values
  BY MadeFacts DEF BaseInv, TypeInv
<1>7. old'[w] = val[SourceOf(w)] /\ \A x : x # w => old'[x] = old[x]
  BY <1>3, <1>6
<1>8. ASSUME NEW x \in active PROVE Knows(x)'
  <2>1. CASE x = w
    <3>1. GoesOn(w, {f})
      BY <1>2, <1>4, OwnRun DEF BaseInv, RunsInv
    <3>2. Evaluated(w)'
      BY <1>5, <1>6, <1>7, ConstantsAssumption DEF Evaluated
    <3>3. Seen(w)' /\ w \notin early'
      BY <1>3, <1>7 DEF Seen
    <3> QED
      BY <1>2, <2>1, <3>1, <3>2, <3>3, ReadsNow
  <2>2. CASE x # w
    <3>1. Knows(x) /\ SubsKeep(x)
      BY <1>5, <1>6 DEF AllKnow
    <3>2. (x \in ownTrigger => x \in ownTrigger') /\ early' \subseteq early /\ old'[x] = old[x]
      BY <1>3, <1>7, <2>2
    <3> QED
      BY <1>2, <1>4, <2>2, <3>1, <3>2, OthersKnow
  <2> QED
    BY <2>1, <2>2
<1> QED
  BY <1>8 DEF AllKnow

\* The callback of w, or the cleanup before it: the source has just been read.
LEMMA ReadKnows ==
  ASSUME BaseInv, RunsInv, AllKnow, stack # <<>>, IsRun(Top), NEW w, w = Top.w, w \notin Effects, w \in Made,
         Subscribe(w), early' = early \ {w},
         NEW N, Replaces(N), \A f \in N : IsRun(f) /\ f.w = w,
         \/ \E f \in N : HasRead(f) /\ f.new = val[SourceOf(w)]
         \/ N = {} /\ old[w] = val[SourceOf(w)],
         UNCHANGED <<val, created, active, cleanup, queued, buffer, once, old, ownTrigger>>
  PROVE  AllKnow'
<1>1. w \in ToSet(subs'[SourceOf(w)]) /\ \A x \in Made : SubsKeep(x)
  BY SourceRead
<1>2. active \subseteq Made
  BY DEF BaseInv, TypeInv
<1>3. ASSUME NEW x \in active PROVE Knows(x)'
  <2>1. CASE x = w
    <3>1. GoesOn(w, N)
      BY OwnRun DEF BaseInv, RunsInv
    <3>2. Evaluated(w)' /\ w \notin early'
      BY <1>1 DEF Evaluated
    <3>3. \/ Seen(w)' /\ \A f \in N : ~HasRead(f)
          \/ \E f \in N : HasRead(f) /\ f.new = val'[SourceOf(w)]
      BY DEF Seen
    <3> QED
      BY <2>1, <3>1, <3>2, <3>3, ReadsNow
  <2>2. CASE x # w
    <3>1. Knows(x) /\ SubsKeep(x) /\ early' \subseteq early
      BY <1>1, <1>2 DEF AllKnow
    <3> QED
      BY <2>2, <3>1, OthersKnow
  <2> QED
    BY <2>1, <2>2
<1> QED
  BY <1>3 DEF AllKnow

\* Steps of a run that read nothing
LEMMA RunKnows ==
  ASSUME BaseInv, RunsInv, AllKnow, stack # <<>>, IsRun(Top), NEW w, w = Top.w,
         NEW N, Replaces(N), \A f \in N : IsRun(f) /\ f.w = w,
         \A x \in active : x # w => old'[x] = old[x],
         UNCHANGED <<val, subs, active, cleanup, queued, buffer, once, ownTrigger, early>>,
         w \in active /\ Knows(w) /\ GoesOn(w, N) => Knows(w)'
  PROVE  AllKnow'
<1>1. ASSUME NEW x \in active PROVE Knows(x)'
  <2>1. CASE x = w
    <3>1. GoesOn(w, N)
      BY OwnRun DEF BaseInv, RunsInv
    <3> QED
      BY <2>1, <3>1 DEF AllKnow
  <2>2. CASE x # w
    <3>1. Knows(x) /\ SubsKeep(x) /\ old'[x] = old[x]
      BY <2>2 DEF AllKnow, SubsKeep
    <3> QED
      BY <2>2, <3>1, OthersKnow
  <2> QED
    BY <2>1, <2>2
<1> QED
  BY <1>1 DEF AllKnow

-----------------------------------------------------------------------------
(***************************************************************************)
(* What each action does to what watchers know: runs.                      *)
(***************************************************************************)
LEMMA RunOnTop ==
  ASSUME BaseInv, stack # <<>>, IsRun(Top), NEW w, w = Top.w
  PROVE  w \in Made /\ w \in Watchers /\ Top \in Frames /\ Top \in RunsOf(w)
<1>1. IsFrame(Top) /\ Top \in Frames
  BY TopFacts DEF BaseInv
<1>2. w \in Made
  BY <1>1 DEF IsFrame
<1> QED
  BY <1>1, <1>2, MadeFacts DEF BaseInv, RunsOf

LEMMA GetEffectKnows ==
  ASSUME BaseInv, ScopesInv, RunsInv, DeathInv, AllKnow, GetEffect
  PROVE  AllKnow'
<1>1. PICK w : w = Top.w
  OBVIOUS
<1>2. /\ stack # <<>> /\ Top.kind = "get" /\ w \in Effects /\ IsRun(Top) /\ WillRead(Top)
      /\ UNCHANGED <<val, created, active, cleanup, queued, buffer, once>>
  BY <1>1 DEF GetEffect, On, IsRun, WillRead
<1>3. w \in Made
  BY <1>1, <1>2, RunOnTop
<1>4. \/ /\ w \in owned /\ destroyed /\ stack' = Callers
         /\ subs' = [r \in Refs |-> Unsubscribed(r, w)] /\ UNCHANGED <<old, early, ownTrigger>>
      \/ w \in cleanup /\ BeginCleanup(w, "effect", Initial, Callers) /\ UNCHANGED <<subs, old, early, ownTrigger>>
      \/ BeginEffect(w, Callers)
  BY <1>1 DEF GetEffect
<1>5. ASSUME w \in owned, destroyed, stack' = Callers,
             subs' = [r \in Refs |-> Unsubscribed(r, w)], UNCHANGED <<old, early, ownTrigger>>
      PROVE  AllKnow'
  <2>1. w \notin active
    <3>1. ~scope[Own].active /\ IsWithin(ScopeOf(w), Own)
      BY <1>3, <1>5 DEF DeathInv, IsWithin
    <3> QED
      BY <1>5, <3>1 DEF ScopesInv, ScopeStopsAll
  <2>2. Replaces({})
    BY <1>2, <1>5, Shapes DEF BaseInv
  <2>3. ASSUME NEW x \in active PROVE Knows(x)'
    <3>1. x # w /\ x \in Made /\ SourceOf(x) \in Refs
      BY <2>1, MadeFacts DEF BaseInv, TypeInv
    <3>2. PICK r \in Refs : r = SourceOf(x)
      BY <3>1
    <3>3. ToSet(subs'[r]) = ToSet(subs[r]) \ {w}
      BY <1>5, Unsubscribes DEF BaseInv
    <3>4. SubsKeep(x) /\ Knows(x)
      BY <3>1, <3>2, <3>3 DEF SubsKeep, AllKnow
    <3> QED
      BY <1>1, <1>2, <1>5, <2>2, <3>1, <3>4, OthersKnow
  <2> QED
    BY <1>2, <2>3 DEF AllKnow
<1>6. ASSUME w \in cleanup, BeginCleanup(w, "effect", Initial, Callers), UNCHANGED <<subs, old, early, ownTrigger>>
      PROVE  AllKnow'
  <2>1. PICK f : f = Cleaning(w, "effect", Initial)
    OBVIOUS
  <2>2. IsRun(f) /\ f.w = w /\ WillRead(f) /\ stack' = <<f>> \o Callers
    BY <1>6, <2>1 DEF Cleaning, IsRun, WillRead, IsCleanup, BeginCleanup
  <2>3. Replaces({f})
    BY <1>2, <2>2, Shapes DEF BaseInv
  <2>4. w \in active /\ Knows(w) /\ GoesOn(w, {f}) => Knows(w)'
    BY <1>2, <1>6, <2>2, ReadsLater
  <2> QED
    BY <1>1, <1>2, <1>6, <2>2, <2>3, <2>4, RunKnows
<1>7. CASE BeginEffect(w, Callers)
  BY <1>1, <1>2, <1>3, <1>7, BeginEffectKnows
<1> QED
  BY <1>4, <1>5, <1>6, <1>7

LEMMA GetSourceKnows ==
  ASSUME BaseInv, RunsInv, EarlyInv, AllKnow, GetSource
  PROVE  AllKnow'
<1>1. PICK w : w = Top.w
  OBVIOUS
<1>2. /\ stack # <<>> /\ Top.kind = "get" /\ w \notin Effects /\ IsRun(Top) /\ stack' = Callers
      /\ Subscribe(w) /\ old' = [old EXCEPT ![w] = val[SourceOf(w)]]
      /\ UNCHANGED <<val, created, active, cleanup, queued, buffer, once, early, ownTrigger>>
  BY <1>1 DEF GetSource, On, IsRun
<1>3. w \in Made /\ w \in Watchers /\ Top \in Frames
  BY <1>1, <1>2, RunOnTop
<1>4. old'[w] = val[SourceOf(w)] /\ \A x : x # w => old'[x] = old[x]
  BY <1>2, <1>3 DEF BaseInv, TypeInv
<1>5. w \notin early
  BY <1>1, <1>2, <1>3 DEF EarlyInv
<1>6. Replaces({})
  BY <1>2, Shapes DEF BaseInv
<1>7. w \in ToSet(subs'[SourceOf(w)]) /\ \A x \in Made : SubsKeep(x)
  BY <1>2, <1>3, SourceRead
<1>8. ASSUME NEW x \in active PROVE Knows(x)'
  <2>1. CASE x = w
    <3>1. GoesOn(w, {})
      BY <1>1, <1>2, <1>6, OwnRun DEF BaseInv, RunsInv
    <3>2. Evaluated(w)' /\ w \notin early' /\ Seen(w)'
      BY <1>2, <1>4, <1>5, <1>7 DEF Evaluated, Seen
    <3> QED
      BY <2>1, <3>1, <3>2, ReadsNow
  <2>2. CASE x # w
    <3>1. Knows(x) /\ SubsKeep(x) /\ old'[x] = old[x]
      BY <1>4, <1>7, <2>2 DEF AllKnow, BaseInv, TypeInv
    <3> QED
      BY <1>1, <1>2, <1>6, <2>2, <3>1, OthersKnow
  <2> QED
    BY <2>1, <2>2
<1> QED
  BY <1>2, <1>8 DEF AllKnow

LEMMA RunEffectKnows ==
  ASSUME BaseInv, RunsInv, AllKnow, RunEffect
  PROVE  AllKnow'
<1>1. PICK w, f : w = Top.w /\ f = Call("get", w)
  OBVIOUS
<1>2. /\ stack # <<>> /\ IsRun(Top) /\ WillRead(Top) /\ stack' = <<f>> \o Callers
      /\ UNCHANGED <<val, subs, active, old, cleanup, queued, buffer, once, ownTrigger, early>>
  BY <1>1 DEF RunEffect, On, IsRun, WillRead, state, history
<1>3. IsRun(f) /\ f.w = w /\ WillRead(f) /\ f.kind = "get"
  BY <1>1 DEF Call, IsRun, WillRead
<1>4. Replaces({f})
  BY <1>2, Shapes DEF BaseInv
<1>5. w \in active /\ Knows(w) /\ GoesOn(w, {f}) => Knows(w)'
  BY <1>2, <1>3, ReadsLater
<1> QED
  BY <1>1, <1>2, <1>3, <1>4, <1>5, RunKnows

LEMMA RunWithCallbackKnows ==
  ASSUME BaseInv, RunsInv, AllKnow, RunWithCallback
  PROVE  AllKnow'
<1>1. PICK w, n, o : w = Top.w /\ n = val[SourceOf(w)] /\ o = old[w]
  OBVIOUS
<1>2. /\ stack # <<>> /\ IsRun(Top) /\ w \notin Effects /\ Subscribe(w) /\ early' = early \ {w}
      /\ UNCHANGED <<val, created, active, cleanup, queued, buffer, once, old, ownTrigger>>
  BY <1>1 DEF RunWithCallback, On, IsRun
<1>3. w \in Made
  BY <1>1, <1>2, RunOnTop
<1>4. PICK f, g : f = Cleaning(w, "callback", n) /\ g = Callback(w, n, o)
  OBVIOUS
<1>5. /\ IsRun(f) /\ f.w = w /\ HasRead(f) /\ f.new = n
      /\ IsRun(g) /\ g.w = w /\ HasRead(g) /\ g.new = n
  BY <1>4 DEF Cleaning, Callback, IsRun, HasRead, IsCleanup
<1>6. \/ n = o /\ stack' = Callers
      \/ stack' = <<f>> \o Callers
      \/ stack' = <<g>> \o Callers
  BY <1>1, <1>4 DEF RunWithCallback, BeginCleanup, BeginCallback
<1>7. CASE n = o /\ stack' = Callers
  <2>1. Replaces({})
    BY <1>2, <1>7, Shapes DEF BaseInv
  <2> QED
    BY <1>1, <1>2, <1>3, <1>7, <2>1, ReadKnows
<1>8. ASSUME NEW h \in {f, g}, stack' = <<h>> \o Callers PROVE AllKnow'
  <2>1. Replaces({h})
    BY <1>2, <1>8, Shapes DEF BaseInv
  <2>2. IsRun(h) /\ h.w = w /\ HasRead(h) /\ h.new = val[SourceOf(w)]
    BY <1>1, <1>5
  <2> QED
    BY <1>1, <1>2, <1>3, <2>1, <2>2, ReadKnows
<1> QED
  BY <1>6, <1>7, <1>8

LEMMA EndEffectKnows ==
  ASSUME BaseInv, RunsInv, AllKnow, EndEffect
  PROVE  AllKnow'
<1>1. PICK w : w = Top.w
  OBVIOUS
<1>2. /\ stack # <<>> /\ Top.kind = "effect" /\ IsRun(Top) /\ ~HasRead(Top) /\ ~WillRead(Top) /\ stack' = Callers
      /\ UNCHANGED <<val, subs, active, old, cleanup, queued, buffer, once, ownTrigger, early>>
  BY DEF EndEffect, On, IsRun, HasRead, WillRead, IsCleanup, history
<1>3. Replaces({})
  BY <1>2, Shapes DEF BaseInv
<1>4. ASSUME Knows(w), GoesOn(w, {}) PROVE Knows(w)'
  <2>1. Evaluated(w)
    BY <1>1, <1>2, <1>4, RunOnTop DEF Knows
  <2>2. Evaluated(w)'
    BY <1>2, <2>1 DEF Evaluated
  <2> QED
    BY <1>2, <1>4, <2>1, <2>2, HasBeenRead
<1> QED
  BY <1>1, <1>2, <1>3, <1>4, RunKnows

LEMMA EndCallbackKnows ==
  ASSUME BaseInv, RunsInv, AllKnow, EndCallback
  PROVE  AllKnow'
<1>1. PICK w, n : w = Top.w /\ n = Top.new
  OBVIOUS
<1>2. /\ stack # <<>> /\ Top.kind = "callback" /\ IsRun(Top) /\ HasRead(Top) /\ ~WillRead(Top) /\ stack' = Callers
      /\ old' = [old EXCEPT ![w] = n]
      /\ UNCHANGED <<val, subs, active, cleanup, queued, buffer, once, ownTrigger, early>>
  BY <1>1 DEF EndCallback, On, IsRun, HasRead, WillRead, IsCleanup, history
<1>3. w \in Watchers /\ w \notin Effects
  BY <1>1, <1>2, RunOnTop, TopFacts DEF IsFrame, BaseInv
<1>4. old'[w] = n /\ \A x : x # w => old'[x] = old[x]
  BY <1>2, <1>3 DEF BaseInv, TypeInv
<1>5. Replaces({})
  BY <1>2, Shapes DEF BaseInv
<1>6. ASSUME Knows(w), GoesOn(w, {}) PROVE Knows(w)'
  <2>1. Evaluated(w)
    BY <1>1, <1>2, <1>6, RunOnTop DEF Knows
  <2>2. Evaluated(w)'
    BY <1>2, <1>3, <2>1 DEF Evaluated
  <2> QED
    BY <1>1, <1>2, <1>4, <1>6, <2>1, <2>2, HasBeenRead
<1> QED
  BY <1>1, <1>2, <1>4, <1>5, <1>6, RunKnows

\* The cleanup has been called before the effect, or the callback, of a rerun.
LEMMA EndCleanupKnows ==
  ASSUME BaseInv, RunsInv, AllKnow, EndCleanup, Top.then # "stop"
  PROVE  AllKnow'
<1>1. PICK w, n, o : w = Top.w /\ n = Top.new /\ o = old[w]
  OBVIOUS
<1>2. /\ stack # <<>> /\ Top.kind = "cleanup" /\ IsRun(Top)
      /\ UNCHANGED <<val, created, active, cleanup, queued, buffer, once>>
  BY DEF EndCleanup, On, IsRun
<1>3. IsFrame(Top) /\ w \in Made
  BY <1>1, <1>2, RunOnTop, TopFacts DEF BaseInv
<1>4. CASE Top.then = "effect"
  <2>1. w \in Effects /\ BeginEffect(w, Callers)
    BY <1>1, <1>2, <1>3, <1>4 DEF EndCleanup, IsFrame
  <2> QED
    BY <1>1, <1>2, <1>3, <2>1, BeginEffectKnows
<1>5. CASE Top.then = "callback"
  <2>1. PICK f : f = Callback(w, n, o)
    OBVIOUS
  <2>2. stack' = <<f>> \o Callers /\ UNCHANGED <<subs, old, early, ownTrigger>>
    BY <1>1, <1>5, <2>1 DEF EndCleanup, BeginCallback
  <2>3. IsRun(f) /\ f.w = w /\ HasRead(f) /\ f.new = n
    BY <2>1 DEF Callback, IsRun, HasRead
  <2>4. HasRead(Top) /\ ~WillRead(Top) /\ w \in cleanup
    BY <1>1, <1>2, <1>3, <1>5 DEF HasRead, WillRead, IsCleanup, IsFrame
  <2>5. Replaces({f})
    BY <1>2, <2>2, Shapes DEF BaseInv
  <2>6. ASSUME Knows(w), GoesOn(w, {f}) PROVE Knows(w)'
    <3>1. Evaluated(w) /\ Evaluated(w)'
      BY <2>2, <2>4, <2>6 DEF Knows, Evaluated
    <3> QED
      BY <1>1, <1>2, <2>2, <2>3, <2>4, <2>6, <3>1, HasBeenRead
  <2> QED
    BY <1>1, <1>2, <2>2, <2>3, <2>5, <2>6, RunKnows
<1> QED
  BY <1>4, <1>5 DEF EndCleanup

-----------------------------------------------------------------------------
(***************************************************************************)
(* What each action does to what watchers know: no run goes on.            *)
(***************************************************************************)
LEMMA IdleKnows ==
  ASSUME AllKnow, NEW N, Adds(N) \/ (Replaces(N) /\ \A x \in active' : Passes(Top, x)),
         \A f \in N : ~IsRun(f), active' \subseteq active, UNCHANGED buffer,
         \A x \in active' : DataKeeps(x) /\ (x \in ToSet(once) => x \in ToSet(once'))
  PROVE  AllKnow'
<1>1. ASSUME NEW x \in active' PROVE Knows(x)'
  <2>1. FramesKeep(x)
    BY <1>1, FramesStay
  <2> QED
    BY <1>1, <2>1, KnowsStays DEF AllKnow
<1> QED
  BY <1>1 DEF AllKnow

SameData == UNCHANGED <<val, subs, active, old, cleanup, queued, buffer, once, ownTrigger, early>>

LEMMA SameKnows ==
  ASSUME AllKnow, NEW N, Adds(N) \/ (Replaces(N) /\ \A x \in active : Passes(Top, x)),
         \A f \in N : ~IsRun(f), SameData
  PROVE  AllKnow'
<1>1. \A x : DataKeeps(x)
  BY DEF SameData, DataKeeps
<1>2. active' = active /\ buffer' = buffer /\ once' = once
  BY DEF SameData
<1> QED
  BY <1>1, <1>2, IdleKnows

LEMMA TameShape ==
  ASSUME StackInv, TameStep
  PROVE  \E N : (Adds(N) \/ (stack # <<>> /\ Replaces(N))) /\ \A f \in N : ~IsRun(f)
<1>1. CASE UNCHANGED stack
  <2>1. Adds({})
    BY <1>1, Shapes
  <2> QED
    BY <2>1
<1>2. CASE stack # <<>> /\ stack' = Callers
  <2>1. Replaces({})
    BY <1>2, Shapes
  <2> QED
    BY <1>2, <2>1
<1>3. ASSUME NEW f, Tame(f), stack # <<>>, stack' = <<f>> \o Callers
      PROVE  \E N : Replaces(N) /\ \A h \in N : ~IsRun(h)
  <2>1. Replaces({f})
    BY <1>3, Shapes
  <2> QED
    BY <1>3, <2>1 DEF Tame
<1>4. ASSUME NEW f, Tame(f), stack' = <<f>> \o stack
      PROVE  \E N : Adds(N) /\ \A h \in N : ~IsRun(h)
  <2>1. Adds({f})
    BY <1>4, Shapes
  <2> QED
    BY <1>4, <2>1 DEF Tame
<1>5. ASSUME NEW f, NEW g, Tame(f), Tame(g), stack # <<>>, stack' = <<f>> \o (<<g>> \o Callers)
      PROVE  \E N : Replaces(N) /\ \A h \in N : ~IsRun(h)
  <2>1. Replaces({f, g})
    BY <1>5, Shapes
  <2> QED
    BY <1>5, <2>1 DEF Tame
<1>6. ASSUME NEW f, NEW g, Tame(f), Tame(g), stack' = <<f, g>> \o stack
      PROVE  \E N : Adds(N) /\ \A h \in N : ~IsRun(h)
  <2>1. Adds({f, g})
    BY <1>6, Shapes
  <2> QED
    BY <1>6, <2>1 DEF Tame
<1> QED
  BY <1>1, <1>2, <1>3, <1>4, <1>5, <1>6 DEF TameStep

LEMMA EndsKnow ==
  ASSUME BaseInv, AllKnow,
         RunStopped \/ EndNotify \/ EndMounted \/ EndHook \/ EndDispose \/ (EndCleanup /\ Top.then = "stop")
  PROVE  AllKnow'
<1>1. stack # <<>> /\ stack' = Callers
  BY DEF RunStopped, EndNotify, EndMounted, EndHook, EndDispose, EndCleanup, On
<1>2. SameData
  BY DEF SameData, RunStopped, EndNotify, EndMounted, EndHook, EndDispose, EndCleanup, state, history
<1>3. Replaces({})
  BY <1>1, Shapes DEF BaseInv
<1>4. ASSUME NEW x \in active PROVE Passes(Top, x)
  <2>1. CASE RunStopped
    BY <1>4, <2>1 DEF RunStopped, On, Runs, Passes
  <2>2. CASE EndNotify \/ EndMounted
    <3>1. Top.kind \in {"notify", "once"} /\ Top.todo = <<>>
      BY <2>2 DEF EndNotify, EndMounted, On
    <3>2. ToSet(Top.todo) = {}
      BY <3>1, SetFacts, EmptyIsASeq
    <3> QED
      BY <3>1, <3>2 DEF Passes, IsRun
  <2>3. CASE EndHook \/ EndDispose
    BY <2>3 DEF EndHook, EndDispose, On, Passes, IsRun
  <2>4. CASE EndCleanup /\ Top.then = "stop"
    BY <2>4 DEF EndCleanup, On, Passes, IsRun
  <2> QED
    BY <2>1, <2>2, <2>3, <2>4
<1> QED
  BY <1>2, <1>3, <1>4, SameKnows

LEMMA TeardownKeeps ==
  ASSUME BaseInv, NEW w, NEW t, Teardown(w, t)
  PROVE  /\ active' \subseteq active /\ UNCHANGED <<buffer, once>>
         /\ \A x \in active' : DataKeeps(x)
<1>1. /\ active' = active \ {w} /\ UNCHANGED <<val, old, cleanup, queued, buffer, once, ownTrigger, early>>
      /\ subs' = [r \in Refs |-> IF w \in deps THEN Unsubscribed(r, w) ELSE subs[r]]
  BY DEF Teardown
<1>2. ASSUME NEW x \in active' PROVE SubsKeep(x)
  <2>1. x # w /\ SourceOf(x) \in Refs
    BY <1>1, <1>2, MadeFacts DEF BaseInv, TypeInv
  <2>2. PICK r \in Refs : r = SourceOf(x)
    BY <2>1
  <2>3. ToSet(Unsubscribed(r, w)) = ToSet(subs[r]) \ {w}
    BY Unsubscribes DEF BaseInv
  <2>4. subs'[r] = Unsubscribed(r, w) \/ subs'[r] = subs[r]
    BY <1>1
  <2> QED
    BY <2>1, <2>2, <2>3, <2>4 DEF SubsKeep
<1> QED
  BY <1>1, <1>2 DEF DataKeeps, SubsKeep

LEMMA StopsKnow ==
  ASSUME BaseInv, AllKnow, StopEffect \/ BeginDispose \/ BeginScopes \/ StopScopes \/ EndStop
  PROVE  AllKnow'
<1>1. PICK N : (Adds(N) \/ (stack # <<>> /\ Replaces(N))) /\ \A f \in N : ~IsRun(f)
  BY StoppingTame, TameShape DEF BaseInv
<1>2. \A x : Passes(Top, x)
  <2>1. Top.kind = "stop"
    BY DEF StopEffect, BeginDispose, BeginScopes, StopScopes, EndStop, On
  <2> QED
    BY <2>1 DEF Passes, IsRun
<1>3. SameData \/ \E w, t : Teardown(w, t)
  <2>1. CASE StopEffect
    BY <2>1 DEF StopEffect, SameData, history
  <2>2. CASE BeginDispose \/ BeginScopes \/ StopScopes \/ EndStop
    BY <2>2 DEF BeginDispose, BeginScopes, StopScopes, EndStop, SameData, state, history
  <2> QED
    BY <2>1, <2>2
<1>4. CASE SameData
  BY <1>1, <1>2, <1>4, SameKnows
<1>5. ASSUME NEW w, NEW t, Teardown(w, t) PROVE AllKnow'
  <2>1. /\ active' \subseteq active /\ UNCHANGED <<buffer, once>>
        /\ \A x \in active' : DataKeeps(x)
    BY <1>5, TeardownKeeps
  <2> QED
    BY <1>1, <1>2, <2>1, IdleKnows
<1> QED
  BY <1>3, <1>4, <1>5

LEMMA UserKnows ==
  ASSUME BaseInv, AllKnow,
         BeginHook \/ Destroy \/ (\E w \in Watchers : Stop(w)) \/ (\E s \in Scopes : StopScope(s))
  PROVE  AllKnow'
<1>1. CASE BeginHook
  <2>1. Adds({Frame("hook")}) /\ ~IsRun(Frame("hook"))
    BY <1>1, Shapes DEF BeginHook, BaseInv, IsRun, Frame
  <2>2. SameData
    BY <1>1 DEF BeginHook, SameData, state, history
  <2> QED
    BY <2>1, <2>2, SameKnows
<1>2. CASE Destroy
  <2>1. PICK d, e : d = StopFrame(Own, EffectsOf(Own), FALSE) /\ e = Frame("destroy")
    OBVIOUS
  <2>2. stack' = <<d, e>> \o stack /\ SameData
    BY <1>2, <2>1 DEF Destroy, SameData, state, history
  <2>3. ~IsRun(d) /\ ~IsRun(e)
    BY <2>1 DEF StopFrame, Frame, IsRun
  <2>4. Adds({d, e})
    BY <2>2, Shapes DEF BaseInv
  <2> QED
    BY <2>2, <2>3, <2>4, SameKnows
<1>3. ASSUME NEW w \in Watchers, Stop(w) PROVE AllKnow'
  <2>1. Teardown(w, stack)
    BY <1>3 DEF Stop
  <2>2. PICK d : d = Cleaning(w, "stop", Initial)
    OBVIOUS
  <2>3. UNCHANGED stack \/ stack' = <<d>> \o stack
    BY <2>1, <2>2, TornDownTame
  <2>4. Adds({}) \/ Adds({d})
    BY <2>3, Shapes DEF BaseInv
  <2>5. ~IsRun(d)
    BY <2>2 DEF Cleaning, IsRun
  <2>6. /\ active' \subseteq active /\ UNCHANGED <<buffer, once>>
        /\ \A x \in active' : DataKeeps(x)
    BY <2>1, TeardownKeeps
  <2>7. PICK N : Adds(N) /\ \A f \in N : ~IsRun(f)
    BY <2>4, <2>5
  <2> QED
    BY <2>6, <2>7, IdleKnows
<1>4. ASSUME NEW s \in Scopes, StopScope(s) PROVE AllKnow'
  <2>1. PICK d : d = StopFrame(s, EffectsOf(s), FALSE)
    OBVIOUS
  <2>2. stack' = <<d>> \o stack /\ SameData
    BY <1>4, <2>1 DEF StopScope, SameData, state, history
  <2>3. ~IsRun(d)
    BY <2>1 DEF StopFrame, IsRun
  <2>4. Adds({d})
    BY <2>2, Shapes DEF BaseInv
  <2> QED
    BY <2>2, <2>3, <2>4, SameKnows
<1> QED
  BY <1>1, <1>2, <1>3, <1>4

LEMMA OnCleanupKnows ==
  ASSUME BaseInv, AllKnow, OnCleanup
  PROVE  AllKnow'
<1>1. PICK w : w = Top.w
  OBVIOUS
<1>2. /\ stack # <<>> /\ Top.kind \in {"callback", "effect"} /\ w \in active /\ cleanup' = cleanup \union {w}
      /\ UNCHANGED <<val, subs, active, old, queued, buffer, once, stack, early, ownTrigger>>
  BY <1>1 DEF OnCleanup, On
<1>3. Evaluated(w)
  <2>1. IsRun(Top)
    BY <1>2 DEF IsRun
  <2> QED
    BY <1>1, <1>2, <2>1, RunOnTop DEF AllKnow, Knows
<1>4. \A x : DataKeeps(x)
  BY <1>2, <1>3 DEF DataKeeps
<1>5. Adds({})
  BY <1>2, Shapes DEF BaseInv
<1> QED
  BY <1>2, <1>4, <1>5, IdleKnows

LEMMA EndDestroyKnows ==
  ASSUME BaseInv, ScopesInv, PhaseInv, DeathInv, AllKnow, EndDestroy
  PROVE  AllKnow'
<1>1. /\ On("destroy") /\ stack # <<>> /\ Top.kind = "destroy" /\ stack' = Callers
      /\ UNCHANGED <<val, subs, active, old, cleanup, queued, buffer, early, ownTrigger>>
  BY DEF EndDestroy, On, history
<1>2. \A x : DataKeeps(x)
  BY <1>1 DEF DataKeeps
<1>3. \A x \in active : x \notin ToSet(once)
  BY <1>1, EndDestroyFacts DEF Waits
<1>4. \A x : Passes(Top, x)
  BY <1>1 DEF Passes, IsRun
<1>5. Replaces({})
  BY <1>1, Shapes DEF BaseInv
<1> QED
  BY <1>1, <1>2, <1>3, <1>4, <1>5, IdleKnows

\* The mount goes on.
LEMMA PhaseKnows ==
  ASSUME StackInv, AllKnow, stack # <<>>, Top.kind \in Bottoms, NEW g, g.kind \in Bottoms,
         stack' = <<g>> \o Callers,
         UNCHANGED <<val, subs, active, old, cleanup, queued, buffer, early, ownTrigger>>,
         \A x \in active : (AwaitsMount(x) => AwaitsMount(x)') /\ (Waits(x) => Waits(x)')
  PROVE  AllKnow'
<1>1. Frames = {Top} /\ Frames' = {g}
  <2>1. Replaces({g})
    BY Shapes
  <2> QED
    BY <2>1, OnlyFrame
<1>2. \A f \in {Top, g} : ~IsRun(f) /\ f.kind # "notify"
  BY DEF Bottoms, IsRun
<1>3. ASSUME NEW x \in active PROVE Knows(x)'
  <2>1. RunsOf(x) = {} /\ RunsOf(x)' = {}
    BY <1>1, <1>2 DEF RunsOf
  <2>2. ~Lists("notify", x)
    BY <1>1, <1>2 DEF Lists
  <2>3. FramesKeep(x)
    BY <2>1, <2>2 DEF FramesKeep
  <2>4. DataKeeps(x)
    BY DEF DataKeeps
  <2> QED
    BY <2>3, <2>4, KnowsStays DEF AllKnow
<1> QED
  BY <1>3 DEF AllKnow

LEMMA MountKnows ==
  ASSUME BaseInv, AllKnow, MakeScope \/ EndSetup \/ EndRender \/ CallMounted \/ EmitMounted
  PROVE  AllKnow'
<1>1. PICK t, b, o : t = Tail(Top.todo) /\ b = buffer /\ o = once
  OBVIOUS
<1>2. PICK g : g = IF MakeScope THEN ListFrame("setup", t) ELSE IF EndSetup THEN Frame("render") ELSE
                   IF EndRender THEN ListFrame("pre", b) ELSE IF CallMounted THEN Frame("mounted")
                   ELSE ListFrame("once", o)
  OBVIOUS
<1>3. /\ stack # <<>> /\ stack' = <<g>> \o Callers
      /\ \/ Top.kind = "setup" /\ g.kind \in {"setup", "render"} /\ UNCHANGED once
         \/ Top.kind = "render" /\ g.kind = "pre" /\ g.todo = buffer /\ UNCHANGED once
         \/ Top.kind = "pre" /\ Top.todo = <<>> /\ g.kind = "mounted" /\ UNCHANGED once
         \/ Top.kind = "mounted" /\ g.kind = "once" /\ g.todo = once
  <2>1. CASE MakeScope
    BY <1>1, <1>2, <2>1 DEF MakeScope, On, ListFrame
  <2>2. CASE EndSetup
    BY <1>2, <2>2 DEF MakeScope, EndSetup, On, Frame, ListFrame, state
  <2>3. CASE EndRender
    BY <1>1, <1>2, <2>3 DEF MakeScope, EndSetup, EndRender, On, ListFrame, state
  <2>4. CASE CallMounted
    BY <1>2, <2>4 DEF MakeScope, EndSetup, EndRender, CallMounted, On, Frame
  <2>5. CASE EmitMounted
    BY <1>1, <1>2, <2>5 DEF MakeScope, EndSetup, EndRender, CallMounted, EmitMounted, On, ListFrame
  <2> QED
    BY <2>1, <2>2, <2>3, <2>4, <2>5
<1>4. UNCHANGED <<val, subs, active, old, cleanup, queued, buffer, early, ownTrigger>>
  BY DEF MakeScope, EndSetup, EndRender, CallMounted, EmitMounted, state, history
<1>5. Top.kind \in Bottoms /\ g.kind \in Bottoms
  BY <1>3 DEF Bottoms
<1>6. Frames = {Top} /\ Frames' = {g}
  <2>1. Replaces({g})
    BY <1>3, Shapes DEF BaseInv
  <2> QED
    BY <1>3, <1>5, <2>1, OnlyFrame DEF BaseInv
<1>7. ASSUME NEW x, AwaitsMount(x) PROVE AwaitsMount(x)'
  <2>1. \/ Top.kind \in {"setup", "render"} /\ x \in ToSet(buffer)
        \/ Top.kind = "pre" /\ x \in ToSet(Top.todo)
    BY <1>6, <1>7 DEF AwaitsMount, HasKind, Lists
  <2>2. \/ g.kind \in {"setup", "render"} /\ x \in ToSet(buffer)
        \/ g.kind = "pre" /\ x \in ToSet(g.todo)
    BY <1>3, <2>1, SetFacts, EmptyIsASeq
  <2> QED
    BY <1>4, <1>6, <2>2 DEF AwaitsMount, HasKind, Lists
<1>8. ASSUME NEW x, Waits(x) PROVE Waits(x)'
  <2>1. x \in ToSet(once)
    BY <1>3, <1>6, <1>8 DEF Waits
  <2>2. x \in ToSet(once') \/ (g.kind = "once" /\ x \in ToSet(g.todo))
    BY <1>3, <2>1
  <2> QED
    BY <1>6, <2>2 DEF Waits
<1> QED
  BY <1>3, <1>4, <1>5, <1>7, <1>8, PhaseKnows DEF BaseInv

-----------------------------------------------------------------------------
(***************************************************************************)
(* What each action does to what watchers know: lists of watchers.         *)
(***************************************************************************)
\* The watcher of f is the head of the list on top, which leaves g, and does not run yet.
IsHead(f, g) ==
  /\ Shortened(g) /\ ToSet(Top.todo) = {f.w} \union ToSet(g.todo)
  /\ f.kind \in {"get", "run"} /\ RunsOf(f.w) = {}

\* It begins to run.
LEMMA HeadRunsKnows ==
  ASSUME BaseInv, AllKnow, stack # <<>>, NEW g, NEW f, IsHead(f, g),
         stack' = <<f>> \o (<<g>> \o Callers), SameData
  PROVE  AllKnow'
<1>0. PICK w : /\ w = f.w
               /\ Shortened(g) /\ ToSet(Top.todo) = {w} \union ToSet(g.todo)
               /\ f.kind \in {"get", "run"} /\ RunsOf(w) = {}
  BY DEF IsHead
<1>1. Replaces({f, g})
  BY Shapes DEF BaseInv
<1>2. IsRun(f) /\ ~IsRun(g) /\ g.kind = Top.kind
  BY <1>0 DEF Shortened, IsRun
<1>3. /\ UNCHANGED <<val, subs, old, cleanup, queued, buffer, once, ownTrigger, early>>
      /\ active' = active
  BY DEF SameData
<1>4. ASSUME NEW x \in active, x # w PROVE Knows(x)'
  <2>1. \A h \in {f, g} : IsRun(h) => h.w # x
    BY <1>0, <1>2, <1>4
  <2>2. x \in ToSet(Top.todo) => x \in ToSet(g.todo)
    BY <1>0, <1>4
  <2>3. FramesKeep(x)
    <3>1. PICK N : N = {f, g}
      OBVIOUS
    <3>2. g \in N /\ Replaces(N) /\ \A h \in N : IsRun(h) => h.w # x
      BY <1>1, <2>1, <3>1
    <3>3. UNCHANGED once /\ (x \in ToSet(buffer) => x \in ToSet(buffer'))
      BY <1>3
    <3> QED
      BY <1>0, <2>2, <3>2, <3>3, ListStays
  <2>4. DataKeeps(x)
    BY <1>3 DEF DataKeeps
  <2> QED
    BY <1>4, <2>3, <2>4, KnowsStays DEF AllKnow
<1>5. ASSUME w \in active PROVE Knows(w)'
  <2>1. \A h \in Frames : h = Top \/ h \in Frames'
    BY <1>1 DEF Replaces
  <2>2. f \in Frames' /\ g \in Frames' /\ \A h \in Frames' : h = f \/ h = g \/ h \in Frames
    BY <1>1 DEF Replaces
  <2>3. RunsOf(w)' = {f}
    <3>1. \A h : h \in RunsOf(w)' <=> h \in Frames' /\ IsRun(h) /\ h.w = w
      BY DEF RunsOf
    <3>2. \A h \in Frames : ~(IsRun(h) /\ h.w = w)
      BY <1>0 DEF RunsOf
    <3>3. \A h : h \in RunsOf(w)' <=> h = f
      BY <1>0, <1>2, <2>2, <3>1, <3>2
    <3> QED
      BY <3>3
  <2>4. \A k : HasKind(k) => HasKind(k)'
    BY <1>2, <2>1, <2>2 DEF HasKind
  <2>5. AwaitsMount(w) => AwaitsMount(w)' \/ HasKind("pre")'
    BY <1>3, <2>4 DEF AwaitsMount, Lists, HasKind
  <2>6. w \in early => AwaitsMount(w)
    BY <1>0, <1>5 DEF AllKnow, Knows
  <2>7. w \in cleanup' => Evaluated(w)'
    BY <1>3, <1>5 DEF AllKnow, Knows, Evaluated
  <2>8. w \in early' => AwaitsMount(w)' \/ HasKind("pre")'
    BY <1>3, <2>5, <2>6
  <2> QED
    BY <1>0, <2>3, <2>7, <2>8, KnowsRun
<1> QED
  BY <1>3, <1>4, <1>5 DEF AllKnow

LEMMA MountListsKnow ==
  ASSUME BaseInv, AllKnow, RunBuffered \/ RunOnce
  PROVE  AllKnow'
<1>1. PICK s, k, c : s = Top.todo /\ k = Top.kind /\ c = Callers
  OBVIOUS
<1>2. PICK w, t : w = Head(s) /\ t = Tail(s)
  OBVIOUS
<1>3. PICK f, g : f = Call(IF k = "pre" THEN "run" ELSE "get", w) /\ g = ListFrame(k, t)
  OBVIOUS
<1>4. stack # <<>> /\ k \in {"pre", "once"} /\ s # <<>> /\ stack' = <<f, g>> \o c
  BY <1>1, <1>2, <1>3 DEF RunBuffered, RunOnce, On
<1>5. SameData
  BY DEF RunBuffered, RunOnce, SameData, state, history
<1>6. IsASeq(c) /\ s \in Seq(Watchers)
  BY <1>1, <1>4, Peeled, TopFacts DEF BaseInv, IsFrame
<1>7. stack' = <<f>> \o (<<g>> \o Callers)
  BY <1>1, <1>4, <1>6, StackedTwice
<1>8. ToSet(s) = {w} \union ToSet(t)
  BY <1>2, <1>4, <1>6, HeadFacts
<1>9. f.kind \in {"get", "run"} /\ f.w = w /\ g.kind = k /\ g.todo = t
  BY <1>3 DEF Call, ListFrame
<1>10. Shortened(g)
  BY <1>1, <1>4, <1>8, <1>9 DEF Shortened
<1>11. RunsOf(w) = {}
  <2>1. Frames = {Top}
    BY <1>1, <1>4, OnlyFrame DEF BaseInv, Bottoms
  <2> QED
    BY <1>1, <1>4, <2>1 DEF RunsOf, IsRun
<1>12. IsHead(f, g)
  BY <1>1, <1>8, <1>9, <1>10, <1>11 DEF IsHead
<1> QED
  BY <1>4, <1>5, <1>7, <1>12, HeadRunsKnows

\* The head of a list of subscribers, when it does not run at once
LEMMA HeadLeavesKnows ==
  ASSUME BaseInv, AllKnow, stack # <<>>, Top.kind = "notify", NEW g, Shortened(g),
         NEW w, ToSet(Top.todo) = {w} \union ToSet(g.todo), stack' = <<g>> \o Callers,
         UNCHANGED <<val, subs, active, old, cleanup, once>>, ToSet(buffer) \subseteq ToSet(buffer'),
         queued \subseteq queued', ownTrigger \subseteq ownTrigger', early' \subseteq early \union {w},
         PlaceKeeps(w) => Marked(w)' /\ (w \in early' => w \in early \/ AwaitsMount(w)')
  PROVE  AllKnow'
<1>1. Replaces({g}) /\ ~IsRun(g)
  BY Shapes DEF BaseInv, Shortened, IsRun
<1>2. ASSUME NEW x \in active, x # w PROVE Knows(x)'
  <2>1. FramesKeep(x)
    BY <1>1, <1>2, ListStays
  <2>2. DataKeeps(x)
    BY <1>2 DEF DataKeeps
  <2> QED
    BY <1>2, <2>1, <2>2, KnowsStays DEF AllKnow
<1>3. ASSUME w \in active PROVE Knows(w)'
  <2>1. PlaceKeeps(w)
    BY <1>1, HeadLeaves
  <2> QED
    BY <1>3, <2>1, KnowsMarked DEF AllKnow
<1> QED
  BY <1>2, <1>3 DEF AllKnow

LEMMA NotifyKnows ==
  ASSUME BaseInv, RunsInv, PhaseInv, AllKnow, NotifyNext
  PROVE  AllKnow'
<1>1. PICK s, w, t : s = Top.todo /\ w = Head(s) /\ t = Tail(s)
  OBVIOUS
<1>2. PICK f, g : f = Call("run", w) /\ g = ListFrame("notify", t)
  OBVIOUS
<1>3. /\ stack # <<>> /\ Top.kind = "notify" /\ s # <<>>
      /\ UNCHANGED <<val, subs, active, old, cleanup, once>>
      /\ \/ w \in Sync /\ stack' = <<f>> \o (<<g>> \o Callers) /\ UNCHANGED <<queued, buffer, ownTrigger>>
         \/ /\ w \notin Sync /\ IsBuffered(w) /\ stack' = <<g>> \o Callers /\ UNCHANGED <<queued, ownTrigger>>
            /\ buffer' = IF Contains(buffer, w) THEN buffer ELSE Append(buffer, w)
         \/ /\ w \notin Sync /\ ~IsBuffered(w) /\ stack' = <<g>> \o Callers /\ UNCHANGED buffer
            /\ queued' = IF IsOwnTrigger(w) THEN queued ELSE queued \union {w}
            /\ ownTrigger' = IF w = Target THEN ownTrigger \union {w} ELSE ownTrigger
      /\ early' = IF w \in Pre /\ Bottom = "setup" THEN early \union {w} ELSE early
  BY <1>1, <1>2 DEF NotifyNext, On
<1>4. s \in Seq(Watchers) /\ ToSet(s) \subseteq Made
  BY <1>1, <1>3, TopFacts DEF BaseInv, IsFrame
<1>5. ToSet(s) = {w} \union ToSet(t) /\ w \in Watchers /\ w \in Made
  <2>1. ToSet(s) = {w} \union ToSet(t) /\ w \in Watchers
    BY <1>1, <1>3, <1>4, HeadFacts
  <2> QED
    BY <1>4, <2>1
<1>6. f.kind = "run" /\ f.w = w /\ g.kind = "notify" /\ g.todo = t
  BY <1>2 DEF Call, ListFrame
<1>7. Shortened(g) /\ ToSet(Top.todo) = {w} \union ToSet(g.todo)
  BY <1>1, <1>3, <1>5, <1>6 DEF Shortened
<1>8. /\ \A k \in Bottoms : Bottom = k <=> HasKind(k)
      /\ {"setup", "render", "pre", "mounted", "once", "hook"} \subseteq Bottoms
  BY BottomMeans DEF BaseInv, Bottoms
<1>9. CASE w \in Sync /\ stack' = <<f>> \o (<<g>> \o Callers) /\ UNCHANGED <<queued, buffer, ownTrigger>>
  <2>1. RunsOf(w) = {}
    <3>1. ASSUME NEW h \in Frames, IsRun(h) PROVE h.w # w
      <4>1. h \in ToSet(Callers)
        BY <1>3, <3>1, Peeled DEF BaseInv, IsRun
      <4>2. Above(Top, h) /\ Top \in Frames
        BY <1>3, <4>1, Peeled DEF BaseInv
      <4>3. Apart(Top, h)
        BY <4>2 DEF RunsInv, AloneInv
      <4> QED
        BY <1>3, <1>7, <1>9, <3>1, <4>3 DEF Apart
    <3> QED
      BY <3>1 DEF RunsOf
  <2>2. SameData
    BY <1>3, <1>9, ConstantsAssumption DEF SameData
  <2>3. IsHead(f, g)
    BY <1>6, <1>7, <2>1 DEF IsHead
  <2> QED
    BY <1>3, <1>9, <2>2, <2>3, HeadRunsKnows
<1>10. ASSUME IsBuffered(w), stack' = <<g>> \o Callers, UNCHANGED <<queued, ownTrigger>>,
              buffer' = IF Contains(buffer, w) THEN buffer ELSE Append(buffer, w)
       PROVE  AllKnow'
  <2>1. HasKind("setup")
    BY <1>8, <1>10 DEF IsBuffered, IsCurrent, PhaseInv
  <2>2. HasKind("setup")'
    <3>1. Replaces({g})
      BY <1>3, <1>10, Shapes DEF BaseInv
    <3> QED
      BY <1>3, <2>1, <3>1 DEF Replaces, HasKind
  <2>3. buffer \in Seq(Watchers)
    BY DEF BaseInv, TypeInv
  <2>4. ToSet(buffer') = ToSet(buffer) \union {w}
    <3>1. CASE Contains(buffer, w)
      <4>1. w \in ToSet(buffer)
        BY <2>3, <3>1, SeqIsASeq, SetFacts
      <4> QED
        BY <1>10, <3>1, <4>1
    <3>2. CASE ~Contains(buffer, w)
      BY <1>5, <1>10, <2>3, <3>2, AppendSet
    <3> QED
      BY <3>1, <3>2
  <2>5. AwaitsMount(w)'
    BY <2>2, <2>4 DEF AwaitsMount
  <2>6. Marked(w)'
    BY <2>5 DEF Marked
  <2>7. early' \subseteq early \union {w}
    BY <1>3
  <2> QED
    BY <1>3, <1>7, <1>10, <2>4, <2>5, <2>6, <2>7, HeadLeavesKnows
<1>11. ASSUME ~IsBuffered(w), stack' = <<g>> \o Callers, UNCHANGED buffer,
              queued' = IF IsOwnTrigger(w) THEN queued ELSE queued \union {w},
              ownTrigger' = IF w = Target THEN ownTrigger \union {w} ELSE ownTrigger
       PROVE  AllKnow'
  <2>1. Marked(w)'
    BY <1>11 DEF IsOwnTrigger, Marked
  <2>2. early' = early
    <3>1. ~(w \in Pre /\ Bottom = "setup")
      BY <1>5, <1>8, <1>11 DEF IsBuffered, IsCurrent, PhaseInv
    <3> QED
      BY <1>3, <3>1
  <2>3. queued \subseteq queued' /\ ownTrigger \subseteq ownTrigger'
    BY <1>11
  <2> QED
    BY <1>3, <1>7, <1>11, <2>1, <2>2, <2>3, HeadLeavesKnows
<1> QED
  BY <1>3, <1>9, <1>10, <1>11

-----------------------------------------------------------------------------
(***************************************************************************)
(* What each action does to what watchers know: something comes up.        *)
(***************************************************************************)
LEMMA RunQueuedKnows ==
  ASSUME BaseInv, AllKnow, NEW w \in Watchers, RunQueued(w)
  PROVE  AllKnow'
<1>1. PICK f : f = Call("run", w)
  OBVIOUS
<1>2. /\ stack = <<>> /\ stack' = <<f>> \o stack /\ queued' = queued \ {w}
      /\ UNCHANGED <<val, subs, active, old, cleanup, buffer, once, early, ownTrigger>>
  BY <1>1 DEF RunQueued, history
<1>3. f.kind = "run" /\ f.w = w /\ IsRun(f)
  BY <1>1 DEF Call, IsRun
<1>4. Adds({f}) /\ Frames = {}
  BY <1>2, Shapes, SetFacts, EmptyIsASeq DEF BaseInv, Frames
<1>5. ASSUME NEW x \in active, x # w PROVE Knows(x)'
  <2>1. FramesKeep(x)
    BY <1>2, <1>3, <1>4, <1>5, FramesStay
  <2>2. DataKeeps(x)
    BY <1>2, <1>5 DEF DataKeeps
  <2> QED
    BY <1>5, <2>1, <2>2, KnowsStays DEF AllKnow
<1>6. ASSUME w \in active PROVE Knows(w)'
  <2>1. RunsOf(w)' = {f}
    BY <1>3, <1>4 DEF Adds, RunsOf
  <2>2. w \notin early
    BY <1>4, <1>6 DEF AllKnow, Knows, AwaitsMount, HasKind, Lists
  <2>3. w \in cleanup' => Evaluated(w)'
    BY <1>2, <1>6 DEF AllKnow, Knows, Evaluated
  <2> QED
    BY <1>2, <1>3, <2>1, <2>2, <2>3, KnowsRun
<1> QED
  BY <1>2, <1>5, <1>6 DEF AllKnow

\* A watcher that is not subscribed yet has still to read the source.
LEMMA WriteKnows ==
  ASSUME BaseInv, AllKnow, NEW r \in Refs, NEW v \in Values, Write(r, v)
  PROVE  AllKnow'
<1>1. PICK s, g : s = subs[r] /\ g = ListFrame("notify", s)
  OBVIOUS
<1>2. /\ stack' = <<g>> \o stack /\ val' = [val EXCEPT ![r] = v]
      /\ UNCHANGED <<subs, active, old, cleanup, queued, buffer, once, early, ownTrigger>>
  BY <1>1 DEF Write, history
<1>3. g.kind = "notify" /\ g.todo = s /\ ~IsRun(g)
  BY <1>1 DEF ListFrame, IsRun
<1>4. Adds({g}) /\ g \in Frames'
  <2>1. Adds({g})
    BY <1>2, Shapes DEF BaseInv
  <2> QED
    BY <2>1 DEF Adds
<1>5. ASSUME NEW x \in active PROVE Knows(x)'
  <2>1. FramesKeep(x) /\ Knows(x)
    BY <1>2, <1>3, <1>4, <1>5, FramesStay DEF AllKnow
  <2>2. SourceOf(x) \in Refs
    BY MadeFacts DEF BaseInv, TypeInv
  <2>3. CASE SourceOf(x) # r
    <3>1. val'[SourceOf(x)] = val[SourceOf(x)]
      BY <1>2, <2>2, <2>3 DEF BaseInv, TypeInv
    <3>2. DataKeeps(x)
      BY <1>2, <3>1 DEF DataKeeps
    <3> QED
      BY <2>1, <3>2, KnowsStays
  <2>4. CASE SourceOf(x) = r
    <3>1. PlaceKeeps(x)
      <4>1. HasKind("pre") => HasKind("pre")'
        BY <1>4 DEF Adds, HasKind
      <4> QED
        BY <2>1, <4>1 DEF PlaceKeeps, FramesKeep
    <3>2. Marked(x)'
      <4>1. CASE x \in ToSet(s)
        BY <1>3, <1>4, <4>1 DEF Marked, Lists
      <4>2. CASE x \notin ToSet(s)
        <5>1. Waits(x) \/ \E f \in RunsOf(x) : f.kind \in {"get", "run"}
          BY <1>1, <2>1, <2>4, <4>2 DEF Knows, Evaluated
        <5>2. Waits(x)' \/ \E f \in RunsOf(x)' : WillRead(f)
          BY <3>1, <5>1 DEF PlaceKeeps, WillRead
        <5> QED
          BY <5>2 DEF Marked
      <4> QED
        BY <4>1, <4>2
    <3> QED
      BY <1>2, <2>1, <3>1, <3>2, KnowsMarked
  <2> QED
    BY <2>3, <2>4
<1> QED
  BY <1>2, <1>5 DEF AllKnow

LEMMA CreateKnows ==
  ASSUME BaseInv, PhaseInv, EarlyInv, AllKnow, NEW w \in Watchers, Create(w), "hook" \notin CreatedIn
  PROVE  AllKnow'
<1>1. UNCHANGED <<val, subs, old, cleanup, queued, buffer, early, ownTrigger>>
  BY DEF Create, history
<1>2. /\ w \notin Made /\ active' = active \union {w}
      /\ \/ ToSet(once') = ToSet(once) \union {w} /\ Adds({})
         \/ UNCHANGED once /\ \E f : f.kind \in {"get", "run"} /\ f.w = w /\ Adds({f})
  BY CreateFacts
<1>3. w \notin cleanup /\ w \notin early /\ w \notin active
  BY <1>2 DEF BaseInv, TypeInv, EarlyInv
<1>4. RunsOf(w) = {}
  BY <1>2 DEF RunsOf, BaseInv, StackInv, IsFrame
<1>5. \A x : DataKeeps(x)
  BY <1>1 DEF DataKeeps
<1>6. ASSUME ToSet(once') = ToSet(once) \union {w}, Adds({}) PROVE AllKnow'
  <2>1. ASSUME NEW x \in active PROVE Knows(x)'
    <3>1. FramesKeep(x)
      BY <1>1, <1>6, FramesStay
    <3> QED
      BY <1>5, <3>1, KnowsStays DEF AllKnow
  <2>2. Knows(w)'
    <3>1. RunsOf(w)' = {}
      BY <1>4, <1>6 DEF RunsOf, Adds
    <3>2. Waits(w)'
      BY <1>6 DEF Waits
    <3>3. Marked(w)' /\ w \notin cleanup' /\ w \notin early'
      BY <1>1, <1>3, <3>2 DEF Marked
    <3> QED
      BY <3>1, <3>2, <3>3 DEF Knows
  <2> QED
    BY <1>2, <2>1, <2>2 DEF AllKnow
<1>7. ASSUME UNCHANGED once, NEW f, f.kind \in {"get", "run"}, f.w = w, Adds({f}) PROVE AllKnow'
  <2>1. IsRun(f)
    BY <1>7 DEF IsRun
  <2>2. ASSUME NEW x \in active PROVE Knows(x)'
    <3>1. x # w
      BY <1>3
    <3>2. FramesKeep(x)
      BY <1>1, <1>7, <3>1, FramesStay
    <3> QED
      BY <1>5, <3>2, KnowsStays DEF AllKnow
  <2>3. Knows(w)'
    <3>1. RunsOf(w)' = {f}
      <4>1. \A h : h \in RunsOf(w)' <=> h \in Frames' /\ IsRun(h) /\ h.w = w
        BY DEF RunsOf
      <4>2. \A h \in Frames : ~(IsRun(h) /\ h.w = w)
        BY <1>4 DEF RunsOf
      <4>3. \A h : h \in Frames' <=> h = f \/ h \in Frames
        BY <1>7 DEF Adds
      <4>4. \A h : h \in RunsOf(w)' <=> h = f
        BY <1>7, <2>1, <4>1, <4>2, <4>3
      <4> QED
        BY <4>4
    <3> QED
      BY <1>1, <1>3, <1>7, <3>1, KnowsRun
  <2> QED
    BY <1>2, <2>2, <2>3 DEF AllKnow
<1>8. CASE UNCHANGED once /\ \E f : f.kind \in {"get", "run"} /\ f.w = w /\ Adds({f})
  <2>1. PICK f : f.kind \in {"get", "run"} /\ f.w = w /\ Adds({f})
    BY <1>8
  <2>2. UNCHANGED once
    BY <1>8
  <2> QED
    BY <1>7, <2>1, <2>2
<1> QED
  BY <1>2, <1>6, <1>8

-----------------------------------------------------------------------------
(***************************************************************************)
(* What watchers know, always.                                             *)
(***************************************************************************)
LEMMA KnowsNext ==
  ASSUME BaseInv, ScopesInv, RunsInv, PhaseInv, DeathInv, EarlyInv, AllKnow, Next, "hook" \notin CreatedIn
  PROVE  AllKnow'
<1>1. CASE GetEffect \/ GetSource \/ RunEffect \/ RunWithCallback \/ EndEffect \/ EndCallback
             \/ (EndCleanup /\ Top.then # "stop")
  BY <1>1, GetEffectKnows, GetSourceKnows, RunEffectKnows, RunWithCallbackKnows, EndEffectKnows,
     EndCallbackKnows, EndCleanupKnows
<1>2. CASE RunStopped \/ EndNotify \/ EndMounted \/ EndHook \/ EndDispose \/ (EndCleanup /\ Top.then = "stop")
  BY <1>2, EndsKnow
<1>3. CASE StopEffect \/ BeginDispose \/ BeginScopes \/ StopScopes \/ EndStop
  BY <1>3, StopsKnow
<1>4. CASE BeginHook \/ Destroy \/ (\E w \in Watchers : Stop(w)) \/ (\E s \in Scopes : StopScope(s))
  BY <1>4, UserKnows
<1>5. CASE OnCleanup \/ EndDestroy
  BY <1>5, OnCleanupKnows, EndDestroyKnows
<1>6. CASE MakeScope \/ EndSetup \/ EndRender \/ CallMounted \/ EmitMounted
  BY <1>6, MountKnows
<1>7. CASE RunBuffered \/ RunOnce \/ NotifyNext
  BY <1>7, MountListsKnow, NotifyKnows
<1>8. CASE (\E w \in Watchers : RunQueued(w) \/ Create(w)) \/ (\E r \in Refs, v \in Values : Write(r, v))
  BY <1>8, RunQueuedKnows, CreateKnows, WriteKnows
<1> QED
  BY <1>1, <1>2, <1>3, <1>4, <1>5, <1>6, <1>7, <1>8 DEF Next

LEMMA SightStutter ==
  ASSUME StackInv, PhaseInv, DeathInv, EarlyInv, AllKnow, UNCHANGED vars
  PROVE  PhaseInv' /\ DeathInv' /\ EarlyInv' /\ AllKnow'
<1>1. /\ UNCHANGED <<isMounted, destroyed, owned, created, scope, once, stack>>
      /\ UNCHANGED early /\ SameData
  BY DEF vars, state, history, SameData
<1>2. AloofStep
  BY <1>1 DEF AloofStep
<1>3. Adds({}) /\ Made' = Made
  BY <1>1, Shapes DEF Made
<1>4. EarlyInv'
  BY <1>1, <1>3, EarlyStays
<1>5. AllKnow'
  BY <1>1, <1>3, SameKnows
<1> QED
  BY <1>2, <1>4, <1>5, AloofStepKeeps

LEMMA SightInit ==
  ASSUME Init, Detached = {}
  PROVE  PhaseInv /\ DeathInv /\ EarlyInv /\ AllKnow
<1>1. PICK f : f = ListFrame("setup", ScopeOrder)
  OBVIOUS
<1>2. stack = <<f>> /\ f.kind = "setup" /\ once = <<>> /\ created = <<>>
  BY <1>1 DEF Init, ListFrame
<1>3. Frames = {f} /\ ToSet(once) = {} /\ Made = {}
  BY <1>2, SetFacts, EmptyIsASeq DEF Frames, Made, ToSet
<1>4. PhaseInv
  BY <1>2, <1>3 DEF Init, PhaseInv, HasKind, Waits
<1>5. DeathInv
  <2>1. \A s \in AllScopes : scope[s].active => s = Own
    <3>1. PICK r : r = [Scope(Own, 0) EXCEPT !.active = FALSE]
      OBVIOUS
    <3>2. /\ r = [active |-> FALSE, scopes |-> <<>>, parent |-> Own, index |-> 0]
          /\ Scope(Own, 0) = [active |-> TRUE, scopes |-> <<>>, parent |-> Own, index |-> 0]
      BY <3>1 DEF Scope
    <3>3. \A s \in AllScopes : scope[s] = [active |-> s = Own, scopes |-> <<>>, parent |-> Own, index |-> 0]
      BY <3>2 DEF Init, NoneConstructed, AllScopes, Scope
    <3>4. ASSUME NEW s \in AllScopes, s # Own PROVE ~scope[s].active
      <4>1. scope[s] = [active |-> FALSE, scopes |-> <<>>, parent |-> Own, index |-> 0]
        BY <3>3, <3>4
      <4> QED
        BY <4>1
    <3> QED
      BY <3>4
  <2>2. Own \in Within[Own]
    BY WithinFacts DEF AllScopes
  <2> QED
    BY <1>2, <1>3, <2>1, <2>2 DEF Init, DeathInv, HasKind
<1>6. EarlyInv
  BY <1>2, <1>3 DEF Init, EarlyInv
<1>7. AllKnow
  BY DEF Init, AllKnow
<1> QED
  BY <1>4, <1>5, <1>6, <1>7

LEMMA SightInductive ==
  ASSUME Reenters = FALSE, Detached = {}, "hook" \notin CreatedIn
  PROVE  Spec => [](BaseInv /\ PhaseInv /\ EarlyInv /\ AllKnow)
<1>1. Init => PhaseInv /\ DeathInv /\ EarlyInv /\ AllKnow
  BY SightInit
<1>2. (BaseInv /\ ScopesInv /\ RunsInv) /\ PhaseInv /\ DeathInv /\ EarlyInv /\ AllKnow /\ [Next]_vars
        => (PhaseInv /\ DeathInv /\ EarlyInv /\ AllKnow)'
  BY PhaseDeathNext, EarlyNext, KnowsNext, SightStutter DEF BaseInv
<1> QED
  BY <1>1, <1>2, RunsInductive, PTL DEF Spec

\* Whatever user code does, unless it creates a watcher in a hook after the mount, and
\* with no scope detached and no sync watcher whose code writes its own source: a live
\* watcher that nothing is going to run has seen the value its source has, whatever was
\* written, created, stopped or buffered before, every pre watcher that was triggered in
\* setup() has run before the component is mounted, and every effect has run once it is
\* (apiWatch.ts:273-352, lifecycle.ts:273-278).
THEOREM SeesCurrentValueCorrect ==
  ASSUME Reenters = FALSE, Detached = {}, "hook" \notin CreatedIn
  PROVE  Spec => []SeesCurrentValue
<1>1. ASSUME BaseInv, PhaseInv, EarlyInv, AllKnow PROVE SeesCurrentValue
  <2>1. /\ IsASeq(stack) /\ IsASeq(once) /\ IsASeq(buffer)
        /\ active \subseteq Made
    BY <1>1, SeqIsASeq DEF BaseInv, StackInv, InOrder, TypeInv
  <2>2. ASSUME NEW w \in active, ~IsPending(w), ~Contains(once, w), w \notin ownTrigger
        PROVE  Seen(w)
    <3>1. \A f \in Frames : f.w # w /\ ~Contains(f.todo, w)
      <4>1. \A f \in Frames : \E i \in DOMAIN stack : stack[i] = f
        BY DEF Frames, ToSet
      <4> QED
        BY <2>2, <4>1 DEF IsPending, IsRunning
    <3>2. RunsOf(w) = {}
      BY <3>1 DEF RunsOf
    <3>3. ASSUME NEW f \in Frames, f.kind \in {"pre", "once", "notify"} PROVE w \notin ToSet(f.todo)
      <4>1. IsASeq(f.todo)
        BY <1>1, <3>3, SeqIsASeq DEF BaseInv, StackInv, IsFrame
      <4> QED
        BY <3>1, <4>1, SetFacts
    <3>4. w \notin ToSet(once)
      BY <2>1, <2>2, SetFacts
    <3>5. ~Waits(w) /\ ~Lists("notify", w) /\ ~Lists("pre", w)
      BY <3>3, <3>4 DEF Waits, Lists
    <3>6. ~AwaitsMount(w)
      <4>1. ~isMounted => w \notin ToSet(buffer)
        BY <2>1, <2>2, SetFacts DEF IsPending
      <4> QED
        BY <1>1, <3>5, <4>1 DEF AwaitsMount, PhaseInv
    <3>7. ~Marked(w)
      BY <2>2, <3>2, <3>5, <3>6 DEF Marked, IsPending
    <3> QED
      BY <1>1, <3>2, <3>7 DEF AllKnow, Knows
  <2>3. ASSUME isMounted, NEW w \in early \intersect active PROVE FALSE
    <3>1. ~HasKind("setup") /\ ~HasKind("render") /\ ~HasKind("pre")
      BY <1>1, <2>3 DEF PhaseInv
    <3> QED
      BY <1>1, <2>3, <3>1 DEF AllKnow, Knows, AwaitsMount, Lists, HasKind
  <2>4. ASSUME stack = <<>>, NEW w \in active \intersect Effects PROVE old[w] # Initial
    <3>1. Frames = {}
      BY <2>4, SetFacts, EmptyIsASeq DEF Frames
    <3>2. once = <<>>
      BY <1>1, <3>1 DEF PhaseInv, HasKind
    <3>3. ~Waits(w) /\ RunsOf(w) = {}
      BY <3>1, <3>2, SetFacts, EmptyIsASeq DEF Waits, RunsOf
    <3> QED
      BY <1>1, <2>4, <3>3 DEF AllKnow, Knows, Evaluated
  <2> QED
    BY <2>2, <2>3, <2>4 DEF SeesCurrentValue, Seen
<1> QED
  BY <1>1, SightInductive, PTL
=============================================================================
