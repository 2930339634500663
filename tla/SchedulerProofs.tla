--------------------------- MODULE SchedulerProofs ---------------------------
(***************************************************************************)
(* Proofs about Scheduler, for every set of watchers and every user        *)
(* program: type correctness, the agreement of pending with the microtasks *)
(* and of waiting and flushing with the one flush they stand for.          *)
(***************************************************************************)
EXTENDS Scheduler, TLAPS

\* A function on 1 .. n is a sequence.
LEMMA FunctionIsSequence ==
  ASSUME NEW S, NEW n \in Nat, NEW f \in [1 .. n -> S]
  PROVE  f \in Seq(S) /\ Len(f) = n
OBVIOUS

\* The empty sequence has every type.
LEMMA EmptyType == ASSUME NEW S PROVE <<>> \in Seq(S)
OBVIOUS

\* Counting up keeps a function a function into the naturals.
LEMMA Incremented ==
  ASSUME NEW S, NEW f \in [S -> Nat], NEW x
  PROVE  [f EXCEPT ![x] = @ + 1] \in [S -> Nat]
<1>1. CASE x \in S
  BY <1>1
<1>2. CASE x \notin S
  BY <1>2
<1> QED
  BY <1>1, <1>2

\* The queue with one watcher spliced in is a queue one longer.
LEMMA SplicedType ==
  ASSUME NEW s \in Seq(Watchers), NEW w \in Watchers, NEW p \in 1 .. Len(s) + 1
  PROVE  /\ Spliced(s, p, w) \in Seq(Watchers)
         /\ Len(Spliced(s, p, w)) = Len(s) + 1
         /\ DOMAIN Spliced(s, p, w) = 1 .. Len(s) + 1
<1> DEFINE t == Spliced(s, p, w)
<1>1. \A i \in 1 .. Len(s) + 1 :
        (IF i < p THEN s[i] ELSE IF i = p THEN w ELSE s[i - 1]) \in Watchers
  OBVIOUS
<1>2. t \in [1 .. Len(s) + 1 -> Watchers]
  BY <1>1 DEF Spliced
<1> QED
  BY <1>2

\* Sorting keeps the type and the length of the queue.
LEMMA SortedType ==
  ASSUME queue \in Seq(Watchers), NEW s \in SortedQueues
  PROVE  s \in Seq(Watchers) /\ Len(s) = Len(queue)
<1>1. Elements(queue) \subseteq Watchers
  BY DEF Elements
<1>2. s \in [1 .. Len(queue) -> Watchers]
  BY <1>1 DEF SortedQueues
<1> QED
  BY <1>2

\* The hooks of a flush are well typed.
LEMMA FinishLoopType ==
  ASSUME TypeOK, FinishLoop, ConstantsAssumption
  PROVE  /\ hooks' \in Seq({"activated", "updated"} \X Watchers)
         /\ queue' = <<>> /\ activated' = <<>> /\ index' = 0 /\ has' = {}
         /\ circular' \in [Watchers -> Nat]
         /\ waiting' = FALSE /\ flushing' = FALSE /\ pc' = "hooks"
<1> DEFINE H == {"activated", "updated"} \X Watchers
           a == [i \in 1 .. Len(activated) |-> <<"activated", activated[i]>>]
           u == [i \in 1 .. Len(queue) |-> <<"updated", queue[Len(queue) + 1 - i]>>]
<1>1. \A i \in 1 .. Len(activated) : <<"activated", activated[i]>> \in H
  <2>1. \A i \in 1 .. Len(activated) : activated[i] \in Render
    BY DEF TypeOK
  <2>2. \A i \in 1 .. Len(activated) : activated[i] \in Watchers
    BY <2>1 DEF ConstantsAssumption
  <2> QED
    BY <2>2
<1>2. a \in Seq(H)
  <2>1. a \in [1 .. Len(activated) -> H]
    BY <1>1
  <2>2. Len(activated) \in Nat
    BY DEF TypeOK
  <2> HIDE DEF H, a
  <2> QED
    BY <2>1, <2>2, FunctionIsSequence
<1>3. \A i \in 1 .. Len(queue) : <<"updated", queue[Len(queue) + 1 - i]>> \in H
  <2> TAKE i \in 1 .. Len(queue)
  <2>1. Len(queue) + 1 - i \in 1 .. Len(queue)
    BY DEF TypeOK
  <2>2. queue[Len(queue) + 1 - i] \in Watchers
    BY <2>1 DEF TypeOK
  <2> QED
    BY <2>2
<1>4. u \in Seq(H)
  <2>1. u \in [1 .. Len(queue) -> H]
    BY <1>3
  <2>2. Len(queue) \in Nat
    BY DEF TypeOK
  <2> HIDE DEF H, u
  <2> QED
    BY <2>1, <2>2, FunctionIsSequence
<1>5. hooks' = a \o u
  BY DEF FinishLoop
<1>6. a \o u \in Seq(H)
  <2> HIDE DEF H, a, u
  <2> QED
    BY <1>2, <1>4
<1> QED
  BY <1>5, <1>6 DEF FinishLoop, ResetSchedulerState
-----------------------------------------------------------------------------
(***************************************************************************)
(* Type correctness.                                                       *)
(***************************************************************************)

\* nextTick keeps the types of the tick variables.
LEMMA NextTickType ==
  ASSUME TypeOK, NEW cb \in Callbacks \union {Flush}, NextTickOf(cb)
  PROVE  /\ callbacks' \in Seq(Callbacks \union {Flush})
         /\ pending' = TRUE /\ ticks' \in Nat /\ copies' = copies
BY DEF TypeOK, NextTickOf

\* So does queueWatcher, together with those of the queue.
LEMMA QueueWatcherType ==
  ASSUME TypeOK, NEW w \in Watchers, QueueWatcher(w)
  PROVE  /\ queue' \in Seq(Watchers) /\ has' \subseteq Watchers
         /\ waiting' \in BOOLEAN
         /\ callbacks' \in Seq(Callbacks \union {Flush})
         /\ pending' \in BOOLEAN /\ ticks' \in Nat /\ copies' = copies
         /\ UNCHANGED <<circular, flushing, index, activated>>
<1>1. CASE w \in has \/ SelfTrigger(w)
  BY <1>1 DEF TypeOK, QueueWatcher, queueVars, tickVars
<1>2. CASE ~(w \in has \/ SelfTrigger(w))
  <2>1. queue' \in Seq(Watchers)
    <3>1. CASE flushing
      <4>1. PICK p \in 1 .. Len(queue) + 1 : queue' = Spliced(queue, p, w)
        BY <1>2, <3>1 DEF QueueWatcher, Enqueued
      <4> QED
        BY <4>1, SplicedType DEF TypeOK
    <3>2. CASE ~flushing
      <4>1. queue' = Append(queue, w)
        BY <1>2, <3>2 DEF QueueWatcher, Enqueued
      <4> QED
        BY <4>1 DEF TypeOK
    <3> QED
      BY <3>1, <3>2
  <2>2. RequestFlush
    BY <1>2 DEF QueueWatcher
  <2>3. /\ callbacks' \in Seq(Callbacks \union {Flush})
        /\ pending' \in BOOLEAN /\ ticks' \in Nat /\ copies' = copies
    <3>1. CASE waiting
      BY <2>2, <3>1 DEF RequestFlush, TypeOK, tickVars
    <3>2. CASE ~waiting
      BY <2>2, <3>2, NextTickType DEF RequestFlush
    <3> QED
      BY <3>1, <3>2
  <2> QED
    BY <1>2, <2>1, <2>3 DEF QueueWatcher, TypeOK
<1> QED
  BY <1>1, <1>2

\* The variables keep their types, for every program and every exception.
THEOREM TypeCorrect == Spec => []TypeOK
<1> USE DEF vars, queueVars, tickVars, vmVars, ghosts, InTick, InFlush, InHooks
<1>1. Init => TypeOK
  <2> SUFFICES ASSUME Init PROVE TypeOK
    OBVIOUS
  <2>1. /\ queue \in Seq(Watchers) /\ activated \in Seq(Render)
        /\ callbacks \in Seq(Callbacks \union {Flush})
        /\ copies \in Seq(Callbacks \union {Flush})
        /\ hooks \in Seq({"activated", "updated"} \X Watchers)
    BY EmptyType DEF Init
  <2> QED
    BY <2>1 DEF Init, TypeOK
<1>2. TypeOK /\ [Next]_vars => TypeOK'
  <2> SUFFICES ASSUME TypeOK, [Next]_vars PROVE TypeOK'
    OBVIOUS
  <2>1. ASSUME NEW w \in Watchers, Trigger(w) PROVE TypeOK'
    <3>1. QueueWatcher(w)
      BY <2>1 DEF Trigger
    <3> QED
      BY <2>1, <3>1, QueueWatcherType, SMTT(30) DEF Trigger, UserOp, TypeOK
  <2>2. ASSUME NEW w \in Watchers, Teardown(w) PROVE TypeOK'
    BY <2>2 DEF Teardown, Forget, UserOp, TypeOK
  <2>3. ASSUME NEW r \in Render, Destroy(r) PROVE TypeOK'
    BY <2>3 DEF Destroy, Forget, UserOp, TypeOK
  <2>4. ASSUME NEW r \in Render, QueueActivated(r) PROVE TypeOK'
    BY <2>4 DEF QueueActivated, UserOp, TypeOK
  <2>5. ASSUME NEW c \in Callbacks, NextTick(c) PROVE TypeOK'
    <3>1. NextTickOf(c)
      BY <2>5 DEF NextTick
    <3> QED
      <4>1. owed' \in [Callbacks -> SUBSET active']
        <5>1. owed' = [owed EXCEPT ![c] = need] /\ active' = active
          BY <2>5 DEF NextTick
        <5>2. owed \in [Callbacks -> SUBSET active] /\ need \in SUBSET active
          BY DEF TypeOK
        <5> QED
          BY <5>1, <5>2
      <4>2. UNCHANGED <<queueVars, hooks, vmVars, pc, need, runs, dropped>> /\ ops' \in Nat
        BY <2>5 DEF NextTick, UserOp, TypeOK
      <4> QED
        BY <3>1, <4>1, <4>2, NextTickType DEF TypeOK
  <2>6. CASE BeginTick
    <3>1. callbacks' \in Seq(Callbacks \union {Flush})
      BY <2>6, EmptyType DEF BeginTick
    <3>2. /\ copies' = callbacks /\ ticks' \in Nat /\ pending' = FALSE /\ pc' = "tick"
          /\ UNCHANGED <<queueVars, hooks, vmVars, ops, ghosts>>
      BY <2>6 DEF BeginTick, TypeOK
    <3> QED
      BY <3>1, <3>2 DEF TypeOK
  <2>7. CASE BeginCallback
    BY <2>7 DEF BeginCallback, TypeOK
  <2>8. CASE EndCallback \/ EndTick
    BY <2>8 DEF EndCallback, EndTick, TypeOK
  <2>9. CASE BeginFlush
    <3>1. queue' \in Seq(Watchers)
      BY <2>9, SortedType DEF BeginFlush, TypeOK
    <3> QED
      BY <2>9, <3>1 DEF BeginFlush, TypeOK
  <2>10. CASE BeginBefore
    BY <2>10 DEF BeginBefore, TypeOK
  <2>11. CASE BeginRun
    <3>1. CASE Current \in active
      <4>1. owed' \in [Callbacks -> SUBSET active']
        <5>1. /\ owed' = [c \in Callbacks |-> owed[c] \ {Current}]
              /\ active' = active
          BY <2>11, <3>1 DEF BeginRun
        <5>2. owed \in [Callbacks -> SUBSET active]
          BY DEF TypeOK
        <5> HIDE DEF Current
        <5> QED
          BY <5>1, <5>2
      <4>2. runs' \in [Watchers -> Nat]
        <5>1. runs' = [runs EXCEPT ![Current] = @ + 1]
          BY <2>11, <3>1 DEF BeginRun
        <5>2. runs \in [Watchers -> Nat]
          BY DEF TypeOK
        <5> QED
          BY <5>1, <5>2, Incremented
      <4>3. pc' = "run" /\ index' = index /\ has' \subseteq has /\ need' \subseteq need
        BY <2>11, <3>1 DEF BeginRun
      <4>4. UNCHANGED <<queue, circular, waiting, flushing, activated, tickVars,
                        hooks, vmVars, ops, dropped>>
        BY <2>11 DEF BeginRun
      <4> QED
        BY <4>1, <4>2, <4>3, <4>4 DEF TypeOK
    <3>2. CASE Current \notin active
      BY <2>11, <3>2 DEF BeginRun, TypeOK
    <3> QED
      BY <3>1, <3>2
  <2>12. CASE EndRun
    BY <2>12 DEF EndRun, TypeOK
  <2>13. CASE BreakFlush
    <3>1. FinishLoop
      BY <2>13 DEF BreakFlush
    <3>2. dropped' \subseteq Watchers
      BY <2>13 DEF BreakFlush, Ahead, TypeOK
    <3>3. owed' \in [Callbacks -> SUBSET active'] /\ need' \subseteq active'
      BY <2>13 DEF BreakFlush, TypeOK
    <3>4. queue' \in Seq(Watchers) /\ activated' \in Seq(Render)
      BY <3>1, FinishLoopType, ConstantsAssumption, EmptyType
    <3>5. hooks' \in Seq({"activated", "updated"} \X Watchers)
      BY <3>1, FinishLoopType, ConstantsAssumption
    <3>6. /\ index' = 0 /\ has' = {} /\ waiting' = FALSE /\ flushing' = FALSE
          /\ circular' \in [Watchers -> Nat] /\ pc' = "hooks"
      BY <3>1, FinishLoopType, ConstantsAssumption
    <3> QED
      BY <2>13, <3>2, <3>3, <3>4, <3>5, <3>6 DEF BreakFlush, TypeOK
  <2>14. CASE RunThrows
    BY <2>14 DEF RunThrows, TypeOK
  <2>15. CASE EndLoop
    <3>1. FinishLoop
      BY <2>15 DEF EndLoop
    <3>2. queue' \in Seq(Watchers) /\ activated' \in Seq(Render)
      BY <3>1, FinishLoopType, ConstantsAssumption, EmptyType
    <3>3. hooks' \in Seq({"activated", "updated"} \X Watchers)
      BY <3>1, FinishLoopType, ConstantsAssumption
    <3>4. /\ index' = 0 /\ has' = {} /\ waiting' = FALSE /\ flushing' = FALSE
          /\ circular' \in [Watchers -> Nat] /\ pc' = "hooks"
      BY <3>1, FinishLoopType, ConstantsAssumption
    <3> QED
      BY <2>15, <3>2, <3>3, <3>4 DEF EndLoop, TypeOK
  <2>16. CASE BeginHook
    BY <2>16 DEF BeginHook, TypeOK
  <2>17. CASE EndHook \/ EndFlush
    BY <2>17 DEF EndHook, EndFlush, TypeOK
  <2>18. CASE UNCHANGED vars
    BY <2>18 DEF TypeOK
  <2> QED
    BY <2>1, <2>2, <2>3, <2>4, <2>5, <2>6, <2>7, <2>8, <2>9, <2>10, <2>11,
       <2>12, <2>13, <2>14, <2>15, <2>16, <2>17, <2>18
       DEF Next, User, Engine
<1> QED
  BY <1>1, <1>2, PTL DEF Spec
-----------------------------------------------------------------------------
(***************************************************************************)
(* The ticks: pending counts the microtasks.                               *)
(***************************************************************************)

\* What nextTick does to the callbacks, position by position.
LEMMA AppendedCallback ==
  ASSUME TypeOK, NEW cb \in Callbacks \union {Flush}, NextTickOf(cb)
  PROVE  /\ DOMAIN callbacks' = 1 .. Len(callbacks) + 1
         /\ DOMAIN callbacks = 1 .. Len(callbacks)
         /\ Len(callbacks) \in Nat
         /\ \A i \in 1 .. Len(callbacks) : callbacks'[i] = callbacks[i]
         /\ callbacks'[Len(callbacks) + 1] = cb
         /\ callbacks' # <<>>
         /\ copies' = copies
<1>1. callbacks \in Seq(Callbacks \union {Flush})
  BY DEF TypeOK
<1>2. callbacks' = Append(callbacks, cb) /\ copies' = copies
  BY DEF NextTickOf
<1>3. /\ DOMAIN callbacks' = 1 .. Len(callbacks) + 1
      /\ DOMAIN callbacks = 1 .. Len(callbacks)
      /\ Len(callbacks) \in Nat
  BY <1>1, <1>2
<1>4. /\ \A i \in 1 .. Len(callbacks) : callbacks'[i] = callbacks[i]
      /\ callbacks'[Len(callbacks) + 1] = cb
  BY <1>1, <1>2
<1>5. callbacks' # <<>>
  BY <1>1, <1>2, <1>3
<1> QED
  BY <1>2, <1>3, <1>4, <1>5

\* What taking the first callback of the tick does to the rest.
LEMMA TakenCallback ==
  ASSUME TypeOK, copies # <<>>, copies' = Tail(copies)
  PROVE  /\ DOMAIN copies' = 1 .. Len(copies) - 1
         /\ DOMAIN copies = 1 .. Len(copies)
         /\ Len(copies) \in Nat \ {0}
         /\ \A i \in DOMAIN copies' : copies'[i] = copies[i + 1] /\ i + 1 \in DOMAIN copies
         /\ DOMAIN copies' \subseteq Nat \ {0}
         /\ Head(copies) = copies[1]
BY DEF TypeOK

\* queueWatcher leaves the ticks alone or asks nextTick for a flush.
LEMMA QueueWatcherTicks ==
  ASSUME NEW w \in Watchers, QueueWatcher(w)
  PROVE  UNCHANGED tickVars \/ NextTickOf(Flush)
BY DEF QueueWatcher, RequestFlush

\* One flushCallbacks job is in the microtask queue exactly when pending is
\* set (next-tick.ts:107-110), whatever the program does.
THEOREM OneTickCorrect == Spec => []OneTick
<1> USE DEF vars, queueVars, tickVars, vmVars, ghosts
<1>1. Init => OneTick
  BY DEF Init, OneTick
<1>2. TypeOK /\ OneTick /\ [Next]_vars => OneTick'
  <2> SUFFICES ASSUME TypeOK, OneTick, [Next]_vars PROVE OneTick'
    OBVIOUS
  <2>1. ASSUME NEW cb \in Callbacks \union {Flush}, NextTickOf(cb) PROVE OneTick'
    BY <2>1, AppendedCallback DEF NextTickOf, OneTick, TypeOK
  <2>2. CASE UNCHANGED tickVars
    BY <2>2 DEF OneTick
  <2>3. ASSUME NEW w \in Watchers, Trigger(w) PROVE OneTick'
    BY <2>1, <2>2, <2>3, QueueWatcherTicks DEF Trigger
  <2>4. ASSUME NEW c \in Callbacks, NextTick(c) PROVE OneTick'
    BY <2>1, <2>4 DEF NextTick
  <2>5. CASE BeginTick
    BY <2>5 DEF BeginTick, OneTick, TypeOK
  <2>6. CASE BeginCallback \/ BeginFlush
    BY <2>6 DEF BeginCallback, BeginFlush, OneTick
  <2>7. CASE \/ \E w \in Watchers : Teardown(w)
             \/ \E r \in Render : Destroy(r) \/ QueueActivated(r)
             \/ EndCallback \/ EndTick \/ BeginBefore \/ BeginRun \/ EndRun \/ BreakFlush
             \/ RunThrows \/ EndLoop \/ BeginHook \/ EndHook \/ EndFlush
    BY <2>2, <2>7 DEF Teardown, Destroy, QueueActivated, EndCallback, EndTick,
         BeginBefore, BeginRun, EndRun, BreakFlush, RunThrows, EndLoop, BeginHook,
         EndHook, EndFlush
  <2> QED
    BY <2>2, <2>3, <2>4, <2>5, <2>6, <2>7 DEF Next, User, Engine
<1> QED
  BY <1>1, <1>2, TypeCorrect, PTL DEF Spec

-----------------------------------------------------------------------------
(***************************************************************************)
(* The flags.  Flags and Alive hold whether or not runs throw; that a      *)
(* flush that began goes on is lost when an exception leaves a run.        *)
(***************************************************************************)
Flags ==
  /\ InNextTick \/ InThisTick \/ flushing => waiting
  /\ InNextTick \/ InThisTick => ~flushing
  /\ pc \in InFlush => flushing
  /\ pc = "idle" => copies = <<>>
  /\ InNextTick => ~InThisTick
  /\ \A i, j \in DOMAIN callbacks : callbacks[i] = Flush /\ callbacks[j] = Flush => i = j
  /\ \A i, j \in DOMAIN copies : copies[i] = Flush /\ copies[j] = Flush => i = j

Alive == waiting => InNextTick \/ InThisTick \/ flushing

\* Asking for a flush that nobody waits for keeps the flags true.
LEMMA RequestedFlush ==
  ASSUME TypeOK, Flags, ~waiting, NextTickOf(Flush), waiting' = TRUE,
         UNCHANGED <<flushing, pc>>
  PROVE  Flags' /\ InNextTick'
<1>1. ~InNextTick /\ ~InThisTick /\ ~flushing
  BY DEF Flags
<1>2. copies' = copies /\ ~InThisTick'
  BY <1>1, AppendedCallback DEF InThisTick
<1>3. InNextTick'
  BY AppendedCallback DEF InNextTick
<1>4. \A i, j \in DOMAIN callbacks' :
        callbacks'[i] = Flush /\ callbacks'[j] = Flush => i = j
  <2>1. \A i \in 1 .. Len(callbacks) : callbacks'[i] # Flush
    BY <1>1, AppendedCallback DEF InNextTick
  <2> QED
    BY <2>1, AppendedCallback
<1> QED
  BY <1>1, <1>2, <1>3, <1>4 DEF Flags

\* A callback that is not the flush leaves the flush where it is.
LEMMA OtherCallback ==
  ASSUME TypeOK, NEW c \in Callbacks, NextTickOf(c), ConstantsAssumption
  PROVE  /\ InNextTick' <=> InNextTick
         /\ InThisTick' <=> InThisTick
         /\ Flags => \A i, j \in DOMAIN callbacks' :
              callbacks'[i] = Flush /\ callbacks'[j] = Flush => i = j
<1>1. c # Flush
  BY DEF ConstantsAssumption
<1>2. \A i \in DOMAIN callbacks' : callbacks'[i] = Flush =>
        i \in DOMAIN callbacks /\ callbacks[i] = Flush
  BY <1>1, AppendedCallback
<1>3. \A i \in DOMAIN callbacks : i \in DOMAIN callbacks' /\ callbacks'[i] = callbacks[i]
  BY AppendedCallback
<1>4. copies' = copies
  BY AppendedCallback
<1> QED
  BY <1>2, <1>3, <1>4 DEF Flags, InNextTick, InThisTick

\* The flags stay true in every step.
LEMMA FlagsStep ==
  ASSUME TypeOK, Flags, [Next]_vars, ConstantsAssumption
  PROVE  Flags'
<1> USE DEF vars, queueVars, tickVars, vmVars, ghosts, InTick, InFlush, InHooks
<1>1. ASSUME UNCHANGED <<waiting, flushing, callbacks, copies>>,
             pc' \in InFlush => pc \in InFlush, pc' = "idle" => copies = <<>>
      PROVE  Flags'
  BY <1>1 DEF Flags, InNextTick, InThisTick
<1>2. ASSUME NEW w \in Watchers, Trigger(w) PROVE Flags'
  <2>1. QueueWatcher(w) /\ pc' = pc
    BY <1>2 DEF Trigger
  <2>2. CASE UNCHANGED <<queueVars, tickVars>>
    BY <1>1, <2>1, <2>2 DEF Flags
  <2>3. CASE waiting' = TRUE /\ flushing' = flushing /\ RequestFlush
    <3>1. CASE waiting
      BY <2>1, <2>3, <3>1 DEF RequestFlush, Flags, InNextTick, InThisTick
    <3>2. CASE ~waiting
      BY <2>1, <2>3, <3>2, RequestedFlush DEF RequestFlush
    <3> QED
      BY <3>1, <3>2
  <2> QED
    BY <2>1, <2>2, <2>3 DEF QueueWatcher
<1>3. ASSUME NEW c \in Callbacks, NextTick(c) PROVE Flags'
  <2>1. NextTickOf(c) /\ UNCHANGED <<waiting, flushing, pc>>
    BY <1>3 DEF NextTick
  <2>2. InThisTick' <=> InThisTick
    BY <2>1, OtherCallback
  <2>3. copies' = copies
    BY <2>1, AppendedCallback
  <2> QED
    BY <2>1, <2>2, <2>3, OtherCallback DEF Flags
<1>4. CASE BeginTick
  <2>1. /\ copies' = callbacks /\ callbacks' = <<>> /\ pc' = "tick"
        /\ UNCHANGED <<waiting, flushing>>
    BY <1>4 DEF BeginTick
  <2>2. ~InNextTick' /\ (InThisTick' <=> InNextTick)
    BY <2>1 DEF InNextTick, InThisTick
  <2> QED
    BY <2>1, <2>2 DEF Flags
<1>5. CASE BeginCallback \/ BeginFlush
  <2>1. copies # <<>> /\ copies' = Tail(copies) /\ callbacks' = callbacks
    BY <1>5 DEF BeginCallback, BeginFlush
  <2>2. /\ InNextTick' <=> InNextTick
        /\ InThisTick' => InThisTick
    BY <2>1, TakenCallback DEF InNextTick, InThisTick
  <2>3. \A i, j \in DOMAIN copies' : copies'[i] = Flush /\ copies'[j] = Flush => i = j
    <3> SUFFICES ASSUME NEW i \in DOMAIN copies', NEW j \in DOMAIN copies',
                        copies'[i] = Flush, copies'[j] = Flush
                 PROVE  i = j
      OBVIOUS
    <3>1. /\ i + 1 \in DOMAIN copies /\ copies[i + 1] = Flush
          /\ j + 1 \in DOMAIN copies /\ copies[j + 1] = Flush
      BY <2>1, TakenCallback
    <3>2. i + 1 = j + 1
      BY <3>1 DEF Flags
    <3>3. i \in Nat /\ j \in Nat
      BY <2>1, TakenCallback
    <3> QED
      BY <3>2, <3>3
  <2>4. CASE BeginCallback
    BY <2>1, <2>2, <2>3, <2>4 DEF BeginCallback, Flags
  <2>5. CASE BeginFlush
    <3>1. 1 \in DOMAIN copies /\ copies[1] = Flush
      BY <2>1, <2>5, TakenCallback DEF BeginFlush
    <3>2. InThisTick
      BY <3>1 DEF InThisTick
    <3>3. ~InThisTick'
      <4> SUFFICES ASSUME NEW i \in DOMAIN copies', copies'[i] = Flush PROVE FALSE
        BY DEF InThisTick
      <4>1. i + 1 \in DOMAIN copies /\ copies[i + 1] = Flush
        BY <2>1, TakenCallback
      <4>2. i + 1 = 1
        BY <3>1, <4>1 DEF Flags
      <4>3. i \in Nat \ {0}
        BY <2>1, TakenCallback
      <4> QED
        BY <4>2, <4>3
    <3> QED
      BY <2>1, <2>2, <2>3, <2>5, <3>2, <3>3 DEF BeginFlush, Flags
  <2> QED
    BY <1>5, <2>4, <2>5
<1>6. CASE BreakFlush \/ EndLoop
  <2>1. /\ waiting' = FALSE /\ flushing' = FALSE /\ pc' = "hooks"
        /\ UNCHANGED <<callbacks, copies>> /\ pc \in InFlush
    BY <1>6 DEF BreakFlush, EndLoop, FinishLoop, ResetSchedulerState
  <2> QED
    BY <2>1 DEF Flags, InNextTick, InThisTick
<1>7. CASE \/ \E w \in Watchers : Teardown(w)
           \/ \E r \in Render : Destroy(r) \/ QueueActivated(r)
    BY <1>1, <1>7 DEF Teardown, Destroy, QueueActivated, Flags
<1>8. CASE EndCallback \/ EndTick \/ EndRun \/ RunThrows \/ BeginHook \/ EndHook \/ EndFlush
    BY <1>1, <1>8 DEF EndCallback, EndTick, EndRun, RunThrows, BeginHook, EndHook, EndFlush
<1>9. CASE BeginBefore \/ BeginRun
    BY <1>1, <1>9 DEF BeginBefore, BeginRun, More
<1>10. CASE UNCHANGED vars
    BY <1>1, <1>10 DEF Flags
<1> QED
  BY <1>2, <1>3, <1>4, <1>5, <1>6, <1>7, <1>8, <1>9, <1>10 DEF Next, User, Engine

\* A flush that is waited for is scheduled or has begun.
LEMMA AliveStep ==
  ASSUME TypeOK, Flags, Alive, [Next]_vars, ConstantsAssumption
  PROVE  Alive'
<1> USE DEF vars, queueVars, tickVars, vmVars, ghosts, InTick, InFlush, InHooks
<1>1. ASSUME UNCHANGED <<waiting, flushing, callbacks, copies>>
      PROVE  Alive'
  BY <1>1 DEF Alive, InNextTick, InThisTick
<1>2. ASSUME NEW w \in Watchers, Trigger(w) PROVE Alive'
  <2>1. QueueWatcher(w) /\ pc' = pc
    BY <1>2 DEF Trigger
  <2>2. CASE UNCHANGED <<queueVars, tickVars>>
    BY <1>1, <2>1, <2>2
  <2>3. CASE waiting' = TRUE /\ flushing' = flushing /\ RequestFlush
    <3>1. CASE waiting
      BY <2>1, <2>3, <3>1 DEF RequestFlush, Alive, InNextTick, InThisTick
    <3>2. CASE ~waiting
      BY <2>1, <2>3, <3>2, RequestedFlush DEF RequestFlush, Alive
    <3> QED
      BY <3>1, <3>2
  <2> QED
    BY <2>1, <2>2, <2>3 DEF QueueWatcher
<1>3. ASSUME NEW c \in Callbacks, NextTick(c) PROVE Alive'
  <2>1. NextTickOf(c) /\ UNCHANGED <<waiting, flushing, pc>>
    BY <1>3 DEF NextTick
  <2> QED
    BY <2>1, OtherCallback DEF Alive
<1>4. CASE BeginTick
  <2>1. /\ copies' = callbacks /\ pc = "idle" /\ UNCHANGED <<waiting, flushing>>
    BY <1>4 DEF BeginTick
  <2>2. InThisTick' <=> InNextTick
    BY <2>1 DEF InNextTick, InThisTick
  <2>3. ~InThisTick
    BY <2>1 DEF Flags, InThisTick
  <2> QED
    BY <2>1, <2>2, <2>3 DEF Alive
<1>5. CASE BeginCallback
  <2>1. /\ copies # <<>> /\ copies' = Tail(copies) /\ Head(copies) # Flush
        /\ UNCHANGED <<waiting, flushing, callbacks>> /\ pc = "tick"
    BY <1>5 DEF BeginCallback
  <2>2. InThisTick => InThisTick'
    <3> SUFFICES ASSUME NEW i \in DOMAIN copies, copies[i] = Flush PROVE InThisTick'
      BY DEF InThisTick
    <3>1. i \in 1 .. Len(copies) /\ Len(copies) \in Nat /\ i # 1
      BY <2>1, TakenCallback
    <3>2. (i - 1) \in 1 .. Len(copies) - 1 /\ (i - 1) + 1 = i
      BY <3>1
    <3>3. (i - 1) \in DOMAIN copies' /\ copies'[i - 1] = Flush
      BY <2>1, <3>2, TakenCallback
    <3> QED
      BY <3>3 DEF InThisTick
  <2> QED
    BY <2>1, <2>2 DEF Alive, InNextTick
<1>6. CASE BeginFlush
  BY <1>6 DEF BeginFlush, Alive
<1>7. CASE BreakFlush \/ EndLoop
  BY <1>7 DEF BreakFlush, EndLoop, FinishLoop, ResetSchedulerState, Alive
<1>8. CASE \/ \E w \in Watchers : Teardown(w)
           \/ \E r \in Render : Destroy(r) \/ QueueActivated(r)
  BY <1>1, <1>8 DEF Teardown, Destroy, QueueActivated
<1>9. CASE EndCallback \/ EndTick \/ BeginHook \/ EndHook \/ EndFlush
  BY <1>1, <1>9 DEF EndCallback, EndTick, BeginHook, EndHook, EndFlush
<1>10. CASE BeginBefore \/ BeginRun \/ EndRun
  BY <1>1, <1>10 DEF BeginBefore, BeginRun, EndRun
<1>11. CASE RunThrows
  BY <1>1, <1>11 DEF RunThrows
<1>12. CASE UNCHANGED vars
  BY <1>1, <1>12
<1> QED
  BY <1>2, <1>3, <1>4, <1>5, <1>6, <1>7, <1>8, <1>9, <1>10, <1>11, <1>12
     DEF Next, User, Engine

\* The flags are true of every program, with and without exceptions.
LEMMA FlagsCorrect == Spec => []Flags
<1>1. Init => Flags
  BY DEF Init, Flags, InNextTick, InThisTick, InFlush
<1>2. TypeOK /\ Flags /\ [Next]_vars => Flags'
  BY FlagsStep, ConstantsAssumption
<1> QED
  BY <1>1, <1>2, TypeCorrect, PTL DEF Spec

\* Until an exception leaves a run, waiting and flushing tell the truth: there is
\* one flush, and it is where they say it is (scheduler.ts:57, 74, 190).
THEOREM OneFlushCorrect == Spec => []OneFlush
<1>1. Init => Alive
  BY DEF Init, Alive
<1>2. TypeOK /\ Flags /\ Alive /\ [Next]_vars => Alive'
  BY AliveStep, ConstantsAssumption
<1>3. Flags /\ Alive => OneFlush
  BY DEF Flags, Alive, OneFlush, Stopped
<1> QED
  BY <1>1, <1>2, <1>3, TypeCorrect, FlagsCorrect, PTL DEF Spec

\* There is one tick and one flush, where pending, waiting and flushing say.
THEOREM FlagsTellTruthCorrect == Spec => []FlagsTellTruth
<1>1. OneTick /\ OneFlush => FlagsTellTruth
  BY DEF FlagsTellTruth
<1> QED
  BY <1>1, OneTickCorrect, OneFlushCorrect, PTL

\* After an exception has left a run, no step runs a watcher or begins a flush.
LEMMA StoppedStep ==
  ASSUME TypeOK, Flags, Stopped, [Next]_vars
  PROVE  Stopped' /\ runs' = runs
<1> USE DEF vars, queueVars, tickVars, vmVars, ghosts, InTick, InFlush, InHooks, Stopped
<1>1. ASSUME NEW w \in Watchers, Trigger(w) PROVE Stopped' /\ runs' = runs
  <2>1. flushing' = flushing
    BY <1>1 DEF Trigger, QueueWatcher
  <2> QED
    BY <1>1, <2>1 DEF Trigger
<1>2. ASSUME NEW c \in Callbacks, NextTick(c) PROVE Stopped' /\ runs' = runs
  BY <1>2 DEF NextTick
<1>3. CASE BeginFlush
  <2>1. 1 \in DOMAIN copies /\ copies[1] = Flush
    BY <1>3, TakenCallback DEF BeginFlush
  <2> QED
    BY <2>1 DEF Flags, InThisTick
<1>4. CASE \/ \E w \in Watchers : Teardown(w)
           \/ \E r \in Render : Destroy(r) \/ QueueActivated(r)
  BY <1>4 DEF Teardown, Destroy, QueueActivated
<1>5. CASE \/ BeginTick \/ BeginCallback \/ EndCallback \/ EndTick
           \/ BeginHook \/ EndHook \/ EndFlush
  BY <1>5 DEF BeginTick, BeginCallback, EndCallback, EndTick, BeginHook, EndHook, EndFlush
<1>6. CASE BeginBefore \/ BeginRun \/ EndRun \/ BreakFlush \/ RunThrows \/ EndLoop
  BY <1>6 DEF BeginBefore, BeginRun, EndRun, BreakFlush, RunThrows, EndLoop, More
<1>7. CASE UNCHANGED vars
  BY <1>7
<1> QED
  BY <1>1, <1>2, <1>3, <1>4, <1>5, <1>6, <1>7 DEF Next, User, Engine

\* Once an exception has left a run, no watcher ever runs again (scheduler.ts:98).
THEOREM StoppedForGoodCorrect == Spec => StoppedForGood
<1>1. TypeOK /\ Flags /\ [Next]_vars => (Stopped => Stopped' /\ runs' = runs)
  BY StoppedStep
<1>2. TypeOK /\ Flags /\ [Next]_vars => [Stopped => Stopped' /\ runs' = runs]_vars
  BY <1>1
<1> QED
  BY <1>2, TypeCorrect, FlagsCorrect, PTL DEF Spec, StoppedForGood

-----------------------------------------------------------------------------
(***************************************************************************)
(* The queue: has marks the watchers ahead of the flush, each once.        *)
(***************************************************************************)
QueueInv ==
  /\ HasIsQueued
  /\ flushing /\ pc # "loop" => index < Len(queue)
  /\ ~flushing => index = 0

\* queueWatcher puts w at some position p ahead of the flush and moves what
\* was there back by one.
LEMMA EnqueuedAt ==
  ASSUME TypeOK, QueueInv, NEW w \in Watchers, Enqueued(w)
  PROVE  \E p \in 1 .. Len(queue) + 1 :
           /\ p > Started
           /\ flushing => SplicePoint(p, w)
           /\ DOMAIN queue' = 1 .. Len(queue) + 1
           /\ Len(queue') = Len(queue) + 1
           /\ \A i \in 1 .. p - 1 : queue'[i] = queue[i]
           /\ queue'[p] = w
           /\ \A i \in p + 1 .. Len(queue) + 1 : queue'[i] = queue[i - 1]
<1>1. queue \in Seq(Watchers) /\ index \in Nat /\ Len(queue) \in Nat
  BY DEF TypeOK
<1>2. CASE flushing
  <2>1. PICK p \in 1 .. Len(queue) + 1 : SplicePoint(p, w) /\ queue' = Spliced(queue, p, w)
    BY <1>2 DEF Enqueued
  <2>2. p > Started
    BY <1>1, <2>1 DEF SplicePoint, Started
  <2>3. /\ DOMAIN queue' = 1 .. Len(queue) + 1
        /\ Len(queue') = Len(queue) + 1
    BY <1>1, <2>1, SplicedType
  <2>4. /\ \A i \in 1 .. p - 1 : queue'[i] = queue[i]
        /\ queue'[p] = w
        /\ \A i \in p + 1 .. Len(queue) + 1 : queue'[i] = queue[i - 1]
    BY <1>1, <2>1 DEF Spliced
  <2> QED
    BY <2>1, <2>2, <2>3, <2>4
<1>3. CASE ~flushing
  <2>1. queue' = Append(queue, w) /\ Started = 0
    BY <1>3 DEF Enqueued, QueueInv, Started
  <2>2. /\ DOMAIN queue' = 1 .. Len(queue) + 1
        /\ Len(queue') = Len(queue) + 1
        /\ \A i \in 1 .. Len(queue) : queue'[i] = queue[i]
        /\ queue'[Len(queue) + 1] = w
    BY <1>1, <2>1
  <2> QED
    BY <1>1, <1>3, <2>1, <2>2
<1> QED
  BY <1>2, <1>3

\* The watcher being turned to is not ahead of the flush once it has started.
LEMMA StartedBounds ==
  ASSUME TypeOK
  PROVE  /\ Started \in Nat
         /\ Started = index \/ Started = index + 1
         /\ DOMAIN queue = 1 .. Len(queue) /\ Len(queue) \in Nat
         /\ Ahead = { i \in 1 .. Len(queue) : i > Started }
BY DEF TypeOK, Started, Ahead

\* queueWatcher keeps has and the queue in agreement.
LEMMA QueueWatcherQueue ==
  ASSUME TypeOK, QueueInv, NEW w \in Watchers, QueueWatcher(w), pc' = pc
  PROVE  QueueInv'
<1>1. CASE w \in has \/ SelfTrigger(w)
  BY <1>1 DEF QueueWatcher, queueVars, QueueInv, HasIsQueued, Ahead, Started
<1>2. CASE ~(w \in has \/ SelfTrigger(w))
  <2>1. /\ w \notin has /\ has' = has \union {w} /\ Enqueued(w)
        /\ UNCHANGED <<flushing, index>>
    BY <1>2 DEF QueueWatcher
  <2>2. PICK p \in 1 .. Len(queue) + 1 :
           /\ p > Started
           /\ flushing => SplicePoint(p, w)
           /\ DOMAIN queue' = 1 .. Len(queue) + 1
           /\ Len(queue') = Len(queue) + 1
           /\ \A i \in 1 .. p - 1 : queue'[i] = queue[i]
           /\ queue'[p] = w
           /\ \A i \in p + 1 .. Len(queue) + 1 : queue'[i] = queue[i - 1]
    BY <2>1, EnqueuedAt
  <2>3. Started' = Started /\ Started \in Nat /\ Len(queue) \in Nat
    BY <2>1, StartedBounds DEF Started
  <2>4. Ahead' = { i \in 1 .. Len(queue) + 1 : i > Started }
    BY <2>2, <2>3 DEF Ahead
  <2>5. \A i \in Ahead' : \/ i = p
                          \/ i < p /\ i \in Ahead /\ queue'[i] = queue[i]
                          \/ i > p /\ i - 1 \in Ahead /\ queue'[i] = queue[i - 1]
    BY <2>2, <2>3, <2>4, StartedBounds
  <2>6. has' = { queue'[i] : i \in Ahead' }
    <3>1. ASSUME NEW i \in Ahead' PROVE queue'[i] \in has'
      BY <2>1, <2>2, <2>5 DEF QueueInv, HasIsQueued
    <3>2. ASSUME NEW x \in has' PROVE \E i \in Ahead' : queue'[i] = x
      <4>1. CASE x = w
        BY <2>2, <2>3, <2>4, <4>1
      <4>2. CASE x \in has
        <5>1. PICK i \in Ahead : queue[i] = x
          BY <4>2 DEF QueueInv, HasIsQueued
        <5>2. i \in 1 .. Len(queue) /\ i > Started
          BY StartedBounds
        <5>3. CASE i < p
          BY <2>2, <2>3, <2>4, <5>1, <5>2, <5>3
        <5>4. CASE i >= p
          <6>1. i + 1 \in p + 1 .. Len(queue) + 1 /\ (i + 1) - 1 = i
            BY <2>3, <5>2, <5>4
          <6>2. i + 1 \in Ahead' /\ queue'[i + 1] = x
            BY <2>2, <2>3, <2>4, <5>1, <5>2, <6>1
          <6> QED
            BY <6>2
        <5> QED
          BY <2>2, <2>3, <5>2, <5>3, <5>4
      <4> QED
        BY <2>1, <3>2, <4>1, <4>2
    <3> QED
      BY <3>1, <3>2
  <2>7. \A i, j \in Ahead' : queue'[i] = queue'[j] => i = j
    <3> SUFFICES ASSUME NEW i \in Ahead', NEW j \in Ahead', queue'[i] = queue'[j]
                 PROVE  i = j
      OBVIOUS
    <3>1. \A k \in Ahead : queue[k] # w
      BY <2>1 DEF QueueInv, HasIsQueued
    <3>2. i \in Nat /\ j \in Nat
      BY <2>3, <2>4
    <3> QED
      BY <2>2, <2>5, <3>1, <3>2 DEF QueueInv, HasIsQueued
  <2>8. /\ flushing' /\ pc' # "loop" => index' < Len(queue')
        /\ ~flushing' => index' = 0
    <3>1. index \in Nat
      BY DEF TypeOK
    <3> QED
      BY <2>1, <2>2, <2>3, <3>1 DEF QueueInv
  <2> QED
    BY <2>6, <2>7, <2>8 DEF QueueInv, HasIsQueued
<1> QED
  BY <1>1, <1>2

\* Every step keeps has and the queue in agreement.
LEMMA QueueStep ==
  ASSUME TypeOK, Flags, QueueInv, [Next]_vars, ConstantsAssumption
  PROVE  QueueInv'
<1> USE DEF vars, queueVars, tickVars, vmVars, ghosts, InTick, InFlush, InHooks
<1>1. ASSUME UNCHANGED <<queue, has, flushing, index>>,
             flushing => (pc \in {"loop", "before"} <=> pc' \in {"loop", "before"}),
             pc = "loop" /\ pc' # "loop" => index < Len(queue)
      PROVE  QueueInv'
  <2>1. Started' = Started
    BY <1>1 DEF Started
  <2>2. Ahead' = Ahead
    BY <1>1, <2>1 DEF Ahead
  <2> QED
    BY <1>1, <2>2 DEF QueueInv, HasIsQueued
<1>2. ASSUME NEW w \in Watchers, Trigger(w) PROVE QueueInv'
  BY <1>2, QueueWatcherQueue DEF Trigger
<1>3. CASE \/ \E w \in Watchers : Teardown(w)
           \/ \E r \in Render : Destroy(r) \/ QueueActivated(r)
           \/ \E c \in Callbacks : NextTick(c)
           \/ UNCHANGED vars
  BY <1>1, <1>3 DEF Teardown, Destroy, QueueActivated, NextTick
<1>4. CASE \/ BeginTick \/ BeginCallback \/ EndCallback \/ EndTick
           \/ BeginHook \/ EndHook \/ EndFlush
  BY <1>1, <1>4 DEF BeginTick, BeginCallback, EndCallback, EndTick,
       BeginHook, EndHook, EndFlush
<1>5. CASE BeginFlush
  <2>1. /\ queue' \in SortedQueues /\ index' = 0 /\ flushing' = TRUE /\ pc' = "loop"
        /\ has' = has
    BY <1>5 DEF BeginFlush
  <2>2. InThisTick
    <3>1. 1 \in DOMAIN copies /\ copies[1] = Flush
      BY <1>5 DEF BeginFlush, TypeOK
    <3> QED
      BY <3>1 DEF InThisTick
  <2>3. ~flushing
    BY <2>2 DEF Flags
  <2>4. Started = 0 /\ Started' = 0
    BY <2>1, <2>3 DEF Started, QueueInv
  <2>5. Len(queue') = Len(queue) /\ Elements(queue') = Elements(queue)
    BY <2>1, SortedType DEF SortedQueues, TypeOK
  <2>6. Ahead = DOMAIN queue /\ Ahead' = DOMAIN queue'
    <3>1. queue' \in Seq(Watchers)
      BY <2>1, SortedType DEF TypeOK
    <3>2. \A i \in DOMAIN queue' : i > 0
      BY <3>1
    <3>3. \A i \in DOMAIN queue : i > 0
      BY DEF TypeOK
    <3> QED
      BY <2>4, <3>2, <3>3 DEF Ahead
  <2>7. has' = { queue'[i] : i \in Ahead' }
    BY <2>1, <2>5, <2>6 DEF QueueInv, HasIsQueued, Elements
  <2>8. \A i, j \in Ahead' : queue'[i] = queue'[j] => i = j
    <3>1. queue' \in Seq(Watchers) /\ Ahead' = 1 .. Len(queue)
      BY <2>1, <2>6, SortedType DEF TypeOK
    <3>2. \A i, j \in 1 .. Len(queue) : i < j => RunsBefore(queue'[i], queue'[j])
      BY <2>1 DEF SortedQueues
    <3>3. \A x \in Watchers : ~RunsBefore(x, x)
      BY ConstantsAssumption DEF RunsBefore, ConstantsAssumption
    <3>4. \A i, j \in 1 .. Len(queue) : i < j => queue'[i] # queue'[j]
      <4> SUFFICES ASSUME NEW i \in 1 .. Len(queue), NEW j \in 1 .. Len(queue), i < j,
                          queue'[i] = queue'[j]
                   PROVE  FALSE
        OBVIOUS
      <4>1. queue'[i] \in Watchers
        BY <2>5, <3>1
      <4>2. RunsBefore(queue'[i], queue'[j])
        BY <3>2
      <4>3. RunsBefore(queue'[i], queue'[i])
        BY <4>2
      <4> QED
        BY <3>3, <4>1, <4>3
    <3>5. Len(queue) \in Nat
      BY DEF TypeOK
    <3> QED
      BY <3>1, <3>4, <3>5
  <2> QED
    BY <2>1, <2>7, <2>8 DEF QueueInv, HasIsQueued
<1>6. CASE BeginBefore
  BY <1>1, <1>6 DEF BeginBefore, More
<1>7. CASE BeginRun
  <2>1. /\ has' = has \ {Current} /\ UNCHANGED <<queue, flushing>> /\ flushing
        /\ pc \in {"loop", "before"}
    BY <1>7 DEF BeginRun, More, Flags
  <2>2. index < Len(queue) /\ index \in Nat /\ Len(queue) \in Nat
    BY <1>7, <2>1 DEF BeginRun, More, QueueInv, TypeOK
  <2>3. Started = index /\ Started' = index + 1
    BY <1>7, <2>1 DEF BeginRun, Started
  <2>4. Ahead = { i \in 1 .. Len(queue) : i > index }
    BY <2>3, StartedBounds
  <2>5. Ahead' = { i \in 1 .. Len(queue) : i > index + 1 }
    BY <2>1, <2>3, StartedBounds DEF Ahead
  <2>6. index + 1 \in Ahead /\ Ahead' = Ahead \ {index + 1}
    BY <2>2, <2>4, <2>5
  <2>7. has' = { queue'[i] : i \in Ahead' }
    BY <2>1, <2>6 DEF QueueInv, HasIsQueued, Current
  <2>8. \A i, j \in Ahead' : queue'[i] = queue'[j] => i = j
    BY <2>1, <2>6 DEF QueueInv, HasIsQueued
  <2>9. flushing' /\ pc' # "loop" => index' < Len(queue')
    BY <1>7, <2>1, <2>2 DEF BeginRun
  <2> QED
    BY <2>1, <2>7, <2>8, <2>9 DEF QueueInv, HasIsQueued
<1>8. CASE EndRun
  <2>1. UNCHANGED <<queue, has, flushing>> /\ flushing /\ pc' = "loop"
    BY <1>8 DEF EndRun, Flags
  <2>2. Started' = Started
    BY <1>8, <2>1 DEF EndRun, Started
  <2>3. Ahead' = Ahead
    BY <2>1, <2>2 DEF Ahead
  <2> QED
    BY <2>1, <2>3 DEF QueueInv, HasIsQueued
<1>9. CASE BreakFlush \/ EndLoop
  <2>1. queue' = <<>> /\ has' = {} /\ index' = 0 /\ flushing' = FALSE
    BY <1>9 DEF BreakFlush, EndLoop, FinishLoop, ResetSchedulerState
  <2>2. Ahead' = {}
    BY <2>1 DEF Ahead
  <2> QED
    BY <2>1, <2>2 DEF QueueInv, HasIsQueued
<1>10. CASE RunThrows
  BY <1>1, <1>10 DEF RunThrows
<1> QED
  BY <1>2, <1>3, <1>4, <1>5, <1>6, <1>7, <1>8, <1>9, <1>10 DEF Next, User, Engine

\* The queue invariant holds with and without exceptions.
LEMMA QueueCorrect == Spec => []QueueInv
<1>1. Init => QueueInv
  BY DEF Init, QueueInv, HasIsQueued, Ahead
<1>2. TypeOK /\ Flags /\ QueueInv /\ [Next]_vars => QueueInv'
  BY QueueStep, ConstantsAssumption
<1> QED
  BY <1>1, <1>2, TypeCorrect, FlagsCorrect, PTL DEF Spec

\* has[id] is set exactly for the watchers that lie ahead of the flush, each of
\* which lies there once (scheduler.ts:164, 177-188).
THEOREM HasIsQueuedCorrect == Spec => []HasIsQueued
<1>1. QueueInv => HasIsQueued
  BY DEF QueueInv
<1> QED
  BY <1>1, QueueCorrect, PTL
-----------------------------------------------------------------------------
(***************************************************************************)
(* No trigger is lost.                                                     *)
(***************************************************************************)
NeedInv ==
  /\ need \subseteq has
  /\ has # {} => waiting

\* Every step keeps the triggers that wait among the marked watchers.
LEMMA NeedStep ==
  ASSUME TypeOK, Flags, QueueInv, NeedInv, [Next]_vars
  PROVE  NeedInv'
<1> USE DEF vars, queueVars, tickVars, vmVars, ghosts, InTick, InFlush, InHooks
<1>1. ASSUME UNCHANGED <<has, waiting>>, need' \subseteq need PROVE NeedInv'
  BY <1>1 DEF NeedInv
<1>2. ASSUME NEW w \in Watchers, Trigger(w) PROVE NeedInv'
  BY <1>2 DEF Trigger, QueueWatcher, NeedInv
<1>3. CASE \/ \E w \in Watchers : Teardown(w)
           \/ \E r \in Render : Destroy(r) \/ QueueActivated(r)
           \/ \E c \in Callbacks : NextTick(c)
           \/ UNCHANGED vars
  BY <1>1, <1>3 DEF Teardown, Destroy, Forget, QueueActivated, NextTick
<1>4. CASE \/ BeginTick \/ BeginCallback \/ EndCallback \/ EndTick \/ BeginFlush
           \/ BeginBefore \/ EndRun \/ RunThrows \/ BeginHook \/ EndHook \/ EndFlush
  BY <1>1, <1>4 DEF BeginTick, BeginCallback, EndCallback, EndTick, BeginFlush,
       BeginBefore, EndRun, RunThrows, BeginHook, EndHook, EndFlush
<1>5. CASE BeginRun
  <2>1. /\ has' = has \ {Current} /\ waiting' = waiting
        /\ IF Current \in active THEN need' = need \ {Current} ELSE need' = need
    BY <1>5 DEF BeginRun
  <2>2. need \subseteq active
    BY DEF TypeOK
  <2> QED
    BY <2>1, <2>2 DEF NeedInv
<1>6. CASE BreakFlush
  BY <1>6 DEF BreakFlush, FinishLoop, ResetSchedulerState, NeedInv, QueueInv, HasIsQueued
<1>7. CASE EndLoop
  <2>1. has' = {} /\ need' = need /\ pc = "loop" /\ index >= Len(queue)
    BY <1>7 DEF EndLoop, FinishLoop, ResetSchedulerState
  <2>2. Started = index
    BY <2>1 DEF Started
  <2>3. Ahead = {}
    BY <2>1, <2>2, StartedBounds
  <2>4. has = {}
    BY <2>3 DEF QueueInv, HasIsQueued
  <2> QED
    BY <2>1, <2>4 DEF NeedInv
<1> QED
  BY <1>2, <1>3, <1>4, <1>5, <1>6, <1>7 DEF Next, User, Engine

\* Watchers with a trigger to answer are marked, and somebody waits for a flush.
LEMMA NeedCorrect == Spec => []NeedInv
<1>1. Init => NeedInv
  BY DEF Init, NeedInv
<1>2. TypeOK /\ Flags /\ QueueInv /\ NeedInv /\ [Next]_vars => NeedInv'
  BY NeedStep
<1> QED
  BY <1>1, <1>2, TypeCorrect, FlagsCorrect, QueueCorrect, PTL DEF Spec

\* Until an exception leaves a run, a live watcher whose dependency changed and
\* that has not run since lies ahead of a flush that is scheduled or running.
THEOREM NoLostTriggerCorrect == Spec => []NoLostTrigger
<1>1. OneFlush /\ QueueInv /\ NeedInv => NoLostTrigger
  BY DEF OneFlush, QueueInv, HasIsQueued, NeedInv, NoLostTrigger
<1> QED
  BY <1>1, OneFlushCorrect, QueueCorrect, NeedCorrect, PTL

-----------------------------------------------------------------------------
(***************************************************************************)
(* nextTick callbacks see the updates.  A callback that is owed runs is    *)
(* never ahead of the flush: that is what appending to one array of        *)
(* callbacks, and requesting the flush through it, buys.                   *)
(***************************************************************************)
BehindFlush(c) ==
  /\ \A i, j \in DOMAIN callbacks : callbacks[i] = c /\ callbacks[j] = Flush => j < i
  /\ \A i, j \in DOMAIN copies : copies[i] = c /\ copies[j] = Flush => j < i
  /\ (\E i \in DOMAIN copies : copies[i] = c) => ~InNextTick

OwedInv ==
  \A c \in Callbacks :
    /\ owed[c] \subseteq need
    /\ owed[c] # {} => BehindFlush(c)

\* Every step keeps callbacks that are owed runs behind the flush.
LEMMA OwedStep ==
  ASSUME TypeOK, Flags, QueueInv, NeedInv, OwedInv, [Next]_vars, ConstantsAssumption
  PROVE  OwedInv'
<1> USE DEF vars, queueVars, tickVars, vmVars, ghosts
<1>1. ASSUME UNCHANGED tickVars, \A c \in Callbacks : owed'[c] \subseteq owed[c],
             \A c \in Callbacks : owed'[c] \subseteq need'
      PROVE  OwedInv'
  BY <1>1 DEF OwedInv, BehindFlush, InNextTick
<1>2. ASSUME NEW w \in Watchers, Trigger(w) PROVE OwedInv'
  <2>1. owed' = owed /\ need \subseteq need' /\ QueueWatcher(w)
    BY <1>2 DEF Trigger
  <2>2. CASE UNCHANGED tickVars
    BY <1>1, <2>1, <2>2 DEF OwedInv
  <2>3. CASE ~waiting
    BY <2>1, <2>3 DEF NeedInv, OwedInv
  <2> QED
    BY <2>1, <2>2, <2>3 DEF QueueWatcher, RequestFlush
<1>3. ASSUME NEW c \in Callbacks, NextTick(c) PROVE OwedInv'
  <2>1. /\ NextTickOf(c) /\ need' = need /\ owed' = [owed EXCEPT ![c] = need]
        /\ c \notin Elements(callbacks) \union Elements(copies)
    BY <1>3 DEF NextTick
  <2>2. copies' = copies /\ (InNextTick' <=> InNextTick) /\ c # Flush
    BY <2>1, AppendedCallback, OtherCallback DEF ConstantsAssumption
  <2>3. \A i \in DOMAIN callbacks' : callbacks'[i] = c => i = Len(callbacks) + 1
    BY <2>1, AppendedCallback DEF Elements
  <2>4. \A i \in DOMAIN callbacks' : callbacks'[i] # c =>
           i \in DOMAIN callbacks /\ i < Len(callbacks) + 1 /\ callbacks'[i] = callbacks[i]
    BY <2>1, AppendedCallback
  <2>5. BehindFlush(c)'
    BY <2>1, <2>2, <2>3, <2>4 DEF BehindFlush, Elements
  <2>6. ASSUME NEW d \in Callbacks, d # c PROVE BehindFlush(d) => BehindFlush(d)'
    BY <2>2, <2>4, <2>6 DEF BehindFlush
  <2>7. owed'[c] = need /\ \A d \in Callbacks : d # c => owed'[d] = owed[d]
    BY <2>1 DEF TypeOK
  <2> QED
    BY <2>1, <2>5, <2>6, <2>7 DEF OwedInv
<1>4. CASE BeginTick
  <2>1. /\ copies' = callbacks /\ callbacks' = <<>> /\ UNCHANGED <<owed, need>>
    BY <1>4 DEF BeginTick
  <2>2. ~InNextTick'
    BY <2>1 DEF InNextTick
  <2> QED
    BY <2>1, <2>2 DEF OwedInv, BehindFlush
<1>5. CASE BeginCallback \/ BeginFlush
  <2>1. /\ copies # <<>> /\ copies' = Tail(copies)
        /\ UNCHANGED <<callbacks, owed, need>>
    BY <1>5 DEF BeginCallback, BeginFlush
  <2>2. ASSUME NEW c \in Callbacks, BehindFlush(c) PROVE BehindFlush(c)'
    <3>1. ASSUME NEW i \in DOMAIN copies', NEW j \in DOMAIN copies',
                 copies'[i] = c, copies'[j] = Flush
          PROVE  j < i
      <4>1. j + 1 < i + 1
        BY <2>1, <2>2, <3>1, TakenCallback DEF BehindFlush
      <4>2. i \in Nat /\ j \in Nat
        BY <2>1, TakenCallback
      <4> QED
        BY <4>1, <4>2
    <3>2. (\E i \in DOMAIN copies' : copies'[i] = c) => \E i \in DOMAIN copies : copies[i] = c
      BY <2>1, TakenCallback
    <3> QED
      BY <2>1, <2>2, <3>1, <3>2 DEF BehindFlush, InNextTick
  <2> QED
    BY <2>1, <2>2 DEF OwedInv
<1>6. CASE \/ \E w \in Watchers : Teardown(w)
           \/ \E r \in Render : Destroy(r)
  BY <1>1, <1>6 DEF Teardown, Destroy, Forget, OwedInv
<1>7. CASE \/ \E r \in Render : QueueActivated(r)
           \/ EndCallback \/ EndTick \/ BeginBefore \/ EndRun \/ RunThrows \/ EndLoop
           \/ BeginHook \/ EndHook \/ EndFlush \/ UNCHANGED vars
  BY <1>1, <1>7 DEF QueueActivated, EndCallback, EndTick, BeginBefore, EndRun, RunThrows,
       EndLoop, BeginHook, EndHook, EndFlush, OwedInv
<1>8. CASE BeginRun
  <2>1. /\ UNCHANGED tickVars
        /\ \/ UNCHANGED <<need, owed>>
           \/ /\ need' = need \ {Current}
              /\ owed' = [c \in Callbacks |-> owed[c] \ {Current}]
    BY <1>8 DEF BeginRun
  <2> QED
    BY <1>1, <2>1 DEF OwedInv
<1>9. CASE BreakFlush
  <2>1. /\ UNCHANGED tickVars
        /\ need' = need \ dropped'
        /\ owed' = [c \in Callbacks |-> owed[c] \ dropped']
    BY <1>9 DEF BreakFlush
  <2> QED
    BY <1>1, <2>1 DEF OwedInv
<1> QED
  BY <1>2, <1>3, <1>4, <1>5, <1>6, <1>7, <1>8, <1>9 DEF Next, User, Engine

\* Until an exception leaves a run, every watcher that needed a run when a
\* nextTick callback was registered has run when the callback is called.
THEOREM NextTickSeesUpdatesCorrect == Spec => []NextTickSeesUpdates
<1>1. Init => OwedInv
  BY DEF Init, OwedInv
<1>2. /\ TypeOK /\ Flags /\ QueueInv /\ NeedInv /\ OwedInv /\ [Next]_vars
      => OwedInv'
  BY OwedStep, ConstantsAssumption
<1>3. TypeOK /\ OneFlush /\ NoLostTrigger /\ OwedInv => NextTickSeesUpdates
  <2> SUFFICES ASSUME TypeOK, OneFlush, NoLostTrigger, OwedInv, ~Stopped,
                      pc = "tick", copies # <<>>, Head(copies) \in Callbacks,
                      owed[Head(copies)] # {}
               PROVE  FALSE
    BY DEF NextTickSeesUpdates
  <2> DEFINE c == Head(copies)
  <2>1. 1 \in DOMAIN copies /\ copies[1] = c /\ \A j \in DOMAIN copies : ~(j < 1)
    BY DEF TypeOK
  <2>2. need # {} /\ BehindFlush(c)
    BY DEF OwedInv
  <2>3. ~InThisTick /\ ~InNextTick
    BY <2>1, <2>2 DEF BehindFlush, InThisTick
  <2> QED
    BY <2>2, <2>3 DEF NoLostTrigger, InFlush
<1> QED
  BY <1>1, <1>2, <1>3, TypeCorrect, FlagsCorrect, QueueCorrect, NeedCorrect,
     OneFlushCorrect, NoLostTriggerCorrect, PTL DEF Spec
-----------------------------------------------------------------------------
(***************************************************************************)
(* Order.  What lies behind the watcher being run stays sorted by id: the  *)
(* splice point of queueWatcher keeps it so.                               *)
(***************************************************************************)
OrderInv ==
  /\ flushing => \A i, j \in index + 2 .. Len(queue) : i < j => queue[i] <= queue[j]
  /\ pc = "loop" => \A j \in index + 1 .. Len(queue) : queue[index + 1] <= queue[j]

\* The queue holds ids.
LEMMA QueueIds ==
  ASSUME TypeOK, ConstantsAssumption
  PROVE  /\ index \in Nat /\ Len(queue) \in Nat /\ Watchers \subseteq Nat
         /\ \A i \in 1 .. Len(queue) : queue[i] \in Nat
<1>1. \A i \in 1 .. Len(queue) : queue[i] \in Watchers
  BY DEF TypeOK
<1>2. index \in Nat /\ Len(queue) \in Nat
  BY DEF TypeOK
<1>3. Watchers \subseteq Nat
  BY DEF ConstantsAssumption
<1> QED
  BY <1>1, <1>2, <1>3

\* queueWatcher keeps the rest of the queue sorted.
LEMMA QueueWatcherOrder ==
  ASSUME TypeOK, QueueInv, OrderInv, NEW w \in Watchers, QueueWatcher(w), UserCode, pc' = pc,
         ConstantsAssumption
  PROVE  OrderInv'
<1>1. pc' # "loop"
  BY DEF UserCode
<1>2. CASE w \in has \/ SelfTrigger(w)
  BY <1>1, <1>2 DEF QueueWatcher, queueVars, OrderInv
<1>3. CASE ~(w \in has \/ SelfTrigger(w))
  <2>1. Enqueued(w) /\ UNCHANGED <<flushing, index>>
    BY <1>3 DEF QueueWatcher
  <2>2. PICK p \in 1 .. Len(queue) + 1 :
           /\ flushing => SplicePoint(p, w)
           /\ Len(queue') = Len(queue) + 1
           /\ \A i \in 1 .. p - 1 : queue'[i] = queue[i]
           /\ queue'[p] = w
           /\ \A i \in p + 1 .. Len(queue) + 1 : queue'[i] = queue[i - 1]
    BY <2>1, EnqueuedAt
  <2>3. /\ Len(queue) \in Nat /\ index \in Nat /\ w \in Nat
        /\ \A i \in 1 .. Len(queue) : queue[i] \in Nat
    BY QueueIds
  <2>4. ASSUME flushing, NEW i \in index + 2 .. Len(queue) + 1,
               NEW j \in index + 2 .. Len(queue) + 1, i < j
        PROVE  queue'[i] <= queue'[j]
    <3>1. /\ p \in index + 2 .. Len(queue) + 1
          /\ \A k \in p .. Len(queue) : queue[k] > w
          /\ p > index + 2 => queue[p - 1] <= w
      BY <2>2, <2>4 DEF SplicePoint
    <3>2. \A k, l \in index + 2 .. Len(queue) : k < l => queue[k] <= queue[l]
      BY <2>4 DEF OrderInv
    <3>3. \A k \in index + 2 .. p - 1 : queue[k] <= w
      <4> SUFFICES ASSUME NEW k \in index + 2 .. p - 1 PROVE queue[k] <= w
        OBVIOUS
      <4>1. queue[p - 1] <= w /\ p - 1 \in index + 2 .. Len(queue)
        BY <2>3, <3>1
      <4>2. queue[k] <= queue[p - 1]
        BY <2>3, <3>1, <3>2, <4>1
      <4> QED
        BY <2>3, <3>1, <4>1, <4>2
    <3>4. CASE j < p
      BY <2>2, <2>3, <2>4, <3>1, <3>2, <3>4
    <3>5. CASE j = p
      BY <2>2, <2>3, <2>4, <3>1, <3>3, <3>5
    <3>6. CASE j > p
      <4>1. queue'[j] = queue[j - 1] /\ j - 1 \in p .. Len(queue)
        BY <2>2, <2>3, <3>1, <3>6
      <4>2. queue[j - 1] > w /\ queue[j - 1] \in Nat
        BY <2>3, <3>1, <4>1
      <4>3. CASE i < p
        BY <2>2, <2>3, <2>4, <3>1, <3>3, <4>1, <4>2, <4>3, SMTT(30)
      <4>4. CASE i = p
        BY <2>2, <2>3, <4>1, <4>2, <4>4
      <4>5. CASE i > p
        <5>1. queue'[i] = queue[i - 1] /\ i - 1 \in index + 2 .. Len(queue) /\ i - 1 < j - 1
          BY <2>2, <2>3, <2>4, <3>1, <4>5
        <5> QED
          BY <2>3, <3>1, <3>2, <4>1, <5>1
      <4> QED
        BY <2>3, <3>1, <4>3, <4>4, <4>5
    <3> QED
      BY <2>3, <3>1, <3>4, <3>5, <3>6
  <2> QED
    BY <1>1, <2>1, <2>2, <2>4 DEF OrderInv
<1> QED
  BY <1>2, <1>3

\* Every step keeps the rest of the queue sorted, if there are no post watchers.
LEMMA OrderStep ==
  ASSUME TypeOK, Flags, QueueInv, OrderInv, [Next]_vars, ConstantsAssumption, Post = {}
  PROVE  OrderInv'
<1> USE DEF vars, queueVars, tickVars, vmVars, ghosts, InFlush
<1>1. ASSUME UNCHANGED <<queue, flushing, index>>, pc' = "loop" => pc = "loop"
      PROVE  OrderInv'
  BY <1>1 DEF OrderInv
<1>2. ASSUME NEW w \in Watchers, Trigger(w) PROVE OrderInv'
  BY <1>2, QueueWatcherOrder DEF Trigger, UserOp
<1>3. CASE \/ \E w \in Watchers : Teardown(w)
           \/ \E r \in Render : Destroy(r) \/ QueueActivated(r)
           \/ \E c \in Callbacks : NextTick(c)
           \/ UNCHANGED vars
  BY <1>1, <1>3 DEF Teardown, Destroy, QueueActivated, NextTick
<1>4. CASE \/ BeginTick \/ BeginCallback \/ EndCallback \/ EndTick \/ BeginBefore
           \/ RunThrows \/ BeginHook \/ EndHook \/ EndFlush
  BY <1>1, <1>4 DEF BeginTick, BeginCallback, EndCallback, EndTick, BeginBefore,
       RunThrows, BeginHook, EndHook, EndFlush
<1>5. CASE BeginFlush
  <2>1. queue' \in SortedQueues /\ index' = 0
    BY <1>5 DEF BeginFlush
  <2>2. queue' \in Seq(Watchers) /\ Len(queue') = Len(queue) /\ Len(queue) \in Nat
    BY <2>1, SortedType DEF TypeOK
  <2>3. \A i \in 1 .. Len(queue) : queue'[i] \in Nat
    <3>1. \A i \in 1 .. Len(queue) : queue'[i] \in Watchers
      BY <2>2
    <3> QED
      BY <3>1, QueueIds
  <2>4. \A i, j \in 1 .. Len(queue) : i < j => queue'[i] < queue'[j]
    BY <2>1 DEF SortedQueues, RunsBefore
  <2>5. \A i, j \in 1 .. Len(queue) : i <= j => queue'[i] <= queue'[j]
    BY <2>2, <2>3, <2>4
  <2> QED
    BY <2>1, <2>2, <2>5 DEF OrderInv
<1>6. CASE BeginRun
  <2>1. /\ UNCHANGED <<queue, flushing>> /\ flushing /\ index < Len(queue)
        /\ (pc' = "run" /\ index' = index) \/ (pc' = "loop" /\ index' = index + 1)
    <3>1. UNCHANGED <<queue, flushing>> /\ pc \in {"loop", "before"}
      BY <1>6 DEF BeginRun, More
    <3>2. flushing
      BY <3>1 DEF Flags
    <3>3. index < Len(queue)
      BY <1>6, <3>1, <3>2 DEF BeginRun, More, QueueInv
    <3>4. (pc' = "run" /\ index' = index) \/ (pc' = "loop" /\ index' = index + 1)
      BY <1>6 DEF BeginRun
    <3> QED
      BY <3>1, <3>2, <3>3, <3>4
  <2>2. index \in Nat /\ Len(queue) \in Nat /\ \A i \in 1 .. Len(queue) : queue[i] \in Nat
    BY QueueIds
  <2>3. \A i, j \in index + 2 .. Len(queue) : i <= j => queue[i] <= queue[j]
    BY <2>1, <2>2 DEF OrderInv
  <2> QED
    BY <2>1, <2>2, <2>3 DEF OrderInv
<1>7. CASE EndRun
  <2>1. UNCHANGED <<queue, flushing>> /\ flushing /\ index' = index + 1
    BY <1>7 DEF EndRun, Flags
  <2>2. index \in Nat /\ Len(queue) \in Nat /\ \A i \in 1 .. Len(queue) : queue[i] \in Nat
    BY QueueIds
  <2>3. \A i, j \in index + 2 .. Len(queue) : i <= j => queue[i] <= queue[j]
    BY <2>1, <2>2 DEF OrderInv
  <2> QED
    BY <2>1, <2>2, <2>3 DEF OrderInv
<1>8. CASE BreakFlush \/ EndLoop
  BY <1>8 DEF BreakFlush, EndLoop, FinishLoop, ResetSchedulerState, OrderInv
<1> QED
  BY <1>2, <1>3, <1>4, <1>5, <1>6, <1>7, <1>8 DEF Next, User, Engine

\* Without post watchers the flush always turns to the oldest queued watcher:
\* parents before children, user watchers before the render watcher
\* (scheduler.ts:79-86, 181-187), however the program re-enters it.
THEOREM OldestFirstCorrect ==
  ASSUME Post = {}
  PROVE  Spec => []OldestFirst
<1>1. Init => OrderInv
  BY DEF Init, OrderInv
<1>2. TypeOK /\ Flags /\ QueueInv /\ OrderInv /\ [Next]_vars => OrderInv'
  BY OrderStep, ConstantsAssumption
<1>3. TypeOK /\ Flags /\ QueueInv /\ OrderInv => OldestFirst
  <2> SUFFICES ASSUME TypeOK, Flags, QueueInv, OrderInv, More, NEW w \in has
               PROVE  Current <= w
    BY DEF OldestFirst
  <2>1. Started = index
    BY DEF More, Started
  <2>2. PICK i \in Ahead : queue[i] = w
    BY DEF QueueInv, HasIsQueued
  <2>3. i \in index + 1 .. Len(queue)
    BY <2>1, <2>2, StartedBounds DEF TypeOK
  <2> QED
    BY <2>2, <2>3 DEF More, OrderInv, Current
<1> QED
  BY <1>1, <1>2, <1>3, TypeCorrect, FlagsCorrect, QueueCorrect, PTL DEF Spec
=============================================================================
