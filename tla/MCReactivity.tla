---------------------------- MODULE MCReactivity ----------------------------
(***************************************************************************)
(* Reactivity over ReactiveData, for TLC.  vm is the root data of a        *)
(* component: a holds the ref count, and p a list or one of the objects ox *)
(* and oy; oy is observed once it is put somewhere.  setup returned state, *)
(* a shallow object with ox, the ref and the custom ref tick.  c1 and c2   *)
(* are computed properties, s1 is a deep synchronous watcher of p and w1 a *)
(* queued one.                                                             *)
(***************************************************************************)
EXTENDS Reactivity, ReactiveData

CONSTANTS vm, ox, oy, list, count, tick, state, c1, c2, s1, w1

MCObjects == {vm, ox, oy, list, count, tick, state}

MCPlain ==
  (vm :> [kind |-> "object", f |-> [a |-> count, p |-> list]]) @@
  (ox :> [kind |-> "object", f |-> [b |-> 0]]) @@
  (oy :> [kind |-> "object", f |-> [b |-> 0]]) @@
  (list :> [kind |-> "array", f |-> <<ox>>]) @@
  (count :> [kind |-> "ref", f |-> [value |-> 0]]) @@
  (tick :> [kind |-> "customRef", f |-> [value |-> 0]]) @@
  (state :> [kind |-> "shallow", f |-> [s |-> ox, t |-> count, u |-> tick]])

MCDeps ==
  {Key(vm, "a", 1), Key(vm, "p", 1), Key(count, "value", 1), Key(tick, "value", 1)}
  \union {Ob(o) : o \in {list, ox, oy}}
  \union {Key(state, k, 1) : k \in {"s", "t", "u"}}
  \union {Key(o, "b", 1) : o \in {ox, oy}}
  \union {Key(o, "n", g) : o \in {ox, oy}, g \in 1 .. 2}

MCMutations ==
  {<<"assign", vm, "a", 1>>, <<"assign", vm, "p", list>>, <<"assign", vm, "p", ox>>,
   <<"assign", vm, "p", oy>>, <<"assign", ox, "b", 1>>, <<"assign", oy, "b", 1>>,
   <<"set", ox, "n", oy>>, <<"set", oy, "n", 0>>, <<"del", ox, "n">>, <<"del", oy, "n">>,
   <<"push", list, oy>>, <<"pop", list>>, <<"reverse", list>>,
   <<"setIndex", list, 1, oy>>, <<"delIndex", list, 1>>, <<"trigger", count>>,
   <<"proxySet", state, "s", list>>, <<"proxySet", state, "u", 1>>, <<"reactive", oy>>}

\* What the getters read, by what they have seen so far: c1 is p, the first
\* item if p is a list, and then n and b of the object; c2 is a and c1; s1 is
\* all there is in p; w1 is the ref, then the keys of s and the custom ref, or, once
\* the ref is not 0, c2 and s seen through a readonly proxy.
Getter(x, seen) ==
  LET n == Len(seen)
      object == IF n > 1 /\ seen[1] = list THEN IF n > 2 THEN seen[3] ELSE None ELSE seen[1]
      from == IF seen[1] = list THEN 3 ELSE 1
  IN CASE x \in {c1, s1} /\ n = 0 -> <<"get", vm, "p">>
       [] x = c1 /\ n = 1 /\ seen[1] = list -> <<"size", list>>
       [] x = c1 /\ n = 2 /\ seen[1] = list /\ seen[2] > 0 -> <<"item", list, 1>>
       [] x = c1 /\ n = from -> <<"toRef", object, "n", 0>>
       [] x = c1 /\ n = from + 1 -> <<"get", object, "b">>
       [] x = c2 /\ n = 0 -> <<"get", vm, "a">>
       [] x = c2 /\ n = 1 -> c1
       [] x = s1 /\ n = 1 -> <<"deep", seen[1]>>
       [] x = w1 /\ n = 0 -> <<"proxy", state, "t">>
       [] x = w1 /\ n = 1 -> IF seen[1] = 0 THEN <<"proxy", state, "s">> ELSE c2
       [] x = w1 /\ n = 2 /\ seen[1] = 0 -> <<"keys", seen[2]>>
       [] x = w1 /\ n = 2 /\ seen[1] # 0 -> <<"readonly", state, "s">>
       [] x = w1 /\ n = 3 /\ seen[1] # 0 /\ seen[3] = <<"readonly", ox>> -> <<"readonly", ox, "b">>
       [] x = w1 /\ n = 3 /\ seen[1] = 0 -> <<"toRef", state, "u", 0>>
       [] OTHER -> Done

\* The keys that come and go are those named n: their objects speak for them.
MCDepsOf(h, s) ==
  ToSet(Touches(h, s)) \union
  CASE s[1] \in {"keys", "size", "item"} -> {Ob(s[2])}
    [] s[1] = "deep" -> { Ob(o) : o \in { x \in Traversed(h, s[2]).reached : h[x].ob } }
    [] s[1] \in {"get", "toRef", "readonly"} /\ s[3] = "n" -> {Ob(s[2])}
    [] OTHER -> {}
=============================================================================
