------------------------------ MODULE ReactiveData ------------------------------
(***************************************************************************)
(* Observed data: observe, defineReactive, set and del                     *)
(* (src/core/observer/index.ts), the mutators of arrays                    *)
(* (src/core/observer/array.ts), traverse (src/core/observer/traverse.ts), *)
(* refs, custom refs and the proxy of the state that setup returns         *)
(* (src/v3/reactivity/ref.ts), reactive, shallowReactive and readonly      *)
(* (src/v3/reactivity/reactive.ts, readonly.ts).                           *)
(*                                                                         *)
(* A heap maps each object to a record: its kind, its fields (a sequence   *)
(* if it is an array), whether it has an observer, the keys of its         *)
(* readonly proxy once there is one, and for its reactive keys the         *)
(* generation of the Dep and the child whose observer the getter depends   *)
(* on.  A key that is deleted and set again has a new Dep.                 *)
(*                                                                         *)
(* A getter reads sources: a property, itself, through the proxy over the  *)
(* state of setup, through a readonly proxy or through toRef; the keys of  *)
(* an object, or the length or an item of an array, which no Dep stands    *)
(* for; or all there is within a value.                                    *)
(***************************************************************************)
EXTENDS Integers, Sequences, FiniteSets, SequencesExt, TLC

CONSTANTS
  Objects,
  Plain,     \* the objects as they are made: kind and fields
  RootData,  \* the root data of a component (vmCount > 0)
  None       \* undefined

Key(o, k, gen) == <<o, k, gen>>
Ob(o) == <<o, "ob", 0>>

\* What an operation leaves: the heap, and the Dep it notifies or None
Result(h, notified) == [heap |-> h, notified |-> notified]

-----------------------------------------------------------------------------
(***************************************************************************)
(* Observers.                                                              *)
(***************************************************************************)
IsRef(h, v) == v \in Objects /\ h[v].kind \in {"ref", "shallowRef", "customRef"}
IsArray(h, v) == v \in Objects /\ h[v].kind = "array"

\* what is inside is left as it is: "shallow" is the kind of shallowReactive objects
IsShallow(h, o) == h[o].kind \in {"shallowRef", "shallow"}

Observable(h, v) == v \in Objects /\ h[v].kind \in {"object", "shallow", "array"} /\ ~h[v].ob

ObOf(h, v) == IF v \in Objects /\ h[v].ob THEN v ELSE None

RECURSIVE observe(_, _)

\* A key gets a Dep; its child is the value that is observed then.
defineReactive(h, o, k) ==
  LET v == h[o].f[k]
      shallow == IsShallow(h, o)
      h1 == IF shallow THEN h ELSE observe(h, v)
      gen == IF k \in DOMAIN h1[o].gens THEN h1[o].gens[k] + 1 ELSE 1
  IN [h1 EXCEPT ![o].dep = (k :> gen) @@ @,
                ![o].gens = (k :> gen) @@ @,
                ![o].child = (k :> IF shallow THEN None ELSE ObOf(h1, v)) @@ @]

observeArray(h, vs) == FoldLeft(observe, h, vs)

\* new Observer: walk the keys, or the items
observe(h, v) ==
  IF ~Observable(h, v) THEN h
  ELSE LET h1 == [h EXCEPT ![v].ob = TRUE] IN
       IF IsArray(h, v) THEN observeArray(h1, h[v].f)
       ELSE FoldLeft(LAMBDA g, k : defineReactive(g, v, k), h1, SetToSeq(DOMAIN h[v].f))

\* A custom ref has a Dep of its own and leaves the value to its user.
customRef(h, o) ==
  [h EXCEPT ![o].dep = "value" :> 1, ![o].gens = "value" :> 1, ![o].child = "value" :> None]

\* reactive() and shallowReactive()
makeReactive(h, o) == observe(h, o)

\* The heap in which the refs, the shallow objects and the root data are made
Made ==
  LET h == [o \in Objects |->
              [kind |-> Plain[o].kind, f |-> Plain[o].f, ob |-> FALSE, view |-> None,
               dep |-> <<>>, gens |-> <<>>, child |-> <<>>]]
      Make(g, o) ==
        CASE h[o].kind \in {"ref", "shallowRef"} -> defineReactive(g, o, "value")
          [] h[o].kind = "customRef" -> customRef(g, o)
          [] h[o].kind = "shallow" \/ o = RootData -> makeReactive(g, o)
          [] OTHER -> g
  IN FoldLeft(Make, h, SetToSeq(Objects))

-----------------------------------------------------------------------------
(***************************************************************************)
(* Reads: the Deps that are touched, in order, and the value.              *)
(***************************************************************************)
RECURSIVE dependArray(_, _), Touched(_, _, _), Got(_, _, _)

dependArray(h, a) ==
  FoldLeft(LAMBDA ds, e : ds \o (IF ObOf(h, e) # None THEN <<Ob(e)>> ELSE <<>>)
                             \o (IF IsArray(h, e) THEN dependArray(h, e) ELSE <<>>),
           <<>>, h[a].f)

Unwraps(h, o, v) == IsRef(h, v) /\ h[o].kind # "customRef" /\ ~IsShallow(h, o)

\* reactiveGetter
Touched(h, o, k) ==
  LET v == h[o].f[k]
      child == h[o].child[k]
  IN IF k \notin DOMAIN h[o].f \/ k \notin DOMAIN h[o].dep THEN <<>>
     ELSE <<Key(o, k, h[o].dep[k])>>
          \o (IF child = None THEN <<>>
              ELSE <<Ob(child)>> \o (IF IsArray(h, v) THEN dependArray(h, v) ELSE <<>>))
          \o (IF Unwraps(h, o, v) THEN Touched(h, v, "value") ELSE <<>>)

Got(h, o, k) ==
  LET v == h[o].f[k] IN
  IF k \notin DOMAIN h[o].f THEN None
  ELSE IF k \in DOMAIN h[o].dep /\ Unwraps(h, o, v) THEN Got(h, v, "value") ELSE v

\* proxyWithRefUnwrap, over the plain object that setup returned
ProxyTouched(h, o, k) ==
  LET v == h[o].f[k] IN
  Touched(h, o, k) \o
  (IF IsRef(h, v) THEN Touched(h, v, "value")
   ELSE IF ObOf(h, v) # None THEN <<Ob(v)>> ELSE <<>>)

ProxyGot(h, o, k) == IF IsRef(h, h[o].f[k]) THEN Got(h, h[o].f[k], "value") ELSE Got(h, o, k)

\* readonly() of an object makes its proxy, once, with the keys it then has.
IsPlainObject(h, v) == v \in Objects /\ ~IsArray(h, v)

createReadonly(h, v) ==
  IF IsPlainObject(h, v) /\ h[v].view = None THEN [h EXCEPT ![v].view = DOMAIN h[v].f] ELSE h

ViewOf(h, o) == createReadonly(h, o)[o].view

\* its getter hands out proxies of the objects within
ReadonlyTouched(h, o, k) == IF k \in ViewOf(h, o) THEN Touched(h, o, k) ELSE <<>>

ReadonlyGot(h, o, k) ==
  LET v == Got(h, o, k)
  IN CASE k \notin ViewOf(h, o) -> None
       [] k \in ViewOf(h, o) /\ IsPlainObject(h, v) -> <<"readonly", v>>
       [] OTHER -> v

\* toRef(object, key, default).value: the property, or the ref it holds
toRefTouched(h, o, k) ==
  LET v == Got(h, o, k)
  IN Touched(h, o, k) \o (IF IsRef(h, v) THEN Touched(h, v, "value") ELSE <<>>)

toRefGot(h, o, k, default) ==
  LET v == Got(h, o, k)
  IN CASE IsRef(h, v) -> Got(h, v, "value")
       [] v = None -> default
       [] OTHER -> v

\* traverse, from the last key to the first: the observed objects seen, the
\* Deps touched and the objects reached
RECURSIVE Traverse(_, _, _)
Traverse(h, v, t) ==
  LET Entered == [t EXCEPT !.seen = IF h[v].ob THEN @ \union {v} ELSE @, !.reached = @ \union {v}]
      Property(u, k) ==
        Traverse(h, Got(h, v, k), [u EXCEPT !.deps = @ \o Touched(h, v, k)])
  IN IF v \notin Objects \/ v \in t.seen THEN t
     ELSE IF h[v].kind = "raw" THEN t
     ELSE IF IsArray(h, v) THEN FoldLeft(LAMBDA u, e : Traverse(h, e, u), Entered, Reverse(h[v].f))
     ELSE FoldLeft(Property, Entered, Reverse(SetToSeq(DOMAIN h[v].f)))

Traversed(h, v) == Traverse(h, v, [seen |-> {}, deps |-> <<>>, reached |-> {}])

\* A source is a tuple: what is read, of which object, and where.
Touches(h, s) ==
  CASE s[1] = "get" -> Touched(h, s[2], s[3])
    [] s[1] = "proxy" -> ProxyTouched(h, s[2], s[3])
    [] s[1] = "readonly" -> ReadonlyTouched(h, s[2], s[3])
    [] s[1] = "toRef" -> toRefTouched(h, s[2], s[3])
    [] s[1] = "deep" -> Traversed(h, s[2]).deps
    [] s[1] \in {"keys", "size", "item"} -> <<>>

ValueOf(h, s) ==
  CASE s[1] = "get" -> Got(h, s[2], s[3])
    [] s[1] = "proxy" -> ProxyGot(h, s[2], s[3])
    [] s[1] = "readonly" -> ReadonlyGot(h, s[2], s[3])
    [] s[1] = "toRef" -> toRefGot(h, s[2], s[3], s[4])
    [] s[1] = "deep" -> {<<o, h[o].f>> : o \in Traversed(h, s[2]).reached}
    [] s[1] = "keys" -> DOMAIN h[s[2]].f
    [] s[1] = "size" -> Len(h[s[2]].f)
    [] s[1] = "item" -> IF s[3] \in DOMAIN h[s[2]].f THEN h[s[2]].f[s[3]] ELSE None

\* What a read leaves behind: readonly proxies
Read(h, s) ==
  IF s[1] # "readonly" THEN h
  ELSE LET h1 == createReadonly(h, s[2])
       IN IF s[3] \in h1[s[2]].view THEN createReadonly(h1, Got(h, s[2], s[3])) ELSE h1

-----------------------------------------------------------------------------
(***************************************************************************)
(* Writes.                                                                 *)
(***************************************************************************)
RECURSIVE Assign(_, _, _, _)

\* reactiveSetter: a value takes the place of a value, or goes into a ref
Assign(h, o, k, v) ==
  LET written == [h EXCEPT ![o].f[k] = v]
      shallow == IsShallow(h, o)
      h1 == IF shallow THEN written ELSE observe(written, v)
  IN IF k \notin DOMAIN h[o].dep THEN Result([h EXCEPT ![o].f = (k :> v) @@ @], None)
     ELSE IF h[o].kind = "customRef" THEN Result(written, Key(o, k, 1))
     ELSE IF v = h[o].f[k] THEN Result(h, None)
     ELSE IF Unwraps(h, o, h[o].f[k]) /\ ~IsRef(h, v) THEN Assign(h, h[o].f[k], "value", v)
     ELSE Result([h1 EXCEPT ![o].child[k] = IF shallow THEN None ELSE ObOf(h1, v)],
                 Key(o, k, h[o].dep[k]))

\* the setter of proxyWithRefUnwrap
ProxyAssign(h, o, k, v) ==
  IF IsRef(h, h[o].f[k]) /\ ~IsRef(h, v) THEN Assign(h, h[o].f[k], "value", v)
                                        ELSE Assign(h, o, k, v)

\* set, of a property
SetKey(h, o, k, v) ==
  IF k \in DOMAIN h[o].f THEN Assign(h, o, k, v)
  ELSE IF o = RootData THEN Result(h, None)
  ELSE LET added == [h EXCEPT ![o].f = (k :> v) @@ @] IN
       IF h[o].ob THEN Result(defineReactive(added, o, k), Ob(o)) ELSE Result(added, None)

\* del, of a property
Without(f, k) == [x \in DOMAIN f \ {k} |-> f[x]] @@ <<>>

\* mutant: only a key that was reactive is announced
DelKeyUnnoticed(h, o, k) ==
  IF o = RootData \/ k \notin DOMAIN h[o].f THEN Result(h, None)
  ELSE Result([h EXCEPT ![o].f = Without(@, k), ![o].dep = Without(@, k), ![o].child = Without(@, k)],
              IF k \in DOMAIN h[o].dep THEN Key(o, k, h[o].dep[k]) ELSE None)

DelKey(h, o, k) ==
  IF o = RootData \/ k \notin DOMAIN h[o].f THEN Result(h, None)
  ELSE Result([h EXCEPT ![o].f = Without(@, k), ![o].dep = Without(@, k), ![o].child = Without(@, k)],
              IF h[o].ob THEN Ob(o) ELSE None)

\* mutant: what is inserted is not observed
MutateUnobserved(h, a, items, inserted) ==
  Result([h EXCEPT ![a].f = items], IF h[a].ob THEN Ob(a) ELSE None)

\* The mutators of an array: what is inserted is observed, then its observer notifies.
Mutate(h, a, items, inserted) ==
  LET h1 == [h EXCEPT ![a].f = items] IN
  IF h[a].ob THEN Result(observeArray(h1, inserted), Ob(a)) ELSE Result(h1, None)

Push(h, a, v) == Mutate(h, a, Append(h[a].f, v), <<v>>)
Pop(h, a) == Mutate(h, a, IF h[a].f = <<>> THEN <<>> ELSE Front(h[a].f), <<>>)
Backwards(h, a) == Mutate(h, a, Reverse(h[a].f), <<>>)

\* set and del of an index: splice
SetIndex(h, a, i, v) ==
  Mutate(h, a, IF i <= Len(h[a].f) THEN [h[a].f EXCEPT ![i] = v] ELSE Append(h[a].f, v), <<v>>)

DelIndex(h, a, i) == Mutate(h, a, RemoveAt(h[a].f, i), <<>>)

\* triggerRef
Trigger(h, r) == Result(h, IF h[r].kind = "customRef" THEN None ELSE Key(r, "value", 1))

\* What user code does to the data, by name
Mutated(h, op) ==
  CASE op[1] = "assign" -> Assign(h, op[2], op[3], op[4])
    [] op[1] = "proxySet" -> ProxyAssign(h, op[2], op[3], op[4])
    [] op[1] = "reactive" -> Result(makeReactive(h, op[2]), None)
    [] op[1] = "set" -> SetKey(h, op[2], op[3], op[4])
    [] op[1] = "del" -> DelKey(h, op[2], op[3])
    [] op[1] = "push" -> Push(h, op[2], op[3])
    [] op[1] = "pop" -> Pop(h, op[2])
    [] op[1] = "reverse" -> Backwards(h, op[2])
    [] op[1] = "setIndex" -> SetIndex(h, op[2], op[3], op[4])
    [] op[1] = "delIndex" -> DelIndex(h, op[2], op[3])
    [] op[1] = "trigger" -> Trigger(h, op[2])

\* Array indices begin at 1, and set may append: no holes are made.  Bounds of the
\* model: a list of two, and a key made twice.
Remakes(h, o, k) == IF k \in DOMAIN h[o].gens \ DOMAIN h[o].f THEN h[o].gens[k] ELSE 0

Possible(h, op) ==
  CASE op[1] = "set" -> Remakes(h, op[2], op[3]) < 2
    [] op[1] = "assign" -> op[3] \in DOMAIN h[op[2]].f
    [] op[1] = "push" -> Len(h[op[2]].f) < 2
    [] op[1] = "setIndex" -> op[3] <= Len(h[op[2]].f) + 1
    [] op[1] = "delIndex" -> op[3] <= Len(h[op[2]].f)
    [] OTHER -> TRUE

=============================================================================
