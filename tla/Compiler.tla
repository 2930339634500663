------------------------------- MODULE Compiler -------------------------------
(***************************************************************************)
(* The template compiler as a whole: what a template means, and that the   *)
(* code generated for it renders that.  Templates are the sequences of     *)
(* tokens that TemplateParser reads.                                       *)
(***************************************************************************)
EXTENDS TemplateCodegen

CONSTANT Datas \* the states of the data that a template is rendered with

Spec == InitParser /\ [][NextParser]_parserVars

-----------------------------------------------------------------------------
(***************************************************************************)
(* The meaning of a template: the list of nodes that it shows, without     *)
(* static trees, caches, nested arrays or normalization.                   *)
(***************************************************************************)
Join(results) ==
  LET R == Computed(results)
  IN  [v |-> FlattenSeq([i \in DOMAIN R |-> R[i].v]), seen |-> UNION { R[i].seen : i \in DOMAIN R }]

\* The block of the chain of n that is shown, or None.
Chosen(n, data) ==
  LET blocks == nodes[n].conditions
      yes    == { i \in DOMAIN blocks : Has(nodes[blocks[i]], "v-else-if") => data.b }
  IN  IF data.a THEN n
      ELSE IF yes = {} THEN None ELSE blocks[CHOOSE i \in yes : \A j \in yes : i <= j]

\* v-once freezes what has no loop outside, or is in a loop with a key.
Freezes(n) ==
  LET F == SelectSeq(Ancestors(n), IsFor) IN F = <<>> \/ Has(nodes[Head(F)], "key")

RECURSIVE Meaning(_, _, _, _), SlotMeaning(_, _, _, _)

Children(n, env, old) ==
  Join([i \in DOMAIN nodes[n].children |-> Meaning(nodes[n].children[i], {}, env, old)])

ForEach(n, done, env, old, M(_, _, _, _)) ==
  Join([i \in 1..env.data.n |->
          M(n, done \union {"v-for"}, [env EXCEPT !.loop = Append(@, i)], old)])

Once(n, done, env, old) ==
  LET here   == [node |-> n, loop |-> env.loop]
      frozen == here \in old.seen
      M      == Meaning(n, done \union {"v-once"},
                        [env EXCEPT !.data = IF frozen THEN old.data ELSE @],
                        IF frozen THEN Fresh(old.data) ELSE old)
  IN  [M EXCEPT !.seen = @ \union {here}]

Itself(n, env, old) ==
  LET K == Children(n, env, old)
      S == Join([i \in DOMAIN nodes[n].scoped |-> SlotMeaning(nodes[n].scoped[i], {}, env, old)])
      v == VNode(n, env, TRUE, K.v, resolveScopedSlots(S.v))
  IN  [v    |-> IF maybeComponent(n) /\ ~Pre(n) THEN normalizeChildren(<<Instance(v)>>) ELSE <<v>>,
       seen |-> K.seen \union S.seen]

\* v-for comes before v-if; v-once is inside v-if; a <slot> is one in v-pre too.
Meaning(n, done, env, old) ==
  LET el == nodes[n]
      Todo(m) == Has(el, m) /\ m \notin done
      shown == Chosen(n, env.data)
  IN  IF ~IsElement(el)
      THEN [v |-> IF el.type = "comment" THEN <<Empty>>
                  ELSE <<[k |-> "text", node |-> n,
                          shows |-> IF el.type = "expr" THEN Value(env) ELSE <<>>]>>, seen |-> {}]
      ELSE IF Todo("v-for") /\ ~Todo("v-once") THEN ForEach(n, done, env, old, Meaning)
      ELSE IF Todo("v-if")
           THEN IF shown = None THEN [v |-> <<Empty>>, seen |-> {}]
                ELSE Meaning(shown, IF shown = n THEN done \union {"v-if"} ELSE {}, env, old)
      ELSE IF Todo("v-once") /\ Freezes(n) THEN Once(n, done, env, old)
      ELSE IF Todo("v-for") THEN ForEach(n, done, env, old, Meaning)
      ELSE IF el.tag = "template" /\ el.slot = None /\ ~Pre(n) THEN Children(n, env, old)
      ELSE IF el.tag = "slot"
           THEN IF env.data.given
                THEN [v |-> <<VNode(n, env, FALSE, <<>>, {})>>, seen |-> {}]
                ELSE Children(n, env, old)
      ELSE Itself(n, env, old)

\* The slots that the <template>s of a component give; v-if comes before v-for.
SlotMeaning(n, done, env, old) ==
  LET el == nodes[n]
      shown == Chosen(n, env.data)
      C == Children(n, Within(el, env), old)
  IN  IF Has(el, "v-if") /\ "v-if" \notin done
      THEN IF shown = None THEN [v |-> <<>>, seen |-> {}]
           ELSE SlotMeaning(shown, IF shown = n THEN done \union {"v-if"} ELSE {}, env, old)
      ELSE IF IsFor(n) /\ "v-for" \notin done THEN ForEach(n, done, env, old, SlotMeaning)
      ELSE [v |-> <<[k |-> "slot", content |-> SlotContent(C.v),
                     name |-> <<el.slot, IF el.slot = "dynamic" THEN env.loop ELSE <<>>>>]>>,
            seen |-> C.seen]

-----------------------------------------------------------------------------
(***************************************************************************)
(* Properties.                                                             *)
(***************************************************************************)
EnvOf(data, props) == [data |-> data, loop |-> <<>>, props |-> props]
Env(data) == EnvOf(data, 0)

\* The code is that of a stateful component: one root, no loop.
HasRoot ==
  /\ parsed /\ root # None
  /\ \A b \in Blocks(root) : Tag(b) \notin {"template", "slot"} \union Functional /\ ~IsFor(b)

\* Left out: a lone v-for whose v-else is a <template>, <slot> or component, and
\* a <template> in a v-pre that is hoisted with what is around it or not at all;
\* see the README for what the code does.
Regular ==
  /\ \A n \in DOMAIN nodes : IsElement(nodes[n]) /\ SingleFor(nodes[n].children) =>
       \A b \in ToSet(nodes[nodes[n].children[1]].conditions) :
         Tag(b) \notin {"template", "slot"} \union Components
  /\ \A n \in DOMAIN nodes : IsElement(nodes[n]) /\ Tag(n) = "template" /\ Pre(n) =>
       \E a \in {n} \union ToSet(Ancestors(n)) : nodes[a].pre /\ StaticRoot(a)

Lists(n) == {<<n, "children">>, <<n, "conditions">>, <<n, "scoped">>}
Places(c) == { l \in UNION { Lists(n) : n \in { m \in DOMAIN nodes : IsElement(nodes[m]) } } :
                 Contains(nodes[l[1]][l[2]], c) }

\* A node that is placed nowhere is no part of what the template may show.
MayBeNowhere(c) ==
  \/ c = root \/ ~IsElement(nodes[c]) \/ nodes[c].parent = None
  \/ Tag(c) \in Forbidden \/ IsElse(nodes[c]) \/ IsSlotScoped(nodes[c])

\* Whatever tags are left open or closed in the wrong order, no element is
\* lost or placed twice, children stay in the order of the source, and the
\* element that holds a child is its parent (closeElement, parseEndTag).
PlacedOnce ==
  parsed =>
    \A c \in DOMAIN nodes :
      /\ Cardinality(Places(c)) <= 1
      /\ Places(c) = {} => MayBeNowhere(c)
      /\ IsElement(nodes[c]) =>
           LET cs == nodes[c].children
           IN  /\ \A i \in DOMAIN cs : nodes[cs[i]].parent = c
               /\ \A i, j \in DOMAIN cs : i < j => cs[i] < cs[j]

\* No element is lost or placed twice; and however a template nests conditions,
\* loops, slots, components, v-once and v-pre, the generated code shows what the
\* template means, at the first render and at a second one with other data, when
\* static trees and v-once come from the first; no nested array is left
\* (closeElement, optimize, generate, renderStatic, markOnce, the normalization of
\* children).
RendersTemplate ==
  /\ PlacedOnce
  /\ HasRoot /\ Regular =>
       LET code == genElement(root, {}, FALSE)
       IN  \A d1 \in Datas :
             LET R1 == Run(code, Env(d1), Fresh(d1))
                 M1 == Meaning(root, {}, Env(d1), Fresh(d1))
             IN  /\ normalizeChildren(<<R1.v>>) = M1.v
                 /\ \A d2 \in Datas \ {d1} :
                      LET R2 == Run(code, Env(d2), [data |-> d1, seen |-> R1.seen])
                          M2 == Meaning(root, {}, Env(d2), [data |-> d1, seen |-> M1.seen])
                      IN  normalizeChildren(<<R2.v>>) = M2.v

ScopedOwners == { n \in DOMAIN nodes : IsElement(nodes[n]) /\ nodes[n].scoped # <<>> }

Reachable(n) == \A a \in {n} \union ToSet(Ancestors(n)) : a = root \/ Places(a) # {}

SlotsOf(n, data) ==
  resolveScopedSlots(Join([i \in DOMAIN nodes[n].scoped |->
                             SlotMeaning(nodes[n].scoped[i], {}, Env(data), Fresh(data))]).v)

\* The vnodes that node n has in a rendered tree.
RECURSIVE Instances(_, _)
Instances(vnodes, n) ==
  UNION { LET v == vnodes[i]
          IN  IF v.k # "vnode" THEN {}
              ELSE { u \in {v} : u.node = n } \union Instances(v.kids, n)
                   \union UNION { Instances(s.content, n) : s \in v.slots }
          : i \in DOMAIN vnodes }

SlotProps(n) ==
  IF \E a \in ToSet(Ancestors(n)) : IsSlotScoped(nodes[a]) /\ Has(nodes[a], "v-slot=")
  THEN {0, 1} ELSE {0}

SlotsAreStable ==
  \A n \in ScopedOwners : Reachable(n) /\ ~needsForceUpdate(n) =>
    /\ \A d1, d2 \in Datas :
         { s.name : s \in SlotsOf(n, d1) } = { s.name : s \in SlotsOf(n, d2) }
    /\ (\E m \in ScopedOwners : n \in ToSet(Ancestors(m))) \/
         \A d \in Datas :
           SlotsOf(n, [d EXCEPT !.given = TRUE]) = SlotsOf(n, [d EXCEPT !.given = FALSE])
    /\ HasRoot => \A d \in Datas :
         LET V == UNION { Instances(Meaning(root, {}, EnvOf(d, p), Fresh(d)).v, n) : p \in SlotProps(n) }
         IN  \A u, v \in V : u.slots = v.slots

\* The first block of a chain and a later one with the same tag are the same
\* vnode to the patch, and so are components at the same place below them.
RECURSIVE TakenFor(_, _)
TakenFor(n, m) ==
  LET up == nodes[n].parent
      other == nodes[m].parent
  IN  /\ n # m /\ Tag(n) = Tag(m) /\ nodes[n].slot = nodes[m].slot
      /\ ~Has(nodes[n], "key") /\ ~Has(nodes[m], "key")
      /\ maybeComponent(n) \/ HasData(n) = HasData(m)
      /\ \/ {n, m} \subseteq { Chosen(n, d) : d \in Datas }
         \/ {n, m} \subseteq { Chosen(m, d) : d \in Datas }
         \/ up # None /\ other # None /\ TakenFor(up, other)

\* updateChildComponent renders a component with other children in any case.
Forced(n) == nodes[n].children # <<>> \/ needsForceUpdate(n)

OwnSlotsInEachBranch ==
  \A n, m \in { c \in ScopedOwners : maybeComponent(c) /\ Reachable(c) } :
    TakenFor(n, m) /\ ~Forced(n) /\ ~Forced(m) =>
      contentHashKey(n) # contentHashKey(m) \/ SlotSources(n) = SlotSources(m)

\* A component whose slots the code calls stable is not told to render when
\* they change: it must have the same slots with any data, and none that read
\* a variable of a loop or slot outside or pass on a slot of its parent; it is
\* the reads of data that tell it about the rest.  And one that the patch takes
\* for that of another branch must be told by the key of the slots, unless they
\* are the same (genScopedSlots).
\* Left out: a slot passed on through the scoped slot of a component within it,
\* which containsSlotChild does not enter, and branches of a chain that are not the
\* first one: the component of one of them taken for that of another, or for one
\* without slots in the first; see the README.
StableSlotsAreStable == parsed => SlotsAreStable /\ OwnSlotsInEachBranch
===============================================================================
