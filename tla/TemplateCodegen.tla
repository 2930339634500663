---------------------------- MODULE TemplateCodegen ----------------------------
(***************************************************************************)
(* optimize (src/compiler/optimizer.ts), generate                          *)
(* (src/compiler/codegen/index.ts) and what the generated code does when   *)
(* it runs (src/core/instance/render-helpers, src/core/vdom/helpers).      *)
(*                                                                         *)
(* Code is a tree of calls instead of a string; a static render function   *)
(* and a v-once are numbered by their nodes.  A binding or {{ }} has the   *)
(* value of the data it reads: x, the indices of the loops and the slot    *)
(* props.  The data also has the conditions a (v-if) and b (v-else-if),    *)
(* the length n of every list and whether a slot is given.                 *)
(***************************************************************************)
EXTENDS TemplateParser

CONSTANT Functional \* components that render two nodes

-----------------------------------------------------------------------------
(***************************************************************************)
(* The optimizer.                                                          *)
(***************************************************************************)
RECURSIVE Ancestors(_)
Ancestors(n) ==
  LET up == nodes[n].parent IN IF up = None THEN <<>> ELSE <<up>> \o Ancestors(up)

IsFor(n) == Has(nodes[n], "v-for")
Tag(n) == nodes[n].tag

\* The nearest ancestor that is no <template> ends the search.
isDirectChildOfTemplateFor(n) ==
  LET A == Ancestors(n)
  IN  \E i \in DOMAIN A : IsFor(A[i]) /\ \A j \in 1..i : Tag(A[j]) = "template"

\* Only the attributes that stay plain leave no key that is not static; a
\* <template> always has the key slotScope once it is processed.
isStatic(n) ==
  IF ~IsElement(nodes[n]) THEN nodes[n].type # "expr"
  ELSE nodes[n].pre \/ ( /\ nodes[n].marks \subseteq {"attr"}
                         /\ nodes[n].scoped = <<>> /\ nodes[n].slot = None
                         /\ Tag(n) \notin Components \union {"slot"}
                         /\ Tag(n) = "template" => nodes[n].raw
                         /\ ~isDirectChildOfTemplateFor(n) )

Inner(n) == ToSet(nodes[n].children) \union ToSet(nodes[n].conditions)

\* The walk of markStatic does not enter components and scoped slots.
Walked(n) ==
  \A i \in DOMAIN Ancestors(n) :
    LET a == Ancestors(n)[i] IN Tag(a) \notin Components /\ ~IsSlotScoped(nodes[a])

RECURSIVE markStatic(_)
markStatic(n) ==
  /\ isStatic(n)
  /\ IsElement(nodes[n]) /\ Tag(n) \notin Components => \A c \in Inner(n) : markStatic(c)

\* node.staticRoot before the walk stops at the outermost one
Hoistable(n) ==
  LET cs == nodes[n].children
  IN  /\ IsElement(nodes[n]) /\ Walked(n) /\ markStatic(n) /\ cs # <<>>
      /\ ~(Len(cs) = 1 /\ nodes[cs[1]].type \in {"text", "space", "line", "comment"})

StaticRoot(n) == Hoistable(n) /\ \A i \in DOMAIN Ancestors(n) : ~Hoistable(Ancestors(n)[i])

\* node.staticInFor, left out of scoped slots
StaticInFor(n) ==
  /\ \E i \in DOMAIN Ancestors(n) : IsFor(Ancestors(n)[i])
  /\ \A i \in DOMAIN Ancestors(n) : ~IsSlotScoped(nodes[Ancestors(n)[i]])

-----------------------------------------------------------------------------
(***************************************************************************)
(* The code.  done are the directives of n that are already generated, pre *)
(* is state.pre.                                                           *)
(***************************************************************************)
maybeComponent(n) == Tag(n) \in Components

\* el.pre, inherited
Pre(n) == nodes[n].pre \/ \E i \in DOMAIN Ancestors(n) : nodes[Ancestors(n)[i]].pre

\* el.plain as processElement and processRawAttrs leave it
Plain(n) == nodes[n].marks \subseteq {"v-if", "v-else-if", "v-else", "v-for", "v-once"}
            /\ nodes[n].scoped = <<>> /\ ~nodes[n].pre

HasData(n) == ~Plain(n) \/ (Pre(n) /\ maybeComponent(n))

needsNormalization(n) == IsFor(n) \/ Tag(n) \in {"template", "slot"}

Blocks(n) == {n} \union ToSet(nodes[n].conditions)

\* mutant: the other blocks of a chain are not looked at
getNormalizationTypeFirst(cs) ==
  LET E == { c \in ToSet(cs) : IsElement(nodes[c]) }
  IN  IF \E c \in E : needsNormalization(c) THEN 2
      ELSE IF \E c \in E : maybeComponent(c) THEN 1 ELSE 0

getNormalizationType(cs) ==
  LET E == UNION { Blocks(c) : c \in { d \in ToSet(cs) : IsElement(nodes[d]) } }
  IN  IF \E c \in E : needsNormalization(c) THEN 2
      ELSE IF \E c \in E : maybeComponent(c) THEN 1 ELSE 0

\* "optimize single v-for"
SingleFor(cs) ==
  Len(cs) = 1 /\ IsElement(nodes[cs[1]]) /\ IsFor(cs[1]) /\ Tag(cs[1]) \notin {"template", "slot"}

NormalizationOf(cs) ==
  IF SingleFor(cs) THEN (IF maybeComponent(cs[1]) THEN 1 ELSE 0) ELSE getNormalizationType(cs)

RECURSIVE containsSlotChild(_)
containsSlotChild(n) ==
  IsElement(nodes[n]) /\ (Tag(n) = "slot" \/ \E c \in ToSet(nodes[n].children) : containsSlotChild(c))

\* mutant: the loops and slot props outside are not looked at
ForcesUpdateInside(n) ==
  \/ IsFor(n)
  \/ \E s \in ToSet(nodes[n].scoped) :
       \/ nodes[s].slot = "dynamic" \/ nodes[s].marks \intersect {"v-if", "v-for"} # {}
       \/ containsSlotChild(s)

\* needsForceUpdate of genScopedSlots
needsForceUpdate(n) ==
  \/ IsFor(n)
  \/ \E s \in ToSet(nodes[n].scoped) :
       \/ nodes[s].slot = "dynamic" \/ nodes[s].marks \intersect {"v-if", "v-for"} # {}
       \/ containsSlotChild(s)
  \/ \E a \in ToSet(Ancestors(n)) : IsFor(a) \/ (IsSlotScoped(nodes[a]) /\ Has(nodes[a], "v-slot="))

\* The same sequence; TLC computes it once, not at every use of an element.
Computed(f) == f \o <<>>

\* needsKey: of the blocks of a chain, only the first one has el.if
needsKey(n) == \E a \in {n} \union ToSet(Ancestors(n)) : Has(nodes[a], "v-if")

\* What the code of a node is made from.
RECURSIVE Source(_)
Source(n) ==
  LET el == nodes[n]
  IN  IF ~IsElement(el) THEN <<el.type>>
      ELSE <<el.tag, el.marks, el.slot>>
           \o Computed([i \in DOMAIN el.children |-> Source(el.children[i])])
           \o <<"blocks">> \o Computed([i \in DOMAIN el.conditions |-> Source(el.conditions[i])])
           \o <<"slots">> \o Computed([i \in DOMAIN el.scoped |-> Source(el.scoped[i])])

SlotSources(n) == Computed([i \in DOMAIN nodes[n].scoped |-> Source(nodes[n].scoped[i])])

\* hash(generatedSlots), $key of the slots; no two codes have the same hash
contentHashKey(n) ==
  IF nodes[n].scoped # <<>> /\ ~needsForceUpdate(n) /\ needsKey(n) THEN SlotSources(n) ELSE None

RECURSIVE genElement(_, _, _), genIf(_, _, _, _, _), genScopedSlot(_, _, _)

genNode(c, pre) ==
  IF IsElement(nodes[c]) THEN genElement(c, {}, pre)
  ELSE IF nodes[c].type = "comment" THEN [op |-> "e"] ELSE [op |-> "v", node |-> c]

genChildren(n, pre) ==
  LET cs == nodes[n].children IN Computed([i \in DOMAIN cs |-> genNode(cs[i], pre)])

Kids(n, pre) ==
  [op |-> "array", single |-> SingleFor(nodes[n].children), items |-> genChildren(n, pre)]

genStatic(n, done, pre) ==
  [op |-> "m", node |-> n, inFor |-> StaticInFor(n),
   fn |-> genElement(n, done \union {"static"}, pre \/ Pre(n))]

\* The key of the nearest loop, if it has one.
KeyedBy(n) ==
  LET F == SelectSeq(Ancestors(n), IsFor) IN F # <<>> /\ Has(nodes[Head(F)], "key")

genOnce(n, done, pre) ==
  IF Has(nodes[n], "v-if") /\ "v-if" \notin done
  THEN genIf(<<n>> \o nodes[n].conditions, done \union {"v-once", "v-if"}, pre, "element", n)
  ELSE IF ~StaticInFor(n) THEN genStatic(n, done \union {"v-once"}, pre)
  ELSE IF ~KeyedBy(n) THEN genElement(n, done \union {"v-once"}, pre)
  ELSE [op |-> "o", node |-> n, tree |-> genElement(n, done \union {"v-once"}, pre)]

\* The blocks after the first are generated afresh.
genIf(blocks, done, pre, alt, first) ==
  IF blocks = <<>> THEN [op |-> IF alt = "slot" THEN "null" ELSE "e"]
  ELSE LET n    == Head(blocks)
           own  == IF n = first THEN done ELSE {}
           code == IF alt = "slot" THEN genScopedSlot(n, own, pre)
                   ELSE IF Has(nodes[n], "v-once") THEN genOnce(n, own, pre)
                   ELSE genElement(n, own, pre)
           test == CASE n = first -> "a" [] n # first /\ Has(nodes[n], "v-else-if") -> "b"
                     [] OTHER -> None
       IN  IF test = None THEN code
           ELSE [op |-> "if", test |-> test, then |-> code,
                 else |-> genIf(Tail(blocks), done, pre, alt, first)]

genScopedSlot(n, done, pre) ==
  CASE Has(nodes[n], "v-if") /\ "v-if" \notin done ->
         genIf(<<n>> \o nodes[n].conditions, done \union {"v-if"}, pre, "slot", n)
    [] IsFor(n) /\ "v-for" \notin done /\ ~(Has(nodes[n], "v-if") /\ "v-if" \notin done) ->
         [op |-> "l", body |-> genScopedSlot(n, done \union {"v-for"}, pre)]
    [] OTHER -> [op |-> "slot", node |-> n, body |-> Kids(n, pre)]

genElement(n, done, pre) ==
  LET el == nodes[n]
  IN  IF StaticRoot(n) /\ "static" \notin done THEN genStatic(n, done, pre)
      ELSE IF Has(el, "v-once") /\ "v-once" \notin done THEN genOnce(n, done, pre)
      ELSE IF IsFor(n) /\ "v-for" \notin done
           THEN [op |-> "l", body |-> genElement(n, done \union {"v-for"}, pre)]
      ELSE IF Has(el, "v-if") /\ "v-if" \notin done
           THEN genIf(<<n>> \o el.conditions, done \union {"v-if"}, pre, "element", n)
      ELSE IF el.tag = "template" /\ el.slot = None /\ ~pre
           THEN IF el.children = <<>> THEN [op |-> "null"] ELSE Kids(n, pre)
      ELSE IF el.tag = "slot" THEN [op |-> "t", node |-> n, fallback |-> Kids(n, pre)]
      ELSE [op |-> "c", node |-> n, data |-> HasData(n), kids |-> Kids(n, pre),
            type |-> NormalizationOf(el.children),
            scoped |-> Computed([i \in DOMAIN el.scoped |-> genScopedSlot(el.scoped[i], {}, pre)])]

-----------------------------------------------------------------------------
(***************************************************************************)
(* The run of the code.  old has the data of the render before and what it *)
(* rendered of the static and v-once trees.  The result has what is        *)
(* rendered of them now.                                                   *)
(***************************************************************************)
Undefined == [k |-> "undefined"]
Array(items) == [k |-> "array", items |-> items]
Empty == [k |-> "empty"]
Result(v, seen) == [v |-> v, seen |-> seen]
All(results) ==
  LET R == Computed(results)
  IN  Result(Array(Computed([i \in DOMAIN R |-> R[i].v])), UNION { R[i].seen : i \in DOMAIN R })

\* normalizeChildren; that adjacent texts become one is left out
RECURSIVE normalizeChildren(_)
normalizeChildren(items) ==
  FlattenSeq([i \in DOMAIN items |->
    CASE items[i].k = "array" -> normalizeChildren(items[i].items)
      [] items[i].k = "undefined" -> <<>>
      [] OTHER -> <<items[i]>>])

simpleNormalizeChildren(items) ==
  FlattenSeq([i \in DOMAIN items |->
    IF items[i].k = "array" THEN items[i].items ELSE <<items[i]>>])

Normalize(type, items) ==
  CASE type = 0 -> items
    [] type = 1 -> simpleNormalizeChildren(items)
    [] type = 2 -> normalizeChildren(items)

\* What bindings and {{ }} show.
Value(env) == <<env.data.x>> \o env.loop

Shows(n, env, data) ==
  IF ~data THEN <<>> ELSE IF Has(nodes[n], ":bind") THEN Value(env)
  ELSE IF nodes[n].marks \intersect {"attr", "v-dir"} # {} THEN <<-1>> ELSE <<>>

VNode(n, env, data, kids, scoped) ==
  [k |-> "vnode", node |-> n, comp |-> FALSE, shows |-> Shows(n, env, data),
   text |-> IF Has(nodes[n], "v-text") THEN Value(env) ELSE <<>>, kids |-> kids, slots |-> scoped]

\* A functional component returns an array.
Instance(vnode) ==
  IF Tag(vnode.node) \in Functional
  THEN Array(<<[vnode EXCEPT !.comp = TRUE], [vnode EXCEPT !.comp = TRUE, !.kids = <<>>]>>)
  ELSE [vnode EXCEPT !.comp = TRUE]

Fresh(data) == [data |-> data, seen |-> {}]

\* resolveScopedSlots: a later slot of a name replaces an earlier one.
resolveScopedSlots(slots) ==
  FoldLeft(LAMBDA S, s : { t \in S : t.name # s.name } \union {s}, {}, slots)

RECURSIVE Run(_, _, _)

renderList(body, env, old) ==
  All([i \in 1..env.data.n |-> Run(body, [env EXCEPT !.loop = Append(@, i)], old)])

\* The function of a static tree knows no loop and no slot props.
renderStatic(c, env, old) ==
  LET here   == [node |-> c.node, loop |-> <<>>]
      cached == here \in old.seen /\ ~c.inFor
      bare   == [env EXCEPT !.data = IF cached THEN old.data ELSE @, !.loop = <<>>]
      R      == Run(c.fn, bare, IF cached THEN Fresh(old.data) ELSE old)
  IN  Result(R.v, R.seen \union {here})

\* A tree of v-once with the key of an earlier one is not patched.
markOnce(c, env, old) ==
  LET here == [node |-> c.node, loop |-> env.loop]
      R    == IF here \in old.seen
              THEN Run(c.tree, [env EXCEPT !.data = old.data], Fresh(old.data))
              ELSE Run(c.tree, env, old)
  IN  Result(R.v, R.seen \union {here})

\* nodes is empty if no slot is given and there is no fallback.
renderSlot(c, env, old) ==
  IF env.data.given THEN Result(Array(<<VNode(c.node, env, FALSE, <<>>, {})>>), {})
  ELSE IF c.fallback.items = <<>> THEN Result(Undefined, {})
  ELSE Run(c.fallback, env, old)

\* A slot that renders nothing, or only a comment, counts as not given.
SlotContent(items) == IF items = <<Empty>> THEN <<>> ELSE items

\* The variables in a scoped slot: the outermost gets the props of env, others 0.
Within(slot, env) ==
  IF Has(slot, "v-slot=") THEN [env EXCEPT !.loop = Append(@, env.props), !.props = 0] ELSE env

\* The entry of one slot: its key and, when called, its content.
runSlot(c, env, old) ==
  LET n == nodes[c.node]
      R == Run(c.body, Within(n, env), old)
  IN  Result([k |-> "slot", content |-> SlotContent(normalizeChildren(R.v.items)),
              name |-> <<n.slot, IF n.slot = "dynamic" THEN env.loop ELSE <<>>>>], R.seen)

\* _c
createElement(c, env, old) ==
  LET K == Run(c.kids, env, old)
      S == All([i \in DOMAIN c.scoped |-> Run(c.scoped[i], env, old)])
      v == VNode(c.node, env, c.data, Normalize(c.type, K.v.items),
                 resolveScopedSlots(normalizeChildren(S.v.items)))
  IN  Result(IF maybeComponent(c.node) /\ ~(c.data /\ Pre(c.node)) THEN Instance(v) ELSE v,
             K.seen \union S.seen)

Run(c, env, old) ==
  CASE c.op = "c" -> createElement(c, env, old)
    [] c.op = "m" -> renderStatic(c, env, old)
    [] c.op = "o" -> markOnce(c, env, old)
    [] c.op = "l" -> renderList(c.body, env, old)
    [] c.op = "t" -> renderSlot(c, env, old)
    [] c.op = "slot" -> runSlot(c, env, old)
    [] c.op = "if" -> Run(IF env.data[c.test] THEN c.then ELSE c.else, env, old)
    [] c.op = "array" -> IF c.single THEN Run(c.items[1], env, old)
                         ELSE All([i \in DOMAIN c.items |-> Run(c.items[i], env, old)])
    [] c.op = "v" -> Result([k |-> "text", node |-> c.node,
                             shows |-> IF nodes[c.node].type = "expr" THEN Value(env) ELSE <<>>], {})
    [] c.op = "e" -> Result(Empty, {})
    [] c.op = "null" -> Result(Undefined, {})
===============================================================================
