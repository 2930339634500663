------------------------------- MODULE SsrCodegen -------------------------------
(***************************************************************************)
(* The compiler of the server renderer                                     *)
(* (packages/server-renderer/src/optimizing-compiler): parts of a template *)
(* become strings instead of vnodes.  Nothing is cached within one render, *)
(* so generation and run are one: an operator named after a generating     *)
(* function gives what its code evaluates to.                              *)
(*                                                                         *)
(* A string is a sequence of pieces: tags with what their attributes show, *)
(* texts and comments.  "v-dir" is a custom directive, which has a server  *)
(* side that only a vnode gets.                                            *)
(***************************************************************************)
EXTENDS Compiler

IsRootBlock(n) == n \in Blocks(root)

\* isUnOptimizableTree
UnOptimizable(n) == IsElement(nodes[n]) /\ Tag(n) \in Components \union {"slot"}

\* mutant: the blocks of a chain after its first are not walked
BelowFirst(n) == ToSet(nodes[n].children)

\* What is walked below n.
Below(n) == Inner(n)

\* walk: node.ssrOptimizability
RECURSIVE walk(_)
walk(n) ==
  IF UnOptimizable(n) THEN "FALSE"
  ELSE IF ~IsElement(nodes[n]) THEN "FULL"
  ELSE LET self == IsRootBlock(n) \/ Has(nodes[n], "v-dir")
           kids == \A c \in Below(n) : walk(c) = "FULL"
       IN  CASE ~IsRootBlock(n) /\ Has(nodes[n], "v-text") -> "FULL"
             [] self /\ kids -> "CHILDREN"
             [] ~self /\ kids -> "FULL"
             [] self /\ ~kids -> "PARTIAL"
             [] OTHER -> "SELF"

IsFull(c) == walk(c) = "FULL"

\* optimizeSiblings: runs of children that are FULL become groups.
optimizeSiblings(cs) ==
  FoldLeft(LAMBDA groups, c :
             IF groups # <<>> /\ IsFull(c) /\ \A d \in ToSet(Last(groups)) : IsFull(d)
             THEN Append(Front(groups), Append(Last(groups), c))
             ELSE Append(groups, <<c>>), <<>>, cs)

-----------------------------------------------------------------------------
OpenTag(n, env) == <<[open |-> n, shows |-> Shows(n, env, TRUE)]>>
CloseTag(n) == IF Tag(n) \in Unary THEN <<>> ELSE <<[close |-> n]>>

StringNode(open, close, kids) == [k |-> "string", open |-> open, close |-> close, kids |-> kids]

\* Children that are all <template>s with nothing in them have no segments.
RECURSIVE Vanishes(_)
NoSegments(cs) == \A c \in ToSet(cs) : Vanishes(c)
NoContent(n) == Tag(n) = "template" /\ ~Has(nodes[n], "v-text") /\ NoSegments(nodes[n].children)
Vanishes(c) == IsElement(nodes[c]) /\ ~IsFor(c) /\ ~Has(nodes[c], "v-if") /\ NoContent(c)

\* What becomes of no segments: _ssrNode() has no open, which is written as
\* "undefined"; "()" and an empty branch are syntax errors, so that there is no
\* render function.  The piece stands where the expression would.
NoOpen == [k |-> "undefined"]
NoExpression == [k |-> "()"]

flattenSegments(cs, segments) == IF NoSegments(cs) THEN <<NoOpen>> ELSE segments

RECURSIVE elementToSegments(_, _, _)

nodeToSegments(c, env) ==
  CASE IsElement(nodes[c]) -> elementToSegments(c, {}, env)
    [] nodes[c].type = "comment" -> <<Empty>>
    [] OTHER -> <<[k |-> "text", node |-> c,
                   shows |-> IF nodes[c].type = "expr" THEN Value(env) ELSE <<>>]>>

nodesToSegments(cs, env) == FlattenSeq(Computed([i \in DOMAIN cs |-> nodeToSegments(cs[i], env)]))

childrenToSegments(n, env) ==
  IF Has(nodes[n], "v-text") THEN <<[text |-> Value(env)]>>
  ELSE nodesToSegments(nodes[n].children, env)

elementToString(n, done, env) ==
  IF NoContent(n) /\ (IsFor(n) => "v-for" \in done) /\ (Has(nodes[n], "v-if") => "v-if" \in done)
  THEN <<NoExpression>> ELSE elementToSegments(n, done, env)

\* _ssrList and a chain of conditions, whose end is "<!---->"
elementToSegments(n, done, env) ==
  LET block == Chosen(n, env.data)
  IN  IF IsFor(n) /\ "v-for" \notin done
      THEN FlattenSeq([i \in 1..env.data.n |->
             elementToString(n, done \union {"v-for"}, [env EXCEPT !.loop = Append(@, i)])])
      ELSE IF Has(nodes[n], "v-if") /\ "v-if" \notin done
      THEN IF block = None THEN <<Empty>>
           ELSE elementToString(block, IF block = n THEN done \union {"v-if"} ELSE {}, env)
      ELSE IF Tag(n) = "template" THEN childrenToSegments(n, env)
      ELSE OpenTag(n, env) \o childrenToSegments(n, env) \o CloseTag(n)

-----------------------------------------------------------------------------
RECURSIVE genSSRElement(_, _, _)

\* A group of FULL children is one _ssrNode.
genSSRChild(group, env) ==
  IF IsFull(Head(group))
  THEN StringNode(flattenSegments(group, nodesToSegments(group, env)), <<>>, <<>>)
  ELSE genSSRElement(Head(group), {}, env)

\* The groups are <template>s, and a single v-for needs nothing more.
SsrNormalization(n) ==
  LET cs == nodes[n].children
  IN  IF SingleFor(cs) /\ ~IsFull(cs[1]) THEN NormalizationOf(cs)
      ELSE IF \E c \in ToSet(cs) : IsFull(c) THEN 2 ELSE getNormalizationType(cs)

genSSRChildren(n, env) ==
  LET groups == optimizeSiblings(nodes[n].children)
      items  == Computed([i \in DOMAIN groups |-> genSSRChild(groups[i], env)])
  IN  IF SingleFor(nodes[n].children) /\ ~IsFull(nodes[n].children[1]) THEN items[1] ELSE Array(items)

NormalizedChildren(n, env) == Normalize(SsrNormalization(n), genSSRChildren(n, env).items)

\* Nothing is generated where there are no children.
genChildrenAsStringNode(n, env) ==
  LET cs == nodes[n].children
      segments == childrenToSegments(n, env)
  IN  IF cs = <<>> THEN <<>>
      ELSE <<StringNode(IF Has(nodes[n], "v-text") THEN segments ELSE flattenSegments(cs, segments),
                        <<>>, <<>>)>>

\* genNormalElement
Normal(n, env, kids) == VNode(n, env, HasData(n), kids, {})

genSSRElement(n, done, env) ==
  LET el == nodes[n]
      block == Chosen(n, env.data)
      kind == walk(n)
  IN  IF IsFor(n) /\ "v-for" \notin done
      THEN Array(Computed([i \in 1..env.data.n |->
             genSSRElement(n, done \union {"v-for"}, [env EXCEPT !.loop = Append(@, i)])]))
      ELSE IF Has(el, "v-if") /\ "v-if" \notin done
      THEN IF block = None THEN Empty
           ELSE genSSRElement(block, IF block = n THEN done \union {"v-if"} ELSE {}, env)
      ELSE IF el.tag = "template" /\ el.slot = None
      THEN CASE kind = "FULL" /\ el.children # <<>> -> genChildrenAsStringNode(n, env)[1]
             [] kind = "FULL" /\ el.children = <<>> ->
                  IF "v-for" \in done THEN Undefined ELSE StringNode(<<NoExpression>>, <<>>, <<>>)
             [] kind # "FULL" /\ el.children = <<>> -> Undefined
             [] OTHER -> genSSRChildren(n, env)
      ELSE CASE kind = "FULL" -> StringNode(elementToString(n, done, env), <<>>, <<>>)
             [] kind = "SELF" ->
                  StringNode(OpenTag(n, env), <<[close |-> n]>>, NormalizedChildren(n, env))
             [] kind = "CHILDREN" -> Normal(n, env, genChildrenAsStringNode(n, env))
             [] kind = "PARTIAL" -> Normal(n, env, NormalizedChildren(n, env))
             [] OTHER -> Run(genElement(n, done, FALSE), env, Fresh(env.data)).v

-----------------------------------------------------------------------------
(***************************************************************************)
(* What the server renderer writes of a rendered tree.                     *)
(***************************************************************************)
RECURSIVE Markup(_)

\* A component is what it is given; its own template is another one.
Written(v) ==
  CASE v.k = "string" -> v.open \o Markup(v.kids) \o v.close
    [] v.k = "vnode" /\ v.comp ->
         <<[open |-> v.node, shows |-> v.shows, kids |-> Markup(v.kids),
            slots |-> { <<s.name, Markup(s.content)>> : s \in v.slots }]>>
    [] v.k = "vnode" /\ ~v.comp ->
         <<[open |-> v.node, shows |-> v.shows]>>
         \o (IF v.text # <<>> THEN <<[text |-> v.text]>> ELSE Markup(v.kids)) \o CloseTag(v.node)
    [] OTHER -> <<v>>

Markup(items) == FlattenSeq(Computed([i \in DOMAIN items |-> Written(items[i])]))

Optimized(n) == \A a \in ToSet(Ancestors(n)) : ~UnOptimizable(a)

\* A <template> without content that is in a loop or chain, or that has nothing
\* beside it among the children that become a string.
EmptyString(n) ==
  IF IsFull(n) THEN NoContent(n) /\ (IsFor(n) \/ Has(nodes[n], "v-if") \/ IsElse(nodes[n]))
  ELSE ~UnOptimizable(n) /\ \E g \in ToSet(optimizeSiblings(nodes[n].children)) :
                               IsFull(Head(g)) /\ NoSegments(g)

\* Left out: v-pre around a component or <template>, v-once in a loop where the
\* tree is not optimized, a custom directive with v-text, and empty <template>s
\* of which an empty string is made; see the README for what the code does.
SsrRegular ==
  \A n \in DOMAIN nodes : IsElement(nodes[n]) =>
    /\ Pre(n) => Tag(n) \notin Components \union {"template", "slot"}
    /\ ~(Has(nodes[n], "v-dir") /\ Has(nodes[n], "v-text"))
    /\ Has(nodes[n], "v-once") /\ (\E a \in ToSet(Ancestors(n)) : IsFor(a)) => Optimized(n)
    /\ Optimized(n) => ~EmptyString(n)

\* Whatever parts of a template become strings, the server writes what the
\* template means, which is what the client hydrates: chains with blocks that
\* are partly optimized, loops, groups of siblings, nested arrays (walk,
\* optimizeSiblings, genSSRElement and the segments).
SsrWritesTemplate ==
  HasRoot /\ Regular /\ SsrRegular =>
    \A d \in Datas :
      Markup(normalizeChildren(<<genSSRElement(root, {}, Env(d))>>)) =
        Markup(Meaning(root, {}, Env(d), Fresh(d)).v)
===============================================================================
