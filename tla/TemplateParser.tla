---------------------------- MODULE TemplateParser ----------------------------
(***************************************************************************)
(* parseHTML (src/compiler/parser/html-parser.ts) and the handlers that    *)
(* parse gives it (src/compiler/parser/index.ts): from the tags, texts and *)
(* comments of a template to the tree of ASTElements.                      *)
(*                                                                         *)
(* A tag has a set of marks, the attributes that the compiler tells apart: *)
(* directives of structure, "key", "ref", ":bind" for any binding, "attr"  *)
(* for a plain attribute, "v-slot" and, with slot props, "v-slot=".  A     *)
(* text is "text", "expr" (with {{ }}), "space" or "line" (white space     *)
(* without and with a line break).  nodes holds every node made, also      *)
(* those that end up nowhere; the two stacks of the parsers are one,       *)
(* because they differ only inside one call.                               *)
(***************************************************************************)
EXTENDS Integers, Sequences, FiniteSets, SequencesExt

CONSTANTS
  Vocabularies, \* sets of tokens; a template is written in one of them
  MaxTokens,    \* bound of the model: the length of a template
  Whitespace,   \* options.whitespace: "condense", "preserve" or "default"
  Components,   \* tags that are no reserved tags
  Unary, NonPhrasing, LeftOpen, PlainText, Forbidden, PreTags, \* sets of tags
  None

ASSUME ParserAssumption ==
  /\ MaxTokens \in Nat /\ None \notin Nat
  /\ \A V \in Vocabularies : \A t \in V : t.kind \in {"start", "end", "chars", "comment"}

VARIABLES
  tokens,     \* how many tokens were read
  vocabulary,
  nodes,      \* the nodes in the order they were made
  stack,      \* the open elements
  root,
  inVPre, inPre,
  parsed      \* the template has ended

parserVars == <<tokens, vocabulary, nodes, stack, root, inVPre, inPre, parsed>>

\* What the handlers work on.
Parser == [nodes |-> nodes, stack |-> stack, root |-> root, inVPre |-> inVPre, inPre |-> inPre]

Become(P) ==
  /\ nodes' = P.nodes /\ stack' = P.stack /\ root' = P.root
  /\ inVPre' = P.inVPre /\ inPre' = P.inPre

CurrentParent(P) == IF P.stack = <<>> THEN None ELSE Last(P.stack)

createASTElement(tag, marks, name, up) ==
  [ type       |-> "element",
    tag        |-> tag,
    marks      |-> marks,
    name       |-> name,   \* the slot name in its v-slot, if any
    slot       |-> None,   \* slotTarget
    pre        |-> FALSE,
    raw        |-> FALSE,  \* in v-pre: attributes are taken as they are
    parent     |-> up,
    children   |-> <<>>,
    conditions |-> <<>>,   \* the blocks of ifConditions after its own
    scoped     |-> <<>> ]  \* scopedSlots

createText(type, up) == [type |-> type, parent |-> up]

IsElement(n) == n.type = "element"
IsTextNode(n) == n.type \in {"text", "space", "line"}
Has(n, m) == IsElement(n) /\ m \in n.marks
IsSlotScoped(n) == IsElement(n) /\ n.slot # None

-----------------------------------------------------------------------------
(***************************************************************************)
(* closeElement.                                                           *)
(***************************************************************************)
\* trimEndingWhitespace
Trim(P, e) ==
  LET cs   == P.nodes[e].children
      keep == { i \in DOMAIN cs : P.nodes[cs[i]].type # "space" }
      n    == IF keep = {} THEN 0 ELSE CHOOSE i \in keep : \A j \in keep : j <= i
  IN  IF P.inPre THEN P ELSE [P EXCEPT !.nodes[e].children = SubSeq(cs, 1, n)]

\* scopedSlots[name] = element
SetSlot(N, slots, e) ==
  IF \E i \in DOMAIN slots : N[slots[i]].slot = N[e].slot
  THEN [i \in DOMAIN slots |-> IF N[slots[i]].slot = N[e].slot THEN e ELSE slots[i]]
  ELSE Append(slots, e)

\* v-slot on <template> names the slot; on a component it makes a <template>
\* of the children that are no scoped slots themselves.
processSlotContent(P, e) ==
  LET n    == P.nodes[e]
      box  == Len(P.nodes) + 1
      mine == SelectSeq(n.children, LAMBDA c : ~IsSlotScoped(P.nodes[c]))
  IN  IF n.raw \/ ~(Has(n, "v-slot") \/ Has(n, "v-slot=")) THEN P
      ELSE IF n.tag = "template" THEN [P EXCEPT !.nodes[e].slot = n.name]
      ELSE LET N == Append([c \in DOMAIN P.nodes |->
                              IF Contains(mine, c) THEN [P.nodes[c] EXCEPT !.parent = box]
                                                   ELSE P.nodes[c]],
                           [createASTElement("template", n.marks \intersect {"v-slot="}, n.name, e)
                              EXCEPT !.children = mine, !.slot = n.name])
           IN  [P EXCEPT !.nodes = [N EXCEPT ![e].children = <<>>,
                                             ![e].scoped = SetSlot(N, n.scoped, box)]]

\* findPrevElement drops the texts after the element; those that are not
\* white space get a warning.
LastElement(P, cs) ==
  LET E == { i \in DOMAIN cs : IsElement(P.nodes[cs[i]]) }
  IN  IF E = {} THEN 0 ELSE CHOOSE i \in E : \A j \in E : j <= i

processIfConditions(P, e, up) ==
  LET cs == P.nodes[up].children
      i  == LastElement(P, cs)
      Q  == [P EXCEPT !.nodes[up].children = SubSeq(cs, 1, i)]
  IN  IF i > 0 /\ Has(P.nodes[cs[i]], "v-if")
      THEN [Q EXCEPT !.nodes[cs[i]].conditions = Append(@, e)] ELSE Q

IsElse(n) == Has(n, "v-else-if") \/ Has(n, "v-else")

\* A second root is ignored unless it continues the chain of the first.
AttachRoot(P, e) ==
  IF e # P.root /\ Has(P.nodes[P.root], "v-if") /\ IsElse(P.nodes[e])
  THEN [P EXCEPT !.nodes[P.root].conditions = Append(@, e)] ELSE P

AttachChild(P, e, up) ==
  IF P.nodes[e].tag \in Forbidden THEN P
  ELSE IF IsElse(P.nodes[e]) THEN processIfConditions(P, e, up)
  ELSE [P EXCEPT !.nodes[up].scoped = IF IsSlotScoped(P.nodes[e]) THEN SetSlot(P.nodes, @, e) ELSE @,
                 !.nodes[up].children = Append(@, e)]

\* "final children cleanup"
DropScoped(P, e) ==
  [P EXCEPT !.nodes[e].children = SelectSeq(@, LAMBDA c : ~IsSlotScoped(P.nodes[c]))]

closeElement(P, e) ==
  LET up       == CurrentParent(P)
      Processed == processSlotContent(Trim(P, e), e)
      Attached == IF up = None THEN AttachRoot(Processed, e) ELSE AttachChild(Processed, e, up)
      Clean    == Trim(DropScoped(Attached, e), e)
  IN  [Clean EXCEPT !.inVPre = @ /\ ~P.nodes[e].pre,
                    !.inPre = @ /\ P.nodes[e].tag \notin PreTags]

-----------------------------------------------------------------------------
(***************************************************************************)
(* The handlers.                                                           *)
(***************************************************************************)
Open(P, t) ==
  LET pre == ~P.inVPre /\ "v-pre" \in t.marks
      raw == P.inVPre \/ pre
      el  == [createASTElement(t.tag, t.marks \ {"v-pre", "/"}, t.name, CurrentParent(P))
                EXCEPT !.pre = pre, !.raw = raw,
                       !.marks = IF raw THEN (IF @ = {} THEN {} ELSE {"attr"}) ELSE @]
      new == Len(P.nodes) + 1
  IN  [P EXCEPT !.nodes = Append(@, el),
                !.inVPre = raw,
                !.inPre = @ \/ t.tag \in PreTags,
                !.root = IF @ = None THEN new ELSE @,
                !.stack = Append(@, new)]

\* end(): pops and closes the innermost open element.
Close(P) ==
  LET e == Last(P.stack)
  IN  closeElement([P EXCEPT !.stack = Front(@)], e)

\* The n innermost elements are closed.
CloseMany(P, n) == FoldLeft(LAMBDA Q, i : Close(Q), P, [i \in 1..n |-> i])

\* parseEndTag(tag): with the element of that tag go all those inside it.
parseEndTag(P, tag) ==
  LET at == { i \in DOMAIN P.stack : P.nodes[P.stack[i]].tag = tag }
      t  == [kind |-> "start", tag |-> tag, marks |-> {}, name |-> None]
  IN  CASE at # {} -> CloseMany(P, 1 + Len(P.stack) - (CHOOSE i \in at : \A j \in at : j <= i))
        [] at = {} /\ tag \in {"br", "p"} -> Close(Open(P, t))
        [] OTHER -> P

TopTag(P) == IF P.stack = <<>> THEN None ELSE P.nodes[Last(P.stack)].tag

\* handleStartTag
handleStartTag(P, t) ==
  LET P1 == IF TopTag(P) = "p" /\ t.tag \in NonPhrasing THEN parseEndTag(P, "p") ELSE P
      P2 == IF t.tag \in LeftOpen /\ TopTag(P1) = t.tag THEN parseEndTag(P1, t.tag) ELSE P1
      P3 == Open(P2, t)
  IN  IF t.tag \in Unary \/ "/" \in t.marks THEN Close(P3) ELSE P3

\* What chars makes of a text among the children cs: a type of node, or None.
TextType(P, text, cs) ==
  LET raw   == P.inVPre /\ text = "expr"
      blank == text \in {"space", "line"} /\ ~P.inPre
      type  == CASE raw -> "text"
                 [] ~raw /\ ~blank -> text
                 [] blank /\ cs = <<>> -> None
                 [] blank /\ cs # <<>> /\ Whitespace = "condense" ->
                      IF text = "line" THEN None ELSE "space"
                 [] OTHER -> "space"
  IN  IF type = "space" /\ cs # <<>> /\ P.nodes[Last(cs)].type = "space" THEN None ELSE type

AddText(P, type) ==
  LET up == CurrentParent(P)
  IN  IF up = None \/ type = None THEN P
      ELSE [P EXCEPT !.nodes = Append([@ EXCEPT ![up].children = Append(@, Len(P.nodes) + 1)],
                                      createText(type, up))]

chars(P, text) ==
  IF P.stack = <<>> THEN P ELSE AddText(P, TextType(P, text, P.nodes[Last(P.stack)].children))

-----------------------------------------------------------------------------
InitParser ==
  /\ tokens = 0 /\ vocabulary \in Vocabularies
  /\ nodes = <<>> /\ stack = <<>> /\ root = None
  /\ inVPre = FALSE /\ inPre = FALSE /\ parsed = FALSE

\* In an element like <textarea> only its end tag is looked for.
InPlainText == TopTag(Parser) \in PlainText

Read(t, P) ==
  /\ ~parsed /\ tokens < MaxTokens
  /\ tokens' = tokens + 1
  /\ Become(P)
  /\ UNCHANGED <<vocabulary, parsed>>

ReadStart ==
  \E t \in vocabulary : t.kind = "start" /\ ~InPlainText /\ Read(t, handleStartTag(Parser, t))

ReadEnd ==
  \E t \in vocabulary :
    /\ t.kind = "end" /\ (InPlainText => t.tag = TopTag(Parser))
    /\ Read(t, parseEndTag(Parser, t.tag))

ReadChars ==
  \E t \in vocabulary : t.kind = "chars" /\ ~InPlainText /\ Read(t, chars(Parser, t.text))

ReadComment ==
  \E t \in vocabulary : t.kind = "comment" /\ ~InPlainText /\ Read(t, AddText(Parser, "comment"))

\* reStackedTag: the text of the element and its end tag
ReadPlainText ==
  \E t \in vocabulary :
    /\ t.kind = "chars" /\ InPlainText
    /\ Read(t, parseEndTag(chars(Parser, t.text), TopTag(Parser)))

\* There is no such end tag: the element is closed without its text, and the
\* rest of the template is a text after it.
ReadUnclosed ==
  \E t \in vocabulary :
    LET P == chars(parseEndTag(Parser, TopTag(Parser)), t.text)
    IN  /\ t.kind = "chars" /\ InPlainText /\ ~parsed /\ tokens < MaxTokens
        /\ tokens' = tokens + 1 /\ parsed' = TRUE
        /\ Become(CloseMany(P, Len(P.stack)))
        /\ UNCHANGED vocabulary

\* The template ends: parseEndTag() closes what is open.
Finish ==
  /\ ~parsed /\ parsed' = TRUE
  /\ Become(CloseMany(Parser, Len(stack)))
  /\ UNCHANGED <<tokens, vocabulary>>

NextParser ==
  ReadStart \/ ReadEnd \/ ReadChars \/ ReadComment \/ ReadPlainText \/ ReadUnclosed \/ Finish
===============================================================================
