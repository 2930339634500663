--------------------------------- MODULE VModel ---------------------------------
(***************************************************************************)
(* v-model on form elements: the code that the compiler makes of it        *)
(* (platforms/web/compiler/directives/model.ts), the directive at run time *)
(* (platforms/web/runtime/directives/model.ts) and the update of value and *)
(* checked (platforms/web/runtime/modules/dom-props.ts).                   *)
(*                                                                         *)
(* The user edits one element, or a group of boxes, while the program      *)
(* assigns the data, changes the options of the select and renders for     *)
(* other reasons.  A render is a microtask: it comes before the next event *)
(* of the user, but after what the program does in the same task.          *)
(*                                                                         *)
(* A value is a member of Texts, or Number: what the texts in Numeric are  *)
(* as a number.  External: the browser's events, and that it ends a        *)
(* composition by compositionend or by change before it takes the focus    *)
(* away.                                                                   *)
(***************************************************************************)
EXTENDS Integers, Sequences, FiniteSets, SequencesExt

CONSTANTS
  Configs,      \* [kind, lazy, number, trim]
  Texts,        \* what may be in a text field
  Numeric,      \* the texts that parseFloat takes
  Number,       \* their number
  NumberText,   \* the text of that number
  Padded,       \* the texts that begin or end with a space
  Unpadded(_),  \* those without it
  Options,      \* the lists of options of a select
  Boxes,        \* the values of the boxes
  Arrays,       \* what the program assigns to an array
  None,         \* undefined
  MaxOps        \* bound of the model: steps of the user and of the program

VARIABLES
  config,
  data,     \* the bound value
  author,   \* history: who wrote it last
  options,  \* the options the component renders
  dom,      \* the element, or the boxes
  vnode,    \* what the last render made: data, checked and options
  dirty,    \* the render watcher is queued
  ops

vars == <<config, data, author, options, dom, vnode, dirty, ops>>

IsText == config.kind = "text"
IsSelect == config.kind \in {"select", "multiple"}
IsArray == config.kind \in {"boxes", "multiple"}
HasBoxes == config.kind \in {"box", "boxes", "radio"}

-----------------------------------------------------------------------------
(***************************************************************************)
(* Values.                                                                 *)
(***************************************************************************)
Str(v) == IF v = Number THEN NumberText ELSE v
toNumber(v) == IF v \in Numeric THEN Number ELSE v
trim(v) == IF v \in Padded THEN Unpadded(v) ELSE v

\* looseEqual, of values that are not objects
looseEqual(v, w) == Str(v) = Str(w)
looseIn(v, s) == \E i \in DOMAIN s : looseEqual(s[i], v)

\* Of a value that is in an array twice, a box that is unticked removes the
\* first: the data still has it, and the next render leaves the box as it is.
ASSUME ArraysAssumption ==
  \A a \in Arrays : \A i, j \in DOMAIN a : i # j => ~looseEqual(a[i], a[j])

Modified(v) == IF config.number THEN toNumber(v) ELSE v

\* genDefaultModel: the value expression
Entered(v) == Modified(IF config.trim THEN trim(v) ELSE v)

\* The values that the data binds to the options
Bound(d) == IF IsArray THEN d ELSE <<d>>

-----------------------------------------------------------------------------
(***************************************************************************)
(* What a render makes of the data.                                        *)
(***************************************************************************)
\* genCheckboxModel and genRadioModel: the expression of checked.  A single
\* checkbox has true-value and false-value, and its only box the former.
Checked(d, b) == IF config.kind = "boxes" THEN looseIn(b, d) ELSE looseEqual(d, b)

BoxesOf == IF config.kind = "box" THEN {CHOOSE b \in Boxes : TRUE} ELSE IF HasBoxes THEN Boxes ELSE {}

\* setSelected: the positions selected
setSelected(d, opts) ==
  LET matching == {i \in DOMAIN opts : looseIn(opts[i], Bound(d))} IN
  IF config.kind = "multiple" THEN matching
  ELSE {i \in matching : \A j \in matching : i <= j}

hasNoMatchingOption(v, opts) == ~looseIn(v, opts)

Differs(cur, prev) == \E i \in DOMAIN cur : i \notin DOMAIN prev \/ ~looseEqual(cur[i], prev[i])

-----------------------------------------------------------------------------
(***************************************************************************)
(* The handlers that the compiler makes.                                   *)
(***************************************************************************)
\* genSelect
Selected(opts, sel) ==
  LET positions == SelectSeq([i \in DOMAIN opts |-> i], LAMBDA i : i \in sel)
      values == [k \in DOMAIN positions |-> Modified(opts[positions[k]])]
  IN IF config.kind = "multiple" THEN values
     ELSE IF values = <<>> THEN None ELSE values[1]

\* genCheckboxModel and genRadioModel, after the user has changed box b
Ticked(d, b, checked) ==
  LET v == Modified(b) IN
  CASE config.kind = "boxes" ->
         IF checked THEN (IF looseIn(v, d) THEN d ELSE Append(d, v))
         ELSE RemoveFirstMatch(d, LAMBDA x : looseEqual(x, v))
    [] config.kind = "box" -> IF checked THEN b ELSE None
    [] config.kind = "radio" -> v

\* The data is assigned, and the setter queues the render if it differs.
Writes(v, who) ==
  /\ data' = v
  /\ author' = who
  /\ dirty' = (dirty \/ v # data)

-----------------------------------------------------------------------------
(***************************************************************************)
(* The user.                                                               *)
(***************************************************************************)
UserStep == ~dirty /\ ops < MaxOps /\ ops' = ops + 1

Focus ==
  /\ UserStep /\ IsText /\ ~dom.focused
  /\ dom' = [dom EXCEPT !.focused = TRUE]
  /\ UNCHANGED <<config, data, author, options, vnode, dirty>>

\* genDefaultModel: the handler of input
Input(v) ==
  IF config.lazy \/ dom.composing THEN UNCHANGED <<data, author, dirty>>
  ELSE Writes(Entered(v), "user")

Type(v) ==
  /\ UserStep /\ IsText /\ dom.focused /\ v # dom.value
  /\ dom' = [dom EXCEPT !.value = v, !.edited = TRUE]
  /\ Input(v)
  /\ UNCHANGED <<config, options, vnode>>

\* The directive listens to compositions unless it is lazy.
CompositionStart ==
  /\ UserStep /\ IsText /\ dom.focused /\ ~config.lazy /\ ~dom.composing
  /\ dom' = [dom EXCEPT !.composing = TRUE]
  /\ UNCHANGED <<config, data, author, options, vnode, dirty>>

\* onCompositionEnd triggers input.
CompositionEnd ==
  /\ UserStep /\ dom.composing
  /\ dom' = [dom EXCEPT !.composing = FALSE]
  /\ Writes(Entered(dom.value), "user")
  /\ UNCHANGED <<config, options, vnode>>

\* change of an edited text: the event of a lazy model; else it ends a composition
Change ==
  /\ UserStep /\ IsText /\ dom.edited
  /\ dom' = [dom EXCEPT !.edited = FALSE, !.composing = FALSE]
  /\ IF config.lazy \/ dom.composing THEN Writes(Entered(dom.value), "user")
     ELSE UNCHANGED <<data, author, dirty>>
  /\ UNCHANGED <<config, options, vnode>>

\* mutant: no handler of blur
BlurQuietly ==
  /\ UserStep /\ IsText /\ dom.focused /\ ~dom.edited /\ ~dom.composing
  /\ dom' = [dom EXCEPT !.focused = FALSE]
  /\ UNCHANGED <<config, data, author, options, vnode, dirty>>

\* blur: with trim or number the component is rendered
Blur ==
  /\ UserStep /\ IsText /\ dom.focused /\ ~dom.edited /\ ~dom.composing
  /\ dom' = [dom EXCEPT !.focused = FALSE]
  /\ dirty' = (dirty \/ config.trim \/ config.number)
  /\ UNCHANGED <<config, data, author, options, vnode>>

\* A box changes; the browser takes the mark from the others of a radio group.
Tick(b) ==
  /\ UserStep
  /\ LET checked == config.kind = "radio" \/ ~dom.checked[b] IN
     /\ checked # dom.checked[b]
     /\ dom' = [dom EXCEPT !.checked = [c \in BoxesOf |->
                  IF c = b THEN checked ELSE @[c] /\ config.kind # "radio"]]
     /\ Writes(Ticked(data, b, checked), "user")
  /\ UNCHANGED <<config, options, vnode>>

Pick(sel) ==
  /\ UserStep /\ IsSelect /\ sel # dom.sel
  /\ config.kind = "select" => Cardinality(sel) = 1
  /\ dom' = [dom EXCEPT !.sel = sel]
  /\ Writes(Selected(dom.opts, sel), "user")
  /\ UNCHANGED <<config, options, vnode>>

-----------------------------------------------------------------------------
(***************************************************************************)
(* The program.                                                            *)
(***************************************************************************)
ProgramStep == ops < MaxOps /\ ops' = ops + 1

Assignable ==
  CASE IsText -> Texts \union {Number}
    [] IsArray -> Arrays
    [] OTHER -> Boxes \union {None, Number}

\* With boxes not between an event and the render it caused: a value that is put
\* back then leaves the box as the user made it.
Assign(v) ==
  /\ ProgramStep
  /\ v # data
  /\ HasBoxes => ~dirty
  /\ Writes(v, "program")
  /\ UNCHANGED <<config, options, dom, vnode>>

ChangeOptions(opts) ==
  /\ ProgramStep /\ IsSelect /\ opts # options
  /\ options' = opts
  /\ dirty' = TRUE
  /\ UNCHANGED <<config, data, author, dom, vnode>>

\* The component is rendered for another reason.
ForceUpdate ==
  /\ ProgramStep /\ ~dirty
  /\ dirty' = TRUE
  /\ UNCHANGED <<config, data, author, options, dom, vnode>>

-----------------------------------------------------------------------------
(***************************************************************************)
(* A render and its patch.                                                 *)
(***************************************************************************)
Rendered(opts) ==
  [data |-> data, checked |-> [b \in BoxesOf |-> Checked(data, b)], options |-> opts]

\* isDirtyWithModifiers
isDirtyWithModifiers(value, new) ==
  IF config.number THEN toNumber(value) # toNumber(new)
  ELSE IF config.trim THEN trim(value) # trim(new)
  ELSE value # new

\* shouldUpdateValue
shouldUpdateValue(new) ==
  /\ ~dom.composing
  /\ \/ ~dom.focused /\ dom.value # new
     \/ isDirtyWithModifiers(dom.value, new)

\* updateDOMProps, of value
RenderText ==
  /\ dirty /\ IsText
  /\ dirty' = FALSE
  /\ dom' = IF shouldUpdateValue(Str(data)) THEN [dom EXCEPT !.value = Str(data)] ELSE dom
  /\ vnode' = Rendered(<<>>)
  /\ UNCHANGED <<config, data, author, options, ops>>

\* updateDOMProps, of checked: the virtual nodes are compared, not the element
RenderBoxes ==
  /\ dirty /\ HasBoxes
  /\ dirty' = FALSE
  /\ vnode' = Rendered(<<>>)
  /\ dom' = [dom EXCEPT !.checked = [b \in BoxesOf |->
               IF vnode'.checked[b] # vnode.checked[b] THEN vnode'.checked[b] ELSE @[b]]]
  /\ UNCHANGED <<config, data, author, options, ops>>

\* needReset of componentUpdated.  prev are the options of the last render.
\* mutant: a value that was there before is not told from one that has gone
needResetAlways(prev) == \E i \in DOMAIN Bound(data) : hasNoMatchingOption(Bound(data)[i], options)

needReset(prev) ==
  /\ Differs(options, prev)
  /\ IF IsArray THEN \E i \in DOMAIN data : hasNoMatchingOption(data[i], options)
     ELSE data # vnode.data /\ hasNoMatchingOption(data, options)

\* The options are patched, then componentUpdated; a reset triggers change.
RenderSelect ==
  /\ dirty /\ IsSelect
  /\ vnode' = Rendered(options)
  /\ dom' = [dom EXCEPT !.opts = options, !.sel = setSelected(data, options)]
  /\ IF needReset(dom.opts)
     THEN /\ data' = Selected(dom'.opts, dom'.sel)
          /\ dirty' = (data' # data)
          /\ author' = "reset"
     ELSE dirty' = FALSE /\ UNCHANGED <<data, author>>
  /\ UNCHANGED <<config, options, ops>>

-----------------------------------------------------------------------------
\* The component is mounted: with a select, the directive's inserted
Init ==
  /\ config \in Configs
  /\ data \in Assignable
  /\ author = "program"
  /\ options \in (IF IsSelect THEN Options ELSE {<<>>})
  /\ vnode = Rendered(options)
  /\ dom = [value |-> IF IsText THEN Str(data) ELSE "", focused |-> FALSE, composing |-> FALSE,
            edited |-> FALSE, checked |-> vnode.checked,
            opts |-> options, sel |-> IF IsSelect THEN setSelected(data, options) ELSE {}]
  /\ dirty = FALSE
  /\ ops = 0

Render == RenderText \/ RenderBoxes \/ RenderSelect

Next ==
  \/ Focus \/ CompositionStart \/ CompositionEnd \/ Change \/ Blur
  \/ \E v \in Texts : Type(v)
  \/ \E b \in BoxesOf : Tick(b)
  \/ \E sel \in SUBSET DOMAIN dom.opts : Pick(sel)
  \/ \E v \in Assignable : Assign(v)
  \/ \E opts \in Options : ChangeOptions(opts)
  \/ ForceUpdate
  \/ Render

Spec == Init /\ [][Next]_vars

-----------------------------------------------------------------------------
(***************************************************************************)
(* Properties.                                                             *)
(***************************************************************************)
\* When nothing is about to be rendered, the element shows the data, exactly
\* unless the user is in it: then up to a space or to the way a number is
\* written, and not at all in the middle of a composition or of a lazy edit.
\* (updateDOMProps, setSelected, the handlers of input, change and blur.)
ViewShowsData ==
  ~dirty =>
    CASE IsText ->
           \/ dom.value = Str(data)
           \/ dom.composing \/ (config.lazy /\ dom.edited)
           \/ dom.focused /\ Entered(dom.value) = Entered(Str(data))
      [] HasBoxes -> \A b \in BoxesOf : dom.checked[b] = Checked(data, b)
      [] IsSelect -> dom.opts = options /\ dom.sel = setSelected(data, options)

TypingIsKept ==
  RenderText /\ (dom.composing \/ (dom.focused /\ author = "user" /\ ~config.lazy))
    => dom'.value = dom.value

Values(d) == {v \in ToSet(Bound(d)) : v # None}

\* At most the end of the list is gone.
OnlyShortened ==
  LET Shown(opts) == [i \in DOMAIN opts |-> Str(opts[i])]
  IN  IsPrefix(Shown(options), Shown(vnode.options))

SelectionIsKept ==
  RenderSelect =>
    /\ \A v \in Values(data) : looseIn(v, options) => looseIn(v, Bound(data'))
    /\ \A v \in Values(data') : looseIn(v, Bound(data))
    /\ OnlyShortened => data' = data
    /\ IsArray /\ ~OnlyShortened => \A v \in Values(data') : looseIn(v, options)
    /\ ~IsArray /\ data' # data => data # vnode.data /\ ~looseIn(data, options)

\* A render never changes the text under the user's hands, whatever causes it:
\* not in a composition, and not while the data is what the user entered
\* (dom-props.ts:82-124; with lazy it may).  Of what is selected, it keeps all
\* that has an option, and selects nothing else.  If the options change, other than
\* at their end, nothing without an option stays in an array, whether it lost its
\* option or never had one; otherwise the selection stays as it is.  The value of
\* a select of one is taken only if it was assigned since the render before and
\* has no option (runtime/directives/model.ts:53-75; see the README for the end).
InputIsKept == [][TypingIsKept /\ SelectionIsKept]_vars
=============================================================================
