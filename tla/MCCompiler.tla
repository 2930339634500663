------------------------------ MODULE MCCompiler ------------------------------
(***************************************************************************)
(* Templates of up to MaxTokens tokens in vocabularies that each bring one *)
(* part of the compiler out.                                               *)
(***************************************************************************)
EXTENDS SsrCodegen

Tok(kind, tag, marks) == [kind |-> kind, tag |-> tag, marks |-> marks, name |-> None]
S(tag, marks) == Tok("start", tag, marks)
E(tag) == Tok("end", tag, {})
T(text) == [kind |-> "chars", text |-> text]

Html == { S("div", {}), S("p", {}), S("li", {}), E("div"), E("p"), T("space"), T("text"), T("line") }
Void == { S("div", {}), S("br", {}), S("pre", {}), E("br"), E("pre"), T("line"), T("text"),
          [kind |-> "comment"] }
Chains == { S("div", {}), S("div", {"v-if"}), S("p", {"v-else-if", ":bind"}),
            S("template", {"v-else"}), E("div"), E("p"), E("template"), T("expr"), T("line") }
Loops == { S("div", {"attr"}), S("p", {"v-for", "key"}), S("template", {"v-for"}), S("fn", {}),
           E("p"), E("template"), T("expr"), T("text") }
OnceOnly == { S("div", {"attr"}), S("template", {"v-for"}), S("b", {"v-once"}), S("i", {"v-if", "v-once"}),
          E("template"), E("b"), T("expr") }
SlotA == [S("template", {"v-slot"}) EXCEPT !.name = "a"]
Slots == { S("comp", {}), SlotA, [S("template", {"v-slot=", "v-if"}) EXCEPT !.name = "a"],
           [S("template", {"v-slot", "v-else"}) EXCEPT !.name = "b"],
           E("template"), E("comp"), T("expr") }
Outlets == { S("comp", {"v-for"}), [S("comp", {"v-slot="}) EXCEPT !.name = "default"], SlotA,
             S("slot", {}), E("template"), E("comp"), T("expr") }
Verbatim == { S("div", {"v-pre"}), S("p", {":bind"}), S("p", {"key"}), S("template", {}),
              E("div"), E("p"), T("expr") }
RawText == { S("div", {"v-pre"}), S("style", {}), S("textarea", {":bind"}), S("img", {"/", "attr"}),
         E("div"), E("textarea"), T("expr") }

Server == { S("div", {}), S("p", {"v-dir"}), S("p", {":bind", "v-if"}), S("b", {"v-else", "v-for"}),
            S("i", {"v-text"}), E("p"), E("b"), T("expr") }
ServerLoops == { S("div", {}), S("p", {":bind", "v-if"}), S("comp", {"v-else"}), S("template", {"v-for"}),
                 S("fn", {"v-for"}), E("p"), E("template"), E("comp"), T("expr") }

Branches == { [S("comp", {"v-if", "v-slot"}) EXCEPT !.name = "default"],
              [S("comp", {"v-else", "v-slot"}) EXCEPT !.name = "default"],
              S("comp", {"v-else"}), E("comp"), T("text"), T("expr") }

MCVocabularies ==
  { Html, Void, Chains, Loops, OnceOnly, Slots, Outlets, Verbatim, RawText, Server, ServerLoops,
    Branches }

Data(a, b, n, x) == [a |-> a, b |-> b, n |-> n, x |-> x, given |-> a]
MCDatas == { Data(TRUE, FALSE, 2, 1), Data(FALSE, TRUE, 1, 2), Data(FALSE, FALSE, 2, 2) }

MCComponents == { "comp", "fn" }
MCUnary == { "br", "img" }
MCNonPhrasing == { "div", "li" }
MCLeftOpen == { "p", "li" }
MCPlainText == { "style", "textarea" }
===============================================================================
