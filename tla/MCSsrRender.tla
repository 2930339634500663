----------------------------- MODULE MCSsrRender -----------------------------
(* Pages with cached components inside cached ones, prefetches, async         *)
(* components of each kind, a v-show handed down, and pages that fail.        *)
EXTENDS SsrRender

Text(id) == [kind |-> "text", id |-> id]
El(id, show, children) == [kind |-> "element", id |-> id, show |-> show, children |-> children]
Str(id, children) == [kind |-> "string", id |-> id, children |-> children]
Comp(c, prop, show) == [kind |-> "component", comp |-> c, prop |-> prop, show |-> show]
Async(answers, fails, result) ==
  [kind |-> "async", answers |-> answers, fails |-> fails, show |-> <<>>, result |-> result]

Def(cached, registers, prefetch, throws, root) ==
  [cached |-> cached, registers |-> registers, prefetch |-> prefetch,
   throws |-> throws, root |-> root]

MCComponents == {"leaf", "card", "hoc", "frail", "bad", "gate", "hasty",
                 "home", "list", "weak", "shut", "lost", "void", "rash"}

MCDefinition == [c \in MCComponents |->
  CASE c = "leaf" -> Def(TRUE, TRUE, "none", FALSE, El("leaf", <<>>, <<Text("l")>>))
    [] c = "card" -> Def(TRUE, TRUE, "waits", FALSE,
         El("card", <<>>, <<Comp("leaf", 1, <<>>), Comp("hoc", 2, <<>>), El("end", <<>>, <<>>)>>))
    [] c = "hoc" -> Def(FALSE, TRUE, "none", FALSE, El("hoc", <<TRUE>>, <<Str("s", <<Text("t")>>)>>))
    [] c = "bad" -> Def(FALSE, FALSE, "none", TRUE, Text("never"))
    [] c = "frail" -> Def(TRUE, FALSE, "none", FALSE,
         El("frail", <<>>, <<Comp("leaf", 1, <<>>), Comp("bad", 1, <<>>)>>))
    [] c = "gate" -> Def(FALSE, FALSE, "rejects", FALSE, Text("never"))
    [] c = "hasty" -> Def(FALSE, FALSE, "throws", FALSE, Text("hasty"))
    [] c = "home" -> Def(FALSE, FALSE, "none", FALSE,
         El("home", <<>>, <<Comp("card", 1, <<>>), Comp("hoc", 1, <<FALSE>>), Comp("leaf", None, <<>>)>>))
    [] c = "list" -> Def(FALSE, FALSE, "waits", FALSE,
         El("list", <<>>, <<Async("promise", FALSE, <<Comp("card", 1, <<>>)>>),
                            Async("now", FALSE, <<Comp("leaf", 1, <<>>), Text("u")>>),
                            Async("callback", FALSE, <<>>),
                            Async("resolved", FALSE, <<Text("v")>>)>>))
    [] c = "weak" -> Def(FALSE, FALSE, "none", FALSE,
         El("weak", <<>>, <<Comp("leaf", 1, <<>>), Async("now", FALSE, <<Comp("frail", 1, <<>>)>>)>>))
    [] c = "shut" -> Def(FALSE, FALSE, "none", FALSE,
         El("shut", <<>>, <<Str("e", <<>>), Comp("gate", 1, <<>>)>>))
    [] c = "lost" -> Def(FALSE, FALSE, "none", FALSE, El("lost", <<>>, <<Async("promise", TRUE, <<>>)>>))
    [] c = "void" -> Def(FALSE, FALSE, "none", FALSE, El("void", <<>>, <<Async("now", TRUE, <<>>)>>))
    [] c = "rash" -> Def(FALSE, FALSE, "none", FALSE,
         El("rash", <<>>, <<Comp("hasty", 1, <<>>), Comp("frail", 1, <<>>)>>))]

MCCacheKinds == {None} \union [has : BOOLEAN, later : BOOLEAN]
=============================================================================
