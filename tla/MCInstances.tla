----------------------------- MODULE MCInstances -----------------------------
(***************************************************************************)
(* A root, a component A with a slot, and a component B.  A renders an     *)
(* element around its slot, a component alone, or nothing; so the elements *)
(* of their roots change under the parents.                                *)
(***************************************************************************)
EXTENDS Instances, TLC

Data(ref, inFor, dirs, on, prop) ==
  [ref |-> ref, inFor |-> inFor, dirs |-> dirs, on |-> on, prop |-> prop]
Elm(name, data, kids) == Node("elm", name, 0, data, kids)
Text(t) == Node("text", t, 0, NoData, <<>>)
Slot == Node("slot", "slot", 0, NoData, <<Text("t2")>>)
A(key, data, kids) == Node("comp", "A", key, data, kids)
B(key, data) == Node("comp", "B", key, data, <<>>)
Keyed(key, n) == [n EXCEPT !.key = key]

Ref(r) == Data(r, FALSE, {}, 0, NoValue)
RefFor(r) == Data(r, TRUE, {}, 0, NoValue)
Dirs(ds) == Data(None, FALSE, ds, 0, NoValue)

RootViews == <<
  Elm("div", NoData, << A(1, Data("r", FALSE, {"d1"}, 1, NoValue), <<Elm("p", Ref("s"), <<>>)>>), Text("t1") >>),
  Elm("div", NoData, << Keyed(2, Elm("p", RefFor("s"), <<>>)), Keyed(3, Elm("p", RefFor("s"), <<>>)),
                        A(1, Data("r", FALSE, {"d1", "d2"}, 2, Given(1)), <<>>) >>),
  Elm("div", NoData, << A(4, Dirs({"d2"}), <<Elm("p", Dirs({"d1"}), <<Text("t1")>>)>>),
                        Keyed(3, Elm("p", RefFor("s"), <<>>)), Keyed(2, Elm("p", Ref("r"), <<>>)) >>),
  A(1, Data("r", FALSE, {"d1"}, 1, NoValue), <<>>) >>

AViews == <<
  Elm("section", NoData, << Slot, B(0, Data("r", FALSE, {"d2"}, 0, NoValue)) >>),
  B(0, Data("r", FALSE, {"d2"}, 1, Given(1))),
  EmptyNode,
  Elm("section", Dirs({"d2"}), << Elm("div", NoData, <<Slot>>), B(0, NoData) >>) >>

BViews == << Elm("b", Dirs({"d1"}), <<>>), Elm("i", NoData, <<Text("t1")>>), EmptyNode >>

MCViews == [Root |-> RootViews, A |-> AViews, B |-> BViews]

MCOptions ==
  [Root |-> [prop |-> FALSE, provide |-> 1, inject |-> FALSE],
   A    |-> [prop |-> TRUE, provide |-> 2, inject |-> TRUE],
   B    |-> [prop |-> TRUE, provide |-> 0, inject |-> TRUE]]

MCReactions ==
  { <<"B", "mounted">> :> "next", <<"A", "destroyed">> :> "next",
    (<<"B", "created">> :> "next") @@ (<<"B", "mounted">> :> "destroy") }

Shape(name, kids) == [name |-> name, kids |-> kids]
Leaf(name) == Shape(name, <<>>)
MCServers ==
  { Shape("div", <<Shape("section", <<Leaf("p"), Leaf("b")>>), Leaf("t1")>>),
    Shape("div", <<Shape("section", <<Leaf("p"), Leaf("b")>>), Leaf("t2")>>),
    Shape("div", <<Shape("section", <<Leaf("p"), Leaf("i")>>), Leaf("t1")>>),
    Shape("div", <<Shape("section", <<Leaf("p")>>), Leaf("t1")>>),
    Leaf("div"), Shape("p", <<Leaf("t1")>>) }
=============================================================================
