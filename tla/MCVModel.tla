-------------------------------- MODULE MCVModel --------------------------------
(***************************************************************************)
(* An instance of VModel for TLC: every kind of element, with every        *)
(* modifier of its own.  Both trim and number on one field are left out:   *)
(* with them the space at the beginning of a text that is no number is     *)
(* taken away while the user types.                                        *)
(***************************************************************************)
EXTENDS VModel

MCConfigs ==
  {c \in [kind : {"text", "box", "boxes", "radio", "select", "multiple"},
          lazy : BOOLEAN, number : BOOLEAN, trim : BOOLEAN] :
     /\ c.kind # "text" => ~c.lazy /\ ~c.trim
     /\ c.kind = "box" => ~c.number
     /\ ~(c.number /\ c.trim)}

MCUnpadded(v) == "a"

MCOptions == {<<"1", "b">>, <<"b">>, <<"b", "c">>, <<"c", "b", "1">>, <<>>}

MCArrays == {<<>>, <<"b">>, <<"b", "#1">>, <<"c", "1">>}
=============================================================================
