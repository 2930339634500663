------------------------------- MODULE MCOptions -------------------------------
(***************************************************************************)
(* Two constructors beside Vue; the mixins bring hooks, handlers and a     *)
(* method, and one object has mixins itself.                               *)
(***************************************************************************)
EXTENDS Options, TLC

Says(hook, watch, method, data, mixins) ==
  [hook |-> hook, watch |-> watch, method |-> method, data |-> data, mixins |-> mixins]

MCWritten ==
  ("base" :> Says(<<"b">>, <<"wb">>, None, {<<"x", "b">>}, <<"plain">>)) @@
  ("test" :> Says(<<>>, <<>>, "mt", {<<"y", "t">>}, <<>>)) @@
  ("plain" :> Says(<<"p">>, <<"wp">>, "mp", {<<"x", "p">>, <<"z", "p">>}, <<>>)) @@
  ("empty" :> Says(<<>>, <<>>, None, {}, <<>>)) @@
  ("late" :> Says(<<"l">>, <<>>, "ml", {<<"y", "l">>}, <<>>))
===============================================================================
