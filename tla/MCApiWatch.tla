------------------------------ MODULE MCApiWatch ------------------------------
(***************************************************************************)
(* Instances of ApiWatch for TLC: refs a and b; p1, a pre watcher of a; y1, *)
(* a sync watcher of b; e1, an effect of a; q1, an effect of b.  setup()   *)
(* makes the scopes s1, s2 and s3 and, within s3, s4; s1 has y1, s2 has e1 *)
(* and s4 has q1.                                                          *)
(***************************************************************************)
EXTENDS ApiWatch

CONSTANTS a, b, p1, y1, e1, q1, s1, s2, s3, s4, main

MCScopes == <<s1, s2, s3, s4>>
MCParentOf == [s \in {s1, s2, s3, s4} |-> IF s = s4 THEN s3 ELSE main]
MCScopeOf(w) ==
  CASE w = p1 -> main [] w = y1 -> s1 [] w = e1 -> s2 [] w = q1 -> s4

Source(w) == IF w \in {p1, e1} THEN a ELSE b
===============================================================================
