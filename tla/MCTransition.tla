----------------------------- MODULE MCTransition -----------------------------
(* Every use, mode and way to end.  Mode in-out without classes and without a *)
(* user's done is left out: there the new element enters before the old one   *)
(* begins to leave, and the old one then waits for ever.                      *)
EXTENDS Transition

MCConfigs ==
  {c \in [use : {"if", "kept", "show"}, mode : {"", "out-in", "in-out"},
          css : BOOLEAN, control : BOOLEAN, appear : BOOLEAN] :
     /\ c.use = "show" => c.mode = ""
     /\ c.mode = "in-out" => c.css \/ c.control
     /\ c.appear => c.css}
=============================================================================
