--------------------------- MODULE MCAsyncComponent ---------------------------
(***************************************************************************)
(* An instance of AsyncComponent for TLC: two owners, three requests.      *)
(***************************************************************************)
EXTENDS AsyncComponent

CONSTANTS o1, o2

MCOwners == {o1, o2}
===============================================================================
