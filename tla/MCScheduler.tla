---------------------------- MODULE MCScheduler ----------------------------
(***************************************************************************)
(* An instance of Scheduler for TLC: a parent and a child component,       *)
(* rendered by the watchers 2 and 3.                                       *)
(***************************************************************************)
EXTENDS Scheduler, TLC

\* 1 is a user watcher of the parent
ParentAndChild == (1 :> 2) @@ (2 :> 2) @@ (3 :> 3)
=============================================================================
