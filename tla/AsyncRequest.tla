----------------------------- MODULE AsyncRequest -----------------------------
(***************************************************************************)
(* What an async component promises to the components that render it: its  *)
(* outcome is decided once, for all of them, and each of them comes to     *)
(* show it.                                                                *)
(***************************************************************************)
CONSTANT Owners

VARIABLES
  outcome, \* "pending", "component" or "error"
  shown    \* the outcome that each owner shows, or "none"

vars == <<outcome, shown>>

Outcomes == {"pending", "component", "error"}

Init == outcome = "pending" /\ shown = [o \in Owners |-> "none"]

Settle ==
  /\ outcome = "pending"
  /\ outcome' \in {"component", "error"}
  /\ UNCHANGED shown

\* A callback factory may settle while an owner renders it.
SettleAndShow(o) ==
  /\ outcome = "pending"
  /\ outcome' = "component"
  /\ shown' = [shown EXCEPT ![o] = outcome']

Appear(o) ==
  /\ shown[o] = "none"
  /\ shown' = [shown EXCEPT ![o] = outcome]
  /\ UNCHANGED outcome

Refresh(o) ==
  /\ shown[o] \notin {"none", outcome}
  /\ shown' = [shown EXCEPT ![o] = outcome]
  /\ UNCHANGED outcome

Leave(o) ==
  /\ shown[o] # "none"
  /\ shown' = [shown EXCEPT ![o] = "none"]
  /\ UNCHANGED outcome

Next ==
  \/ Settle
  \/ \E o \in Owners : SettleAndShow(o) \/ Appear(o) \/ Refresh(o) \/ Leave(o)

Spec == Init /\ [][Next]_vars /\ \A o \in Owners : WF_vars(Refresh(o))
===============================================================================
