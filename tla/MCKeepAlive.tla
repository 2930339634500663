----------------------------- MODULE MCKeepAlive -----------------------------
(***************************************************************************)
(* An instance of KeepAlive for TLC.                                       *)
(***************************************************************************)
EXTENDS KeepAlive

CONSTANTS a1, b1, c1, x1, z1

\* The root shows a1, b1 and c1, and a1 shows x1 and z1.
MCKinds == {a1, b1, c1, x1, z1}
MCShows == [k \in MCKinds \union {top} |->
              CASE k = top -> {a1, b1, c1} [] k = a1 -> {x1, z1} [] OTHER -> {}]
MCTag == [k \in MCKinds |-> k]
MCLimit == [k \in MCKinds \union {top} |-> IF k = top THEN 2 ELSE 0]
===============================================================================
