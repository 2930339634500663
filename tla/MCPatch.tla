------------------------------- MODULE MCPatch -------------------------------
(***************************************************************************)
(* Instances of Patch for TLC.                                             *)
(***************************************************************************)
EXTENDS Patch

CONSTANTS div, p

Kind(k, t) == [key |-> k, tag |-> t]

\* Three keys, one of them also with another tag, and nodes without a key
MCKinds == { Kind(k, div) : k \in 1 .. 3 } \union { Kind(1, p), Kind(Undefined, div) }

\* Up to a renaming of the keys the first list has the keys 1, 2, ... in order,
\* and key 1 may have either tag.
MCFirstLists ==
  { ch \in Lists :
      LET keys == SelectSeq([i \in DOMAIN ch |-> ch[i].key], LAMBDA k : k # Undefined)
      IN  keys = [i \in DOMAIN keys |-> i] }
===============================================================================
