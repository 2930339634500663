------------------------------ MODULE EffectScope ------------------------------
(***************************************************************************)
(* Effect scopes (src/v3/reactivity/effectScope.ts): the scope of one      *)
(* component and those that its setup() makes with effectScope(), inside   *)
(* of each other.  The effects of a scope are watchers; ApiWatch has them. *)
(***************************************************************************)
EXTENDS Integers, Sequences, SequencesExt

CONSTANTS
  ScopeOrder, \* the scopes of setup() in the order they are made
  Own,        \* the scope of the component, vm._scope
  ParentOf,   \* ParentOf[s]: the scope in whose run() s is made
  Detached    \* those made detached

Scopes == ToSet(ScopeOrder)

ASSUME ScopesAssumption ==
  /\ ScopeOrder \in Seq(Scopes) /\ IsInjective(ScopeOrder) /\ Own \notin Scopes
  /\ ParentOf \in [Scopes -> Scopes \union {Own}]
  /\ Detached \subseteq Scopes

Scope(parent, index) ==
  [active |-> TRUE, scopes |-> <<>>, parent |-> parent, index |-> index]

IsNested(s) == s \in Scopes \ Detached

\* new EffectScope: a nested scope notes its index in the list of its parent.
Constructed(sc, s) ==
  LET p == ParentOf[s]
      children == sc[p].scopes
  IN  [sc EXCEPT ![s] = Scope(p, IF IsNested(s) THEN Len(children) + 1 ELSE 0),
                 ![p].scopes = IF IsNested(s) THEN Append(children, s) ELSE children]

\* before setup(): a scope that is not made yet is like one that has stopped
NoneConstructed ==
  [s \in Scopes \union {Own} |-> [Scope(Own, 0) EXCEPT !.active = (s = Own)]]

\* mutant: the last scope of the list is not put in the place of the one that goes
RemovedLast(sc, s) == [sc EXCEPT ![sc[s].parent].scopes = Front(@)]

\* A nested scope that stops leaves the list of its parent: the last takes its place.
Removed(sc, s) ==
  LET p    == sc[s].parent
      last == Last(sc[p].scopes)
      rest == Front(sc[p].scopes)
      i    == sc[s].index
  IN  IF last = s THEN [sc EXCEPT ![p].scopes = rest]
      ELSE [sc EXCEPT ![p].scopes = [rest EXCEPT ![i] = last], ![last].index = i]

\* the end of stop()
Stopped(sc, s, fromParent) ==
  LET h == IF IsNested(s) /\ ~fromParent THEN Removed(sc, s) ELSE sc
  IN  [h EXCEPT ![s].active = FALSE]

\* The scopes that are stopped with s, whatever the lists say: s and those made in
\* one of them.
Within ==
  [s \in Scopes \union {Own} |->
    { t \in Scopes \union {Own} :
        \A S \in SUBSET (Scopes \union {Own}) :
          s \in S /\ (\A x \in Scopes \ Detached : ParentOf[x] \in S => x \in S) => t \in S }]

IsWithin(t, s) == t \in Within[s]
================================================================================
