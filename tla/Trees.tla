------------------------------- MODULE Trees -------------------------------
(***************************************************************************)
(* Adjacency lists: rows that name their parent, as organisation units,    *)
(* roles and menus do.  The recursive queries of the repositories walk up  *)
(* or down from a row over the rows that are not deleted; here they are    *)
(* least closed sets, which need no recursion.                             *)
(***************************************************************************)
EXTENDS Naturals, FiniteSets

UpClosed(parent, N, S) == \A x \in S : parent[x] \in N => parent[x] \in S
DownClosed(parent, N, S) == \A x \in N : parent[x] \in S => x \in S

\* n and what lies above it, and n and what lies below it; nothing when n is
\* not one of the rows N.
Above(parent, N, n) ==
  {x \in N : n \in N /\ \A S \in SUBSET N : n \in S /\ UpClosed(parent, N, S) => x \in S}
Below(parent, N, n) ==
  {x \in N : n \in N /\ \A S \in SUBSET N : n \in S /\ DownClosed(parent, N, S) => x \in S}

\* How deep n lies: 1 for a root, 0 for a row that is not there.
Depth(parent, N, n) == Cardinality(Above(parent, N, n))

\* No row lies above itself: whatever rows are picked, one of them has its
\* parent elsewhere.
Acyclic(parent, N) == \A S \in SUBSET N : S # {} => \E x \in S : parent[x] \notin S
=============================================================================
