--------------------------- MODULE StorageClaims ---------------------------
(***************************************************************************)
(* What the documentation says of stored files and does not hold, stated   *)
(* over the states and steps of Erasure.                                   *)
(***************************************************************************)
EXTENDS Erasure

\* A member whose identity nothing else holds can have it deleted: no row of
\* another user stands in the way of the transaction.
\* docs/CODEX_DELIVERY_REPORT.md: the shared identity is kept for another App,
\* the console, an organisation, a role, a resource or billing, and otherwise
\* the user and the credentials are deleted.
DeletionGoesThrough ==
  \A a \in Users : MayDelete(a, TRUE) => ~Referred(a, TRUE)
=============================================================================
