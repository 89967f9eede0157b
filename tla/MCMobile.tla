------------------------------ MODULE MCMobile ------------------------------
(* Instances of MobileSession. *)
EXTENDS MobileSession, TLC

Symmetric == Permutations(Calls) \cup Permutations(Sessions)
             \cup Permutations(Tokens) \cup Permutations(Coordinators)
=============================================================================
