--------------------------- MODULE MCPublication ---------------------------
(***************************************************************************)
(* Instances of Publication for TLC: numbers are given in the              *)
(* configurations, the settings of push as sets of strings.                *)
(***************************************************************************)
EXTENDS Publication
=============================================================================
