----------------------------- MODULE TokenFamily -----------------------------
(***************************************************************************)
(* What the server promises about refresh tokens: the tokens of a session  *)
(* are a chain with one end. A family that is active has exactly one       *)
(* current token, only that one is exchanged, each token belongs to one    *)
(* family for good, and a family that was ended gets no token again.       *)
(***************************************************************************)
CONSTANTS
  Families,  \* one for each session
  Tokens,
  None       \* no family

VARIABLES
  state,   \* of each family: none, active, revoked
  owner,   \* the family of each token that was issued
  current  \* the tokens of each family that can be exchanged

Init ==
  /\ state = [f \in Families |-> "none"]
  /\ owner = [t \in Tokens |-> None]
  /\ current = [f \in Families |-> {}]

Open(f, t) ==
  /\ state[f] = "none"
  /\ owner[t] = None
  /\ state' = [state EXCEPT ![f] = "active"]
  /\ owner' = [owner EXCEPT ![t] = f]
  /\ current' = [current EXCEPT ![f] = {t}]

Exchange(f, t, new) ==
  /\ state[f] = "active"
  /\ current[f] = {t}
  /\ owner[new] = None
  /\ owner' = [owner EXCEPT ![new] = f]
  /\ current' = [current EXCEPT ![f] = {new}]
  /\ UNCHANGED state

End(F) ==
  /\ state' = [f \in Families |-> IF f \in F /\ state[f] = "active" THEN "revoked" ELSE state[f]]
  /\ current' = [f \in Families |-> IF f \in F THEN {} ELSE current[f]]
  /\ UNCHANGED owner

Next ==
  \/ \E f \in Families, t \in Tokens : Open(f, t)
  \/ \E f \in Families, t, new \in Tokens : Exchange(f, t, new)
  \/ \E F \in SUBSET Families : End(F)

Spec == Init /\ [][Next]_<<state, owner, current>>
=============================================================================
