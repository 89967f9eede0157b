----------------------------- MODULE AtMostOnce -----------------------------
(***************************************************************************)
(* What the delivery pipeline promises about a notification: the provider  *)
(* gets it at most once for each time a person asks for it, and what was   *)
(* confirmed as sent stays so.                                             *)
(***************************************************************************)
CONSTANT Deliveries

VARIABLES
  exposure,  \* "written" when the recipient may have been notified,
             \* "reopened" when an operator asked for another attempt since
  confirmed  \* deliveries recorded as sent

Init ==
  /\ exposure = [d \in Deliveries |-> "none"]
  /\ confirmed = {}

\* The provider takes the notification, perhaps without an answer.
Write(d) ==
  /\ exposure[d] # "written"
  /\ d \notin confirmed
  /\ exposure' = [exposure EXCEPT ![d] = "written"]
  /\ UNCHANGED confirmed

Confirm(d) ==
  /\ exposure[d] = "written"
  /\ confirmed' = confirmed \cup {d}
  /\ UNCHANGED exposure

\* An operator asks for an unconfirmed notification again.
Reopen(d) ==
  /\ d \notin confirmed
  /\ \E e \in {"none", "reopened"} : exposure' = [exposure EXCEPT ![d] = e]
  /\ UNCHANGED confirmed

Next == \E d \in Deliveries : Write(d) \/ Confirm(d) \/ Reopen(d)

Spec == Init /\ [][Next]_<<exposure, confirmed>>
=============================================================================
