----------------------------- MODULE MCDelivery -----------------------------
(***************************************************************************)
(* Instances of Delivery for TLC.  Deliveries and jobs are model values of *)
(* the configurations; a job id is made for one delivery.                  *)
(***************************************************************************)
EXTENDS DeliveryClaims, TLC

CONSTANTS d1, d2, d3, j1, j2, j3, j4, j5

AllChannels == d1 :> "push" @@ d2 :> "sms" @@ d3 :> "email"
TwoPushes == d1 :> "push" @@ d2 :> "push"

OnePush == d1 :> "push"

TwoJobsOfOne == j1 :> d1 @@ j2 :> d1
JobsOfAll == j1 :> d1 @@ j2 :> d1 @@ j3 :> d2 @@ j4 :> d2 @@ j5 :> d3
OneJobEach == j1 :> d1 @@ j2 :> d2
=============================================================================
