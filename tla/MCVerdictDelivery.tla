-------------------------- MODULE MCVerdictDelivery --------------------------
(***************************************************************************)
(* VerdictDelivery for TLC: two phones, of one user or of two.             *)
(***************************************************************************)
EXTENDS VerdictDelivery, TLC

CONSTANTS d1, d2, u1, u2, s1, s2

OneUser  == d1 :> u1 @@ d2 :> u1
TwoUsers == d1 :> u1 @@ d2 :> u2
OnePhone == d1 :> u1
Owner1   == s1 :> u1
Owner2   == s1 :> u1 @@ s2 :> u2
=============================================================================
