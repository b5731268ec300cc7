----------------------------- MODULE MCContestRoom -----------------------------
(***************************************************************************)
(* ContestRoom for TLC: two users, a top of one, the phone of one.         *)
(***************************************************************************)
EXTENDS ContestRoom, TLC

CONSTANTS f1

OwnPhone == f1 :> 1
=============================================================================
