--------------------------- MODULE MCContestScore ---------------------------
(***************************************************************************)
(* ContestScore for TLC.                                                   *)
(***************************************************************************)
EXTENDS ContestScore, TLC

Sym == Permutations(Problems) \cup Permutations(Users) \cup Permutations(Consumers)
=============================================================================
