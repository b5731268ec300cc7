----------------------------- MODULE MCAppSession -----------------------------
(***************************************************************************)
(* AppSession for TLC: two names and two emails in every pairing, so that  *)
(* accounts may clash by either, two attempts, so that one may race or     *)
(* overtake the other or follow a logout, two requests at a time.          *)
(***************************************************************************)
EXTENDS AppSession, TLC

CONSTANTS u, v, e, f

Typed == [username : {u, v}, email : {e, f}]

Sym == Permutations(Requests) \cup Permutations(Attempts)
       \cup Permutations({u, v}) \cup Permutations({e, f})
=============================================================================
