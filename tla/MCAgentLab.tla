------------------------------ MODULE MCAgentLab ------------------------------
(***************************************************************************)
(* AgentLab for TLC: two titles, test cases of every kind, a draft without *)
(* a driver, one and two tags.                                             *)
(***************************************************************************)
EXTENDS AgentLab

CONSTANTS x, y, g1, g2

MCDrafts ==
    [title : {x, y}, tags : {{g1, g2}}, driver : {TRUE}, cases : Cases]
    \cup {[title |-> x, tags |-> {g1}, driver |-> FALSE, cases |-> "strong"]}
=============================================================================
