------------------------ MODULE SubmissionLifecycle ------------------------
(***************************************************************************)
(* What the judging system promises, with no queue, worker, retry or crash *)
(* in sight.  A submission is taken once and graded once; the scoreboard   *)
(* of a problem is always the count of its graded submissions, in the same *)
(* step as the grade; a watcher is told the grade and nothing else.        *)
(***************************************************************************)
EXTENDS Integers, FiniteSets

CONSTANTS Submissions, Problems, Verdicts, Row, NoRow

VARIABLES
    ledger,     \* each submission taken, with its grade once it has one
    board,      \* each problem's counters
    told        \* the grades told to each submission's watchers

Taken(s)  == ledger[s] # NoRow
Graded(s) == Taken(s) /\ ledger[s].status \in Verdicts

Count(p) ==
    LET graded == {s \in Submissions : Graded(s) /\ ledger[s].problem = p} IN
    [totalSubmissions |-> Cardinality(graded),
     totalAccepted    |-> Cardinality({s \in graded : ledger[s].status = "ACCEPTED"})]

Board == [p \in Problems |-> Count(p)]

LedgerInit ==
    /\ ledger = [s \in Submissions |-> NoRow]
    /\ board = Board
    /\ told = [s \in Submissions |-> {}]

Take(s) ==
    /\ ~ Taken(s)
    /\ \E row \in Row :
          /\ row.status = "PENDING"
          /\ ledger' = [ledger EXCEPT ![s] = row]
    /\ UNCHANGED <<board, told>>

Grade(s) ==
    /\ Taken(s) /\ ~ Graded(s)
    /\ \E v \in Verdicts : ledger' = [ledger EXCEPT ![s].status = v]
    /\ board' = Board'
    /\ UNCHANGED told

Tell(s) ==
    /\ Graded(s)
    /\ told' = [told EXCEPT ![s] = {ledger[s].status}]
    /\ UNCHANGED <<ledger, board>>

LedgerNext == \E s \in Submissions : Take(s) \/ Grade(s) \/ Tell(s)

lifecycleVars == <<ledger, board, told>>

LedgerSpec == LedgerInit /\ [][LedgerNext]_lifecycleVars

-----------------------------------------------------------------------------
(* A grade is never replaced: the submission's row stays as it is.         *)
GradeIsFinal ==
    [][\A s \in Submissions : Graded(s) => ledger'[s] = ledger[s]]_lifecycleVars

(* What the watchers of a submission were told is what its row says now.   *)
ToldTheGrade ==
    \A s \in Submissions :
        told[s] # {} => Graded(s) /\ told[s] = {ledger[s].status}
=============================================================================
