-------------------------------- MODULE AgentLab --------------------------------
(***************************************************************************)
(* backend/ai-lab: one process that runs either of its two programs.       *)
(*                                                                         *)
(*   the lab (04-multi-agent-lab.js): an architect drafts a problem, a     *)
(*   solver tries to solve it, an adversary tries to get a wrong solution  *)
(*   accepted; the draft is revised or inserted                            *)
(*   the installer (problem-architect.js): drafts go to create_problem     *)
(*   until one is accepted                                                 *)
(*                                                                         *)
(* What the models write is chosen freely.  A draft is a record of its     *)
(* title, tags, whether it has a JavaScript driver, and what its hidden    *)
(* test cases can tell: "strong" cases accept only correct code, "weak"    *)
(* ones the adversary's as well, "wrong" ones nothing.                     *)
(***************************************************************************)
EXTENDS Naturals, SequencesExt

CONSTANTS
    Titles, Tags,
    Drafts,
    NoCases, NoRow,
    Faults          \* "model", "db", "judge", "tool", "answer"

MAX_REVISIONS == 2
MAX_ATTEMPTS  == 3      \* of the solver; of the installer

Cases == {"strong", "weak", "wrong"}
Codes == {"none", "correct", "flawed"}

ASSUME LabAssumption ==
    /\ Drafts \subseteq [title : Titles, tags : SUBSET Tags, driver : BOOLEAN, cases : Cases]
    /\ NoCases \notin Cases

VARIABLES
    pc,
    drafts,         \* all drafts of the run; the lab's state has the last one
    attempt,        \* of the solver or of the installer, from 1
    revisionCount,
    solverOk,
    codes,          \* the solver's last code and the adversary's (history)
    spoiled,        \* the attack was rejected, and not by the cases (history)
    docker,         \* dockerAvailableCache
    cache,          \* of the one Judge of the process, by slug of the title
    row,            \* what approveNode inserted
    installed,      \* how many rows create_problem inserted
    misreported,    \* how many of them without saying so (history)
    connected,      \* to the MCP server, a child process
    outcome         \* of the installer, while the connection is closed

labVars  == <<drafts, revisionCount, solverOk, codes, spoiled, docker, cache, row>>
toolVars == <<installed, misreported, connected, outcome>>
vars == <<pc, attempt, labVars, toolVars>>

Ended == {"approved", "rejected", "installed", "gave_up", "thrown"}

TypeOK ==
    /\ pc \in {"architect", "solver", "adversary", "files", "insert", "link",
               "connect", "generate", "call", "close"} \cup Ended
    /\ drafts \in Seq(Drafts)
    /\ attempt \in 1..MAX_ATTEMPTS
    /\ revisionCount \in 0..(MAX_REVISIONS + 1)
    /\ solverOk \in BOOLEAN
    /\ codes \in [solver : Codes, adversary : Codes] /\ spoiled \in BOOLEAN
    /\ docker \in {"unknown", "yes", "no"}
    /\ cache \in [Titles -> Cases \cup {NoCases}]
    /\ row \in [cases : Cases, tags : SUBSET Tags] \cup {NoRow}
    /\ installed \in 0..MAX_ATTEMPTS /\ misreported \in 0..MAX_ATTEMPTS
    /\ connected \in BOOLEAN
    /\ outcome \in Ended

Init ==
    /\ pc \in {"architect", "connect"}
    /\ drafts = <<>> /\ attempt = 1 /\ revisionCount = 0 /\ solverOk = FALSE
    /\ codes = [solver |-> "none", adversary |-> "none"] /\ spoiled = FALSE
    /\ docker = "unknown" /\ cache = [t \in Titles |-> NoCases]
    /\ row = NoRow
    /\ installed = 0 /\ misreported = 0 /\ connected = FALSE /\ outcome = "gave_up"

draft == Last(drafts)

-----------------------------------------------------------------------------
(* localJudge.js.                                                          *)

Accepts(cases, code) ==
    CASE cases = "strong" -> code = "correct"
      [] cases = "weak"   -> TRUE
      [] cases = "wrong"  -> FALSE

\* Judge.getTestCases looks in its cache first.
JudgedCases(backend) ==
    IF backend = "yes" /\ cache[draft.title] # NoCases THEN cache[draft.title] ELSE draft.cases

\* Only ACCEPTED counts, and an infrastructure failure is no exception but
\* another status: a container that Docker cannot start or starts too late, a
\* host too slow for the time limit.
Verdicts(backend, code) ==
    {Accepts(JudgedCases(backend), code)} \cup (IF "judge" \in Faults THEN {FALSE} ELSE {})

\* Docker is asked for once.
Backends == IF docker = "unknown" THEN {"yes", "no"} ELSE {docker}

runAgainstDraft(backend) ==
    /\ docker' = backend
    /\ cache' = IF backend = "yes"
                THEN [cache EXCEPT ![draft.title] = JudgedCases(backend)] ELSE cache

-----------------------------------------------------------------------------
(* The nodes of the lab's graph.                                           *)

Architect ==
    /\ pc = "architect"
    /\ \E d \in Drafts : drafts' = Append(drafts, d)
    /\ solverOk' = FALSE /\ attempt' = 1
    /\ codes' = [solver |-> "none", adversary |-> "none"] /\ spoiled' = FALSE
    /\ pc' = "solver"
    /\ UNCHANGED <<revisionCount, docker, cache, row, toolVars>>

\* Mutated form: the solver tries until it is accepted.
SolverReportForever(ok) ==
    /\ solverOk' = ok
    /\ pc' = IF ok THEN "adversary" ELSE pc
    /\ attempt' = attempt

SolverReport(ok) ==
    /\ solverOk' = ok
    /\ IF ok \/ attempt = MAX_ATTEMPTS
       THEN pc' = "adversary" /\ attempt' = attempt
       ELSE pc' = pc /\ attempt' = attempt + 1

\* No code in the answer: an attempt is used up and nothing is judged.
SolverRefuses ==
    /\ pc = "solver"
    /\ SolverReport(FALSE)
    /\ UNCHANGED <<drafts, revisionCount, codes, spoiled, docker, cache, row, toolVars>>

SolverTries ==
    /\ pc = "solver" /\ draft.driver
    /\ \E code \in Codes \ {"none"}, backend \in Backends :
          /\ codes' = [codes EXCEPT !.solver = code]
          /\ runAgainstDraft(backend)
          /\ \E ok \in Verdicts(backend, code) : SolverReport(ok)
    /\ UNCHANGED <<drafts, revisionCount, spoiled, row, toolVars>>

\* Mutated form: the count before it goes up is compared.
ReviseLate ==
    /\ revisionCount' = revisionCount + 1
    /\ pc' = IF revisionCount <= MAX_REVISIONS THEN "architect" ELSE "rejected"

\* The count goes up first, then afterAdversary compares.
Revise ==
    /\ revisionCount' = revisionCount + 1
    /\ pc' = IF revisionCount' <= MAX_REVISIONS THEN "architect" ELSE "rejected"

Approve == pc' = "files" /\ UNCHANGED revisionCount

\* Mutated form: what was not attacked counts as not broken.
AdversarySkipsApproving ==
    /\ pc = "adversary" /\ ~ solverOk
    /\ Approve
    /\ UNCHANGED <<attempt, drafts, solverOk, codes, spoiled, docker, cache, row, toolVars>>

\* Nothing is attacked that the solver could not solve.
AdversarySkips ==
    /\ pc = "adversary" /\ ~ solverOk
    /\ Revise
    /\ UNCHANGED <<attempt, drafts, solverOk, codes, spoiled, docker, cache, row, toolVars>>

AdversaryResult(broke) == IF broke THEN Revise ELSE Approve

\* The model may write a correct solution although it was told not to.
AdversaryAttacks ==
    /\ pc = "adversary" /\ solverOk
    /\ \E code \in Codes \ {"none"}, backend \in Backends :
          /\ codes' = [codes EXCEPT !.adversary = code]
          /\ runAgainstDraft(backend)
          /\ \E broke \in Verdicts(backend, code) :
                /\ AdversaryResult(broke)
                /\ spoiled' = (broke # Accepts(JudgedCases(backend), code))
    /\ UNCHANGED <<attempt, drafts, solverOk, row, toolVars>>

-----------------------------------------------------------------------------
(* approveNode: no transaction around its statements.                      *)

WriteCases ==
    /\ pc = "files"
    /\ pc' = "insert"
    /\ UNCHANGED <<attempt, labVars, toolVars>>

InsertProblem ==
    /\ pc = "insert"
    /\ row' = [cases |-> draft.cases, tags |-> {}]
    /\ pc' = IF draft.tags = {} THEN "approved" ELSE "link"
    /\ UNCHANGED <<attempt, drafts, revisionCount, solverOk, codes, spoiled, docker, cache,
                   toolVars>>

\* Mutated form: the program ends with the first tag.
LinkFirstTag ==
    /\ pc = "link"
    /\ \E t \in draft.tags \ row.tags : row' = [row EXCEPT !.tags = @ \cup {t}]
    /\ pc' = "approved"
    /\ UNCHANGED <<attempt, drafts, revisionCount, solverOk, codes, spoiled, docker, cache,
                   toolVars>>

LinkTag ==
    /\ pc = "link"
    /\ \E t \in draft.tags \ row.tags : row' = [row EXCEPT !.tags = @ \cup {t}]
    /\ pc' = IF row'.tags = draft.tags THEN "approved" ELSE "link"
    /\ UNCHANGED <<attempt, drafts, revisionCount, solverOk, codes, spoiled, docker, cache,
                   toolVars>>

\* Nobody catches: a model, a temporary file or a statement that rejects, an
\* adversary that writes nothing, or code to judge for a draft without a driver.
LabThrows ==
    /\ \/ "model" \in Faults /\ pc \in {"architect", "solver"}
       \/ "model" \in Faults /\ pc = "adversary" /\ solverOk
       \/ "db" \in Faults /\ pc \in {"architect", "files", "insert", "link"}
       \/ pc = "solver" /\ ~ draft.driver
    /\ pc' = "thrown"
    /\ UNCHANGED <<attempt, labVars, toolVars>>

Lab ==
    \/ Architect \/ SolverRefuses \/ SolverTries \/ AdversarySkips \/ AdversaryAttacks
    \/ WriteCases \/ InsertProblem \/ LinkTag \/ LabThrows

-----------------------------------------------------------------------------
(* runArchitect.                                                           *)

\* The finally block, with what is returned or thrown after it.
Close(result) == pc' = "close" /\ outcome' = result

Connect ==
    /\ pc = "connect"
    /\ connected' = TRUE
    /\ pc' = "generate"
    /\ UNCHANGED <<attempt, labVars, installed, misreported, outcome>>

\* Tags and exemplar are read before; they may be missing.
ConnectFails ==
    /\ "tool" \in Faults \/ "db" \in Faults
    /\ pc = "connect"
    /\ pc' = "thrown"
    /\ UNCHANGED <<attempt, labVars, toolVars>>

NextAttempt ==
    IF attempt = MAX_ATTEMPTS THEN Close("gave_up") /\ attempt' = attempt
    ELSE pc' = "generate" /\ attempt' = attempt + 1 /\ UNCHANGED outcome

Generate ==
    /\ pc = "generate"
    /\ pc' = "call"
    /\ UNCHANGED <<attempt, labVars, toolVars>>

\* A refusal, or a reply that does not parse.
NothingParsed ==
    /\ pc = "generate"
    /\ NextAttempt
    /\ UNCHANGED <<labVars, installed, misreported, connected>>

\* Mutated form: the loop goes on after a success.
InstallsAndGoesOn ==
    /\ pc = "call"
    /\ installed' = installed + 1
    /\ NextAttempt
    /\ UNCHANGED <<labVars, misreported, connected>>

Installs ==
    /\ pc = "call"
    /\ installed' = installed + 1
    /\ Close("installed")
    /\ UNCHANGED <<attempt, labVars, misreported, connected>>

\* The row is there although the installer is not told.
Misreported == installed' = installed + 1 /\ misreported' = misreported + 1

\* "answer": create_problem reports an error although its commit succeeded.
Refused ==
    /\ pc = "call"
    /\ UNCHANGED <<installed, misreported>> \/ ("answer" \in Faults /\ Misreported)
    /\ NextAttempt
    /\ UNCHANGED <<labVars, connected>>

\* A model call or the tool call rejects (the latter after its time limit, when
\* the server may be anywhere in create_problem).
InstallerThrows ==
    /\ \/ "model" \in Faults /\ pc = "generate" /\ UNCHANGED <<installed, misreported>>
       \/ "tool" \in Faults /\ pc = "call" /\ UNCHANGED <<installed, misreported>>
       \/ "tool" \in Faults /\ pc = "call" /\ Misreported
    /\ Close("thrown")
    /\ UNCHANGED <<attempt, labVars, connected>>

\* An error of close() is swallowed.
Closed ==
    /\ pc = "close"
    /\ connected' = FALSE
    /\ pc' = outcome
    /\ UNCHANGED <<attempt, labVars, installed, misreported, outcome>>

Installer ==
    \/ Connect \/ ConnectFails \/ Generate \/ NothingParsed
    \/ Installs \/ Refused \/ InstallerThrows \/ Closed

Next == Lab \/ Installer

\* A model's answer and the end of a judged program are bounded by time limits.
\* `docker info` is not: it is assumed to end.
Spec == Init /\ [][Next]_vars /\ WF_vars(Next)

-----------------------------------------------------------------------------
\* A draft with the title of an earlier one.
Retitled == \E i \in 1..(Len(drafts) - 1) : drafts[i].title = draft.title

\* What the judge of the process has kept of the title, or the draft's own.
DecidingCases == IF docker = "yes" THEN cache[draft.title] ELSE draft.cases

(* TESTING_GUIDE.md:156-157: "once the Adversary fails to break it, the    *)
(* problem is approved and inserted".  The test cases by which a problem   *)
(* was approved were written for a draft of its title; they accept the     *)
(* solver's code, and do not accept the adversary's unless its run was     *)
(* spoiled.  They are the ones inserted, unless the Judge has kept those   *)
(* of an earlier draft with the title.                                     *)
ApprovedIsTested ==
    pc = "approved" =>
        /\ Accepts(DecidingCases, codes.solver)
        /\ spoiled \/ ~ Accepts(DecidingCases, codes.adversary)
        /\ \E i \in 1..Len(drafts) :
              drafts[i].title = draft.title /\ drafts[i].cases = DecidingCases
        /\ row.cases = DecidingCases \/ (docker = "yes" /\ Retitled)

(* Exit code 0 of the lab: the last draft is in the table with every tag.  *)
(* Exit code 1 without an error: nothing is, and the "max 2 revisions" of  *)
(* TESTING_GUIDE.md:156 were all tried, whatever used the rounds up.       *)
(* (An error may leave a row with some of its tags.)                       *)
ExitIsTrue ==
    /\ pc = "approved" => row = [cases |-> draft.cases, tags |-> draft.tags]
    /\ pc = "rejected" => row = NoRow /\ Len(drafts) = MAX_REVISIONS + 1

(* TESTING_GUIDE.md:136: the installer "Generates one problem".  Beside    *)
(* the rows whose create_problem call did not say so, it has inserted one  *)
(* if it reports one, and none if it gave up or threw.  However it ends,   *)
(* the MCP server it started does not outlive it.                          *)
InstallIsClean ==
    /\ pc \in Ended => ~ connected
    /\ pc = "installed" => installed = misreported + 1
    /\ pc \in {"gave_up", "thrown"} => installed = misreported

(* Both programs end, whatever the models write.                           *)
Ends == <>(pc \in Ended)
=============================================================================
