---------------------------- MODULE AgentLabProofs ----------------------------
(***************************************************************************)
(* Theorems about AgentLab, for every set of drafts the models may write.  *)
(*                                                                         *)
(* What the lab approves was judged in steps that lie apart, some of them  *)
(* with cases the judge had kept.  So the invariant follows a draft through *)
(* the graph: what is known of it when the solver is done, when the        *)
(* adversary is, and what the judge may have kept of its title.            *)
(***************************************************************************)
EXTENDS AgentLab, SequenceTheorems, TLAPS

HasDraft == pc \in {"solver", "adversary", "files", "insert", "link", "approved"}

\* Every revision is a draft more, and nothing is inserted before the end.
LabOK ==
    /\ pc = "architect" => Len(drafts) = revisionCount /\ revisionCount <= MAX_REVISIONS
    /\ HasDraft => Len(drafts) = revisionCount + 1 /\ revisionCount <= MAX_REVISIONS
    /\ pc \in {"architect", "solver", "adversary", "files", "insert"} => row = NoRow
    /\ pc = "link" => /\ row.cases = draft.cases /\ row.tags \subseteq draft.tags
                      /\ row \in [cases : Cases, tags : SUBSET Tags]
    /\ ExitIsTrue

CacheOK ==
    \A t \in Titles : cache[t] # NoCases =>
        \E i \in 1..Len(drafts) : drafts[i].title = t /\ drafts[i].cases = cache[t]

\* The draft was judged: from here on the judge answers by the same cases.
Judged ==
    /\ docker # "unknown"
    /\ docker = "yes" => cache[draft.title] # NoCases

\* Those cases, and what was seen of them.
CasesKnown ==
    /\ DecidingCases \in Cases
    /\ \E i \in 1..Len(drafts) :
          drafts[i].title = draft.title /\ drafts[i].cases = DecidingCases
    /\ draft.cases = DecidingCases \/ (docker = "yes" /\ Retitled)
Solved    == Accepts(DecidingCases, codes.solver)
Withstood == spoiled \/ ~ Accepts(DecidingCases, codes.adversary)

TestedOK ==
    /\ CacheOK
    /\ pc = "adversary" /\ solverOk => Judged /\ Solved
    /\ pc \in {"files", "insert", "link", "approved"} => CasesKnown /\ Solved /\ Withstood

\* An attempt inserts one problem at most; those of the attempts before were
\* not reported, and the last one is reported or not.
Reported == pc = "installed" \/ (pc = "close" /\ outcome = "installed")
ToolOK ==
    /\ pc \notin {"generate", "call", "close"} => ~ connected
    /\ pc = "connect" => installed = 0
    /\ pc \in {"generate", "call"} => installed < attempt
    /\ pc = "close" => outcome \in {"installed", "gave_up", "thrown"}
    /\ installed = misreported + (IF Reported THEN 1 ELSE 0)

IInv == TypeOK /\ LabOK /\ TestedOK /\ ToolOK

-----------------------------------------------------------------------------
LEMMA DraftType ==
    ASSUME TypeOK, LabOK, HasDraft
    PROVE  /\ draft \in Drafts /\ draft = drafts[Len(drafts)]
           /\ draft.title \in Titles /\ draft.tags \subseteq Tags
           /\ draft.driver \in BOOLEAN /\ draft.cases \in Cases
           /\ Len(drafts) \in Nat /\ Len(drafts) > 0
<1>1. drafts \in Seq(Drafts) /\ Len(drafts) > 0 /\ Len(drafts) \in Nat
  <2>1. drafts \in Seq(Drafts) /\ revisionCount \in Nat /\ Len(drafts) = revisionCount + 1
    BY DEF TypeOK, LabOK
  <2> QED BY <2>1
<1>2. draft = drafts[Len(drafts)] /\ draft \in Drafts
  BY <1>1, ElementOfSeq DEF draft, Last
<1> QED BY <1>1, <1>2, LabAssumption

\* A run of the judge keeps the cases it judged with, and those of a draft.
LEMMA JudgeKeeps ==
    ASSUME TypeOK, LabOK, CacheOK, HasDraft, NEW backend \in Backends,
           runAgainstDraft(backend), UNCHANGED drafts
    PROVE  /\ JudgedCases(backend) \in Cases /\ CacheOK'
           /\ docker' \in {"yes", "no"} /\ cache' \in [Titles -> Cases \cup {NoCases}]
           /\ Judged' /\ CasesKnown' /\ DecidingCases' = JudgedCases(backend)
           /\ Judged => DecidingCases' = DecidingCases
<1>1. /\ docker \in {"unknown", "yes", "no"} /\ backend \in {"yes", "no"}
      /\ docker # "unknown" => backend = docker
  <2>1. docker \in {"unknown", "yes", "no"}
    BY DEF TypeOK
  <2>2. CASE docker = "unknown"
    BY <2>1, <2>2 DEF Backends
  <2>3. CASE docker # "unknown"
    BY <2>1, <2>3 DEF Backends
  <2> QED BY <2>2, <2>3
<1>2. docker' = backend /\ draft' = draft /\ Retitled' = Retitled
  BY DEF runAgainstDraft, draft, Retitled
<1>3. cache \in [Titles -> Cases \cup {NoCases}] /\ draft.title \in Titles
  BY DraftType DEF TypeOK
<1>4. JudgedCases(backend) \in Cases
  BY <1>3, DraftType DEF JudgedCases
<1>5. cache' \in [Titles -> Cases \cup {NoCases}]
  BY <1>3, <1>4 DEF runAgainstDraft
<1>6. PICK i \in 1..Len(drafts) :
          /\ drafts[i].title = draft.title /\ drafts[i].cases = JudgedCases(backend)
          /\ i = Len(drafts) \/ backend = "yes"
  <2>1. CASE backend = "yes" /\ cache[draft.title] # NoCases
    BY <1>3, <2>1 DEF CacheOK, JudgedCases
  <2>2. CASE ~ (backend = "yes" /\ cache[draft.title] # NoCases)
    <3>1. JudgedCases(backend) = draft.cases
      BY <2>2 DEF JudgedCases
    <3>2. Len(drafts) \in 1..Len(drafts)
      BY DraftType
    <3> QED BY <3>1, <3>2, DraftType
  <2> QED BY <2>1, <2>2
<1>7. CacheOK'
  <2>1. ASSUME NEW t \in Titles, cache'[t] # NoCases
        PROVE  \E k \in 1..Len(drafts) : drafts[k].title = t /\ drafts[k].cases = cache'[t]
    <3>1. CASE cache'[t] = cache[t]
      BY <2>1, <3>1 DEF CacheOK
    <3>2. CASE cache'[t] # cache[t]
      <4>1. t = draft.title /\ cache'[t] = JudgedCases(backend)
        BY <1>3, <2>1, <3>2 DEF runAgainstDraft
      <4> QED BY <1>6, <4>1
    <3> QED BY <3>1, <3>2
  <2> QED BY <2>1 DEF CacheOK
<1>8. DecidingCases' = JudgedCases(backend)
  <2>1. CASE backend = "yes"
    BY <1>2, <1>3, <2>1 DEF DecidingCases, runAgainstDraft
  <2>2. CASE backend # "yes"
    BY <1>2, <2>2 DEF DecidingCases, JudgedCases
  <2> QED BY <2>1, <2>2
<1>9. Judged'
  <2>1. NoCases \notin Cases
    BY LabAssumption
  <2>2. backend = "yes" => cache'[draft.title] = JudgedCases(backend)
    BY <1>3 DEF runAgainstDraft
  <2> QED BY <1>1, <1>2, <1>4, <2>1, <2>2 DEF Judged
<1>10. CasesKnown'
  <2>1. draft.cases = JudgedCases(backend) \/ (backend = "yes" /\ Retitled)
    <3>1. CASE i = Len(drafts)
      BY <1>6, <3>1, DraftType
    <3>2. CASE i # Len(drafts)
      <4>1. i \in 1..(Len(drafts) - 1)
        BY <1>6, <3>2, DraftType
      <4> QED BY <1>6, <3>2, <4>1 DEF Retitled
    <3> QED BY <3>1, <3>2
  <2> QED BY <1>2, <1>4, <1>6, <1>8, <2>1 DEF CasesKnown
<1>11. Judged => DecidingCases' = DecidingCases
  BY <1>1, <1>8 DEF Judged, DecidingCases, JudgedCases
<1> QED BY <1>1, <1>2, <1>4, <1>5, <1>7, <1>8, <1>9, <1>10, <1>11

\* Steps that leave drafts and judge alone.
LEMMA SameDraft ==
    ASSUME UNCHANGED drafts
    PROVE  draft' = draft /\ Retitled' = Retitled
  BY DEF draft, Retitled

LEMMA TestedKept ==
    ASSUME CacheOK, UNCHANGED <<drafts, codes, spoiled, docker, cache>>
    PROVE  /\ CacheOK' /\ (Judged => Judged') /\ (CasesKnown => CasesKnown')
           /\ (Solved => Solved') /\ (Withstood => Withstood')
<1>1. CacheOK'
  BY DEF CacheOK
<1>2. draft' = draft /\ Retitled' = Retitled /\ DecidingCases' = DecidingCases
  BY SameDraft DEF DecidingCases
<1> QED BY <1>1, <1>2 DEF Judged, CasesKnown, Solved, Withstood

-----------------------------------------------------------------------------
(* The steps of the lab.                                                   *)

\* Where a step of the lab may start and end.
LEMMA LabPcs ==
    ASSUME TypeOK, Lab
    PROVE  /\ pc \in {"architect", "solver", "adversary", "files", "insert", "link"}
           /\ pc' \in {"architect", "solver", "adversary", "files", "insert", "link",
                       "approved", "rejected", "thrown"}
           /\ UNCHANGED toolVars
  BY DEF Lab, Architect, SolverRefuses, SolverTries, SolverReport, AdversarySkips,
         AdversaryAttacks, AdversaryResult, Approve, Revise, WriteCases, InsertProblem,
         LinkTag, LabThrows

LEMMA LabKeepsTool ==
    ASSUME TypeOK, ToolOK, Lab
    PROVE  ToolOK'
  BY LabPcs DEF ToolOK, Reported, toolVars

\* A new draft.
LEMMA ArchitectStep ==
    ASSUME TypeOK, LabOK, TestedOK, Architect
    PROVE  TypeOK' /\ LabOK' /\ TestedOK'
<1>1. PICK d \in Drafts : drafts' = Append(drafts, d)
  BY DEF Architect
<1>2. drafts \in Seq(Drafts) /\ Len(drafts) \in Nat
  BY DEF TypeOK
<1>3. /\ drafts' \in Seq(Drafts) /\ Len(drafts') = Len(drafts) + 1
      /\ \A i \in 1..Len(drafts) : drafts'[i] = drafts[i]
  BY <1>1, <1>2, AppendProperties
<1>4. pc = "architect" /\ pc' = "solver" /\ solverOk' = FALSE /\ attempt' = 1
      /\ codes' = [solver |-> "none", adversary |-> "none"] /\ spoiled' = FALSE
      /\ UNCHANGED <<revisionCount, docker, cache, row, toolVars>>
  BY DEF Architect
<1>5. TypeOK'
  <2>1. attempt' \in 1..MAX_ATTEMPTS
    BY <1>4 DEF MAX_ATTEMPTS
  <2>2. codes' \in [solver : Codes, adversary : Codes]
    BY <1>4 DEF Codes
  <2> QED BY <1>3, <1>4, <2>1, <2>2 DEF TypeOK, toolVars
<1>6. LabOK'
  BY <1>3, <1>4 DEF LabOK, HasDraft, ExitIsTrue
<1>7. CacheOK'
  <2>1. ASSUME NEW t \in Titles, cache'[t] # NoCases
        PROVE  \E i \in 1..Len(drafts') : drafts'[i].title = t /\ drafts'[i].cases = cache'[t]
    <3>1. PICK i \in 1..Len(drafts) : drafts[i].title = t /\ drafts[i].cases = cache[t]
      BY <1>4, <2>1 DEF TestedOK, CacheOK
    <3>2. i \in 1..Len(drafts') /\ drafts'[i] = drafts[i]
      BY <1>2, <1>3
    <3> QED BY <1>4, <3>1, <3>2
  <2> QED BY <2>1 DEF CacheOK
<1>8. TestedOK'
  BY <1>4, <1>7 DEF TestedOK
<1> QED BY <1>5, <1>6, <1>8

LEMMA AcceptsType ==
    ASSUME NEW cases \in Cases, NEW code
    PROVE  Accepts(cases, code) \in BOOLEAN
<1>1. cases = "strong" \/ cases = "weak" \/ cases = "wrong"
  BY DEF Cases
<1> QED BY <1>1 DEF Accepts

LEMMA ReportTypes ==
    ASSUME TypeOK, NEW ok \in BOOLEAN, SolverReport(ok)
    PROVE  attempt' \in 1..MAX_ATTEMPTS /\ solverOk' = ok /\ pc' \in {pc, "adversary"}
  BY DEF TypeOK, SolverReport, MAX_ATTEMPTS

LEMMA RefusesStep ==
    ASSUME TypeOK, LabOK, TestedOK, SolverRefuses
    PROVE  TypeOK' /\ LabOK' /\ TestedOK'
<1>1. /\ pc = "solver" /\ pc' \in {"solver", "adversary"} /\ attempt' \in 1..MAX_ATTEMPTS
      /\ solverOk' = FALSE
      /\ UNCHANGED <<drafts, revisionCount, codes, spoiled, docker, cache, row, toolVars>>
  BY ReportTypes DEF SolverRefuses
<1>2. TypeOK'
  BY <1>1 DEF TypeOK, toolVars
<1>3. LabOK'
  BY <1>1 DEF LabOK, HasDraft, ExitIsTrue
<1>4. TestedOK'
  BY <1>1, TestedKept DEF TestedOK
<1> QED BY <1>2, <1>3, <1>4

LEMMA VerdictsType ==
    ASSUME NEW backend, JudgedCases(backend) \in Cases,
           NEW code, NEW ok \in Verdicts(backend, code)
    PROVE  ok \in BOOLEAN /\ (ok => Accepts(JudgedCases(backend), code))
<1>1. ok = Accepts(JudgedCases(backend), code) \/ ok = FALSE
  <2>1. CASE "judge" \in Faults
    BY <2>1 DEF Verdicts
  <2>2. CASE "judge" \notin Faults
    BY <2>2 DEF Verdicts
  <2> QED BY <2>1, <2>2
<1>2. Accepts(JudgedCases(backend), code) \in BOOLEAN
  BY AcceptsType
<1> QED BY <1>1, <1>2

LEMMA TriesStep ==
    ASSUME TypeOK, LabOK, TestedOK, SolverTries
    PROVE  TypeOK' /\ LabOK' /\ TestedOK'
<1>1. PICK code \in Codes \ {"none"}, backend \in Backends :
          /\ codes' = [codes EXCEPT !.solver = code]
          /\ runAgainstDraft(backend)
          /\ \E ok \in Verdicts(backend, code) : SolverReport(ok)
  BY DEF SolverTries
<1>2. /\ pc = "solver" /\ HasDraft
      /\ UNCHANGED <<drafts, revisionCount, spoiled, row, toolVars>>
  BY DEF SolverTries, HasDraft
<1>3. /\ JudgedCases(backend) \in Cases /\ CacheOK'
      /\ docker' \in {"yes", "no"} /\ cache' \in [Titles -> Cases \cup {NoCases}]
      /\ Judged' /\ DecidingCases' = JudgedCases(backend)
  BY <1>1, <1>2, JudgeKeeps DEF TestedOK
<1>4. PICK ok \in Verdicts(backend, code) : SolverReport(ok)
  BY <1>1
<1>5. ok \in BOOLEAN /\ (ok => Accepts(JudgedCases(backend), code))
  BY <1>3, VerdictsType
<1>6. attempt' \in 1..MAX_ATTEMPTS /\ solverOk' = ok /\ pc' \in {"solver", "adversary"}
  BY <1>2, <1>4, <1>5, ReportTypes
<1>7. codes' \in [solver : Codes, adversary : Codes] /\ codes'.solver = code
  BY <1>1 DEF TypeOK
<1>8. TypeOK'
  BY <1>2, <1>3, <1>5, <1>6, <1>7 DEF TypeOK, toolVars
<1>9. LabOK'
  BY <1>2, <1>6 DEF LabOK, HasDraft, ExitIsTrue
<1>10. solverOk' => Solved'
  BY <1>3, <1>5, <1>6, <1>7 DEF Solved
<1>11. TestedOK'
  BY <1>3, <1>6, <1>10 DEF TestedOK
<1> QED BY <1>8, <1>9, <1>11

LEMMA SkipsStep ==
    ASSUME TypeOK, LabOK, TestedOK, AdversarySkips
    PROVE  TypeOK' /\ LabOK' /\ TestedOK'
<1>1. /\ pc = "adversary" /\ revisionCount' = revisionCount + 1
      /\ pc' = IF revisionCount' <= MAX_REVISIONS THEN "architect" ELSE "rejected"
      /\ UNCHANGED <<attempt, drafts, solverOk, codes, spoiled, docker, cache, row, toolVars>>
  BY DEF AdversarySkips, Revise
<1>2. /\ revisionCount \in Nat /\ revisionCount <= MAX_REVISIONS
      /\ Len(drafts) = revisionCount + 1 /\ row = NoRow
  BY <1>1 DEF LabOK, HasDraft, TypeOK
<1>3. TypeOK'
  BY <1>1, <1>2 DEF TypeOK, toolVars, MAX_REVISIONS, Ended
<1>4. LabOK'
  BY <1>1, <1>2 DEF LabOK, HasDraft, ExitIsTrue, MAX_REVISIONS
<1>5. TestedOK'
  BY <1>1, TestedKept DEF TestedOK
<1> QED BY <1>3, <1>4, <1>5

LEMMA AttacksStep ==
    ASSUME TypeOK, LabOK, TestedOK, AdversaryAttacks
    PROVE  TypeOK' /\ LabOK' /\ TestedOK'
<1>1. PICK code \in Codes \ {"none"}, backend \in Backends :
          /\ codes' = [codes EXCEPT !.adversary = code]
          /\ runAgainstDraft(backend)
          /\ \E broke \in Verdicts(backend, code) :
                /\ AdversaryResult(broke)
                /\ spoiled' = (broke # Accepts(JudgedCases(backend), code))
  BY DEF AdversaryAttacks
<1>2. /\ pc = "adversary" /\ solverOk /\ HasDraft
      /\ UNCHANGED <<attempt, drafts, solverOk, row, toolVars>>
  BY DEF AdversaryAttacks, HasDraft
<1>3. /\ JudgedCases(backend) \in Cases /\ CacheOK'
      /\ docker' \in {"yes", "no"} /\ cache' \in [Titles -> Cases \cup {NoCases}]
      /\ CasesKnown' /\ DecidingCases' = JudgedCases(backend)
      /\ DecidingCases' = DecidingCases
  BY <1>1, <1>2, JudgeKeeps DEF TestedOK
<1>4. /\ codes' \in [solver : Codes, adversary : Codes]
      /\ codes'.adversary = code /\ codes'.solver = codes.solver
  BY <1>1 DEF TypeOK
<1>5. /\ revisionCount \in Nat /\ revisionCount <= MAX_REVISIONS
      /\ Len(drafts) = revisionCount + 1 /\ row = NoRow
  BY <1>2 DEF LabOK, HasDraft, TypeOK
<1>6. PICK broke \in Verdicts(backend, code) :
          /\ AdversaryResult(broke)
          /\ spoiled' = (broke # Accepts(JudgedCases(backend), code))
  BY <1>1
<1>7. broke \in BOOLEAN /\ spoiled' \in BOOLEAN
  BY <1>3, <1>6, VerdictsType
<1>8. \/ /\ revisionCount' = revisionCount + 1
         /\ pc' = IF revisionCount' <= MAX_REVISIONS THEN "architect" ELSE "rejected"
      \/ /\ ~ broke
         /\ pc' = "files" /\ revisionCount' = revisionCount
  BY <1>6 DEF AdversaryResult, Revise, Approve
<1>9. TypeOK'
  BY <1>2, <1>3, <1>4, <1>5, <1>7, <1>8 DEF TypeOK, toolVars, MAX_REVISIONS, Ended
<1>10. LabOK'
  BY <1>2, <1>5, <1>8 DEF LabOK, HasDraft, ExitIsTrue, MAX_REVISIONS
<1>11. Solved'
  BY <1>2, <1>3, <1>4 DEF TestedOK, Solved
<1>12. pc' = "files" => Withstood'
  <2>1. ASSUME pc' = "files", Accepts(JudgedCases(backend), code) PROVE spoiled'
    <3>1. broke = FALSE
      BY <1>5, <1>7, <1>8, <2>1
    <3>2. Accepts(JudgedCases(backend), code) = TRUE
      BY <1>3, <2>1, AcceptsType
    <3> QED BY <1>6, <3>1, <3>2
  <2> QED BY <1>3, <1>4, <2>1 DEF Withstood
<1>13. TestedOK'
  BY <1>3, <1>8, <1>11, <1>12 DEF TestedOK
<1> QED BY <1>9, <1>10, <1>13

\* approveNode, and whatever is not caught.
LEMMA ApproveStep ==
    ASSUME TypeOK, LabOK, TestedOK, WriteCases \/ InsertProblem \/ LinkTag \/ LabThrows
    PROVE  TypeOK' /\ LabOK' /\ TestedOK'
<1>1. UNCHANGED <<attempt, drafts, revisionCount, solverOk, codes, spoiled, docker, cache,
                  toolVars>>
  BY DEF WriteCases, InsertProblem, LinkTag, LabThrows, labVars
<1>2. draft' = draft
  BY <1>1, SameDraft
<1>3. \/ pc = "files" /\ pc' = "insert" /\ row' = row
      \/ pc' = "thrown" /\ row' = row
      \/ /\ pc = "insert" /\ row' = [cases |-> draft.cases, tags |-> {}]
         /\ pc' = IF draft.tags = {} THEN "approved" ELSE "link"
      \/ /\ pc = "link"
         /\ \E t \in draft.tags \ row.tags : row' = [row EXCEPT !.tags = @ \cup {t}]
         /\ pc' = IF row'.tags = draft.tags THEN "approved" ELSE "link"
  BY DEF WriteCases, InsertProblem, LinkTag, LabThrows, labVars
<1>4. CASE row' = row /\ (pc' = "thrown" \/ (pc = "files" /\ pc' = "insert"))
  <2>1. TypeOK'
    BY <1>1, <1>4 DEF TypeOK, toolVars, Ended
  <2>2. LabOK'
    BY <1>1, <1>4 DEF LabOK, HasDraft, ExitIsTrue
  <2>3. TestedOK'
    BY <1>1, <1>4, TestedKept DEF TestedOK
  <2> QED BY <2>1, <2>2, <2>3
<1>5. CASE pc \in {"insert", "link"} /\ pc' \in {"link", "approved"}
  <2>1. HasDraft
    BY <1>5 DEF HasDraft
  <2>2. draft.cases \in Cases /\ draft.tags \subseteq Tags
    BY <2>1, DraftType
  <2>3. /\ row' \in [cases : Cases, tags : SUBSET Tags]
        /\ row'.cases = draft.cases /\ row'.tags \subseteq draft.tags
        /\ pc' = "approved" => row'.tags = draft.tags
    <3>1. CASE row' = [cases |-> draft.cases, tags |-> {}]
               /\ pc' = IF draft.tags = {} THEN "approved" ELSE "link"
      BY <2>2, <3>1
    <3>2. CASE pc = "link"
      <4>1. PICK t \in draft.tags \ row.tags : row' = [row EXCEPT !.tags = @ \cup {t}]
        BY <1>3, <1>5, <3>2
      <4>2. /\ row \in [cases : Cases, tags : SUBSET Tags]
            /\ row.cases = draft.cases /\ row.tags \subseteq draft.tags
        BY <3>2 DEF LabOK
      <4>3. row' \in [cases : Cases, tags : SUBSET Tags] /\ row'.cases = row.cases
            /\ row'.tags = row.tags \cup {t}
        BY <2>2, <4>1, <4>2
      <4>4. pc' = "approved" => row'.tags = draft.tags
        BY <1>3, <1>5, <3>2
      <4> QED BY <4>1, <4>2, <4>3, <4>4
    <3> QED BY <1>3, <1>5, <3>1, <3>2
  <2>4. pc' = "approved" => row' = [cases |-> draft.cases, tags |-> draft.tags]
    BY <2>3
  <2>5. TypeOK'
    BY <1>1, <1>5, <2>3 DEF TypeOK, toolVars, Ended
  <2>6. LabOK'
    BY <1>1, <1>2, <1>5, <2>1, <2>3, <2>4 DEF LabOK, HasDraft, ExitIsTrue
  <2>7. TestedOK'
    BY <1>1, <1>5, TestedKept DEF TestedOK
  <2> QED BY <2>5, <2>6, <2>7
<1> QED BY <1>3, <1>4, <1>5

LEMMA LabStep ==
    ASSUME IInv, Lab
    PROVE  IInv'
<1>1. TypeOK' /\ LabOK' /\ TestedOK'
  BY ArchitectStep, RefusesStep, TriesStep, SkipsStep, AttacksStep, ApproveStep DEF Lab, IInv
<1> QED BY <1>1, LabKeepsTool DEF IInv

-----------------------------------------------------------------------------
(* The steps of the installer.                                             *)

\* Where a step of the installer may start and end.
LEMMA ToolPcs ==
    ASSUME TypeOK, ToolOK, Installer
    PROVE  /\ pc' \in {"generate", "call", "close", "installed", "gave_up", "thrown"}
           /\ UNCHANGED labVars
<1>1. CASE Closed
  BY <1>1 DEF Closed, ToolOK
<1>2. CASE Connect \/ ConnectFails \/ Generate \/ NothingParsed \/ Installs \/ Refused
           \/ InstallerThrows
  BY <1>2 DEF Connect, ConnectFails, Generate, NothingParsed, Installs, Refused,
              InstallerThrows, NextAttempt, Close
<1> QED BY <1>1, <1>2 DEF Installer

LEMMA ToolKeepsLab ==
    ASSUME IInv, Installer
    PROVE  LabOK' /\ TestedOK'
<1>1. /\ pc' \in {"generate", "call", "close", "installed", "gave_up", "thrown"}
      /\ UNCHANGED labVars
  BY ToolPcs DEF IInv
<1>2. LabOK'
  BY <1>1 DEF LabOK, HasDraft, ExitIsTrue
<1>3. TestedOK'
  BY <1>1, TestedKept DEF TestedOK, IInv, labVars
<1> QED BY <1>2, <1>3

\* An attempt is over, and there is another one or there is not.
LEMMA NextAttemptStep ==
    ASSUME TypeOK, NextAttempt
    PROVE  \/ pc' = "close" /\ outcome' = "gave_up" /\ attempt' = attempt
           \/ /\ pc' = "generate" /\ outcome' = outcome
              /\ attempt' = attempt + 1 /\ attempt' \in 1..MAX_ATTEMPTS
  BY DEF TypeOK, NextAttempt, Close, MAX_ATTEMPTS

LEMMA ToolStep ==
    ASSUME IInv, Installer
    PROVE  TypeOK' /\ ToolOK'
<1>1. /\ attempt \in 1..MAX_ATTEMPTS /\ installed \in 0..MAX_ATTEMPTS
      /\ misreported \in 0..MAX_ATTEMPTS /\ connected \in BOOLEAN /\ outcome \in Ended
      /\ pc \in {"generate", "call"} => installed < attempt
      /\ ToolOK
  BY DEF IInv, TypeOK, ToolOK
<1>2. /\ UNCHANGED labVars
      /\ pc' \in {"generate", "call", "close", "installed", "gave_up", "thrown"}
  BY ToolPcs DEF IInv
<1> DEFINE Types == /\ attempt' \in 1..MAX_ATTEMPTS /\ installed' \in 0..MAX_ATTEMPTS
                    /\ misreported' \in 0..MAX_ATTEMPTS /\ connected' \in BOOLEAN
                    /\ outcome' \in Ended
<1>3. Types => TypeOK'
  BY <1>2 DEF IInv, TypeOK, labVars, Ended
<1>4. CASE Connect \/ ConnectFails
  <2>1. Types
    BY <1>1, <1>4 DEF Connect, ConnectFails, toolVars, Ended, MAX_ATTEMPTS
  <2>2. ToolOK'
    BY <1>1, <1>4 DEF Connect, ConnectFails, ToolOK, Reported, toolVars
  <2> QED BY <1>3, <2>1, <2>2
<1>5. CASE Generate
  <2>1. Types
    BY <1>1, <1>5 DEF Generate, toolVars, Ended, MAX_ATTEMPTS
  <2>2. ToolOK'
    BY <1>1, <1>5 DEF Generate, ToolOK, Reported, toolVars
  <2> QED BY <1>3, <2>1, <2>2
<1>6. CASE NothingParsed
  <2>1. Types
    BY <1>1, <1>6, NextAttemptStep DEF NothingParsed, toolVars, Ended, MAX_ATTEMPTS, IInv
  <2>2. ToolOK'
    BY <1>1, <1>6, NextAttemptStep DEF NothingParsed, ToolOK, Reported, toolVars, IInv
  <2> QED BY <1>3, <2>1, <2>2
<1>7. CASE Installs
  <2>1. Types
    BY <1>1, <1>7 DEF Installs, Close, toolVars, Ended, MAX_ATTEMPTS
  <2>2. ToolOK'
    BY <1>1, <1>7 DEF Installs, Close, ToolOK, Reported, toolVars
  <2> QED BY <1>3, <2>1, <2>2
<1>8. CASE Refused
  <2>1. /\ pc = "call" /\ UNCHANGED connected
        /\ \/ UNCHANGED <<installed, misreported>>
           \/ installed' = installed + 1 /\ misreported' = misreported + 1
    BY <1>8 DEF Refused, Misreported
  <2>2. \/ pc' = "close" /\ outcome' = "gave_up" /\ attempt' = attempt
        \/ /\ pc' = "generate" /\ outcome' = outcome
           /\ attempt' = attempt + 1 /\ attempt' \in 1..MAX_ATTEMPTS
    BY <1>8, NextAttemptStep DEF Refused, IInv
  <2>3. /\ attempt' \in 1..MAX_ATTEMPTS /\ outcome' \in Ended
        /\ installed' <= attempt /\ installed' \in 0..MAX_ATTEMPTS
    BY <1>1, <2>1, <2>2 DEF Ended, MAX_ATTEMPTS
  <2>4. Types
    <3>1. misreported' \in 0..MAX_ATTEMPTS
      BY <1>1, <2>1, <2>3 DEF ToolOK, Reported
    <3> QED BY <1>1, <2>1, <2>3, <3>1
  <2>5. pc' = "generate" => installed' < attempt'
    BY <1>1, <2>2, <2>3
  <2>6. installed' = misreported' + 0
    <3>1. installed = misreported + 0
      BY <2>1 DEF IInv, ToolOK, Reported
    <3> QED BY <1>1, <2>1, <3>1 DEF MAX_ATTEMPTS
  <2>7. ToolOK'
    <3>1. ~ Reported' /\ (pc' = "close" => outcome' = "gave_up")
      BY <2>2 DEF Reported
    <3> QED BY <2>2, <2>5, <2>6, <3>1 DEF ToolOK
  <2> QED BY <1>3, <2>4, <2>7
<1>9. CASE InstallerThrows
  <2>1. /\ pc \in {"generate", "call"} /\ pc' = "close" /\ outcome' = "thrown"
        /\ UNCHANGED <<attempt, connected>>
        /\ \/ UNCHANGED <<installed, misreported>>
           \/ installed' = installed + 1 /\ misreported' = misreported + 1
    BY <1>9 DEF InstallerThrows, Close, Misreported
  <2>2. installed' \in 0..MAX_ATTEMPTS
    BY <1>1, <2>1 DEF MAX_ATTEMPTS
  <2>3. Types
    <3>1. misreported' \in 0..MAX_ATTEMPTS
      BY <1>1, <2>1, <2>2 DEF ToolOK, Reported
    <3> QED BY <1>1, <2>1, <2>2, <3>1 DEF Ended
  <2>4. ToolOK'
    BY <1>1, <2>1 DEF ToolOK, Reported
  <2> QED BY <1>3, <2>3, <2>4
<1>10. CASE Closed
  <2>1. Types
    BY <1>1, <1>10 DEF Closed, toolVars, Ended, MAX_ATTEMPTS
  <2>2. ToolOK'
    BY <1>1, <1>10 DEF Closed, ToolOK, Reported, toolVars
  <2> QED BY <1>3, <2>1, <2>2
<1> HIDE DEF Types
<1> QED BY <1>4, <1>5, <1>6, <1>7, <1>8, <1>9, <1>10 DEF Installer

-----------------------------------------------------------------------------
THEOREM Invariance == Spec => []IInv
<1>1. Init => IInv
  <2> SUFFICES ASSUME Init PROVE IInv
    OBVIOUS
  <2>1. TypeOK
    <3>1. /\ drafts \in Seq(Drafts) /\ cache \in [Titles -> Cases \cup {NoCases}]
          /\ codes \in [solver : Codes, adversary : Codes]
      BY DEF Init, Codes
    <3>2. attempt \in 1..MAX_ATTEMPTS /\ revisionCount \in 0..(MAX_REVISIONS + 1)
          /\ installed \in 0..MAX_ATTEMPTS /\ misreported \in 0..MAX_ATTEMPTS
      BY DEF Init, MAX_ATTEMPTS, MAX_REVISIONS
    <3> QED BY <3>1, <3>2 DEF Init, TypeOK, Ended
  <2>2. LabOK
    BY DEF Init, LabOK, HasDraft, ExitIsTrue, MAX_REVISIONS
  <2>3. TestedOK
    BY DEF Init, TestedOK, CacheOK
  <2>4. ToolOK
    BY DEF Init, ToolOK, Reported
  <2> QED BY <2>1, <2>2, <2>3, <2>4 DEF IInv
<1>2. IInv /\ [Next]_vars => IInv'
  <2> SUFFICES ASSUME IInv, [Next]_vars PROVE IInv'
    OBVIOUS
  <2>1. CASE UNCHANGED vars
    BY <2>1 DEF vars, labVars, toolVars, IInv, TypeOK, LabOK, HasDraft, ExitIsTrue, TestedOK,
                CacheOK, Judged, CasesKnown, Solved, Withstood, Retitled,
                DecidingCases, ToolOK, Reported, draft
  <2>2. CASE Lab
    BY <2>2, LabStep
  <2>3. CASE Installer
    BY <2>3, ToolStep, ToolKeepsLab DEF IInv
  <2> QED BY <2>1, <2>2, <2>3 DEF Next
<1> QED BY <1>1, <1>2, PTL DEF Spec

(* Types.                                                                  *)
THEOREM LabTypes == Spec => []TypeOK
<1>1. IInv => TypeOK
  BY DEF IInv
<1> QED BY <1>1, Invariance, PTL

(* The test cases by which a problem was approved are those of a draft of  *)
(* its title, accept the solver's code, and do not accept the adversary's  *)
(* unless its run was spoiled, whatever the models wrote in whatever order; *)
(* they are inserted unless the Judge has kept those of an earlier draft.  *)
THEOREM ApprovedAreTested == Spec => []ApprovedIsTested
<1>1. IInv => ApprovedIsTested
  <2> SUFFICES ASSUME IInv, pc = "approved"
               PROVE  /\ Solved /\ Withstood /\ CasesKnown
                      /\ row.cases = draft.cases
    BY DEF ApprovedIsTested, Solved, Withstood, CasesKnown
  <2> QED BY DEF IInv, TestedOK, LabOK, ExitIsTrue
<1> QED BY <1>1, Invariance, PTL

(* The lab's exit code tells what is in the table, and that every revision *)
(* was tried.                                                              *)
THEOREM ExitsAreTrue == Spec => []ExitIsTrue
<1>1. IInv => ExitIsTrue
  BY DEF IInv, LabOK
<1> QED BY <1>1, Invariance, PTL

(* Beside the rows it was not told of, the installer inserted one problem  *)
(* if it reports one and none otherwise, and it leaves no server behind.   *)
THEOREM InstallsAreClean == Spec => []InstallIsClean
<1>1. IInv => InstallIsClean
  BY DEF IInv, TypeOK, ToolOK, Reported, InstallIsClean, Ended
<1> QED BY <1>1, Invariance, PTL
=============================================================================
