------------------------- MODULE ProblemSystemProofs -------------------------
(***************************************************************************)
(* What create_problem promises and what a judge makes of it, for every    *)
(* number of calls, workers and jobs, any requests and test cases.         *)
(*                                                                         *)
(* A row is written once and never again.  Until a call on an undisturbed  *)
(* slug has inserted its row it is the only one that writes the object,    *)
(* and from then on nobody does, but for the clean-up after a commit that  *)
(* lost its answer: so whatever a worker downloads, or finds in its cache, *)
(* is what the row was created with.                                       *)
(***************************************************************************)
EXTENDS ProblemSystem, FiniteSetTheorems, SequenceTheorems, TLAPS

Checked  == {"upload", "verify", "discard", "insert", "rollback"}
LookedUp == {"author", "tags", "dry_run"} \cup Checked

\* Two calls of an undisturbed slug never overlap.
Alone ==
    \A c, d \in Calls :
        c # d /\ Active(c) /\ Active(d) /\ Request(c).slug \in Undisturbed
            => Request(d).slug # Request(c).slug

\* What a call knows of its request and of the store.
CallOK(c) ==
    LET r == Request(c)
        pc == call[c].pc IN
    /\ pc # "idle" => r \in Requests
    /\ Active(c) => validateCreateProblem(r) /\ call[c].answer = "none"
    /\ pc \in {"dry_run"} \cup Checked => r.tags \subseteq Tags
    /\ pc \in Checked => langsToRun(r) \subseteq r.correct
    /\ pc = "done" /\ call[c].answer = "success" =>
          Taken(r.slug) /\ problems[r.slug].by = c /\ problems[r.slug].tags = r.tags
    /\ call[c].lost => pc \in {"rollback", "done"} /\ Taken(r.slug) /\ problems[r.slug].by = c
    /\ pc \in LookedUp /\ r.slug \in Undisturbed /\ ~ call[c].lost => ~ Taken(r.slug)
    /\ pc = "insert" /\ r.slug \in Undisturbed => objects[r.slug] = r.cases

\* Where a row comes from, and that its object is there.
RowOK(s) ==
    Taken(s) =>
        LET c == problems[s].by
            r == Request(c) IN
        /\ call[c].pc # "idle" /\ r.slug = s
        /\ r.references \cap DRY_RUN_LANGUAGES # {}
        /\ r.references \cap DRY_RUN_LANGUAGES \subseteq r.correct
        /\ call[c].lost \/ (call[c].pc = "done" /\ call[c].answer = "success")
        /\ s \in Undisturbed =>
              \/ objects[s] = problems[s].cases
              \/ objects[s] = NoObject /\ call[c].lost

\* An object was tested by a call that brought it.
ObjectOK(s) == objects[s] # NoObject => objects[s] \in TestedCases(s)

\* So was a cache entry, and it is what the row was created with.
CacheOK(w, s) ==
    cache[w][s] # NoObject =>
        /\ cache[w][s] \in TestedCases(s)
        /\ s \in Undisturbed => Taken(s) /\ cache[w][s] = problems[s].cases

-----------------------------------------------------------------------------
(* A job's tally of the cases it has run.                                  *)

FailingTo(p, cases, n) == {i \in 1..n : Behaviour[p][cases[i]] # "right"}

Failed(j, n) == FailingTo(job[j].program, job[j].cases, n) \cup job[j].upset

\* What n runs come to, of which F failed, V of them not by the program's
\* doing; own is the status the program has on each case.
Counts(n, F, V, own, passed, status) ==
    /\ F \subseteq 1..n /\ V \subseteq F
    /\ passed = n - Cardinality(F)
    /\ status = "ACCEPTED" <=> F = {}
    /\ \A i \in F \ V : (\A k \in F : i <= k) => status = own[i]

Own(p, cases) == [i \in DOMAIN cases |-> statusOf(Behaviour[p][cases[i]])]

Tally(j) ==
    LET n == Len(job[j].results) IN
    /\ n <= Len(job[j].cases)
    /\ Counts(n, Failed(j, n), job[j].upset, Own(job[j].program, job[j].cases),
              job[j].passedCount, job[j].status)

JobOK(j) ==
    /\ job[j].pc # "idle" =>
          job[j].slug \in Slugs /\ job[j].program \in Programs /\ Taken(job[j].slug)
    /\ job[j].pc \in {"load", "download", "write"} =>
          /\ job[j].results = <<>> /\ job[j].passedCount = 0 /\ job[j].status = "ACCEPTED"
          /\ job[j].upset = {}
    /\ job[j].pc \in {"write", "run", "done"} =>
          /\ Tally(j)
          /\ job[j].cases \in TestedCases(job[j].slug)
          /\ job[j].slug \in Undisturbed => job[j].cases = problems[job[j].slug].cases
    /\ job[j].pc = "done" => Len(job[j].results) = Len(job[j].cases)

IInv ==
    /\ TypeOK
    /\ Alone
    /\ \A c \in Calls : CallOK(c)
    /\ \A s \in Slugs : RowOK(s) /\ ObjectOK(s)
    /\ \A w \in Workers, s \in Slugs : CacheOK(w, s)
    /\ \A j \in Jobs : JobOK(j)
-----------------------------------------------------------------------------
(* What a step may do to the store.                                        *)

\* A row that is there stays as it is.
RowsKept == \A s \in Slugs : Taken(s) => problems'[s] = problems[s]

\* What a call was asked is not forgotten.
CallsKept ==
    \A c \in Calls : call[c].pc # "idle" => call'[c].pc # "idle" /\ Request(c)' = Request(c)

\* What a step of this call may do to the objects.
ObjectStep(c) ==
    \/ UNCHANGED objects
    \/ call[c].pc = "upload" /\ PutObject(Request(c).slug, Request(c).cases)
    \/ call[c].pc \in {"discard", "rollback"} /\ DeleteObject(Request(c).slug)

LEMMA TestedGrow ==
    ASSUME CallsKept
    PROVE  \A s \in Slugs : TestedCases(s) \subseteq TestedCases(s)'
<1> SUFFICES ASSUME NEW s \in Slugs, NEW c \in Calls, Passes(c, s)
             PROVE  Request(c).cases \in TestedCases(s)'
  BY DEF TestedCases
<1>1. call'[c].pc # "idle" /\ Request(c)' = Request(c)
  BY DEF CallsKept, Passes
<1>2. Passes(c, s)' /\ Request(c)'.cases = Request(c).cases
  BY <1>1 DEF Passes
<1> QED BY <1>2 DEF TestedCases

(* The rows a call sees, and those the judges see, stay as they are.       *)
LEMMA JudgesUndisturbed ==
    ASSUME IInv, RowsKept, CallsKept, UNCHANGED <<cache, job>>
    PROVE  /\ \A w \in Workers, s \in Slugs : CacheOK(w, s)'
           /\ \A j \in Jobs : JobOK(j)'
<1>1. \A s \in Slugs : Taken(s) => Taken(s)' /\ problems'[s] = problems[s]
  BY DEF RowsKept, Taken
<1>2. ASSUME NEW w \in Workers, NEW s \in Slugs PROVE CacheOK(w, s)'
  <2>1. CacheOK(w, s) /\ TestedCases(s) \subseteq TestedCases(s)'
    BY TestedGrow DEF IInv
  <2> QED BY <1>1, <2>1 DEF CacheOK
<1>3. ASSUME NEW j \in Jobs PROVE JobOK(j)'
  <2>1. JobOK(j) /\ UNCHANGED job[j] /\ (Tally(j) => Tally(j)')
    BY DEF IInv, Tally, Failed
  <2>2. CASE job[j].pc = "idle"
    BY <2>1, <2>2 DEF JobOK
  <2>3. CASE job[j].pc # "idle"
    <3>1. PICK s \in Slugs : s = job[j].slug
      BY <2>1, <2>3 DEF JobOK
    <3>2. Taken(s)' /\ problems'[s] = problems[s] /\ TestedCases(s) \subseteq TestedCases(s)'
      BY <1>1, <2>1, <2>3, <3>1, TestedGrow DEF JobOK
    <3>3. job'[j].slug = s /\ job[j].program \in Programs
      BY <2>1, <2>3, <3>1 DEF JobOK
    <3>4. job[j].pc \in {"write", "run", "done"} =>
              /\ Tally(j)' /\ job[j].cases \in TestedCases(s)'
              /\ s \in Undisturbed => job[j].cases = problems'[s].cases
      BY <2>1, <3>1, <3>2 DEF JobOK
    <3> QED BY <2>1, <3>1, <3>2, <3>3, <3>4 DEF JobOK
  <2> QED BY <2>2, <2>3
<1> QED BY <1>2, <1>3

\* Where a step of a call may leave an object.
LEMMA ObjectChanges ==
    ASSUME IInv, NEW c \in Calls, Active(c), ObjectStep(c)
    PROVE  /\ objects' \in [Slugs -> Seq(TestCases) \cup {NoObject}]
           /\ \A s \in Slugs : s # Request(c).slug => objects'[s] = objects[s]
           /\ call[c].pc \notin LookedUp => UNCHANGED objects
           /\ call[c].lost => \A s \in Slugs : objects'[s] \in {objects[s], NoObject}
           /\ \A s \in Slugs : objects'[s] \in {objects[s], NoObject} \cup TestedCases(s)
<1>1. /\ Request(c).slug \in Slugs /\ Request(c).cases \in Seq(TestCases) /\ CallOK(c)
      /\ objects \in [Slugs -> Seq(TestCases) \cup {NoObject}]
  BY CallAssumption DEF IInv, TypeOK, StoreTypeOK, CallOK, Active
<1>2. CASE UNCHANGED objects
  BY <1>1, <1>2
<1>3. CASE call[c].pc = "upload" /\ PutObject(Request(c).slug, Request(c).cases)
  <2>1. ~ call[c].lost /\ Passes(c, Request(c).slug)
    BY <1>1, <1>3 DEF CallOK, Passes, Checked
  <2>2. Request(c).cases \in TestedCases(Request(c).slug)
    BY <2>1 DEF TestedCases
  <2>3. \A s \in Slugs :
            objects'[s] = IF s = Request(c).slug THEN Request(c).cases ELSE objects[s]
    BY <1>1, <1>3 DEF PutObject
  <2>4. objects' \in [Slugs -> Seq(TestCases) \cup {NoObject}]
    BY <1>1, <1>3 DEF PutObject
  <2> QED BY <1>3, <2>1, <2>2, <2>3, <2>4 DEF LookedUp, Checked
<1>4. CASE call[c].pc \in {"discard", "rollback"} /\ DeleteObject(Request(c).slug)
  <2>1. \A s \in Slugs : objects'[s] = IF s = Request(c).slug THEN NoObject ELSE objects[s]
    BY <1>1, <1>4 DEF DeleteObject
  <2>2. objects' \in [Slugs -> Seq(TestCases) \cup {NoObject}]
    BY <1>1, <1>4 DEF DeleteObject
  <2> QED BY <1>4, <2>1, <2>2 DEF LookedUp, Checked
<1> QED BY <1>2, <1>3, <1>4 DEF ObjectStep

(* A call that goes on or ends, and leaves the rows alone.  It may write   *)
(* the object of its slug once it has looked the slug up.                  *)
LEMMA CallGoesOn ==
    ASSUME IInv, NEW c \in Calls, Active(c), NEW state \in Call,
           call' = [call EXCEPT ![c] = state], UNCHANGED <<problems, cache, job>>,
           state.pc # "idle", state.request = Request(c), state.lost = call[c].lost,
           ObjectStep(c), CallOK(c)'
    PROVE  IInv'
<1>1. /\ call \in [Calls -> Call] /\ CallOK(c)
      /\ \A d \in Calls : d # c => call'[d] = call[d]
      /\ call'[c] = state /\ call' \in [Calls -> Call]
  BY DEF IInv, TypeOK, CreateTypeOK
<1>2. TypeOK'
  BY <1>1, ObjectChanges DEF IInv, TypeOK, StoreTypeOK, CreateTypeOK, JudgeTypeOK
<1>3. \A d \in Calls : (Active(d)' => Active(d)) /\ Request(d)' = Request(d)
  BY <1>1 DEF Active, Request
<1>4. Alone'
  BY <1>3 DEF IInv, Alone
<1>5. ASSUME NEW d \in Calls, d # c PROVE CallOK(d)'
  <2>1. CallOK(d) /\ call'[d] = call[d]
    BY <1>1, <1>5 DEF IInv
  <2>2. ASSUME call[d].pc = "insert", Request(d).slug \in Undisturbed
        PROVE  objects'[Request(d).slug] = objects[Request(d).slug]
    <3>1. Active(d) /\ Request(d).slug # Request(c).slug /\ Request(d).slug \in Slugs
      BY <1>5, <2>2, CallAssumption DEF IInv, Alone, Active
    <3> QED BY <3>1, ObjectChanges
  <2> QED BY <2>1, <2>2 DEF CallOK, Request, Taken, Active
<1>6. CallsKept
  BY <1>1, <1>3 DEF CallsKept
<1>7. ASSUME NEW s \in Slugs PROVE RowOK(s)' /\ ObjectOK(s)'
  <2>1. ObjectOK(s)'
    <3>1. ObjectOK(s) /\ TestedCases(s) \subseteq TestedCases(s)'
          /\ objects'[s] \in {objects[s], NoObject} \cup TestedCases(s)
      BY <1>6, TestedGrow, ObjectChanges DEF IInv
    <3> QED BY <3>1 DEF ObjectOK
  <2> SUFFICES ASSUME Taken(s) PROVE RowOK(s)'
    BY <2>1 DEF RowOK, Taken
  <2>2. RowOK(s) /\ problems[s].by \in Calls
    BY DEF IInv, TypeOK, StoreTypeOK, Taken, Problem
  <2>3. PICK b \in Calls : b = problems[s].by /\ b = problems'[s].by
    BY <2>2
  <2>4. /\ call[b].pc # "idle" /\ call'[b].pc # "idle" /\ Request(b)' = Request(b)
        /\ call'[b].lost = call[b].lost
    BY <1>1, <1>3, <2>2, <2>3 DEF RowOK
  <2>5. call'[b].lost \/ (call'[b].pc = "done" /\ call'[b].answer = "success")
    BY <1>1, <2>2, <2>3, <2>4 DEF RowOK, Active
  <2>6. ASSUME s \in Undisturbed
        PROVE  objects'[s] = objects[s] \/ (objects'[s] = NoObject /\ call[b].lost)
    <3>1. CASE s # Request(c).slug \/ UNCHANGED objects
      BY <3>1, ObjectChanges
    <3>2. CASE s = Request(c).slug /\ ~ UNCHANGED objects
      <4>1. call[c].pc \in LookedUp /\ call[c].lost
        BY <1>1, <2>6, <3>2, ObjectChanges DEF CallOK
      <4>2. b = c
        BY <1>1, <2>3, <3>2, <4>1 DEF CallOK
      <4> QED BY <4>1, <4>2, ObjectChanges
    <3> QED BY <3>1, <3>2
  <2>7. s \in Undisturbed =>
            \/ objects'[s] = problems'[s].cases
            \/ objects'[s] = NoObject /\ call'[b].lost
    BY <2>2, <2>3, <2>4, <2>6 DEF RowOK
  <2> QED BY <2>2, <2>3, <2>4, <2>5, <2>7 DEF RowOK, Taken
<1>8. RowsKept
  BY DEF RowsKept
<1> QED BY <1>2, <1>4, <1>5, <1>6, <1>7, <1>8, JudgesUndisturbed DEF IInv

(* A call commits its row, whatever it hears of it.                        *)
LEMMA CallInserts ==
    ASSUME IInv, NEW c \in Calls, call[c].pc = "insert", NEW state \in Call,
           call' = [call EXCEPT ![c] = state], UNCHANGED <<objects, cache, job>>,
           ~ Taken(Request(c).slug), state.request = Request(c),
           InsertProblem(c, Request(c).slug, Request(c).cases, Request(c).tags),
           \/ state.pc = "done" /\ state.answer = "success" /\ ~ state.lost
           \/ state.pc = "rollback" /\ state.answer = "none" /\ state.lost
    PROVE  IInv'
<1>0. PICK r \in Requests, s \in Slugs : r = Request(c) /\ s = r.slug
  BY CallAssumption DEF IInv, CallOK
<1> DEFINE row == [by |-> c, cases |-> r.cases, tags |-> r.tags]
<1>1. /\ call \in [Calls -> Call] /\ CallOK(c)
      /\ \A d \in Calls : d # c => call'[d] = call[d]
      /\ call'[c] = state /\ call' \in [Calls -> Call]
      /\ problems \in [Slugs -> Problem \cup {NoProblem}]
  BY DEF IInv, TypeOK, CreateTypeOK, StoreTypeOK
<1>2. /\ r \in Requests /\ s \in Slugs /\ r.tags \subseteq Tags /\ r.cases \in Seq(TestCases)
      /\ validateCreateProblem(r) /\ langsToRun(r) \subseteq r.correct
  BY <1>0, <1>1, CallAssumption DEF CallOK, Checked, Active
<1>3. row \in Problem /\ row # NoProblem
  BY <1>2, StoreAssumption DEF Problem
<1>4. /\ problems' = [problems EXCEPT ![s] = row] /\ problems'[s] = row
      /\ \A t \in Slugs : t # s => problems'[t] = problems[t]
      /\ problems' \in [Slugs -> Problem \cup {NoProblem}]
  BY <1>0, <1>1, <1>2, <1>3 DEF InsertProblem
<1>5. TypeOK'
  BY <1>1, <1>4 DEF IInv, TypeOK, StoreTypeOK, CreateTypeOK, JudgeTypeOK
<1>6. \A d \in Calls : (Active(d)' => Active(d)) /\ Request(d)' = Request(d)
  BY <1>1 DEF Active, Request
<1>7. Alone'
  BY <1>6 DEF IInv, Alone
<1>8. RowsKept
  BY <1>0, <1>4 DEF RowsKept
<1>9. CallOK(c)'
  <2>1. Request(c)' = r /\ Taken(s)' /\ problems'[s] = row
    BY <1>0, <1>3, <1>4, <1>6 DEF Taken
  <2>2. /\ call'[c].pc = state.pc /\ call'[c].answer = state.answer
        /\ call'[c].lost = state.lost
    BY <1>1
  <2>3. CASE state.pc = "done" /\ state.answer = "success" /\ ~ state.lost
    BY <1>0, <1>2, <2>1, <2>2, <2>3 DEF CallOK, Active, LookedUp, Checked
  <2>4. CASE state.pc = "rollback" /\ state.answer = "none" /\ state.lost
    BY <1>0, <1>2, <2>1, <2>2, <2>4 DEF CallOK, Active
  <2> QED BY <2>3, <2>4
<1>10. ASSUME NEW d \in Calls, d # c PROVE CallOK(d)'
  <2>1. CallOK(d) /\ call'[d] = call[d] /\ Request(d)' = Request(d)
    BY <1>1, <1>10, <1>6 DEF IInv
  <2>2. ASSUME call[d].pc # "idle", Taken(Request(d).slug)
        PROVE  problems'[Request(d).slug] = problems[Request(d).slug]
    BY <1>8, <2>1, <2>2, CallAssumption DEF RowsKept, CallOK
  <2>3. ASSUME call[d].pc \in LookedUp, Request(d).slug \in Undisturbed
        PROVE  problems'[Request(d).slug] = problems[Request(d).slug]
    <3>1. Active(d) /\ Active(c) /\ Request(d).slug # s
      BY <1>0, <1>10, <2>3 DEF IInv, Alone, Active, LookedUp, Checked
    <3> QED BY <1>4, <2>3, <3>1, CallAssumption
  <2> QED BY <2>1, <2>2, <2>3 DEF CallOK, Taken, Active, Request
<1>11. RowOK(s)'
  <2>1. problems'[s] = row /\ Request(c)' = r /\ call'[c].pc # "idle"
    BY <1>0, <1>1, <1>4, <1>6
  <2>2. r.references \cap DRY_RUN_LANGUAGES # {}
        /\ r.references \cap DRY_RUN_LANGUAGES \subseteq r.correct
    BY <1>2 DEF validateCreateProblem, ReferencesValid, langsToRun
  <2>3. /\ call'[c].lost \/ (call'[c].pc = "done" /\ call'[c].answer = "success")
        /\ s \in Undisturbed => objects'[s] = row.cases
    BY <1>0, <1>1 DEF CallOK
  <2> QED BY <1>0, <2>1, <2>2, <2>3 DEF RowOK
<1>12. ASSUME NEW t \in Slugs, t # s PROVE RowOK(t)'
  <2> SUFFICES ASSUME Taken(t) PROVE RowOK(t)'
    BY <1>4, <1>12 DEF RowOK, Taken
  <2>1. RowOK(t) /\ problems[t].by \in Calls /\ problems'[t] = problems[t]
    BY <1>1, <1>4, <1>12 DEF IInv, Taken, Problem
  <2>2. problems[t].by # c
    BY <1>0, <1>12, <2>1 DEF RowOK
  <2> QED BY <1>1, <1>6, <2>1, <2>2 DEF RowOK, Taken
<1>13. (\A d \in Calls : CallOK(d)') /\ (\A t \in Slugs : RowOK(t)')
  BY <1>9, <1>10, <1>11, <1>12
<1>13a. CallsKept
  BY <1>1, <1>6 DEF CallsKept
<1>13b. \A t \in Slugs : ObjectOK(t)'
  <2>1. ASSUME NEW t \in Slugs PROVE ObjectOK(t)'
    <3>1. ObjectOK(t) /\ TestedCases(t) \subseteq TestedCases(t)'
      BY <1>13a, TestedGrow DEF IInv
    <3> QED BY <3>1 DEF ObjectOK
  <2> QED BY <2>1
<1>14. (\A w \in Workers, t \in Slugs : CacheOK(w, t)') /\ (\A j \in Jobs : JobOK(j)')
  BY <1>8, <1>13a, JudgesUndisturbed
<1> QED BY <1>5, <1>7, <1>13, <1>13b, <1>14 DEF IInv

-----------------------------------------------------------------------------
(* The steps of create_problem.                                            *)

\* A call that is at pc and goes to another, or answers.
LEMMA CallType ==
    ASSUME IInv, NEW c \in Calls, Active(c)
    PROVE  /\ call \in [Calls -> Call] /\ call[c] \in Call /\ CallOK(c)
           /\ Request(c) \in Requests /\ Request(c).slug \in Slugs
           /\ Request(c).cases \in Seq(TestCases)
           /\ objects \in [Slugs -> Seq(TestCases) \cup {NoObject}]
           /\ call[c].answer = "none"
BY CallAssumption DEF IInv, TypeOK, CreateTypeOK, StoreTypeOK, CallOK, Active

LEMMA ReceiveOK ==
    ASSUME IInv, NEW c \in Calls, Receive(c), UNCHANGED <<cache, job>>
    PROVE  IInv'
<1>1. PICK r \in Requests :
          /\ r.slug \in Undisturbed => \A d \in Calls : Active(d) => Request(d).slug # r.slug
          /\ call' = [call EXCEPT ![c] =
                 IF validateCreateProblem(r)
                 THEN [NoCall EXCEPT !.pc = "slug", !.request = r]
                 ELSE [NoCall EXCEPT !.pc = "done", !.request = r, !.answer = "error"]]
  BY DEF Receive
<1>2. /\ call \in [Calls -> Call] /\ call[c].pc = "idle" /\ UNCHANGED <<objects, problems>>
      /\ \A d \in Calls : d # c => call'[d] = call[d]
  BY <1>1 DEF IInv, TypeOK, CreateTypeOK, Receive, storeVars
<1>3. /\ call' \in [Calls -> Call] /\ call'[c].request = r /\ ~ call'[c].lost
      /\ \/ validateCreateProblem(r) /\ call'[c].pc = "slug" /\ call'[c].answer = "none"
         \/ call'[c].pc = "done" /\ call'[c].answer = "error"
  BY <1>1, <1>2 DEF Call, NoCall
<1>4. TypeOK'
  BY <1>2, <1>3 DEF IInv, TypeOK, StoreTypeOK, CreateTypeOK, JudgeTypeOK
<1>5. Alone'
  <2>1. \A d \in Calls : d # c => (Active(d)' <=> Active(d)) /\ Request(d)' = Request(d)
    BY <1>2 DEF Active, Request
  <2>2. Request(c)' = r
    BY <1>3 DEF Request
  <2> QED BY <1>1, <2>1, <2>2 DEF IInv, Alone
<1>6. ASSUME NEW d \in Calls PROVE CallOK(d)'
  <2>1. CASE d = c
    BY <1>3, <2>1 DEF CallOK, Active, Request, Checked, LookedUp
  <2>2. CASE d # c
    <3>1. CallOK(d) /\ call'[d] = call[d]
      BY <1>2, <2>2 DEF IInv
    <3> QED BY <1>2, <3>1 DEF CallOK, Active, Request, Taken
  <2> QED BY <2>1, <2>2
<1>7. CallsKept
  BY <1>2 DEF CallsKept, Request
<1>8. ASSUME NEW s \in Slugs PROVE ObjectOK(s)'
  <2>1. ObjectOK(s) /\ TestedCases(s) \subseteq TestedCases(s)'
    BY <1>7, TestedGrow DEF IInv
  <2> QED BY <1>2, <2>1 DEF ObjectOK
<1>9. ASSUME NEW s \in Slugs PROVE RowOK(s)'
  <2> SUFFICES ASSUME Taken(s) PROVE RowOK(s)'
    BY <1>2 DEF RowOK, Taken
  <2>1. RowOK(s) /\ problems[s].by \in Calls
    BY DEF IInv, TypeOK, StoreTypeOK, Taken, Problem
  <2>2. problems[s].by # c
    BY <1>2, <2>1 DEF RowOK
  <2> QED BY <1>2, <2>1, <2>2 DEF RowOK, Taken, Request
<1>10. RowsKept
  BY <1>2 DEF RowsKept
<1> QED BY <1>4, <1>5, <1>6, <1>7, <1>8, <1>9, <1>10, JudgesUndisturbed DEF IInv

\* Any step that ends the call without a row.
LEMMA CallEnds ==
    ASSUME IInv, NEW c \in Calls, Active(c), UNCHANGED <<problems, cache, job>>,
           ObjectStep(c), Answer(c, "error") \/ GoTo(c, "done")
    PROVE  IInv'
<1>1. /\ call \in [Calls -> Call] /\ call[c] \in Call /\ CallOK(c)
      /\ Request(c) \in Requests /\ call[c].answer = "none"
  BY CallType
<1>2. PICK answer \in {"error", "none"} :
          call' = [call EXCEPT ![c] = [call[c] EXCEPT !.pc = "done", !.answer = answer]]
  <2>1. CASE Answer(c, "error")
    BY <1>1, <2>1 DEF Answer, Call
  <2>2. CASE GoTo(c, "done")
    <3>1. [call[c] EXCEPT !.pc = "done"] = [call[c] EXCEPT !.pc = "done", !.answer = "none"]
      BY <1>1 DEF Call
    <3> QED BY <1>1, <2>2, <3>1 DEF GoTo
  <2> QED BY <2>1, <2>2
<1> DEFINE state == [call[c] EXCEPT !.pc = "done", !.answer = answer]
<1>3. /\ state \in Call /\ state.pc = "done" /\ state.answer = answer
      /\ state.request = Request(c) /\ state.lost = call[c].lost
  BY <1>1 DEF Call, Request
<1>4. call'[c] = state
  BY <1>1, <1>2
<1> HIDE DEF state
<1>5. CallOK(c)'
  BY <1>1, <1>3, <1>4 DEF CallOK, Active, Request, LookedUp, Checked, Taken
<1>6. call' = [call EXCEPT ![c] = state]
  BY <1>2 DEF state
<1> QED BY <1>3, <1>5, <1>6, CallGoesOn

\* Any step that goes on without writing the store, with what it found out.
LEMMA CallPasses ==
    ASSUME IInv, NEW c \in Calls, Active(c), UNCHANGED <<storeVars, cache, job>>,
           NEW label \in {"author", "tags", "dry_run"} \cup Checked, GoTo(c, label),
           label \in {"dry_run"} \cup Checked => Request(c).tags \subseteq Tags,
           label \in Checked => langsToRun(Request(c)) \subseteq Request(c).correct,
           ~ call[c].lost, Request(c).slug \in Undisturbed => ~ Taken(Request(c).slug),
           label = "insert" => objects[Request(c).slug] = Request(c).cases
    PROVE  IInv'
<1>1. /\ call \in [Calls -> Call] /\ call[c] \in Call /\ CallOK(c)
      /\ objects \in [Slugs -> Seq(TestCases) \cup {NoObject}]
      /\ Request(c) \in Requests /\ call[c].answer = "none"
  BY CallType
<1> DEFINE state == [call[c] EXCEPT !.pc = label]
<1>2. /\ state \in Call /\ state.pc = label /\ state.answer = "none"
      /\ state.request = Request(c) /\ state.lost = call[c].lost
  BY <1>1 DEF Call, Request, Checked
<1>3. call' = [call EXCEPT ![c] = state] /\ call'[c] = state
  BY <1>1 DEF GoTo
<1> HIDE DEF state
<1>4. UNCHANGED <<objects, problems>> /\ state.pc \notin {"idle", "done"}
  BY <1>2 DEF storeVars, Checked
<1>5. CallOK(c)'
  BY <1>1, <1>2, <1>3, <1>4 DEF CallOK, Active, Request, Taken
<1> QED BY <1>1, <1>2, <1>3, <1>4, <1>5, CallGoesOn DEF ObjectStep

LEMMA SelectOK ==
    ASSUME IInv, NEW c \in Calls, SelectSlug(c) \/ SelectAuthor(c) \/ SelectTags(c),
           UNCHANGED <<cache, job>>
    PROVE  IInv'
<1>1. /\ Active(c) /\ UNCHANGED storeVars /\ CallOK(c)
      /\ call[c].pc \in {"slug", "author", "tags"}
  BY CallType DEF SelectSlug, SelectAuthor, SelectTags, Active
<1>2. UNCHANGED problems /\ ObjectStep(c) /\ ~ call[c].lost
  BY <1>1 DEF storeVars, ObjectStep, CallOK
<1>3. CASE Answer(c, "error")
  BY <1>1, <1>2, <1>3, CallEnds
<1>4. CASE SelectSlug(c) /\ ~ Answer(c, "error")
  <2>1. ~ Taken(Request(c).slug) /\ GoTo(c, AfterSlug(Request(c)))
    BY <1>4 DEF SelectSlug
  <2>2. /\ AfterSlug(Request(c)) \in {"author", "tags", "dry_run"}
        /\ AfterSlug(Request(c)) = "dry_run" => Request(c).tags = {}
    BY DEF AfterSlug, AfterAuthor
  <2> QED BY <1>1, <1>2, <2>1, <2>2, CallPasses DEF Checked
<1>5. CASE SelectAuthor(c) /\ ~ Answer(c, "error")
  <2>1. GoTo(c, AfterAuthor(Request(c))) /\ call[c].pc = "author"
    BY <1>5 DEF SelectAuthor
  <2>2. /\ AfterAuthor(Request(c)) \in {"tags", "dry_run"}
        /\ AfterAuthor(Request(c)) = "dry_run" => Request(c).tags = {}
    BY DEF AfterAuthor
  <2>3. Request(c).slug \in Undisturbed => ~ Taken(Request(c).slug)
    BY <1>1, <1>2, <2>1 DEF CallOK, LookedUp
  <2> QED BY <1>1, <1>2, <2>1, <2>2, <2>3, CallPasses DEF Checked
<1>6. CASE SelectTags(c) /\ ~ Answer(c, "error")
  <2>1. /\ GoTo(c, "dry_run") /\ call[c].pc = "tags" /\ Request(c).tags \subseteq Tags
    BY <1>6 DEF SelectTags
  <2>2. Request(c).slug \in Undisturbed => ~ Taken(Request(c).slug)
    BY <1>1, <1>2, <2>1 DEF CallOK, LookedUp
  <2> QED BY <1>1, <1>2, <2>1, <2>2, CallPasses DEF Checked
<1> QED BY <1>3, <1>4, <1>5, <1>6

LEMMA dryRunOK ==
    ASSUME IInv, NEW c \in Calls, dryRun(c), UNCHANGED <<cache, job>>
    PROVE  IInv'
<1>1. Active(c) /\ call[c].pc = "dry_run" /\ UNCHANGED storeVars /\ CallOK(c)
  BY CallType DEF dryRun, Active
<1>2. UNCHANGED problems /\ ObjectStep(c) /\ ~ call[c].lost
  BY <1>1 DEF storeVars, ObjectStep, CallOK
<1>3. PICK passed \in dryRunReference(Request(c)) :
          IF passed = langsToRun(Request(c)) THEN GoTo(c, "upload") ELSE Answer(c, "error")
  BY DEF dryRun
<1>4. CASE Answer(c, "error")
  BY <1>1, <1>2, <1>4, CallEnds
<1>5. CASE passed = langsToRun(Request(c)) /\ GoTo(c, "upload")
  <2>1. langsToRun(Request(c)) \subseteq Request(c).correct
    BY <1>5 DEF dryRunReference
  <2>2. /\ Request(c).slug \in Undisturbed => ~ Taken(Request(c).slug)
        /\ Request(c).tags \subseteq Tags
    BY <1>1, <1>2 DEF CallOK, LookedUp
  <2> QED BY <1>1, <1>2, <1>5, <2>1, <2>2, CallPasses DEF Checked
<1> QED BY <1>3, <1>4, <1>5

\* The upload: nobody but this call is at work on an undisturbed slug.
LEMMA PutOK ==
    ASSUME IInv, NEW c \in Calls, Put(c), UNCHANGED <<cache, job>>
    PROVE  IInv'
<1>1. Active(c) /\ call[c].pc = "upload" /\ ObjectStep(c) /\ UNCHANGED problems
  BY DEF Put, Active, ObjectStep
<1>2. /\ call \in [Calls -> Call] /\ call[c] \in Call /\ CallOK(c)
      /\ Request(c) \in Requests /\ call[c].answer = "none" /\ ~ call[c].lost
  BY <1>1, CallType DEF CallOK
<1> DEFINE state == [call[c] EXCEPT !.pc = "verify"]
<1>3. /\ state \in Call /\ state.pc = "verify" /\ state.answer = "none"
      /\ state.request = Request(c) /\ state.lost = call[c].lost
  BY <1>2 DEF Call, Request
<1>4. call' = [call EXCEPT ![c] = state] /\ call'[c] = state
  BY <1>2 DEF Put, GoTo
<1> HIDE DEF state
<1>5. CallOK(c)'
  <2>1. Request(c)' = Request(c)
    BY <1>3, <1>4 DEF Request
  <2> QED BY <1>1, <1>2, <1>3, <1>4, <2>1
          DEF CallOK, Active, Taken, Checked, LookedUp
<1> QED BY <1>1, <1>3, <1>4, <1>5, CallGoesOn

LEMMA EndsOK ==
    ASSUME IInv, NEW c \in Calls, PutFails(c) \/ GetFails(c) \/ SelectFails(c) \/ Delete(c)
                                  \/ Killed(c), UNCHANGED <<cache, job>>
    PROVE  IInv'
<1>1. Active(c) /\ UNCHANGED problems
  BY DEF PutFails, GetFails, SelectFails, Delete, Killed, Active, storeVars
<1>2. Answer(c, "error") \/ GoTo(c, "done")
  BY DEF PutFails, GetFails, SelectFails, Delete, Killed
<1>3. ObjectStep(c)
  BY DEF PutFails, GetFails, SelectFails, Delete, Killed, storeVars, ObjectStep
<1> QED BY <1>1, <1>2, <1>3, CallEnds

LEMMA GetOK ==
    ASSUME IInv, NEW c \in Calls, Get(c), UNCHANGED <<cache, job>>
    PROVE  IInv'
<1>1. Active(c) /\ call[c].pc = "verify" /\ UNCHANGED storeVars /\ CallOK(c)
  BY CallType DEF Get, Active
<1>2. UNCHANGED problems /\ ObjectStep(c) /\ ~ call[c].lost
  BY <1>1 DEF storeVars, ObjectStep, CallOK
<1>3. CASE Answer(c, "error")
  BY <1>1, <1>2, <1>3, CallEnds
<1>4. CASE ~ Answer(c, "error")
  <2>1. PICK label \in {"insert", "discard"} :
            GoTo(c, label) /\ (label = "insert" => objects[Request(c).slug] = Request(c).cases)
    BY <1>4 DEF Get
  <2>2. /\ Request(c).slug \in Undisturbed => ~ Taken(Request(c).slug)
        /\ Request(c).tags \subseteq Tags
        /\ langsToRun(Request(c)) \subseteq Request(c).correct
    BY <1>1, <1>2 DEF CallOK, LookedUp, Checked
  <2>3. label \in Checked
    BY <2>1 DEF Checked
  <2> QED BY <1>1, <1>2, <2>1, <2>2, <2>3, CallPasses
<1> QED BY <1>3, <1>4

\* The transaction commits, does not, or commits unheard.
LEMMA InsertOK ==
    ASSUME IInv, NEW c \in Calls, Insert(c) \/ InsertFails(c), UNCHANGED <<cache, job>>
    PROVE  IInv'
<1>1. /\ Active(c) /\ call[c].pc = "insert" /\ UNCHANGED objects
  BY DEF Insert, InsertFails, Active
<1>2. /\ call \in [Calls -> Call] /\ call[c] \in Call /\ CallOK(c)
      /\ call[c].answer = "none" /\ call[c].lost = FALSE
  BY <1>1, CallType DEF CallOK, Call
<1>3. CASE UNCHANGED problems /\ GoTo(c, "rollback")
  <2>1. /\ Request(c).slug \in Undisturbed => ~ Taken(Request(c).slug)
        /\ Request(c).tags \subseteq Tags
        /\ langsToRun(Request(c)) \subseteq Request(c).correct
    BY <1>1, <1>2 DEF CallOK, LookedUp, Checked
  <2>2. UNCHANGED storeVars /\ "rollback" \in Checked
    BY <1>1, <1>3 DEF storeVars, Checked
  <2> QED BY <1>1, <1>2, <1>3, <2>1, <2>2, CallPasses
<1>4. CASE /\ ~ Taken(Request(c).slug)
           /\ InsertProblem(c, Request(c).slug, Request(c).cases, Request(c).tags)
           /\ \/ Answer(c, "success")
              \/ call' = [call EXCEPT ![c].pc = "rollback", ![c].lost = TRUE]
  <2>1. PICK state \in {[call[c] EXCEPT !.pc = "done", !.answer = "success"],
                        [call[c] EXCEPT !.pc = "rollback", !.lost = TRUE]} :
            call' = [call EXCEPT ![c] = state]
    BY <1>2, <1>4 DEF Answer, Call
  <2>2. /\ state \in Call /\ state.request = Request(c)
        /\ \/ state.pc = "done" /\ state.answer = "success" /\ ~ state.lost
           \/ state.pc = "rollback" /\ state.answer = "none" /\ state.lost
    BY <1>2, <2>1 DEF Call, Request
  <2> QED BY <1>1, <1>4, <2>1, <2>2, CallInserts
<1> QED BY <1>3, <1>4 DEF Insert, InsertFails

LEMMA CreateOK ==
    ASSUME IInv, NEW c \in Calls, create_problem(c), UNCHANGED <<cache, job>>
    PROVE  IInv'
BY ReceiveOK, SelectOK, dryRunOK, PutOK, EndsOK, GetOK, InsertOK DEF create_problem

-----------------------------------------------------------------------------
(* The steps of a judge.  The store and the calls stay as they are.        *)

LEMMA StoreUndisturbed ==
    ASSUME IInv, UNCHANGED <<storeVars, call>>
    PROVE  /\ Alone' /\ StoreTypeOK' /\ CreateTypeOK'
           /\ \A c \in Calls : CallOK(c)'
           /\ \A s \in Slugs : /\ RowOK(s)' /\ ObjectOK(s)' /\ Taken(s)' = Taken(s)
                                /\ TestedCases(s) \subseteq TestedCases(s)'
           /\ CallsKept
<1>1. UNCHANGED <<objects, problems, call>>
  BY DEF storeVars
<1>0. CallsKept
  BY <1>1 DEF CallsKept, Request
<1>2. Alone' /\ StoreTypeOK' /\ CreateTypeOK'
  BY <1>1 DEF IInv, Alone, Active, Request, TypeOK, StoreTypeOK, CreateTypeOK
<1>3. ASSUME NEW c \in Calls PROVE CallOK(c)'
  <2>1. CallOK(c)
    BY DEF IInv
  <2> QED BY <1>1, <2>1 DEF CallOK, Request, Active, Taken
<1>4. ASSUME NEW s \in Slugs
      PROVE  /\ RowOK(s)' /\ ObjectOK(s)' /\ Taken(s)' = Taken(s)
             /\ TestedCases(s) \subseteq TestedCases(s)'
  <2>1. RowOK(s) /\ ObjectOK(s) /\ TestedCases(s) \subseteq TestedCases(s)'
    BY <1>0, TestedGrow DEF IInv
  <2>2. RowOK(s)' /\ Taken(s)' = Taken(s)
    BY <1>1, <2>1 DEF RowOK, Request, Taken
  <2>3. ObjectOK(s)'
    BY <1>1, <2>1 DEF ObjectOK
  <2> QED BY <2>1, <2>2, <2>3
<1> QED BY <1>0, <1>2, <1>3, <1>4

\* A job that does nothing.
LEMMA JobKept ==
    ASSUME IInv, UNCHANGED <<storeVars, call>>, NEW k \in Jobs, job'[k] = job[k]
    PROVE  JobOK(k)'
<1>1. JobOK(k) /\ (Tally(k) => Tally(k)') /\ UNCHANGED problems
  BY DEF IInv, Tally, Failed, storeVars
<1>2. CASE job[k].pc = "idle"
  BY <1>1, <1>2 DEF JobOK
<1>3. CASE job[k].pc # "idle"
  <2>1. PICK s \in Slugs : s = job[k].slug /\ s = job'[k].slug
    BY <1>1, <1>3 DEF JobOK
  <2>2. TestedCases(s) \subseteq TestedCases(s)' /\ Taken(s)'
    BY <1>1, <1>3, <2>1, StoreUndisturbed DEF JobOK
  <2> QED BY <1>1, <1>3, <2>1, <2>2 DEF JobOK
<1> QED BY <1>2, <1>3

\* A job of a worker goes from one state to another.
LEMMA JobGoesOn ==
    ASSUME IInv, NEW j \in Jobs, NEW state \in Job,
           job' = [job EXCEPT ![j] = state], UNCHANGED <<storeVars, call>>,
           cache' \in [Workers -> [Slugs -> Seq(TestCases) \cup {NoObject}]],
           \A w \in Workers, s \in Slugs : CacheOK(w, s)',
           JobOK(j)'
    PROVE  IInv'
<1>1. /\ job \in [Jobs -> Job] /\ UNCHANGED problems
      /\ job' \in [Jobs -> Job] /\ \A k \in Jobs : k # j => job'[k] = job[k]
  BY DEF IInv, TypeOK, JudgeTypeOK, storeVars
<1>2. /\ Alone' /\ StoreTypeOK' /\ CreateTypeOK'
      /\ \A c \in Calls : CallOK(c)'
      /\ \A s \in Slugs : /\ RowOK(s)' /\ ObjectOK(s)' /\ Taken(s)' = Taken(s)
                           /\ TestedCases(s) \subseteq TestedCases(s)'
  BY StoreUndisturbed
<1>3. TypeOK'
  BY <1>1, <1>2 DEF TypeOK, JudgeTypeOK
<1>4. ASSUME NEW k \in Jobs, k # j PROVE JobOK(k)'
  <2>1. JobOK(k) /\ job'[k] = job[k]
    BY <1>1, <1>4 DEF IInv
  <2> QED BY <2>1, JobKept
<1>5. \A k \in Jobs : JobOK(k)'
  BY <1>4
<1> QED BY <1>2, <1>3, <1>5 DEF IInv

LEMMA CacheKept ==
    ASSUME IInv, UNCHANGED <<storeVars, call, cache>>
    PROVE  /\ cache' \in [Workers -> [Slugs -> Seq(TestCases) \cup {NoObject}]]
           /\ \A w \in Workers, s \in Slugs : CacheOK(w, s)'
<1>1. UNCHANGED <<problems, cache>>
  BY DEF storeVars
<1>2. ASSUME NEW w \in Workers, NEW s \in Slugs PROVE CacheOK(w, s)'
  <2>1. CacheOK(w, s) /\ TestedCases(s) \subseteq TestedCases(s)' /\ Taken(s)' = Taken(s)
    BY StoreUndisturbed DEF IInv
  <2> QED BY <1>1, <2>1 DEF CacheOK
<1> QED BY <1>1, <1>2 DEF IInv, TypeOK, JudgeTypeOK

\* What is known of a job that runs.
LEMMA JobType ==
    ASSUME IInv, NEW j \in Jobs
    PROVE  /\ job \in [Jobs -> Job] /\ job[j] \in Job /\ JobOK(j)
           /\ job[j].pc # "idle" =>
                 job[j].slug \in Slugs /\ job[j].program \in Programs /\ Taken(job[j].slug)
BY DEF IInv, TypeOK, JudgeTypeOK, JobOK

\* Cases that were tested still are.
LEMMA TestedStay ==
    ASSUME IInv, NEW j \in Jobs, job[j].pc # "idle", job'[j].slug = job[j].slug,
           UNCHANGED <<storeVars, call>>, NEW cases \in TestedCases(job[j].slug)
    PROVE  cases \in TestedCases(job[j].slug)'
<1>1. PICK s \in Slugs : s = job[j].slug /\ s = job'[j].slug
  BY JobType
<1>2. TestedCases(s) \subseteq TestedCases(s)'
  BY StoreUndisturbed
<1> QED BY <1>1, <1>2

LEMMA StartOK ==
    ASSUME IInv, NEW j \in Jobs, Start(j), UNCHANGED call
    PROVE  IInv'
<1>1. PICK s \in Slugs, p \in Programs :
          /\ Taken(s)
          /\ job' = [job EXCEPT ![j] = [NoJob EXCEPT !.pc = "load", !.slug = s, !.program = p]]
  BY DEF Start
<1> DEFINE state == [NoJob EXCEPT !.pc = "load", !.slug = s, !.program = p]
<1>2. /\ state.pc = "load" /\ state.slug = s /\ state.program = p /\ state.results = <<>>
      /\ state.passedCount = 0 /\ state.status = "ACCEPTED" /\ state.upset = {}
  BY DEF NoJob
<1>3. state \in Job
  <2>1. <<>> \in Seq(TestCases) /\ <<>> \in Seq([id : TestCases, passed : BOOLEAN])
    BY EmptySeq
  <2> QED BY <2>1 DEF NoJob, Job, Statuses
<1> HIDE DEF state
<1>4. job' = [job EXCEPT ![j] = state] /\ job'[j] = state /\ UNCHANGED <<storeVars, cache>>
  BY <1>1, JobType DEF state, Start
<1>5. JobOK(j)'
  BY <1>1, <1>2, <1>4 DEF JobOK, Taken, storeVars
<1> QED BY <1>3, <1>4, <1>5, CacheKept, JobGoesOn

\* A job that throws keeps its submission and nothing else.
LEMMA ThrownOK ==
    ASSUME IInv, NEW j \in Jobs, job[j].pc # "idle"
    PROVE  /\ Thrown(j) \in Job /\ Thrown(j).pc = "failed"
           /\ Thrown(j).slug = job[j].slug /\ Thrown(j).program = job[j].program
<1>1. <<>> \in Seq(TestCases) /\ <<>> \in Seq([id : TestCases, passed : BOOLEAN])
  BY EmptySeq
<1> QED BY <1>1, JobType DEF Thrown, NoJob, Job, Statuses

LEMMA FailOK ==
    ASSUME IInv, NEW j \in Jobs, job[j].pc # "idle", Fail(j),
           UNCHANGED <<storeVars, call, cache>>
    PROVE  IInv'
<1> DEFINE state == Thrown(j)
<1>1. /\ state \in Job /\ state.pc = "failed" /\ state.slug = job[j].slug
      /\ state.program = job[j].program
  BY ThrownOK
<1>2. job' = [job EXCEPT ![j] = state] /\ job'[j] = state
  BY JobType DEF Fail
<1> HIDE DEF state
<1>3. JobOK(j)'
  BY <1>1, <1>2, JobType DEF JobOK, Taken, storeVars
<1> QED BY <1>1, <1>2, <1>3, CacheKept, JobGoesOn

\* The cases a job loads, from the cache or from S3, were tested.
LEMMA LoadOK ==
    ASSUME IInv, NEW j \in Jobs, job[j].pc \in {"load", "download"},
           NEW cases \in Seq(TestCases), load(j, cases), UNCHANGED <<storeVars, call>>,
           cases \in TestedCases(job[j].slug),
           job[j].slug \in Undisturbed => cases = problems[job[j].slug].cases,
           cache' \in [Workers -> [Slugs -> Seq(TestCases) \cup {NoObject}]],
           \A w \in Workers, s \in Slugs : CacheOK(w, s)'
    PROVE  IInv'
<1> DEFINE state == [job[j] EXCEPT !.pc = "write", !.cases = cases]
<1>1. /\ job \in [Jobs -> Job] /\ job[j] \in Job /\ JobOK(j)
      /\ job[j].slug \in Slugs /\ job[j].program \in Programs /\ Taken(job[j].slug)
  BY JobType
<1>2. /\ state \in Job /\ state.pc = "write" /\ state.slug = job[j].slug
      /\ state.program = job[j].program /\ state.cases = cases
      /\ state.results = <<>> /\ state.passedCount = 0 /\ state.status = "ACCEPTED"
      /\ state.upset = {}
  BY <1>1 DEF Job, JobOK
<1>3. job' = [job EXCEPT ![j] = state] /\ job'[j] = state
  BY <1>1 DEF load
<1> HIDE DEF state
<1>4. Tally(j)'
  <2>1. Len(<<>>) = 0 /\ Len(cases) \in Nat
    BY LenProperties, EmptySeq
  <2>2. Len(job'[j].results) = 0 /\ job'[j].cases = cases /\ job'[j].passedCount = 0
        /\ job'[j].status = "ACCEPTED" /\ job'[j].upset = {}
    BY <1>2, <1>3, <2>1
  <2>3. Failed(j, 0)' = {}
    BY <2>2 DEF FailingTo, Failed
  <2>4. \A own : Counts(0, {}, {}, own, 0, "ACCEPTED")
    BY FS_EmptySet DEF Counts
  <2>5. 0 <= Len(cases)
    BY <2>1
  <2> QED BY <2>2, <2>3, <2>4, <2>5 DEF Tally
<1>5. job'[j].cases \in TestedCases(job[j].slug)'
  BY <1>1, <1>2, <1>3, TestedStay
<1>7. JobOK(j)'
  BY <1>1, <1>2, <1>3, <1>4, <1>5 DEF JobOK, Taken, storeVars
<1> QED BY <1>2, <1>3, <1>7, JobGoesOn

LEMMA getTestCasesOK ==
    ASSUME IInv, NEW j \in Jobs, getTestCases(j), UNCHANGED call
    PROVE  IInv'
<1>1. /\ job[j].pc = "load" /\ UNCHANGED <<storeVars, cache>> /\ WorkerOf[j] \in Workers
      /\ job \in [Jobs -> Job] /\ job[j] \in Job /\ JobOK(j)
      /\ job[j].slug \in Slugs /\ Taken(job[j].slug)
  BY JobType, JudgeAssumption DEF getTestCases
<1>2. CASE Cached(j) # NoObject /\ load(j, Cached(j))
  <2>1. Cached(j) \in Seq(TestCases)
    BY <1>1, <1>2 DEF IInv, TypeOK, JudgeTypeOK, Cached
  <2>2. /\ Cached(j) \in TestedCases(job[j].slug)
        /\ job[j].slug \in Undisturbed => Cached(j) = problems[job[j].slug].cases
    BY <1>1, <1>2 DEF IInv, CacheOK, Cached
  <2> QED BY <1>1, <1>2, <2>1, <2>2, CacheKept, LoadOK
<1>3. CASE job' = [job EXCEPT ![j].pc = "download"]
  <2> DEFINE state == [job[j] EXCEPT !.pc = "download"]
  <2>1. /\ state \in Job /\ state.pc = "download" /\ state.slug = job[j].slug
        /\ state.program = job[j].program /\ state.results = job[j].results
        /\ state.passedCount = job[j].passedCount /\ state.status = job[j].status
        /\ state.upset = job[j].upset
    BY <1>1 DEF Job
  <2>2. job' = [job EXCEPT ![j] = state] /\ job'[j] = state
    BY <1>1, <1>3
  <2> HIDE DEF state
  <2>3. JobOK(j)'
    BY <1>1, <2>1, <2>2 DEF JobOK, Taken, storeVars
  <2> QED BY <1>1, <2>1, <2>2, <2>3, CacheKept, JobGoesOn
<1> QED BY <1>2, <1>3 DEF getTestCases

LEMMA downloadOK ==
    ASSUME IInv, NEW j \in Jobs, download(j), UNCHANGED call
    PROVE  IInv'
<1>1. PICK s \in Slugs, w \in Workers : s = job[j].slug /\ w = WorkerOf[j]
  BY JobType, JudgeAssumption DEF download
<1>2. /\ job[j].pc = "download" /\ UNCHANGED storeVars /\ Taken(s)
      /\ objects \in [Slugs -> Seq(TestCases) \cup {NoObject}]
      /\ cache \in [Workers -> [Slugs -> Seq(TestCases) \cup {NoObject}]]
  BY <1>1, JobType DEF download, IInv, TypeOK, StoreTypeOK, JudgeTypeOK
<1>3. CASE Fail(j) /\ UNCHANGED cache
  BY <1>2, <1>3, FailOK
<1>4. CASE /\ objects[s] # NoObject /\ load(j, objects[s])
           /\ cache' = [cache EXCEPT ![w][s] = objects[s]]
  <2>1. objects[s] \in Seq(TestCases)
    BY <1>2, <1>4
  <2>2. /\ objects[s] \in TestedCases(s)
        /\ s \in Undisturbed => objects[s] = problems[s].cases
    BY <1>2, <1>4 DEF IInv, RowOK, ObjectOK
  <2>3. cache' \in [Workers -> [Slugs -> Seq(TestCases) \cup {NoObject}]]
    BY <1>2, <1>4, <2>1
  <2>4. ASSUME NEW v \in Workers, NEW t \in Slugs PROVE CacheOK(v, t)'
    <3>1. CacheOK(v, t) /\ UNCHANGED problems /\ TestedCases(t) \subseteq TestedCases(t)'
      BY <1>2, StoreUndisturbed DEF IInv, storeVars
    <3>2. cache'[v][t] = IF v = w /\ t = s THEN objects[s] ELSE cache[v][t]
      BY <1>2, <1>4
    <3> QED BY <1>2, <2>2, <3>1, <3>2 DEF CacheOK, Taken
  <2>5. /\ objects[s] \in TestedCases(job[j].slug)
        /\ job[j].slug \in Undisturbed => objects[s] = problems[job[j].slug].cases
    BY <1>1, <2>2
  <2> QED BY <1>2, <1>4, <2>1, <2>3, <2>4, <2>5, LoadOK
<1> QED BY <1>1, <1>3, <1>4 DEF download

LEMMA writeFileOK ==
    ASSUME IInv, NEW j \in Jobs, writeFile(j), UNCHANGED call
    PROVE  IInv'
<1>1. /\ job[j].pc = "write" /\ UNCHANGED <<storeVars, cache>>
      /\ job \in [Jobs -> Job] /\ job[j] \in Job /\ JobOK(j)
  BY JobType DEF writeFile
<1> DEFINE state == [job[j] EXCEPT !.pc = "run"]
<1>2. /\ state \in Job /\ state.pc = "run" /\ state.slug = job[j].slug
      /\ state.program = job[j].program /\ state.cases = job[j].cases
      /\ state.results = job[j].results /\ state.passedCount = job[j].passedCount
      /\ state.status = job[j].status /\ state.upset = job[j].upset
  BY <1>1 DEF Job
<1>3. job' = [job EXCEPT ![j] = state] /\ job'[j] = state
  BY <1>1 DEF writeFile
<1> HIDE DEF state
<1>4. Tally(j) => Tally(j)'
  BY <1>2, <1>3 DEF Tally, Failed
<1>5. job[j].cases \in TestedCases(job[j].slug)
         => job'[j].cases \in TestedCases(job[j].slug)'
  BY <1>1, <1>2, <1>3, TestedStay
<1>6. JobOK(j)'
  BY <1>1, <1>2, <1>3, <1>4, <1>5 DEF JobOK, Taken, storeVars
<1> QED BY <1>1, <1>2, <1>3, <1>6, CacheKept, JobGoesOn

LEMMA FinishOK ==
    ASSUME IInv, NEW j \in Jobs, Finish(j), UNCHANGED call
    PROVE  IInv'
<1>1. /\ job[j].pc = "run" /\ UNCHANGED <<storeVars, cache>>
      /\ Len(job[j].results) = Len(job[j].cases)
      /\ job \in [Jobs -> Job] /\ job[j] \in Job /\ JobOK(j)
  BY JobType DEF Finish
<1> DEFINE state == [job[j] EXCEPT !.pc = "done"]
<1>2. /\ state \in Job /\ state.pc = "done" /\ state.slug = job[j].slug
      /\ state.program = job[j].program /\ state.cases = job[j].cases
      /\ state.results = job[j].results /\ state.passedCount = job[j].passedCount
      /\ state.status = job[j].status /\ state.upset = job[j].upset
  BY <1>1 DEF Job
<1>3. job' = [job EXCEPT ![j] = state] /\ job'[j] = state
  BY <1>1 DEF Finish
<1> HIDE DEF state
<1>4. Tally(j) => Tally(j)'
  BY <1>2, <1>3 DEF Tally, Failed
<1>5. job[j].cases \in TestedCases(job[j].slug)
         => job'[j].cases \in TestedCases(job[j].slug)'
  BY <1>1, <1>2, <1>3, TestedStay
<1>6. JobOK(j)'
  BY <1>1, <1>2, <1>3, <1>4, <1>5 DEF JobOK, Taken, storeVars
<1> QED BY <1>1, <1>2, <1>3, <1>6, CacheKept, JobGoesOn

LEMMA StatusOf ==
    ASSUME NEW does \in Does
    PROVE  /\ statusOf(does) \in Statuses
           /\ statusOf(does) = "ACCEPTED" <=> does = "right"
BY DEF Does, statusOf, Statuses

(* One more case, which passes, fails by the program's doing, or fails by  *)
(* Docker's or the host's.                                                 *)
LEMMA TallyMore ==
    ASSUME NEW n \in Nat, NEW F, NEW V, NEW own, NEW passed, NEW status, NEW F1, NEW V1,
           NEW outcome, Counts(n, F, V, own, passed, status),
           \/ outcome = "ACCEPTED" /\ F1 = F /\ V1 = V
           \/ /\ outcome # "ACCEPTED" /\ F1 = F \cup {n + 1}
              /\ (V1 = V /\ outcome = own[n + 1]) \/ V1 = V \cup {n + 1}
    PROVE  Counts(n + 1, F1, V1, own, IF outcome = "ACCEPTED" THEN passed + 1 ELSE passed,
                  IF status = "ACCEPTED" THEN outcome ELSE status)
<1> DEFINE passed1 == IF outcome = "ACCEPTED" THEN passed + 1 ELSE passed
           status1 == IF status = "ACCEPTED" THEN outcome ELSE status
<1>0. /\ F \subseteq 1..n /\ V \subseteq F /\ passed = n - Cardinality(F)
      /\ status = "ACCEPTED" <=> F = {}
      /\ \A i \in F \ V : (\A k \in F : i <= k) => status = own[i]
      /\ 1..(n + 1) = 1..n \cup {n + 1}
  BY DEF Counts
<1>1. IsFiniteSet(F) /\ Cardinality(F) \in Nat
  <2>1. IsFiniteSet(1..n)
    BY FS_Interval
  <2> QED BY <1>0, <2>1, FS_Subset, FS_CardinalityType
<1>2. CASE outcome = "ACCEPTED" /\ F1 = F /\ V1 = V
  <2>1. passed1 = (n + 1) - Cardinality(F1)
    BY <1>0, <1>1, <1>2
  <2> QED BY <1>0, <1>2, <2>1 DEF Counts
<1>3. CASE /\ outcome # "ACCEPTED" /\ F1 = F \cup {n + 1}
           /\ (V1 = V /\ outcome = own[n + 1]) \/ V1 = V \cup {n + 1}
  <2>1. n + 1 \notin F /\ n + 1 \in F1
    BY <1>0, <1>3
  <2>2. Cardinality(F1) = Cardinality(F) + 1
    BY <1>1, <1>3, <2>1, FS_AddElement
  <2>3. passed1 = (n + 1) - Cardinality(F1)
    BY <1>0, <1>1, <1>3, <2>2
  <2>4. ASSUME NEW i \in F1 \ V1, \A k \in F1 : i <= k PROVE status1 = own[i]
    <3>1. CASE i = n + 1
      <4>1. F = {}
        BY <1>0, <1>3, <2>4, <3>1
      <4> QED BY <1>0, <1>3, <2>4, <3>1, <4>1
    <3>2. CASE i # n + 1
      BY <1>0, <1>3, <2>4, <3>2
    <3> QED BY <3>1, <3>2
  <2>5. F1 \subseteq 1..(n + 1) /\ V1 \subseteq F1
    BY <1>0, <1>3
  <2>6. status1 = "ACCEPTED" <=> F1 = {}
    BY <1>0, <1>3, <2>1
  <2> HIDE DEF passed1, status1
  <2>7. Counts(n + 1, F1, V1, own, passed1, status1)
    BY <2>3, <2>4, <2>5, <2>6 DEF Counts
  <2> QED BY <2>7 DEF passed1, status1
<1> QED BY <1>2, <1>3

LEMMA runTestCaseOK ==
    ASSUME IInv, NEW j \in Jobs, runTestCase(j), UNCHANGED call
    PROVE  IInv'
<1> DEFINE n == Len(job[j].results)
           t == job[j].cases[n + 1]
           p == job[j].program
           cases == job[j].cases
           own == statusOf(Behaviour[p][t])
<1>1. /\ job[j].pc = "run" /\ UNCHANGED <<storeVars, cache>>
      /\ job \in [Jobs -> Job] /\ job[j] \in Job /\ JobOK(j) /\ Tally(j)
      /\ p \in Programs
  BY JobType DEF runTestCase, JobOK
<1>2. PICK status \in Outcomes(j, t) :
          job' = [job EXCEPT ![j] = [add(job[j], t, status) EXCEPT
                                        !.upset = IF status = own THEN @ ELSE @ \cup {n + 1}]]
  BY DEF runTestCase
<1>3. /\ n \in Nat /\ Len(cases) \in Nat /\ n + 1 <= Len(cases)
      /\ t \in TestCases /\ Behaviour[p][t] \in Does
  <2>1. job[j].results \in Seq([id : TestCases, passed : BOOLEAN]) /\ cases \in Seq(TestCases)
    BY <1>1 DEF Job
  <2>2. n \in Nat /\ Len(cases) \in Nat /\ n < Len(cases)
    BY <2>1, LenProperties DEF runTestCase
  <2>4. n + 1 <= Len(cases)
    BY <2>2
  <2>3. t \in TestCases
    BY <2>1, <2>2, <2>4, ElementOfSeq
  <2> QED BY <1>1, <2>2, <2>3, <2>4, JudgeAssumption
<1>4. /\ status \in Statuses
      /\ own = "ACCEPTED" <=> Behaviour[p][t] = "right"
      /\ status # own => status # "ACCEPTED"
  BY <1>2, <1>3, StatusOf DEF Outcomes, Statuses
<1> DEFINE Outcome == [id : TestCases, passed : BOOLEAN]
           outcome == [id |-> t, passed |-> status = "ACCEPTED"]
<1>5. PICK results1, passed1, status1, upset1 :
          /\ results1 = Append(job[j].results, outcome)
          /\ passed1 = IF status = "ACCEPTED" THEN job[j].passedCount + 1
                                              ELSE job[j].passedCount
          /\ status1 = IF job[j].status = "ACCEPTED" THEN status ELSE job[j].status
          /\ upset1 = IF status = own THEN job[j].upset ELSE job[j].upset \cup {n + 1}
  OBVIOUS
<1>6. results1 \in Seq(Outcome) /\ Len(results1) = n + 1
  <2>1. job[j].results \in Seq(Outcome) /\ outcome \in Outcome
    BY <1>1, <1>3 DEF Job
  <2> HIDE DEF Outcome, outcome
  <2> QED BY <1>5, <2>1, AppendProperties
<1>7. passed1 \in Nat /\ status1 \in Statuses /\ upset1 \in SUBSET Nat
  <2>1. job[j].passedCount \in Nat /\ job[j].status \in Statuses /\ job[j].upset \in SUBSET Nat
    BY <1>1 DEF Job
  <2> QED BY <1>3, <1>4, <1>5, <2>1
<1> DEFINE state == [job[j] EXCEPT !.results = results1, !.passedCount = passed1,
                                   !.status = status1, !.upset = upset1]
<1>8. job' = [job EXCEPT ![j] = state]
  <2>1. [add(job[j], t, status) EXCEPT !.upset = IF status = own THEN @ ELSE @ \cup {n + 1}]
          = state
    BY <1>1, <1>5 DEF add, Job
  <2> HIDE DEF state
  <2> QED BY <1>2, <2>1
<1>9. /\ state \in Job /\ state.pc = "run" /\ state.slug = job[j].slug /\ state.program = p
      /\ state.cases = cases /\ state.results = results1 /\ state.passedCount = passed1
      /\ state.status = status1 /\ state.upset = upset1
  BY <1>1, <1>6, <1>7 DEF Job
<1>10. job'[j] = state
  BY <1>1, <1>8
<1> HIDE DEF state
<1>11. Tally(j)'
  <2>0. PICK m \in Nat : m = n
    BY <1>3
  <2> DEFINE F == Failed(j, m)
             F1 == FailingTo(p, cases, m + 1) \cup upset1
             has == Own(p, cases)
  <2>1. Counts(m, F, job[j].upset, has, job[j].passedCount, job[j].status)
    BY <1>1, <2>0 DEF Tally
  <2>2. FailingTo(p, cases, m + 1) = FailingTo(p, cases, m)
                                       \cup (IF Behaviour[p][t] = "right" THEN {} ELSE {m + 1})
    <3>1. 1..(m + 1) = 1..m \cup {m + 1}
      OBVIOUS
    <3> QED BY <2>0, <3>1 DEF FailingTo
  <2>3. has[m + 1] = own
    BY <1>1, <1>3, <2>0, LenProperties DEF Own, Job
  <2>4. \/ status = "ACCEPTED" /\ F1 = F /\ upset1 = job[j].upset
        \/ /\ status # "ACCEPTED" /\ F1 = F \cup {m + 1}
           /\ \/ upset1 = job[j].upset /\ status = has[m + 1]
              \/ upset1 = job[j].upset \cup {m + 1}
    <3> HIDE DEF own, has
    <3>3. CASE status = own /\ own = "ACCEPTED"
      BY <1>4, <1>5, <2>2, <3>3 DEF Failed
    <3>4. CASE status = own /\ own # "ACCEPTED"
      BY <1>4, <1>5, <2>2, <2>3, <3>4 DEF Failed
    <3>5. CASE status # own
      <4>1. upset1 = job[j].upset \cup {m + 1} /\ status # "ACCEPTED"
        BY <1>4, <1>5, <2>0, <3>5
      <4> QED BY <2>2, <4>1 DEF Failed
    <3> QED BY <3>3, <3>4, <3>5
  <2>5. Counts(m + 1, F1, upset1, has, passed1, status1)
    <3> HIDE DEF F, F1, has
    <3>1. Counts(m + 1, F1, upset1, has,
                 IF status = "ACCEPTED" THEN job[j].passedCount + 1 ELSE job[j].passedCount,
                 IF job[j].status = "ACCEPTED" THEN status ELSE job[j].status)
      BY <2>1, <2>4, TallyMore
    <3> QED BY <1>5, <3>1
  <2>6. /\ Len(job'[j].results) = m + 1 /\ job'[j].cases = cases
        /\ job'[j].program = p /\ job'[j].passedCount = passed1
        /\ job'[j].status = status1 /\ job'[j].upset = upset1 /\ m + 1 <= Len(cases)
    BY <1>3, <1>6, <1>9, <1>10, <2>0
  <2>7. Failed(j, m + 1)' = F1 /\ Own(p, cases) = Own(job'[j].program, job'[j].cases)
    BY <2>6 DEF Failed
  <2> HIDE DEF F1, n, p, cases
  <2> QED BY <2>5, <2>6, <2>7 DEF Tally
<1>12. job'[j].cases \in TestedCases(job[j].slug)'
  BY <1>1, <1>9, <1>10, TestedStay DEF JobOK
<1>13. JobOK(j)'
  BY <1>1, <1>9, <1>10, <1>11, <1>12 DEF JobOK, Taken, storeVars
<1> QED BY <1>1, <1>8, <1>9, <1>13, CacheKept, JobGoesOn

LEMMA RunOK ==
    ASSUME IInv, NEW j \in Jobs, Start(j) \/ run(j), UNCHANGED call
    PROVE  IInv'
<1>1. CASE LoadFails(j)
  BY <1>1, FailOK DEF LoadFails
<1> QED BY <1>1, StartOK, getTestCasesOK, downloadOK, writeFileOK, runTestCaseOK, FinishOK
        DEF run

LEMMA RestartOK ==
    ASSUME IInv, NEW w \in Workers, Restart(w), UNCHANGED call
    PROVE  IInv'
<1>1. /\ job \in [Jobs -> Job] /\ UNCHANGED <<storeVars, problems>>
      /\ cache \in [Workers -> [Slugs -> Seq(TestCases) \cup {NoObject}]]
  BY DEF Restart, IInv, TypeOK, JudgeTypeOK, storeVars
<1>2. ASSUME NEW j \in Jobs
      PROVE  \/ job'[j] = job[j]
             \/ job[j].pc # "idle" /\ job'[j] = Thrown(j)
  BY DEF Restart
<1>3. job' \in [Jobs -> Job]
  <2>1. ASSUME NEW j \in Jobs PROVE job'[j] \in Job
    BY <1>1, <1>2, ThrownOK
  <2>2. job' = [j \in Jobs |-> job'[j]]
    BY DEF Restart
  <2> QED BY <2>1, <2>2
<1>4. cache' \in [Workers -> [Slugs -> Seq(TestCases) \cup {NoObject}]]
  BY <1>1 DEF Restart
<1>5. /\ TypeOK' /\ Alone' /\ (\A c \in Calls : CallOK(c)')
      /\ \A s \in Slugs : /\ RowOK(s)' /\ ObjectOK(s)' /\ Taken(s)' = Taken(s)
                           /\ TestedCases(s) \subseteq TestedCases(s)'
  BY <1>1, <1>3, <1>4, StoreUndisturbed DEF TypeOK, JudgeTypeOK
<1>6. ASSUME NEW v \in Workers, NEW s \in Slugs PROVE CacheOK(v, s)'
  <2>1. CacheOK(v, s) /\ (cache'[v][s] = cache[v][s] \/ cache'[v][s] = NoObject)
    BY <1>1 DEF IInv, Restart
  <2> QED BY <1>1, <1>5, <2>1 DEF CacheOK
<1>7. ASSUME NEW j \in Jobs PROVE JobOK(j)'
  <2>1. CASE job'[j] = job[j]
    BY <1>1, <2>1, JobKept
  <2>2. CASE job[j].pc # "idle" /\ job'[j] = Thrown(j)
    <3>1. /\ job'[j].pc = "failed" /\ job'[j].slug = job[j].slug
          /\ job'[j].program = job[j].program
      BY <2>2, ThrownOK
    <3> QED BY <1>1, <2>2, <3>1, JobType DEF JobOK, Taken
  <2> QED BY <1>2, <2>1, <2>2
<1> QED BY <1>5, <1>6, <1>7 DEF IInv

-----------------------------------------------------------------------------
LEMMA InitOK == Init => IInv
<1> SUFFICES ASSUME Init PROVE IInv
  OBVIOUS
<1> USE DEF Init, StoreInit, CreateInit, JudgeInit
<1>1. <<>> \in Seq(TestCases) /\ <<>> \in Seq([id : TestCases, passed : BOOLEAN])
  BY EmptySeq
<1>2. NoJob \in Job
  BY <1>1 DEF NoJob, Job, Statuses
<1>3. TypeOK
  BY <1>2 DEF TypeOK, StoreTypeOK, CreateTypeOK, JudgeTypeOK, Call, NoCall
<1>4. \A c \in Calls : call[c].pc = "idle" /\ ~ Active(c) /\ ~ call[c].lost
  BY DEF Active, NoCall
<1>5. Alone /\ \A c \in Calls : CallOK(c)
  BY <1>4 DEF Alone, CallOK, LookedUp, Checked
<1>6. \A s \in Slugs : RowOK(s) /\ ObjectOK(s)
  BY DEF RowOK, ObjectOK, Taken
<1>7. \A w \in Workers, s \in Slugs : CacheOK(w, s)
  BY DEF CacheOK
<1>8. \A j \in Jobs : JobOK(j)
  BY DEF JobOK, NoJob
<1> QED BY <1>3, <1>5, <1>6, <1>7, <1>8 DEF IInv

LEMMA NextOK == IInv /\ [Next]_vars => IInv'
<1> SUFFICES ASSUME IInv, [Next]_vars PROVE IInv'
  OBVIOUS
<1>1. CASE Next
  BY <1>1, CreateOK, RunOK, RestartOK DEF Next
<1>2. CASE UNCHANGED vars
  <2>1. RowsKept /\ UNCHANGED <<storeVars, call, cache, job>>
    BY <1>2 DEF RowsKept, vars, storeVars
  <2>2. /\ TypeOK' /\ Alone' /\ CallsKept /\ (\A c \in Calls : CallOK(c)')
        /\ \A s \in Slugs : RowOK(s)' /\ ObjectOK(s)'
    BY <2>1, StoreUndisturbed DEF IInv, TypeOK, JudgeTypeOK
  <2> QED BY <2>1, <2>2, JudgesUndisturbed DEF IInv
<1> QED BY <1>1, <1>2

(* Every call, row, cache entry and job is as described above, through     *)
(* overlapping calls, faults of S3 and the database, lost answers and      *)
(* replaced workers.                                                       *)
THEOREM Invariance == Spec => []IInv
<1> QED BY InitOK, NextOK, PTL DEF Spec

(* The store, the calls and the jobs keep their types.                     *)
THEOREM ProblemTypes == Spec => []TypeOK
<1>1. IInv => TypeOK
  BY DEF IInv
<1> QED BY <1>1, Invariance, PTL

(* A problem whose calls do not overlap has the test cases in S3 its       *)
(* references were run against (server.js:65), unless the call that wrote  *)
(* its row lost the answer of its commit and cleaned up; what is in S3 for *)
(* any slug is what some valid call of it has tested.                      *)
THEOREM RowsHaveCases == Spec => []RowHasCases
<1>1. IInv => RowHasCases
  BY CallAssumption DEF IInv, RowOK, ObjectOK, RowHasCases
<1> QED BY <1>1, Invariance, PTL

(* No combination of languages that validates escapes the dry run          *)
(* (server.js:293).                                                        *)
THEOREM DryRunsBlock == Spec => []DryRunBlocksInstall
<1>1. IInv => DryRunBlocksInstall
  BY DEF IInv, RowOK, DryRunBlocksInstall
<1> QED BY <1>1, Invariance, PTL

(* What an agent is told is what happened, for every slug and however its  *)
(* calls overlap: success means the row is this call's with every tag, an  *)
(* error that it installed nothing, but for a commit that lost its answer. *)
THEOREM AnswersAreTrue == Spec => []AnswerIsTrue
<1>1. ASSUME IInv, NEW c \in Calls, call[c].pc = "done", call[c].answer = "error",
             ~ call[c].lost, Taken(Request(c).slug)
      PROVE  problems[Request(c).slug].by # c
  <2>1. RowOK(Request(c).slug)
    BY <1>1, CallAssumption DEF IInv, CallOK
  <2> QED BY <1>1, <2>1 DEF RowOK
<1>2. IInv => AnswerIsTrue
  BY <1>1 DEF IInv, CallOK, AnswerIsTrue
<1> QED BY <1>2, Invariance, PTL

(* A verdict counts every case once and takes its status from the first    *)
(* one that fails; where Docker and the host decided no run it is what the *)
(* program deserves (judge.js:97-98), whatever worker judges it, after     *)
(* whatever restarts and cache hits.  Its cases are tested ones, and where *)
(* the slug's calls do not overlap those of the row.                       *)
THEOREM VerdictsAreDeserved == Spec => []VerdictIsDeserved
<1>1. IInv => VerdictIsDeserved
  <2> SUFFICES ASSUME IInv, NEW j \in Jobs, job[j].pc = "done"
               PROVE  /\ Deserves(job[j])
                      /\ job[j].cases \in TestedCases(job[j].slug)
                      /\ job[j].slug \in Undisturbed =>
                            job[j].cases = problems[job[j].slug].cases
    BY DEF VerdictIsDeserved
  <2>1. /\ job[j] \in Job /\ JobOK(j) /\ Tally(j)
        /\ Len(job[j].results) = Len(job[j].cases)
    BY JobType DEF JobOK
  <2>2. job[j].cases \in Seq(TestCases)
    BY <2>1 DEF Job
  <2>3. Failed(j, Len(job[j].cases))
            = Failing(job[j].program, job[j].cases) \cup job[j].upset
    BY <2>2, LenProperties DEF FailingTo, Failing, Failed
  <2>4. Deserves(job[j])
    BY <2>1, <2>2, <2>3, LenProperties DEF Tally, Counts, Own, Deserves, Failing
  <2> QED BY <2>1, <2>4 DEF JobOK
<1> QED BY <1>1, Invariance, PTL
=============================================================================
