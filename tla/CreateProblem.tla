----------------------------- MODULE CreateProblem -----------------------------
(***************************************************************************)
(* The MCP tool create_problem: validate, look up slug, author and tags,   *)
(* dry-run the reference solutions, upload and verify the test cases,      *)
(* insert the row with its tags, clean up after a failed insert.  One      *)
(* action per await.  Calls come from one stdio server or from several.    *)
(*                                                                         *)
(* A request is a record                                                   *)
(*   malformed   the names of the fields that fail a check of their own,   *)
(*               a template or reference with a blank text among them      *)
(*   templates, drivers, references   the languages each object has a      *)
(*               non-blank text for                                        *)
(*   correct     the references that give the expected output in time      *)
(*   slug, cases, tags, author                                             *)
(***************************************************************************)
EXTENDS ProblemStore

CONSTANTS
    Requests,
    NoAuthor, NoRequest,
    Undisturbed,    \* the slugs whose calls never overlap
    Faults          \* "s3", "db", "commit", "kill"

ASSUME CallAssumption ==
    /\ \A r \in Requests : r.slug \in Slugs /\ r.cases \in Seq(TestCases)
    /\ NoRequest \notin Requests /\ Undisturbed \subseteq Slugs

VARIABLES call

SUPPORTED_LANGUAGES == {"python3", "javascript", "cpp", "java", "go"}
DRY_RUN_LANGUAGES   == {"javascript", "python3"}

-----------------------------------------------------------------------------
(* validate-problem.js.                                                    *)

FieldsValid(r) == r.malformed = {}

TestCasesValid(r) == r.cases # <<>>

CodeTemplatesValid(r) == r.templates # {} /\ r.templates \subseteq SUPPORTED_LANGUAGES

DriverCodeValid(r) ==
    /\ r.templates \cap SUPPORTED_LANGUAGES \subseteq r.drivers
    /\ r.drivers \subseteq SUPPORTED_LANGUAGES

\* Mutated form: a reference needs no driver of its language.
ReferencesValidAlone(r) ==
    /\ r.references \cap DRY_RUN_LANGUAGES # {}
    /\ r.references \subseteq SUPPORTED_LANGUAGES

ReferencesValid(r) ==
    /\ r.references \cap DRY_RUN_LANGUAGES # {}
    /\ r.references \subseteq SUPPORTED_LANGUAGES
    /\ r.references \cap DRY_RUN_LANGUAGES \subseteq r.drivers

validateCreateProblem(r) ==
    /\ FieldsValid(r) /\ TestCasesValid(r) /\ CodeTemplatesValid(r)
    /\ DriverCodeValid(r) /\ ReferencesValid(r)

langsToRun(r) == DRY_RUN_LANGUAGES \cap r.references \cap r.drivers

\* Of the languages run, those that pass every case: a reference that is not
\* correct never does, one that is may still run into the time limit.
dryRunReference(r) == SUBSET (langsToRun(r) \cap r.correct)
-----------------------------------------------------------------------------
Call == [pc : {"idle", "slug", "author", "tags", "dry_run", "upload", "verify",
               "discard", "insert", "rollback", "done"},
         request : Requests \cup {NoRequest},
         answer : {"none", "success", "error"},
         lost : BOOLEAN]            \* its commit lost its answer (history)

CreateTypeOK == call \in [Calls -> Call]

NoCall == [pc |-> "idle", request |-> NoRequest, answer |-> "none", lost |-> FALSE]

CreateInit == call = [c \in Calls |-> NoCall]

Request(c) == call[c].request
Active(c)  == call[c].pc \notin {"idle", "done"}

GoTo(c, pc) == call' = [call EXCEPT ![c].pc = pc]
Answer(c, answer) == call' = [call EXCEPT ![c].pc = "done", ![c].answer = answer]

Receive(c) ==
    /\ call[c].pc = "idle"
    /\ \E r \in Requests :
          /\ r.slug \in Undisturbed => \A d \in Calls : Active(d) => Request(d).slug # r.slug
          /\ call' = [call EXCEPT ![c] =
                 IF validateCreateProblem(r)
                 THEN [NoCall EXCEPT !.pc = "slug", !.request = r]
                 ELSE [NoCall EXCEPT !.pc = "done", !.request = r, !.answer = "error"]]
    /\ UNCHANGED storeVars

\* What follows the look-ups that are not needed is skipped.
AfterAuthor(r) == IF r.tags # {} THEN "tags" ELSE "dry_run"
AfterSlug(r) == IF r.author # NoAuthor THEN "author" ELSE AfterAuthor(r)

\* Mutated form: the insert is left to find out.
SelectSlugLater(c) ==
    /\ call[c].pc = "slug"
    /\ GoTo(c, AfterSlug(Request(c)))
    /\ UNCHANGED storeVars

SelectSlug(c) ==
    /\ call[c].pc = "slug"
    /\ IF Taken(Request(c).slug) THEN Answer(c, "error") ELSE GoTo(c, AfterSlug(Request(c)))
    /\ UNCHANGED storeVars

SelectAuthor(c) ==
    /\ call[c].pc = "author"
    /\ IF Request(c).author \in Authors THEN GoTo(c, AfterAuthor(Request(c)))
                                        ELSE Answer(c, "error")
    /\ UNCHANGED storeVars

SelectTags(c) ==
    /\ call[c].pc = "tags"
    /\ IF Request(c).tags \subseteq Tags THEN GoTo(c, "dry_run") ELSE Answer(c, "error")
    /\ UNCHANGED storeVars

dryRun(c) ==
    /\ call[c].pc = "dry_run"
    /\ \E passed \in dryRunReference(Request(c)) :
          IF passed = langsToRun(Request(c)) THEN GoTo(c, "upload") ELSE Answer(c, "error")
    /\ UNCHANGED storeVars

-----------------------------------------------------------------------------
(* uploadAndVerifyTestCases and deleteTestCases.                           *)

Put(c) ==
    /\ call[c].pc = "upload"
    /\ PutObject(Request(c).slug, Request(c).cases)
    /\ GoTo(c, "verify")
    /\ UNCHANGED problems

\* A put that reports an error may still have stored the object.
PutFails(c) ==
    /\ "s3" \in Faults
    /\ call[c].pc = "upload"
    /\ UNCHANGED objects \/ PutObject(Request(c).slug, Request(c).cases)
    /\ Answer(c, "error")
    /\ UNCHANGED problems

\* A get that fails, or finds no object, leaves whatever is there.
Get(c) ==
    /\ call[c].pc = "verify"
    /\ LET got == objects[Request(c).slug] IN
       IF got = Request(c).cases THEN GoTo(c, "insert")
       ELSE IF got # NoObject THEN GoTo(c, "discard")
       ELSE Answer(c, "error")
    /\ UNCHANGED storeVars

GetFails(c) ==
    /\ "s3" \in Faults
    /\ call[c].pc = "verify"
    /\ Answer(c, "error")
    /\ UNCHANGED storeVars

\* deleteTestCases, after a mismatch or a failed insert; its error is ignored.
Delete(c) ==
    /\ call[c].pc \in {"discard", "rollback"}
    /\ \/ DeleteObject(Request(c).slug)
       \/ "s3" \in Faults /\ UNCHANGED objects
    /\ Answer(c, "error")
    /\ UNCHANGED problems

-----------------------------------------------------------------------------
(* The transaction.                                                        *)

\* Mutated form: the tags are inserted one by one, and not all of them.
InsertSomeTags(c) ==
    /\ call[c].pc = "insert"
    /\ LET r == Request(c) IN
       IF Taken(r.slug) THEN GoTo(c, "rollback") /\ UNCHANGED problems
       ELSE /\ \E tags \in SUBSET r.tags : InsertProblem(c, r.slug, r.cases, tags)
            /\ Answer(c, "success")
    /\ UNCHANGED objects

Insert(c) ==
    /\ call[c].pc = "insert"
    /\ LET r == Request(c) IN
       IF Taken(r.slug) THEN GoTo(c, "rollback") /\ UNCHANGED problems
       ELSE InsertProblem(c, r.slug, r.cases, r.tags) /\ Answer(c, "success")
    /\ UNCHANGED objects

\* "commit": the transaction commits and its answer is lost.
InsertFails(c) ==
    /\ call[c].pc = "insert"
    /\ LET r == Request(c) IN
       \/ /\ "db" \in Faults
          /\ GoTo(c, "rollback")
          /\ UNCHANGED problems
       \/ /\ "commit" \in Faults /\ ~ Taken(r.slug)
          /\ InsertProblem(c, r.slug, r.cases, r.tags)
          /\ call' = [call EXCEPT ![c].pc = "rollback", ![c].lost = TRUE]
    /\ UNCHANGED objects

\* Any look-up may reject; nothing was written yet.
SelectFails(c) ==
    /\ "db" \in Faults
    /\ call[c].pc \in {"slug", "author", "tags"}
    /\ Answer(c, "error")
    /\ UNCHANGED storeVars

\* The server is stopped: nobody cleans up, nobody answers.
Killed(c) ==
    /\ "kill" \in Faults
    /\ Active(c)
    /\ GoTo(c, "done")
    /\ UNCHANGED storeVars

create_problem(c) ==
    \/ Receive(c) \/ SelectSlug(c) \/ SelectAuthor(c) \/ SelectTags(c) \/ SelectFails(c)
    \/ dryRun(c) \/ Put(c) \/ PutFails(c) \/ Get(c) \/ GetFails(c)
    \/ Insert(c) \/ InsertFails(c) \/ Delete(c) \/ Killed(c)

-----------------------------------------------------------------------------
\* What valid calls of the slug brought with references that pass it.
Passes(c, s) ==
    /\ call[c].pc # "idle" /\ Request(c).slug = s /\ validateCreateProblem(Request(c))
    /\ langsToRun(Request(c)) \subseteq Request(c).correct
TestedCases(s) == {Request(c).cases : c \in {c \in Calls : Passes(c, s)}}

(* server.js:65: the tool uploads the cases "and verifies the round-trip,  *)
(* then INSERTs".  Where calls of a slug do not overlap, a problem has the *)
(* test cases in S3 its references were run against; only the clean-up     *)
(* after a commit that lost its answer takes them away.  Where they do     *)
(* overlap, what is in S3 is at least what a call of the slug has tested.  *)
RowHasCases ==
    /\ \A s \in Undisturbed : Taken(s) =>
          \/ objects[s] = problems[s].cases
          \/ objects[s] = NoObject /\ call[problems[s].by].lost
    /\ \A s \in Slugs : objects[s] # NoObject => objects[s] \in TestedCases(s)

(* server.js:293: the dry run "blocks install on failure".  No combination *)
(* of languages that validates escapes it: a problem in the table had a    *)
(* reference run, and every reference that can run is correct.             *)
DryRunBlocksInstall ==
    \A s \in Slugs : Taken(s) =>
        LET r == Request(problems[s].by) IN
        /\ r.references \cap DRY_RUN_LANGUAGES # {}
        /\ r.references \cap DRY_RUN_LANGUAGES \subseteq r.correct

(* What the agent is told is what the table says, also when calls of a     *)
(* slug overlap: success means the row is this call's, with every tag; an  *)
(* error means that this call inserted no row, unless it is the commit     *)
(* itself that lost its answer.                                            *)
AnswerIsTrue ==
    \A c \in Calls : call[c].pc = "done" =>
        LET s == Request(c).slug IN
        /\ call[c].answer = "success" =>
              Taken(s) /\ problems[s].by = c /\ problems[s].tags = Request(c).tags
        /\ call[c].answer = "error" /\ ~ call[c].lost => ~ (Taken(s) /\ problems[s].by = c)
=============================================================================
