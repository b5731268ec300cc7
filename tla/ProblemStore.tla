----------------------------- MODULE ProblemStore -----------------------------
(***************************************************************************)
(* Where a problem lives: a row of problems and, in S3 under the key       *)
(* test-cases/<slug>/cases.json, its hidden test cases.  The row holds     *)
(* only the key, so nothing ties the two together but the order in which   *)
(* create_problem writes them and the judge reads them.                    *)
(*                                                                         *)
(* S3 is external: a put replaces the object, a get returns the last put,  *)
(* a delete of what is not there succeeds.                                 *)
(***************************************************************************)
EXTENDS Naturals, Sequences, FiniteSets

CONSTANTS
    Slugs,
    TestCases,      \* a test case: an input with its expected output
    Tags,           \* the slugs in the table tags
    Calls,          \* of create_problem
    Authors,        \* the users that are not deleted
    NoObject, NoProblem

VARIABLES
    objects,        \* S3, by slug
    problems        \* the rows, by slug

storeVars == <<objects, problems>>

\* by and cases: the call that inserted the row and what it dry-ran (history:
\* the row itself holds the key).
Problem == [by : Calls, cases : Seq(TestCases), tags : SUBSET Tags]

ASSUME StoreAssumption == NoObject \notin Seq(TestCases) /\ NoProblem \notin Problem

StoreTypeOK ==
    /\ objects \in [Slugs -> Seq(TestCases) \cup {NoObject}]
    /\ problems \in [Slugs -> Problem \cup {NoProblem}]

StoreInit ==
    /\ objects = [s \in Slugs |-> NoObject]
    /\ problems = [s \in Slugs |-> NoProblem]

PutObject(s, cases) == objects' = [objects EXCEPT ![s] = cases]
DeleteObject(s)     == objects' = [objects EXCEPT ![s] = NoObject]

\* schema.js: slug is unique.
Taken(s) == problems[s] # NoProblem

\* One transaction: the row and its tags.
InsertProblem(c, s, cases, tags) ==
    problems' = [problems EXCEPT ![s] = [by |-> c, cases |-> cases, tags |-> tags]]
=============================================================================
