# Verification of the judging system

A model of the path of a submission through this repository, from `POST
/submissions` to the stored verdict, the phone that watches for it and the
contest board it changes, and of the path of a problem, from the tool that
creates it to the worker that judges with its test cases, with the agents that
write problems; and the phone's session and cache next to the accounts. All of
it is checked with TLC. For any number of requests, workers, consumers, phones,
contest submissions and accounts TLAPS proves the safety properties of the
submission API, of the verdict pipeline, of the two together, with their
refinement of an abstract promise, of the delivery of a verdict to the phone, of
the contest's live board, its result and the board on the phones, of problem
creation and the judge, of the agent lab, and of the session.

## 1. The system

| component | state it keeps | operations | talks to |
|---|---|---|---|
| submission API (`backend/src/controllers/submission.controller.js`) | none of its own: rows of `submissions`, messages of the submission queue | `submitCode` (contest check, problem check, replay of a known key, insert, enqueue), `getSubmission` | Postgres, SQS |
| tables and trigger (`backend/src/db/schema.js`, `drizzle/0002_*.sql`) | `submissions`, counters on `problems`, `userProblemStatus` | the INSERT, the verdict UPDATE with `trg_submission_judged` | called by the API and the results consumer |
| queues (SQS, `backend/src/utils/sqs.js`, `judge-worker/queue.js`) | submission queue, result queue | send, receive, delete; visibility timeouts and deduplication windows | everyone |
| judge worker (`judge-worker/`) | up to `maxConcurrentJobs` jobs in memory, a cache of test cases | poll, `Judge.run`, publish the result, delete the message | both queues, S3 |
| results consumer (`results-consumer/main.js`) | a batch of up to 10 results in memory | read the row, UPDATE it, publish to Redis, score the contest, delete the message | result queue, Postgres, Redis |
| contest scoring (`results-consumer/updateContestScore.js`, `contestLifecycle.js`, `drizzle/0007_*.sql`) | Redis hashes and sorted set of a contest; `contest.status`, `contestParticipants` | score a verdict; the sweep that starts and finishes contests; the trigger that recomputes the final ranking | Redis, Postgres |
| contest API (`contest.controller.js`) | `contestParticipants` | register, read a contest, read the leaderboard | Postgres, Redis |
| websocket server (`ws-server/`) | handlers per Redis channel, Socket.IO rooms | watch a submission, watch a contest, the broadcast ticker | Postgres, Redis, clients |
| accounts (`auth.controller.js`, `utils/jwt.js`) | `users`; a token is a signature only | `signup`, `login`, `requireAuth` | Postgres |
| mobile client (`mobile/src`) | phase, result and error of each watcher hook; user and token, persisted; React Query's cache | log in, sign up, log out, register, submit with a fresh key, watch, reset | API, websocket server |
| problem creation (`db-explorer-mcp/`) | test-case files in S3, the `problems` row | `create_problem` (validate, dry run, upload, verify, insert, clean up) | S3, Postgres, local `node` and `python3` |
| agent lab (`backend/ai-lab/`) | the state of the agents' graph; one judge with its cache | draft, solve, attack, revise within a budget, insert; or draft and call `create_problem` | models, Postgres, MCP server, Docker or the host |
| search, recommendations | none | reads | Postgres |

What is hard here: the backend, the workers and the consumers share nothing
but Postgres, two queues that deliver at least once, and Redis. Each of their
handlers is a chain of awaits that may be cut anywhere by an error or a crash,
and every retry (of the client, of SQS) runs it again next to the first. What
each component owes:

- *submission API*: a key names one submission, forever and for its owner only;
  whoever is told "taken" gets a verdict in the end.
- *tables*: counters and `userProblemStatus` are what the rows say.
- *pipeline (worker, consumer, queues)*: no verdict lost, none replaced, none
  announced that is not stored, none counted or scored twice.
- *contest scoring*: the live board is what the verdicts say, and agrees with
  the final ranking.
- *websocket server and client*: a watcher is told its own verdict, once it exists.
- *accounts and session*: one account per email and name; a screen shows only what
  its own user's token fetched, and does not deny a registration it was told of.
- *problem creation*: a row exists only with its test cases in S3.
- *agent lab*: a problem is inserted only if its tests let the solver pass and
  stopped the adversary, within the budgets.

The full list of hazards, each with its line and the properties aimed at it, is
in `PROJECT.json`.

## 2. Modules

| module | models | extends / composes |
|---|---|---|
| `SqsQueue` | one SQS queue (external) as the services rely on it: at-least-once delivery, in-flight messages, FIFO groups, deduplication | |
| `SubmissionDb` | the tables and the trigger; each operator is one SQL statement | `SqsQueue` |
| `SubmissionQueue` | the queue the backend and the workers share | `SubmissionDb` |
| `SubmitHandler` | `submitCode`, one action per await, many requests at once | `SubmissionQueue` |
| `VerdictPipeline` | job slots of the judge workers, result queue, results consumers; a backend that inserts rows (`BackendInserts`) and sends the message of one it inserted, once or again (`BackendSends`) | `SubmissionQueue` |
| `SubmissionLifecycle` | the abstract promise: taken once, graded once, the board in step, watchers told the grade | |
| `SubmissionSystem` | handler and pipeline together: the handler takes the place of the pipeline's environment, the pipeline of the handler's | `VerdictPipeline`; `SubmitHandler` by `INSTANCE` |
| `ContestBoard` | the Redis keys of one contest; each operator is one MULTI block | |
| `ContestScore` | registration, `updateContestScore` call by call, the lifecycle sweep, the finalize trigger | `ContestBoard` |
| `VerdictDelivery` | publish, Redis channels, `watch:submission`, `useSubmissionWatcher` | |
| `ContestRoom` | `watch:contest`, the snapshot, the broadcast ticker with its dirty set, `useContestWatcher`, the rank the screen shows | `ContestBoard` |
| `ProblemStore` | a problem's row and its test cases in S3 (external) | |
| `CreateProblem` | `create_problem`: validation, look-ups, dry run, upload, verification, insert, clean-up, one action per await | `ProblemStore` |
| `JudgeRun` | `Judge.run`: the cache of test cases, the runs, the verdict they add up to | `ProblemStore` |
| `ProblemSystem` | both, sharing S3 and the table | `CreateProblem`, `JudgeRun` |
| `AgentLab` | the graph of architect, solver and adversary, and the installer | |
| `AppSession` | sign-up and login, the store, the interceptor, the queries of `/me/contests` and the registration that makes them stale | |
| `ServiceProofs` | what the queue and table operators preserve | `SqsQueue`, `SubmissionDb` |
| `SubmitHandlerProofs`, `VerdictDeliveryProofs`, `ProblemSystemProofs`, `AgentLabProofs`, `AppSessionProofs` | the invariants of these modules | each its module |
| `ContestScoreProofs` | the invariants of `ContestScore` and of `ContestRoom`, and how the two fit | `ContestScore`; `ContestRoom` by `INSTANCE` |
| `SubmissionSystemProofs` | the invariants of the pipeline, that it implements `SubmissionLifecycle`, what that promise gives, that the system is the pipeline and keeps what it accepted, and the handler's promises in it | `SubmissionSystem`, `ServiceProofs` |
| `MC...` | small instances for TLC | |

**State and code.** A row is a record with the user, problem, contest, key,
fingerprint (`hash`) and status; language and code are one value. `NOW()` in the
trigger is the submission that was being judged. A queue is a record of stored
messages, the numbers of those in flight, and the deduplication ids SQS
remembers. `SubmitHandler` keeps for each request where it waits (`pc`), the
submission it inserted or found (`sid`), the status it read with it (`seen`) and
its answer. A worker slot keeps the message it received and its verdict; a
consumer keeps the rest of its batch and the message it handles. `announced` and
`scored` record what a consumer published and how often it called
`updateContestScore`.

In the contest modules a user's hash is a record (`status`, `fails`,
`solvedCount`, `totalPenaltySeconds`), the sorted set a function from users to
scores. `ContestScore` numbers the rows in the order of `createdAt`; times are
the slots `"before"`, `"open"`, `"over"` of `clock`; `upsets` remembers whether
results of a user were handled out of order (`"order"`), two of them at the same
time by two consumers (`"race"`), or a call failed (`"fault"`), for what holds
only otherwise. `VerdictDelivery` keeps the
two directions of the ws-server's Redis connection as FIFO sequences
(`commands`, `messages`), the callbacks as `handlers`, and for each connection
where its handler waits; a phone opens a new connection for each watch, so
connections number the watches. `ContestRoom` keeps for each tick and each
snapshot which call it waits for and what it has read; two ticks stand for
`setInterval` firing again while a tick is under way. A user's place in the
sorted set is one more than the number of those ahead (`Ahead`).

In the problem modules a request of `create_problem` is a record of what the
validation and the dry run tell apart: the languages of its templates, drivers
and references, which references are correct, its test cases, tags and author;
the fields checked one by one are the set `malformed`. `objects` is S3 by slug
and `problems` the table by slug; a row remembers the call that inserted it and
the cases it dry-ran, which the code does not store. A call whose commit
succeeded and lost its answer is marked `lost`. `cache` is the map of each
worker's `Judge`, `job` a run of it; `WorkerOf` says which jobs share a worker,
and so a cache. A program is the function from test cases
to what its container does; `upset` of a job are the runs that Docker or a slow
host decided otherwise. `Undisturbed` names the slugs whose calls never
overlap: the code checks the slug long before it inserts, and only on those
slugs are the cases in S3, and those a worker judges with, the ones of the row.
On the others the files are at least some that a call of the slug has tested,
and everything else the properties say holds of every slug.

`AgentLab` is one process: `pc` starts in the graph or in the installer. A draft
is known by its title and by what its test cases can tell apart; `drafts` keeps
all of a run, the lab's state being the last one. `cache` is the map of the
lab's one `Judge`, by title. With `"judge"` in `Faults` a run may end in another
way than the program deserves: the container that cannot start, the one that
starts too late, the slow host. The adversary takes whatever is not ACCEPTED
for "not broken" (`adversary.js:93`), so such a run may approve a draft;
`spoiled` remembers that the attack was decided that way. Feedback is left out:
the next draft may be anything.

`AppSession` is one phone. `attempt` holds each call of `handleLogin` and
`handleSignup` with what was typed; both screens of `AuthStack` may have one
under way. A token is named by the attempt that brought it, and `expired` holds
those whose seven days are over. A request carries the token the store held when
it was sent; `live` says that the query cache still waits for it, since
`clear()` forgets fetches and aborts none. `cache` is the answer under each key
with the user it is about, and whether `staleTime` calls it fresh. React Query
is external, modelled as `queryClient.js` configures it. Three variables are
history: `confirmed`, the users whose registration the phone was told of,
`overtaken`, a login answer replaced a session that had not ended, and `missed`,
the keys whose fetch outlived an invalidation.

**Granularity.** A database statement, a Redis call and a queue call are atomic;
everything between two awaits is local. An await that rejects is an action of
its own (`...Fails`), guarded by a name in `Faults`, and where the callee may
have done its work before the error (a send, an UPDATE) both outcomes are
possible. `CrashWorker` and `CrashConsumer` lose the memory of a process at any
step. A message reappears whenever its visibility timeout may end: for
submissions at any time, since nothing bounds a job's time against the
120 seconds; for results only once no live consumer handles it, which is the
assumption of `judge-worker/main.js:32-35`, or at any time with
`"slow_consumer"` in `Faults`.

**Mutated forms.** Operators named after a mapped definition with a suffix
(`CheckRowNoGuard`, `InsertNoIndex`) are wrong variants of it. No specification
uses them; they document which bug each property would catch.

## 3. Runs

Bounds: `MaxSends` bounds how many messages a queue stores in a behaviour; the
guard of `Forget` keeps room for one message of every id outside its window, so
the bound never makes a send impossible in a FIFO queue. Two submissions of one
user, with three sends so that a window can end (`verdict_pipeline`), are what
the races of the pipeline on FIFO queues need: a result is delivered again only
after its consumer is gone. There is one consumer in this run: two of them
multiply its states until it takes five minutes (1.7 million states, no error);
that a second consumer between the read and the UPDATE breaks
nothing is what the theorems `CountedOnce`, `FirstSolvesStand`, `ScoredOnce` and
`Refinement` of section 4 say of any number. Three requests are a first attempt,
a retry, and a request of another kind or user. `MaxRows` bounds the submissions of a contest
and its ids, `MaxConns` the connections ever opened, `MaxPublish` how often one
verdict is published (twice: an announcement and the one of a redelivery),
`MaxFails` the rejections a user collects before a solve; a top of one user
(`TopN`) with two users is the smallest board with somebody outside it.
In `app_session` two names and two emails in every pairing let accounts clash by
either; two attempts race, overtake one another or follow a logout, and two
requests are a fetch with a registration, or an old session's with a new one's.
In `problem_system` two calls, two slugs (one undisturbed), one worker with
two jobs and two test cases are the smallest instance in which a call meets
what another one left, a job judges while a call is cleaning up, judges
from the list the other job has cached, of this slug or not, both miss and
download, and a program fails twice in different ways, by itself or because
Docker did not start it; the twelve requests pass or fail each check alone.
In `contest_score` two consumers and three rows of one problem let two accepted
submissions of one user be scored at the same time, and a user be rejected
before a solve while another one solves. With two problems and two consumers
the run does not end in five minutes; how counts and penalties of several
problems add up and rank is covered by the theorems, for any number. In `agent_lab`
the budgets are the code's, and two titles make a revision keep or change its
title.
Deadlock is not checked: a system whose requests are answered and whose
queues are empty has nothing left to do.

| run | question |
|---|---|
| `submit_handler` | Do racing retries, key reuse, another user's same key and lost sends keep a key one submission, answers honest, and taken submissions queued? |
| `verdict_pipeline` | Two submissions of one user, FIFO queues, one consumer, crashes and a failure of every call to SQS, the database and Redis, windows that end: no verdict lost, counted or scored twice, `userProblemStatus` matches the rows, a first solve keeps its time, and the abstract lifecycle is implemented: graded once, counters in step, clients told the grade. |
| `pipeline_skipped` (violation) | Was a skipped result really processed? Not when its consumer died after the UPDATE: no announcement, no score. |
| `submission_system` | Backend and pipeline together: the lifecycle is implemented with the backend's retries, and a taken submission is judged in the end, although sends of the backend, runs of the judge and calls to the database and Redis fail (no crashes, and no failing send or delete of the workers: these are in `verdict_pipeline`). |
| `contest_score` | Two consumers that may score one user at once, results in any order, calls that fail, a consumer that dies, late registrations: does the board credit no more solved problems than were accepted, and each once if nobody races; is the sorted set never ahead of the hash; does the board agree with the trigger as long as nothing was upset; is the result recorded once? |
| `contest_standings` (violation) | Does the final leaderboard list who solved more first? Not before the users who solved nothing: they keep rank 0. |
| `verdict_delivery` | Do watches that come and go share one subscription that lasts while somebody listens? Is each that starts in time answered in the end, and is what a phone shows its own, stored verdict? Is a phone that goes away forgotten? |
| `delivery_race` (violation) | Is each waiting phone told? Not when the verdict is published between the read and the SUBSCRIBE. |
| `contest_room` | Overlapping ticks, snapshots and scores, any of which may fail: is a board that is dirty shown in the end, and does the screen's own rank then agree with it? |
| `problem_system` | After failures and deaths at any await, with calls that overlap on one slug, two jobs that share a cache, and a Docker that may fail any run: does a problem have the cases its references passed, is the caller told what happened, does no combination of languages escape the dry run, and is a verdict what the program deserves on tested cases, but for the runs Docker decided? |
| `agent_lab` | Whatever the models write, and with runs that end for reasons of their own: is what the lab approves solved, and attacked unless the attack was spoiled, with cases of its own title, is the exit code true, was every revision tried before it gives up, does the installer install one problem and close its server, do both programs end? |
| `app_session` | Racing sign-ups, calls given up, tokens that expire, answers that outlive their session, restarts: are accounts distinct, does a screen show its own user's data only, and is a confirmed registration not denied by data that passes for fresh? |

**Fairness** (`FairSpec`). Poll loops are infinite loops that back off and
continue after an error, and a visibility timeout always ends. So each step of a
slot or consumer is strongly fair where a failure may disable it again and again
(an error that repeats for ever is ruled out, as is a worker that crashes every
time), weakly fair where nothing else can happen. No failure, no deduplication
window, no client and no step of the backend is assumed to happen. In
`VerdictDelivery` Redis, the ws-server and a phone that has received an event are weakly fair;
users, networks and the results consumer are not (a promise about a watch is
conditional on the publication); a disconnect is noticed in the end, as the
ping timeout of Socket.IO ensures. `AgentLab` is weakly fair as a whole: a call
of a model and a judged program have time limits. `ContestScore` and
`AppSession` assume no fairness: their properties are safety. In `ContestRoom`
the interval fires for ever;
the steps of a tick are strongly fair because a tick may fail again and again,
but not for ever.

## 4. Proofs

All theorems hold for every value of the constants, but for what a line says.

**The submission API** (`SubmitHandlerProofs`), for any number of requests,
users and submissions, any `Faults`, retries at any time, on a FIFO or a
standard queue:

- `HandlerTypes`: `TypeOK`.
- `KeyNamesOne`: a user's key names one submission (`OneSubmissionPerKey`).
- `AnswersOwn`: a 2xx names a row of the caller with the caller's fingerprint
  (`AnswerIsOwnSubmission`).
- `AcceptedAreQueued`: an accepted submission is queued or final.

The last is not inductive: a send may be swallowed, so an id in the deduplication
window must be *safe*, that is queued or final (`QueueOK`); a message must be of
an existing row; and a request on its way to the queue must hold its own row
(`RequestOK`), whose hash matches problem and contest (`RowOK`).

**The pipeline** (`SubmissionSystemProofs`, part 1), for any number of submissions, slots
and consumers, any batch size, any `Faults`, FIFO or not:

- `TypeCorrect`: `Spec => []TypeOK`.
- `VerdictsAreKept`: `Spec => NoVerdictLost`. No step leaves a submission
  without message and without verdict if it had a message before.

`NoVerdictLost` is not inductive. A slot deletes by message number, so the
number must still name the message the slot received (`Numbered`, `WorkerOK`);
it deletes after sending a result, and the send may have been swallowed, so an
id still in the deduplication window must mean that the first result is queued
or stored (`QueuesOK`); a consumer deletes a result only with a stored verdict
(`ConsumerOK`). `IInv` is the conjunction. Each step is shown to keep `StepOK`,
a summary of what it owes to the others (rows grow, numbers only grow, reports
end in verdicts), so that the part of the invariant of every process that did
not move follows once and for all (`WorkerKept`, `ConsumerKept`).

**The pipeline implements the lifecycle** (part 2):

- `CountedOnce`: `totalSubmissions` is the number of judged rows, with any
  queues and any `Faults`: the trigger fires once per row, whoever races.
- `FirstSolvesStand` (`FirstSolveStands`): `solvedAt` is set by the first accepted
  verdict of a user on a problem, when it was still empty, and never changes
  after, with any queues, consumers and `Faults`.

and, assuming `NoRace` (FIFO queues and no `"slow_consumer"`):

- `ScoredOnce`: no submission is scored twice.
- `ProgressIsTrue`: `userProblemStatus` is what the rows say.
- `Refinement`: every step is a step of the lifecycle's ledger or a stutter.

`NoRace` enters in one place, `Exclusive`: the results consumers hold are
hidden, and no two consumers hold results of one submission, since a FIFO queue
gives out no message of a group that has one in flight. From it follows
`HandlerOK`, that the status a consumer read is still the status: between the
read and the UPDATE nobody else stores a verdict. `RowOK` says what a row's
status lets `announced` and `scored` be, and `TotalsMatchRows` and
`ProgressMatchesRows` relate the counters; `RInv` is the conjunction, with `IInv`.

**The system** (part 4), handler and pipeline together, for any
number of requests, slots and consumers, any queues and any `Faults`:

- `SystemIsPipeline`: `SystemSpec => Spec`. Each step of the handler inserts a
  row, sends the message of an existing one, or leaves the pipeline alone, so
  whatever is proved of the pipeline holds of the system.
- `AcceptedAreKept`: an accepted submission is queued, has a result on its way,
  or is final (`AcceptedIsKept`).
- `SystemCountsOnce`, `SystemLosesNoVerdict`: `JudgedCountedOnce` and
  `NoVerdictLost` for the system; and, assuming `NoRace`,
- `SystemRefinement`: the system implements the lifecycle, and so, by two
  lemmas about the lifecycle (part 3), `SystemGradesAreFinal` and
  `SystemTellsTheGrade`: no verdict is replaced, and a client was told nothing
  but the row's.

`AcceptedIsKept` needs of the handler that a request on its way to the queue
holds an existing row and that no row is RUNNING (else a retry would be told of
it without being enqueued), and of the queue that an id in its deduplication
window is kept: a swallowed send leaves nothing behind. `SystemInv` adds both to
the pipeline's `IInv`; that what is kept stays kept follows from `StepOK`.

**The handler's promises in the system** (part 5). `SubmitHandlerProofs` shows
them with a judge that stores the verdict and deletes the message in one step.
The real pipeline stores verdicts at any time, and here it is the one next to
the handler, with any queues and any `Faults`:

- `SystemKeyNamesOne` (`OneSubmissionPerKey`), `SystemAnswersOwn`
  (`AnswerIsOwnSubmission`);
- `SystemRepliesStand`, assuming `NoRace`: a retry that was answered with a
  verdict (`submission.controller.js:150-154`) was told the one that stays.

`RequestInv` says that the row a request holds is the one it would insert but for
the status (`OwnRow`), and that a row's hash gives away its problem and contest
(`KeyedRow`): no step of the pipeline changes more of a row than its status
(`Untouched`) or adds one (`NoneNew`). The last theorem adds that graded rows
stay, which is the refinement's.

**The lifecycle** (part 3). What a client may conclude from the promise, for any
number of submissions and problems and any verdicts: a stored verdict is never
replaced (lemma `GradesAreFinal`), and a client was told nothing but the verdict
the row has (lemma `WatchersKnowTheGrade`, by the invariant `ToldTheGrade`). They
say nothing of the code by themselves; they serve the two theorems above, which
do.

**The delivery** (`VerdictDeliveryProofs`), for any number of phones, users,
submissions and connections, any publications and any `Faults`:

- `TypeCorrect`: `TypeOK`.
- `SubscriptionsMatch`: the channel Redis will serve is one somebody listens to
  (`SubscriptionMatchesHandlers`).
- `ShownVerdictsAreTrue`: a phone shows its own, stored verdict (`ShownIsTrue`).

A verdict reaches the screen from the row or from Redis, through an inbox, and
each of them may be old: so `MessagesOK` says that a message still is what the
row says (a stored verdict stays, `RowKept`), `ConnOK` that a handler past its
SELECT has read "open" or today's row, that only owners are registered and that
what an inbox holds is for the owner of its connection's submission, and
`DeviceOK` ties a phone to its connection. `Watched` follows the commands on
their way: the last one that names a channel decides (`ServedAppend`,
`ServedTail`).

**The session** (`AppSessionProofs`), for any accounts, attempts and requests:

- `SessionTypes`: `TypeOK`.
- `DistinctAccounts`, `OwnCache`, `SeenRegistration`: the three properties of
  the run.

The cache is filled by answers, answers by requests, so `IInv` says of each
request that a fetch the cache waits for carries the session's user, that an
answer is about its token's user, and that one to a fetch the cache waits for
shows every registration confirmed (`RequestOK`); that the users confirmed are
registered; and of each attempt that a granted one is an account (`AttemptOK`).

**The contest** (`ContestScoreProofs`), for any number of users, problems,
consumers and submissions, any `Faults`, verdicts in any order:

- `ScoreTypes`: `TypeOK`. `ResultIsKept`: `ResultStands`.
- `CreditsAreBacked`: the first part of `LiveIsBacked`. Whatever fails
  and however many consumers score one user at once, an AC has an accepted row
  and no failure is counted that no row has.
- `SolvedCountBounds` (`SolvedCountIsBounded`): under the same conditions
  `solvedCount` is at least the number of solved problems and at most the number
  of the user's accepted submissions, so the race of section 5 counts a problem
  again only for another accepted submission; without a race it is the number of
  solved problems.
- `BoardShowsStats` (`BoardMatchesStats`): the sorted set is never ahead of the
  hash; and it shows what the hash says, unless a score is on its way, until a
  call fails or two results of a user are handled at once.
- `LiveBoardIsBacked` (`LiveIsBacked`): the penalties are backed, too, until two
  results of a user are handled at once.
- `LiveBoardIsFinal` (`LiveMatchesFinal`): once all is scored, without a failed
  call or a race, the trigger of `0007_*.sql` counts the problems the live board
  counts, in whatever order the verdicts came; where they came in order it
  computes the same penalties and the same order of the users, if
  `PENALTY_PER_WRONG * MaxRows < SOLVED_SCORE_WEIGHT`.
- `LiveRankIsFinal`: under the same bound and conditions the rank the
  trigger stores is at most the live rank of `ZREVRANK`, and equal for a user
  whom nobody ties with: `RANK()` shares a place where the sorted set orders by
  user.

None of them assumes how many consumers there are. Results are grouped by
submission (`judge-worker/queue.js:118-121`), so two consumers may hold results
of one user; a behaviour in which they do is in the theorems, and what they
then still promise is what they say without a condition on `"race"`. With one
consumer process there is never a race (lemma `OneConsumer`), and all of it
holds as long as no call fails. The bound on `MaxRows` is
33 333 submissions in one contest: a score is `solved * 10 000 000 - penalty`, so
with more wrong submissions than that the order could come out wrong. The
rows of a user's failures on different problems are disjoint, so their number
bounds the penalty (`PenaltyBound`).

None of these is inductive. *Credits*: `Backed` compares the hash with the rows
*counted so far*, those whose consumer is through with the hash or gone
(`Counted`), and each consumer works on a row of its own (`JobInv`), so a block
adds one row to what is counted when it adds one to the hash. The bound is
counted the same way (`TallyInv`): the block that increments `solvedCount` also
moves its row into `ScoredOf`, whatever it has read. *Ahead*: `AheadInv` says
of each score on its way, and on the board, that the hash counts at least as
many problems; `solvedCount` only grows (`SolvedGrows`). *Score*: `RaceInv` says
that as long as there was no race no two consumers have results of one user
(`Serial`) and `SerialInv` holds:
that the hash is consistent in itself (`StatOK`: the count is the number of
solved problems, the penalty is that of the failures on them), that what a consumer
read before still holds when it writes (`ReadingOK`), and that the board shows
the hash unless a score is on its way or a call failed (`ShownOK`). *Result*:
`ReachedInv` adds, while no call failed, that every accepted row that was scored
is a solved problem, which gives the counts in any order; and `OrderInv`, while
nothing was upset, that the verdicts of a user came in order (`InOrder`), that a
consumer has the user's last one (`LastOfUser`), and that the failures in the hash are
those before the first accepted row among the counted ones (`Agrees`); once all
is scored these are the sets the trigger's common table expressions select.

The sums (`MapThenSumSet`, a fold over a set) are reasoned about through a smallest
subset for which a claim fails (`SmallestSubset`), which needs no induction
rule: that such a fold exists and what it does with one member more
(`FoldExists`, `SumFirst`, `SumRemove`, `SumAdd`), sums over a part (`SumSubset`), of
multiples (`SumTimes`) and of the sizes of disjoint sets (`SumCards`).

**The board on the phones** (`ContestScoreProofs`, second half), for any number of
users, phones and overlapping ticks, any `TopN` and any `Faults`, assuming
`RoomAssumption`:

- `RoomTypes`: `ContestRoom`'s `TypeOK`.
- `RoomShowsWhatCounts`: a phone shows at most `TopN` users, each once, each with
  at least one solved problem and with no more solved and no more penalty than
  the hash of that user holds now; a rank it was sent is one a user can have.
- `RoomPlaceIsRank`: where the phone shows the current board and was sent no rank,
  the place in the list (`effectiveRank`) is the rank Redis gives.
- `ScoreIsRoomsConsumer`: with one consumer and no failed call `ContestScore`
  implements `ContestRoom` with nobody in the room, so the consumer `ContestRoom`
  has is no freer than the contest needs.

A tick reads the sorted set in one call and the hashes in the next, and a score
may change between them; so what a tick, a snapshot or a phone holds is compared
with the hash of *now*, which only grows (`GoodBoard`, `Grown`). Two invariants
make this inductive (`RoomInv`): `ScorerInv`, that the sorted set shows the
hash unless a score is on its way, and that whoever is in it has solved
something; and `PhonesInv`, that each sender at each of its labels, and each
phone, holds a board of that kind. That counting who is ahead numbers the board from 1
without gaps or repetition is proved of any finite, totally ordered set
(`CountsOrder`): the places are an injection into `1..n`, so all of it.

**Problem creation and the judge** (`ProblemSystemProofs`), for any number of calls,
slugs, workers and jobs, any requests, programs and `Faults`:

- `ProblemTypes`: `TypeOK`.
- `RowsHaveCases` (`RowHasCases`): on a slug whose calls do not overlap the
  object in S3 is the one the row was created with, unless the call that wrote
  the row lost the answer of its commit; on every slug what is in S3 was tested by
  a call of the slug.
- `DryRunsBlock` (`DryRunBlocksInstall`), on every slug.
- `AnswersAreTrue` (`AnswerIsTrue`), on every slug, overlapping calls included:
  the unique slug decides which of two inserts wins. Excepted is the error
  answered to the call whose commit succeeded and lost its answer.
- `VerdictsAreDeserved` (`VerdictIsDeserved`), on every slug, whatever Docker
  does: every case is counted, the first failure decides, and only a run that
  Docker or the host decided differs from what the program does. The list is
  one that a call of the slug has tested; where calls do not overlap it is the
  row's.

The invariant follows a call through its awaits: what it has validated, looked up,
dry-run and uploaded at each (`CallOK`), that of two calls under way on an
undisturbed slug there is only one (`Alone`), that a row is what its call was asked
for and, on an undisturbed slug, its object is there (`RowOK`); and from the store
to the verdict: what is in S3 and in a worker's cache was tested by a call of the
slug (`ObjectOK`, `CacheOK`) and, on an undisturbed one, is what the row was created with; and a
job's results so far add up to the status it would answer now (`JobOK`, `Tally`),
where a run that Docker decided counts as the failure it was taken for.

**The agent lab** (`AgentLabProofs`), for any set of drafts, answers of the models
and failures:

- `LabTypes`: `TypeOK`, with the budgets of revisions and attempts.
- `ApprovedAreTested` (`ApprovedIsTested`), `ExitsAreTrue` (`ExitIsTrue`),
  `InstallsAreClean` (`InstallIsClean`).

An approved draft was judged twice, some steps before it is inserted, and perhaps
with cases the judge had kept (`DecidingCases`). So the invariant says what the
solver's and the adversary's runs established of these cases at each node
(`Solved`; `Withstood`, unless the attack was `spoiled`), that whatever the
judge has kept came from a draft of that title (`CacheOK`), that drafts and revisions
keep step (`LabOK`), and that an attempt of the installer installs one row at most
(`ToolOK`).

`ServiceProofs` holds the facts the submission proofs cite: what
a send, receive, delete, reappearance and forgetting preserve, and what the
INSERT and the UPDATE with its trigger preserve.

Assumptions: those named in the modules (`QueueAssumption`, `DbAssumption`,
`NoRowAssumption`, `HandlerAssumption`, `PipelineAssumption`, `SystemAssumption`,
`DeliveryAssumption`, `SessionAssumption`, `BoardAssumption`, `ScoreAssumption`,
`RoomAssumption`, `StoreAssumption`, `CallAssumption`, `JudgeAssumption`, `LabAssumption`, those of
the lifecycle): the null values are no members of their sets, verdicts are no
open statuses, new rows are PENDING, the pipeline's backend may insert whatever
row the handler does, the users and problems of a contest are finite sets, the users
numbers (Redis breaks ties by member), and
requests and drafts are of the form their fields say.

Model-checked only:

- everything under fairness, which is out of this prover's reach
  (`AcceptedIsJudged`, `GoneIsReleased`, `InTimeIsTold`, `DirtyBoardIsShown`,
  `Ends`).

Neither checked nor proved is how far the sorted set lags behind the hash, and
the penalty runs ahead of the failures, once several consumers have scored one
user at once; only the bounds above hold then.

## 5. Not modelled, and not kept as a run

Dead-letter queues (the README only advises one); messages that do not parse;
the throw for a missing row (rows are never deleted); legacy rows without a
fingerprint; changes of a contest or a problem while it is used, except the
contest's window. `RUNNING` is a legal status that no code writes. Of the
contest modules: the expiry of the Redis keys, usernames, several ws-server
processes that share one dirty set, the resubscription of a Redis connection
that was lost. Of the problem modules: the
text of driver and solution, memory and time figures are not; nor are the
lab's prompts and feedback, and
the container that goes on running after `docker run` was killed at its limit.
`JudgeRun` and `VerdictPipeline` are not composed: the pipeline takes any
verdict. That a contest is swept in the end is the interval timer's doing
(`contestLifecycle.js:23`): a sweep is one UPDATE per transition, enabled by the
clock alone, and no property says that it comes.

Of accounts and phone: passwords and their rules, roles (the API only reads
them), `isDeleted` (nothing sets it), the other screens' queries, which no step
of the phone invalidates. Search and recommendations (`parseSearchQuery.js`,
`problemSearch.js`, the lists of `me.controller.js`) are reads: SQL built from a
query string, cached by nobody and followed by no write; their correctness is
that of one SELECT, which has no steps to interleave. The scripts and seeds
(`backend/scripts`, `backend/seed.*`) are run by hand against an idle
system and are a load generator and fixtures.

Behaviours met while modelling that contradict a comment, each shown by TLC in a
few steps under the configuration named, beside those that are runs:

- `submission.controller.js:190-192`: a submission is "enqueued exactly once". A
  retry that reads PENDING enqueues it as well (:147); a second message is stored
  once the window has ended (`submit_handler` with `"enqueue"` faults).
- `submission.controller.js:158`: an accepted key is answered with the original.
  The contest window is checked first (:78-83), so a retry after the end gets 403.
- `judge-worker/main.js:37`: "The result consumer is idempotent." Two consumers
  that both read PENDING both score (`verdict_pipeline` with `Fifo = FALSE`,
  `"slow_consumer"`, two consumers and `ScoredAtMostOnce`); on standard queues the
  second verdict also replaces the first, and `userProblemStatus` follows neither (`ProgressMatchesRows`).
- `updateContestScore.js:68`: "First-AC only." Two consumers with two accepted
  submissions of one problem both read the status before either sets it
  (`contest_score` with `SolvedCountIsBounded` without its `"race"`). The second
  score then adds the penalty again, and an older score may be written last.
- `0007_contest_finalize_trigger.sql:7-9`: the result comes from the "durable
  source of truth". A verdict stored after the flip is never in it.
- `0007_contest_finalize_trigger.sql:13-15`: the penalty "Matches the live
  formula ... exactly". Not when results are handled in another order than they
  were submitted (`contest_score` with the penalties of `LiveMatchesFinal` without
  `upsets = {}`).
- `ws-server/main.js:116-117`: clean-up "if the client disconnects early". A
  client gone before :122 leaves its callback.
- `db-explorer-mcp/server.js:383`: "Roll back orphaned S3 object if DB insert
  fails". Two overlapping calls of one slug share the object: the loser's
  clean-up deletes the winner's, or its upload has replaced it. The same clean-up
  runs after a commit whose answer was lost (`problem_system` with every slug in
  the first quantifier of `RowHasCases`, or without its `lost`).
- `judge-worker/judge.js:96-98`: `run` throws for infrastructure failures, and a
  resolved result "is a legitimate verdict". A container that Docker cannot
  start resolves as RUNTIME_ERROR (:227-239), one it starts too late as
  TIME_LIMIT_EXCEEDED (`problem_system`, whose `VerdictIsDeserved` excepts these
  runs by `upset`).
- `TESTING_GUIDE.md:72-73`: the snapshot is "followed by ticked updates". The
  dirty set is deleted (`contestRoom.js:112`) after the board was read (:93), so
  a score in between is announced by no tick.
- `TESTING_GUIDE.md:156-157`: the lab's problem is approved "once the Adversary
  fails to break it". An attack that nobody ran approves it as well: the adversary
  takes every status but ACCEPTED for "not broken" (`adversary.js:93`), also that
  of a container Docker could not start. And the judge keeps the first test cases
  it saw of a title, so a revision with the same title is approved on the cases it
  was to replace, when Docker is there (`agent_lab` with `ApprovedIsTested` without
  `spoiled`, or without `Retitled`).
- `axiosInstance.js:21`: "On 401 — log the user out". A 401 for the token of an
  ended session logs out whoever is logged in by then (`Deliver401`). And a
  second login answer replaces a session in use (`LoginScreen.js:30`) without the
  clear of :27 (`app_session` with `CacheIsOwn` without `overtaken`).
- `TESTING_GUIDE.md:187-189`: the contest lists "reflect what you just did". A first
  fetch that was sent before the registration and is answered after it is not
  cancelled by the invalidation, and passes for fresh for five minutes
  (`app_session` with `RegistrationIsSeen` without `missed`).

Read, not run: the loser of two racing sign-ups is answered 500, not the 409 of
`auth.controller.js:17-23`. A solve invalidates no query, so the lists of solved
problems that `TESTING_GUIDE.md:187-189` speaks of may be five minutes old.
`SubmitScreen.js:96-97` speaks of "automatic retries" of a submission; React
Query retries no mutation unless told to. `ContestDetailScreen.js:78` prefers
the rank it was sent, which is never cleared: a user who climbs into the top
keeps the old one until the next. `TESTING_GUIDE.md:141` calls an installed problem "immediately
playable", but `sanitizeProblemDraft` makes every draft PRIVATE, and a submission
to a private problem is answered 403.

## 6. What is left

1. `JudgeRun` composed with `VerdictPipeline`, so that the verdict stored is the
   one `VerdictIsDeserved` speaks of.
2. How far the board lags and the penalty of `LiveIsBacked` drifts when two
   consumers score one user at once, as an invariant with what each has read;
   `SolvedCountBounds` and `BoardShowsStats` do it for the number of solved
   problems.
3. `ScoreIsRoomsConsumer` with failing calls and several consumers, for which
   `ContestRoom` needs more than one scorer.
