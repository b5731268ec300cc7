---------------------------- MODULE ServiceProofs ----------------------------
(***************************************************************************)
(* What the operations of the two services preserve: the queue (SqsQueue)  *)
(* and the tables with their trigger (SubmissionDb).  The proofs about the *)
(* programs cite these facts instead of opening the services' state.       *)
(***************************************************************************)
EXTENDS SubmissionDb, SqsQueue, FiniteSetTheorems, TLAPS

\* Message numbers are handed out once and in order.
Numbered(q) ==
    /\ \A m \in q.msgs : m.mid <= q.sent
    /\ \A m, n \in q.msgs : m.mid = n.mid => m = n

(* A new queue has the queue type and numbers its (absent) messages.       *)
LEMMA EmptyQueueOK ==
    ASSUME NEW G, NEW D, NEW B
    PROVE  EmptyQueue \in QueueType(G, D, B) /\ Numbered(EmptyQueue)
BY QueueAssumption DEF EmptyQueue, QueueType, Numbered

(* A send keeps the queue well formed; it adds one message with a new      *)
(* number, or none when the deduplication window swallows it, and it       *)
(* remembers the deduplication id either way.                              *)
LEMMA SendOK ==
    ASSUME NEW G, NEW D, NEW B, NEW q \in QueueType(G, D, B), Numbered(q),
           NEW g \in G, NEW d \in D, NEW b \in B, CanSend(q, d)
    PROVE  LET r == Send(q, g, d, b) IN
           /\ r \in QueueType(G, D, B)
           /\ Numbered(r)
           /\ q.msgs \subseteq r.msgs
           /\ \A m \in r.msgs : m \in q.msgs \/ (m.mid > q.sent /\ m.group = g /\ m.body = b)
           /\ q.sent <= r.sent
           /\ q.inFlight = r.inFlight
           /\ r.window \subseteq q.window \cup {d}
           /\ Duplicate(q, d) => r = q
           /\ ~ Duplicate(q, d) => \E m \in r.msgs : m.body = b
<1> DEFINE msg == [mid |-> q.sent + 1, group |-> g, dedup |-> d, body |-> b]
           r == Send(q, g, d, b)
<1>1. CASE Duplicate(q, d)
  BY <1>1 DEF Send, QueueType, Numbered
<1>2. CASE ~ Duplicate(q, d)
  <2>1. q.sent \in 0..MaxSends /\ q.sent < MaxSends /\ MaxSends \in Nat
    BY <1>2, QueueAssumption DEF CanSend, QueueType
  <2>2. msg \in Message(G, D, B)
    BY <2>1 DEF Message
  <2>3. r = [msgs |-> q.msgs \cup {msg}, inFlight |-> q.inFlight,
             window |-> q.window \cup {d}, sent |-> q.sent + 1]
    BY <1>2 DEF Send, QueueType
  <2>4. r \in QueueType(G, D, B)
    BY <2>1, <2>2, <2>3 DEF QueueType
  <2>5. \A m \in q.msgs : m.mid \in Nat /\ m.mid <= q.sent
    BY DEF QueueType, Message, Numbered
  <2>6. Numbered(r)
    BY <2>1, <2>3, <2>5 DEF Numbered
  <2>7. /\ msg.mid > q.sent /\ msg.group = g /\ msg.body = b
        /\ q.sent <= q.sent + 1
    BY <2>1
  <2>8. /\ r.msgs = q.msgs \cup {msg} /\ r.sent = q.sent + 1
        /\ r.inFlight = q.inFlight /\ r.window = q.window \cup {d}
    BY <2>3
  <2> HIDE DEF r, msg
  <2>9. /\ q.msgs \subseteq r.msgs
        /\ \A m \in r.msgs : m \in q.msgs \/ (m.mid > q.sent /\ m.group = g /\ m.body = b)
        /\ q.sent <= r.sent
        /\ q.inFlight = r.inFlight
        /\ r.window \subseteq q.window \cup {d}
        /\ \E m \in r.msgs : m.body = b
    BY <2>7, <2>8
  <2> QED BY <1>2, <2>4, <2>6, <2>9 DEF r
<1> QED BY <1>1, <1>2

(* Receiving hides messages and nothing else.                              *)
LEMMA ReceiveOK ==
    ASSUME NEW G, NEW D, NEW B, NEW q \in QueueType(G, D, B), Numbered(q),
           NEW batch \in SUBSET q.msgs
    PROVE  LET r == Receive(q, batch) IN
           /\ r \in QueueType(G, D, B)
           /\ Numbered(r)
           /\ r.msgs = q.msgs /\ r.window = q.window /\ r.sent = q.sent
           /\ r.inFlight = q.inFlight \cup {m.mid : m \in batch}
BY DEF Receive, QueueType, Numbered, Message

(* A visibility timeout changes no message.                                *)
LEMMA ReappearOK ==
    ASSUME NEW G, NEW D, NEW B, NEW q \in QueueType(G, D, B), Numbered(q), NEW mid
    PROVE  LET r == Reappear(q, mid) IN
           /\ r \in QueueType(G, D, B)
           /\ Numbered(r)
           /\ r.msgs = q.msgs /\ r.window = q.window /\ r.sent = q.sent
           /\ r.inFlight = q.inFlight \ {mid}
BY DEF Reappear, QueueType, Numbered, Message

(* The end of a deduplication window changes no message.                   *)
LEMMA ForgetOK ==
    ASSUME NEW G, NEW D, NEW B, NEW q \in QueueType(G, D, B), Numbered(q), NEW d
    PROVE  LET r == Forget(q, d) IN
           /\ r \in QueueType(G, D, B)
           /\ Numbered(r)
           /\ r.msgs = q.msgs /\ r.inFlight = q.inFlight /\ r.sent = q.sent
           /\ r.window = q.window \ {d}
BY DEF Forget, QueueType, Numbered, Message

(* A delete removes the messages with the given number, at most one.       *)
LEMMA DeleteOK ==
    ASSUME NEW G, NEW D, NEW B, NEW q \in QueueType(G, D, B), Numbered(q), NEW mid
    PROVE  LET r == Delete(q, mid) IN
           /\ r \in QueueType(G, D, B)
           /\ Numbered(r)
           /\ r.msgs = {m \in q.msgs : m.mid # mid}
           /\ r.window = q.window /\ r.sent = q.sent
           /\ r.inFlight = q.inFlight \ {mid}
BY DEF Delete, QueueType, Numbered, Message

-----------------------------------------------------------------------------
(* The tables.                                                             *)

\* Rows are never deleted and never lose a verdict (they may change it).
RowsGrow ==
    \A s \in Submissions : /\ Exists(s) => Exists(s)'
                           /\ Final(s) => Final(s)'
                           /\ IsOpen(s)' => IsOpen(s) \/ ~ Exists(s)

(* A fresh database is well typed.                                         *)
LEMMA DbInitOK == DbInit => DbTypeOK
BY DbAssumption DEF DbInit, DbTypeOK, Progress

(* An INSERT of a PENDING row keeps the tables well typed and only adds.   *)
LEMMA InsertOK ==
    ASSUME DbTypeOK, NEW s \in Submissions, NEW row \in Row, row.status = "PENDING",
           InsertSubmission(s, row)
    PROVE  DbTypeOK' /\ RowsGrow /\ Exists(s)' /\ submissions'[s] = row
<1>1. row # NoRow
  BY NoRowAssumption
<1>2. DbTypeOK'
  BY DEF InsertSubmission, DbTypeOK
<1>3. submissions' = [submissions EXCEPT ![s] = row] /\ submissions[s] = NoRow
  BY DEF InsertSubmission, Exists
<1>4. \A t \in Submissions : t # s => submissions'[t] = submissions[t]
  BY <1>3 DEF DbTypeOK
<1>5. submissions'[s] = row
  BY <1>3 DEF DbTypeOK
<1> QED BY <1>1, <1>2, <1>3, <1>4, <1>5 DEF RowsGrow, Exists, Final, IsOpen

(* The UPDATE that stores a verdict keeps the tables well typed, changes   *)
(* one row and makes it final, whatever its status was.                    *)
LEMMA UpdateOK ==
    ASSUME DbTypeOK, NEW s \in Submissions, Exists(s), NEW v \in Verdicts,
           UpdateStatus(s, v)
    PROVE  /\ DbTypeOK' /\ RowsGrow /\ Final(s)'
           /\ submissions' = [submissions EXCEPT ![s] = [@ EXCEPT !.status = v]]
<1> DEFINE row == submissions[s]
<1>1. row \in Row
  BY DEF DbTypeOK, Exists
<1>2. submissions' = [submissions EXCEPT ![s] = [row EXCEPT !.status = v]]
  BY DEF UpdateStatus
<1>3. [row EXCEPT !.status = v] \in Row
  BY <1>1 DEF Row
<1>4. submissions' \in [Submissions -> Row \cup {NoRow}]
  BY <1>2, <1>3 DEF DbTypeOK
<1>5. problems' \in [Problems -> [totalSubmissions : Nat, totalAccepted : Nat]]
  <2>1. CASE UNCHANGED problems
    BY <2>1 DEF DbTypeOK
  <2>2. CASE BumpCounters(row, v)
    <3>1. row.problem \in Problems
      BY <1>1 DEF Row
    <3>2. problems[row.problem] \in [totalSubmissions : Nat, totalAccepted : Nat]
      BY <3>1 DEF DbTypeOK
    <3> QED BY <2>2, <3>1, <3>2 DEF BumpCounters, DbTypeOK
  <2> QED BY <2>1, <2>2 DEF UpdateStatus
<1>6. userProblemStatus' \in [Users -> [Problems -> Progress]]
  <2>1. CASE UNCHANGED userProblemStatus
    BY <2>1 DEF DbTypeOK
  <2>2. CASE UpsertProgress(s, row, v)
    <3>1. row.problem \in Problems /\ row.user \in Users
      BY <1>1 DEF Row
    <3>2. userProblemStatus[row.user] \in [Problems -> Progress]
      BY <3>1 DEF DbTypeOK
    <3> DEFINE old == userProblemStatus[row.user][row.problem]
               new == [status   |-> IF v = "ACCEPTED" \/ old.status = "SOLVED"
                                    THEN "SOLVED" ELSE "ATTEMPTED",
                       solvedAt |-> IF v = "ACCEPTED" /\ old.solvedAt = NoSubmission
                                    THEN s ELSE old.solvedAt]
    <3>3. old \in Progress
      BY <3>1, <3>2
    <3>4. new \in Progress
      BY <3>3 DEF Progress
    <3>5. userProblemStatus' = [userProblemStatus EXCEPT ![row.user] =
              [userProblemStatus[row.user] EXCEPT ![row.problem] = new]]
      BY <2>2 DEF UpsertProgress
    <3> HIDE DEF new
    <3>6. [userProblemStatus[row.user] EXCEPT ![row.problem] = new] \in [Problems -> Progress]
      BY <3>2, <3>4
    <3> QED BY <3>5, <3>6 DEF DbTypeOK
  <2> QED BY <2>1, <2>2 DEF UpdateStatus
<1>7. DbTypeOK'
  BY <1>4, <1>5, <1>6 DEF DbTypeOK
<1>8. submissions'[s] # NoRow /\ submissions'[s].status = v
  BY <1>1, <1>2, <1>3, NoRowAssumption DEF DbTypeOK, Row
<1>9. \A t \in Submissions : t # s => submissions'[t] = submissions[t]
  BY <1>2 DEF DbTypeOK
<1> QED BY <1>2, <1>7, <1>8, <1>9, DbAssumption DEF RowsGrow, Exists, Final, IsOpen
-----------------------------------------------------------------------------
(* The counters.                                                           *)

TotalsMatchRows ==
    \A p \in Problems :
        problems[p] = [totalSubmissions |-> Cardinality(JudgedRows(p)),
                       totalAccepted    |-> Cardinality(AcceptedRows(p))]

(* Rows that are judged already stay counted where they are.               *)
LEMMA InsertCounts ==
    ASSUME DbTypeOK, NEW s \in Submissions, NEW row \in Row, row.status = "PENDING",
           InsertSubmission(s, row)
    PROVE  /\ UNCHANGED <<problems, userProblemStatus>>
           /\ \A p \in Problems : JudgedRows(p)' = JudgedRows(p)
                                /\ AcceptedRows(p)' = AcceptedRows(p)
           /\ \A u \in Users, p \in Problems : AttemptsOf(u, p)' = AttemptsOf(u, p)
<1>1. submissions' = [submissions EXCEPT ![s] = row] /\ ~ Exists(s)
  BY DEF InsertSubmission
<1>2. submissions'[s] = row /\ \A t \in Submissions : t # s => submissions'[t] = submissions[t]
  BY <1>1 DEF DbTypeOK
<1>3. ~ Final(s)' /\ ~ Final(s)
  BY <1>1, <1>2, DbAssumption DEF Final, Exists, Open
<1>4. \A t \in Submissions : t # s => (Final(t)' <=> Final(t))
  BY <1>2 DEF Final, Exists
<1>5. \A p \in Problems : JudgedRows(p)' = JudgedRows(p)
  BY <1>2, <1>3, <1>4 DEF JudgedRows
<1>6. \A p \in Problems : AcceptedRows(p)' = AcceptedRows(p)
  BY <1>2, <1>3, <1>5 DEF AcceptedRows, JudgedRows
<1>7. \A u \in Users, p \in Problems : AttemptsOf(u, p)' = AttemptsOf(u, p)
  BY <1>2, <1>3, <1>5 DEF AttemptsOf, JudgedRows
<1> QED BY <1>5, <1>6, <1>7 DEF InsertSubmission

(* A verdict adds its row to the judged ones of its problem, and to no     *)
(* other.                                                                  *)
LEMMA UpdateRows ==
    ASSUME DbTypeOK, NEW s \in Submissions, Exists(s), NEW v \in Verdicts,
           UpdateStatus(s, v), NEW p \in Problems
    PROVE  /\ submissions'[s] = [submissions[s] EXCEPT !.status = v]
           /\ submissions'[s].status = v /\ submissions'[s].problem = submissions[s].problem
           /\ submissions'[s].user = submissions[s].user
           /\ \A t \in Submissions : t # s => submissions'[t] = submissions[t]
           /\ JudgedRows(p)' = IF submissions[s].problem = p THEN JudgedRows(p) \cup {s}
                               ELSE JudgedRows(p)
           /\ IsOpen(s) => s \notin JudgedRows(p) /\ s \notin AcceptedRows(p)
<1>1. submissions[s] \in Row
  BY DEF DbTypeOK, Exists
<1>2. submissions' = [submissions EXCEPT ![s] = [@ EXCEPT !.status = v]] /\ Final(s)'
  BY UpdateOK
<1>3. submissions'[s] = [submissions[s] EXCEPT !.status = v]
      /\ \A t \in Submissions : t # s => submissions'[t] = submissions[t]
  BY <1>2 DEF DbTypeOK
<1>4. /\ submissions'[s].status = v /\ submissions'[s].problem = submissions[s].problem
      /\ submissions'[s].user = submissions[s].user
  BY <1>1, <1>3 DEF Row
<1>5. \A t \in Submissions : t # s => (Final(t)' <=> Final(t))
  BY <1>3 DEF Final, Exists
<1>6. JudgedRows(p)' = IF submissions[s].problem = p THEN JudgedRows(p) \cup {s}
                       ELSE JudgedRows(p)
  BY <1>2, <1>3, <1>4, <1>5 DEF JudgedRows
<1>7. IsOpen(s) => s \notin JudgedRows(p) /\ s \notin AcceptedRows(p)
  BY DbAssumption DEF IsOpen, JudgedRows, AcceptedRows, Final
<1> QED BY <1>3, <1>4, <1>6, <1>7

(* The same for the first verdict of a row.                                *)
LEMMA GradeRows ==
    ASSUME DbTypeOK, NEW s \in Submissions, IsOpen(s), NEW v \in Verdicts,
           UpdateStatus(s, v), NEW p \in Problems
    PROVE  /\ JudgedRows(p)' = IF submissions[s].problem = p THEN JudgedRows(p) \cup {s}
                               ELSE JudgedRows(p)
           /\ AcceptedRows(p)' =
                  IF submissions[s].problem = p /\ v = "ACCEPTED" THEN AcceptedRows(p) \cup {s}
                  ELSE AcceptedRows(p)
           /\ s \notin JudgedRows(p) /\ s \notin AcceptedRows(p)
           /\ submissions'[s].user = submissions[s].user
           /\ \A t \in Submissions : t # s => submissions'[t] = submissions[t]
<1>1. Exists(s)
  BY DEF IsOpen
<1>2. JudgedRows(p)' = IF submissions[s].problem = p THEN JudgedRows(p) \cup {s}
                      ELSE JudgedRows(p)
  BY <1>1, UpdateRows
<1>3. s \notin JudgedRows(p) /\ s \notin AcceptedRows(p)
  BY <1>1, UpdateRows
<1>4. submissions'[s].user = submissions[s].user
      /\ \A t \in Submissions : t # s => submissions'[t] = submissions[t]
  BY <1>1, UpdateRows
<1>5. submissions'[s].status = v
  BY <1>1, UpdateRows
<1>6. AcceptedRows(p)' =
          IF submissions[s].problem = p /\ v = "ACCEPTED" THEN AcceptedRows(p) \cup {s}
          ELSE AcceptedRows(p)
  <2>1. \A t \in JudgedRows(p) : submissions'[t] = submissions[t]
    BY <1>3, <1>4 DEF JudgedRows
  <2>2. AcceptedRows(p)' = {t \in JudgedRows(p)' : submissions'[t].status = "ACCEPTED"}
    BY DEF AcceptedRows
  <2>3. CASE submissions[s].problem = p
    BY <1>2, <1>5, <2>1, <2>2, <2>3 DEF AcceptedRows
  <2>4. CASE submissions[s].problem # p
    BY <1>2, <2>1, <2>2, <2>4 DEF AcceptedRows
  <2> QED BY <2>3, <2>4
<1> QED BY <1>2, <1>3, <1>4, <1>6

(* The sets of rows a counter stands for are finite.                       *)
LEMMA RowsFinite ==
    ASSUME NEW p \in Problems
    PROVE  /\ IsFiniteSet(JudgedRows(p)) /\ IsFiniteSet(AcceptedRows(p))
           /\ Cardinality(JudgedRows(p)) \in Nat /\ Cardinality(AcceptedRows(p)) \in Nat
<1>1. JudgedRows(p) \subseteq Submissions /\ AcceptedRows(p) \subseteq Submissions
  BY DEF JudgedRows, AcceptedRows
<1>2. IsFiniteSet(JudgedRows(p)) /\ IsFiniteSet(AcceptedRows(p))
  BY <1>1, DbAssumption, FS_Subset
<1> QED BY <1>2, FS_CardinalityType

(* Whatever the status was, an UPDATE keeps the count of judged rows.      *)
LEMMA UpdateCounts ==
    ASSUME DbTypeOK, NEW s \in Submissions, Exists(s), NEW v \in Verdicts,
           UpdateStatus(s, v), JudgedCountedOnce
    PROVE  JudgedCountedOnce'
<1> SUFFICES ASSUME NEW p \in Problems
             PROVE  problems'[p].totalSubmissions = Cardinality(JudgedRows(p)')
  BY DEF JudgedCountedOnce
<1>1. submissions[s] \in Row /\ problems \in [Problems -> [totalSubmissions : Nat, totalAccepted : Nat]]
  BY DEF DbTypeOK, Exists
<1>2. problems[p].totalSubmissions = Cardinality(JudgedRows(p))
  BY DEF JudgedCountedOnce
<1>3. JudgedRows(p)' = IF submissions[s].problem = p THEN JudgedRows(p) \cup {s} ELSE JudgedRows(p)
  BY UpdateRows
<1>4. CASE IsOpen(s)
  <2>1. BumpCounters(submissions[s], v) /\ s \notin JudgedRows(p)
    BY <1>4, UpdateRows DEF UpdateStatus, IsOpen
  <2>2. submissions[s].problem \in Problems
    BY <1>1 DEF Row
  <2>3. problems'[p].totalSubmissions =
            IF submissions[s].problem = p THEN problems[p].totalSubmissions + 1
            ELSE problems[p].totalSubmissions
    BY <1>1, <2>1, <2>2 DEF BumpCounters
  <2>4. Cardinality(JudgedRows(p) \cup {s}) = Cardinality(JudgedRows(p)) + 1
    BY <2>1, RowsFinite, FS_AddElement
  <2> QED BY <1>2, <1>3, <2>3, <2>4
<1>5. CASE ~ IsOpen(s)
  <2>1. problems' = problems
    BY <1>5 DEF UpdateStatus, IsOpen
  <2>2. submissions[s].problem = p => s \in JudgedRows(p)
    BY <1>1, <1>5 DEF JudgedRows, Final, IsOpen, Exists, Row
  <2>3. JudgedRows(p)' = JudgedRows(p)
    BY <1>3, <2>2
  <2> QED BY <1>2, <2>1, <2>3
<1> QED BY <1>4, <1>5

(* The first verdict of a row moves both counters of its problem.          *)
LEMMA GradeTotals ==
    ASSUME DbTypeOK, NEW s \in Submissions, IsOpen(s), NEW v \in Verdicts,
           UpdateStatus(s, v), TotalsMatchRows
    PROVE  TotalsMatchRows'
<1> SUFFICES ASSUME NEW p \in Problems
             PROVE  problems'[p] = [totalSubmissions |-> Cardinality(JudgedRows(p)'),
                                    totalAccepted    |-> Cardinality(AcceptedRows(p)')]
  BY DEF TotalsMatchRows
<1>1. /\ submissions[s] \in Row /\ submissions[s].problem \in Problems
      /\ problems \in [Problems -> [totalSubmissions : Nat, totalAccepted : Nat]]
      /\ Exists(s)
  BY DEF DbTypeOK, Exists, IsOpen, Row
<1>2. problems[p] = [totalSubmissions |-> Cardinality(JudgedRows(p)),
                     totalAccepted    |-> Cardinality(AcceptedRows(p))]
  BY DEF TotalsMatchRows
<1>3. BumpCounters(submissions[s], v)
  BY DEF UpdateStatus, IsOpen
<1>4. /\ JudgedRows(p)' = IF submissions[s].problem = p THEN JudgedRows(p) \cup {s}
                          ELSE JudgedRows(p)
      /\ AcceptedRows(p)' =
             IF submissions[s].problem = p /\ v = "ACCEPTED" THEN AcceptedRows(p) \cup {s}
             ELSE AcceptedRows(p)
      /\ s \notin JudgedRows(p) /\ s \notin AcceptedRows(p)
  BY GradeRows
<1>5. /\ Cardinality(JudgedRows(p) \cup {s}) = Cardinality(JudgedRows(p)) + 1
      /\ Cardinality(AcceptedRows(p) \cup {s}) = Cardinality(AcceptedRows(p)) + 1
  BY <1>4, RowsFinite, FS_AddElement
<1>6. problems'[p] =
          IF submissions[s].problem # p THEN problems[p]
          ELSE [totalSubmissions |-> problems[p].totalSubmissions + 1,
                totalAccepted    |-> IF v = "ACCEPTED" THEN problems[p].totalAccepted + 1
                                     ELSE problems[p].totalAccepted]
  BY <1>1, <1>3 DEF BumpCounters
<1>7. /\ problems[p].totalSubmissions = Cardinality(JudgedRows(p))
      /\ problems[p].totalAccepted = Cardinality(AcceptedRows(p))
  BY <1>2
<1>8. CASE submissions[s].problem # p
  BY <1>2, <1>4, <1>6, <1>8
<1>9. CASE submissions[s].problem = p /\ v = "ACCEPTED"
  BY <1>4, <1>5, <1>6, <1>7, <1>9
<1>10. CASE submissions[s].problem = p /\ v # "ACCEPTED"
  BY <1>4, <1>5, <1>6, <1>7, <1>10
<1> QED BY <1>8, <1>9, <1>10

(* The first verdict of a row moves its user's progress on its problem.    *)
LEMMA GradeProgress ==
    ASSUME DbTypeOK, NEW s \in Submissions, IsOpen(s), NEW v \in Verdicts,
           UpdateStatus(s, v), ProgressMatchesRows
    PROVE  ProgressMatchesRows'
<1> DEFINE row == submissions[s]
           accepted(u, p) == AttemptsOf(u, p) \cap AcceptedRows(p)
<1>1. /\ row \in Row /\ row.problem \in Problems /\ row.user \in Users /\ Exists(s)
      /\ userProblemStatus \in [Users -> [Problems -> Progress]]
  BY DEF DbTypeOK, Exists, IsOpen, Row
<1>2. UpsertProgress(s, row, v)
  BY DEF UpdateStatus, IsOpen
<1> SUFFICES ASSUME NEW u \in Users, NEW p \in Problems
             PROVE  LET progress == userProblemStatus'[u][p] IN
                    /\ progress.status = "SOLVED"    <=> accepted(u, p)' # {}
                    /\ progress.status = "ATTEMPTED" <=>
                          AttemptsOf(u, p)' # {} /\ accepted(u, p)' = {}
                    /\ progress.solvedAt \in IF accepted(u, p)' = {} THEN {NoSubmission}
                                             ELSE accepted(u, p)'
  BY DEF ProgressMatchesRows
<1>3. /\ JudgedRows(p)' = IF row.problem = p THEN JudgedRows(p) \cup {s} ELSE JudgedRows(p)
      /\ AcceptedRows(p)' = IF row.problem = p /\ v = "ACCEPTED" THEN AcceptedRows(p) \cup {s}
                            ELSE AcceptedRows(p)
      /\ s \notin JudgedRows(p) /\ s \notin AcceptedRows(p)
      /\ submissions'[s].user = row.user
      /\ \A t \in Submissions : t # s => submissions'[t] = submissions[t]
  BY GradeRows
<1>4. AttemptsOf(u, p)' = IF row.problem = p /\ row.user = u THEN AttemptsOf(u, p) \cup {s}
                          ELSE AttemptsOf(u, p)
  BY <1>3 DEF AttemptsOf, JudgedRows
<1>5. s \notin AttemptsOf(u, p) /\ NoSubmission \notin accepted(u, p)
  BY <1>3, DbAssumption DEF AttemptsOf, JudgedRows
<1>6. /\ userProblemStatus[u][p].status = "SOLVED" <=> accepted(u, p) # {}
      /\ userProblemStatus[u][p].status = "ATTEMPTED" <=>
            AttemptsOf(u, p) # {} /\ accepted(u, p) = {}
      /\ userProblemStatus[u][p].solvedAt \in
            IF accepted(u, p) = {} THEN {NoSubmission} ELSE accepted(u, p)
  BY DEF ProgressMatchesRows
<1>7. userProblemStatus'[u][p] =
          IF row.problem = p /\ row.user = u
          THEN [status   |-> IF v = "ACCEPTED" \/ userProblemStatus[u][p].status = "SOLVED"
                             THEN "SOLVED" ELSE "ATTEMPTED",
                solvedAt |-> IF v = "ACCEPTED" /\ userProblemStatus[u][p].solvedAt = NoSubmission
                             THEN s ELSE userProblemStatus[u][p].solvedAt]
          ELSE userProblemStatus[u][p]
  BY <1>1, <1>2 DEF UpsertProgress
<1>8. CASE ~ (row.problem = p /\ row.user = u)
  <2>1. accepted(u, p)' = accepted(u, p) /\ AttemptsOf(u, p)' = AttemptsOf(u, p)
    BY <1>3, <1>4, <1>5, <1>8
  <2> QED BY <1>6, <1>7, <1>8, <2>1
<1>9. CASE row.problem = p /\ row.user = u /\ v = "ACCEPTED"
  <2>1. accepted(u, p)' = accepted(u, p) \cup {s}
    BY <1>3, <1>4, <1>9
  <2>2. /\ userProblemStatus'[u][p].status = "SOLVED"
        /\ userProblemStatus'[u][p].solvedAt =
              IF userProblemStatus[u][p].solvedAt = NoSubmission THEN s
              ELSE userProblemStatus[u][p].solvedAt
    BY <1>7, <1>9
  <2> QED BY <1>5, <1>6, <2>1, <2>2
<1>10. CASE row.problem = p /\ row.user = u /\ v # "ACCEPTED"
  <2>1. accepted(u, p)' = accepted(u, p) /\ AttemptsOf(u, p)' # {}
    BY <1>3, <1>4, <1>5, <1>10
  <2>2. /\ userProblemStatus'[u][p].status =
              IF userProblemStatus[u][p].status = "SOLVED" THEN "SOLVED" ELSE "ATTEMPTED"
        /\ userProblemStatus'[u][p].solvedAt = userProblemStatus[u][p].solvedAt
    BY <1>7, <1>10
  <2> QED BY <1>6, <2>1, <2>2
<1> QED BY <1>8, <1>9, <1>10
=============================================================================
