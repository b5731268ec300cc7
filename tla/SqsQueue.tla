------------------------------ MODULE SqsQueue ------------------------------
(***************************************************************************)
(* An Amazon SQS queue, as the services of this repository use it: the     *)
(* backend sends to the submission queue, the judge worker receives from   *)
(* it and sends to the result queue, the results consumer receives there.  *)
(* SQS itself is external code; what is modelled is what the callers rely  *)
(* on: at-least-once delivery, an in-flight message hidden until it is     *)
(* deleted or its visibility timeout ends, and, when the queue is FIFO,    *)
(* one group in flight at a time, in order, and a deduplication window.    *)
(*                                                                         *)
(* A queue is a record                                                     *)
(*   msgs      the messages stored, each with the number SQS gave it       *)
(*   inFlight  the numbers of the messages received and still hidden       *)
(*   window    the deduplication ids SQS still remembers                   *)
(*   sent      how many messages were stored so far                        *)
(***************************************************************************)
EXTENDS Integers, FiniteSets

CONSTANTS
    Fifo,       \* the queue URLs end in ".fifo"
    MaxSends    \* bound: messages one queue stores during a behaviour

ASSUME QueueAssumption == Fifo \in BOOLEAN /\ MaxSends \in Nat

Message(G, D, B) == [mid : 1..MaxSends, group : G, dedup : D, body : B]

QueueType(G, D, B) ==
    [msgs : SUBSET Message(G, D, B), inFlight : SUBSET (1..MaxSends),
     window : SUBSET D, sent : 0..MaxSends]

EmptyQueue == [msgs |-> {}, inFlight |-> {}, window |-> {}, sent |-> 0]

\* A repeated id inside the window is acknowledged and stores nothing.
Duplicate(q, id) == Fifo /\ id \in q.window

CanSend(q, id) == Duplicate(q, id) \/ q.sent < MaxSends

Send(q, g, id, b) ==
    IF Duplicate(q, id) THEN q
    ELSE [q EXCEPT !.msgs   = @ \cup {[mid |-> q.sent + 1, group |-> g,
                                       dedup |-> id, body |-> b]},
                   !.window = @ \cup {id},
                   !.sent   = @ + 1]

Hidden(q, m) == m.mid \in q.inFlight

\* The batches one receive call may return.  In a FIFO queue a group with a
\* message in flight is locked, and a group is handed out from its head.
Receivable(q, batch) ==
    \A m \in batch :
        /\ m \in q.msgs
        /\ ~ Hidden(q, m)
        /\ Fifo => \A n \in q.msgs : n.group = m.group =>
                        ~ Hidden(q, n) /\ (n.mid < m.mid => n \in batch)

Receive(q, batch) == [q EXCEPT !.inFlight = @ \cup {m.mid : m \in batch}]

\* The visibility timeout of a message ends: SQS will deliver it again.
Reappear(q, mid) == [q EXCEPT !.inFlight = @ \ {mid}]

Delete(q, mid) ==
    [q EXCEPT !.msgs     = {m \in @ : m.mid # mid},
              !.inFlight = @ \ {mid}]

\* The deduplication window of an id ends (five minutes after the send).  The
\* guard keeps room for one more message of every id outside the window.
CanForget(q, id, Ids) ==
    /\ Fifo /\ id \in q.window
    /\ q.sent + Cardinality(Ids \ q.window) < MaxSends

Forget(q, id) == [q EXCEPT !.window = @ \ {id}]
=============================================================================
