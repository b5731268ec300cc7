---------------------------- MODULE VerdictDelivery ----------------------------
(***************************************************************************)
(* How a stored verdict reaches the phone: the results consumer publishes  *)
(* it, Redis passes it to the channels the ws-server subscribed to, the    *)
(* ws-server emits it to the sockets that watch the submission, and        *)
(* useSubmissionWatcher shows it.                                          *)
(*                                                                         *)
(* A connection carries one watch:submission, the one the hook emits when  *)
(* it connects, so a connection stands for its handler and callback too.   *)
(* What runs between two awaits of the ws-server is one step.  A verdict   *)
(* stands for the whole payload.                                           *)
(***************************************************************************)
EXTENDS Naturals, Sequences, FiniteSets

CONSTANTS
    Devices, Users, UserOf,         \* the token each phone sends
    Submissions, Owner,             \* submissions.userId
    Verdicts, Open, None,
    MaxConns,           \* bound: connections ever opened
    MaxPublish,         \* bound: publications of one verdict
    Attempts,           \* reconnectionAttempts
    Faults              \* "network", "auth", "db"

ASSUME DeliveryAssumption ==
    /\ UserOf \in [Devices -> Users] /\ Owner \in [Submissions -> Users]
    /\ Open \notin Verdicts /\ None \notin Verdicts \cup {Open} \cup Submissions \cup Devices
    /\ MaxConns \in Nat /\ MaxPublish \in Nat /\ Attempts \in Nat

Conns == 1..MaxConns

VARIABLES
    row,            \* submissions.status
    published,      \* how often its verdict was published
    subscribed,     \* the channels Redis serves to the ws-server
    commands,       \* on the subscriber connection, to Redis
    messages,       \* on the subscriber connection, from Redis
    handlers,       \* callbacks by channel; empty stands for no entry
    conn,           \* the server's side of each connection
    inbox,          \* what it emitted and the phone has not received
    device          \* the state of each phone's hook

redisVars == <<published, subscribed, commands, messages>>
serverVars == <<handlers, conn, inbox>>
vars == <<row, redisVars, serverVars, device>>

Event == [type : {"submission:result"}, verdict : Verdicts]
             \cup [type : {"submission:error"}]

Result(v) == [type |-> "submission:result", verdict |-> v]
SubmissionError == [type |-> "submission:error"]

Connection == [device : Devices \cup {None}, submission : Submissions \cup {None},
               pc : {"none", "select", "answer", "registered", "done"},
               row : Verdicts \cup {Open, None}, up : BOOLEAN]

Hook == [phase : {"idle", "connecting", "watching", "done", "error"},
         result : Verdicts \cup {None}, target : Submissions \cup {None},
         conn : 0..MaxConns, tries : 0..Attempts]

TypeOK ==
    /\ row \in [Submissions -> Verdicts \cup {Open}]
    /\ published \in [Submissions -> 0..MaxPublish]
    /\ subscribed \subseteq Submissions
    /\ commands \in Seq([cmd : {"SUBSCRIBE", "UNSUBSCRIBE"}, channel : Submissions])
    /\ messages \in Seq([channel : Submissions, verdict : Verdicts])
    /\ handlers \in [Submissions -> SUBSET Conns]
    /\ conn \in [Conns -> Connection]
    /\ inbox \in [Conns -> Seq(Event)]
    /\ device \in [Devices -> Hook]

Unused == [device |-> None, submission |-> None, pc |-> "none", row |-> None, up |-> FALSE]
Idle == [phase |-> "idle", result |-> None, target |-> None, conn |-> 0, tries |-> 0]

Init ==
    /\ row = [s \in Submissions |-> Open]
    /\ published = [s \in Submissions |-> 0]
    /\ subscribed = {} /\ commands = <<>> /\ messages = <<>>
    /\ handlers = [s \in Submissions |-> {}]
    /\ conn = [n \in Conns |-> Unused]
    /\ inbox = [n \in Conns |-> <<>>]
    /\ device = [d \in Devices |-> Idle]

-----------------------------------------------------------------------------
(* The results consumer and Redis.                                         *)

\* The consumer may fail or die after it stored a verdict and before it
\* publishes it: nothing says that Publish follows Store.
Store(s) ==
    /\ row[s] = Open
    /\ \E v \in Verdicts : row' = [row EXCEPT ![s] = v]
    /\ UNCHANGED <<redisVars, serverVars, device>>

Publish(s) ==
    /\ row[s] # Open /\ published[s] < MaxPublish
    /\ published' = [published EXCEPT ![s] = @ + 1]
    /\ messages' = IF s \in subscribed
                   THEN Append(messages, [channel |-> s, verdict |-> row[s]]) ELSE messages
    /\ UNCHANGED <<row, subscribed, commands, serverVars, device>>

\* SUBSCRIBE and UNSUBSCRIBE reach Redis in the order in which they were sent.
Command ==
    /\ commands # <<>>
    /\ LET c == Head(commands) IN
       subscribed' = IF c.cmd = "SUBSCRIBE" THEN subscribed \cup {c.channel}
                                            ELSE subscribed \ {c.channel}
    /\ commands' = Tail(commands)
    /\ UNCHANGED <<row, published, messages, serverVars, device>>

-----------------------------------------------------------------------------
(* The hook on the phone.                                                  *)

\* The submit button is disabled while the hook connects or watches.  A client
\* may name any submission.
watch(d, s) ==
    /\ device[d].phase \notin {"connecting", "watching"}
    /\ device' = [device EXCEPT ![d] =
           [phase |-> "connecting", result |-> None, target |-> s, conn |-> 0, tries |-> Attempts]]
    /\ UNCHANGED <<row, redisVars, serverVars>>

Connecting(d) == device[d].conn = 0 /\ device[d].tries > 0

\* Connected, at first or again: the hook emits watch:submission.
Connect(d, n) ==
    /\ Connecting(d)
    /\ conn[n] = Unused /\ \A m \in 1..(n - 1) : conn[m] # Unused
    /\ device' = [device EXCEPT ![d].phase = "watching", ![d].conn = n, ![d].tries = Attempts]
    /\ conn' = [conn EXCEPT ![n] = [device |-> d, submission |-> device[d].target,
                                    pc |-> "select", row |-> None, up |-> TRUE]]
    /\ UNCHANGED <<row, redisVars, handlers, inbox>>

\* connect_error.  A handshake that the server refuses is not tried again.
ConnectFails(d) ==
    /\ Connecting(d)
    /\ \E left \in (IF "network" \in Faults THEN {device[d].tries - 1} ELSE {})
                       \cup (IF "auth" \in Faults THEN {0} ELSE {}) :
          device' = [device EXCEPT ![d].phase = "error", ![d].tries = left]
    /\ UNCHANGED <<row, redisVars, serverVars>>

\* The hook has no handler for a lost connection: its phase stays.
ConnectionLost(d) ==
    /\ "network" \in Faults
    /\ device[d].conn # 0
    /\ device' = [device EXCEPT ![d].conn = 0]
    /\ UNCHANGED <<row, redisVars, serverVars>>

Receive(d) ==
    /\ device[d].conn # 0
    /\ inbox[device[d].conn] # <<>>
    /\ LET e == Head(inbox[device[d].conn]) IN
       device' = [device EXCEPT
           ![d].phase  = IF e.type = "submission:result" THEN "done" ELSE "error",
           ![d].result = IF e.type = "submission:result" THEN e.verdict ELSE @,
           ![d].conn   = 0, ![d].tries = 0]
    /\ UNCHANGED <<row, redisVars, serverVars>>

\* The screen unmounts.
Leave(d) ==
    /\ device[d].phase # "idle"
    /\ device' = [device EXCEPT ![d] = Idle]
    /\ UNCHANGED <<row, redisVars, serverVars>>

-----------------------------------------------------------------------------
(* The ws-server: redis.js.                                                *)

subscribe(s, n) ==
    /\ handlers' = [handlers EXCEPT ![s] = @ \cup {n}]
    /\ commands' = IF handlers[s] = {}
                   THEN Append(commands, [cmd |-> "SUBSCRIBE", channel |-> s]) ELSE commands

\* Mutated form: the channel is left with the first callback.
unsubscribeFirst(s, gone) ==
    /\ handlers' = [handlers EXCEPT ![s] = @ \ gone]
    /\ commands' = IF gone # {}
                   THEN Append(commands, [cmd |-> "UNSUBSCRIBE", channel |-> s]) ELSE commands

\* gone: the callbacks that are detached.
unsubscribe(s, gone) ==
    /\ handlers' = [handlers EXCEPT ![s] = @ \ gone]
    /\ commands' = IF handlers[s] # {} /\ handlers[s] \subseteq gone
                   THEN Append(commands, [cmd |-> "UNSUBSCRIBE", channel |-> s]) ELSE commands

\* Each callback emits and detaches itself.
Message ==
    /\ messages # <<>>
    /\ LET m == Head(messages) IN
       /\ inbox' = [n \in Conns |->
              IF n \in handlers[m.channel]
              THEN Append(inbox[n], Result(m.verdict))
              ELSE inbox[n]]
       /\ conn' = [n \in Conns |->
              IF n \in handlers[m.channel] THEN [conn[n] EXCEPT !.pc = "done"] ELSE conn[n]]
       /\ unsubscribe(m.channel, handlers[m.channel])
    /\ messages' = Tail(messages)
    /\ UNCHANGED <<row, published, subscribed, device>>

-----------------------------------------------------------------------------
(* The ws-server: main.js.                                                 *)

SelectRow(n) ==
    /\ conn[n].pc = "select"
    /\ conn' = [conn EXCEPT ![n].pc = "answer", ![n].row = row[conn[n].submission]]
    /\ UNCHANGED <<row, redisVars, handlers, inbox, device>>

SelectFails(n) ==
    /\ "db" \in Faults
    /\ conn[n].pc = "select"
    /\ conn' = [conn EXCEPT ![n].pc = "done"]
    /\ inbox' = [inbox EXCEPT ![n] = Append(@, SubmissionError)]
    /\ UNCHANGED <<row, redisVars, handlers, device>>

\* Mutated form: whoever asks is the owner.
IsOwnerAlways(n) == TRUE

IsOwner(n) == Owner[conn[n].submission] = UserOf[conn[n].device]

Reply(n, event) ==
    /\ inbox' = [inbox EXCEPT ![n] = Append(@, event)]
    /\ conn' = [conn EXCEPT ![n].pc = "done"]
    /\ UNCHANGED <<handlers, commands>>

\* Mutated form: the row is the answer, final or not.
AnswerOpenRow(n) ==
    /\ conn[n].pc = "answer"
    /\ Reply(n, IF IsOwner(n) THEN Result(conn[n].row)
                ELSE SubmissionError)
    /\ UNCHANGED <<row, published, subscribed, messages, device>>

\* Mutated form: without the answer from the row.
AnswerSubscribes(n) ==
    /\ conn[n].pc = "answer"
    /\ IF ~IsOwner(n) THEN Reply(n, SubmissionError)
       ELSE /\ subscribe(conn[n].submission, n)
            /\ conn' = [conn EXCEPT ![n].pc = "registered"]
            /\ UNCHANGED inbox
    /\ UNCHANGED <<row, published, subscribed, messages, device>>

\* The socket may be gone by now: the callback is registered all the same.
Answer(n) ==
    /\ conn[n].pc = "answer"
    /\ IF ~IsOwner(n) THEN Reply(n, SubmissionError)
       ELSE IF conn[n].row # Open
       THEN Reply(n, Result(conn[n].row))
       ELSE /\ subscribe(conn[n].submission, n)
            /\ conn' = [conn EXCEPT ![n].pc = "registered"]
            /\ UNCHANGED inbox
    /\ UNCHANGED <<row, published, subscribed, messages, device>>

\* Mutated form: the server forgets the socket but not its callback.
DisconnectKeeps(n) ==
    /\ conn[n].up /\ device[conn[n].device].conn # n
    /\ conn' = [conn EXCEPT ![n].up = FALSE]
    /\ UNCHANGED <<row, redisVars, handlers, inbox, device>>

\* The server notices that the phone is gone, at once or by a ping timeout.
Disconnect(n) ==
    /\ conn[n].up /\ device[conn[n].device].conn # n
    /\ IF conn[n].pc = "registered"
       THEN /\ unsubscribe(conn[n].submission, {n})
            /\ conn' = [conn EXCEPT ![n].up = FALSE, ![n].pc = "done"]
       ELSE /\ conn' = [conn EXCEPT ![n].up = FALSE]
            /\ UNCHANGED <<handlers, commands>>
    /\ UNCHANGED <<row, published, subscribed, messages, inbox, device>>

-----------------------------------------------------------------------------
Server(n) == SelectRow(n) \/ Answer(n)

Next ==
    \/ \E s \in Submissions : Store(s) \/ Publish(s)
    \/ Command \/ Message
    \/ \E n \in Conns : Server(n) \/ SelectFails(n) \/ Disconnect(n)
    \/ \E d \in Devices :
          \/ \E s \in Submissions : watch(d, s)
          \/ \E n \in Conns : Connect(d, n)
          \/ ConnectFails(d) \/ ConnectionLost(d) \/ Receive(d) \/ Leave(d)

Spec == Init /\ [][Next]_vars

\* Redis, the ws-server and a phone with an event to receive go on; the results
\* consumer, the phone's user and the network need not.
Fairness ==
    /\ WF_vars(Command) /\ WF_vars(Message)
    /\ \A n \in Conns : WF_vars(Server(n)) /\ WF_vars(Disconnect(n))
    /\ \A d \in Devices : WF_vars(Receive(d))

FairSpec == Spec /\ Fairness

-----------------------------------------------------------------------------
\* What Redis will serve once it has seen the commands that are under way.
Served(s) ==
    LET sent == {i \in DOMAIN commands : commands[i].channel = s} IN
    \/ sent = {} /\ s \in subscribed
    \/ \E i \in sent : (\A j \in sent : j <= i) /\ commands[i].cmd = "SUBSCRIBE"

(* Watchers of one submission share a channel (redis.js:18-20): however    *)
(* they come, leave and are served, the subscription lasts exactly while   *)
(* somebody listens, and those who listen are those who were registered.   *)
SubscriptionMatchesHandlers ==
    \A s \in Submissions :
        /\ Served(s) <=> handlers[s] # {}
        /\ handlers[s] = {n \in Conns : conn[n].pc = "registered" /\ conn[n].submission = s}

(* A phone shows a result only of the submission it watches now, only the  *)
(* stored verdict, and only to the owner (main.js:78).                     *)
ShownIsTrue ==
    \A d \in Devices :
        /\ device[d].phase = "done" <=> device[d].result # None
        /\ device[d].result # None =>
               /\ device[d].result = row[device[d].target]
               /\ Owner[device[d].target] = UserOf[d]

(* A callback of a socket that is connected when it registers is released: *)
(* when the phone goes away, or when the verdict arrives.                  *)
GoneIsReleased ==
    \A n \in Conns :
        conn[n].pc = "registered" /\ conn[n].up /\ device[conn[n].device].conn # n
            ~> conn[n].pc = "done"

Told(n) == conn[n].pc = "done" /\ \A d \in Devices : device[d].conn # n

\* Redis serves the channel before the verdict (an UNSUBSCRIBE under way may
\* still interrupt what the channel gets).
SubscribedInTime(n, s) ==
    /\ conn[n].pc = "registered" /\ conn[n].submission = s
    /\ s \in subscribed /\ commands = <<>> /\ published[s] = 0

(* main.js:86-88: "if the result arrived before the client connected ...   *)
(* emit from DB".  A watch that finds a final row, or whose subscription   *)
(* precedes the verdict, ends with an answer or a disconnect.              *)
InTimeIsTold ==
    \A n \in Conns, s \in Submissions :
        /\ conn[n].pc = "select" /\ conn[n].submission = s /\ row[s] # Open ~> Told(n)
        /\ [](SubscribedInTime(n, s) => <>Told(n) \/ [](published[s] = 0))

(* README.md:39 and :281: ws-server "emits submission:result to the        *)
(* waiting mobile client", once the verdict is published.                  *)
WatcherIsTold ==
    \A d \in Devices, s \in Submissions :
        [](device[d].phase = "watching" /\ device[d].target = s
            => <>(device[d].phase # "watching") \/ [](published[s] = 0))
=============================================================================
