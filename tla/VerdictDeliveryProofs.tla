----------------------- MODULE VerdictDeliveryProofs -----------------------
(***************************************************************************)
(* Theorems about VerdictDelivery, for any number of phones, users,        *)
(* submissions and connections, any publications and any failures.         *)
(*                                                                         *)
(* The argument for ShownIsTrue: a verdict, once stored, stays, so that    *)
(* what was read, published, queued for a socket or received is still what *)
(* the row says; and nothing is put into a socket's inbox but for the      *)
(* owner, about the submission its connection was opened for.              *)
(***************************************************************************)
EXTENDS VerdictDelivery, SequenceTheorems, TLAPS

Owned(n) ==
    /\ conn[n].submission \in Submissions /\ conn[n].device \in Devices
    /\ Owner[conn[n].submission] = UserOf[conn[n].device]

Awaits(n, e) == \E i \in DOMAIN inbox[n] : inbox[n][i] = e

EventOK(n, e) ==
    e.type = "submission:result" => Owned(n) /\ e.verdict = row[conn[n].submission]

ConnOK(n) ==
    /\ conn[n].pc # "none" => conn[n].submission \in Submissions /\ conn[n].device \in Devices
    /\ conn[n].pc = "none" => conn[n] = Unused
    /\ conn[n].up => conn[n].pc # "none"
    /\ conn[n].pc = "registered" => Owned(n)
    /\ conn[n].pc = "answer" => conn[n].row \in {Open, row[conn[n].submission]}
    /\ \A e \in Event : Awaits(n, e) => EventOK(n, e)

DeviceOK(d) ==
    /\ device[d].conn # 0 =>
          /\ conn[device[d].conn].pc # "none"
          /\ conn[device[d].conn].device = d
          /\ conn[device[d].conn].submission = device[d].target
          /\ device[d].result = None /\ device[d].phase \notin {"idle", "done"}
    /\ device[d].tries > 0 => device[d].result = None /\ device[d].target \in Submissions
    /\ device[d].phase \in {"connecting", "watching"} => device[d].result = None
    /\ device[d].phase = "done" <=> device[d].result # None
    /\ device[d].result # None =>
          /\ device[d].target \in Submissions
          /\ device[d].result = row[device[d].target]
          /\ Owner[device[d].target] = UserOf[d]

HandlersOK ==
    \A s \in Submissions :
        handlers[s] = {n \in Conns : conn[n].pc = "registered" /\ conn[n].submission = s}

Watched == \A s \in Submissions : Served(s) <=> handlers[s] # {}

MessagesOK == \A i \in DOMAIN messages : messages[i].verdict = row[messages[i].channel]

IInv ==
    /\ TypeOK /\ MessagesOK /\ HandlersOK /\ Watched
    /\ \A n \in Conns : ConnOK(n)
    /\ \A d \in Devices : DeviceOK(d)

-----------------------------------------------------------------------------
(* The two queues of the subscriber connection and the inboxes.            *)

Commands == [cmd : {"SUBSCRIBE", "UNSUBSCRIBE"}, channel : Submissions]
Messages == [channel : Submissions, verdict : Verdicts]

LEMMA Appended ==
    ASSUME NEW S, NEW q \in Seq(S), NEW e \in S
    PROVE  /\ Append(q, e) \in Seq(S)
           /\ \A i \in DOMAIN Append(q, e) :
                 (i \in DOMAIN q /\ Append(q, e)[i] = q[i]) \/ Append(q, e)[i] = e
<1>1. /\ Append(q, e) \in Seq(S) /\ Len(Append(q, e)) = Len(q) + 1
      /\ \A i \in 1..Len(q) : Append(q, e)[i] = q[i]
      /\ Append(q, e)[Len(q) + 1] = e
  BY AppendProperties
<1>2. DOMAIN q = 1..Len(q) /\ DOMAIN Append(q, e) = 1..Len(Append(q, e)) /\ Len(q) \in Nat
  BY <1>1
<1> QED BY <1>1, <1>2

LEMMA Taken ==
    ASSUME NEW S, NEW q \in Seq(S), q # <<>>
    PROVE  /\ Tail(q) \in Seq(S)
           /\ 1 \in DOMAIN q /\ q[1] = Head(q) /\ Head(q) \in S
           /\ \A i \in DOMAIN Tail(q) : i + 1 \in DOMAIN q /\ Tail(q)[i] = q[i + 1]
           /\ \A i \in DOMAIN q : i # 1 => i - 1 \in DOMAIN Tail(q)
<1>1. /\ Head(q) \in S /\ Tail(q) \in Seq(S) /\ Len(Tail(q)) = Len(q) - 1
      /\ \A i \in 1..Len(Tail(q)) : Tail(q)[i] = q[i + 1]
  BY HeadTailProperties
<1>2. DOMAIN q = 1..Len(q) /\ DOMAIN Tail(q) = 1..Len(Tail(q)) /\ Len(q) \in Nat
  BY <1>1
<1>3. Len(q) # 0 /\ q[1] = Head(q)
  OBVIOUS
<1> QED BY <1>1, <1>2, <1>3

LEMMA ServedAppend ==
    ASSUME commands \in Seq(Commands), NEW c \in Commands,
           commands' = Append(commands, c), UNCHANGED subscribed, NEW s \in Submissions
    PROVE  Served(s)' <=> IF s = c.channel THEN c.cmd = "SUBSCRIBE" ELSE Served(s)
<1>1. /\ commands' \in Seq(Commands) /\ Len(commands') = Len(commands) + 1
      /\ \A i \in 1..Len(commands) : commands'[i] = commands[i]
      /\ commands'[Len(commands) + 1] = c
  BY AppendProperties
<1>2. /\ DOMAIN commands = 1..Len(commands) /\ Len(commands) \in Nat
      /\ DOMAIN commands' = 1..(Len(commands) + 1)
  BY <1>1
<1>3. CASE s = c.channel
  BY <1>1, <1>2, <1>3 DEF Served
<1>4. CASE s # c.channel
  <2>1. {i \in DOMAIN commands' : commands'[i].channel = s} =
            {i \in DOMAIN commands : commands[i].channel = s}
    BY <1>1, <1>2, <1>4
  <2> QED BY <1>1, <1>2, <1>4, <2>1 DEF Served
<1> QED BY <1>3, <1>4

\* Redis takes a command: what it will serve stays.
LEMMA ServedTail ==
    ASSUME commands \in Seq(Commands), Command, NEW s \in Submissions
    PROVE  Served(s)' <=> Served(s)
<1> DEFINE c == Head(commands)
           sent == {i \in DOMAIN commands : commands[i].channel = s}
           left == {i \in DOMAIN commands' : commands'[i].channel = s}
<1>1. commands # <<>> /\ commands' = Tail(commands)
  BY DEF Command
<1>2. /\ 1 \in DOMAIN commands /\ commands[1] = c /\ c \in Commands
      /\ \A i \in DOMAIN commands' : i + 1 \in DOMAIN commands /\ commands'[i] = commands[i + 1]
      /\ \A i \in DOMAIN commands : i # 1 => i - 1 \in DOMAIN commands'
      /\ DOMAIN commands \subseteq Nat \ {0} /\ DOMAIN commands' \subseteq Nat \ {0}
  BY <1>1, Taken
<1>3. \A i \in left : i + 1 \in sent
  BY <1>2
<1>4. ASSUME NEW i \in sent, i # 1 PROVE i - 1 \in left
  <2>1. i \in Nat /\ i - 1 \in DOMAIN commands'
    BY <1>2, <1>4
  <2>2. commands'[i - 1] = commands[(i - 1) + 1] /\ (i - 1) + 1 = i
    BY <1>2, <2>1
  <2> QED BY <2>1, <2>2
<1>5. 1 \in sent <=> c.channel = s
  BY <1>2
<1>6. subscribed' = IF c.cmd = "SUBSCRIBE" THEN subscribed \cup {c.channel}
                    ELSE subscribed \ {c.channel}
  BY DEF Command
<1>7. CASE left = {}
  <2>1. sent \subseteq {1}
    BY <1>4, <1>7
  <2>2. Served(s)' <=> s \in subscribed'
    BY <1>7 DEF Served
  <2>3. CASE 1 \in sent
    BY <1>2, <1>5, <1>6, <2>1, <2>2, <2>3 DEF Served
  <2>4. CASE 1 \notin sent
    BY <1>5, <1>6, <2>1, <2>2, <2>4 DEF Served
  <2> QED BY <2>3, <2>4
<1>8. CASE left # {}
  <2>1. ASSUME NEW i \in left, \A j \in left : j <= i
        PROVE  i + 1 \in sent /\ (\A j \in sent : j <= i + 1) /\ commands'[i] = commands[i + 1]
    <3>1. i \in Nat /\ i >= 1 /\ \A j \in sent : j \in Nat
      BY <1>2
    <3>2. ASSUME NEW j \in sent PROVE j <= i + 1
      <4>1. CASE j = 1
        BY <3>1, <4>1
      <4>2. CASE j # 1
        BY <1>4, <2>1, <3>1, <4>2
      <4> QED BY <4>1, <4>2
    <3> QED BY <1>2, <1>3, <3>2
  <2>2. ASSUME NEW i \in sent, \A j \in sent : j <= i
        PROVE  i - 1 \in left /\ (\A j \in left : j <= i - 1) /\ commands'[i - 1] = commands[i]
    <3>1. PICK k \in left : TRUE
      BY <1>8
    <3>2. i \in Nat /\ k \in Nat /\ k >= 1 /\ k + 1 <= i /\ \A j \in left : j \in Nat
      BY <1>2, <1>3, <2>2, <3>1
    <3>3. i # 1 /\ i - 1 \in left
      BY <1>4, <3>2
    <3>4. \A j \in left : j <= i - 1
      BY <1>3, <2>2, <3>2
    <3>5. commands'[i - 1] = commands[i]
      BY <1>2, <3>2, <3>3
    <3> QED BY <3>3, <3>4, <3>5
  <2>3. sent # {}
    BY <1>3, <1>8
  <2> QED BY <1>8, <2>1, <2>2, <2>3 DEF Served
<1> QED BY <1>7, <1>8

\* A callback joins or callbacks leave: the channel is served while one stays.
LEMMA SubscribeServed ==
    ASSUME TypeOK, Watched, UNCHANGED subscribed, NEW s \in Submissions, NEW n \in Conns,
           subscribe(s, n)
    PROVE  Watched' /\ commands' \in Seq(Commands)
<1> DEFINE c == [cmd |-> "SUBSCRIBE", channel |-> s]
<1>1. commands \in Seq(Commands) /\ c \in Commands
  BY DEF TypeOK, Commands
<1>2. /\ handlers'[s] = handlers[s] \cup {n}
      /\ \A t \in Submissions : t # s => handlers'[t] = handlers[t]
  BY DEF subscribe, TypeOK
<1>3. CASE handlers[s] = {}
  <2>1. commands' = Append(commands, c)
    BY <1>3 DEF subscribe
  <2>2. \A t \in Submissions : Served(t)' <=> IF t = c.channel THEN c.cmd = "SUBSCRIBE"
                                              ELSE Served(t)
    BY <1>1, <2>1, ServedAppend
  <2>3. commands' \in Seq(Commands)
    BY <1>1, <2>1, AppendProperties
  <2> QED BY <1>2, <2>2, <2>3 DEF Watched
<1>4. CASE handlers[s] # {}
  <2>1. commands' = commands
    BY <1>4 DEF subscribe
  <2> QED BY <1>1, <1>2, <1>4, <2>1 DEF Watched, Served
<1> QED BY <1>3, <1>4

LEMMA UnsubscribeServed ==
    ASSUME TypeOK, Watched, UNCHANGED subscribed, NEW s \in Submissions, NEW gone,
           unsubscribe(s, gone)
    PROVE  Watched' /\ commands' \in Seq(Commands)
<1> DEFINE c == [cmd |-> "UNSUBSCRIBE", channel |-> s]
<1>1. commands \in Seq(Commands) /\ c \in Commands
  BY DEF TypeOK, Commands
<1>2. /\ handlers'[s] = handlers[s] \ gone
      /\ \A t \in Submissions : t # s => handlers'[t] = handlers[t]
  BY DEF unsubscribe, TypeOK
<1>3. CASE handlers[s] # {} /\ handlers[s] \subseteq gone
  <2>1. commands' = Append(commands, c)
    BY <1>3 DEF unsubscribe
  <2>2. \A t \in Submissions : Served(t)' <=> IF t = c.channel THEN c.cmd = "SUBSCRIBE"
                                              ELSE Served(t)
    BY <1>1, <2>1, ServedAppend
  <2>3. commands' \in Seq(Commands)
    BY <1>1, <2>1, AppendProperties
  <2> QED BY <1>2, <1>3, <2>2, <2>3 DEF Watched
<1>4. CASE ~ (handlers[s] # {} /\ handlers[s] \subseteq gone)
  <2>1. commands' = commands
    BY <1>4 DEF unsubscribe
  <2> QED BY <1>1, <1>2, <1>4, <2>1 DEF Watched, Served
<1> QED BY <1>3, <1>4

-----------------------------------------------------------------------------
(* What a step leaves of what a connection and a phone know.               *)

RowKept == \A s \in Submissions : row[s] # Open => row'[s] = row[s]

SameWatch(n) ==
    conn'[n].submission = conn[n].submission /\ conn'[n].device = conn[n].device

LEMMA EventKept ==
    ASSUME RowKept, NEW n \in Conns, SameWatch(n), NEW e \in Event, EventOK(n, e)
    PROVE  EventOK(n, e)'
<1>1. e.type = "submission:result" => e.verdict # Open
  BY DeliveryAssumption DEF Event
<1> QED BY <1>1 DEF EventOK, Owned, SameWatch, RowKept

LEMMA ConnKept ==
    ASSUME TypeOK, RowKept, NEW n \in Conns, conn'[n] = conn[n], inbox'[n] = inbox[n], ConnOK(n)
    PROVE  ConnOK(n)'
<1>1. \A e \in Event : Awaits(n, e)' => Awaits(n, e)
  BY DEF Awaits
<1>2. \A e \in Event : Awaits(n, e)' => EventOK(n, e)'
  BY <1>1, EventKept DEF ConnOK, SameWatch
<1>3. conn[n].pc = "answer" => conn[n].row \in {Open, row'[conn[n].submission]}
  BY DEF ConnOK, RowKept
<1> QED BY <1>2, <1>3 DEF ConnOK, Owned

\* A phone that takes no step, on a server that keeps what it watches.
LEMMA DeviceKept ==
    ASSUME TypeOK, RowKept, NEW d \in Devices, device'[d] = device[d], DeviceOK(d),
           \A n \in Conns : conn[n].pc # "none" => SameWatch(n) /\ conn'[n].pc # "none"
    PROVE  DeviceOK(d)'
<1>1. device[d].conn \in 0..MaxConns /\ device[d].result \in Verdicts \cup {None}
  BY DEF TypeOK, Hook
<1>2. device[d].conn # 0 => device[d].conn \in Conns
  BY <1>1, DeliveryAssumption DEF Conns
<1>3. device[d].result # None => row'[device[d].target] = row[device[d].target]
  BY <1>1, DeliveryAssumption DEF DeviceOK, RowKept
<1> QED BY <1>2, <1>3 DEF DeviceOK, SameWatch

-----------------------------------------------------------------------------
(* The phone.                                                              *)

LEMMA DeviceMoves ==
    ASSUME IInv, UNCHANGED <<row, redisVars, serverVars>>, NEW d \in Devices, NEW h \in Hook,
           device' = [device EXCEPT ![d] = h], DeviceOK(d)'
    PROVE  IInv'
<1>1. UNCHANGED <<row, published, subscribed, commands, messages, handlers, conn, inbox>>
  BY DEF redisVars, serverVars
<1>2. TypeOK'
  BY <1>1 DEF IInv, TypeOK
<1>3. RowKept /\ \A n \in Conns : SameWatch(n)
  BY <1>1 DEF RowKept, SameWatch
<1>4. \A e \in Devices : e # d => device'[e] = device[e]
  BY DEF IInv, TypeOK
<1>5. \A e \in Devices : DeviceOK(e)'
  BY <1>1, <1>3, <1>4, DeviceKept DEF IInv
<1>6. \A n \in Conns : ConnOK(n)'
  BY <1>1, <1>3, ConnKept DEF IInv
<1>7. MessagesOK' /\ HandlersOK' /\ Watched'
  BY <1>1 DEF IInv, MessagesOK, HandlersOK, Watched, Served
<1> QED BY <1>2, <1>5, <1>6, <1>7 DEF IInv

LEMMA HookType ==
    ASSUME IInv, NEW d \in Devices
    PROVE  /\ device[d] \in Hook /\ DeviceOK(d) /\ device[d].conn \in Nat
           /\ device[d].conn # 0 => device[d].conn \in Conns
           /\ device[d].tries \in Nat
BY DeliveryAssumption DEF IInv, TypeOK, Hook, Conns

\* A hook that closes its connection.
LEMMA Closed ==
    ASSUME NEW h \in Hook, NEW tries \in 0..Attempts, NEW r \in Verdicts \cup {None},
           NEW phase \in {"idle", "connecting", "watching", "done", "error"}
    PROVE  [phase |-> phase, result |-> r, target |-> h.target, conn |-> 0, tries |-> tries]
               \in Hook
BY DeliveryAssumption DEF Hook

LEMMA Ended ==
    ASSUME NEW h \in Hook, NEW phase, NEW r
    PROVE  [h EXCEPT !.phase = phase, !.result = r, !.conn = 0, !.tries = 0] =
               [phase |-> phase, result |-> r, target |-> h.target, conn |-> 0, tries |-> 0]
<1> DEFINE g == [h EXCEPT !.phase = phase, !.result = r, !.conn = 0, !.tries = 0]
<1>1. DOMAIN h = {"phase", "result", "target", "conn", "tries"}
  BY DEF Hook
<1>2. g = [f \in DOMAIN h |-> IF f = "tries" THEN 0 ELSE IF f = "conn" THEN 0
                              ELSE IF f = "result" THEN r ELSE IF f = "phase" THEN phase
                              ELSE h[f]]
  BY DEF Hook
<1>3. /\ g.phase = phase /\ g.result = r /\ g.target = h.target
      /\ g.conn = 0 /\ g.tries = 0
  BY DEF Hook
<1> QED BY <1>1, <1>2, <1>3

LEMMA WatchOK ==
    ASSUME IInv, NEW d \in Devices, NEW s \in Submissions, watch(d, s)
    PROVE  IInv'
<1> DEFINE h == [phase |-> "connecting", result |-> None, target |-> s, conn |-> 0,
                 tries |-> Attempts]
<1>1. h \in Hook /\ device' = [device EXCEPT ![d] = h] /\ UNCHANGED <<row, redisVars, serverVars>>
  BY DeliveryAssumption DEF watch, Hook
<1>2. device'[d] = h
  BY <1>1 DEF IInv, TypeOK
<1>3. DeviceOK(d)'
  BY <1>2 DEF DeviceOK
<1> QED BY <1>1, <1>3, DeviceMoves

LEMMA ConnectFailsOK ==
    ASSUME IInv, NEW d \in Devices, ConnectFails(d)
    PROVE  IInv'
<1>1. PICK left : /\ left = device[d].tries - 1 \/ left = 0
                  /\ device' = [device EXCEPT ![d].phase = "error", ![d].tries = left]
  BY DEF ConnectFails
<1> DEFINE h == [device[d] EXCEPT !.phase = "error", !.tries = left]
<1>2. device[d].conn = 0 /\ device[d].tries > 0 /\ UNCHANGED <<row, redisVars, serverVars>>
  BY DEF ConnectFails, Connecting
<1>3. device[d] \in Hook /\ DeviceOK(d) /\ device[d].tries \in 0..Attempts
  BY HookType DEF Hook
<1>4. left \in 0..Attempts
  BY <1>1, <1>2, <1>3, DeliveryAssumption
<1>5. h \in Hook /\ device' = [device EXCEPT ![d] = h]
  BY <1>1, <1>3, <1>4 DEF Hook, IInv, TypeOK
<1>6. device'[d] = h
  BY <1>5 DEF IInv, TypeOK
<1>7. /\ h.conn = 0 /\ h.phase = "error" /\ h.result = None
      /\ h.target = device[d].target /\ device[d].target \in Submissions
  BY <1>2, <1>3 DEF Hook, DeviceOK
<1>8. DeviceOK(d)'
  BY <1>6, <1>7 DEF DeviceOK
<1> QED BY <1>2, <1>5, <1>8, DeviceMoves

LEMMA ConnectionLostOK ==
    ASSUME IInv, NEW d \in Devices, ConnectionLost(d)
    PROVE  IInv'
<1> DEFINE h == [device[d] EXCEPT !.conn = 0]
<1>1. device[d].conn # 0 /\ UNCHANGED <<row, redisVars, serverVars>>
  BY DEF ConnectionLost
<1>2. device[d] \in Hook /\ DeviceOK(d)
  BY HookType
<1>3. h \in Hook /\ device' = [device EXCEPT ![d] = h]
  <2>1. h = [phase |-> device[d].phase, result |-> device[d].result,
             target |-> device[d].target, conn |-> 0, tries |-> device[d].tries]
    BY <1>2 DEF Hook
  <2>2. h \in Hook
    BY <1>2, <2>1, Closed DEF Hook
  <2> QED BY <2>2 DEF ConnectionLost, IInv, TypeOK
<1>4. device'[d] = h /\ UNCHANGED row
  BY <1>1, <1>3 DEF IInv, TypeOK
<1>5. /\ h.conn = 0 /\ h.phase = device[d].phase /\ h.result = None
      /\ h.target = device[d].target /\ h.tries = device[d].tries /\ h.phase # "done"
  BY <1>1, <1>2 DEF Hook, DeviceOK
<1>6. DeviceOK(d)'
  BY <1>2, <1>4, <1>5 DEF DeviceOK
<1> QED BY <1>1, <1>3, <1>6, DeviceMoves

LEMMA LeaveOK ==
    ASSUME IInv, NEW d \in Devices, Leave(d)
    PROVE  IInv'
<1>1. Idle \in Hook /\ device' = [device EXCEPT ![d] = Idle] /\ UNCHANGED <<row, redisVars, serverVars>>
  BY DeliveryAssumption DEF Leave, Hook, Idle
<1>2. device'[d] = Idle
  BY <1>1 DEF IInv, TypeOK
<1>3. DeviceOK(d)'
  BY <1>2 DEF DeviceOK, Idle
<1> QED BY <1>1, <1>3, DeviceMoves

\* What comes out of an inbox is for the owner, and what the row says.
LEMMA ReceiveOK ==
    ASSUME IInv, NEW d \in Devices, Receive(d)
    PROVE  IInv'
<1> DEFINE n == device[d].conn
           e == Head(inbox[n])
           H(phase, r) == [phase |-> phase, result |-> r, target |-> device[d].target,
                           conn |-> 0, tries |-> 0]
<1>1. n # 0 /\ inbox[n] # <<>> /\ UNCHANGED <<row, redisVars, serverVars>>
  BY DEF Receive
<1>2. device[d] \in Hook /\ DeviceOK(d) /\ n \in Conns
  BY <1>1, HookType
<1>3. ConnOK(n) /\ inbox[n] \in Seq(Event)
  BY <1>2 DEF IInv, TypeOK
<1>4. e \in Event /\ EventOK(n, e)
  <2>1. 1 \in DOMAIN inbox[n] /\ inbox[n][1] = e /\ e \in Event
    BY <1>1, <1>3, Taken
  <2> QED BY <1>3, <2>1 DEF ConnOK, Awaits
<1>5. conn[n].device = d /\ conn[n].submission = device[d].target /\ device[d].result = None
  BY <1>1, <1>2 DEF DeviceOK
<1>7. CASE e.type = "submission:result"
  <2>1. e.verdict \in Verdicts /\ e.verdict # None
    BY <1>4, <1>7, DeliveryAssumption DEF Event
  <2>2. /\ device[d].target \in Submissions /\ e.verdict = row[device[d].target]
        /\ Owner[device[d].target] = UserOf[d]
    BY <1>4, <1>5, <1>7 DEF EventOK, Owned
  <2>3. device' = [device EXCEPT ![d] = [device[d] EXCEPT
                       !.phase = "done", !.result = e.verdict, !.conn = 0, !.tries = 0]]
    BY <1>7 DEF Receive, IInv, TypeOK
  <2>4. device' = [device EXCEPT ![d] = H("done", e.verdict)]
    BY <1>2, <2>1, <2>3, Ended
  <2>5. H("done", e.verdict) \in Hook
    BY <1>2, <2>1, DeliveryAssumption DEF Hook
  <2>6. device'[d] = H("done", e.verdict) /\ UNCHANGED row
    BY <1>1, <2>4 DEF IInv, TypeOK
  <2>7. DeviceOK(d)'
    BY <2>1, <2>2, <2>6 DEF DeviceOK
  <2> QED BY <1>1, <2>4, <2>5, <2>7, DeviceMoves
<1>8. CASE e.type # "submission:result"
  <2>1. device' = [device EXCEPT ![d] = [device[d] EXCEPT
                       !.phase = "error", !.result = device[d].result, !.conn = 0, !.tries = 0]]
    BY <1>8 DEF Receive, IInv, TypeOK
  <2>2. device' = [device EXCEPT ![d] = H("error", None)]
    <3> DEFINE g == device[d]
    <3>1. [g EXCEPT !.phase = "error", !.result = None, !.conn = 0, !.tries = 0] = H("error", None)
      BY <1>2, Ended
    <3> QED BY <1>5, <2>1, <3>1
  <2>3. H("error", None) \in Hook
    BY <1>2, DeliveryAssumption DEF Hook
  <2>4. device'[d] = H("error", None)
    BY <2>2 DEF IInv, TypeOK
  <2>5. DeviceOK(d)'
    BY <2>4 DEF DeviceOK
  <2> QED BY <1>1, <2>2, <2>3, <2>5, DeviceMoves
<1> QED BY <1>7, <1>8

-----------------------------------------------------------------------------
(* The results consumer and Redis.                                         *)

\* A step that leaves the connections and the phones.
LEMMA Elsewhere ==
    ASSUME IInv, RowKept, UNCHANGED <<conn, inbox, device>>
    PROVE  (\A n \in Conns : ConnOK(n)') /\ (\A d \in Devices : DeviceOK(d)')
<1>1. \A n \in Conns : ConnOK(n)'
  BY ConnKept DEF IInv
<1>2. \A n \in Conns : SameWatch(n) /\ conn'[n].pc = conn[n].pc
  BY DEF SameWatch
<1>3. \A d \in Devices : DeviceOK(d)'
  BY <1>2, DeviceKept DEF IInv
<1> QED BY <1>1, <1>3

LEMMA StoreOK ==
    ASSUME IInv, NEW s \in Submissions, Store(s)
    PROVE  IInv'
<1>1. /\ UNCHANGED <<published, subscribed, commands, messages, handlers, conn, inbox, device>>
      /\ row[s] = Open
  BY DEF Store, redisVars, serverVars
<1>2. PICK v \in Verdicts : row' = [row EXCEPT ![s] = v]
  BY DEF Store
<1>3. row \in [Submissions -> Verdicts \cup {Open}]
  BY DEF IInv, TypeOK
<1>4. RowKept /\ row' \in [Submissions -> Verdicts \cup {Open}]
  BY <1>1, <1>2, <1>3 DEF RowKept
<1>5. TypeOK'
  BY <1>1, <1>4 DEF IInv, TypeOK
<1>6. MessagesOK'
  <2> SUFFICES ASSUME NEW i \in DOMAIN messages
               PROVE  messages[i].verdict = row'[messages[i].channel]
    BY <1>1 DEF MessagesOK
  <2>1. messages[i] \in [channel : Submissions, verdict : Verdicts]
    <3>1. messages \in Seq([channel : Submissions, verdict : Verdicts])
      BY DEF IInv, TypeOK
    <3>2. DOMAIN messages = 1..Len(messages)
      BY <3>1
    <3> QED BY <3>1, <3>2, ElementOfSeq
  <2>2. messages[i].channel \in Submissions /\ messages[i].verdict # Open
    BY <2>1, DeliveryAssumption
  <2> QED BY <1>4, <2>2 DEF IInv, MessagesOK, RowKept
<1>7. HandlersOK' /\ Watched'
  BY <1>1 DEF IInv, HandlersOK, Watched, Served
<1> QED BY <1>1, <1>4, <1>5, <1>6, <1>7, Elsewhere DEF IInv

LEMMA PublishOK ==
    ASSUME IInv, NEW s \in Submissions, Publish(s)
    PROVE  IInv'
<1> DEFINE m == [channel |-> s, verdict |-> row[s]]
<1>1. /\ UNCHANGED <<row, subscribed, commands, handlers, conn, inbox, device>>
      /\ row[s] # Open /\ published[s] < MaxPublish
      /\ published' = [published EXCEPT ![s] = @ + 1]
      /\ messages' = Append(messages, m) \/ messages' = messages
  BY DEF Publish, serverVars
<1>2. RowKept
  BY <1>1 DEF RowKept
<1>3. published' \in [Submissions -> 0..MaxPublish]
  BY <1>1, DeliveryAssumption DEF IInv, TypeOK
<1>4. messages \in Seq(Messages) /\ m \in Messages
  BY <1>1 DEF IInv, TypeOK, Messages
<1>5. messages' \in Seq(Messages) /\ MessagesOK'
  <2>1. CASE messages' = messages
    BY <1>1, <1>4, <2>1 DEF IInv, MessagesOK
  <2>2. CASE messages' = Append(messages, m)
    <3>1. /\ messages' \in Seq(Messages)
          /\ \A i \in DOMAIN messages' :
                (i \in DOMAIN messages /\ messages'[i] = messages[i]) \/ messages'[i] = m
      BY <1>4, <2>2, Appended
    <3> QED BY <1>1, <3>1 DEF IInv, MessagesOK
  <2> QED BY <1>1, <2>1, <2>2
<1>6. TypeOK'
  BY <1>1, <1>3, <1>5 DEF IInv, TypeOK, Messages
<1>7. HandlersOK' /\ Watched'
  BY <1>1 DEF IInv, HandlersOK, Watched, Served
<1> QED BY <1>1, <1>2, <1>5, <1>6, <1>7, Elsewhere DEF IInv

LEMMA CommandOK ==
    ASSUME IInv, Command
    PROVE  IInv'
<1>1. /\ UNCHANGED <<row, published, messages, handlers, conn, inbox, device>>
      /\ commands # <<>> /\ commands' = Tail(commands)
      /\ \/ subscribed' = subscribed \cup {Head(commands).channel}
         \/ subscribed' = subscribed \ {Head(commands).channel}
  BY DEF Command, serverVars
<1>2. commands \in Seq(Commands)
  BY DEF IInv, TypeOK, Commands
<1>3. commands' \in Seq(Commands) /\ Head(commands) \in Commands
  BY <1>1, <1>2, Taken
<1>4. subscribed' \subseteq Submissions
  BY <1>1, <1>3 DEF IInv, TypeOK, Commands
<1>5. TypeOK'
  BY <1>1, <1>3, <1>4 DEF IInv, TypeOK, Commands
<1>6. Watched'
  BY <1>1, <1>2, ServedTail DEF IInv, Watched
<1>7. RowKept /\ MessagesOK' /\ HandlersOK'
  BY <1>1 DEF IInv, RowKept, MessagesOK, HandlersOK
<1> QED BY <1>1, <1>5, <1>6, <1>7, Elsewhere DEF IInv

-----------------------------------------------------------------------------
(* The ws-server.                                                          *)

LEMMA Emitted ==
    ASSUME NEW n \in Conns, NEW x \in Event, inbox[n] \in Seq(Event),
           inbox'[n] = Append(inbox[n], x)
    PROVE  /\ inbox'[n] \in Seq(Event)
           /\ \A e \in Event : Awaits(n, e)' => Awaits(n, e) \/ e = x
<1>1. /\ inbox'[n] \in Seq(Event)
      /\ \A i \in DOMAIN inbox'[n] :
            (i \in DOMAIN inbox[n] /\ inbox'[n][i] = inbox[n][i]) \/ inbox'[n][i] = x
  BY Appended
<1> QED BY <1>1 DEF Awaits

\* The server goes on with connection n, which keeps its phone and submission.
LEMMA ServerMoves ==
    ASSUME IInv, UNCHANGED <<row, published, subscribed, messages, device>>, NEW n \in Conns,
           NEW c \in Connection, conn' = [conn EXCEPT ![n] = c],
           conn[n].pc # "none", c.pc # "none",
           c.submission = conn[n].submission, c.device = conn[n].device,
           inbox' \in [Conns -> Seq(Event)], \A m \in Conns : m # n => inbox'[m] = inbox[m],
           handlers' \in [Submissions -> SUBSET Conns], commands' \in Seq(Commands),
           HandlersOK', Watched', ConnOK(n)'
    PROVE  IInv'
<1>1. conn' \in [Conns -> Connection] /\ conn'[n] = c /\ \A m \in Conns : m # n => conn'[m] = conn[m]
  BY DEF IInv, TypeOK
<1>2. TypeOK'
  BY <1>1 DEF IInv, TypeOK, Commands
<1>3. RowKept /\ MessagesOK'
  BY DEF IInv, RowKept, MessagesOK
<1>4. \A m \in Conns : ConnOK(m)'
  BY <1>1, <1>3, ConnKept DEF IInv
<1>5. \A m \in Conns : conn[m].pc # "none" => SameWatch(m) /\ conn'[m].pc # "none"
  BY <1>1 DEF SameWatch
<1>6. \A d \in Devices : DeviceOK(d)'
  BY <1>3, <1>5, DeviceKept DEF IInv
<1> QED BY <1>2, <1>3, <1>4, <1>6 DEF IInv

\* What the other connections watch, and whether they are registered, stays.
LEMMA SameHandlers ==
    ASSUME IInv, UNCHANGED <<handlers, commands, subscribed>>,
           \A n \in Conns : /\ conn'[n].submission = conn[n].submission
                            /\ conn'[n].pc = "registered" <=> conn[n].pc = "registered"
    PROVE  /\ HandlersOK' /\ Watched'
           /\ handlers' \in [Submissions -> SUBSET Conns] /\ commands' \in Seq(Commands)
<1>1. handlers' \in [Submissions -> SUBSET Conns] /\ commands' \in Seq(Commands)
  BY DEF IInv, TypeOK, Commands
<1>2. \A s \in Submissions : Served(s)' <=> Served(s)
  BY DEF Served
<1>3. Watched'
  BY <1>2 DEF IInv, Watched
<1>4. HandlersOK'
  BY DEF IInv, HandlersOK
<1> QED BY <1>1, <1>3, <1>4

LEMMA SelectRowOK ==
    ASSUME IInv, NEW n \in Conns, SelectRow(n)
    PROVE  IInv'
<1> DEFINE r == row[conn[n].submission]
           c == [conn[n] EXCEPT !.pc = "answer", !.row = r]
<1>1. /\ conn[n].pc = "select" /\ conn' = [conn EXCEPT ![n].pc = "answer", ![n].row = r]
      /\ UNCHANGED <<row, published, subscribed, commands, messages, handlers, inbox, device>>
  BY DEF SelectRow, redisVars
<1>2. conn[n] \in Connection /\ ConnOK(n) /\ conn[n].submission \in Submissions
  BY <1>1 DEF IInv, TypeOK, ConnOK
<1>3. r \in Verdicts \cup {Open}
  BY <1>2 DEF IInv, TypeOK
<1>4. c \in Connection /\ conn' = [conn EXCEPT ![n] = c]
  BY <1>1, <1>2, <1>3 DEF Connection, IInv, TypeOK
<1>5. /\ conn'[n] = c /\ c.pc = "answer" /\ c.row = r /\ c.up = conn[n].up
      /\ c.submission = conn[n].submission /\ c.device = conn[n].device
      /\ \A m \in Conns : m # n => conn'[m] = conn[m]
  BY <1>2, <1>4 DEF Connection, IInv, TypeOK
<1>6. /\ HandlersOK' /\ Watched'
      /\ handlers' \in [Submissions -> SUBSET Conns] /\ commands' \in Seq(Commands)
  BY <1>1, <1>5, SameHandlers
<1>7. ConnOK(n)'
  <2>1. \A e \in Event : Awaits(n, e)' => Awaits(n, e)
    BY <1>1 DEF Awaits
  <2>2. \A e \in Event : EventOK(n, e) => EventOK(n, e)'
    <3>1. RowKept /\ SameWatch(n)
      BY <1>1, <1>5 DEF RowKept, SameWatch
    <3> QED BY <3>1, EventKept
  <2>3. \A e \in Event : Awaits(n, e)' => EventOK(n, e)'
    BY <1>2, <2>1, <2>2 DEF ConnOK
  <2>4. conn[n].submission \in Submissions /\ conn[n].device \in Devices
    BY <1>1, <1>2 DEF ConnOK
  <2>5. /\ conn'[n].pc = "answer" /\ conn'[n].row = row'[conn'[n].submission]
        /\ conn'[n].submission \in Submissions /\ conn'[n].device \in Devices
    BY <1>1, <1>5, <2>4
  <2> QED BY <2>3, <2>5 DEF ConnOK
<1>8. inbox' \in [Conns -> Seq(Event)]
  BY <1>1 DEF IInv, TypeOK
<1> QED BY <1>1, <1>4, <1>5, <1>6, <1>7, <1>8, ServerMoves

\* The server emits event x to n and is done with it.
LEMMA Replied ==
    ASSUME IInv, NEW n \in Conns, NEW x \in Event,
           UNCHANGED <<row, published, subscribed, messages, device, handlers, commands>>,
           conn[n].pc \in {"select", "answer"},
           conn' = [conn EXCEPT ![n].pc = "done"],
           inbox' = [inbox EXCEPT ![n] = Append(@, x)],
           EventOK(n, x)
    PROVE  IInv'
<1> DEFINE c == [conn[n] EXCEPT !.pc = "done"]
<1>1. conn[n] \in Connection /\ ConnOK(n) /\ inbox[n] \in Seq(Event)
  BY DEF IInv, TypeOK
<1>2. c \in Connection /\ conn' = [conn EXCEPT ![n] = c]
  BY <1>1 DEF Connection, IInv, TypeOK
<1>3. /\ conn'[n] = c /\ c.pc = "done" /\ c.up = conn[n].up
      /\ c.submission = conn[n].submission /\ c.device = conn[n].device
      /\ \A m \in Conns : m # n => conn'[m] = conn[m]
  BY <1>1, <1>2 DEF Connection, IInv, TypeOK
<1>4. /\ inbox'[n] = Append(inbox[n], x)
      /\ \A m \in Conns : m # n => inbox'[m] = inbox[m]
  BY DEF IInv, TypeOK
<1>5. /\ inbox'[n] \in Seq(Event)
      /\ \A e \in Event : Awaits(n, e)' => Awaits(n, e) \/ e = x
  BY <1>1, <1>4, Emitted
<1>6. inbox' \in [Conns -> Seq(Event)]
  BY <1>4, <1>5 DEF IInv, TypeOK
<1>7. /\ HandlersOK' /\ Watched'
      /\ handlers' \in [Submissions -> SUBSET Conns] /\ commands' \in Seq(Commands)
  BY <1>3, SameHandlers
<1>8. RowKept /\ SameWatch(n)
  BY <1>3 DEF RowKept, SameWatch
<1>9. \A e \in Event : Awaits(n, e)' => EventOK(n, e)'
  BY <1>1, <1>5, <1>8, EventKept DEF ConnOK
<1>10. ConnOK(n)'
  BY <1>1, <1>3, <1>9 DEF ConnOK
<1> QED BY <1>2, <1>3, <1>4, <1>6, <1>7, <1>10, ServerMoves

LEMMA SelectFailsOK ==
    ASSUME IInv, NEW n \in Conns, SelectFails(n)
    PROVE  IInv'
<1>1. SubmissionError \in Event /\ EventOK(n, SubmissionError)
  BY DEF SubmissionError, Event, EventOK
<1> QED BY <1>1, Replied DEF SelectFails, redisVars

LEMMA AnswerOK ==
    ASSUME IInv, NEW n \in Conns, Answer(n)
    PROVE  IInv'
<1>1. conn[n].pc = "answer" /\ UNCHANGED <<row, published, subscribed, messages, device>>
  BY DEF Answer
<1>2. conn[n] \in Connection /\ ConnOK(n) /\ conn[n].submission \in Submissions
  BY <1>1 DEF IInv, TypeOK, ConnOK
<1>3. CASE ~IsOwner(n)
  <2>1. SubmissionError \in Event /\ EventOK(n, SubmissionError)
    BY DEF SubmissionError, Event, EventOK
  <2> QED BY <1>1, <1>3, <2>1, Replied DEF Answer, Reply
<1>4. CASE IsOwner(n) /\ conn[n].row # Open
  <2> DEFINE v == conn[n].row
  <2>1. v = row[conn[n].submission] /\ v \in Verdicts
    BY <1>1, <1>2, <1>4 DEF ConnOK, IInv, TypeOK
  <2>2. Result(v) \in Event
    BY <2>1 DEF Result, Event
  <2>3. EventOK(n, Result(v))
    BY <1>1, <1>2, <1>4, <2>1 DEF EventOK, Result, Owned, IsOwner, ConnOK
  <2> QED BY <1>1, <1>4, <2>2, <2>3, Replied DEF Answer, Reply
<1>5. CASE IsOwner(n) /\ conn[n].row = Open
  <2> DEFINE s == conn[n].submission
             c == [conn[n] EXCEPT !.pc = "registered"]
  <2>1. subscribe(s, n) /\ conn' = [conn EXCEPT ![n].pc = "registered"] /\ UNCHANGED inbox
    BY <1>5 DEF Answer
  <2>2. Watched' /\ commands' \in Seq(Commands)
    BY <1>1, <1>2, <2>1, SubscribeServed DEF IInv
  <2>3. c \in Connection /\ conn' = [conn EXCEPT ![n] = c]
    BY <1>2, <2>1 DEF Connection, IInv, TypeOK
  <2>4. /\ conn'[n] = c /\ c.pc = "registered" /\ c.up = conn[n].up
        /\ c.submission = s /\ c.device = conn[n].device
        /\ \A m \in Conns : m # n => conn'[m] = conn[m]
    BY <1>2, <2>3 DEF Connection, IInv, TypeOK
  <2>5. /\ handlers' \in [Submissions -> SUBSET Conns]
        /\ handlers'[s] = handlers[s] \cup {n}
        /\ \A t \in Submissions : t # s => handlers'[t] = handlers[t]
    BY <1>2, <2>1 DEF subscribe, IInv, TypeOK
  <2>6. HandlersOK'
    <3> SUFFICES ASSUME NEW t \in Submissions
                 PROVE  handlers'[t] = {m \in Conns : /\ conn'[m].pc = "registered"
                                                      /\ conn'[m].submission = t}
      BY DEF HandlersOK
    <3>1. handlers[t] = {m \in Conns : conn[m].pc = "registered" /\ conn[m].submission = t}
      BY DEF IInv, HandlersOK
    <3>2. CASE t = s
      <4>1. handlers'[t] = handlers[t] \cup {n}
        BY <2>5, <3>2
      <4>2. conn'[n].pc = "registered" /\ conn'[n].submission = t
        BY <2>4, <3>2
      <4> QED BY <2>4, <3>1, <4>1, <4>2
    <3>3. CASE t # s
      <4>1. handlers'[t] = handlers[t]
        BY <2>5, <3>3
      <4>2. conn'[n].submission # t /\ conn[n].pc # "registered"
        BY <1>1, <2>4, <3>3
      <4>3. \A m \in Conns : (conn'[m].pc = "registered" /\ conn'[m].submission = t)
                                <=> (conn[m].pc = "registered" /\ conn[m].submission = t)
        BY <2>4, <4>2
      <4> QED BY <3>1, <4>1, <4>3
    <3> QED BY <3>2, <3>3
  <2>7. ConnOK(n)'
    BY <1>1, <1>2, <1>5, <2>1, <2>4 DEF ConnOK, Awaits, EventOK, Owned, IsOwner
  <2>8. inbox' \in [Conns -> Seq(Event)] /\ \A m \in Conns : m # n => inbox'[m] = inbox[m]
    BY <2>1 DEF IInv, TypeOK
  <2> QED BY <1>1, <2>2, <2>3, <2>4, <2>5, <2>6, <2>7, <2>8, ServerMoves
<1> QED BY <1>3, <1>4, <1>5

LEMMA DisconnectOK ==
    ASSUME IInv, NEW n \in Conns, Disconnect(n)
    PROVE  IInv'
<1> DEFINE s == conn[n].submission
<1>1. conn[n].up /\ UNCHANGED <<row, published, subscribed, messages, inbox, device>>
  BY DEF Disconnect
<1>2. /\ conn[n] \in Connection /\ ConnOK(n) /\ conn[n].pc # "none"
      /\ s \in Submissions
      /\ inbox' \in [Conns -> Seq(Event)] /\ \A m \in Conns : m # n => inbox'[m] = inbox[m]
  BY <1>1 DEF IInv, TypeOK, ConnOK
<1>3. CASE conn[n].pc = "registered"
  <2> DEFINE c == [conn[n] EXCEPT !.up = FALSE, !.pc = "done"]
  <2>1. unsubscribe(s, {n}) /\ conn' = [conn EXCEPT ![n].up = FALSE, ![n].pc = "done"]
    BY <1>3 DEF Disconnect
  <2>2. Watched' /\ commands' \in Seq(Commands)
    BY <1>1, <1>2, <2>1, UnsubscribeServed DEF IInv
  <2>3. c \in Connection /\ conn' = [conn EXCEPT ![n] = c]
    BY <1>2, <2>1 DEF Connection, IInv, TypeOK
  <2>4. /\ conn'[n] = c /\ c.pc = "done" /\ c.up = FALSE
        /\ c.submission = s /\ c.device = conn[n].device
        /\ \A m \in Conns : m # n => conn'[m] = conn[m]
    BY <1>2, <2>3 DEF Connection, IInv, TypeOK
  <2>5. /\ handlers' \in [Submissions -> SUBSET Conns]
        /\ handlers'[s] = handlers[s] \ {n}
        /\ \A t \in Submissions : t # s => handlers'[t] = handlers[t]
    BY <1>2, <2>1 DEF unsubscribe, IInv, TypeOK
  <2>6. HandlersOK'
    <3> SUFFICES ASSUME NEW t \in Submissions
                 PROVE  handlers'[t] = {m \in Conns : /\ conn'[m].pc = "registered"
                                                      /\ conn'[m].submission = t}
      BY DEF HandlersOK
    <3>1. handlers[t] = {m \in Conns : conn[m].pc = "registered" /\ conn[m].submission = t}
      BY DEF IInv, HandlersOK
    <3>2. CASE t = s
      BY <2>4, <2>5, <3>1, <3>2
    <3>3. CASE t # s
      <4>1. \A m \in Conns : (conn'[m].pc = "registered" /\ conn'[m].submission = t)
                                <=> (conn[m].pc = "registered" /\ conn[m].submission = t)
        BY <2>4, <3>3
      <4> QED BY <2>5, <3>1, <3>3, <4>1
    <3> QED BY <3>2, <3>3
  <2>7. ConnOK(n)'
    BY <1>1, <1>2, <2>4 DEF ConnOK, Awaits, EventOK, Owned
  <2> QED BY <1>1, <1>2, <2>2, <2>3, <2>4, <2>5, <2>6, <2>7, ServerMoves
<1>4. CASE conn[n].pc # "registered"
  <2> DEFINE c == [conn[n] EXCEPT !.up = FALSE]
  <2>1. conn' = [conn EXCEPT ![n].up = FALSE] /\ UNCHANGED <<handlers, commands>>
    BY <1>4 DEF Disconnect
  <2>2. c \in Connection /\ conn' = [conn EXCEPT ![n] = c]
    BY <1>2, <2>1 DEF Connection, IInv, TypeOK
  <2>3. /\ conn'[n] = c /\ c.pc = conn[n].pc /\ c.up = FALSE /\ c.row = conn[n].row
        /\ c.submission = s /\ c.device = conn[n].device
        /\ \A m \in Conns : m # n => conn'[m] = conn[m]
    BY <1>2, <2>2 DEF Connection, IInv, TypeOK
  <2>4. /\ HandlersOK' /\ Watched'
        /\ handlers' \in [Submissions -> SUBSET Conns] /\ commands' \in Seq(Commands)
    BY <1>1, <2>1, <2>3, SameHandlers
  <2>5. ConnOK(n)'
    BY <1>1, <1>2, <2>3 DEF ConnOK, Awaits, EventOK, Owned
  <2> QED BY <1>1, <1>2, <2>2, <2>3, <2>4, <2>5, ServerMoves
<1> QED BY <1>3, <1>4

\* A message reaches those who are registered, and only the owner is.
LEMMA MessageOK ==
    ASSUME IInv, Message
    PROVE  IInv'
<1> DEFINE m == Head(messages)
           s == m.channel
           x == Result(m.verdict)
           told == handlers[s]
<1>1. /\ messages # <<>> /\ messages' = Tail(messages)
      /\ UNCHANGED <<row, published, subscribed, device>>
      /\ unsubscribe(s, told)
      /\ \A n \in Conns : n \in told => /\ inbox'[n] = Append(inbox[n], x)
                                        /\ conn'[n] = [conn[n] EXCEPT !.pc = "done"]
      /\ \A n \in Conns : n \notin told => inbox'[n] = inbox[n] /\ conn'[n] = conn[n]
  BY DEF Message
<1>2. messages \in Seq(Messages)
  BY DEF IInv, TypeOK, Messages
<1>3. /\ messages' \in Seq(Messages) /\ 1 \in DOMAIN messages /\ messages[1] = m /\ m \in Messages
      /\ \A i \in DOMAIN messages' : i + 1 \in DOMAIN messages /\ messages'[i] = messages[i + 1]
  BY <1>1, <1>2, Taken
<1>4. s \in Submissions /\ m.verdict = row[s] /\ x \in Event
  BY <1>3 DEF IInv, MessagesOK, Messages, Result, Event
<1>5. told = {n \in Conns : conn[n].pc = "registered" /\ conn[n].submission = s}
  BY <1>4 DEF IInv, HandlersOK
<1>6. Watched' /\ commands' \in Seq(Commands)
  BY <1>1, <1>4, UnsubscribeServed DEF IInv
<1>7. \A n \in Conns : conn[n] \in Connection /\ ConnOK(n) /\ inbox[n] \in Seq(Event)
  BY DEF IInv, TypeOK
<1>8. \A n \in told : /\ conn'[n].pc = "done" /\ conn'[n].up = conn[n].up
                      /\ conn'[n].submission = conn[n].submission
                      /\ conn'[n].device = conn[n].device /\ conn'[n] \in Connection
  <2> SUFFICES ASSUME NEW n \in told
               PROVE  /\ conn'[n].pc = "done" /\ conn'[n].up = conn[n].up
                      /\ conn'[n].submission = conn[n].submission
                      /\ conn'[n].device = conn[n].device /\ conn'[n] \in Connection
    OBVIOUS
  <2>1. n \in Conns /\ conn[n] \in Connection
    BY <1>5, <1>7
  <2>2. conn'[n] = [conn[n] EXCEPT !.pc = "done"]
    BY <1>1, <2>1
  <2> QED BY <2>1, <2>2 DEF Connection
<1>9. \A n \in Conns : SameWatch(n) /\ (conn[n].pc # "none" => conn'[n].pc # "none")
  BY <1>1, <1>8 DEF SameWatch
<1>10. RowKept
  BY <1>1 DEF RowKept
<1>11. ASSUME NEW n \in Conns
       PROVE  ConnOK(n)' /\ inbox'[n] \in Seq(Event)
  <2>1. CASE n \notin told
    BY <1>1, <1>7, <1>10, <2>1, ConnKept DEF IInv
  <2>2. CASE n \in told
    <3>1. /\ inbox'[n] \in Seq(Event)
          /\ \A e \in Event : Awaits(n, e)' => Awaits(n, e) \/ e = x
      BY <1>1, <1>4, <1>7, <2>2, Emitted
    <3>2. EventOK(n, x)
      BY <1>4, <1>5, <1>7, <2>2 DEF ConnOK, EventOK, Result
    <3>3. \A e \in Event : Awaits(n, e)' => EventOK(n, e)'
      BY <1>7, <1>9, <1>10, <3>1, <3>2, EventKept DEF ConnOK
    <3>4. conn[n].pc = "registered"
      BY <1>5, <2>2
    <3> QED BY <1>7, <1>8, <2>2, <3>1, <3>3, <3>4 DEF ConnOK
  <2> QED BY <2>1, <2>2
<1>12. /\ handlers' \in [Submissions -> SUBSET Conns] /\ handlers'[s] = {}
       /\ \A t \in Submissions : t # s => handlers'[t] = handlers[t]
  BY <1>1, <1>4 DEF unsubscribe, IInv, TypeOK
<1>13. HandlersOK'
  <2> SUFFICES ASSUME NEW t \in Submissions
               PROVE  handlers'[t] = {n \in Conns : /\ conn'[n].pc = "registered"
                                                    /\ conn'[n].submission = t}
    BY DEF HandlersOK
  <2>1. handlers[t] = {n \in Conns : conn[n].pc = "registered" /\ conn[n].submission = t}
    BY DEF IInv, HandlersOK
  <2>2. CASE t = s
    BY <1>1, <1>5, <1>8, <1>12, <2>2
  <2>3. CASE t # s
    BY <1>1, <1>5, <1>8, <1>12, <2>1, <2>3
  <2> QED BY <2>2, <2>3
<1>14. /\ conn' \in [Conns -> Connection] /\ inbox' \in [Conns -> Seq(Event)]
  <2>1. DOMAIN conn' = Conns /\ DOMAIN inbox' = Conns
    BY DEF Message
  <2>2. \A n \in Conns : conn'[n] \in Connection
    BY <1>1, <1>7, <1>8
  <2>3. conn' = [n \in Conns |-> conn'[n]] /\ inbox' = [n \in Conns |-> inbox'[n]]
    BY DEF Message
  <2> QED BY <1>11, <2>2, <2>3
<1>15. TypeOK'
  BY <1>1, <1>3, <1>6, <1>12, <1>14 DEF IInv, TypeOK, Messages, Commands
<1>16. MessagesOK'
  BY <1>1, <1>3 DEF IInv, MessagesOK
<1>17. \A d \in Devices : DeviceOK(d)'
  BY <1>1, <1>9, <1>10, DeviceKept DEF IInv
<1> QED BY <1>6, <1>11, <1>13, <1>15, <1>16, <1>17 DEF IInv

\* An unused connection is opened for the phone that connects.
LEMMA ConnectOK ==
    ASSUME IInv, NEW d \in Devices, NEW n \in Conns, Connect(d, n)
    PROVE  IInv'
<1> DEFINE t == device[d].target
           c == [device |-> d, submission |-> t, pc |-> "select", row |-> None, up |-> TRUE]
           h == [device[d] EXCEPT !.phase = "watching", !.conn = n, !.tries = Attempts]
<1>1. /\ UNCHANGED <<row, published, subscribed, commands, messages, handlers, inbox>>
      /\ device[d].conn = 0 /\ device[d].tries > 0 /\ conn[n] = Unused
      /\ conn' = [conn EXCEPT ![n] = c]
      /\ device' = [device EXCEPT ![d].phase = "watching", ![d].conn = n, ![d].tries = Attempts]
  BY DEF Connect, Connecting, redisVars
<1>2. device[d] \in Hook /\ DeviceOK(d) /\ device[d].conn \in Nat
  BY HookType
<1>3. t \in Submissions /\ device[d].result = None
  BY <1>1, <1>2 DEF DeviceOK
<1>4. n \in Nat \ {0} /\ n \in 0..MaxConns /\ Attempts \in 0..Attempts
  BY DeliveryAssumption DEF Conns
<1>5. c \in Connection
  BY <1>3 DEF Connection
<1>6. h \in Hook /\ device' = [device EXCEPT ![d] = h]
  BY <1>1, <1>2, <1>4 DEF Hook, IInv, TypeOK
<1>7. /\ device'[d] = h /\ h.phase = "watching" /\ h.conn = n /\ h.result = None
      /\ h.target = t /\ \A e \in Devices : e # d => device'[e] = device[e]
  BY <1>2, <1>3, <1>6 DEF Hook, IInv, TypeOK
<1>8. conn'[n] = c /\ \A m \in Conns : m # n => conn'[m] = conn[m]
  BY <1>1 DEF IInv, TypeOK
<1>9. TypeOK'
  <2>1. conn' \in [Conns -> Connection] /\ device' \in [Devices -> Hook]
    BY <1>1, <1>5, <1>6 DEF IInv, TypeOK
  <2> QED BY <1>1, <2>1 DEF IInv, TypeOK
<1>10. RowKept /\ MessagesOK'
  BY <1>1 DEF IInv, RowKept, MessagesOK
<1>11. conn[n].pc = "none" /\ conn[n].submission = None
  BY <1>1 DEF Unused
<1>12. HandlersOK' /\ Watched'
  <2>1. Watched'
    <3>1. \A s \in Submissions : Served(s)' <=> Served(s)
      BY <1>1 DEF Served
    <3> QED BY <1>1, <3>1 DEF IInv, Watched
  <2>2. HandlersOK'
    <3>1. \A m \in Conns : /\ conn'[m].pc = "registered" <=> conn[m].pc = "registered"
                           /\ conn[m].pc = "registered" => conn'[m] = conn[m]
      BY <1>8, <1>11
    <3> QED BY <1>1, <3>1 DEF IInv, HandlersOK
  <2> QED BY <2>1, <2>2
<1>13. \A m \in Conns : m # n => ConnOK(m)'
  BY <1>1, <1>8, <1>10, ConnKept DEF IInv
<1>14. ConnOK(n)'
  <2>1. \A e \in Event : Awaits(n, e)' => e.type # "submission:result"
    <3>1. \A e \in Event : Awaits(n, e)' => Awaits(n, e)
      BY <1>1 DEF Awaits
    <3>2. \A e \in Event : Awaits(n, e) => EventOK(n, e)
      BY DEF IInv, ConnOK
    <3>3. ~Owned(n)
      BY <1>11, DeliveryAssumption DEF Owned
    <3> QED BY <3>1, <3>2, <3>3 DEF EventOK
  <2> QED BY <1>3, <1>8, <2>1 DEF ConnOK, EventOK
<1>15. \A m \in Conns : conn[m].pc # "none" => SameWatch(m) /\ conn'[m].pc # "none"
  BY <1>8, <1>11 DEF SameWatch
<1>16. \A e \in Devices : e # d => DeviceOK(e)'
  BY <1>7, <1>10, <1>15, DeviceKept DEF IInv
<1>17. DeviceOK(d)'
  BY <1>3, <1>4, <1>7, <1>8 DEF DeviceOK
<1> QED BY <1>9, <1>10, <1>12, <1>13, <1>14, <1>16, <1>17 DEF IInv

-----------------------------------------------------------------------------
LEMMA InitOK ==
    ASSUME Init
    PROVE  IInv
<1>1. Unused \in Connection /\ Idle \in Hook
  BY DeliveryAssumption DEF Unused, Connection, Idle, Hook
<1>2. <<>> \in Seq(Event) /\ <<>> \in Seq(Commands) /\ <<>> \in Seq(Messages)
  OBVIOUS
<1>3. TypeOK
  <2>1. published \in [Submissions -> 0..MaxPublish]
    BY DeliveryAssumption DEF Init
  <2> QED BY <1>1, <1>2, <2>1 DEF Init, TypeOK, Commands, Messages
<1>4. MessagesOK /\ HandlersOK /\ Watched
  BY DEF Init, MessagesOK, HandlersOK, Watched, Served, Unused
<1>5. ASSUME NEW n \in Conns PROVE ConnOK(n)
  <2>1. conn[n] = Unused /\ inbox[n] = <<>>
    BY <1>5 DEF Init
  <2> QED BY <2>1 DEF ConnOK, Awaits, Unused
<1>6. ASSUME NEW d \in Devices PROVE DeviceOK(d)
  <2>1. device[d] = Idle
    BY <1>6 DEF Init
  <2> QED BY <2>1 DEF DeviceOK, Idle
<1> QED BY <1>3, <1>4, <1>5, <1>6 DEF IInv

LEMMA NextOK ==
    ASSUME IInv, [Next]_vars
    PROVE  IInv'
<1>1. ASSUME NEW s \in Submissions, Store(s) \/ Publish(s) PROVE IInv'
  BY <1>1, StoreOK, PublishOK
<1>2. ASSUME Command \/ Message PROVE IInv'
  BY <1>2, CommandOK, MessageOK
<1>3. ASSUME NEW n \in Conns, Server(n) \/ SelectFails(n) \/ Disconnect(n) PROVE IInv'
  BY <1>3, SelectRowOK, AnswerOK, SelectFailsOK, DisconnectOK DEF Server
<1>4. ASSUME NEW d \in Devices, NEW s \in Submissions, watch(d, s) PROVE IInv'
  BY <1>4, WatchOK
<1>5. ASSUME NEW d \in Devices, NEW n \in Conns, Connect(d, n) PROVE IInv'
  BY <1>5, ConnectOK
<1>6. ASSUME NEW d \in Devices, ConnectFails(d) \/ ConnectionLost(d) \/ Receive(d) \/ Leave(d)
      PROVE  IInv'
  BY <1>6, ConnectFailsOK, ConnectionLostOK, ReceiveOK, LeaveOK
<1>7. CASE UNCHANGED vars
  <2>1. /\ UNCHANGED <<row, published, subscribed, commands, messages, handlers, conn, inbox>>
        /\ UNCHANGED device
    BY <1>7 DEF vars, redisVars, serverVars
  <2>2. RowKept /\ TypeOK' /\ MessagesOK' /\ HandlersOK'
    BY <2>1 DEF IInv, RowKept, TypeOK, MessagesOK, HandlersOK
  <2>3. Watched'
    BY <2>1 DEF IInv, Watched, Served
  <2> QED BY <2>1, <2>2, <2>3, Elsewhere DEF IInv
<1> QED BY <1>1, <1>2, <1>3, <1>4, <1>5, <1>6, <1>7 DEF Next

LEMMA Invariance == Spec => []IInv
<1>1. Init => IInv
  BY InitOK
<1>2. IInv /\ [Next]_vars => IInv'
  BY NextOK
<1> QED BY <1>1, <1>2, PTL DEF Spec

(* The records, queues and inboxes hold only what their type says: no      *)
(* action needs more connections or attempts than there are.               *)
THEOREM TypeCorrect == Spec => []TypeOK
<1>1. IInv => TypeOK
  BY DEF IInv
<1> QED BY <1>1, Invariance, PTL

(* redis.js: with any number of watchers, however SUBSCRIBE, UNSUBSCRIBE   *)
(* and messages overlap, what Redis will serve is what somebody listens to.*)
THEOREM SubscriptionsMatch == Spec => []SubscriptionMatchesHandlers
<1>1. IInv => SubscriptionMatchesHandlers
  BY DEF IInv, HandlersOK, Watched, SubscriptionMatchesHandlers
<1> QED BY <1>1, Invariance, PTL

(* A phone shows only the stored verdict of the submission it watches, and *)
(* only to the owner, whatever is lost, published twice or overtaken.      *)
THEOREM ShownVerdictsAreTrue == Spec => []ShownIsTrue
<1>1. IInv => ShownIsTrue
  BY DEF IInv, DeviceOK, ShownIsTrue
<1> QED BY <1>1, Invariance, PTL
=============================================================================
