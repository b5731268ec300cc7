--------------------------- MODULE AppSessionProofs ---------------------------
(***************************************************************************)
(* Theorems about AppSession, for every number of accounts, attempts and   *)
(* requests.                                                               *)
(*                                                                         *)
(* The argument: a request whose fetch is still live was sent with the     *)
(* session the phone has, unless a session was overtaken, and what it      *)
(* brings is about the user of its token; what it read before a            *)
(* registration was confirmed is either marked missed or no longer live.   *)
(***************************************************************************)
EXTENDS AppSession, TLAPS

Distinct == \A u, v \in users : u.email = v.email \/ u.username = v.username => u = v

Made(i) == attempt[i].kind = "signup" /\ attempt[i].pc = "granted"

MadeOnce ==
    \A i, j \in Attempts :
        Made(i) /\ Made(j) /\ attempt[i].typed.email = attempt[j].typed.email => i = j

AttemptOK(i) ==
    /\ attempt[i].pc \in Pending => attempt[i].typed \in Accounts
    /\ attempt[i].pc = "granted" => attempt[i].typed \in users

Brought(r) == request[r].pc = "answered" /\ request[r].answer # None

RequestOK(r) ==
    /\ request[r].pc # "unused" => request[r].token \in Token /\ request[r].token.user \in users
    /\ request[r].live =>
          /\ request[r].pc # "unused" /\ session # None
          /\ request[r].token.user = session.user \/ overtaken
    /\ Brought(r) =>
          /\ request[r].answer.owner = request[r].token.user
          /\ request[r].key = "register" => request[r].answer.owner \in registered
          /\ /\ request[r].live /\ request[r].key \in Lists \ missed
             /\ request[r].answer.owner \in confirmed
             => request[r].answer.registered

CacheOK(k) ==
    /\ cache[k].seen # None =>
          session # None /\ (cache[k].seen.owner = session.user \/ overtaken)
    /\ k \notin missed /\ cache[k].fresh /\ cache[k].seen.owner \in confirmed =>
          cache[k].seen.registered

AccountsOK ==
    /\ Distinct
    /\ MadeOnce
    /\ \A i \in Attempts : AttemptOK(i)
    /\ session # None => session.user \in users

IInv ==
    /\ TypeOK
    /\ AccountsOK
    /\ confirmed \subseteq registered
    /\ \A r \in Requests : RequestOK(r)
    /\ \A k \in Lists : CacheOK(k)

-----------------------------------------------------------------------------
(* The records the actions write.                                          *)

LEMMA Blanks ==
    /\ NoAttempt \in AttemptRecord /\ Over \in AttemptRecord
    /\ NoAttempt.pc = "unused" /\ Over.pc = "over"
    /\ NoRequest \in RequestRecord /\ NoRequest.pc = "unused" /\ ~ NoRequest.live
    /\ Forgotten \in [Lists -> Entry]
    /\ \A k \in Lists : Forgotten[k].seen = None /\ ~ Forgotten[k].fresh
BY DEF NoAttempt, Over, AttemptRecord, NoRequest, RequestRecord, Forgotten, Entry

(* A call of the login or sign-up screens takes a step, and the users      *)
(* table may grow with it.                                                 *)
LEMMA AttemptMoves ==
    ASSUME IInv, UNCHANGED <<registered, expired, request, phoneVars>>,
           users \subseteq users', users' \subseteq Accounts, Distinct',
           NEW i \in Attempts, NEW a \in AttemptRecord, attempt' = [attempt EXCEPT ![i] = a],
           a.pc \in Pending => a.typed \in Accounts,
           a.pc = "granted" => a.typed \in users',
           a.pc = "granted" /\ a.kind = "signup" =>
               \A j \in Attempts : Made(j) => attempt[j].typed.email # a.typed.email
    PROVE  IInv'
<1>1. attempt'[i] = a /\ \A j \in Attempts : j # i => attempt'[j] = attempt[j]
  BY DEF IInv, TypeOK
<1>2. TypeOK'
  BY DEF IInv, TypeOK, phoneVars, upsets
<1>3. \A j \in Attempts : AttemptOK(j)'
  BY <1>1 DEF IInv, AccountsOK, AttemptOK
<1>4. MadeOnce'
  BY <1>1 DEF IInv, AccountsOK, MadeOnce, Made
<1>5. (session # None => session.user \in users)'
  BY DEF IInv, AccountsOK, phoneVars
<1>6. \A r \in Requests : RequestOK(r)'
  BY DEF IInv, RequestOK, Brought, phoneVars, upsets
<1>7. \A k \in Lists : CacheOK(k)'
  BY DEF IInv, CacheOK, phoneVars, upsets
<1>8. (confirmed \subseteq registered)'
  BY DEF IInv, phoneVars
<1> QED BY <1>2, <1>3, <1>4, <1>5, <1>6, <1>7, <1>8 DEF IInv, AccountsOK

(* Attempts that end.                                                      *)
LEMMA EndedAttempts ==
    ASSUME IInv, UNCHANGED users, NEW I \in SUBSET Attempts,
           attempt' = [i \in Attempts |-> IF i \in I THEN Over ELSE attempt[i]],
           session' # None => session'.user \in users
    PROVE  AccountsOK' /\ attempt' \in [Attempts -> AttemptRecord]
<1>1. \A i \in Attempts : attempt'[i] = Over \/ attempt'[i] = attempt[i]
  OBVIOUS
<1>2. Over.pc = "over"
  BY Blanks
<1>3. \A i \in Attempts : AttemptOK(i)'
  BY <1>1, <1>2 DEF IInv, AccountsOK, AttemptOK, Pending
<1>4. \A i \in Attempts : Made(i)' => Made(i) /\ attempt'[i] = attempt[i]
  BY <1>1, <1>2 DEF Made
<1>5. MadeOnce'
  BY <1>4 DEF IInv, AccountsOK, MadeOnce
<1>6. attempt' \in [Attempts -> AttemptRecord]
  BY Blanks DEF IInv, TypeOK
<1> QED BY <1>3, <1>5, <1>6 DEF IInv, AccountsOK, Distinct

(* The cache is cleared: nothing is shown and no fetch is live.            *)
LEMMA Cleared ==
    ASSUME IInv, UNCHANGED serverVars, AccountsOK',
           attempt' \in [Attempts -> AttemptRecord], session' \in {session, None},
           cache' = Forgotten, confirmed' = {}, overtaken' = FALSE, missed' = {},
           request' \in [Requests -> RequestRecord],
           \A r \in Requests :
               \/ request'[r] = NoRequest
               \/ request'[r] = [request[r] EXCEPT !.live = FALSE]
    PROVE  IInv'
<1>1. TypeOK'
  BY Blanks DEF IInv, TypeOK, serverVars
<1>2. ASSUME NEW r \in Requests PROVE RequestOK(r)'
  <2>1. CASE request'[r] = NoRequest
    BY <2>1, Blanks DEF RequestOK, Brought
  <2>2. CASE request'[r] = [request[r] EXCEPT !.live = FALSE]
    <3>1. request[r] \in RequestRecord
      BY DEF IInv, TypeOK
    <3>2. /\ request'[r].pc = request[r].pc /\ request'[r].token = request[r].token
          /\ request'[r].answer = request[r].answer /\ request'[r].key = request[r].key
          /\ ~ request'[r].live
      BY <2>2, <3>1 DEF RequestRecord
    <3> QED BY <3>2 DEF IInv, RequestOK, Brought, serverVars
  <2> QED BY <2>1, <2>2
<1>3. \A k \in Lists : CacheOK(k)'
  BY Blanks DEF CacheOK
<1> QED BY <1>1, <1>2, <1>3 DEF IInv

(* A step of the queries keeps accounts, attempts and session.             *)
LEMMA QueryStep ==
    ASSUME IInv, UNCHANGED <<users, expired, attempt, session, overtaken>>,
           registered \subseteq registered', registered' \subseteq users,
           confirmed' \subseteq registered', missed' \subseteq Lists,
           request' \in [Requests -> RequestRecord], cache' \in [Lists -> Entry],
           \A r \in Requests : RequestOK(r)', \A k \in Lists : CacheOK(k)'
    PROVE  IInv'
<1>1. TypeOK'
  BY DEF IInv, TypeOK
<1>2. AccountsOK'
  BY DEF IInv, AccountsOK, Distinct, MadeOnce, Made, AttemptOK
<1> QED BY <1>1, <1>2 DEF IInv

-----------------------------------------------------------------------------
(* Logins and sign-ups.                                                    *)

LEMMA SendInv ==
    ASSUME IInv, NEW i \in Attempts, NEW kind \in {"login", "signup"}, Send(i, kind)
    PROVE  IInv'
<1>1. PICK acc \in Accounts, right \in BOOLEAN :
          attempt' = [attempt EXCEPT ![i] = [pc |-> "sent", kind |-> kind, typed |-> acc,
                                             password |-> right]]
  BY DEF Send
<1> DEFINE a == [pc |-> "sent", kind |-> kind, typed |-> acc, password |-> right]
<1>2. a \in AttemptRecord /\ a.pc = "sent" /\ a.typed = acc
  BY DEF AttemptRecord
<1> QED BY <1>1, <1>2, AttemptMoves DEF Send, serverVars, IInv, TypeOK, AccountsOK, Distinct

(* The backend goes on with a call, which keeps what was typed.            *)
LEMMA ToServerInv ==
    ASSUME IInv, NEW i \in Attempts, NEW pc \in {"hashing", "refused", "401"},
           ToServer(i, pc), attempt[i].pc \in Pending,
           UNCHANGED <<serverVars, request, phoneVars>>
    PROVE  IInv'
<1> DEFINE a == [attempt[i] EXCEPT !.pc = pc]
<1>1. attempt[i] \in AttemptRecord /\ AttemptOK(i)
  BY DEF IInv, TypeOK, AccountsOK
<1>2. a \in AttemptRecord /\ a.pc = pc /\ a.typed = attempt[i].typed
  BY <1>1 DEF AttemptRecord
<1>3. attempt' = [attempt EXCEPT ![i] = a]
  BY DEF ToServer
<1> QED BY <1>1, <1>2, <1>3, AttemptMoves
        DEF serverVars, IInv, TypeOK, AccountsOK, Distinct, AttemptOK

LEMMA SignupCheckInv ==
    ASSUME IInv, NEW i \in Attempts, SignupCheck(i)
    PROVE  IInv'
BY ToServerInv DEF SignupCheck, Pending

(* The unique constraints: the loser of a race inserts nothing.            *)
LEMMA SignupInsertInv ==
    ASSUME IInv, NEW i \in Attempts, SignupInsert(i)
    PROVE  IInv'
<1>1. CASE Clash(attempt[i].typed) # {}
  BY <1>1, ToServerInv DEF SignupInsert, Pending, serverVars
<1>2. CASE Clash(attempt[i].typed) = {}
  <2> DEFINE a == [attempt[i] EXCEPT !.pc = "granted"]
  <2>1. /\ attempt[i] \in AttemptRecord /\ AttemptOK(i) /\ attempt[i].pc = "hashing"
        /\ users \subseteq Accounts /\ Distinct
    BY DEF IInv, TypeOK, AccountsOK, SignupInsert
  <2>2. /\ a \in AttemptRecord /\ a.pc = "granted" /\ a.typed = attempt[i].typed
        /\ a.typed \in Accounts
    BY <2>1 DEF AttemptRecord, AttemptOK, Pending
  <2>3. users' = users \cup {a.typed} /\ attempt' = [attempt EXCEPT ![i] = a]
    BY <1>2, <2>2 DEF SignupInsert, ToServer
  <2>4. \A u \in users : u.email # a.typed.email /\ u.username # a.typed.username
    BY <1>2, <2>2 DEF Clash
  <2>5. Distinct'
    BY <2>1, <2>3, <2>4 DEF Distinct
  <2>6. \A j \in Attempts : Made(j) => attempt[j].typed.email # a.typed.email
    BY <2>4 DEF IInv, AccountsOK, AttemptOK, Made
  <2>7. users \subseteq users' /\ users' \subseteq Accounts /\ a.typed \in users'
    BY <2>1, <2>2, <2>3
  <2> HIDE DEF a
  <2> QED BY <2>2, <2>3, <2>5, <2>6, <2>7, AttemptMoves DEF SignupInsert
<1> QED BY <1>1, <1>2

LEMMA LoginInv ==
    ASSUME IInv, NEW i \in Attempts, Login(i)
    PROVE  IInv'
<1>1. CASE ToServer(i, "401")
  BY <1>1, ToServerInv DEF Login, Pending
<1>2. ASSUME NEW u \in users,
             attempt' = [attempt EXCEPT ![i].pc = "granted", ![i].typed = u]
      PROVE  IInv'
  <2> DEFINE a == [attempt[i] EXCEPT !.pc = "granted", !.typed = u]
  <2>1. attempt[i] \in AttemptRecord /\ attempt[i].kind = "login" /\ users \subseteq Accounts
    BY DEF IInv, TypeOK, Login
  <2>2. /\ a \in AttemptRecord /\ a.pc = "granted" /\ a.typed = u /\ a.kind = "login"
        /\ u \in Accounts
    BY <2>1 DEF AttemptRecord
  <2>3. attempt' = [attempt EXCEPT ![i] = a]
    BY <1>2
  <2>4. UNCHANGED <<users, registered, expired, request, phoneVars>> /\ Distinct'
    BY DEF Login, serverVars, IInv, AccountsOK, Distinct
  <2> HIDE DEF a
  <2> QED BY <2>1, <2>2, <2>3, <2>4, AttemptMoves
<1> QED BY <1>1, <1>2 DEF Login

LEMMA AttemptLostInv ==
    ASSUME IInv, NEW i \in Attempts, attempt' = [attempt EXCEPT ![i] = Over],
           UNCHANGED <<serverVars, request, phoneVars>>
    PROVE  IInv'
BY Blanks, AttemptMoves DEF serverVars, IInv, TypeOK, AccountsOK, Distinct, Pending

(* A session begins: nothing is shown yet, or it overtook another one.     *)
LEMMA setAuthInv ==
    ASSUME IInv, NEW i \in Attempts, setAuth(i)
    PROVE  IInv'
<1>1. PICK new : new = [user |-> attempt[i].typed, of |-> i]
  OBVIOUS
<1>2. attempt[i].typed \in users /\ attempt[i].typed \in Accounts
  BY DEF IInv, TypeOK, AccountsOK, AttemptOK, setAuth
<1>3. session' = new /\ new \in Token /\ new.user = attempt[i].typed /\ new # None
  BY <1>1, <1>2, SessionAssumption DEF setAuth, Token
<1>4. /\ attempt' = [j \in Attempts |-> IF j \in {i} THEN Over ELSE attempt[j]]
      /\ overtaken' = (overtaken \/ session # None)
      /\ UNCHANGED <<users, registered, expired, request, cache, confirmed, missed>>
  BY DEF setAuth, serverVars, IInv, TypeOK
<1>5. AccountsOK' /\ attempt' \in [Attempts -> AttemptRecord]
  BY <1>2, <1>3, <1>4, EndedAttempts
<1>6. TypeOK'
  BY <1>3, <1>4, <1>5 DEF IInv, TypeOK
<1>7. \A r \in Requests : RequestOK(r)'
  BY <1>3, <1>4 DEF IInv, TypeOK, RequestOK, Brought
<1>8. \A k \in Lists : CacheOK(k)'
  BY <1>3, <1>4 DEF IInv, TypeOK, CacheOK
<1>9. (confirmed \subseteq registered)'
  BY <1>4 DEF IInv
<1> QED BY <1>5, <1>6, <1>7, <1>8, <1>9 DEF IInv

(* logout() and clear() after some calls ended.                            *)
LEMMA EndSessionInv ==
    ASSUME IInv, NEW done \in SUBSET Requests, endSession(done), UNCHANGED serverVars,
           NEW I \in SUBSET Attempts,
           attempt' = [i \in Attempts |-> IF i \in I THEN Over ELSE attempt[i]]
    PROVE  IInv'
<1>1. AccountsOK' /\ attempt' \in [Attempts -> AttemptRecord]
  BY EndedAttempts DEF endSession, serverVars
<1>2. \A r \in Requests : request[r] \in RequestRecord
                          /\ [request[r] EXCEPT !.live = FALSE] \in RequestRecord
  BY DEF IInv, TypeOK, RequestRecord
<1>3. request' = [r \in Requests |-> IF r \in done THEN NoRequest
                                     ELSE [request[r] EXCEPT !.live = FALSE]]
  BY DEF endSession, Clear
<1>4. request' \in [Requests -> RequestRecord]
  BY <1>2, <1>3, Blanks
<1>5. \A r \in Requests : \/ request'[r] = NoRequest
                         \/ request'[r] = [request[r] EXCEPT !.live = FALSE]
  BY <1>3
<1>6. /\ session' \in {session, None} /\ cache' = Forgotten /\ confirmed' = {}
      /\ overtaken' = FALSE /\ missed' = {}
  BY DEF endSession, Clear
<1> QED BY <1>1, <1>4, <1>5, <1>6, Cleared

LEMMA AttemptRefusedInv ==
    ASSUME IInv, NEW i \in Attempts, AttemptRefused(i)
    PROVE  IInv'
<1>1. attempt' = [j \in Attempts |-> IF j \in {i} THEN Over ELSE attempt[j]]
  BY DEF AttemptRefused, IInv, TypeOK
<1>2. CASE UNCHANGED <<request, phoneVars>>
  BY <1>2, AttemptLostInv DEF AttemptRefused
<1>3. CASE endSession({})
  BY <1>1, <1>3, EndSessionInv DEF AttemptRefused
<1> QED BY <1>2, <1>3 DEF AttemptRefused

LEMMA LogoutInv == ASSUME IInv, handleLogout PROVE IInv'
<1>1. attempt' = [i \in Attempts |-> IF i \in {} THEN Over ELSE attempt[i]]
  BY DEF handleLogout, IInv, TypeOK
<1> QED BY <1>1, EndSessionInv DEF handleLogout

(* The interceptor ends whatever session there is.                         *)
LEMMA Deliver401Inv == ASSUME IInv, NEW r \in Requests, Deliver401(r) PROVE IInv'
<1>1. PICK I \in SUBSET Attempts : I = {}
  OBVIOUS
<1>2. attempt' = [i \in Attempts |-> IF i \in I THEN Over ELSE attempt[i]]
  BY <1>1 DEF Deliver401, IInv, TypeOK
<1>3. PICK done \in SUBSET Requests : done = {r}
  OBVIOUS
<1>4. endSession(done) /\ UNCHANGED serverVars
  BY <1>3 DEF Deliver401
<1> QED BY <1>1, <1>2, <1>3, <1>4, EndSessionInv

LEMMA RestartInv == ASSUME IInv, Restart PROVE IInv'
<1>1. attempt' = [i \in Attempts |->
          IF i \in {j \in Attempts : attempt[j].pc \in Pending} THEN Over ELSE attempt[i]]
  BY DEF Restart
<1>2. session' # None => session'.user \in users
  BY DEF Restart, IInv, AccountsOK
<1>3. AccountsOK' /\ attempt' \in [Attempts -> AttemptRecord]
  BY <1>1, <1>2, EndedAttempts DEF Restart, serverVars
<1>4. request' \in [Requests -> RequestRecord] /\ \A r \in Requests : request'[r] = NoRequest
  BY Blanks DEF Restart
<1> QED BY <1>3, <1>4, Cleared DEF Restart

(* Other phones, and time.                                                 *)
LEMMA ElsewhereInv == ASSUME IInv, Elsewhere PROVE IInv'
<1>1. UNCHANGED <<attempt, request, session, cache, confirmed, overtaken, missed>>
  BY DEF Elsewhere, phoneVars, upsets
<1>2. /\ users \subseteq users' /\ users' \subseteq Accounts /\ Distinct'
      /\ registered \subseteq registered' /\ registered' \subseteq users'
      /\ expired' \subseteq Attempts
  <2>1. CASE \E a \in Accounts : Clash(a) = {} /\ users' = users \cup {a}
    <3>1. PICK a \in Accounts : Clash(a) = {} /\ users' = users \cup {a}
      BY <2>1
    <3>2. \A u \in users : u.email # a.email /\ u.username # a.username
      BY <3>1 DEF Clash
    <3>3. Distinct'
      BY <3>1, <3>2 DEF IInv, AccountsOK, Distinct
    <3>4. CASE UNCHANGED <<registered, expired>>
      BY <3>1, <3>3, <3>4 DEF IInv, TypeOK
    <3>5. CASE UNCHANGED users
      BY <3>3, <3>5 DEF Elsewhere, IInv, TypeOK, Token
    <3> QED BY <3>4, <3>5 DEF Elsewhere
  <2>2. CASE UNCHANGED users
    BY <2>2 DEF Elsewhere, IInv, TypeOK, AccountsOK, Distinct, Token
  <2> QED BY <2>1, <2>2 DEF Elsewhere
<1>3. TypeOK'
  BY <1>1, <1>2 DEF IInv, TypeOK
<1>4. AccountsOK'
  BY <1>1, <1>2 DEF IInv, AccountsOK, MadeOnce, Made, AttemptOK
<1>5. (\A r \in Requests : RequestOK(r)') /\ (\A k \in Lists : CacheOK(k)')
  BY <1>1, <1>2 DEF IInv, RequestOK, Brought, CacheOK
<1> QED BY <1>1, <1>2, <1>3, <1>4, <1>5 DEF IInv

-----------------------------------------------------------------------------
(* The queries.                                                            *)

(* One request changes, or ends: what is left to show of it.               *)
LEMMA OneRequest ==
    ASSUME IInv, NEW r \in Requests, NEW q \in RequestRecord,
           request' = [request EXCEPT ![r] = q],
           UNCHANGED <<users, expired, attempt, session, overtaken, confirmed>>,
           registered \subseteq registered', registered' \subseteq users,
           missed' \subseteq Lists,
           \A k \in missed \ missed' : Fetching(k) = {},
           cache' \in [Lists -> Entry], \A k \in Lists : CacheOK(k)', RequestOK(r)'
    PROVE  IInv'
<1>1. request'[r] = q /\ \A s \in Requests : s # r => request'[s] = request[s]
  BY DEF IInv, TypeOK
<1>2. request' \in [Requests -> RequestRecord]
  BY DEF IInv, TypeOK
<1>3. ASSUME NEW s \in Requests, s # r PROVE RequestOK(s)'
  <2>1. RequestOK(s) /\ request'[s] = request[s]
    BY <1>1, <1>3 DEF IInv
  <2>2. request[s].live => request[s].key \notin missed \ missed'
    BY DEF Fetching
  <2> QED BY <2>1, <2>2 DEF RequestOK, Brought
<1>4. \A s \in Requests : RequestOK(s)'
  BY <1>3
<1>5. confirmed' \subseteq registered'
  BY DEF IInv
<1> QED BY <1>2, <1>4, <1>5, QueryStep

(* A request that ends, with the cache as it is.                           *)
LEMMA RequestFailsInv == ASSUME IInv, NEW r \in Requests, RequestFails(r) PROVE IInv'
<1>1. /\ UNCHANGED <<users, registered, expired, attempt, session, overtaken, confirmed,
                     missed, cache>>
      /\ request' = [request EXCEPT ![r] = NoRequest]
  BY DEF RequestFails, serverVars, phoneVars, upsets
<1>2. request'[r] = NoRequest
  BY <1>1 DEF IInv, TypeOK
<1>3. RequestOK(r)'
  BY <1>2, Blanks DEF RequestOK, Brought
<1>4. \A k \in Lists : CacheOK(k)'
  BY <1>1 DEF IInv, CacheOK
<1> QED BY <1>1, <1>3, <1>4, Blanks, OneRequest DEF IInv, TypeOK

(* A request that starts, with the token of the session.                   *)
LEMMA AskInv ==
    ASSUME IInv, NEW r \in Requests, NEW k \in Lists \cup {"register"}, Ask(r, k),
           \/ UNCHANGED missed
           \/ k \in Lists /\ ~ cache[k].fresh /\ missed' = missed \ {k}
    PROVE  IInv'
<1>1. PICK q : q = [pc |-> "sent", key |-> k, token |-> session, live |-> TRUE, answer |-> None]
  OBVIOUS
<1>2. session \in Token /\ session # None /\ session.user \in users
  BY DEF Ask, AppStack, IInv, TypeOK, AccountsOK
<1>3. /\ q \in RequestRecord /\ q.pc = "sent" /\ q.key = k /\ q.token = session
      /\ q.answer = None
  BY <1>1, <1>2 DEF RequestRecord
<1>4. /\ UNCHANGED <<users, registered, expired, attempt, session, overtaken, confirmed, cache>>
      /\ request' = [request EXCEPT ![r] = q] /\ Fetching(k) = {}
  BY <1>1 DEF Ask, serverVars
<1>5. request'[r] = q
  BY <1>4 DEF IInv, TypeOK
<1>6. RequestOK(r)'
  BY <1>2, <1>3, <1>4, <1>5 DEF RequestOK, Brought
<1>7. \A l \in Lists : CacheOK(l)'
  BY <1>4 DEF IInv, CacheOK
<1>8. \A l \in missed \ missed' : Fetching(l) = {}
  BY <1>4
<1>9. missed' \subseteq Lists
  BY DEF IInv, TypeOK
<1> QED BY <1>3, <1>4, <1>6, <1>7, <1>8, <1>9, OneRequest DEF IInv, TypeOK

LEMMA AgeInv == ASSUME IInv, NEW k \in Lists, Age(k) PROVE IInv'
<1>1. UNCHANGED <<users, registered, expired, attempt, request, session, overtaken, confirmed,
                  missed>>
  BY DEF Age, serverVars, upsets
<1>2. cache \in [Lists -> Entry] /\ Forgotten[k] \in Entry
  BY Blanks DEF IInv, TypeOK
<1>3. /\ cache' \in [Lists -> Entry]
      /\ \A l \in Lists : \/ cache'[l] = cache[l]
                          \/ cache'[l].seen \in {cache[l].seen, None} /\ ~ cache'[l].fresh
  <2>1. CASE cache' = [cache EXCEPT ![k].fresh = FALSE]
    BY <1>2, <2>1 DEF Entry
  <2>2. CASE cache' = [cache EXCEPT ![k] = Forgotten[k]]
    BY <1>2, <2>2, Blanks
  <2> QED BY <2>1, <2>2 DEF Age
<1>4. \A l \in Lists : CacheOK(l)'
  BY <1>1, <1>3 DEF IInv, CacheOK
<1>5. \A r \in Requests : RequestOK(r)'
  BY <1>1 DEF IInv, RequestOK, Brought
<1> QED BY <1>1, <1>3, <1>4, <1>5, QueryStep DEF IInv, TypeOK

(* An answer is about the token's user, and read when it is written.       *)
LEMMA Answered ==
    ASSUME IInv, NEW r \in Requests, request[r].pc = "sent",
           UNCHANGED <<users, expired, attempt, phoneVars>>,
           registered \subseteq registered', registered' \subseteq users,
           NEW x \in Seen \cup {None},
           request' = [request EXCEPT ![r].pc = "answered", ![r].answer = x],
           x # None => /\ x.owner = request[r].token.user
                       /\ request[r].key = "register" => x.owner \in registered'
                       /\ request[r].key \in Lists /\ x.owner \in registered => x.registered
    PROVE  IInv'
<1>1. request[r] \in RequestRecord /\ RequestOK(r) /\ confirmed \subseteq registered
  BY DEF IInv, TypeOK
<1>2. UNCHANGED <<session, cache, confirmed, overtaken, missed>>
  BY DEF phoneVars, upsets
<1>3. PICK q : q = [request[r] EXCEPT !.pc = "answered", !.answer = x]
  OBVIOUS
<1>4. /\ q \in RequestRecord /\ q.pc = "answered" /\ q.answer = x /\ q.key = request[r].key
      /\ q.token = request[r].token /\ q.live = request[r].live
  BY <1>1, <1>3 DEF RequestRecord
<1>5. request' = [request EXCEPT ![r] = q] /\ request'[r] = q
  BY <1>3 DEF IInv, TypeOK
<1>6. RequestOK(r)'
  BY <1>1, <1>2, <1>4, <1>5 DEF RequestOK, Brought
<1>7. \A k \in Lists : CacheOK(k)'
  BY <1>2 DEF IInv, CacheOK
<1> QED BY <1>2, <1>4, <1>5, <1>6, <1>7, OneRequest DEF IInv, TypeOK

LEMMA RespondInv == ASSUME IInv, NEW r \in Requests, Respond(r) PROVE IInv'
<1> DEFINE u == request[r].token.user
           become(x) == request' = [request EXCEPT ![r].pc = "answered", ![r].answer = x]
<1>1. /\ request[r].pc = "sent" /\ RequestOK(r) /\ registered \subseteq users
      /\ users \subseteq Accounts /\ UNCHANGED <<users, expired, attempt, phoneVars>>
  BY DEF IInv, TypeOK, Respond
<1>2. u \in users /\ u \in Accounts
  BY <1>1 DEF RequestOK
<1>3. CASE UNCHANGED registered /\ become(None)
  BY <1>1, <1>3, Answered
<1>4. CASE /\ UNCHANGED registered /\ request[r].key \in Lists
           /\ become([owner |-> u, registered |-> u \in registered])
  <2>1. CASE u \in registered
    <3>1. PICK x : x = [owner |-> u, registered |-> TRUE]
      OBVIOUS
    <3>2. become(x) /\ x \in Seen /\ x.owner = u /\ x.registered
      BY <1>2, <1>4, <2>1, <3>1 DEF Seen
    <3> QED BY <1>1, <1>4, <2>1, <3>2, Answered DEF Lists
  <2>2. CASE u \notin registered
    <3>1. (u \in registered) = FALSE
      BY <2>2, SMT
    <3>2. PICK x : x = [owner |-> u, registered |-> FALSE]
      OBVIOUS
    <3>3. x = [owner |-> u, registered |-> u \in registered]
      BY <3>1, <3>2, Zenon
    <3>4. become(x)
      BY <1>4, <3>3, Zenon
    <3>5. x \in Seen /\ x.owner = u
      BY <1>2, <3>2 DEF Seen
    <3> QED BY <1>1, <1>4, <2>2, <3>4, <3>5, Answered DEF Lists
  <2> QED BY <2>1, <2>2
<1>5. CASE /\ registered' = registered \cup {u} /\ request[r].key = "register"
           /\ become([owner |-> u, registered |-> TRUE])
  <2>1. PICK x : x = [owner |-> u, registered |-> TRUE]
    OBVIOUS
  <2>2. become(x) /\ x \in Seen /\ x.owner = u
    BY <1>2, <1>5, <2>1 DEF Seen
  <2>3. registered \subseteq registered' /\ registered' \subseteq users /\ u \in registered'
    BY <1>1, <1>2, <1>5
  <2> QED BY <1>1, <1>5, <2>2, <2>3, Answered DEF Lists
<1> QED BY <1>3, <1>4, <1>5 DEF Respond, getMyContests, registerForContest

(* What a live fetch brings is the session's own.                          *)
LEMMA DeliverListInv == ASSUME IInv, NEW r \in Requests, DeliverList(r) PROVE IInv'
<1> DEFINE k == request[r].key
           x == request[r].answer
<1>1. /\ UNCHANGED <<users, registered, expired, attempt, session, overtaken, confirmed, missed>>
      /\ request' = [request EXCEPT ![r] = NoRequest] /\ request'[r] = NoRequest
      /\ k \in Lists /\ x # None /\ request[r].pc = "answered"
      /\ cache' = IF request[r].live
                  THEN [cache EXCEPT ![k] = [seen |-> x, fresh |-> TRUE]] ELSE cache
  BY DEF DeliverList, serverVars, upsets, IInv, TypeOK
<1>2. RequestOK(r) /\ request[r] \in RequestRecord /\ cache \in [Lists -> Entry]
  BY DEF IInv, TypeOK
<1>3. PICK new : new = [seen |-> x, fresh |-> TRUE]
  OBVIOUS
<1>4. new \in Entry /\ new.seen = x
  BY <1>2, <1>3 DEF Entry, RequestRecord
<1>5. cache' = IF request[r].live THEN [cache EXCEPT ![k] = new] ELSE cache
  BY <1>1, <1>3
<1>6. cache' \in [Lists -> Entry]
  BY <1>2, <1>4, <1>5
<1>7. ASSUME NEW l \in Lists PROVE CacheOK(l)'
  <2>1. CASE cache'[l] = cache[l]
    BY <1>1, <2>1 DEF IInv, CacheOK
  <2>2. CASE cache'[l] # cache[l]
    <3>1. l = k /\ request[r].live /\ cache'[l] = new
      BY <1>1, <1>2, <1>5, <2>2
    <3>2. /\ session # None /\ (x.owner = session.user \/ overtaken)
          /\ k \notin missed /\ x.owner \in confirmed => x.registered
      BY <1>1, <1>2, <3>1 DEF RequestOK, Brought
    <3> QED BY <1>1, <1>4, <3>1, <3>2 DEF CacheOK
  <2> QED BY <2>1, <2>2
<1>8. RequestOK(r)'
  BY <1>1, Blanks DEF RequestOK, Brought
<1>9. missed' \subseteq Lists /\ registered' \subseteq users
  BY <1>1 DEF IInv, TypeOK
<1> QED BY <1>1, <1>6, <1>7, <1>8, <1>9, Blanks, OneRequest

(* After a confirmed registration a fetch is missed or no longer live.     *)
LEMMA DeliverRegisterInv == ASSUME IInv, NEW r \in Requests, DeliverRegister(r) PROVE IInv'
<1> DEFINE going == {k \in Lists : Fetching(k) # {}}
<1>1. /\ UNCHANGED <<users, registered, expired, attempt, session, overtaken>>
      /\ request[r].pc = "answered" /\ request[r].key = "register" /\ request[r].answer # None
      /\ confirmed' = confirmed \cup {request[r].answer.owner} /\ invalidateQueries(r)
  BY DEF DeliverRegister, serverVars
<1>2. PICK kept \in SUBSET going :
          /\ cache' = Stale
          /\ missed' = missed \cup kept
          /\ request' = [q \in Requests |->
                 IF q = r THEN NoRequest
                 ELSE IF request[q].key \in going \ kept THEN [request[q] EXCEPT !.live = FALSE]
                 ELSE request[q]]
  BY <1>1 DEF invalidateQueries
<1>3. missed \subseteq missed' /\ missed' \subseteq Lists
  BY <1>2 DEF IInv, TypeOK
<1>4. confirmed' \subseteq registered' /\ registered' \subseteq users
  BY <1>1 DEF IInv, TypeOK, RequestOK, Brought
<1>5. cache' \in [Lists -> Entry] /\ \A k \in Lists : cache'[k].seen = cache[k].seen
                                                    /\ ~ cache'[k].fresh
  BY <1>2 DEF Stale, IInv, TypeOK, Entry
<1>6. \A k \in Lists : CacheOK(k)'
  BY <1>1, <1>5 DEF IInv, CacheOK
<1>7. ASSUME NEW q \in Requests
      PROVE  request'[q] \in RequestRecord /\ RequestOK(q)'
  <2>1. request[q] \in RequestRecord /\ RequestOK(q)
    BY DEF IInv, TypeOK
  <2>2. CASE q = r
    BY <1>2, <2>2, Blanks DEF RequestOK, Brought
  <2>3. CASE q # r /\ request[q].key \in going \ kept
    <3>1. /\ request'[q] \in RequestRecord
          /\ request'[q].pc = request[q].pc /\ request'[q].token = request[q].token
          /\ request'[q].answer = request[q].answer /\ request'[q].key = request[q].key
          /\ ~ request'[q].live
      BY <1>2, <2>1, <2>3 DEF RequestRecord
    <3> QED BY <1>1, <2>1, <3>1 DEF RequestOK, Brought
  <2>4. CASE q # r /\ request[q].key \notin going \ kept
    <3>1. request'[q] = request[q]
      BY <1>2, <2>4
    <3>2. request[q].live /\ request[q].key \in Lists => request[q].key \in missed'
      BY <1>2, <2>4 DEF Fetching
    <3> QED BY <1>1, <2>1, <3>1, <3>2 DEF RequestOK, Brought
  <2> QED BY <2>2, <2>3, <2>4
<1>8. request' \in [Requests -> RequestRecord]
  BY <1>2, <1>7
<1> QED BY <1>1, <1>3, <1>4, <1>5, <1>6, <1>7, <1>8, QueryStep

-----------------------------------------------------------------------------
(* The invariant, and what it says of the phone.                           *)

LEMMA InitInv == Init => IInv
<1> SUFFICES ASSUME Init PROVE IInv
  OBVIOUS
<1>1. TypeOK
  BY Blanks DEF Init, TypeOK
<1>2. AccountsOK
  BY Blanks DEF Init, AccountsOK, Distinct, MadeOnce, Made, AttemptOK, Pending
<1>3. \A r \in Requests : RequestOK(r)
  BY Blanks DEF Init, RequestOK, Brought
<1>4. \A k \in Lists : CacheOK(k)
  BY Blanks DEF Init, CacheOK
<1> QED BY <1>1, <1>2, <1>3, <1>4 DEF Init, IInv

LEMMA NextInv == IInv /\ [Next]_vars => IInv'
<1> SUFFICES ASSUME IInv, [Next]_vars PROVE IInv'
  OBVIOUS
<1>1. CASE UNCHANGED vars
  <2>1. UNCHANGED <<users, registered, expired, attempt, session, request, cache, confirmed,
                    overtaken, missed>>
    BY <1>1 DEF vars, serverVars, phoneVars, upsets
  <2> QED BY <2>1 DEF IInv, TypeOK, AccountsOK, Distinct, MadeOnce, Made, AttemptOK, RequestOK,
                      Brought, CacheOK
<1>2. ASSUME NEW i \in Attempts,
             \/ \E kind \in {"login", "signup"} : Send(i, kind)
             \/ SignupCheck(i) \/ SignupInsert(i) \/ Login(i)
             \/ setAuth(i) \/ AttemptRefused(i) \/ AttemptLost(i)
      PROVE  IInv'
  BY <1>2, SendInv, SignupCheckInv, SignupInsertInv, LoginInv, setAuthInv, AttemptRefusedInv,
     AttemptLostInv DEF AttemptLost
<1>3. ASSUME NEW r \in Requests,
             \/ \E k \in Lists : Fetch(r, k)
             \/ Register(r) \/ Respond(r)
             \/ DeliverList(r) \/ DeliverRegister(r) \/ Deliver401(r) \/ RequestFails(r)
      PROVE  IInv'
  <2>1. ASSUME NEW k \in Lists, Fetch(r, k) PROVE IInv'
    BY <2>1, AskInv DEF Fetch
  <2>2. CASE Register(r)
    BY <2>2, AskInv DEF Register
  <2> QED BY <1>3, <2>1, <2>2, RespondInv, DeliverListInv, DeliverRegisterInv, Deliver401Inv,
             RequestFailsInv
<1>4. CASE Elsewhere \/ handleLogout \/ Restart
  BY <1>4, ElsewhereInv, LogoutInv, RestartInv
<1> QED BY <1>1, <1>2, <1>3, <1>4, AgeInv DEF Next

LEMMA AlwaysIInv == Spec => []IInv
BY InitInv, NextInv, PTL DEF Spec

(* The variables keep their types, with any number of accounts, attempts   *)
(* and requests (TypeOK of AppSession).                                    *)
THEOREM SessionTypes == Spec => []TypeOK
<1>1. IInv => TypeOK
  BY DEF IInv
<1> QED BY <1>1, AlwaysIInv, PTL

(* However sign-ups race past each other's SELECT, an email and a name     *)
(* have one account, one sign-up is told that it made it, and a session is *)
(* of an account that exists (auth.controller.js signup, login).           *)
THEOREM DistinctAccounts == Spec => []AccountsAreDistinct
<1>1. IInv => AccountsAreDistinct
  BY DEF IInv, AccountsOK, Distinct, MadeOnce, Made, AccountsAreDistinct
<1> QED BY <1>1, AlwaysIInv, PTL

(* What the screens show was fetched for the session's user, whatever ends *)
(* the session and however late the answers come, unless a second login    *)
(* overtook it (axiosInstance.js interceptor, HomeScreen.js handleLogout). *)
THEOREM OwnCache == Spec => []CacheIsOwn
<1>1. IInv => CacheIsOwn
  BY DEF IInv, CacheOK, CacheIsOwn
<1> QED BY <1>1, AlwaysIInv, PTL

(* Data that passes for fresh shows a confirmed registration, but where a  *)
(* fetch outlived the invalidation (ContestsScreen.js registerMutation).   *)
THEOREM SeenRegistration == Spec => []RegistrationIsSeen
<1>1. IInv => RegistrationIsSeen
  BY DEF IInv, CacheOK, RegistrationIsSeen
<1> QED BY <1>1, AlwaysIInv, PTL
=============================================================================
