------------------------------ MODULE AppSession ------------------------------
(***************************************************************************)
(* One phone between the accounts of the backend and its own memory: the   *)
(* login and sign-up screens, the session in useUserStore, the interceptor *)
(* that ends it, and React Query's cache of what /me answers.              *)
(*                                                                         *)
(* React Query is external: a key has one fetch at a time, clear() forgets *)
(* the data and the fetches, and an invalidated key that has data is       *)
(* fetched again while a first fetch goes on as it is.  A request whose    *)
(* fetch was forgotten is not aborted: its answer still passes the         *)
(* interceptor.                                                            *)
(***************************************************************************)
EXTENDS Integers, FiniteSets

CONSTANTS
    Accounts,       \* what may be typed: records of a username and an email
    Attempts,       \* bound: logins and sign-ups of a behaviour
    Requests,       \* bound: requests under way at a time
    None            \* null

Lists == {"list", "detail"}     \* ["me", "contests"], ["me", "contests", slug]

Token == [user : Accounts, of : Attempts]       \* whose login or sign-up made it
Seen  == [owner : Accounts, registered : BOOLEAN]

ASSUME SessionAssumption ==
    /\ \A a \in Accounts : DOMAIN a = {"username", "email"}
    /\ None \notin Accounts \cup Token \cup Seen

VARIABLES
    users,          \* the users table
    registered,     \* the users registered for the contest
    attempt,        \* handleLogin and handleSignup, each call
    session,        \* user and token in the store: a token is an attempt's
    expired,        \* the tokens that verifyToken refuses
    request,        \* each request with the session's token
    cache,          \* the query cache, by key
    confirmed,      \* users whose registration this phone was told of
    overtaken,      \* a session replaced another without clear()
    missed          \* the keys whose fetch outlived an invalidation

serverVars == <<users, registered, expired>>
upsets     == <<overtaken, missed>>
phoneVars  == <<session, cache, confirmed, upsets>>
vars == <<serverVars, attempt, request, phoneVars>>

Entry == [seen : Seen \cup {None}, fresh : BOOLEAN]

AttemptRecord ==
    [pc : {"unused", "sent", "hashing", "granted", "401", "refused", "over"},
     kind : {"login", "signup"}, typed : Accounts \cup {None}, password : BOOLEAN]

RequestRecord ==
    [pc : {"unused", "sent", "answered"}, key : Lists \cup {"register", None},
     token : Token \cup {None}, live : BOOLEAN, answer : Seen \cup {None}]

NoAttempt == [pc |-> "unused", kind |-> "login", typed |-> None, password |-> FALSE]
Over == [NoAttempt EXCEPT !.pc = "over"]
NoRequest == [pc |-> "unused", key |-> None, token |-> None, live |-> FALSE, answer |-> None]
Forgotten == [k \in Lists |-> [seen |-> None, fresh |-> FALSE]]

TypeOK ==
    /\ users \subseteq Accounts
    /\ registered \subseteq users
    /\ attempt \in [Attempts -> AttemptRecord]
    /\ session \in Token \cup {None} /\ expired \subseteq Attempts
    /\ request \in [Requests -> RequestRecord]
    /\ cache \in [Lists -> Entry]
    /\ confirmed \subseteq Accounts
    /\ overtaken \in BOOLEAN /\ missed \subseteq Lists

Init ==
    /\ users = {} /\ registered = {} /\ expired = {}
    /\ attempt = [i \in Attempts |-> NoAttempt]
    /\ request = [r \in Requests |-> NoRequest]
    /\ session = None /\ cache = Forgotten
    /\ confirmed = {} /\ overtaken = FALSE /\ missed = {}

-----------------------------------------------------------------------------
(* The backend's accounts.                                                 *)

Clash(a) == {u \in users : u.email = a.email \/ u.username = a.username}

ToServer(i, pc) == attempt' = [attempt EXCEPT ![i].pc = pc]

\* The SELECT of signup, before bcrypt.
SignupCheck(i) ==
    /\ attempt[i].pc = "sent" /\ attempt[i].kind = "signup"
    /\ ToServer(i, IF Clash(attempt[i].typed) = {} THEN "hashing" ELSE "refused")
    /\ UNCHANGED <<serverVars, request, phoneVars>>

\* Mutated form: no unique constraints.
SignupInsertUnchecked(i) ==
    /\ attempt[i].pc = "hashing"
    /\ users' = users \cup {attempt[i].typed} /\ ToServer(i, "granted")
    /\ UNCHANGED <<registered, expired, request, phoneVars>>

\* The INSERT: the loser of a race is answered 500.
SignupInsert(i) ==
    /\ attempt[i].pc = "hashing"
    /\ IF Clash(attempt[i].typed) = {}
       THEN users' = users \cup {attempt[i].typed} /\ ToServer(i, "granted")
       ELSE UNCHANGED users /\ ToServer(i, "refused")
    /\ UNCHANGED <<registered, expired, request, phoneVars>>

\* Mutated form: no user is needed, only a password.
LoginUnknown(i) ==
    /\ attempt[i].pc = "sent" /\ attempt[i].kind = "login"
    /\ ToServer(i, IF attempt[i].password THEN "granted" ELSE "401")
    /\ UNCHANGED <<serverVars, request, phoneVars>>

\* The user with the email, if the password is that user's.  Nothing sets
\* isDeleted.
Login(i) ==
    /\ attempt[i].pc = "sent" /\ attempt[i].kind = "login"
    /\ \/ /\ ~ attempt[i].password
          /\ ToServer(i, "401")
       \/ /\ attempt[i].password
          /\ \/ \E u \in users : /\ u.email = attempt[i].typed.email
                                 /\ attempt' = [attempt EXCEPT ![i].pc = "granted",
                                                               ![i].typed = u]
             \/ /\ \A u \in users : u.email # attempt[i].typed.email
                /\ ToServer(i, "401")
    /\ UNCHANGED <<serverVars, request, phoneVars>>

\* Other phones, and calls this one has given up, sign up and register; the
\* seven days of a token pass.
Elsewhere ==
    /\ \/ /\ \E a \in Accounts : Clash(a) = {} /\ users' = users \cup {a}
          /\ UNCHANGED <<registered, expired>>
       \/ /\ \E u \in users : registered' = registered \cup {u}
          /\ UNCHANGED <<users, expired>>
       \/ /\ session # None /\ expired' = expired \cup {session.of}
          /\ UNCHANGED <<users, registered>>
    /\ UNCHANGED <<attempt, request, phoneVars>>

-----------------------------------------------------------------------------
(* The store, the interceptor and the screens of AuthStack.                *)

Pending == {"sent", "hashing", "granted", "401", "refused"}

\* Which screens there are: navigation follows the store.
AppStack == session # None

\* A button waits for its own screen's call only: the other screen has one
\* too, and a screen that is shown again is new.
Send(i, kind) ==
    /\ ~ AppStack /\ attempt[i] = NoAttempt
    /\ \E a \in Accounts, right \in IF kind = "login" THEN BOOLEAN ELSE {FALSE} :
          attempt' = [attempt EXCEPT ![i] = [pc |-> "sent", kind |-> kind, typed |-> a,
                                             password |-> right]]
    /\ UNCHANGED <<serverVars, request, phoneVars>>

\* What queryClient.clear() forgets; its requests go on, but for the answered.
Clear(answered) ==
    /\ cache' = Forgotten /\ confirmed' = {} /\ overtaken' = FALSE /\ missed' = {}
    /\ request' = [r \in Requests |-> IF r \in answered THEN NoRequest
                                      ELSE [request[r] EXCEPT !.live = FALSE]]

\* Mutated form: the cache is kept.
endSessionOnly(answered) ==
    /\ session' = None
    /\ request' = [r \in Requests |-> IF r \in answered THEN NoRequest ELSE request[r]]
    /\ UNCHANGED <<cache, confirmed, upsets>>

\* logout() and clear(), on a tap or in the interceptor.
endSession(answered) == session' = None /\ Clear(answered)

setAuth(i) ==
    /\ attempt[i].pc = "granted"
    /\ session' = [user |-> attempt[i].typed, of |-> i]
    /\ attempt' = [attempt EXCEPT ![i] = Over]
    /\ overtaken' = (overtaken \/ session # None)
    /\ UNCHANGED <<serverVars, request, cache, confirmed, missed>>

\* 409 and 500 only alert; 401 passes the interceptor first.
AttemptRefused(i) ==
    /\ \/ attempt[i].pc = "refused" /\ UNCHANGED <<request, phoneVars>>
       \/ attempt[i].pc = "401" /\ endSession({})
    /\ attempt' = [attempt EXCEPT ![i] = Over]
    /\ UNCHANGED serverVars

AttemptLost(i) ==
    /\ attempt[i].pc \in Pending
    /\ attempt' = [attempt EXCEPT ![i] = Over]
    /\ UNCHANGED <<serverVars, request, phoneVars>>

handleLogout ==
    /\ AppStack
    /\ endSession({})
    /\ UNCHANGED <<serverVars, attempt>>

\* The store is persisted, the cache and the calls are not.
Restart ==
    /\ attempt' = [i \in Attempts |->
           IF attempt[i].pc \in Pending THEN Over ELSE attempt[i]]
    /\ request' = [r \in Requests |-> NoRequest]
    /\ cache' = Forgotten /\ confirmed' = {} /\ overtaken' = FALSE /\ missed' = {}
    /\ UNCHANGED <<serverVars, session>>

-----------------------------------------------------------------------------
(* The screens of AppStack and their queries.                              *)

Fetching(k) == {r \in Requests : request[r].key = k /\ request[r].live}

Ask(r, k) ==
    /\ AppStack /\ request[r] = NoRequest /\ Fetching(k) = {}
    /\ request' = [request EXCEPT ![r] =
           [pc |-> "sent", key |-> k, token |-> session, live |-> TRUE, answer |-> None]]
    /\ UNCHANGED <<serverVars, attempt, session, cache, confirmed, overtaken>>

\* useQuery fetches on mount, and again when its data was invalidated.
Fetch(r, k) == ~ cache[k].fresh /\ Ask(r, k) /\ missed' = missed \ {k}

\* staleTime is over; after gcTime the data of a screen that was left is gone.
Age(k) ==
    /\ cache[k].seen # None /\ Fetching(k) = {}
    /\ cache' \in {[cache EXCEPT ![k].fresh = FALSE], [cache EXCEPT ![k] = Forgotten[k]]}
    /\ UNCHANGED <<serverVars, attempt, request, session, confirmed, upsets>>

\* The button of a contest that the list or the detail shows.
Register(r) ==
    /\ \E k \in Lists : cache[k].seen # None
    /\ Ask(r, "register")
    /\ UNCHANGED missed

requireAuth(token) == token.of \notin expired

getMyContests(token) == [owner |-> token.user, registered |-> token.user \in registered]

\* 201 or, for a second one, 200.
registerForContest(token) == registered' = registered \cup {token.user}

\* What the handler reads and does is for the user of the token.
Respond(r) ==
    LET token == request[r].token
        reply(x) == request' = [request EXCEPT ![r].pc = "answered", ![r].answer = x] IN
    /\ request[r].pc = "sent"
    /\ \/ /\ ~ requireAuth(token)
          /\ reply(None) /\ UNCHANGED registered
       \/ /\ requireAuth(token) /\ request[r].key \in Lists
          /\ reply(getMyContests(token)) /\ UNCHANGED registered
       \/ /\ requireAuth(token) /\ request[r].key = "register"
          /\ registerForContest(token)
          /\ reply([owner |-> token.user, registered |-> TRUE])
    /\ UNCHANGED <<users, expired, attempt, phoneVars>>

\* Data of a fetch that was forgotten meanwhile is dropped.
DeliverList(r) ==
    /\ request[r].pc = "answered" /\ request[r].key \in Lists /\ request[r].answer # None
    /\ cache' = IF request[r].live
                THEN [cache EXCEPT ![request[r].key] = [seen |-> request[r].answer, fresh |-> TRUE]]
                ELSE cache
    /\ request' = [request EXCEPT ![r] = NoRequest]
    /\ UNCHANGED <<serverVars, attempt, session, confirmed, upsets>>

Stale == [k \in Lists |-> [cache[k] EXCEPT !.fresh = FALSE]]

\* Mutated form: the key of the detail screen is not invalidated.
invalidateQueriesList(r) ==
    /\ cache' = [cache EXCEPT !["list"].fresh = FALSE]
    /\ request' = [request EXCEPT ![r] = NoRequest]
    /\ UNCHANGED missed

\* invalidateQueries(["me", "contests"]): data is stale.  A fetch that would
\* replace data is forgotten for a new one, unless its screen was left; a
\* first fetch goes on, and what it read passes for fresh.
invalidateQueries(r) ==
    LET going == {k \in Lists : Fetching(k) # {}} IN
    \E kept \in SUBSET going :
        /\ {k \in going : cache[k].seen = None} \subseteq kept
        /\ cache' = Stale
        /\ missed' = missed \cup kept
        /\ request' = [q \in Requests |->
               IF q = r THEN NoRequest
               ELSE IF request[q].key \in going \ kept THEN [request[q] EXCEPT !.live = FALSE]
               ELSE request[q]]

\* onSuccess runs also when the screen is gone.
DeliverRegister(r) ==
    /\ request[r].pc = "answered" /\ request[r].key = "register" /\ request[r].answer # None
    /\ invalidateQueries(r)
    /\ confirmed' = confirmed \cup {request[r].answer.owner}
    /\ UNCHANGED <<serverVars, attempt, session, overtaken>>

\* The interceptor does not ask whose 401 it is.
Deliver401(r) ==
    /\ request[r].pc = "answered" /\ request[r].answer = None
    /\ endSession({r})
    /\ UNCHANGED <<serverVars, attempt>>

\* No answer, or an error that is not a 401: a screen may ask again.
RequestFails(r) ==
    /\ request[r].pc # "unused"
    /\ request' = [request EXCEPT ![r] = NoRequest]
    /\ UNCHANGED <<serverVars, attempt, phoneVars>>

Next ==
    \/ \E i \in Attempts :
          \/ \E kind \in {"login", "signup"} : Send(i, kind)
          \/ SignupCheck(i) \/ SignupInsert(i) \/ Login(i)
          \/ setAuth(i) \/ AttemptRefused(i) \/ AttemptLost(i)
    \/ \E r \in Requests :
          \/ \E k \in Lists : Fetch(r, k)
          \/ Register(r) \/ Respond(r)
          \/ DeliverList(r) \/ DeliverRegister(r) \/ Deliver401(r) \/ RequestFails(r)
    \/ \E k \in Lists : Age(k)
    \/ Elsewhere \/ handleLogout \/ Restart

Spec == Init /\ [][Next]_vars

-----------------------------------------------------------------------------
(* One account per email and per name, also when sign-ups race past each   *)
(* other's SELECT (auth.controller.js:10-28), and one sign-up is told that *)
(* it made it.  A session is of such an account.                           *)
AccountsAreDistinct ==
    /\ \A u, v \in users : u.email = v.email \/ u.username = v.username => u = v
    /\ \A i, j \in Attempts :
          LET made(n) == attempt[n].kind = "signup" /\ attempt[n].pc = "granted" IN
          made(i) /\ made(j) /\ attempt[i].typed.email = attempt[j].typed.email => i = j
    /\ session # None => session.user \in users

(* axiosInstance.js:27: "drop cached server data for the logged-out user". *)
(* However late the answers of an ended session come, the screens of the   *)
(* next one never get them, unless a second login answer replaced a        *)
(* session that had not ended.                                             *)
CacheIsOwn ==
    \A k \in Lists : cache[k].seen # None =>
        session # None /\ (cache[k].seen.owner = session.user \/ overtaken)

(* A registration that was confirmed is not contradicted by data that      *)
(* passes for fresh, except by a fetch that invalidateQueries let go on.   *)
RegistrationIsSeen ==
    \A k \in Lists \ missed :
        cache[k].fresh /\ cache[k].seen.owner \in confirmed => cache[k].seen.registered
=============================================================================
