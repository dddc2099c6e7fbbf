------------------------------ MODULE Upstream ------------------------------
(***************************************************************************)
(* The client of the booking server (ApiAdapter and MockServerAuth) and    *)
(* the server.  All requests of the process share one HTTP client and its  *)
(* cookie jar; the session cookie is also kept in Redis.  A session token  *)
(* and a booking id are the millisecond in which they were made.           *)
(***************************************************************************)
EXTENDS Integers, FiniteSets

CONSTANTS ApiRequests,  \* calls of ApiAdapter._request
          MaxInstant,   \* bound: milliseconds
          MaxRestarts   \* bound: restarts of the server

ASSUME UpstreamAssumption == MaxInstant \in Nat

Instants == 0 .. MaxInstant
NoCookie == -1
Cookies == Instants \cup {NoCookie}
Accounts == {"service", "resident", "nobody"}
Kinds == {"book", "cancel", "read"}
\* A booking, with the request and the attempt that made it; the server starts
\* with some of its own, of which one stands here.
SeedBooking == [id |-> -1, by |-> "server", attempt |-> 0]
Bookings == [id : Instants, by : ApiRequests, attempt : {0, 1}] \cup {SeedBooking}

VARIABLES
  clock,       \* Date.now()
  sessions,    \* server: SESSIONS, the account of each token
  bookings,    \* server: BOOKINGS
  gone,        \* server: those of them with status Cancelled
  restarts,    \* restarts so far
  jar,         \* http_client.cookies: session_token
  kept,        \* Redis: api:auth_token:mock_server
  at,          \* where each request stands
  kind,        \* what it asks for
  target,      \* a cancellation: the bookings it means, {} or {a booking}
  attempt,     \* its number of refreshes
  cookie,      \* the cookie it read or was given, then the one its message
               \* carries
  wire,        \* its message: under way to the server, or the server's answer
  served,      \* history: the account the server took it for
  disturbed,   \* history: since its login the server restarted, or another
               \* request put a dead cookie into the jar
  mixed        \* history: two accounts were given the same token

server == <<clock, sessions, bookings, gone, restarts, mixed>>
client == <<jar, kept>>
request == <<at, kind, target, attempt, cookie, wire, served, disturbed>>
upstreamVars == <<server, client, request>>

Positions == {"idle", "cached", "login", "granted", "store", "send",
           "waiting", "ok", "refused", "failed"}

UpstreamTypeOK ==
  /\ clock \in Instants
  /\ sessions \in [Instants -> Accounts]
  /\ bookings \subseteq Bookings
  /\ gone \subseteq bookings
  /\ restarts \in Nat
  /\ jar \in Cookies
  /\ kept \in Cookies
  /\ at \in [ApiRequests -> Positions]
  /\ kind \in [ApiRequests -> Kinds]
  /\ target \in [ApiRequests -> SUBSET Bookings]
  /\ attempt \in [ApiRequests -> {0, 1}]
  /\ cookie \in [ApiRequests -> Cookies]
  /\ wire \in [ApiRequests -> {"none", "sent", "200", "401", "404"}]
  /\ served \in [ApiRequests -> Accounts]
  /\ disturbed \in [ApiRequests -> BOOLEAN]
  /\ mixed \in BOOLEAN

UpstreamInit ==
  /\ clock = 0
  /\ sessions = [i \in Instants |-> "nobody"]
  /\ bookings = {SeedBooking} /\ gone = {}
  /\ restarts = 0
  /\ jar = NoCookie /\ kept = NoCookie
  /\ at = [r \in ApiRequests |-> "idle"]
  /\ kind = [r \in ApiRequests |-> "read"]
  /\ target = [r \in ApiRequests |-> {}]
  /\ attempt = [r \in ApiRequests |-> 0]
  /\ cookie = [r \in ApiRequests |-> NoCookie]
  /\ wire = [r \in ApiRequests |-> "none"]
  /\ served = [r \in ApiRequests |-> "nobody"]
  /\ disturbed = [r \in ApiRequests |-> FALSE]
  /\ mixed = FALSE

-----------------------------------------------------------------------------
(* The server *)

Account(c) == IF c = NoCookie THEN "nobody" ELSE sessions[c]

\* m_login: a token another account was given in the same millisecond is
\* handed to this one.
Open(account) ==
  /\ sessions' = [sessions EXCEPT ![clock] = account]
  /\ mixed' = (mixed \/ sessions[clock] \notin {"nobody", account})

Say(r, answer) == wire' = [wire EXCEPT ![r] = answer]

NewBooking(r) == [id |-> clock, by |-> r, attempt |-> attempt[r]]

\* m_member_make_booking accepts every booking.
ServeBook(r) ==
  /\ kind[r] = "book"
  /\ bookings' = bookings \cup {NewBooking(r)}
  /\ Say(r, "200")
  /\ UNCHANGED gone

\* Mutant: the id in the request is not compared, any booking is cancelled.
ServeCancelAny(r) ==
  /\ kind[r] = "cancel"
  /\ \/ \E b \in bookings : gone' = gone \cup {b} /\ Say(r, "200")
     \/ bookings = {} /\ Say(r, "404") /\ UNCHANGED gone
  /\ UNCHANGED bookings

\* m_cancel_booking: the first booking with the id, in the order of the
\* facilities and of their bookings, which is left open.
ServeCancel(r) ==
  LET hits == {b \in bookings : \E t \in target[r] : b.id = t.id} IN
  /\ kind[r] = "cancel"
  /\ \/ \E b \in hits : gone' = gone \cup {b} /\ Say(r, "200")
     \/ hits = {} /\ Say(r, "404") /\ UNCHANGED gone
  /\ UNCHANGED bookings

ServeRead(r) ==
  /\ kind[r] = "read"
  /\ Say(r, "200")
  /\ UNCHANGED <<bookings, gone>>

\* authMiddleware, then the handler.
Serve(r) ==
  /\ wire[r] = "sent"
  /\ IF Account(cookie[r]) = "nobody"
     THEN Say(r, "401") /\ UNCHANGED <<bookings, gone, served>>
     ELSE /\ ServeBook(r) \/ ServeCancel(r) \/ ServeRead(r)
          /\ served' = [served EXCEPT ![r] = Account(cookie[r])]
  /\ UNCHANGED <<clock, sessions, restarts, mixed, client, at, kind, target, attempt,
                 cookie, disturbed>>

\* Mutant: over the shared client.
UserLoginShared ==
  /\ Open("resident")
  /\ jar' = clock
  /\ UNCHANGED <<clock, bookings, gone, restarts, kept, request>>

\* A user logs in, over a client of its own (authenticate_user).
UserLogin ==
  /\ Open("resident")
  /\ UNCHANGED <<clock, bookings, gone, restarts, client, request>>

Tick ==
  /\ clock < MaxInstant
  /\ clock' = clock + 1
  /\ UNCHANGED <<sessions, bookings, gone, restarts, mixed, client, request>>

\* A restart takes time.
Restart ==
  /\ restarts < MaxRestarts
  /\ clock < MaxInstant
  /\ clock' = clock + 1
  /\ restarts' = restarts + 1
  /\ sessions' = [i \in Instants |-> "nobody"]
  /\ bookings' = {SeedBooking} /\ gone' = {}
  /\ disturbed' = [r \in ApiRequests |-> TRUE]
  /\ UNCHANGED <<mixed, client, at, kind, target, attempt, cookie, wire, served>>

-----------------------------------------------------------------------------
(* The client *)

Go(r, place) == at' = [at EXCEPT ![r] = place]

\* The jar is written by r.  A cookie without a session disturbs the requests
\* that have logged in and not yet sent.
SetJar(r, c) ==
  /\ jar' = c
  /\ disturbed' = [q \in ApiRequests |->
       disturbed[q] \/ (q # r /\ at[q] \in {"store", "send"} /\ Account(c) = "nobody")]

Attach(r, c) ==
  /\ Say(r, "sent")
  /\ cookie' = [cookie EXCEPT ![r] = c]
  /\ Go(r, "waiting")

\* A call of the adapter; get_cookie reads Redis ...
Begin(r) ==
  /\ at[r] = "idle"
  /\ \/ \E k \in {"book", "read"} : kind' = [kind EXCEPT ![r] = k] /\ UNCHANGED target
     \/ /\ kind' = [kind EXCEPT ![r] = "cancel"]
        /\ \E b \in bookings : target' = [target EXCEPT ![r] = {b}]
  /\ IF kept = NoCookie THEN Go(r, "login") /\ UNCHANGED cookie
     ELSE Go(r, "cached") /\ cookie' = [cookie EXCEPT ![r] = kept]
  /\ UNCHANGED <<server, client, attempt, wire, served, disturbed>>

\* ... and after a hit nothing is awaited until the message is built.
UseCached(r) ==
  /\ at[r] = "cached"
  /\ SetJar(r, cookie[r])
  /\ Attach(r, cookie[r])
  /\ UNCHANGED <<server, kept, kind, target, attempt, served>>

\* login: the server opens a session ...
Grant(r) ==
  /\ at[r] = "login"
  /\ Open("service")
  /\ cookie' = [cookie EXCEPT ![r] = clock]
  /\ disturbed' = [disturbed EXCEPT ![r] = FALSE]
  /\ Go(r, "granted")
  /\ UNCHANGED <<clock, bookings, gone, restarts, client, kind, target, attempt, wire,
                 served>>

\* Mutant: the cookie does not go into the jar.
LoggedInNoJar(r) ==
  /\ at[r] = "granted"
  /\ Go(r, "store")
  /\ UNCHANGED <<server, client, kind, target, attempt, cookie, wire, served, disturbed>>

\* ... its answer arrives and the cookie goes into the jar ...
LoggedIn(r) ==
  /\ at[r] = "granted"
  /\ SetJar(r, cookie[r])
  /\ Go(r, "store")
  /\ UNCHANGED <<server, kept, kind, target, attempt, cookie, wire, served>>

\* ... and into Redis.
Store(r) ==
  /\ at[r] = "store"
  /\ kept' = cookie[r]
  /\ Go(r, "send")
  /\ UNCHANGED <<server, jar, kind, target, attempt, cookie, wire, served, disturbed>>

\* The message carries what the jar holds by now.
Send(r) ==
  /\ at[r] = "send"
  /\ Attach(r, jar)
  /\ UNCHANGED <<server, client, kind, target, attempt, served, disturbed>>

\* Mutant: the refreshes are not counted.
AnswerUncounted(r) ==
  /\ at[r] = "waiting"
  /\ \/ wire[r] = "200" /\ Go(r, "ok") /\ UNCHANGED <<attempt, wire>>
     \/ /\ wire[r] = "401"
        /\ attempt' = [attempt EXCEPT ![r] = @ + 1]
        /\ Say(r, "none")
        /\ Go(r, "login")
     \/ wire[r] = "404" /\ Go(r, "failed") /\ UNCHANGED <<attempt, wire>>
  /\ UNCHANGED <<server, client, kind, target, cookie, served, disturbed>>

\* One refresh on a 401; every other error is raised.
Answer(r) ==
  /\ at[r] = "waiting"
  /\ \/ wire[r] = "200" /\ Go(r, "ok") /\ UNCHANGED <<attempt, wire>>
     \/ /\ wire[r] = "401" /\ attempt[r] = 0
        /\ attempt' = [attempt EXCEPT ![r] = 1]
        /\ Say(r, "none")
        /\ Go(r, "login")
     \/ wire[r] = "401" /\ attempt[r] = 1 /\ Go(r, "refused") /\ UNCHANGED <<attempt, wire>>
     \/ wire[r] = "404" /\ Go(r, "failed") /\ UNCHANGED <<attempt, wire>>
  /\ UNCHANGED <<server, client, kind, target, cookie, served, disturbed>>

\* Mutant: the message is sent again when no answer came.
GiveUpRetrying(r) ==
  /\ at[r] \in {"cached", "login", "granted", "store", "send", "waiting"}
  /\ IF at[r] = "waiting" /\ attempt[r] = 0
     THEN attempt' = [attempt EXCEPT ![r] = 1] /\ Go(r, "send")
     ELSE Go(r, "failed") /\ UNCHANGED attempt
  /\ UNCHANGED <<server, client, kind, target, cookie, wire, served, disturbed>>

\* Redis fails, the login fails, or no answer comes in time; a message under
\* way may still reach the server.
GiveUp(r) ==
  /\ at[r] \in {"cached", "login", "granted", "store", "send", "waiting"}
  /\ Go(r, "failed")
  /\ UNCHANGED <<server, client, kind, target, attempt, cookie, wire, served, disturbed>>

\* API_AUTH_COOKIE_TTL passes.
CookieExpires ==
  /\ kept # NoCookie
  /\ kept' = NoCookie
  /\ UNCHANGED <<server, jar, request>>

UpstreamNext ==
  \/ \E r \in ApiRequests :
       \/ Begin(r) \/ UseCached(r) \/ Grant(r) \/ LoggedIn(r) \/ Store(r) \/ Send(r)
       \/ Serve(r) \/ Answer(r) \/ GiveUp(r)
  \/ UserLogin \/ Tick \/ Restart \/ CookieExpires

UpstreamSpec == UpstreamInit /\ [][UpstreamNext]_upstreamVars

-----------------------------------------------------------------------------
(* Properties *)

\* A request is refused after its refresh only if, since its login, the server
\* restarted or another request put a dead cookie into the shared jar
\* (ApiAdapter._request, MockServerAuth.get_cookie).
RefusedNeedsRival == \A r \in ApiRequests : at[r] = "refused" => disturbed[r]

\* The server takes every request for the service account, unless a user and
\* the service logged in during the same millisecond (MockServerAuth,
\* mock-server/server.js).
ServedAsService == ~mixed => \A r \in ApiRequests : served[r] \in {"nobody", "service"}

\* Every cancelled booking is one that a request meant, or shares its id with
\* another made in the same millisecond (mock-server/server.js).
CancelHitsTarget ==
  \A b \in gone :
    \/ \E r \in ApiRequests : b \in target[r]
    \/ \E c \in bookings : c # b /\ c.id = b.id

\* The requests whose message was not answered with success may still act.
Owed == {r \in ApiRequests : wire[r] # "200"}

Abstract == INSTANCE Ledger WITH
  Seeds <- {SeedBooking}, owed <- Owed, entries <- bookings, cancelled <- gone

\* Each request takes effect at most once, its refresh, its timeout and the
\* restarts of the server included: the client implements Ledger.
ImplementsLedger ==
  /\ Abstract!Init
  /\ [][\/ \E r \in ApiRequests : \/ Abstract!Book(r, NewBooking(r))
                                  \/ \E b \in bookings : Abstract!Cancel(r, b)
                                  \/ Abstract!Read(r)
        \/ Abstract!Forget]_<<Owed, bookings, gone>>
=============================================================================
