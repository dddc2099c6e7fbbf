--------------------------- MODULE UpstreamProofs ---------------------------
(***************************************************************************)
(* Theorems about Upstream, for any number of requests, milliseconds and   *)
(* restarts of the server.                                                 *)
(***************************************************************************)
EXTENDS Upstream, TLAPS

-----------------------------------------------------------------------------
(* Types *)

LEMMA InstantsType == Instants \subseteq Int /\ NoCookie \notin Instants /\ 0 \in Instants
  BY UpstreamAssumption DEF Instants, NoCookie

LEMMA NewBookingType ==
  ASSUME UpstreamTypeOK, NEW r \in ApiRequests
  PROVE  NewBooking(r) \in Bookings
  BY DEF UpstreamTypeOK, NewBooking, Bookings

LEMMA ServeType ==
  ASSUME UpstreamTypeOK, NEW r \in ApiRequests, Serve(r)
  PROVE  UpstreamTypeOK'
<1>1. \A answer \in {"200", "401", "404"} :
        Say(r, answer) => wire' \in [ApiRequests -> {"none", "sent", "200", "401", "404"}]
  BY DEF Say, UpstreamTypeOK
<1>2. Account(cookie[r]) \in Accounts
  BY DEF UpstreamTypeOK, Account, Accounts, Cookies
<1>3. served' \in [ApiRequests -> Accounts]
  BY <1>2 DEF Serve, UpstreamTypeOK
<1>4. wire' \in [ApiRequests -> {"none", "sent", "200", "401", "404"}]
  BY <1>1 DEF Serve, ServeBook, ServeCancel, ServeRead
<1>5. bookings' \subseteq Bookings /\ gone' \subseteq bookings'
  BY NewBookingType DEF Serve, ServeBook, ServeCancel, ServeRead, UpstreamTypeOK
<1> QED BY <1>3, <1>4, <1>5 DEF Serve, UpstreamTypeOK, client

LEMMA OpenType ==
  ASSUME UpstreamTypeOK, NEW account \in Accounts, Open(account)
  PROVE  sessions' \in [Instants -> Accounts] /\ mixed' \in BOOLEAN
  BY DEF UpstreamTypeOK, Open

LEMMA UpstreamTypeStep ==
  ASSUME UpstreamTypeOK, [UpstreamNext]_upstreamVars
  PROVE  UpstreamTypeOK'
<1> USE DEF UpstreamTypeOK, server, client, request
<1>1. CASE UNCHANGED upstreamVars
  BY <1>1 DEF upstreamVars
<1>2. CASE UserLogin
  BY <1>2, OpenType DEF UserLogin, Accounts
<1>3. CASE Tick
  BY <1>3, UpstreamAssumption DEF Tick, Instants
<1>4. CASE Restart
  BY <1>4, UpstreamAssumption DEF Restart, Instants, Accounts, Bookings
<1>5. CASE CookieExpires
  BY <1>5 DEF CookieExpires, Cookies
<1>6. ASSUME NEW r \in ApiRequests, Begin(r) PROVE UpstreamTypeOK'
  <2>1. kind' \in [ApiRequests -> Kinds] /\ target' \in [ApiRequests -> SUBSET Bookings]
    BY <1>6 DEF Begin, Kinds
  <2>2. at' \in [ApiRequests -> Positions] /\ cookie' \in [ApiRequests -> Cookies]
    BY <1>6 DEF Begin, Go, Positions
  <2> QED BY <1>6, <2>1, <2>2 DEF Begin
<1>7. ASSUME NEW r \in ApiRequests, UseCached(r) PROVE UpstreamTypeOK'
  <2>1. jar' \in Cookies /\ disturbed' \in [ApiRequests -> BOOLEAN]
    BY <1>7 DEF UseCached, SetJar
  <2> QED BY <1>7, <2>1 DEF UseCached, Attach, Say, Go, Positions
<1>8. ASSUME NEW r \in ApiRequests, Grant(r) PROVE UpstreamTypeOK'
  BY <1>8, OpenType DEF Grant, Go, Accounts, Positions, Cookies
<1>9. ASSUME NEW r \in ApiRequests, LoggedIn(r) PROVE UpstreamTypeOK'
  <2>1. jar' \in Cookies /\ disturbed' \in [ApiRequests -> BOOLEAN]
    BY <1>9 DEF LoggedIn, SetJar
  <2> QED BY <1>9, <2>1 DEF LoggedIn, Go, Positions
<1>10. ASSUME NEW r \in ApiRequests, Store(r) \/ Send(r) PROVE UpstreamTypeOK'
  BY <1>10 DEF Store, Send, Attach, Say, Go, Positions
<1>11. ASSUME NEW r \in ApiRequests, Serve(r) PROVE UpstreamTypeOK'
  BY <1>11, ServeType
<1>12. ASSUME NEW r \in ApiRequests, Answer(r) PROVE UpstreamTypeOK'
  BY <1>12 DEF Answer, Say, Go, Positions
<1>13. ASSUME NEW r \in ApiRequests, GiveUp(r) PROVE UpstreamTypeOK'
  BY <1>13 DEF GiveUp, Go, Positions
<1> QED
  BY <1>1, <1>2, <1>3, <1>4, <1>5, <1>6, <1>7, <1>8, <1>9, <1>10, <1>11, <1>12, <1>13
  DEF UpstreamNext

\* Every variable keeps its type; in particular no request is refreshed twice
\* (ApiAdapter._request).
THEOREM UpstreamTypeCorrect == UpstreamSpec => []UpstreamTypeOK
<1>1. ASSUME UpstreamInit PROVE UpstreamTypeOK
  <2>1. SeedBooking \in Bookings /\ {SeedBooking} \subseteq Bookings
    BY DEF Bookings
  <2>2. target \in [ApiRequests -> SUBSET Bookings]
    BY <1>1 DEF UpstreamInit
  <2>3. /\ at \in [ApiRequests -> Positions] /\ kind \in [ApiRequests -> Kinds]
        /\ attempt \in [ApiRequests -> {0, 1}] /\ cookie \in [ApiRequests -> Cookies]
        /\ served \in [ApiRequests -> Accounts]
    BY <1>1 DEF UpstreamInit, Positions, Kinds, Cookies, Accounts
  <2>4. clock \in Instants /\ sessions \in [Instants -> Accounts]
    BY <1>1, InstantsType DEF UpstreamInit, Accounts
  <2> QED BY <1>1, <2>1, <2>2, <2>3, <2>4 DEF UpstreamInit, UpstreamTypeOK, Cookies
<1>2. UpstreamTypeOK /\ [UpstreamNext]_upstreamVars => UpstreamTypeOK'
  BY UpstreamTypeStep
<1> QED BY <1>1, <1>2, PTL DEF UpstreamSpec

-----------------------------------------------------------------------------
(* Whose session a request uses *)

\* A cookie the client holds was given to it, at the latest now; given now, its
\* session still exists.  It is a user's only if two accounts got the same.
Own(c) ==
  c # NoCookie =>
    /\ c <= clock
    /\ c = clock => sessions[c] # "nobody"
    /\ ~mixed => sessions[c] # "resident"

OwnCookies ==
  /\ Own(jar) /\ Own(kept)
  /\ \A r \in ApiRequests : Own(cookie[r])

ServerWide == UserLogin \/ Tick \/ Restart

LEMMA OwnOpen ==
  ASSUME UpstreamTypeOK, NEW account \in {"service", "resident"}, Open(account), clock' = clock,
         NEW c \in Cookies, Own(c)
  PROVE  Own(c)'
  BY InstantsType DEF UpstreamTypeOK, Open, Own, Accounts, Cookies

LEMMA OwnLater ==
  ASSUME UpstreamTypeOK, NEW c \in Cookies, Own(c), clock' = clock + 1, mixed' = mixed,
         sessions' \in {sessions, [i \in Instants |-> "nobody"]}
  PROVE  Own(c)'
  BY InstantsType DEF UpstreamTypeOK, Own, Cookies

LEMMA OwnCookiesStep ==
  ASSUME UpstreamTypeOK, OwnCookies, [UpstreamNext]_upstreamVars
  PROVE  OwnCookies'
<1> USE DEF OwnCookies, client, request
<1>1. jar \in Cookies /\ kept \in Cookies /\ \A r \in ApiRequests : cookie[r] \in Cookies
  BY DEF UpstreamTypeOK
<1>2. CASE UserLogin
  BY <1>1, <1>2, OwnOpen DEF UserLogin
<1>3. CASE Tick \/ Restart
  BY <1>1, <1>3, OwnLater DEF Tick, Restart
<1>4. ASSUME NEW r \in ApiRequests, Grant(r) PROVE OwnCookies'
  <2>1. Own(jar)' /\ Own(kept)'
    BY <1>1, <1>4, OwnOpen DEF Grant
  <2>2. Own(cookie[r])'
    <3>1. cookie'[r] = clock /\ clock' = clock /\ sessions'[clock] = "service"
      BY <1>4 DEF Grant, Open, UpstreamTypeOK
    <3> QED BY <3>1, InstantsType DEF Own, UpstreamTypeOK
  <2>3. ASSUME NEW q \in ApiRequests \ {r} PROVE Own(cookie[q])'
    <3>1. cookie'[q] = cookie[q] /\ clock' = clock /\ Open("service")
      BY <1>4 DEF Grant, UpstreamTypeOK
    <3>2. PICK c \in Cookies : c = cookie[q]
      BY <1>1
    <3>3. Own(c)'
      BY <3>1, <3>2, OwnOpen
    <3> QED BY <3>1, <3>2, <3>3 DEF Own
  <2> QED BY <2>1, <2>2, <2>3
<1>5. ASSUME UNCHANGED <<clock, sessions, mixed>>,
             jar' \in {jar} \cup {cookie[r] : r \in ApiRequests},
             kept' \in {kept, NoCookie} \cup {cookie[r] : r \in ApiRequests},
             \A r \in ApiRequests : cookie'[r] \in {cookie[r], jar, kept}
      PROVE  OwnCookies'
  BY <1>5 DEF Own
<1>6. CASE UNCHANGED upstreamVars
  BY <1>5, <1>6 DEF upstreamVars, server
<1>7. CASE CookieExpires
  BY <1>5, <1>7 DEF CookieExpires, server
<1>8. ASSUME NEW r \in ApiRequests,
             \/ Begin(r) \/ UseCached(r) \/ LoggedIn(r) \/ Store(r) \/ Send(r)
             \/ Serve(r) \/ Answer(r) \/ GiveUp(r)
      PROVE  OwnCookies'
  <2>1. UNCHANGED <<clock, sessions, mixed>>
    BY <1>8 DEF Begin, UseCached, LoggedIn, Store, Send, Serve, Answer, GiveUp, server
  <2>2. jar' \in {jar} \cup {cookie[q] : q \in ApiRequests}
    BY <1>8
    DEF Begin, UseCached, LoggedIn, Store, Send, Serve, Answer, GiveUp, SetJar
  <2>3. kept' \in {kept, NoCookie} \cup {cookie[q] : q \in ApiRequests}
    BY <1>8 DEF Begin, UseCached, LoggedIn, Store, Send, Serve, Answer, GiveUp
  <2>4. \A q \in ApiRequests : cookie'[q] \in {cookie[q], jar, kept}
    BY <1>8
    DEF Begin, UseCached, LoggedIn, Store, Send, Serve, Answer, GiveUp, Attach, UpstreamTypeOK
  <2> QED BY <1>5, <2>1, <2>2, <2>3, <2>4
<1> QED BY <1>2, <1>3, <1>4, <1>6, <1>7, <1>8 DEF UpstreamNext

\* The server takes every request for the service account, unless two accounts
\* were given the same token (MockServerAuth, mock-server/server.js).
THEOREM ServedAsServiceCorrect == UpstreamSpec => []ServedAsService
<1>1. UpstreamInit => OwnCookies /\ ServedAsService
  BY DEF UpstreamInit, OwnCookies, Own, ServedAsService
<1>2. UpstreamTypeOK /\ OwnCookies /\ [UpstreamNext]_upstreamVars => OwnCookies'
  BY OwnCookiesStep
<1>3. ASSUME UpstreamTypeOK, OwnCookies, ServedAsService, [UpstreamNext]_upstreamVars
      PROVE  ServedAsService'
  <2>1. mixed => mixed'
    BY <1>3
    DEF UpstreamNext, upstreamVars, server, Begin, UseCached, Grant, LoggedIn, Store, Send,
        Serve, Answer, GiveUp, UserLogin, Tick, Restart, CookieExpires, Open
  <2>2. ASSUME NEW r \in ApiRequests, Serve(r), ~mixed
        PROVE  \A q \in ApiRequests : served'[q] \in {served[q], "nobody", "service"}
    <3>1. Account(cookie[r]) \in {"nobody", "service"}
      BY <1>3, <2>2 DEF OwnCookies, Own, Account, UpstreamTypeOK, Cookies, Accounts
    <3> QED BY <1>3, <2>2, <3>1 DEF Serve, UpstreamTypeOK
  <2>3. CASE UNCHANGED served
    BY <1>3, <2>1, <2>3 DEF ServedAsService
  <2>4. CASE \E r \in ApiRequests : Serve(r)
    BY <1>3, <2>1, <2>2, <2>4 DEF ServedAsService
  <2> QED
    BY <1>3, <2>3, <2>4
    DEF UpstreamNext, upstreamVars, request, Begin, UseCached, Grant, LoggedIn, Store, Send,
        Answer, GiveUp, UserLogin, Tick, Restart, CookieExpires
<1> QED BY <1>1, <1>2, <1>3, UpstreamTypeCorrect, PTL DEF UpstreamSpec

-----------------------------------------------------------------------------
(* Refused requests *)

\* From its login to its answer a request that nothing disturbed has a live
\* session: first in its own cookie, then in the jar, then in its message.
Live(r) ==
  /\ at[r] \in {"idle", "cached"} => attempt[r] = 0
  /\ at[r] = "granted" /\ ~disturbed[r] => Account(cookie[r]) # "nobody"
  /\ at[r] \in {"store", "send"} /\ ~disturbed[r] => Account(jar) # "nobody"
  /\ at[r] = "waiting" /\ attempt[r] = 1 /\ ~disturbed[r] =>
       wire[r] # "401" /\ (wire[r] = "sent" => Account(cookie[r]) # "nobody")
  /\ at[r] = "refused" => disturbed[r]

\* A session ends only with the server.
LEMMA SessionsLast ==
  ASSUME UpstreamTypeOK, NEW account \in {"service", "resident"}, Open(account)
  PROVE  \A i \in Instants : sessions[i] # "nobody" => sessions'[i] # "nobody"
  BY DEF UpstreamTypeOK, Open

\* What another request does.
LEMMA LiveOther ==
  ASSUME UpstreamTypeOK, NEW r \in ApiRequests, Live(r), NEW q \in ApiRequests, q # r,
         \/ Begin(q) \/ UseCached(q) \/ Grant(q) \/ LoggedIn(q) \/ Store(q) \/ Send(q)
         \/ Serve(q) \/ Answer(q) \/ GiveUp(q)
  PROVE  Live(r)'
<1>1. /\ at'[r] = at[r] /\ attempt'[r] = attempt[r] /\ cookie'[r] = cookie[r]
      /\ wire'[r] = wire[r]
  BY DEF UpstreamTypeOK, Begin, UseCached, Grant, LoggedIn, Store, Send, Serve, Answer, GiveUp,
         Go, Say, Attach, SetJar, ServeBook, ServeCancel, ServeRead, request
<1>2. CASE UseCached(q) \/ LoggedIn(q)
  <2>1. sessions' = sessions
    BY <1>2 DEF UseCached, LoggedIn, server
  <2>2. SetJar(q, cookie[q])
    BY <1>2 DEF UseCached, LoggedIn
  <2>3. /\ disturbed[r] => disturbed'[r]
        /\ at[r] \in {"store", "send"} /\ ~disturbed'[r] => Account(jar') # "nobody"
    BY <2>2 DEF SetJar, UpstreamTypeOK
  <2> QED BY <1>1, <2>1, <2>3 DEF Live, Account
<1>3. CASE Grant(q)
  <2>1. disturbed'[r] = disturbed[r] /\ jar' = jar
    BY <1>3 DEF Grant, UpstreamTypeOK, client
  <2>2. \A i \in Instants : sessions[i] # "nobody" => sessions'[i] # "nobody"
    BY <1>3, SessionsLast DEF Grant
  <2> QED BY <1>1, <2>1, <2>2 DEF Live, Account, UpstreamTypeOK, Cookies
<1>4. CASE \/ Begin(q) \/ Store(q) \/ Send(q) \/ Serve(q) \/ Answer(q) \/ GiveUp(q)
  <2>1. UNCHANGED <<jar, sessions, disturbed>>
    BY <1>4 DEF Begin, Store, Send, Serve, Answer, GiveUp, server, client, request
  <2> QED BY <1>1, <2>1 DEF Live, Account
<1> QED BY <1>2, <1>3, <1>4

\* What the request does itself.
LEMMA LiveSelf ==
  ASSUME UpstreamTypeOK, NEW r \in ApiRequests, Live(r),
         \/ Begin(r) \/ UseCached(r) \/ Grant(r) \/ LoggedIn(r) \/ Store(r) \/ Send(r)
         \/ Serve(r) \/ Answer(r) \/ GiveUp(r)
  PROVE  Live(r)'
<1> USE DEF Live, UpstreamTypeOK, Go, server, client
<1>1. CASE Begin(r)
  BY <1>1 DEF Begin
<1>2. CASE UseCached(r)
  BY <1>2 DEF UseCached, Attach, Say
<1>3. CASE Grant(r)
  <2>1. Account(cookie[r])' = "service"
    BY <1>3, InstantsType DEF Grant, Open, Account
  <2> QED BY <1>3, <2>1 DEF Grant
<1>4. CASE LoggedIn(r)
  <2>1. sessions' = sessions /\ jar' = cookie[r] /\ at'[r] = "store" /\ disturbed'[r] = disturbed[r]
    BY <1>4 DEF LoggedIn, SetJar
  <2> QED BY <1>4, <2>1 DEF LoggedIn, Account
<1>5. CASE Store(r)
  BY <1>5 DEF Store, Account
<1>6. CASE Send(r)
  BY <1>6 DEF Send, Attach, Say, Account
<1>7. CASE Serve(r)
  <2>1. /\ at' = at /\ attempt' = attempt /\ disturbed' = disturbed /\ cookie' = cookie
        /\ jar' = jar /\ sessions' = sessions
    BY <1>7 DEF Serve
  <2>2. CASE Account(cookie[r]) = "nobody"
    BY <1>7, <2>1, <2>2 DEF Serve, Say, Account
  <2>3. CASE Account(cookie[r]) # "nobody"
    <3>1. wire'[r] \in {"200", "404"}
      BY <1>7, <2>3 DEF Serve, Say, ServeBook, ServeCancel, ServeRead
    <3> QED BY <2>1, <2>3, <3>1 DEF Account
  <2> QED BY <2>2, <2>3
<1>8. CASE Answer(r)
  BY <1>8 DEF Answer, Say
<1>9. CASE GiveUp(r)
  BY <1>9 DEF GiveUp
<1> QED BY <1>1, <1>2, <1>3, <1>4, <1>5, <1>6, <1>7, <1>8, <1>9

LEMMA LiveServer ==
  ASSUME UpstreamTypeOK, NEW r \in ApiRequests, Live(r),
         \/ UserLogin \/ Tick \/ Restart \/ CookieExpires \/ UNCHANGED upstreamVars
  PROVE  Live(r)'
<1>1. CASE UserLogin
  <2>1. \A i \in Instants : sessions[i] # "nobody" => sessions'[i] # "nobody"
    BY <1>1, SessionsLast DEF UserLogin
  <2> QED BY <1>1, <2>1 DEF UserLogin, Live, Account, UpstreamTypeOK, Cookies, client, request
<1>2. CASE Restart
  BY <1>2 DEF Restart, Live
<1>3. CASE Tick \/ CookieExpires \/ UNCHANGED upstreamVars
  BY <1>3 DEF Tick, CookieExpires, upstreamVars, server, client, request, Live, Account
<1> QED BY <1>1, <1>2, <1>3

\* A request is refused after its refresh only if, since its login, the server
\* restarted or another request put a dead cookie into the jar, for any number
\* of concurrent requests (ApiAdapter._request).
THEOREM RefusedNeedsRivalCorrect == UpstreamSpec => []RefusedNeedsRival
<1> DEFINE AllLive == \A r \in ApiRequests : Live(r)
<1>1. UpstreamInit => AllLive
  BY DEF UpstreamInit, Live
<1>2. UpstreamTypeOK /\ AllLive /\ [UpstreamNext]_upstreamVars => AllLive'
  <2> SUFFICES ASSUME UpstreamTypeOK, AllLive, [UpstreamNext]_upstreamVars, NEW r \in ApiRequests
               PROVE  Live(r)'
    OBVIOUS
  <2> QED BY LiveOther, LiveSelf, LiveServer DEF UpstreamNext
<1>3. AllLive => RefusedNeedsRival
  BY DEF Live, RefusedNeedsRival
<1> HIDE DEF AllLive
<1> QED BY <1>1, <1>2, <1>3, UpstreamTypeCorrect, PTL DEF UpstreamSpec

-----------------------------------------------------------------------------
(* Cancellations *)

\* What a cancellation means is still there, or the server has lost it and
\* makes no other booking with its id.
Targets ==
  /\ \A b \in bookings : b.id <= clock
  /\ \A r \in ApiRequests :
       /\ at[r] = "idle" => target[r] = {}
       /\ \A t \in target[r] :
            \/ t \in bookings
            \/ t.id < clock /\ \A b \in bookings : b.id # t.id

LEMMA BookingIds ==
  ASSUME NEW b \in Bookings
  PROVE  b.id \in Int /\ (b # SeedBooking => b.id \in Instants)
<1>1. CASE b = SeedBooking
  BY <1>1 DEF SeedBooking
<1>2. CASE b # SeedBooking
  <2>1. b \in [id : Instants, by : ApiRequests, attempt : {0, 1}]
    BY <1>2 DEF Bookings
  <2> QED BY <1>2, <2>1, InstantsType
<1> QED BY <1>1, <1>2

LEMMA TargetsStep ==
  ASSUME UpstreamTypeOK, Targets, [UpstreamNext]_upstreamVars
  PROVE  Targets'
<1>1. ASSUME UNCHANGED <<clock, bookings, target>>,
             \A r \in ApiRequests : at'[r] = "idle" => at[r] = "idle"
      PROVE  Targets'
  BY <1>1 DEF Targets
<1>2. CASE UNCHANGED upstreamVars \/ UserLogin \/ CookieExpires
  BY <1>1, <1>2 DEF UserLogin, CookieExpires, upstreamVars, server, client, request
<1>3. CASE Tick
  <2>1. clock' = clock + 1 /\ UNCHANGED <<bookings, target, at>>
    BY <1>3 DEF Tick, request
  <2>2. clock \in Int /\ \A b \in Bookings : b.id \in Int
    BY InstantsType, BookingIds DEF UpstreamTypeOK
  <2>3. /\ \A b \in bookings : b \in Bookings
        /\ \A r \in ApiRequests : \A t \in target[r] : t \in Bookings
    BY DEF UpstreamTypeOK
  <2> QED BY <2>1, <2>2, <2>3 DEF Targets
<1>4. CASE Restart
  <2>1. clock' = clock + 1 /\ bookings' = {SeedBooking} /\ UNCHANGED <<at, target>>
    BY <1>4 DEF Restart
  <2>2. clock \in Int /\ SeedBooking.id = -1 /\ clock >= 0
    BY InstantsType, UpstreamAssumption DEF UpstreamTypeOK, SeedBooking, Instants
  <2>3. ASSUME NEW r \in ApiRequests, NEW t \in target[r], t # SeedBooking
        PROVE  t.id < clock' /\ t.id # SeedBooking.id
    <3>1. t \in Bookings
      BY DEF UpstreamTypeOK
    <3>2. t.id \in Int /\ t.id >= 0
      BY <2>3, <3>1, BookingIds DEF Instants
    <3>3. t.id <= clock
      BY <2>2, <3>2 DEF Targets
    <3> QED BY <2>1, <2>2, <3>2, <3>3
  <2> QED BY <2>1, <2>2, <2>3 DEF Targets
<1>5. ASSUME NEW r \in ApiRequests, Begin(r) PROVE Targets'
  <2>1. UNCHANGED <<clock, bookings>> /\ at'[r] # "idle"
    BY <1>5 DEF Begin, Go, UpstreamTypeOK, server
  <2>2. \A q \in ApiRequests \ {r} : at'[q] = at[q] /\ target'[q] = target[q]
    BY <1>5 DEF Begin, Go, UpstreamTypeOK
  <2>3. target'[r] \subseteq bookings
    BY <1>5 DEF Begin, Targets, UpstreamTypeOK
  <2> QED BY <2>1, <2>2, <2>3 DEF Targets
<1>6. ASSUME NEW r \in ApiRequests, Serve(r) PROVE Targets'
  <2>1. UNCHANGED <<clock, target, at>> /\ bookings \subseteq bookings'
    BY <1>6 DEF Serve, ServeBook, ServeCancel, ServeRead
  <2>2. bookings' \subseteq bookings \cup {NewBooking(r)}
    BY <1>6 DEF Serve, ServeBook, ServeCancel, ServeRead
  <2>3. NewBooking(r).id = clock /\ clock \in Int
    BY InstantsType DEF NewBooking, UpstreamTypeOK
  <2> QED BY <2>1, <2>2, <2>3 DEF Targets
<1>7. ASSUME NEW r \in ApiRequests,
             \/ UseCached(r) \/ Grant(r) \/ LoggedIn(r) \/ Store(r) \/ Send(r)
             \/ Answer(r) \/ GiveUp(r)
      PROVE  Targets'
  <2>1. UNCHANGED <<clock, bookings, target>>
    BY <1>7 DEF UseCached, Grant, LoggedIn, Store, Send, Answer, GiveUp, server
  <2>2. \A q \in ApiRequests : at'[q] = "idle" => at[q] = "idle"
    BY <1>7
    DEF UseCached, Grant, LoggedIn, Store, Send, Answer, GiveUp, Go, Attach, UpstreamTypeOK
  <2> QED BY <1>1, <2>1, <2>2
<1> QED BY <1>2, <1>3, <1>4, <1>5, <1>6, <1>7 DEF UpstreamNext

LEMMA CancelHitsTargetStep ==
  ASSUME UpstreamTypeOK, Targets, CancelHitsTarget, [UpstreamNext]_upstreamVars
  PROVE  CancelHitsTarget'
<1>1. ASSUME gone' = gone, bookings \subseteq bookings',
             \A r \in ApiRequests : target[r] \subseteq target'[r]
      PROVE  CancelHitsTarget'
  BY <1>1 DEF CancelHitsTarget
<1>2. ASSUME NEW r \in ApiRequests, Begin(r) PROVE CancelHitsTarget'
  <2>1. \A q \in ApiRequests : target[q] \subseteq target'[q]
    BY <1>2 DEF Begin, Targets, UpstreamTypeOK
  <2> QED BY <1>1, <1>2, <2>1 DEF Begin, server
<1>3. ASSUME NEW r \in ApiRequests, Serve(r) PROVE CancelHitsTarget'
  <2>1. target' = target /\ bookings \subseteq bookings'
    BY <1>3 DEF Serve, ServeBook, ServeCancel, ServeRead
  <2>2. CASE gone' = gone
    BY <1>1, <2>1, <2>2
  <2>3. CASE gone' # gone
    <3>1. PICK b \in bookings : /\ \E t \in target[r] : b.id = t.id
                                /\ gone' = gone \cup {b}
      BY <1>3, <2>3 DEF Serve, ServeBook, ServeCancel, ServeRead
    <3>2. PICK t \in target[r] : b.id = t.id
      BY <3>1
    <3>3. b \in target[r] \/ \E c \in bookings : c # b /\ c.id = b.id
      BY <3>2 DEF Targets
    <3> QED BY <2>1, <3>1, <3>3 DEF CancelHitsTarget
  <2> QED BY <2>2, <2>3
<1>4. CASE Restart
  BY <1>4 DEF Restart, CancelHitsTarget
<1>5. ASSUME NEW r \in ApiRequests,
             \/ UseCached(r) \/ Grant(r) \/ LoggedIn(r) \/ Store(r) \/ Send(r)
             \/ Answer(r) \/ GiveUp(r)
      PROVE  CancelHitsTarget'
  BY <1>1, <1>5 DEF UseCached, Grant, LoggedIn, Store, Send, Answer, GiveUp, server
<1>6. CASE UserLogin \/ Tick \/ CookieExpires \/ UNCHANGED upstreamVars
  BY <1>1, <1>6 DEF UserLogin, Tick, CookieExpires, upstreamVars, server, request
<1> QED BY <1>2, <1>3, <1>4, <1>5, <1>6 DEF UpstreamNext

LEMMA TargetsAlways == UpstreamSpec => []Targets
<1>1. ASSUME UpstreamInit PROVE Targets
  BY <1>1 DEF UpstreamInit, Targets, SeedBooking
<1>2. UpstreamTypeOK /\ Targets /\ [UpstreamNext]_upstreamVars => Targets'
  BY TargetsStep
<1> QED BY <1>1, <1>2, UpstreamTypeCorrect, PTL DEF UpstreamSpec

\* Every cancelled booking is one that some request meant, or shares its id
\* with another: a request that outlives a restart of the server never hits a
\* stranger's (mock-server/server.js).
THEOREM CancelHitsTargetCorrect == UpstreamSpec => []CancelHitsTarget
<1>1. UpstreamInit => CancelHitsTarget
  BY DEF UpstreamInit, CancelHitsTarget
<1>2. UpstreamTypeOK /\ Targets /\ CancelHitsTarget /\ [UpstreamNext]_upstreamVars =>
        CancelHitsTarget'
  BY CancelHitsTargetStep
<1> QED BY <1>1, <1>2, UpstreamTypeCorrect, TargetsAlways, PTL DEF UpstreamSpec

-----------------------------------------------------------------------------
(* Refinement *)

\* No message is under way before it is sent.
Unsent ==
  \A r \in ApiRequests :
    at[r] \in {"idle", "cached", "login", "granted", "store", "send"} => wire[r] = "none"

LEMMA UnsentAlways == UpstreamSpec => []Unsent
<1>1. UpstreamInit => Unsent
  BY DEF UpstreamInit, Unsent
<1>2. UpstreamTypeOK /\ Unsent /\ [UpstreamNext]_upstreamVars => Unsent'
  <2> SUFFICES ASSUME UpstreamTypeOK, Unsent, [UpstreamNext]_upstreamVars PROVE Unsent'
    OBVIOUS
  <2> USE DEF Unsent, UpstreamTypeOK
  <2>1. ASSUME NEW r \in ApiRequests, Begin(r) \/ Grant(r) \/ LoggedIn(r) \/ Store(r) \/ GiveUp(r)
        PROVE  Unsent'
    BY <2>1 DEF Begin, Grant, LoggedIn, Store, GiveUp, Go
  <2>2. ASSUME NEW r \in ApiRequests, UseCached(r) \/ Send(r) PROVE Unsent'
    BY <2>2 DEF UseCached, Send, Attach, Go, Say
  <2>3. ASSUME NEW r \in ApiRequests, Serve(r) PROVE Unsent'
    BY <2>3 DEF Serve, ServeBook, ServeCancel, ServeRead, Say
  <2>4. ASSUME NEW r \in ApiRequests, Answer(r) PROVE Unsent'
    BY <2>4 DEF Answer, Go, Say
  <2>5. CASE UserLogin \/ Tick \/ Restart \/ CookieExpires \/ UNCHANGED upstreamVars
    BY <2>5 DEF UserLogin, Tick, Restart, CookieExpires, upstreamVars, request
  <2> QED BY <2>1, <2>2, <2>3, <2>4, <2>5 DEF UpstreamNext
<1> QED BY <1>1, <1>2, UpstreamTypeCorrect, PTL DEF UpstreamSpec

LedgerStep ==
  \/ \E r \in ApiRequests : \/ Abstract!Book(r, NewBooking(r))
                            \/ \E b \in bookings : Abstract!Cancel(r, b)
                            \/ Abstract!Read(r)
  \/ Abstract!Forget

LEMMA OwedAfter ==
  ASSUME UpstreamTypeOK, NEW r \in ApiRequests, NEW answer, wire[r] # "200", Say(r, answer)
  PROVE  /\ r \in Owed
         /\ Owed' = IF answer = "200" THEN Owed \ {r} ELSE Owed
  BY DEF UpstreamTypeOK, Say, Owed

LEMMA LedgerSimulation ==
  ASSUME UpstreamTypeOK, Unsent, [UpstreamNext]_upstreamVars
  PROVE  LedgerStep \/ UNCHANGED <<Owed, bookings, gone>>
<1>1. ASSUME NEW r \in ApiRequests, Serve(r)
      PROVE  LedgerStep \/ UNCHANGED <<Owed, bookings, gone>>
  <2>1. wire[r] # "200"
    BY <1>1 DEF Serve
  <2>2. CASE Say(r, "401") /\ UNCHANGED <<bookings, gone>>
    BY <2>1, <2>2, OwedAfter
  <2>3. CASE ServeBook(r)
    <3>1. Abstract!Book(r, NewBooking(r))
      BY <2>1, <2>3, OwedAfter DEF ServeBook, Abstract!Book, Abstract!Settle
    <3> QED BY <3>1 DEF LedgerStep
  <2>4. CASE ServeCancel(r)
    <3>1. CASE Say(r, "404") /\ UNCHANGED <<bookings, gone>>
      BY <2>1, <3>1, OwedAfter
    <3>2. CASE \E b \in bookings : /\ gone' = gone \cup {b} /\ Say(r, "200")
                                   /\ UNCHANGED bookings
      <4>1. PICK b \in bookings : gone' = gone \cup {b} /\ Say(r, "200") /\ UNCHANGED bookings
        BY <3>2
      <4>2. Abstract!Cancel(r, b)
        BY <2>1, <4>1, OwedAfter DEF Abstract!Cancel, Abstract!Settle
      <4> QED BY <4>2 DEF LedgerStep
    <3> QED BY <2>4, <3>1, <3>2 DEF ServeCancel
  <2>5. CASE ServeRead(r)
    <3>1. Abstract!Read(r)
      BY <2>1, <2>5, OwedAfter DEF ServeRead, Abstract!Read, Abstract!Settle
    <3> QED BY <3>1 DEF LedgerStep
  <2> QED BY <1>1, <2>2, <2>3, <2>4, <2>5 DEF Serve
<1>2. ASSUME NEW r \in ApiRequests, UseCached(r) \/ Send(r) PROVE UNCHANGED <<Owed, bookings, gone>>
  <2>1. wire[r] # "200" /\ Say(r, "sent")
    BY <1>2 DEF UseCached, Send, Attach, Unsent
  <2> QED BY <1>2, <2>1, OwedAfter DEF UseCached, Send, server
<1>3. ASSUME NEW r \in ApiRequests, Answer(r) PROVE UNCHANGED <<Owed, bookings, gone>>
  <2>1. wire' = wire \/ (wire[r] # "200" /\ Say(r, "none"))
    BY <1>3 DEF Answer
  <2>2. Owed' = Owed
    BY <2>1, OwedAfter DEF Owed
  <2> QED BY <1>3, <2>2 DEF Answer, server
<1>4. ASSUME NEW r \in ApiRequests, Begin(r) \/ Grant(r) \/ LoggedIn(r) \/ Store(r) \/ GiveUp(r)
      PROVE  UNCHANGED <<Owed, bookings, gone>>
  BY <1>4 DEF Begin, Grant, LoggedIn, Store, GiveUp, Owed, server
<1>5. CASE Restart
  <2>1. Abstract!Forget
    BY <1>5 DEF Restart, Abstract!Forget, Owed
  <2> QED BY <2>1 DEF LedgerStep
<1>6. CASE UserLogin \/ Tick \/ CookieExpires \/ UNCHANGED upstreamVars
  BY <1>6 DEF UserLogin, Tick, CookieExpires, upstreamVars, server, request, Owed
<1> QED BY <1>1, <1>2, <1>3, <1>4, <1>5, <1>6 DEF UpstreamNext

\* The client and the server implement Ledger: a request takes effect at most
\* once, its refresh, its timeout and restarts of the server included
\* (ApiAdapter._request, mock-server/server.js).
THEOREM UpstreamImplementsLedger == UpstreamSpec => ImplementsLedger
<1>1. UpstreamInit => Abstract!Init
  BY DEF UpstreamInit, Abstract!Init
<1>2. UpstreamTypeOK /\ Unsent /\ [UpstreamNext]_upstreamVars =>
        [LedgerStep]_<<Owed, bookings, gone>>
  BY LedgerSimulation
<1> QED
  BY <1>1, <1>2, UpstreamTypeCorrect, UnsentAlways, PTL
  DEF UpstreamSpec, ImplementsLedger, LedgerStep
=============================================================================
