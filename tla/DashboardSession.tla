--------------------------- MODULE DashboardSession ---------------------------
(***************************************************************************)
(* One login of the dashboard in several tabs of a browser                 *)
(* (apps/web: lib/api/core.ts, store/session.ts, app-shell.tsx and the BFF *)
(* that keeps the tokens in cookies) against routes/auth.js: requests with *)
(* an access token that expired, the refresh they share, the keep-alive,   *)
(* lost answers and logout.                                                *)
(*                                                                         *)
(* The n-th pair of tokens of the session is n; the cookies hold one pair  *)
(* and a tab's memory none.  A tab's generation counts its own refreshes.  *)
(***************************************************************************)
EXTENDS Naturals

CONSTANTS
    Tab,     \* windows with the dashboard open
    NoTab,
    Request, \* requests on their way
    MaxPairs \* bound: token pairs of the session

ASSUME DashboardAssumption == NoTab \notin Tab /\ MaxPairs \in Nat \ {0}

VARIABLES
    session,  \* the server: its state, the pair that is live, the newest access token expired
    jar,      \* the pair in the cookies; 0: cleared
    tabs,     \* authenticated, refresh generation and the pair the tab last obtained
    flight,   \* refreshSessionPromise of each tab
    requests, \* authenticatedRequest calls
    excuse    \* a refresh lost its answer, or two tabs presented one token (history)

dashboardVars == <<session, jar, tabs, flight, requests, excuse>>

Pair == 1..MaxPairs
NoFlight == [st |-> "none", pair |-> 0, got |-> 0, clear |-> FALSE, cause |-> 0]
FlightStates ==
    [st : {"none", "sent", "refused", "renewed", "stored"}, pair : {0} \cup Pair,
     got : {0} \cup Pair, clear : BOOLEAN, cause : {0} \cup Pair]
NoRequest == [st |-> "none", tab |-> NoTab, pair |-> 0, gen |-> 0, canRetry |-> FALSE]
FetchStates ==
    [st : {"none", "sent", "refused", "waiting"}, tab : Tab \cup {NoTab}, pair : {0} \cup Pair,
     gen : 0..MaxPairs, canRetry : BOOLEAN]

Refreshing(t) == flight[t].st # "none"
Fetch(t, canRetry, gen) ==
    [st |-> "sent", tab |-> t, pair |-> jar, gen |-> gen, canRetry |-> canRetry]

\* clearSession.
SignedOut(t) == [tabs EXCEPT ![t].auth = FALSE]

\* The promise of a new refresh; the cookie goes with it.
Takeoff(t, clear, cause) ==
    /\ flight' = [flight EXCEPT ![t] =
          [st |-> "sent", pair |-> jar, got |-> 0, clear |-> clear, cause |-> cause]]
    /\ excuse' = (excuse \/ \E other \in Tab \ {t} : jar # 0 /\ flight[other].pair = jar)

-----------------------------------------------------------------------------
(* Requests *)

\* authenticatedRequest: the generation is noted and the BFF adds the access token.
Send(t, r) ==
    /\ requests[r] = NoRequest
    /\ tabs[t].auth
    /\ requests' = [requests EXCEPT ![r] = Fetch(t, TRUE, tabs[t].gen)]
    /\ UNCHANGED <<session, jar, tabs, flight, excuse>>

\* requireAuth: served while the access token has not expired and the session is active.
Serve(r) ==
    /\ requests[r].st = "sent"
    /\ requests' = [requests EXCEPT ![r] =
          IF requests[r].pair > session.expired /\ session.st = "active"
          THEN NoRequest ELSE [@ EXCEPT !.st = "refused"]]
    /\ UNCHANGED <<session, jar, tabs, flight, excuse>>

\* Mutant of Superseded: the generation is not compared.
NeverSuperseded(r) == FALSE

\* Did a refresh of the tab finish while the request was on its way?
Superseded(r) == requests[r].gen # tabs[requests[r].tab].gen

\* Mutant of Joins: every 401 starts a refresh of its own.
JoinsNothing(t) == FALSE

\* tryRefreshSession returns the promise that is there.
Joins(t) == Refreshing(t)

\* The 401 arrives: a retry with the new cookie, the refresh that is running, a refresh, or
\* the error, which ends the session of the tab when the request was for the profile.
Unauthorized(r) ==
    LET t == requests[r].tab
    IN /\ requests[r].st = "refused"
       /\ \/ /\ ~requests[r].canRetry
             /\ requests' = [requests EXCEPT ![r] = NoRequest]
             /\ tabs' \in {tabs, SignedOut(t)}
             /\ UNCHANGED <<flight, excuse>>
          \/ /\ requests[r].canRetry /\ Superseded(r)
             /\ requests' = [requests EXCEPT ![r] = Fetch(t, FALSE, tabs[t].gen)]
             /\ UNCHANGED <<tabs, flight, excuse>>
          \/ /\ requests[r].canRetry /\ ~Superseded(r) /\ Joins(t)
             /\ requests' = [requests EXCEPT ![r].st = "waiting"]
             /\ UNCHANGED <<tabs, flight, excuse>>
          \/ /\ requests[r].canRetry /\ ~Superseded(r) /\ ~Joins(t)
             /\ IF tabs[t].auth
                THEN /\ requests' = [requests EXCEPT ![r].st = "waiting"]
                     /\ Takeoff(t, TRUE, requests[r].pair)
                ELSE /\ requests' = [requests EXCEPT ![r] = NoRequest]
                     /\ UNCHANGED <<flight, excuse>>
             /\ UNCHANGED tabs
       /\ UNCHANGED <<session, jar>>

-----------------------------------------------------------------------------
(* Refreshes *)

\* keepSessionAlive: every eight minutes, and when the tab is shown or focused.
KeepAlive(t) ==
    /\ tabs[t].auth /\ ~Joins(t)
    /\ Takeoff(t, FALSE, 0)
    /\ UNCHANGED <<session, jar, tabs, requests>>

\* /session/refresh: the live token is rotated; any other one ends the session.
RefreshServed(t) ==
    /\ flight[t].st = "sent"
    /\ IF session.st = "active" /\ flight[t].pair = session.pair
       THEN /\ session.pair < MaxPairs
            /\ session' = [session EXCEPT !.pair = @ + 1]
            /\ flight' = [flight EXCEPT ![t].st = "renewed", ![t].got = session.pair + 1]
       ELSE /\ session' = IF session.st = "active" /\ flight[t].pair # 0
                          THEN [session EXCEPT !.st = "replayed"] ELSE session
            /\ flight' = [flight EXCEPT ![t].st = "refused"]
    /\ UNCHANGED <<jar, tabs, requests, excuse>>

\* The BFF or the network gives up; the server may have rotated the token.
RefreshLost(t) ==
    /\ flight[t].st \in {"sent", "renewed"}
    /\ flight' = [flight EXCEPT ![t].st = "refused"]
    /\ excuse' = (excuse \/ flight[t].st = "renewed")
    /\ UNCHANGED <<session, jar, tabs, requests>>

\* The answer of the BFF sets the cookies before the tab's code has read it.
StoreCookies(t) ==
    /\ flight[t].st = "renewed"
    /\ jar' = flight[t].got
    /\ flight' = [flight EXCEPT ![t].st = "stored"]
    /\ UNCHANGED <<session, tabs, requests, excuse>>

\* applySession and the next generation: the requests that waited are sent once more.
RefreshDone(t) ==
    /\ flight[t].st = "stored"
    /\ tabs' = [tabs EXCEPT ![t] =
          [auth |-> TRUE, gen |-> tabs[t].gen + 1, last |-> flight[t].got]]
    /\ requests' = [r \in Request |->
          IF requests[r].st = "waiting" /\ requests[r].tab = t
          THEN Fetch(t, FALSE, tabs[t].gen + 1) ELSE requests[r]]
    /\ flight' = [flight EXCEPT ![t] = NoFlight]
    /\ UNCHANGED <<session, jar, excuse>>

\* A refresh for a request clears the session it could not renew, a keep-alive does not; the
\* requests that waited fail with their 401, the profile among them perhaps.
RefreshFailed(t) ==
    /\ flight[t].st = "refused"
    /\ tabs' \in {SignedOut(t)} \cup IF flight[t].clear THEN {} ELSE {tabs}
    /\ requests' = [r \in Request |->
          IF requests[r].st = "waiting" /\ requests[r].tab = t THEN NoRequest ELSE requests[r]]
    /\ flight' = [flight EXCEPT ![t] = NoFlight]
    /\ UNCHANGED <<session, jar, excuse>>

\* Fifteen minutes pass: the access tokens issued so far expire.
ExpireAccess ==
    /\ session.expired < session.pair
    /\ session' = [session EXCEPT !.expired = session.pair]
    /\ UNCHANGED <<jar, tabs, flight, requests, excuse>>

\* logoutSession: the token of the cookie ends its session, and the BFF clears the cookies;
\* when it gets no answer it leaves them.  The tab forgets the session either way.
SignOut(t) ==
    /\ tabs[t].auth
    /\ tabs' = SignedOut(t)
    /\ \/ /\ session' = IF jar # 0 /\ session.st = "active"
                        THEN [session EXCEPT !.st = "ended"] ELSE session
          /\ jar' \in {0, jar}
       \/ UNCHANGED <<session, jar>>
    /\ UNCHANGED <<flight, requests, excuse>>

-----------------------------------------------------------------------------
DashboardInit ==
    /\ session = [st |-> "active", pair |-> 1, expired |-> 0]
    /\ jar = 1
    /\ tabs = [t \in Tab |-> [auth |-> TRUE, gen |-> 0, last |-> 0]]
    /\ flight = [t \in Tab |-> NoFlight]
    /\ requests = [r \in Request |-> NoRequest]
    /\ excuse = FALSE

DashboardNext ==
    \/ \E r \in Request : Serve(r) \/ Unauthorized(r) \/ \E t \in Tab : Send(t, r)
    \/ \E t \in Tab :
         \/ KeepAlive(t) \/ RefreshServed(t) \/ RefreshLost(t) \/ StoreCookies(t)
         \/ RefreshDone(t) \/ RefreshFailed(t) \/ SignOut(t)
    \/ ExpireAccess

DashboardSpec == DashboardInit /\ [][DashboardNext]_dashboardVars

-----------------------------------------------------------------------------
(* Properties *)

\* The session, the tabs, their refreshes and requests hold values of their kind.
DashboardTypeOK ==
    /\ session \in [st : {"active", "replayed", "ended"}, pair : Pair, expired : {0} \cup Pair]
    /\ jar \in {0} \cup Pair
    /\ tabs \in [Tab -> [auth : BOOLEAN, gen : 0..MaxPairs, last : {0} \cup Pair]]
    /\ flight \in [Tab -> FlightStates]
    /\ requests \in [Request -> FetchStates]
    /\ excuse \in BOOLEAN

\* A burst of 401s shares one refresh, however staggered: no 401 with a token the tab has
\* already replaced starts another.
RefreshIsShared == \A t \in Tab : flight[t].cause # 0 => flight[t].cause >= tabs[t].last

\* One tab alone never presents a refresh token twice: the server takes a token for stolen
\* and ends the session only when an answer was lost or two tabs refreshed at once.
SessionEndsForCause == session.st = "replayed" => excuse
=============================================================================
