------------------------------ MODULE AuthGate ------------------------------
(***************************************************************************)
(* The session of ElectroluxClient (src/electrolux.ts): the access token,  *)
(* the login gate every API request passes (waitForLogin in the request    *)
(* interceptor), and the login and token-refresh flows that close and open *)
(* it.  Callers are the concurrent users of the client: the startup        *)
(* function main (src/index.ts) and, once it is done, the polls, discovery *)
(* calls and commands, each of which is one member of Requests.            *)
(*                                                                         *)
(* JavaScript runs to completion between awaits, so one action is the code *)
(* between two awaits that really yield (a network answer or a timer).     *)
(* Nothing in the code stops two callers from starting a flow at the same  *)
(* time, so flows are a set: each is one login or refresh with its own     *)
(* chain of retry timers.  What the server answers is unconstrained.       *)
(* A token is known by its relation to the one in the Authorization header *)
(* of the current axios client.                                            *)
(***************************************************************************)
EXTENDS FiniteSets

CONSTANTS
    Requests,   \* concurrent calls of the polls, the discovery and commands
    Main,       \* the startup function of index.ts
    Flows,      \* bound: login and refresh chains that may coexist
    None        \* no caller

Callers == Requests \cup {Main}

ASSUME AuthAssumption == /\ Main \notin Requests
                         /\ None \notin Callers

VARIABLES
    accessToken,    \* "none", "client" (the one the client was made with) or "newer"
    hasRefresh,     \* whether a refresh token is held
    eat,            \* expiry of the token: "none", "far", or "near" (due for renewal)
    authHeader,     \* whether the current axios client has an Authorization header
    isLoggingIn,    \* the flags of the client
    isLoggedIn,
    loginWaiters,   \* callers whose waitForLogin promise is pending
    flow,           \* what each flow is doing
    owner,          \* the caller awaiting the flow's current attempt, or None
    pc,             \* where each caller is
    header,         \* token in the caller's request: "none", "current" (that of the
                    \* current client) or "stale" (that of a client since replaced)
    refused,        \* token the server answered 403 to, likewise
    retry           \* "no" on the first try; after a 403 "stale", or "renewed"
                    \* if the refresh it forced opened the gate

tokenVars  == <<accessToken, hasRefresh, eat>>
gateVars   == <<isLoggingIn, isLoggedIn, loginWaiters>>
retryVars  == <<refused, retry>>
vars == <<accessToken, hasRefresh, eat, authHeader, isLoggingIn, isLoggedIn,
          loginWaiters, flow, owner, pc, header, refused, retry>>

FlowStates == {"free", "login", "refresh", "loginTimer", "refreshTimer"}

\* start      main is about to create the client and check the login
\* bootLogin  main awaits its own login()
\* gateCheck  main is about to call waitForLogin()
\* gate       main waits there
\* call       about to run requestFn of handleApiRequest
\* ensure     awaits the flow that ensureValidToken started
\* get        ensureValidToken has returned after such a flow
\* waiting    in the request interceptor, queued on waitForLogin
\* sent       the HTTP request is in flight
\* renew      awaits the refresh a 403 forced
\* idle, done not in a call; main is done when polling may start
CallerStates == {"start", "bootLogin", "gateCheck", "gate", "call", "ensure",
                 "get", "waiting", "sent", "renew", "idle", "done"}

\* Where a caller goes on once the flow attempt it awaits has ended.
AfterAwait == [bootLogin |-> "gateCheck", ensure |-> "get", renew |-> "call"]

\* Types; an expiry is known of a token only, whichever flows store, keep or drop them.
TypeOK ==
    /\ accessToken \in {"none", "client", "newer"}
    /\ hasRefresh \in BOOLEAN
    /\ eat \in IF accessToken = "none" THEN {"none"} ELSE {"none", "far", "near"}
    /\ authHeader \in BOOLEAN
    /\ isLoggingIn \in BOOLEAN
    /\ isLoggedIn \in BOOLEAN
    /\ loginWaiters \in SUBSET Callers
    /\ flow \in [Flows -> FlowStates]
    /\ owner \in [Flows -> Callers \cup {None}]
    /\ pc \in [Callers -> CallerStates]
    /\ header \in [Callers -> {"none", "current", "stale"}]
    /\ refused \in [Callers -> {"none", "current", "stale"}]
    /\ retry \in [Callers -> {"no", "stale", "renewed"}]

Init ==
    /\ accessToken = "none" /\ hasRefresh = FALSE /\ eat = "none"
    /\ authHeader = FALSE
    /\ isLoggingIn = FALSE /\ isLoggedIn = FALSE /\ loginWaiters = {}
    /\ flow = [f \in Flows |-> "free"]
    /\ owner = [f \in Flows |-> None]
    /\ pc = [c \in Callers |-> IF c = Main THEN "start" ELSE "idle"]
    /\ header = [c \in Callers |-> "none"]
    /\ refused = [c \in Callers |-> "none"]
    /\ retry = [c \in Callers |-> "no"]

-----------------------------------------------------------------------------
(* Parts shared by the handlers.                                           *)

\* startLogin(): every login and every refresh begins by closing the gate.
startLogin == isLoggingIn' = TRUE /\ isLoggedIn' = FALSE

\* c calls login() or refreshTokens() and awaits it.
StartFlow(f, c, kind) ==
    /\ flow[f] = "free"
    /\ flow' = [flow EXCEPT ![f] = kind]
    /\ owner' = [owner EXCEPT ![f] = c]
    /\ startLogin
    /\ UNCHANGED loginWaiters

\* Faulty variant: the failure is logged and no retry is scheduled.
EndAttemptNoRetry(f, timer) ==
    /\ flow' = [flow EXCEPT ![f] = "free"]
    /\ owner' = [owner EXCEPT ![f] = None]
    /\ pc' = [c \in Callers |-> IF c = owner[f] THEN AfterAwait[pc[c]] ELSE pc[c]]

\* The attempt of flow f has ended without opening the gate: its retry is on a
\* timer that nobody awaits, and the caller goes on.
EndAttempt(f, timer) ==
    /\ flow' = [flow EXCEPT ![f] = timer]
    /\ owner' = [owner EXCEPT ![f] = None]
    /\ pc' = [c \in Callers |-> IF c = owner[f] THEN AfterAwait[pc[c]] ELSE pc[c]]

\* Where a caller goes on once its waitForLogin promise is resolved.
Released(c) == IF pc[c] = "gate" THEN "call" ELSE "sent"

\* Faulty variant: the list is reset before its members are resolved.
finishLoginUnresolved(f) ==
    /\ isLoggingIn' = FALSE /\ isLoggedIn' = TRUE /\ loginWaiters' = {}
    /\ flow' = [flow EXCEPT ![f] = "free"]
    /\ owner' = [owner EXCEPT ![f] = None]
    /\ pc' = [c \in Callers |-> IF c = owner[f] THEN AfterAwait[pc[c]] ELSE pc[c]]
    /\ retry' = [c \in Callers |-> IF c = owner[f] /\ pc[c] = "renew" THEN "renewed"
                                   ELSE retry[c]]

\* finishLogin(true) at the end of flow f: the gate opens, every waiter is
\* resolved, and the caller that awaited the flow goes on.
finishLogin(f) ==
    /\ isLoggingIn' = FALSE /\ isLoggedIn' = TRUE /\ loginWaiters' = {}
    /\ flow' = [flow EXCEPT ![f] = "free"]
    /\ owner' = [owner EXCEPT ![f] = None]
    /\ pc' = [c \in Callers |-> IF c \in loginWaiters THEN Released(c)
                                ELSE IF c = owner[f] THEN AfterAwait[pc[c]]
                                ELSE pc[c]]
    /\ retry' = [c \in Callers |-> IF c = owner[f] /\ pc[c] = "renew" THEN "renewed"
                                   ELSE retry[c]]

\* Faulty variant: the header is built from the tokens held before the answer.
createApiClientTooEarly(token) ==
    /\ accessToken' = "client"
    /\ authHeader' = (accessToken # "none" /\ hasRefresh /\ eat # "none")
    /\ UNCHANGED <<header, refused>>

\* createApiClient() with the access token held, which is token before it.  The
\* header holds it only if the refresh token and the expiry are defined as well.
createApiClient(token) ==
    LET Superseded(h) == IF token = "newer" /\ h = "current" THEN "stale" ELSE h
    IN  /\ accessToken' = "client"
        /\ authHeader' = (hasRefresh' /\ eat' # "none")
        /\ header' = [c \in Callers |-> Superseded(header[c])]
        /\ refused' = [c \in Callers |-> Superseded(refused[c])]

-----------------------------------------------------------------------------
(* main() of index.ts, up to its first getAppliances().                    *)

\* client.initialize() and waitForLogin(), first or again after a restart.
MainStarts ==
    /\ pc[Main] = "start"
    /\ UNCHANGED <<hasRefresh, eat, retry>>
    /\ IF accessToken = "none"
       THEN authHeader' = FALSE /\ UNCHANGED <<accessToken, header, refused>>
       ELSE createApiClient(accessToken)
    /\ IF isLoggingIn
       THEN /\ isLoggedIn' = (accessToken # "none")
            /\ pc' = [pc EXCEPT ![Main] = "gateCheck"]
            /\ UNCHANGED <<isLoggingIn, loginWaiters, flow, owner>>
       ELSE /\ \E f \in Flows : StartFlow(f, Main, "login")
            /\ pc' = [pc EXCEPT ![Main] = "bootLogin"]

\* waitForLogin() of main: returns at once when logged in, else queues.
MainAtGate ==
    /\ pc[Main] = "gateCheck"
    /\ IF isLoggedIn
       THEN pc' = [pc EXCEPT ![Main] = "call"] /\ UNCHANGED loginWaiters
       ELSE /\ pc' = [pc EXCEPT ![Main] = "gate"]
            /\ loginWaiters' = loginWaiters \cup {Main}
    /\ UNCHANGED <<tokenVars, authHeader, isLoggingIn, isLoggedIn, flow, owner,
                   header, retryVars>>

-----------------------------------------------------------------------------
(* A request: ensureValidToken, the gate, the answer.                      *)

\* A poll, discovery call or command begins, or main lists the appliances, or
\* handleApiRequest runs requestFn a second time.
Ready(c) == \/ pc[c] = "call"
            \/ c \in Requests /\ pc[c] = "idle" /\ pc[Main] = "done"

\* client.get/put: the request takes the header of the current client and then
\* waits in the interceptor unless the gate is open.
SendThroughGate(c) ==
    /\ header' = [header EXCEPT ![c] = IF authHeader THEN "current" ELSE "none"]
    /\ IF isLoggedIn
       THEN pc' = [pc EXCEPT ![c] = "sent"] /\ UNCHANGED loginWaiters
       ELSE /\ pc' = [pc EXCEPT ![c] = "waiting"]
            /\ loginWaiters' = loginWaiters \cup {c}
    /\ UNCHANGED <<tokenVars, authHeader, isLoggingIn, isLoggedIn, flow, owner,
                   retryVars>>

\* ensureValidToken() decides from the token alone: isLoggingIn is not read.
EnsureStartsFlow(c, kind) ==
    /\ Ready(c)
    /\ \E f \in Flows : StartFlow(f, c, kind)
    /\ pc' = [pc EXCEPT ![c] = "ensure"]
    /\ UNCHANGED <<tokenVars, authHeader, header, retryVars>>

EnsureByLogin(c) ==
    /\ accessToken = "none" \/ eat = "none"
    /\ EnsureStartsFlow(c, "login")

EnsureByRefresh(c) ==
    /\ accessToken # "none" /\ eat = "near"
    /\ EnsureStartsFlow(c, "refresh")

TokenStillValid(c) ==
    /\ Ready(c)
    /\ accessToken # "none" /\ eat = "far"
    /\ SendThroughGate(c)

\* The flow attempt ensureValidToken awaited is over, well or badly.
EnsureReturns(c) == pc[c] = "get" /\ SendThroughGate(c)

CallEnds(c, next) ==
    /\ pc' = [pc EXCEPT ![c] = next]
    /\ header' = [header EXCEPT ![c] = "none"]
    /\ refused' = [refused EXCEPT ![c] = "none"]
    /\ retry' = [retry EXCEPT ![c] = "no"]
    /\ UNCHANGED <<tokenVars, authHeader, gateVars, flow, owner>>

\* The server answers nothing without an Authorization header.
ResponseOk(c) ==
    /\ pc[c] = "sent" /\ header[c] # "none"
    /\ CallEnds(c, IF c = Main THEN "done" ELSE "idle")

\* Faulty variant: every 403 forces another refresh.
Response403Always(c) ==
    /\ pc[c] = "sent"
    /\ isLoggedIn
    /\ \E f \in Flows : StartFlow(f, c, "refresh")
    /\ pc' = [pc EXCEPT ![c] = "renew"]
    /\ refused' = [refused EXCEPT ![c] = header[c]]
    /\ header' = [header EXCEPT ![c] = "none"]
    /\ retry' = [retry EXCEPT ![c] = "stale"]
    /\ UNCHANGED <<tokenVars, authHeader>>

\* 403 on the first try while logged in: force a refresh, then run requestFn again.
Response403(c) ==
    /\ pc[c] = "sent"
    /\ isLoggedIn /\ retry[c] = "no"
    /\ \E f \in Flows : StartFlow(f, c, "refresh")
    /\ pc' = [pc EXCEPT ![c] = "renew"]
    /\ refused' = [refused EXCEPT ![c] = header[c]]
    /\ header' = [header EXCEPT ![c] = "none"]
    /\ retry' = [retry EXCEPT ![c] = "stale"]
    /\ UNCHANGED <<tokenVars, authHeader>>

\* Any other error, a 403 while not logged in, or an error of the second try:
\* logged, the call returns undefined.  main starts over after refreshInterval;
\* it does so as well when the list of appliances is empty.
ResponseError(c) ==
    /\ pc[c] = "sent"
    /\ CallEnds(c, IF c = Main THEN "start" ELSE "idle")

\* Time passes: the token comes within RENEW_TOKEN_BEFORE_EXPIRY_MS of expiry.
TokenAges ==
    /\ eat = "far" /\ eat' = "near"
    /\ UNCHANGED <<accessToken, hasRefresh, authHeader, gateVars, flow, owner, pc,
                   header, retryVars>>

-----------------------------------------------------------------------------
(* login(): the four requests and the cookies of the token exchange.       *)

\* Each cookie of the exchange may be missing; a token held from before stands in.
LoginSucceeds(f) ==
    /\ flow[f] = "login"
    /\ \E accessCookie, refreshCookie \in BOOLEAN :
          /\ accessCookie \/ accessToken # "none"
          /\ hasRefresh' = (hasRefresh \/ refreshCookie)
          /\ eat' = IF accessCookie THEN "far" ELSE eat
          /\ hasRefresh' /\ eat' # "none"
          /\ createApiClient(IF accessCookie THEN "newer" ELSE accessToken)
    /\ finishLogin(f)

\* Faulty variant: finishLogin(false) rejects the waiters, their calls fail.
LoginFailsRejecting(f) ==
    /\ flow[f] = "login"
    /\ isLoggingIn' = FALSE /\ isLoggedIn' = FALSE /\ loginWaiters' = {}
    /\ flow' = [flow EXCEPT ![f] = "loginTimer"]
    /\ owner' = [owner EXCEPT ![f] = None]
    /\ pc' = [c \in Callers |-> IF c = owner[f] THEN AfterAwait[pc[c]]
                                ELSE IF c \notin loginWaiters THEN pc[c]
                                ELSE IF c = Main THEN "start" ELSE "idle"]
    /\ UNCHANGED <<tokenVars, authHeader, header, retryVars>>

\* Any of the requests fails and nothing is stored; or the access token is
\* stored and its payload does not parse; or a cookie is missing and nothing
\* held from before stands in.
LoginFails(f) ==
    /\ flow[f] = "login"
    /\ \/ UNCHANGED tokenVars
       \/ accessToken' = "newer" /\ UNCHANGED <<hasRefresh, eat>>
       \/ /\ ~hasRefresh
          /\ accessToken' = "newer" /\ eat' = "far" /\ UNCHANGED hasRefresh
       \/ /\ accessToken = "none" \/ eat = "none"
          /\ hasRefresh' = TRUE /\ UNCHANGED <<accessToken, eat>>
    /\ isLoggedIn' = FALSE
    /\ EndAttempt(f, "loginTimer")
    /\ UNCHANGED <<authHeader, isLoggingIn, loginWaiters, header, retryVars>>

(* refreshTokens()                                                         *)

\* Faulty variant: the tokens are stored and the old client is kept.
RefreshSucceedsOldClient(f) ==
    /\ flow[f] = "refresh"
    /\ accessToken' = "newer" /\ hasRefresh' = TRUE /\ eat' = "far"
    /\ UNCHANGED <<authHeader, header, refused>>
    /\ finishLogin(f)

RefreshSucceeds(f) ==
    /\ flow[f] = "refresh"
    /\ hasRefresh' = TRUE /\ eat' = "far"
    /\ createApiClient("newer")
    /\ finishLogin(f)

\* Faulty variant: after the tokens are dropped the refresh is retried.
RefreshRejectedRetried(f) ==
    /\ flow[f] = "refresh"
    /\ accessToken' = "none" /\ hasRefresh' = FALSE /\ eat' = "none"
    /\ isLoggedIn' = FALSE
    /\ EndAttempt(f, "refreshTimer")
    /\ UNCHANGED <<authHeader, isLoggingIn, loginWaiters, header, retryVars>>

\* Faulty variant: the tokens are dropped and their expiry is kept.
RefreshRejectedKeepsExpiry(f) ==
    /\ flow[f] = "refresh"
    /\ accessToken' = "none" /\ hasRefresh' = FALSE /\ UNCHANGED eat
    /\ flow' = [flow EXCEPT ![f] = "login"]
    /\ startLogin
    /\ UNCHANGED <<authHeader, loginWaiters, owner, pc, header, retryVars>>

\* 401: the tokens are dropped and the same attempt goes on as a login.
RefreshRejected(f) ==
    /\ flow[f] = "refresh"
    /\ accessToken' = "none" /\ hasRefresh' = FALSE /\ eat' = "none"
    /\ flow' = [flow EXCEPT ![f] = "login"]
    /\ startLogin
    /\ UNCHANGED <<authHeader, loginWaiters, owner, pc, header, retryVars>>

\* Faulty variant: a failed refresh rejects the waiters, their calls fail.
RefreshFailsRejecting(f) ==
    /\ flow[f] = "refresh"
    /\ isLoggingIn' = FALSE /\ isLoggedIn' = FALSE /\ loginWaiters' = {}
    /\ flow' = [flow EXCEPT ![f] = "refreshTimer"]
    /\ owner' = [owner EXCEPT ![f] = None]
    /\ pc' = [c \in Callers |-> IF c = owner[f] THEN AfterAwait[pc[c]]
                                ELSE IF c \notin loginWaiters THEN pc[c]
                                ELSE IF c = Main THEN "start" ELSE "idle"]
    /\ UNCHANGED <<tokenVars, authHeader, header, retryVars>>

\* Network error, 5xx, or an answer that does not parse (the new tokens may
\* already be stored).  isLoggedIn keeps the value other flows gave it.
RefreshFails(f) ==
    /\ flow[f] = "refresh"
    /\ \/ UNCHANGED tokenVars
       \/ accessToken' = "newer" /\ hasRefresh' = TRUE /\ UNCHANGED eat
    /\ EndAttempt(f, "refreshTimer")
    /\ UNCHANGED <<authHeader, gateVars, header, retryVars>>

\* The backoff delay has passed; delays are not modelled, so a timer may fire
\* at any time and the retry counters that set them are left out.
RetryTimerFires(f) ==
    /\ \/ flow[f] = "loginTimer" /\ flow' = [flow EXCEPT ![f] = "login"]
       \/ flow[f] = "refreshTimer" /\ flow' = [flow EXCEPT ![f] = "refresh"]
    /\ startLogin
    /\ UNCHANGED <<tokenVars, authHeader, loginWaiters, owner, pc, header, retryVars>>

-----------------------------------------------------------------------------
Call(c) == \/ EnsureByLogin(c) \/ EnsureByRefresh(c) \/ TokenStillValid(c)
           \/ EnsureReturns(c)
Response(c) == ResponseOk(c) \/ Response403(c) \/ ResponseError(c)
FlowStep(f) == \/ LoginSucceeds(f) \/ LoginFails(f)
               \/ RefreshSucceeds(f) \/ RefreshRejected(f) \/ RefreshFails(f)
               \/ RetryTimerFires(f)

Next == \/ MainStarts
        \/ MainAtGate
        \/ TokenAges
        \/ \E c \in Callers : Call(c) \/ Response(c)
        \/ \E f \in Flows : FlowStep(f)

Spec == Init /\ [][Next]_vars

\* The event loop runs what is ready, requests end (the client's by its timeout,
\* the login's own, which have none, by assumption), timers fire, and a server
\* that is asked again and again answers well at some point.
\* Call is strongly fair because the bound on Flows, not the code, disables it.
FairSpec ==
    /\ Spec
    /\ \A c \in Requests : SF_vars(Call(c) /\ pc[c] # "idle") /\ WF_vars(Response(c))
    /\ \A f \in Flows : /\ WF_vars(FlowStep(f))
                        /\ SF_vars(LoginSucceeds(f) \/ RefreshSucceeds(f))

-----------------------------------------------------------------------------
(* Properties.                                                             *)

ActiveFlow == \E f \in Flows : flow[f] # "free"

\* A call queued on waitForLogin is never abandoned: as long as the list of
\* waiters is not empty, a login or refresh is in flight or has its retry timer
\* set, so that something will still resolve the promise (finishLogin is the
\* only code that does).
NoOrphanWaiter == loginWaiters # {} => ActiveFlow

\* The list of waiters and the callers blocked on it are the same: no caller
\* sleeps without being listed, and none is listed that has gone on.
WaitersAreBlocked ==
    loginWaiters = {c \in Callers : pc[c] \in {"waiting", "gate"}}

\* Once polling has begun, an open gate means a complete session: all the tokens
\* are held and the client every new request goes through carries an
\* Authorization header, also when several flows fail, are rejected and succeed
\* around each other.  (Before that, a restart of main may open the gate on half
\* a session: createApiClient looks at the access token only.)
OpenGateHasSession ==
    isLoggedIn /\ pc[Main] = "done"
        => accessToken # "none" /\ hasRefresh /\ eat # "none" /\ authHeader

\* Dropping the tokens after a 401 is always followed up: while there is no
\* usable token, after main has begun, a login is in flight or about to be retried.
ReloginPending ==
    (accessToken = "none" \/ eat = "none") /\ pc[Main] # "start"
        => \E f \in Flows : flow[f] \in {"login", "loginTimer"}

\* A caller whose forced refresh succeeded does not repeat the request with the
\* very token the server has just refused.
RetryUsesNewToken ==
    \A c \in Callers : retry[c] = "renewed" /\ header[c] = "current" => refused[c] # "current"

\* Waiters leave the queue only by the gate opening: a failed login or refresh
\* rejects nobody (the comments in login and refreshTokens insist on it).
WaitersLeaveOnlyByLogin ==
    [][\A c \in loginWaiters : c \notin loginWaiters' => isLoggedIn']_vars

\* Every call of a poll, a discovery or a command returns, however many flows
\* fail in between, if the server accepts a login or refresh that is retried
\* for ever.
EveryCallReturns == \A c \in Requests : pc[c] # "idle" ~> pc[c] = "idle"

\* The client implements the abstract gate: its flag is the gate, its list of
\* waiters the queue.
Gate == INSTANCE LoginGate WITH open <- isLoggedIn, queue <- loginWaiters
ImplementsLoginGate == Gate!Spec
=============================================================================
