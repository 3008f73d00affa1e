--------------------------- MODULE AuthGateProofs ---------------------------
(***************************************************************************)
(* Proofs about AuthGate, for every set of requests and every number of    *)
(* coexisting flows: its type invariant, that no caller is left behind at  *)
(* the gate, that dropped tokens are always followed up by a login, and    *)
(* that every step of the client is a step of the abstract LoginGate.      *)
(***************************************************************************)
EXTENDS AuthGate, TLAPS

-----------------------------------------------------------------------------
(* The inductive invariant.                                                *)

\* A flow's attempt is awaited by at most one caller, who is where it awaits it.
OwnersAwait ==
    /\ \A f \in Flows : owner[f] # None => pc[owner[f]] \in DOMAIN AfterAwait
    /\ \A f, g \in Flows : owner[f] = owner[g] /\ owner[f] # None => f = g

\* isLoggingIn is only ever set together with a flow, and a flow leaves by
\* resetting it.
LoggingInHasFlow == isLoggingIn => ActiveFlow

\* A closed gate has somebody working at it, except before main has begun.
ClosedGateHasFlow == isLoggedIn \/ ActiveFlow \/ pc[Main] = "start"

\* Only a closed gate has a queue.
QueueBehindClosedGate == loginWaiters # {} => ~isLoggedIn

\* Until main is done there are no other callers.
StartupIsAlone == pc[Main] # "done" => \A c \in Requests : pc[c] = "idle"

\* Without a usable token a login is in flight or about to be retried, except
\* before main has begun, when there is no flow at all.
LoginActive == \E f \in Flows : flow[f] \in {"login", "loginTimer"}
NoTokenHasLogin ==
    accessToken = "none" \/ eat = "none"
        => LoginActive \/ (pc[Main] = "start" /\ ~ActiveFlow)

IInv == /\ TypeOK
        /\ OwnersAwait
        /\ LoggingInHasFlow
        /\ ClosedGateHasFlow
        /\ WaitersAreBlocked
        /\ QueueBehindClosedGate
        /\ StartupIsAlone
        /\ NoTokenHasLogin

-----------------------------------------------------------------------------
(* Init, and the steps, by the shape they share.                           *)

LEMMA InitIInv == Init => IInv
<1> SUFFICES ASSUME Init PROVE IInv
  OBVIOUS
<1> USE DEF Init
<1>1. TypeOK
  BY AuthAssumption DEF TypeOK, FlowStates, CallerStates, Callers
<1>2. ~ActiveFlow
  BY DEF ActiveFlow
<1>3. Main \in Callers /\ Requests \subseteq Callers
  BY DEF Callers
<1>4. OwnersAwait
  BY DEF OwnersAwait
<1>5. LoggingInHasFlow /\ QueueBehindClosedGate
  BY DEF LoggingInHasFlow, QueueBehindClosedGate
<1>6. ClosedGateHasFlow /\ NoTokenHasLogin
  BY <1>2, <1>3 DEF ClosedGateHasFlow, NoTokenHasLogin
<1>7. WaitersAreBlocked
  BY DEF WaitersAreBlocked
<1>8. StartupIsAlone
  BY <1>3, AuthAssumption DEF StartupIsAlone
<1> QED
  BY <1>1, <1>4, <1>5, <1>6, <1>7, <1>8 DEF IInv

\* The part of IInv that speaks of flows and callers, not of tokens.
GatePart == /\ isLoggingIn \in BOOLEAN /\ isLoggedIn \in BOOLEAN
            /\ loginWaiters \in SUBSET Callers
            /\ flow \in [Flows -> FlowStates]
            /\ owner \in [Flows -> Callers \cup {None}]
            /\ pc \in [Callers -> CallerStates]
            /\ OwnersAwait /\ LoggingInHasFlow /\ ClosedGateHasFlow
            /\ WaitersAreBlocked /\ QueueBehindClosedGate /\ StartupIsAlone

\* A caller c that starts a flow and awaits it in state k (MainStarts,
\* EnsureStartsFlow and Response403) preserves the part about flows and callers.
LEMMA StartFlowStep ==
  ASSUME IInv, NEW f \in Flows, NEW c \in Callers, NEW kind \in {"login", "refresh"},
         NEW k \in DOMAIN AfterAwait,
         StartFlow(f, c, kind),
         pc[c] \notin DOMAIN AfterAwait \cup {"waiting", "gate"},
         c # Main => pc[Main] = "done",
         c = Main => pc[Main] # "done",
         pc' = [pc EXCEPT ![c] = k]
  PROVE  /\ GatePart'
         /\ LoginActive => LoginActive'
         /\ kind = "login" => LoginActive'
<1> USE DEF IInv, TypeOK, StartFlow, startLogin
<1>1. /\ isLoggingIn' \in BOOLEAN /\ isLoggedIn' \in BOOLEAN
      /\ loginWaiters' \in SUBSET Callers
      /\ flow' \in [Flows -> FlowStates]
      /\ owner' \in [Flows -> Callers \cup {None}]
  BY DEF FlowStates
<1>2. k \in {"bootLogin", "ensure", "renew"}
  BY DEF AfterAwait
<1>3. pc' \in [Callers -> CallerStates]
  BY <1>2 DEF CallerStates
<1>4. OwnersAwait'
  <2>1. \A g \in Flows : owner[g] # c
    BY AuthAssumption DEF OwnersAwait
  <2>2. QED
    BY <2>1 DEF OwnersAwait
<1>5. LoggingInHasFlow' /\ ClosedGateHasFlow'
  <2>1. flow'[f] # "free"
    OBVIOUS
  <2>2. QED
    BY <2>1 DEF LoggingInHasFlow, ClosedGateHasFlow, ActiveFlow
<1>6. WaitersAreBlocked' /\ QueueBehindClosedGate'
  BY <1>2 DEF WaitersAreBlocked, QueueBehindClosedGate
<1>7. StartupIsAlone'
  BY <1>2, AuthAssumption DEF StartupIsAlone, Callers
<1>8. (LoginActive => LoginActive') /\ (kind = "login" => LoginActive')
  BY DEF LoginActive
<1> QED
  BY <1>1, <1>3, <1>4, <1>5, <1>6, <1>7, <1>8 DEF GatePart

\* The attempt of a flow that fails (LoginFails, RefreshFails).
LEMMA EndAttemptStep ==
  ASSUME IInv, NEW f \in Flows, NEW timer \in {"loginTimer", "refreshTimer"},
         EndAttempt(f, timer),
         isLoggingIn' = isLoggingIn, loginWaiters' = loginWaiters,
         isLoggedIn' \in {FALSE, isLoggedIn}
  PROVE  GatePart'
<1> USE DEF IInv, TypeOK, EndAttempt
<1>1. DOMAIN AfterAwait = {"bootLogin", "ensure", "renew"}
  BY DEF AfterAwait
<1>2. \A k \in DOMAIN AfterAwait : AfterAwait[k] \in {"gateCheck", "get", "call"}
  BY DEF AfterAwait
<1>3. \A c \in Callers : \/ pc'[c] = pc[c]
                         \/ /\ c = owner[f]
                            /\ pc[c] \in {"bootLogin", "ensure", "renew"}
                            /\ pc'[c] \in {"gateCheck", "get", "call"}
  BY <1>1, <1>2, AuthAssumption DEF OwnersAwait
<1>4. pc' \in [Callers -> CallerStates]
  BY <1>3 DEF CallerStates
<1>5. /\ flow' \in [Flows -> FlowStates]
      /\ owner' \in [Flows -> Callers \cup {None}]
  BY DEF FlowStates
<1>6. OwnersAwait'
  <2>1. \A g \in Flows : owner'[g] # None => g # f /\ owner'[g] = owner[g] /\ owner[g] # owner[f]
    BY DEF OwnersAwait
  <2>2. \A g \in Flows : owner'[g] # None => pc'[owner'[g]] = pc[owner[g]]
    BY <2>1, <1>3
  <2>3. QED
    BY <2>1, <2>2 DEF OwnersAwait
<1>7. LoggingInHasFlow' /\ ClosedGateHasFlow'
  <2>1. flow'[f] # "free"
    OBVIOUS
  <2>2. QED
    BY <2>1 DEF LoggingInHasFlow, ClosedGateHasFlow, ActiveFlow
<1>8. WaitersAreBlocked'
  BY <1>3 DEF WaitersAreBlocked
<1>10. QueueBehindClosedGate'
  <2>1. CASE isLoggedIn' = FALSE
    BY <2>1 DEF QueueBehindClosedGate
  <2>2. CASE isLoggedIn' = isLoggedIn
    BY <2>2 DEF QueueBehindClosedGate
  <2>3. QED
    BY <2>1, <2>2
<1>9. StartupIsAlone'
  <2>1. Main \in Callers /\ Requests \subseteq Callers
    BY DEF Callers
  <2>2. QED
    BY <1>3, <2>1 DEF StartupIsAlone
<1> QED
  BY <1>4, <1>5, <1>6, <1>7, <1>8, <1>9, <1>10 DEF GatePart

\* finishLogin(true) at the end of a flow (LoginSucceeds, RefreshSucceeds).
LEMMA FinishLoginStep ==
  ASSUME IInv, NEW f \in Flows, finishLogin(f)
  PROVE  GatePart' /\ retry' \in [Callers -> {"no", "stale", "renewed"}]
<1> USE DEF IInv, TypeOK, finishLogin
<1>1. DOMAIN AfterAwait = {"bootLogin", "ensure", "renew"}
  BY DEF AfterAwait
<1>2. \A k \in DOMAIN AfterAwait : AfterAwait[k] \in {"gateCheck", "get", "call"}
  BY DEF AfterAwait
<1>3. \A c \in Callers : \/ pc'[c] = pc[c] /\ c \notin loginWaiters
                         \/ /\ c \in loginWaiters
                            /\ pc[c] \in {"waiting", "gate"}
                            /\ pc'[c] \in {"sent", "call"}
                         \/ /\ c = owner[f]
                            /\ pc[c] \in {"bootLogin", "ensure", "renew"}
                            /\ pc'[c] \in {"gateCheck", "get", "call"}
  BY <1>1, <1>2, AuthAssumption DEF OwnersAwait, WaitersAreBlocked, Released
<1>4. pc' \in [Callers -> CallerStates]
  BY <1>3 DEF CallerStates
<1>5. /\ flow' \in [Flows -> FlowStates]
      /\ owner' \in [Flows -> Callers \cup {None}]
      /\ loginWaiters' \in SUBSET Callers
  BY DEF FlowStates
<1>6. OwnersAwait'
  <2>1. \A g \in Flows : owner'[g] # None => g # f /\ owner'[g] = owner[g] /\ owner[g] # owner[f]
    BY DEF OwnersAwait
  <2>2. \A g \in Flows : owner'[g] # None => pc[owner[g]] \in {"bootLogin", "ensure", "renew"}
    BY <2>1, <1>1 DEF OwnersAwait
  <2>3. \A g \in Flows : owner'[g] # None => pc'[owner'[g]] = pc[owner[g]]
    BY <2>1, <2>2, <1>3
  <2>4. QED
    BY <2>1, <2>2, <2>3, <1>1 DEF OwnersAwait
<1>7. LoggingInHasFlow' /\ ClosedGateHasFlow' /\ QueueBehindClosedGate'
  BY DEF LoggingInHasFlow, ClosedGateHasFlow, QueueBehindClosedGate
<1>8. WaitersAreBlocked'
  BY <1>3 DEF WaitersAreBlocked
<1>9. StartupIsAlone'
  <2>1. Main \in Callers /\ Requests \subseteq Callers
    BY DEF Callers
  <2>2. QED
    BY <1>3, <2>1 DEF StartupIsAlone
<1>10. retry' \in [Callers -> {"no", "stale", "renewed"}]
  OBVIOUS
<1> QED
  BY <1>4, <1>5, <1>6, <1>7, <1>8, <1>9, <1>10 DEF GatePart

\* A caller moves on by itself, without touching the flows.
LEMMA CallerStep ==
  ASSUME IInv, NEW c \in Callers, NEW k \in CallerStates \ DOMAIN AfterAwait,
         UNCHANGED <<isLoggingIn, isLoggedIn, flow, owner>>,
         pc' = [pc EXCEPT ![c] = k],
         pc[c] \notin DOMAIN AfterAwait \cup {"start", "waiting", "gate"},
         c # Main => pc[Main] = "done",
         c = Main => pc[Main] # "done",
         IF k \in {"waiting", "gate"} THEN ~isLoggedIn /\ loginWaiters' = loginWaiters \cup {c}
                                     ELSE loginWaiters' = loginWaiters
  PROVE  GatePart'
<1> USE DEF IInv, TypeOK
<1>1. OwnersAwait'
  <2>1. \A f \in Flows : owner[f] # c
    BY AuthAssumption DEF OwnersAwait
  <2>2. QED
    BY <2>1 DEF OwnersAwait
<1>2. LoggingInHasFlow' /\ ClosedGateHasFlow'
  BY DEF LoggingInHasFlow, ClosedGateHasFlow, ActiveFlow
<1>3. WaitersAreBlocked' /\ QueueBehindClosedGate'
  BY DEF WaitersAreBlocked, QueueBehindClosedGate
<1>4. StartupIsAlone'
  BY AuthAssumption DEF StartupIsAlone, Callers
<1> QED
  BY <1>1, <1>2, <1>3, <1>4 DEF GatePart

-----------------------------------------------------------------------------
(* The actions.                                                            *)

TokenPart == /\ accessToken \in {"none", "client", "newer"}
             /\ hasRefresh \in BOOLEAN
             /\ eat \in IF accessToken = "none" THEN {"none"} ELSE {"none", "far", "near"}
             /\ authHeader \in BOOLEAN
             /\ header \in [Callers -> {"none", "current", "stale"}]
             /\ refused \in [Callers -> {"none", "current", "stale"}]
             /\ retry \in [Callers -> {"no", "stale", "renewed"}]

LEMMA Parts == /\ IInv <=> TokenPart /\ GatePart /\ NoTokenHasLogin
               /\ IInv' <=> TokenPart' /\ GatePart' /\ NoTokenHasLogin'
BY DEF IInv, TypeOK, TokenPart, GatePart

LEMMA createApiClientTypes ==
  ASSUME TokenPart, NEW t, createApiClient(t), hasRefresh' \in BOOLEAN
  PROVE  /\ accessToken' = "client" /\ authHeader' \in BOOLEAN
         /\ header' \in [Callers -> {"none", "current", "stale"}]
         /\ refused' \in [Callers -> {"none", "current", "stale"}]
BY DEF TokenPart, createApiClient

LEMMA MainStartsInv == IInv /\ MainStarts => IInv'
<1> SUFFICES ASSUME IInv, MainStarts PROVE IInv'
  OBVIOUS
<1> USE DEF MainStarts
<1>1. Main \in Callers /\ Requests \subseteq Callers
  BY DEF Callers
<1>2. TokenPart'
  <2>1. TokenPart
    BY Parts
  <2>2. CASE accessToken = "none"
    BY <2>1, <2>2 DEF TokenPart
  <2>3. CASE accessToken # "none"
    BY <2>1, <2>3, createApiClientTypes DEF TokenPart
  <2> QED
    BY <2>2, <2>3
<1>3. accessToken' = "none" \/ eat' = "none" => accessToken = "none" \/ eat = "none"
  BY DEF createApiClient
<1>4. CASE isLoggingIn
  <2>1. ActiveFlow /\ ActiveFlow'
    BY <1>4 DEF IInv, LoggingInHasFlow, ActiveFlow
  <2>2. loginWaiters = {}
    BY <1>1, AuthAssumption DEF IInv, TypeOK, WaitersAreBlocked, StartupIsAlone, Callers
  <2>3. OwnersAwait'
    <3>1. \A f \in Flows : owner[f] # Main
      BY AuthAssumption, <1>1 DEF IInv, OwnersAwait, AfterAwait, Callers
    <3> QED
      BY <1>4, <3>1 DEF IInv, TypeOK, OwnersAwait
  <2>4. WaitersAreBlocked' /\ QueueBehindClosedGate'
    BY <1>1, <1>4, <2>2 DEF IInv, TypeOK, WaitersAreBlocked, QueueBehindClosedGate
  <2>5. StartupIsAlone'
    BY <1>1, <1>4, AuthAssumption DEF IInv, TypeOK, StartupIsAlone
  <2>6. pc' \in [Callers -> CallerStates] /\ isLoggedIn' \in BOOLEAN
    BY <1>4 DEF IInv, TypeOK, CallerStates
  <2>7. GatePart'
    BY <1>4, <2>1, <2>3, <2>4, <2>5, <2>6
       DEF IInv, TypeOK, GatePart, LoggingInHasFlow, ClosedGateHasFlow
  <2>8. NoTokenHasLogin'
    BY <1>3, <1>4, <2>1 DEF IInv, NoTokenHasLogin, LoginActive
  <2> QED
    BY <1>2, <2>7, <2>8, Parts
<1>5. CASE ~isLoggingIn
  <2>1. PICK f \in Flows : StartFlow(f, Main, "login")
    BY <1>5
  <2>2. "bootLogin" \in DOMAIN AfterAwait /\ pc[Main] \notin DOMAIN AfterAwait \cup {"waiting", "gate"}
    BY DEF AfterAwait
  <2>3. GatePart' /\ LoginActive'
    BY <1>1, <1>5, <2>1, <2>2, StartFlowStep
  <2> QED
    BY <1>2, <2>3, Parts DEF NoTokenHasLogin
<1> QED
  BY <1>4, <1>5

LEMMA MainAtGateInv == IInv /\ MainAtGate => IInv'
<1> SUFFICES ASSUME IInv, MainAtGate PROVE IInv'
  OBVIOUS
<1>1. Main \in Callers /\ isLoggedIn \in BOOLEAN
  BY DEF Callers, IInv, TypeOK
<1>2. pc[Main] \notin DOMAIN AfterAwait \cup {"start", "waiting", "gate", "done"}
  BY DEF MainAtGate, AfterAwait
<1>3. {"call", "gate"} \subseteq CallerStates \ DOMAIN AfterAwait
  BY DEF CallerStates, AfterAwait
<1>4. GatePart'
  <2>1. CASE isLoggedIn
    BY <1>1, <1>2, <1>3, <2>1, CallerStep DEF MainAtGate
  <2>2. CASE ~isLoggedIn
    BY <1>1, <1>2, <1>3, <2>2, CallerStep DEF MainAtGate
  <2> QED
    BY <2>1, <2>2
<1>5. TokenPart'
  BY DEF MainAtGate, IInv, TypeOK, TokenPart, tokenVars, retryVars
<1>6. NoTokenHasLogin'
  BY <1>2 DEF MainAtGate, tokenVars, IInv, NoTokenHasLogin, LoginActive
<1> QED
  BY <1>4, <1>5, <1>6, Parts

\* The caller of a request is a request once main is done, or main before.
LEMMA ReadyCaller ==
  ASSUME IInv, NEW c \in Callers, Ready(c) \/ pc[c] \in {"get", "sent"}
  PROVE  /\ pc[c] \notin DOMAIN AfterAwait \cup {"start", "waiting", "gate"}
         /\ c # Main => pc[Main] = "done"
         /\ c = Main => pc[Main] # "done"
BY AuthAssumption DEF IInv, StartupIsAlone, Ready, AfterAwait, Callers

LEMMA EnsureInv ==
  ASSUME IInv, NEW c \in Callers, EnsureByLogin(c) \/ EnsureByRefresh(c)
  PROVE  IInv'
<1>1. PICK kind \in {"login", "refresh"} :
        EnsureStartsFlow(c, kind) /\ (kind = "login" \/ (accessToken # "none" /\ eat = "near"))
  BY DEF EnsureByLogin, EnsureByRefresh
<1>2. PICK f \in Flows : StartFlow(f, c, kind)
  BY <1>1 DEF EnsureStartsFlow
<1>3. "ensure" \in DOMAIN AfterAwait
  BY DEF AfterAwait
<1>4. GatePart' /\ (kind = "login" => LoginActive')
  BY <1>1, <1>2, <1>3, ReadyCaller, StartFlowStep DEF EnsureStartsFlow
<1>5. TokenPart'
  BY <1>1 DEF EnsureStartsFlow, IInv, TypeOK, TokenPart, tokenVars, retryVars
<1>6. NoTokenHasLogin'
  BY <1>1, <1>4 DEF EnsureStartsFlow, tokenVars, NoTokenHasLogin
<1> QED
  BY <1>4, <1>5, <1>6, Parts

LEMMA SendThroughGateInv ==
  ASSUME IInv, NEW c \in Callers, TokenStillValid(c) \/ EnsureReturns(c)
  PROVE  IInv'
<1>1. SendThroughGate(c) /\ (Ready(c) \/ pc[c] = "get")
  BY DEF TokenStillValid, EnsureReturns
<1>2. {"sent", "waiting"} \subseteq CallerStates \ DOMAIN AfterAwait
  BY DEF CallerStates, AfterAwait
<1>3. isLoggedIn \in BOOLEAN
  BY DEF IInv, TypeOK
<1>4. GatePart'
  <2>1. CASE isLoggedIn
    BY <1>1, <1>2, <2>1, ReadyCaller, CallerStep DEF SendThroughGate
  <2>2. CASE ~isLoggedIn
    BY <1>1, <1>2, <2>2, ReadyCaller, CallerStep DEF SendThroughGate
  <2> QED
    BY <2>1, <2>2
<1>5. TokenPart'
  BY <1>1 DEF SendThroughGate, IInv, TypeOK, TokenPart, tokenVars, retryVars
<1>6. NoTokenHasLogin'
  <2>1. ~(pc[Main] = "start" /\ ~ActiveFlow) \/ (pc'[Main] = "start" /\ ~ActiveFlow')
    BY <1>1, ReadyCaller, AuthAssumption DEF SendThroughGate, ActiveFlow, Callers
  <2> QED
    BY <1>1, <2>1 DEF SendThroughGate, tokenVars, IInv, NoTokenHasLogin, LoginActive
<1> QED
  BY <1>4, <1>5, <1>6, Parts

LEMMA CallEndsInv ==
  ASSUME IInv, NEW c \in Callers, ResponseOk(c) \/ ResponseError(c)
  PROVE  IInv'
<1>1. PICK k \in {"done", "idle", "start"} : CallEnds(c, k) /\ pc[c] = "sent"
  BY DEF ResponseOk, ResponseError
<1>2. k \in CallerStates \ DOMAIN AfterAwait /\ k \notin {"waiting", "gate"}
  BY DEF CallerStates, AfterAwait
<1>3. GatePart'
  BY <1>1, <1>2, ReadyCaller, CallerStep DEF CallEnds, gateVars
<1>4. TokenPart'
  BY <1>1 DEF CallEnds, IInv, TypeOK, TokenPart, tokenVars
<1>5. NoTokenHasLogin'
  BY <1>1, ReadyCaller DEF CallEnds, tokenVars, IInv, NoTokenHasLogin, LoginActive
<1> QED
  BY <1>3, <1>4, <1>5, Parts

LEMMA Response403Inv ==
  ASSUME IInv, NEW c \in Callers, Response403(c)
  PROVE  IInv'
<1>1. PICK f \in Flows : StartFlow(f, c, "refresh")
  BY DEF Response403
<1>2. "renew" \in DOMAIN AfterAwait
  BY DEF AfterAwait
<1>3. GatePart' /\ (LoginActive => LoginActive')
  BY <1>1, <1>2, ReadyCaller, StartFlowStep DEF Response403
<1>4. TokenPart'
  BY DEF Response403, IInv, TypeOK, TokenPart, tokenVars
<1>5. pc[Main] # "start"
  BY ReadyCaller DEF Response403
<1>6. NoTokenHasLogin'
  BY <1>3, <1>5 DEF Response403, tokenVars, IInv, NoTokenHasLogin
<1> QED
  BY <1>3, <1>4, <1>6, Parts

LEMMA TokenAgesInv == IInv /\ TokenAges => IInv'
<1> SUFFICES ASSUME IInv, TokenAges PROVE IInv'
  OBVIOUS
<1> USE DEF TokenAges, gateVars, retryVars
<1>1. GatePart'
  BY DEF IInv, TypeOK, GatePart, OwnersAwait, LoggingInHasFlow, ClosedGateHasFlow,
         ActiveFlow, WaitersAreBlocked, QueueBehindClosedGate, StartupIsAlone
<1>2. TokenPart'
  BY DEF IInv, TypeOK, TokenPart
<1>3. NoTokenHasLogin'
  BY DEF IInv, NoTokenHasLogin, LoginActive, ActiveFlow
<1> QED
  BY <1>1, <1>2, <1>3, Parts

\* A flow begins another attempt that nobody awaits anew (RefreshRejected, RetryTimerFires).
LEMMA NextAttemptStep ==
  ASSUME IInv, NEW f \in Flows, NEW kind \in {"login", "refresh"},
         flow' = [flow EXCEPT ![f] = kind], startLogin,
         UNCHANGED <<loginWaiters, owner, pc>>
  PROVE  GatePart'
<1> USE DEF IInv, TypeOK, startLogin
<1>1. /\ isLoggingIn' \in BOOLEAN /\ isLoggedIn' \in BOOLEAN
      /\ flow' \in [Flows -> FlowStates]
  BY DEF FlowStates
<1>2. OwnersAwait' /\ WaitersAreBlocked' /\ QueueBehindClosedGate' /\ StartupIsAlone'
  BY DEF OwnersAwait, WaitersAreBlocked, QueueBehindClosedGate, StartupIsAlone
<1>3. ActiveFlow'
  BY DEF ActiveFlow
<1> QED
  BY <1>1, <1>2, <1>3 DEF GatePart, LoggingInHasFlow, ClosedGateHasFlow

LEMMA SuccessInv ==
  ASSUME IInv, NEW f \in Flows, LoginSucceeds(f) \/ RefreshSucceeds(f)
  PROVE  IInv'
<1>1. /\ finishLogin(f) /\ hasRefresh' \in BOOLEAN /\ eat' \in {"far", "near"}
      /\ \E t \in {"client", "newer"} : createApiClient(t)
  BY DEF LoginSucceeds, RefreshSucceeds, IInv, TypeOK
<1>2. GatePart' /\ retry' \in [Callers -> {"no", "stale", "renewed"}]
  BY <1>1, FinishLoginStep
<1>3. TokenPart
  BY Parts
<1>4. /\ accessToken' = "client" /\ authHeader' \in BOOLEAN
      /\ header' \in [Callers -> {"none", "current", "stale"}]
      /\ refused' \in [Callers -> {"none", "current", "stale"}]
  BY <1>1, <1>3, createApiClientTypes
<1>5. TokenPart' /\ NoTokenHasLogin'
  BY <1>1, <1>2, <1>4 DEF TokenPart, NoTokenHasLogin
<1> QED
  BY <1>2, <1>5, Parts

LEMMA LoginFailsInv ==
  ASSUME IInv, NEW f \in Flows, LoginFails(f)
  PROVE  IInv'
<1> USE DEF LoginFails
<1>1. GatePart'
  BY EndAttemptStep
<1>2. TokenPart'
  BY DEF IInv, TypeOK, TokenPart, tokenVars, retryVars
<1>3. LoginActive'
  BY DEF EndAttempt, LoginActive, IInv, TypeOK
<1> QED
  BY <1>1, <1>2, <1>3, Parts DEF NoTokenHasLogin

LEMMA RefreshFailsInv ==
  ASSUME IInv, NEW f \in Flows, RefreshFails(f)
  PROVE  IInv'
<1> USE DEF RefreshFails
<1>1. GatePart'
  BY EndAttemptStep DEF gateVars
<1>2. TokenPart'
  BY DEF IInv, TypeOK, TokenPart, tokenVars, retryVars
<1>3. ActiveFlow /\ (LoginActive => LoginActive')
  BY DEF ActiveFlow, EndAttempt, LoginActive, IInv, TypeOK
<1>4. NoTokenHasLogin'
  BY <1>3 DEF NoTokenHasLogin, IInv, tokenVars
<1> QED
  BY <1>1, <1>2, <1>4, Parts

LEMMA RefreshRejectedInv ==
  ASSUME IInv, NEW f \in Flows, RefreshRejected(f)
  PROVE  IInv'
<1> USE DEF RefreshRejected
<1>1. GatePart'
  BY NextAttemptStep
<1>2. TokenPart'
  BY DEF IInv, TypeOK, TokenPart, retryVars
<1>3. LoginActive'
  BY DEF LoginActive, IInv, TypeOK
<1> QED
  BY <1>1, <1>2, <1>3, Parts DEF NoTokenHasLogin

LEMMA RetryTimerFiresInv ==
  ASSUME IInv, NEW f \in Flows, RetryTimerFires(f)
  PROVE  IInv'
<1> USE DEF RetryTimerFires
<1>1. GatePart'
  BY NextAttemptStep
<1>2. TokenPart'
  BY DEF IInv, TypeOK, TokenPart, tokenVars, retryVars
<1>3. ActiveFlow /\ (LoginActive => LoginActive')
  BY DEF ActiveFlow, LoginActive, IInv, TypeOK
<1>4. NoTokenHasLogin'
  BY <1>3 DEF NoTokenHasLogin, IInv, tokenVars
<1> QED
  BY <1>1, <1>2, <1>4, Parts

LEMMA StutterInv == IInv /\ UNCHANGED vars => IInv'
BY DEF vars, IInv, TypeOK, OwnersAwait, LoggingInHasFlow, ClosedGateHasFlow, ActiveFlow,
       WaitersAreBlocked, QueueBehindClosedGate, StartupIsAlone, NoTokenHasLogin, LoginActive

LEMMA NextIInv == IInv /\ [Next]_vars => IInv'
<1> SUFFICES ASSUME IInv, [Next]_vars PROVE IInv'
  OBVIOUS
<1>1. CASE MainStarts
  BY <1>1, MainStartsInv
<1>2. CASE MainAtGate
  BY <1>2, MainAtGateInv
<1>3. CASE TokenAges
  BY <1>3, TokenAgesInv
<1>4. ASSUME NEW c \in Callers, Call(c) PROVE IInv'
  BY <1>4, EnsureInv, SendThroughGateInv DEF Call
<1>5. ASSUME NEW c \in Callers, Response(c) PROVE IInv'
  BY <1>5, CallEndsInv, Response403Inv DEF Response
<1>6. ASSUME NEW f \in Flows, FlowStep(f) PROVE IInv'
  BY <1>6, SuccessInv, LoginFailsInv, RefreshRejectedInv, RefreshFailsInv,
     RetryTimerFiresInv DEF FlowStep
<1>7. CASE UNCHANGED vars
  BY <1>7, StutterInv
<1> QED
  BY <1>1, <1>2, <1>3, <1>4, <1>5, <1>6, <1>7 DEF Next

\* The inductive invariant holds of every execution, without any fairness.
THEOREM Invariance == Spec => []IInv
<1> QED
  BY InitIInv, NextIInv, PTL DEF Spec

-----------------------------------------------------------------------------
(* The results.                                                            *)

\* The session's variables have their types, whatever the requests and flows do.
THEOREM TypeCorrect == Spec => []TypeOK
<1>1. IInv => TypeOK
  BY DEF IInv
<1> QED
  BY <1>1, Invariance, PTL

\* No call queued on waitForLogin is ever left without a flow that will get to
\* finishLogin or schedule the next attempt.
THEOREM NoOrphan == Spec => []NoOrphanWaiter
<1>1. IInv => NoOrphanWaiter
  <2> SUFFICES ASSUME IInv, loginWaiters # {} PROVE ActiveFlow
    BY DEF NoOrphanWaiter
  <2>1. PICK c \in Callers : pc[c] \in {"waiting", "gate"}
    BY DEF IInv, WaitersAreBlocked
  <2>2. pc[Main] # "start"
    BY <2>1 DEF IInv, StartupIsAlone, Callers
  <2>3. ~isLoggedIn
    BY DEF IInv, QueueBehindClosedGate
  <2> QED
    BY <2>2, <2>3 DEF IInv, ClosedGateHasFlow
<1> QED
  BY <1>1, Invariance, PTL

\* loginWaiters lists exactly the callers that are blocked in waitForLogin.
THEOREM WaitersBlocked == Spec => []WaitersAreBlocked
<1>1. IInv => WaitersAreBlocked
  BY DEF IInv
<1> QED
  BY <1>1, Invariance, PTL

\* Tokens dropped after a 401 are followed up by a login until one succeeds.
THEOREM Relogin == Spec => []ReloginPending
<1>1. IInv => ReloginPending
  BY DEF IInv, NoTokenHasLogin, ReloginPending, LoginActive
<1> QED
  BY <1>1, Invariance, PTL

-----------------------------------------------------------------------------
(* The session behind an open gate.                                        *)

\* A client with an Authorization header and an open gate has all the tokens.
HeaderHasTokens ==
    isLoggedIn /\ authHeader => accessToken # "none" /\ hasRefresh /\ eat # "none"

\* main gets its list of appliances only from a client with a header, and only
\* main itself, when it starts over, replaces such a client by one without.
MainHasHeader ==
    /\ header[Main] # "none" => pc[Main] \in {"waiting", "sent"}
    /\ header[Main] # "none" \/ pc[Main] = "done" => authHeader

SessionInv == HeaderHasTokens /\ MainHasHeader

LEMMA SessionInit == Init => SessionInv
BY DEF Init, SessionInv, HeaderHasTokens, MainHasHeader, Callers

\* Where the end of a flow's attempt leaves main.
LEMMA MainAfterAttempt ==
  ASSUME IInv, NEW f \in Flows,
         \/ finishLogin(f)
         \/ \E timer \in {"loginTimer", "refreshTimer"} : EndAttempt(f, timer)
  PROVE  \/ pc'[Main] = pc[Main]
         \/ pc[Main] = "waiting" /\ pc'[Main] = "sent"
         \/ /\ pc[Main] \in DOMAIN AfterAwait \cup {"gate"}
            /\ pc'[Main] \notin {"done", "start"}
<1>1. Main \in Callers /\ Main # None
  BY AuthAssumption DEF Callers
<1>2. DOMAIN AfterAwait = {"bootLogin", "ensure", "renew"}
  BY DEF AfterAwait
<1>3. \A k \in DOMAIN AfterAwait : AfterAwait[k] \in {"gateCheck", "get", "call"}
  BY DEF AfterAwait
<1>4. Main = owner[f] => pc[Main] \in DOMAIN AfterAwait
  BY <1>1 DEF IInv, OwnersAwait
<1>5. Main \in loginWaiters => pc[Main] \in {"waiting", "gate"}
  BY DEF IInv, WaitersAreBlocked
<1>6. CASE finishLogin(f)
  BY <1>1, <1>2, <1>3, <1>4, <1>5, <1>6 DEF finishLogin, Released
<1>7. CASE \E timer \in {"loginTimer", "refreshTimer"} : EndAttempt(f, timer)
  BY <1>1, <1>2, <1>3, <1>4, <1>7 DEF EndAttempt
<1> QED
  BY <1>6, <1>7

LEMMA SessionOfCallers ==
  ASSUME IInv, SessionInv, NEW c \in Callers, Call(c) \/ Response(c)
  PROVE  SessionInv'
<1> USE DEF SessionInv, HeaderHasTokens, MainHasHeader
<1>1. Main \in Callers
  BY DEF Callers
<1>2. CASE EnsureByLogin(c) \/ EnsureByRefresh(c)
  BY <1>1, <1>2 DEF EnsureByLogin, EnsureByRefresh, EnsureStartsFlow, StartFlow, startLogin,
     tokenVars, Ready, IInv, TypeOK
<1>3. CASE TokenStillValid(c) \/ EnsureReturns(c)
  BY <1>1, <1>3 DEF TokenStillValid, EnsureReturns, SendThroughGate, tokenVars, IInv, TypeOK
<1>4. CASE ResponseOk(c) \/ ResponseError(c)
  BY <1>1, <1>4, AuthAssumption DEF ResponseOk, ResponseError, CallEnds, tokenVars, gateVars,
     IInv, TypeOK
<1>5. CASE Response403(c)
  BY <1>1, <1>5 DEF Response403, StartFlow, startLogin, tokenVars, IInv, TypeOK
<1> QED
  BY <1>2, <1>3, <1>4, <1>5 DEF Call, Response

LEMMA SessionOfFlows ==
  ASSUME IInv, SessionInv, NEW f \in Flows, FlowStep(f)
  PROVE  SessionInv'
<1> USE DEF SessionInv, HeaderHasTokens, MainHasHeader
<1>1. Main \in Callers
  BY DEF Callers
<1>2. CASE LoginSucceeds(f) \/ RefreshSucceeds(f)
  <2>1. /\ finishLogin(f) /\ hasRefresh' /\ eat' # "none"
        /\ \E t \in {"client", "newer"} : createApiClient(t)
    BY <1>2 DEF LoginSucceeds, RefreshSucceeds, IInv, TypeOK
  <2>2. authHeader' /\ accessToken' = "client"
    BY <2>1 DEF createApiClient
  <2>3. header'[Main] # "none" => header[Main] # "none"
    BY <1>1, <2>1 DEF createApiClient, IInv, TypeOK
  <2> QED
    BY <2>1, <2>2, <2>3, MainAfterAttempt DEF AfterAwait
<1>3. CASE LoginFails(f) \/ RefreshFails(f)
  <2>1. \E timer \in {"loginTimer", "refreshTimer"} : EndAttempt(f, timer)
    BY <1>3 DEF LoginFails, RefreshFails
  <2> QED
    BY <1>3, <2>1, MainAfterAttempt DEF LoginFails, RefreshFails, AfterAwait, tokenVars,
       gateVars
<1>4. CASE RefreshRejected(f) \/ RetryTimerFires(f)
  BY <1>4 DEF RefreshRejected, RetryTimerFires, startLogin, tokenVars
<1> QED
  BY <1>2, <1>3, <1>4 DEF FlowStep

LEMMA SessionStep == IInv /\ SessionInv /\ [Next]_vars => SessionInv'
<1> SUFFICES ASSUME IInv, SessionInv, [Next]_vars PROVE SessionInv'
  OBVIOUS
<1>1. CASE MainStarts
  <2>1. Main \in Callers /\ header[Main] = "none"
    BY <1>1 DEF MainStarts, Callers, SessionInv, MainHasHeader
  <2>2. header'[Main] = "none" /\ pc'[Main] # "done"
    BY <1>1, <2>1 DEF MainStarts, createApiClient, IInv, TypeOK
  <2>3. HeaderHasTokens'
    BY <1>1 DEF MainStarts, createApiClient, HeaderHasTokens, StartFlow, startLogin
  <2> QED
    BY <2>2, <2>3 DEF SessionInv, MainHasHeader
<1>2. CASE MainAtGate \/ TokenAges
  BY <1>2 DEF MainAtGate, TokenAges, tokenVars, gateVars, SessionInv, HeaderHasTokens,
     MainHasHeader, IInv, TypeOK
<1>3. CASE UNCHANGED vars
  BY <1>3 DEF vars, SessionInv, HeaderHasTokens, MainHasHeader
<1> QED
  BY <1>1, <1>2, <1>3, SessionOfCallers, SessionOfFlows DEF Next

\* Once polling has begun, an open gate means a complete session, whatever the
\* flows that fail, are rejected and succeed around each other leave behind.
THEOREM OpenGateSession == Spec => []OpenGateHasSession
<1>1. SessionInv => OpenGateHasSession
  BY DEF SessionInv, HeaderHasTokens, MainHasHeader, OpenGateHasSession
<1> QED
  BY <1>1, SessionInit, SessionStep, Invariance, PTL DEF Spec

-----------------------------------------------------------------------------
(* The token of a retry.                                                   *)

\* Only an attempt that is under way is awaited; a retry timer is nobody's.
OwnedIsAttempt == \A f \in Flows : owner[f] # None => flow[f] \in {"login", "refresh"}

\* A refresh that a 403 forced and that goes on as a login has dropped the refused
\* token: until a client has been made with another one, no client has its token.
RefusedIsDropped ==
    \A c \in Callers, f \in Flows :
        owner[f] = c /\ pc[c] = "renew" /\ flow[f] = "login" /\ refused[c] = "current"
            => accessToken # "client"

RenewedIsNew == \A c \in Callers : retry[c] = "renewed" => refused[c] # "current"

RetryInv == OwnedIsAttempt /\ RefusedIsDropped /\ RenewedIsNew

LEMMA RetryInit == Init => RetryInv
BY AuthAssumption DEF Init, RetryInv, OwnedIsAttempt, RefusedIsDropped, RenewedIsNew, Callers

\* A caller c starts a flow in state k of its own.
LEMMA RetryOfStart ==
  ASSUME IInv, RetryInv, NEW f \in Flows, NEW c \in Callers, NEW kind \in {"login", "refresh"},
         StartFlow(f, c, kind),
         NEW k \in CallerStates, pc' = [pc EXCEPT ![c] = k],
         k = "renew" => kind = "refresh",
         pc[c] \notin DOMAIN AfterAwait,
         accessToken' = "client" => accessToken = "client" \/ \A d \in Callers : refused'[d] # "current",
         \A d \in Callers : refused'[d] = "current" /\ d # c => refused[d] = "current"
  PROVE  OwnedIsAttempt' /\ RefusedIsDropped'
<1> USE DEF IInv, TypeOK, RetryInv
<1>1. /\ flow' = [flow EXCEPT ![f] = kind] /\ owner' = [owner EXCEPT ![f] = c]
  BY DEF StartFlow
<1>2. OwnedIsAttempt'
  BY <1>1 DEF OwnedIsAttempt
<1>3. \A g \in Flows : owner[g] # c
  BY AuthAssumption DEF OwnersAwait
<1>4. ASSUME NEW d \in Callers, NEW g \in Flows, owner'[g] = d, pc'[d] = "renew",
             flow'[g] = "login", refused'[d] = "current"
      PROVE  accessToken' # "client"
  <2>1. d # c
    BY <1>1, <1>3, <1>4
  <2>2. owner[g] = d /\ pc[d] = "renew" /\ flow[g] = "login" /\ refused[d] = "current"
    BY <1>1, <1>4, <2>1
  <2>3. accessToken # "client"
    BY <2>2 DEF RefusedIsDropped
  <2> QED
    BY <1>4, <2>3
<1> QED
  BY <1>2, <1>4 DEF RefusedIsDropped

\* A client made with a newer token is not made with a refused one.
LEMMA NewerSupersedes ==
  ASSUME IInv, NEW t, createApiClient(t)
  PROVE  /\ t = "newer" => \A c \in Callers : refused'[c] # "current"
         /\ \A c \in Callers : refused'[c] = "current" => refused[c] = "current"
BY DEF createApiClient, IInv, TypeOK

LEMMA RetryOfMain == IInv /\ RetryInv /\ MainStarts => RetryInv'
<1> SUFFICES ASSUME IInv, RetryInv, MainStarts PROVE RetryInv'
  OBVIOUS
<1>1. /\ \A c \in Callers : refused'[c] = "current" => refused[c] = "current"
      /\ accessToken' = "client" => \/ accessToken = "client"
                                    \/ \A c \in Callers : refused'[c] # "current"
  <2>1. CASE accessToken = "none"
    BY <2>1 DEF MainStarts
  <2>2. CASE accessToken # "none"
    BY <2>2, NewerSupersedes DEF MainStarts, IInv, TypeOK
  <2> QED
    BY <2>1, <2>2
<1>2. RenewedIsNew'
  BY <1>1 DEF MainStarts, RetryInv, RenewedIsNew
<1>3. Main \in Callers
  BY DEF Callers
<1>4. CASE isLoggingIn
  <2>1. UNCHANGED <<flow, owner>> /\ \A c \in Callers : pc'[c] = "renew" => pc[c] = "renew"
    BY <1>3, <1>4 DEF MainStarts, IInv, TypeOK
  <2>2. OwnedIsAttempt'
    BY <2>1 DEF RetryInv, OwnedIsAttempt
  <2>3. RefusedIsDropped'
    BY <1>1, <2>1 DEF RetryInv, RefusedIsDropped
  <2> QED
    BY <1>2, <2>2, <2>3 DEF RetryInv
<1>5. CASE ~isLoggingIn
  <2>1. PICK f \in Flows : StartFlow(f, Main, "login")
    BY <1>5 DEF MainStarts
  <2>2. pc' = [pc EXCEPT ![Main] = "bootLogin"] /\ "bootLogin" \in CallerStates
    BY <1>5 DEF MainStarts, CallerStates
  <2>3. pc[Main] \notin DOMAIN AfterAwait
    BY DEF MainStarts, AfterAwait
  <2> QED
    BY <1>1, <1>2, <1>3, <2>1, <2>2, <2>3, RetryOfStart DEF RetryInv
<1> QED
  BY <1>4, <1>5

LEMMA RetryOfCallers ==
  ASSUME IInv, RetryInv, NEW c \in Callers, Call(c) \/ Response(c)
  PROVE  RetryInv'
<1> USE DEF IInv, TypeOK
<1>1. CASE EnsureByLogin(c) \/ EnsureByRefresh(c)
  <2>1. PICK kind \in {"login", "refresh"} : EnsureStartsFlow(c, kind)
    BY <1>1 DEF EnsureByLogin, EnsureByRefresh
  <2>2. PICK f \in Flows : StartFlow(f, c, kind)
    BY <2>1 DEF EnsureStartsFlow
  <2>3. pc[c] \notin DOMAIN AfterAwait
    BY <2>1, ReadyCaller DEF EnsureStartsFlow
  <2>4. "ensure" \in CallerStates
    BY DEF CallerStates
  <2>5. OwnedIsAttempt' /\ RefusedIsDropped'
    BY <2>1, <2>2, <2>3, <2>4, RetryOfStart DEF EnsureStartsFlow, tokenVars, retryVars
  <2> QED
    BY <2>1, <2>5 DEF EnsureStartsFlow, retryVars, RetryInv, RenewedIsNew
<1>2. CASE TokenStillValid(c) \/ EnsureReturns(c)
  BY <1>2 DEF TokenStillValid, EnsureReturns, SendThroughGate, tokenVars, retryVars,
     RetryInv, OwnedIsAttempt, RefusedIsDropped, RenewedIsNew
<1>3. CASE ResponseOk(c) \/ ResponseError(c)
  BY <1>3 DEF ResponseOk, ResponseError, CallEnds, tokenVars, RetryInv, OwnedIsAttempt,
     RefusedIsDropped, RenewedIsNew
<1>4. CASE Response403(c)
  <2>1. PICK f \in Flows : StartFlow(f, c, "refresh")
    BY <1>4 DEF Response403
  <2>2. pc[c] \notin DOMAIN AfterAwait
    BY <1>4, ReadyCaller DEF Response403
  <2>3. "renew" \in CallerStates
    BY DEF CallerStates
  <2>4. OwnedIsAttempt' /\ RefusedIsDropped'
    BY <1>4, <2>1, <2>2, <2>3, RetryOfStart DEF Response403, tokenVars
  <2> QED
    BY <1>4, <2>4 DEF Response403, RetryInv, RenewedIsNew
<1> QED
  BY <1>1, <1>2, <1>3, <1>4 DEF Call, Response

\* A login or refresh that ends well: its client is made with a newer token, or
\* with the one the last client has.
LEMMA RetryOfSuccess ==
  ASSUME IInv, RetryInv, NEW f \in Flows, LoginSucceeds(f) \/ RefreshSucceeds(f)
  PROVE  RetryInv'
<1> USE DEF IInv, TypeOK
<1>1. PICK t \in {"client", "newer"} :
        /\ createApiClient(t) /\ finishLogin(f)
        /\ t = "client" => flow[f] = "login" /\ accessToken = "client"
  BY DEF LoginSucceeds, RefreshSucceeds
<1>2. /\ \A c \in Callers : refused'[c] = "current" => refused[c] = "current"
      /\ t = "newer" => \A c \in Callers : refused'[c] # "current"
  BY <1>1, NewerSupersedes
<1>3. \A g \in Flows : owner'[g] # None => owner'[g] = owner[g] /\ flow'[g] = flow[g]
  BY <1>1 DEF finishLogin
<1>4. \A c \in Callers : pc'[c] = "renew" => pc[c] = "renew"
  <2>1. \A k \in DOMAIN AfterAwait : AfterAwait[k] \in {"gateCheck", "get", "call"}
    BY DEF AfterAwait
  <2> QED
    BY <1>1, <2>1, AuthAssumption DEF finishLogin, Released, OwnersAwait
<1>5. OwnedIsAttempt'
  BY <1>3 DEF RetryInv, OwnedIsAttempt
<1>6. RefusedIsDropped'
  BY <1>1, <1>2, <1>3, <1>4, AuthAssumption DEF RetryInv, RefusedIsDropped
<1>7. RenewedIsNew'
  <2> SUFFICES ASSUME NEW c \in Callers, retry'[c] = "renewed", refused'[c] = "current"
               PROVE  FALSE
    BY DEF RenewedIsNew
  <2>1. refused[c] = "current" /\ t = "client"
    BY <1>2
  <2>2. c = owner[f] /\ pc[c] = "renew"
    BY <1>1, <2>1 DEF finishLogin, RetryInv, RenewedIsNew
  <2> QED
    BY <1>1, <2>1, <2>2 DEF RetryInv, RefusedIsDropped
<1> QED
  BY <1>5, <1>6, <1>7 DEF RetryInv

LEMMA RetryOfFlows ==
  ASSUME IInv, RetryInv, NEW f \in Flows, FlowStep(f)
  PROVE  RetryInv'
<1> USE DEF IInv, TypeOK
<1>1. CASE LoginFails(f) \/ RefreshFails(f)
  <2>1. /\ \A g \in Flows : owner'[g] # None => owner'[g] = owner[g] /\ flow'[g] = flow[g]
        /\ accessToken' = "client" => accessToken = "client"
        /\ UNCHANGED retryVars
    BY <1>1 DEF LoginFails, RefreshFails, EndAttempt, tokenVars, retryVars
  <2>2. \A c \in Callers : pc'[c] = "renew" => pc[c] = "renew"
    <3>1. \A k \in DOMAIN AfterAwait : AfterAwait[k] \in {"gateCheck", "get", "call"}
      BY DEF AfterAwait
    <3> QED
      BY <1>1, <3>1, AuthAssumption DEF LoginFails, RefreshFails, EndAttempt, OwnersAwait
  <2> QED
    BY <2>1, <2>2, AuthAssumption DEF retryVars, RetryInv, OwnedIsAttempt, RefusedIsDropped,
       RenewedIsNew, Callers
<1>2. CASE RefreshRejected(f)
  BY <1>2 DEF RefreshRejected, retryVars, RetryInv, OwnedIsAttempt, RefusedIsDropped,
     RenewedIsNew
<1>3. CASE RetryTimerFires(f)
  <2>1. owner[f] = None
    BY <1>3 DEF RetryTimerFires, RetryInv, OwnedIsAttempt
  <2> QED
    BY <1>3, <2>1, AuthAssumption DEF RetryTimerFires, tokenVars, retryVars, RetryInv,
       OwnedIsAttempt, RefusedIsDropped, RenewedIsNew
<1> QED
  BY <1>1, <1>2, <1>3, RetryOfSuccess DEF FlowStep

LEMMA RetryStep == IInv /\ RetryInv /\ [Next]_vars => RetryInv'
<1> SUFFICES ASSUME IInv, RetryInv, [Next]_vars PROVE RetryInv'
  OBVIOUS
<1>1. CASE MainAtGate \/ TokenAges
  <2>1. Main \in Callers
    BY DEF Callers
  <2> QED
    BY <1>1, <2>1 DEF MainAtGate, TokenAges, tokenVars, gateVars, retryVars, IInv, TypeOK,
       RetryInv, OwnedIsAttempt, RefusedIsDropped, RenewedIsNew
<1>2. CASE UNCHANGED vars
  BY <1>2 DEF vars, RetryInv, OwnedIsAttempt, RefusedIsDropped, RenewedIsNew
<1> QED
  BY <1>1, <1>2, RetryOfMain, RetryOfCallers, RetryOfFlows DEF Next

\* A request that is repeated after the refresh its 403 forced does not carry the
\* refused token, be it that the refresh was rejected and went on as a login.
THEOREM RetryToken == Spec => []RetryUsesNewToken
<1>1. RetryInv => RetryUsesNewToken
  BY DEF RetryInv, RenewedIsNew, RetryUsesNewToken
<1> QED
  BY <1>1, RetryInit, RetryStep, Invariance, PTL DEF Spec

-----------------------------------------------------------------------------
(* The abstract gate.                                                      *)

\* Every step of the client is a step of LoginGate or leaves the gate alone.
LEMMA GateStep == IInv /\ [Next]_vars => [Gate!Next]_Gate!vars
<1> SUFFICES ASSUME IInv, [Next]_vars PROVE [Gate!Next]_Gate!vars
  OBVIOUS
<1> USE DEF Gate!Next, Gate!vars, Gate!Close, Gate!Open, Gate!Join
<1>1. CASE MainStarts
  <2>1. loginWaiters = {}
    BY <1>1, AuthAssumption DEF MainStarts, IInv, TypeOK, WaitersAreBlocked, StartupIsAlone, Callers
  <2>2. isLoggedIn' \in BOOLEAN /\ UNCHANGED loginWaiters
    BY <1>1 DEF MainStarts, StartFlow, startLogin
  <2> QED
    BY <2>1, <2>2
<1>2. CASE MainAtGate
  BY <1>2 DEF MainAtGate, Callers
<1>3. CASE TokenAges
  BY <1>3 DEF TokenAges, gateVars
<1>4. ASSUME NEW c \in Callers, Call(c) PROVE [Gate!Next]_Gate!vars
  BY <1>4 DEF Call, EnsureByLogin, EnsureByRefresh, EnsureStartsFlow, TokenStillValid,
     EnsureReturns, SendThroughGate, StartFlow, startLogin
<1>5. ASSUME NEW c \in Callers, Response(c) PROVE [Gate!Next]_Gate!vars
  BY <1>5 DEF Response, ResponseOk, ResponseError, Response403, CallEnds, gateVars,
     StartFlow, startLogin
<1>6. ASSUME NEW f \in Flows, FlowStep(f) PROVE [Gate!Next]_Gate!vars
  BY <1>6 DEF FlowStep, LoginSucceeds, LoginFails, RefreshSucceeds, RefreshRejected,
     RefreshFails, RetryTimerFires, finishLogin, startLogin, EndAttempt, gateVars
<1>7. CASE UNCHANGED vars
  BY <1>7 DEF vars
<1> QED
  BY <1>1, <1>2, <1>3, <1>4, <1>5, <1>6, <1>7 DEF Next

\* The client implements the safety of the abstract gate: callers join only a
\* closed gate, and the queue is emptied only as a whole and by the gate opening.
\* (The fairness of LoginGate is model-checked.)
THEOREM RefinesGate == Spec => Gate!Init /\ [][Gate!Next]_Gate!vars
<1>1. Init => Gate!Init
  BY DEF Init, Gate!Init
<1> QED
  BY <1>1, GateStep, Invariance, PTL DEF Spec

\* A waiter leaves the queue only by the gate opening; no failure rejects it.
THEOREM WaitersLeave == Spec => WaitersLeaveOnlyByLogin
<1>1. IInv /\ [Next]_vars
        => [\A c \in loginWaiters : c \notin loginWaiters' => isLoggedIn']_vars
  <2> SUFFICES ASSUME IInv, [Next]_vars, NEW c \in loginWaiters, c \notin loginWaiters'
               PROVE  isLoggedIn'
    OBVIOUS
  <2> QED
    BY GateStep DEF Gate!Next, Gate!vars, Gate!Close, Gate!Open, Gate!Join
<1> QED
  BY <1>1, Invariance, PTL DEF Spec, WaitersLeaveOnlyByLogin
=============================================================================
