------------------------------- MODULE Ingest -------------------------------
(***************************************************************************)
(* POST /telemetry of the telemetry backend (telemetry-backend/src): the   *)
(* handler in server.ts, which passes the rate limiter (rate-limit.ts),    *)
(* reads and validates a body, answers, and then forwards an event to      *)
(* Aptabase (aptabase.ts).                                                 *)
(*                                                                         *)
(* The limiter compares times with the length of a window only, so that    *)
(* its timestamps are kept as ages, which stop where no comparison tells   *)
(* them apart.  Date.now() is taken to be monotonic.  Bodies and events    *)
(* are left out, except for what becomes of them.                          *)
(***************************************************************************)
EXTENDS Naturals

CONSTANTS
    Clients,        \* addresses
    Handlers,       \* bound: requests being handled at once
    maxRequests,    \* rateLimitRequests
    Window,         \* rateLimitWindowMs, in ticks
    Unknown, None

Ips == Clients \cup {Unknown}

ASSUME IngestAssumption ==
    /\ maxRequests \in Nat \ {0} /\ Window \in Nat \ {0}
    /\ Unknown \notin Clients /\ None \notin Ips
    /\ None \notin [count : Nat, age : Nat] /\ None \notin [ip : Ips, allowed : BOOLEAN]

VARIABLES
    windows,        \* the limiter's map: count and age of each client's window, or None
    sinceSweep,     \* time since lastSweep
    stage,          \* each handler: "idle", "reading" or "forwarding"
    verdict,        \* history: the last request, and whether it was admitted
    recent          \* history: how many requests of each client were admitted at each age

vars == <<windows, sinceSweep, stage, verdict, recent>>

MaxAge == 2 * Window
Ages == 0 .. Window - 1

TypeOK ==
    /\ windows \in [Ips -> [count : 1 .. maxRequests, age : 0 .. MaxAge] \cup {None}]
    /\ sinceSweep \in 0 .. MaxAge
    /\ stage \in [Handlers -> {"idle", "reading", "forwarding"}]
    /\ verdict \in [ip : Ips, allowed : BOOLEAN] \cup {None}
    /\ recent \in [Ips -> [Ages -> Nat]]

Init ==
    /\ windows = [ip \in Ips |-> None] /\ sinceSweep = 0
    /\ stage = [h \in Handlers |-> "idle"]
    /\ verdict = None /\ recent = [ip \in Ips |-> [age \in Ages |-> 0]]

-----------------------------------------------------------------------------
(* The rate limiter.                                                       *)

\* Faulty variant: a window that ends now goes on.
ExpiredLater(window) == window.age > Window

Expired(window) == window.age >= Window

sweepExpired ==
    [ip \in Ips |-> IF windows[ip] # None /\ Expired(windows[ip]) THEN None ELSE windows[ip]]

\* Whether a request finds a window to count in.
Counts(window) == window # None /\ ~Expired(window)

\* Faulty variant: the limit is exceeded by one.
AdmitsOneMore(window) == ~Counts(window) \/ window.count <= maxRequests

Admits(window) == ~Counts(window) \/ window.count < maxRequests

\* Faulty variant: a refused request starts the window anew.
NextWindowRestarting(window) ==
    IF ~Counts(window) THEN [count |-> 1, age |-> 0]
    ELSE IF Admits(window) THEN [window EXCEPT !.count = @ + 1]
    ELSE [window EXCEPT !.age = 0]

\* Faulty variant: a refused request is counted.
NextWindowCounting(window) ==
    IF ~Counts(window) THEN [count |-> 1, age |-> 0] ELSE [window EXCEPT !.count = @ + 1]

NextWindow(window) ==
    IF ~Counts(window) THEN [count |-> 1, age |-> 0]
    ELSE IF Admits(window) THEN [window EXCEPT !.count = @ + 1]
    ELSE window

\* Faulty variant: an entry is removed only by a request of its own client.
sweptNever == windows

\* The entries that a request finds: the first one for a whole window sweeps.
swept == IF sinceSweep >= Window THEN sweepExpired ELSE windows

allow(ip) ==
    LET allowed == Admits(swept[ip])
    IN  /\ windows' = [swept EXCEPT ![ip] = NextWindow(@)]
        /\ sinceSweep' = IF sinceSweep >= Window THEN 0 ELSE sinceSweep
        /\ verdict' = [ip |-> ip, allowed |-> allowed]
        /\ recent' = IF allowed THEN [recent EXCEPT ![ip][0] = @ + 1] ELSE recent

-----------------------------------------------------------------------------
(* The handler.                                                            *)

\* The first hop of X-Forwarded-For, X-Real-IP, or the address of the socket.
extractClientIp(from) ==
    CASE from.forwardedFor # None -> from.forwardedFor
      [] from.forwardedFor = None /\ from.realIp # None -> from.realIp
      [] OTHER -> from.socket

Addresses == [forwardedFor : Clients \cup {None}, realIp : Clients \cup {None}, socket : Ips]

\* handleLegacyTelemetry up to its first await: 429, or 415, or the body is read.
Post(h, from) ==
    /\ stage[h] = "idle"
    /\ allow(extractClientIp(from))
    /\ \E isJson \in BOOLEAN :
          stage' = IF verdict'.allowed /\ isJson THEN [stage EXCEPT ![h] = "reading"] ELSE stage

\* readBody is settled: 413, 400 (unreadable, no JSON, not valid), or 204 and on.
BodyRead(h) ==
    /\ stage[h] = "reading"
    /\ stage' \in {[stage EXCEPT ![h] = to] : to \in {"idle", "forwarding"}}
    /\ UNCHANGED <<windows, sinceSweep, verdict, recent>>

\* forward() succeeds, fails or is aborted after its 10 seconds: the handler logs.
ForwardEnds(h) ==
    /\ stage[h] = "forwarding"
    /\ stage' = [stage EXCEPT ![h] = "idle"]
    /\ UNCHANGED <<windows, sinceSweep, verdict, recent>>

\* Time since, up to two windows; more makes no difference.
Older(age) == IF age < MaxAge THEN age + 1 ELSE age

Tick ==
    /\ windows' = [ip \in Ips |-> IF windows[ip] = None THEN None
                                  ELSE [windows[ip] EXCEPT !.age = Older(@)]]
    /\ sinceSweep' = Older(sinceSweep)
    /\ recent' = [ip \in Ips |-> [age \in Ages |-> IF age = 0 THEN 0 ELSE recent[ip][age - 1]]]
    /\ UNCHANGED <<stage, verdict>>

Next == \/ Tick
        \/ \E h \in Handlers : \/ BodyRead(h) \/ ForwardEnds(h)
                               \/ \E from \in Addresses : Post(h, from)

Spec == Init /\ [][Next]_vars

-----------------------------------------------------------------------------
(* Properties.                                                             *)

\* How many requests were admitted at the ages below each one.
AdmittedBelow(admitted) ==
    LET sum[n \in 0 .. Window] == IF n = 0 THEN 0 ELSE sum[n - 1] + admitted[n - 1] IN sum

\* A client is never admitted more than twice maxRequests times within the length of
\* a window, however its windows lie: no sweep and no expiry hands out more.
BurstBound == \A ip \in Ips : AdmittedBelow(recent[ip])[Window] <= 2 * maxRequests

\* A client that was not admitted for the length of a window is admitted: refused
\* requests, also a stream of them, never lock it out any longer.
NoLockout ==
    [][\A h \in Handlers, from \in Addresses :
         LET ip == extractClientIp(from)
         IN  Post(h, from) /\ (\A age \in Ages : recent[ip][age] = 0)
             => verdict' = [ip |-> ip, allowed |-> TRUE]]_vars

\* "The tracked-IP map cannot grow unbounded" (rate-limit.ts:18): after any request it
\* holds nobody whose window began two windows ago or earlier.
TrackedAreRecent ==
    [][\A h \in Handlers, from \in Addresses : Post(h, from) =>
         \A ip \in Ips : windows'[ip] # None => windows'[ip].age < 2 * Window]_vars

\* The limiter's entries that count are those of a limiter without anything to sweep:
\* neither a sweep nor an entry that waits for one is ever noticed by a client.
Gate == INSTANCE FixedWindow
            WITH live <- [ip \in Ips |-> IF Counts(windows[ip]) THEN windows[ip] ELSE None]

ImplementsFixedWindow == Gate!Spec
=============================================================================
