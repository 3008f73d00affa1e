------------------------------ MODULE Watchdog ------------------------------
(***************************************************************************)
(* How the bridge judges its own health (trackApiResult, writeHealthStatus *)
(* of src/orchestrator.ts, src/health.ts): every state poll resets or      *)
(* tests the time since the last successful one, exits the process when    *)
(* that exceeds a threshold so that Docker restarts it, and refreshes the  *)
(* health file that the container's HEALTHCHECK reads.                     *)
(*                                                                         *)
(* What a poll counts as depends on the command delay of getApplianceState *)
(* and on the shape of the cached state (StateSync), and a poll reports    *)
(* nothing while it waits at the login gate (AuthGate), which is a         *)
(* variable of the environment here.  Time is counted in ticks, each       *)
(* longer than apiTimeoutSeconds: a request that has passed the gate ends  *)
(* within its tick.  Polling is the interval of Orchestrator in any phase. *)
(***************************************************************************)
EXTENDS Naturals

CONSTANTS
    Appliances,
    Refresh,            \* refreshInterval, in ticks
    Delay,              \* COMMAND_STATE_DELAY_MS
    Threshold,          \* apiFailureRestartThresholdMs
    healthCheckEnabled,
    MaxPolls,           \* bound: polls of one appliance at the gate or in flight
    MaxCommands         \* bound: commands

\* main (index.ts) starts no polling before it has found an appliance.
ASSUME WatchdogAssumption ==
    /\ Appliances # {}
    /\ {Refresh, Delay, Threshold} \subseteq Nat \ {0}
    /\ {MaxPolls, MaxCommands} \subseteq Nat
    /\ healthCheckEnabled \in BOOLEAN

VARIABLES
    timer,          \* ticks until an appliance's interval fires
    waiting,        \* its polls at the login gate
    asked,          \* its polls whose request is in flight
    cached,         \* its state entry: "none", "raw" or "normalized"
    sinceCommand,   \* time since its lastCommandTime
    put,            \* its command: "no", "sent" or, after a 403, "resent"
    sinceSuccess,   \* time since lastSuccessfulApiCall
    fileAge,        \* age of the timestamp in the health file
    exited,         \* process.exit(1) was called
    api, gateOpen, link,    \* the API answers; the login gate is open; MQTT is connected
    sinceContact,   \* history: time since the API answered a poll, or since the start
    failed,         \* history: a request has failed since then, or the startup's
                    \* requests before it
    calm,           \* history: full ticks without any disturbance
    commands        \* commands so far

pollVars == <<timer, waiting, asked>>
cmdVars  == <<cached, sinceCommand, put, commands>>
envVars  == <<api, gateOpen, link>>
vars == <<timer, waiting, asked, cached, sinceCommand, put, sinceSuccess, fileAge, exited,
          api, gateOpen, link, sinceContact, failed, calm, commands>>

\* Ages beyond these are not told apart.
MaxAge == IF Threshold > 3 * Refresh THEN Threshold ELSE 3 * Refresh
Older(age, bound) == IF age < bound THEN age + 1 ELSE bound

TypeOK ==
    /\ timer \in [Appliances -> 0 .. Refresh]
    /\ waiting \in [Appliances -> 0 .. MaxPolls]
    /\ asked \in [Appliances -> 0 .. MaxPolls]
    /\ cached \in [Appliances -> {"none", "raw", "normalized"}]
    /\ sinceCommand \in [Appliances -> 0 .. Delay]
    /\ put \in [Appliances -> {"no", "sent", "resent"}]
    /\ sinceSuccess \in 0 .. MaxAge /\ sinceContact \in 0 .. MaxAge
    /\ fileAge \in 0 .. Refresh + 1 /\ calm \in 0 .. Refresh + 1
    /\ exited \in BOOLEAN /\ failed \in BOOLEAN
    /\ api \in BOOLEAN /\ gateOpen \in BOOLEAN /\ link \in BOOLEAN
    /\ commands \in 0 .. MaxCommands

\* lastSuccessfulApiCall starts at the construction of the orchestrator, which a
\* slow login may leave any time ago when polling starts.
Init ==
    /\ timer \in [Appliances -> 0 .. Refresh]
    /\ waiting = [a \in Appliances |-> 0] /\ asked = waiting
    /\ cached = [a \in Appliances |-> "none"]
    /\ sinceCommand = [a \in Appliances |-> Delay]
    /\ put = [a \in Appliances |-> "no"]
    /\ sinceSuccess \in 0 .. MaxAge /\ sinceContact = sinceSuccess
    /\ fileAge = Refresh + 1 /\ calm = 0
    /\ exited = FALSE /\ failed = (sinceSuccess > 0)
    /\ api = TRUE /\ gateOpen = TRUE /\ link \in BOOLEAN
    /\ commands = 0

-----------------------------------------------------------------------------
(* What the handler of a poll's result does.                               *)

\* Faulty variant: the clock is not reset by a success.
trackApiResultNoReset(defined) ==
    /\ sinceSuccess' = sinceSuccess
    /\ exited' = (~defined /\ healthCheckEnabled /\ sinceSuccess >= Threshold)

\* defined: getApplianceState returned a state and not undefined.
trackApiResult(defined) ==
    /\ sinceSuccess' = IF defined THEN 0 ELSE sinceSuccess
    /\ exited' = (~defined /\ healthCheckEnabled /\ sinceSuccess >= Threshold)

\* Writes the time into the file, or leaves the old one to go stale.
writeHealthFile(mqttConnected, apiConnected) ==
    fileAge' = IF healthCheckEnabled /\ mqttConnected /\ apiConnected THEN 0 ELSE fileAge

\* The process that has exited writes nothing any more.
writeHealthStatus ==
    writeHealthFile(link, ~exited' /\ sinceSuccess' < 3 * Refresh)

Handle(defined) == trackApiResult(defined) /\ writeHealthStatus

-----------------------------------------------------------------------------
(* Polls.                                                                  *)

\* The interval fires within the command delay: no request is made and the
\* result is the cached state if that is an API state, otherwise undefined.
PollSkipped(a) ==
    /\ ~exited /\ timer[a] = 0 /\ sinceCommand[a] < Delay
    /\ timer' = [timer EXCEPT ![a] = Refresh]
    /\ Handle(cached[a] = "raw")
    /\ UNCHANGED <<waiting, asked, cmdVars, envVars, sinceContact, failed, calm>>

\* It fires outside the delay: the request passes the gate or waits there.
PollStarts(a) ==
    /\ ~exited /\ timer[a] = 0 /\ sinceCommand[a] >= Delay
    /\ waiting[a] + asked[a] < MaxPolls
    /\ timer' = [timer EXCEPT ![a] = Refresh]
    /\ IF gateOpen THEN asked' = [asked EXCEPT ![a] = @ + 1] /\ UNCHANGED waiting
                   ELSE waiting' = [waiting EXCEPT ![a] = @ + 1] /\ UNCHANGED asked
    /\ UNCHANGED <<cmdVars, sinceSuccess, fileAge, exited, envVars, sinceContact, failed, calm>>

\* An answer that says too little to be normalized is a success, too, but is
\* not cached.
PollAnswered(a) ==
    /\ ~exited /\ asked[a] > 0 /\ api
    /\ asked' = [asked EXCEPT ![a] = @ - 1]
    /\ \E entry \in {"raw", cached[a]} : cached' = [cached EXCEPT ![a] = entry]
    /\ sinceContact' = 0 /\ failed' = FALSE
    /\ Handle(TRUE)
    /\ UNCHANGED <<timer, waiting, sinceCommand, put, commands, envVars, calm>>

\* Faulty variant: a failed poll returns the cached state.
PollFailsWithCached(a) ==
    /\ ~exited /\ asked[a] > 0
    /\ asked' = [asked EXCEPT ![a] = @ - 1]
    /\ failed' = TRUE /\ calm' = 0
    /\ Handle(cached[a] = "raw")
    /\ UNCHANGED <<timer, waiting, cmdVars, envVars, sinceContact>>

\* A timeout, a network error or an error status: handleApiRequest logs it and
\* returns undefined.
PollFails(a) ==
    /\ ~exited /\ asked[a] > 0
    /\ asked' = [asked EXCEPT ![a] = @ - 1]
    /\ failed' = TRUE /\ calm' = 0
    /\ Handle(FALSE)
    /\ UNCHANGED <<timer, waiting, cmdVars, envVars, sinceContact>>

\* A 403: the refresh it forces closes the gate, where the retry waits.
PollRefused(a) ==
    /\ ~exited /\ asked[a] > 0 /\ api
    /\ asked' = [asked EXCEPT ![a] = @ - 1]
    /\ waiting' = [waiting EXCEPT ![a] = @ + 1]
    /\ gateOpen' = FALSE /\ calm' = 0
    /\ UNCHANGED <<timer, cmdVars, sinceSuccess, fileAge, exited, api, link,
                   sinceContact, failed>>

-----------------------------------------------------------------------------
(* Commands: sendApplianceCommand, past its validation.                    *)

\* The delay starts before the PUT, which may still have to wait at the gate;
\* a 403 starts it again.
CommandSent(a) ==
    /\ ~exited
    /\ \/ /\ put[a] = "no" /\ commands < MaxCommands
          /\ put' = [put EXCEPT ![a] = "sent"] /\ commands' = commands + 1
       \/ /\ put[a] = "sent" /\ api
          /\ put' = [put EXCEPT ![a] = "resent"] /\ UNCHANGED commands
    /\ sinceCommand' = [sinceCommand EXCEPT ![a] = 0]
    /\ calm' = 0
    /\ UNCHANGED <<pollVars, cached, sinceSuccess, fileAge, exited, envVars,
                   sinceContact, failed>>

\* publishCommandFeedback replaces the cached state, if there is one.
CommandAnswered(a) ==
    /\ ~exited /\ put[a] # "no" /\ gateOpen /\ api
    /\ put' = [put EXCEPT ![a] = "no"]
    /\ cached' = [cached EXCEPT ![a] = IF @ = "none" THEN "none" ELSE "normalized"]
    /\ UNCHANGED <<pollVars, sinceCommand, commands, sinceSuccess, fileAge, exited,
                   envVars, sinceContact, failed, calm>>

CommandFails(a) ==
    /\ ~exited /\ put[a] # "no" /\ gateOpen
    /\ put' = [put EXCEPT ![a] = "no"]
    /\ failed' = TRUE
    /\ UNCHANGED <<pollVars, cached, sinceCommand, commands, sinceSuccess, fileAge,
                   exited, envVars, sinceContact, calm>>

\* The entry has not been set for a day.
CacheExpires(a) ==
    /\ ~exited /\ cached[a] # "none"
    /\ cached' = [cached EXCEPT ![a] = "none"]
    /\ UNCHANGED <<pollVars, sinceCommand, put, commands, sinceSuccess, fileAge, exited,
                   envVars, sinceContact, failed, calm>>

-----------------------------------------------------------------------------
(* The environment and time.                                               *)

\* A login or a refresh starts, or the API or the broker goes away.
TroubleStarts ==
    /\ ~exited
    /\ \/ gateOpen' = FALSE /\ UNCHANGED <<api, link>>
       \/ api' = FALSE /\ UNCHANGED <<gateOpen, link>>
       \/ link' = FALSE /\ UNCHANGED <<gateOpen, api>>
    /\ calm' = 0
    /\ UNCHANGED <<pollVars, cmdVars, sinceSuccess, fileAge, exited, sinceContact, failed>>

TroubleEnds ==
    /\ ~exited
    /\ \/ api' = TRUE /\ UNCHANGED link
       \/ link' = TRUE /\ UNCHANGED api
    /\ UNCHANGED <<pollVars, cmdVars, sinceSuccess, fileAge, exited, gateOpen,
                   sinceContact, failed, calm>>

\* Faulty variant: the waiters are woken but not forgotten.
GateOpensKeepsWaiters ==
    /\ ~exited /\ ~gateOpen /\ api
    /\ gateOpen' = TRUE
    /\ asked' = [a \in Appliances |-> asked[a] + waiting[a]]
    /\ UNCHANGED <<timer, waiting, cmdVars, sinceSuccess, fileAge, exited, api, link,
                   sinceContact, failed, calm>>

\* A flow of AuthGate succeeds: every poll that waited is sent.
GateOpens ==
    /\ ~exited /\ ~gateOpen /\ api
    /\ gateOpen' = TRUE
    /\ asked' = [a \in Appliances |-> asked[a] + waiting[a]]
    /\ waiting' = [a \in Appliances |-> 0]
    /\ UNCHANGED <<timer, cmdVars, sinceSuccess, fileAge, exited, api, link,
                   sinceContact, failed, calm>>

Calm == /\ api /\ gateOpen /\ link
        /\ \A a \in Appliances : sinceCommand[a] >= Delay

Tick ==
    /\ ~exited
    /\ \A a \in Appliances : timer[a] > 0 /\ asked[a] = 0
    /\ timer' = [a \in Appliances |-> timer[a] - 1]
    /\ sinceCommand' = [a \in Appliances |-> Older(sinceCommand[a], Delay)]
    /\ sinceSuccess' = Older(sinceSuccess, MaxAge)
    /\ sinceContact' = Older(sinceContact, MaxAge)
    /\ fileAge' = Older(fileAge, Refresh + 1)
    /\ calm' = IF Calm THEN Older(calm, Refresh + 1) ELSE 0
    /\ UNCHANGED <<waiting, asked, cached, put, exited, envVars, failed, commands>>

Poll(a)    == PollSkipped(a) \/ PollStarts(a) \/ PollAnswered(a) \/ PollFails(a) \/ PollRefused(a)
Command(a) == CommandSent(a) \/ CommandAnswered(a) \/ CommandFails(a)

Next == \/ \E a \in Appliances : Poll(a) \/ Command(a) \/ CacheExpires(a)
        \/ TroubleStarts \/ TroubleEnds \/ GateOpens
        \/ Tick

Spec == Init /\ [][Next]_vars

\* Timers fire, time passes, and a request ends: its timeout sees to that.
FairSpec ==
    /\ Spec /\ WF_vars(Tick)
    /\ \A a \in Appliances : /\ WF_vars(PollSkipped(a) \/ PollStarts(a))
                             /\ WF_vars(PollAnswered(a) \/ PollFails(a))

-----------------------------------------------------------------------------
(* Properties.                                                             *)

\* The process never gives up (trackApiResult) within the threshold of an
\* answer to any of its polls: whichever appliance was answered, and however
\* polls were delayed at the gate, skipped or refused in between.
NoRestartWhileAnswered == exited => sinceContact >= Threshold

\* When for more than a refresh interval nothing has gone wrong and no command
\* was sent, the health file (writeHealthStatus) is at most one interval old.
HealthyWhenCalm == healthCheckEnabled /\ calm > Refresh => fileAge <= Refresh

\* While the gate stays open, an API that stays away ends in a restart.  (Behind
\* a closed gate no poll ends and nothing is tested.)
OutageEndsInRestart ==
    healthCheckEnabled => (<>[](~api /\ gateOpen) => <>exited)

\* "Minutes of sustained API failure before the container exits"
\* (config.example.yml): when the process exits, some request has failed.
RestartMeansApiFailure == exited => failed
=============================================================================
