----------------------------- MODULE StateSync -----------------------------
(***************************************************************************)
(* How one appliance's state reaches Home Assistant and how its commands   *)
(* reach the appliance: the state polls and sendApplianceCommand of        *)
(* ElectroluxClient (src/electrolux.ts), the state cache (src/cache.ts),   *)
(* the appliance's translations (src/appliances), and the publishing,      *)
(* reconnect and birth handlers (src/mqtt.ts, src/orchestrator.ts).        *)
(*                                                                         *)
(* The Electrolux cloud answers a GET from a copy of the appliance's state *)
(* that follows it with a delay.  Several polls and commands may be in     *)
(* flight, each a request the cloud serves at some moment and an answer    *)
(* that the bridge handles at a later one.  Publishing is immediate while  *)
(* the MQTT link is up and dropped while it is down.  A call's wait at the *)
(* login gate and its 403 retry (AuthGate) are part of the time it is in   *)
(* flight.  The attributes modelled are taken not to be among those whose  *)
(* changes the configuration says to ignore (logging.ignoredKeys).         *)
(***************************************************************************)
EXTENDS Naturals

CONSTANTS
    Polls, Commanders,          \* bounds: polls and commands in flight at once
    FanAllowed,                 \* the fan speeds the capabilities allow, by API mode
    OffReportsMode,             \* whether an appliance that is off reports its mode
    RevertOnRejection,          \* homeAssistant.revertStateOnRejection
    MaxCommands,                \* bounds: commands, and changes, outages and restarts
    MaxDisturbances,
    None                        \* no value

ApiModes == DOMAIN FanAllowed
ApiFans  == {"HIGH", "MIDDLE"}

(* Names of modes and fan speeds: the API's and Home Assistant's.          *)
normalizeClimateMode == [COOL |-> "cool", FANONLY |-> "fan_only", OFF |-> "off"]
normalizeFanSpeed    == [HIGH |-> "high", MIDDLE |-> "medium"]
denormalizeClimateMode == [cool |-> "COOL", fan_only |-> "FANONLY"]
denormalizeFanSpeed    == [high |-> "HIGH", medium |-> "MIDDLE"]

RawStates == [applianceState : {"RUNNING", "OFF"},
              mode : ApiModes \cup {"OFF"}, fanSpeedSetting : ApiFans]
Appliances == {s \in RawStates : s.mode \in ApiModes}
States == [applianceState : {"on", "off"},
           mode : {normalizeClimateMode[m] : m \in ApiModes \cup {"OFF"}},
           fanSpeedSetting : {normalizeFanSpeed[f] : f \in ApiFans}]

\* What Home Assistant sends: one field at a time, as its discovery templates say.
Modes    == {normalizeClimateMode[m] : m \in ApiModes}
Commands == [mode : Modes \cup {"off"}, fanSpeedSetting : {None}]
            \cup [mode : {None}, fanSpeedSetting : {normalizeFanSpeed[f] : f \in ApiFans}]

ASSUME SyncAssumption ==
    /\ ApiModes \subseteq {"COOL", "FANONLY"}
    /\ \A m \in ApiModes : FanAllowed[m] \subseteq ApiFans
    /\ OffReportsMode \in BOOLEAN /\ RevertOnRejection \in BOOLEAN
    /\ {MaxCommands, MaxDisturbances} \subseteq Nat
    /\ None \notin ApiModes \cup ApiFans \cup Modes \cup {"off", "high", "medium"}
    /\ None \notin RawStates \cup States \cup Commands

VARIABLES
    device,         \* the appliance, in the API's terms; its mode outlives its being off
    reported,       \* the cloud's copy of it, from which a GET is answered
    cache,          \* the state entry of the cache and its shape
    lastActiveMode, \* the last mode other than off that the bridge has seen
    hold,           \* less than COMMAND_STATE_DELAY_MS since lastCommandTime
    poll,           \* each poll: "idle", "asked" or "served"
    answer,         \* the state the cloud served it
    stage,          \* each command: "idle", "checked", "sent" or "applied"
    command,        \* what it asks for
    link,           \* the MQTT client is connected
    haUp,           \* Home Assistant is running
    birth,          \* its birth message is on the way to the bridge
    haView,         \* the state Home Assistant received last
    spent           \* how many disturbances there have been

bridgeVars == <<cache, lastActiveMode, hold>>
pollVars   == <<poll, answer>>
cmdVars    == <<stage, command>>
cloudVars  == <<device, reported>>
haVars     == <<link, haUp, birth>>
vars == <<device, reported, cache, lastActiveMode, hold, poll, answer, stage,
          command, link, haUp, birth, haView, spent>>

NoEntry == [kind |-> "none", state |-> None]
Entries == [kind : {"raw"}, state : RawStates]
           \cup [kind : {"normalized"}, state : States] \cup {NoEntry}

TypeOK ==
    /\ device \in Appliances /\ reported \in Appliances
    /\ cache \in Entries
    /\ lastActiveMode \in Modes \cup {None}
    /\ poll \in [Polls -> {"idle", "asked", "served"}]
    /\ answer \in [Polls -> RawStates \cup {None}]
    /\ \A p \in Polls : poll[p] = "served" <=> answer[p] # None
    /\ stage \in [Commanders -> {"idle", "checked", "sent", "applied"}]
    /\ command \in [Commanders -> Commands \cup {None}]
    /\ \A c \in Commanders : stage[c] # "idle" <=> command[c] # None
    /\ {hold, link, haUp, birth} \subseteq BOOLEAN
    /\ haView \in States \cup {None}
    /\ spent \in [commands : 0 .. MaxCommands, disturbances : 0 .. MaxDisturbances]

Init ==
    /\ device \in Appliances /\ reported = device
    /\ cache = NoEntry /\ lastActiveMode = None /\ hold = FALSE
    /\ poll = [p \in Polls |-> "idle"] /\ answer = [p \in Polls |-> None]
    /\ stage = [c \in Commanders |-> "idle"] /\ command = [c \in Commanders |-> None]
    /\ link = FALSE /\ haUp = TRUE /\ birth = FALSE /\ haView = None
    /\ spent = [commands |-> 0, disturbances |-> 0]

-----------------------------------------------------------------------------
(* Translations.                                                           *)

\* What the API reports of an appliance in state d.
Report(d) == IF d.applianceState = "OFF" /\ ~OffReportsMode
             THEN [d EXCEPT !.mode = "OFF"] ELSE d

normalizeState(raw) ==
    [applianceState  |-> IF raw.applianceState = "RUNNING" THEN "on" ELSE "off",
     mode            |-> normalizeClimateMode[raw.mode],
     fanSpeedSetting |-> normalizeFanSpeed[raw.fanSpeedSetting]]

\* Faulty variant: the cached value is published verbatim.
resolveVerbatim(entry) == entry.state

\* The cache holds a raw state after a poll, a normalized one after a command.
resolveCachedNormalizedState(entry) ==
    IF entry.kind = "raw" THEN normalizeState(entry.state) ELSE entry.state

transformMqttCommandToApi(cmd) ==
    [executeCommand  |-> IF cmd.mode = "off" THEN "OFF" ELSE "ON",
     mode            |-> IF cmd.mode \in Modes THEN denormalizeClimateMode[cmd.mode] ELSE None,
     fanSpeedSetting |-> IF cmd.fanSpeedSetting = None THEN None
                         ELSE denormalizeFanSpeed[cmd.fanSpeedSetting]]

\* What the appliance makes of a payload.
Obey(d, payload) ==
    [applianceState  |-> IF payload.executeCommand = "OFF" THEN "OFF" ELSE "RUNNING",
     mode            |-> IF payload.mode = None THEN d.mode ELSE payload.mode,
     fanSpeedSetting |-> IF payload.fanSpeedSetting = None THEN d.fanSpeedSetting
                         ELSE payload.fanSpeedSetting]

\* Whether the capabilities allow a command in the mode it will meet.
validateCommand(cmd, currentMode) ==
    LET effectiveMode == IF cmd.mode = None THEN currentMode ELSE cmd.mode
    IN  \/ effectiveMode = "off"
        \/ cmd.fanSpeedSetting = None
        \/ denormalizeFanSpeed[cmd.fanSpeedSetting]
             \in FanAllowed[denormalizeClimateMode[effectiveMode]]

\* lastActiveMode once a state or a command in this mode has been seen.
SeenMode(mode) == IF mode \in Modes THEN mode ELSE lastActiveMode

\* Faulty variant: the mode of a unit that a fan command turns on is left as cached.
CombinedWithoutRestore(state, cmd, lastMode) ==
    [state EXCEPT
        !.mode = IF cmd.mode = "off" /\ lastMode # None THEN lastMode
                 ELSE IF cmd.mode # None THEN cmd.mode ELSE @,
        !.fanSpeedSetting = IF cmd.fanSpeedSetting = None THEN @ ELSE cmd.fanSpeedSetting]

\* buildCombinedCommandState: the cached state with the command's fields, where
\* an off command keeps the mode and any other command to a unit that is off
\* brings the last mode back.
CombinedState(state, cmd, lastMode) ==
    LET turnsOff == cmd.mode = "off" /\ lastMode # None
        turnsOn  == cmd.mode = None /\ state.applianceState = "off" /\ lastMode # None
    IN  [state EXCEPT
            !.applianceState = IF turnsOn THEN "on" ELSE @,
            !.mode = IF turnsOff \/ turnsOn THEN lastMode
                     ELSE IF cmd.mode # None THEN cmd.mode ELSE @,
            !.fanSpeedSetting = IF cmd.fanSpeedSetting = None THEN @ ELSE cmd.fanSpeedSetting]

deriveImmediateStateFromCommand(cmd) ==
    IF transformMqttCommandToApi(cmd).executeCommand = "OFF" THEN "off" ELSE "on"

\* One more of the events that Converges waits to be over.
Disturbance == /\ spent.disturbances < MaxDisturbances
               /\ spent' = [spent EXCEPT !.disturbances = @ + 1]

\* publish(): dropped while disconnected, and lost on a Home Assistant that is down.
publish(state) == haView' = IF link /\ haUp THEN state ELSE haView

-----------------------------------------------------------------------------
(* Polls: getApplianceState.                                               *)

\* A poll timer fires; within the command delay it asks nothing.
PollStarts(p) ==
    /\ poll[p] = "idle" /\ ~hold
    /\ poll' = [poll EXCEPT ![p] = "asked"]
    /\ UNCHANGED <<cloudVars, bridgeVars, answer, cmdVars, haVars, haView, spent>>

PollServed(p) ==
    /\ poll[p] = "asked"
    /\ poll' = [poll EXCEPT ![p] = "served"]
    /\ answer' = [answer EXCEPT ![p] = Report(reported)]
    /\ UNCHANGED <<cloudVars, bridgeVars, cmdVars, haVars, haView, spent>>

PollEnds(p) == /\ poll' = [poll EXCEPT ![p] = "idle"]
               /\ answer' = [answer EXCEPT ![p] = None]

\* Faulty variant: a first fetch, or the first after a command, is not published.
PollAnsweredChangesOnly(p) ==
    /\ poll[p] = "served"
    /\ PollEnds(p)
    /\ lastActiveMode' = SeenMode(normalizeState(answer[p]).mode)
    /\ IF cache.kind = "raw" /\ cache.state # answer[p]
       THEN cache' = [kind |-> "raw", state |-> answer[p]] /\ publish(normalizeState(answer[p]))
       ELSE UNCHANGED <<cache, haView>>
    /\ UNCHANGED <<cloudVars, hold, cmdVars, haVars, spent>>

\* fetchAndProcessApplianceState after its await: the cache is read now.  An
\* entry left by a command counts as no earlier state at all.
PollAnswered(p) ==
    LET fresh        == normalizeState(answer[p])
        isFirstFetch == cache.kind # "raw"
        hasChanges   == ~isFirstFetch /\ normalizeState(cache.state) # fresh
    IN  /\ poll[p] = "served"
        /\ PollEnds(p)
        /\ lastActiveMode' = SeenMode(fresh.mode)
        /\ IF hasChanges \/ isFirstFetch
           THEN cache' = [kind |-> "raw", state |-> answer[p]] /\ publish(fresh)
           ELSE UNCHANGED <<cache, haView>>
        /\ UNCHANGED <<cloudVars, hold, cmdVars, haVars, spent>>

\* Any error of the call, or an answer that does not normalize.
PollFails(p) ==
    /\ poll[p] # "idle"
    /\ PollEnds(p)
    /\ UNCHANGED <<cloudVars, bridgeVars, cmdVars, haVars, haView, spent>>

-----------------------------------------------------------------------------
(* Commands: sendApplianceCommand.                                         *)

revertStateFromCache ==
    IF cache.kind = "none" THEN UNCHANGED haView
    ELSE publish(resolveCachedNormalizedState(cache))

currentMode == IF cache.kind = "none" THEN "off" ELSE resolveCachedNormalizedState(cache).mode

\* A command arrives over MQTT and is checked against the cached mode.
CommandArrives(c, cmd) ==
    /\ stage[c] = "idle" /\ link /\ haUp
    /\ spent.commands < MaxCommands
    /\ spent' = [spent EXCEPT !.commands = @ + 1]
    /\ IF validateCommand(cmd, currentMode)
       THEN /\ stage' = [stage EXCEPT ![c] = "checked"]
            /\ command' = [command EXCEPT ![c] = cmd]
            /\ UNCHANGED haView
       ELSE /\ IF RevertOnRejection THEN revertStateFromCache ELSE UNCHANGED haView
            /\ UNCHANGED cmdVars
    /\ UNCHANGED <<cloudVars, bridgeVars, pollVars, haVars>>

\* ensureValidToken has returned: lastCommandTime is set and the PUT is made.
CommandSent(c) ==
    /\ stage[c] = "checked"
    /\ stage' = [stage EXCEPT ![c] = "sent"]
    /\ hold' = TRUE
    /\ UNCHANGED <<cloudVars, cache, lastActiveMode, pollVars, command, haVars, haView, spent>>

\* The PUT was refused with a 403 and is made again: lastCommandTime is set once more.
CommandRetried(c) ==
    /\ stage[c] = "sent"
    /\ ~hold /\ hold' = TRUE
    /\ UNCHANGED <<cloudVars, cache, lastActiveMode, pollVars, cmdVars, haVars, haView, spent>>

\* The cloud hands the payload to the appliance, unless it does not allow it.
CommandApplied(c) ==
    LET payload == transformMqttCommandToApi(command[c])
        next    == Obey(device, payload)
    IN  /\ stage[c] = "sent"
        /\ payload.fanSpeedSetting = None \/ next.fanSpeedSetting \in FanAllowed[next.mode]
        /\ device' = next
        /\ stage' = [stage EXCEPT ![c] = "applied"]
        /\ UNCHANGED <<reported, bridgeVars, pollVars, command, haVars, haView, spent>>

CommandEnds(c) == /\ stage' = [stage EXCEPT ![c] = "idle"]
                  /\ command' = [command EXCEPT ![c] = None]

\* Faulty variant: the mode of a command is not remembered.
publishCommandFeedbackForgets(cmd) ==
    IF cache.kind = "none" THEN UNCHANGED <<cache, lastActiveMode, haView>>
    ELSE LET combined == [CombinedState(resolveCachedNormalizedState(cache), cmd, lastActiveMode)
                            EXCEPT !.applianceState = deriveImmediateStateFromCommand(cmd)]
         IN  /\ cache' = [kind |-> "normalized", state |-> combined]
             /\ publish(combined)
             /\ UNCHANGED lastActiveMode

\* publishCommandFeedback: what the command makes of the cached state is
\* published and cached, in normalized form.
publishCommandFeedback(cmd) ==
    IF cache.kind = "none" THEN UNCHANGED <<cache, lastActiveMode, haView>>
    ELSE LET seen == SeenMode(cmd.mode)
             combined == [CombinedState(resolveCachedNormalizedState(cache), cmd, seen)
                            EXCEPT !.applianceState = deriveImmediateStateFromCommand(cmd)]
         IN  /\ lastActiveMode' = seen
             /\ cache' = [kind |-> "normalized", state |-> combined]
             /\ publish(combined)

CommandAnswered(c) ==
    /\ stage[c] = "applied"
    /\ CommandEnds(c)
    /\ publishCommandFeedback(command[c])
    /\ UNCHANGED <<cloudVars, hold, pollVars, haVars, spent>>

\* The PUT fails, be it that the command has been carried out.
CommandFails(c) ==
    /\ stage[c] \in {"sent", "applied"}
    /\ CommandEnds(c)
    /\ revertStateFromCache
    /\ UNCHANGED <<cloudVars, bridgeVars, pollVars, haVars, spent>>

\* COMMAND_STATE_DELAY_MS has passed since lastCommandTime, whether or not the
\* PUT has been answered.
HoldExpires ==
    /\ hold /\ hold' = FALSE
    /\ UNCHANGED <<cloudVars, cache, lastActiveMode, pollVars, cmdVars, haVars, haView, spent>>

-----------------------------------------------------------------------------
(* MQTT and Home Assistant.                                                *)

LinkDrops ==
    /\ link /\ Disturbance
    /\ link' = FALSE /\ birth' = FALSE
    /\ UNCHANGED <<cloudVars, bridgeVars, pollVars, cmdVars, haUp, haView>>

\* Republish the cached state over the link that is (now) up.
republish == haView' = IF haUp /\ cache.kind # "none"
                       THEN resolveCachedNormalizedState(cache) ELSE haView

\* Faulty variant: the connect event is only logged.
LinkUpSilent ==
    /\ ~link /\ link' = TRUE
    /\ UNCHANGED <<cloudVars, bridgeVars, pollVars, cmdVars, haUp, birth, haView, spent>>

\* The connect event and its reconnect handler.
LinkUp ==
    /\ ~link /\ link' = TRUE
    /\ republish
    /\ UNCHANGED <<cloudVars, bridgeVars, pollVars, cmdVars, haUp, birth, spent>>

HaStops ==
    /\ haUp /\ Disturbance
    /\ haUp' = FALSE /\ birth' = FALSE /\ haView' = None
    /\ UNCHANGED <<cloudVars, bridgeVars, pollVars, cmdVars, link>>

\* It knows no state (retain is off) and announces itself.
HaStarts ==
    /\ ~haUp /\ haUp' = TRUE /\ birth' = link
    /\ UNCHANGED <<cloudVars, bridgeVars, pollVars, cmdVars, link, haView, spent>>

\* The birth handler: republishAll.
BirthArrives ==
    /\ birth /\ birth' = FALSE
    /\ republish
    /\ UNCHANGED <<cloudVars, bridgeVars, pollVars, cmdVars, link, haUp, spent>>

-----------------------------------------------------------------------------
(* The cloud, the appliance, and the bridge's process.                     *)

CloudCatchesUp ==
    /\ reported # device /\ reported' = device
    /\ UNCHANGED <<device, bridgeVars, pollVars, cmdVars, haVars, haView, spent>>

\* Somebody uses the remote control or the vendor's app.
ApplianceChanges ==
    /\ Disturbance
    /\ device' \in Appliances \ {device}
    /\ UNCHANGED <<reported, bridgeVars, pollVars, cmdVars, haVars, haView>>

\* The entry has not been set for a day (defaultTtl): get() finds none.
CacheExpires ==
    /\ Disturbance
    /\ cache # NoEntry /\ cache' = NoEntry
    /\ UNCHANGED <<cloudVars, lastActiveMode, hold, pollVars, cmdVars, haVars, haView>>

\* The bridge stops (a crash, an update, the watchdog) and starts with nothing.
\* A PUT that is still carried out afterwards is an ApplianceChanges.
BridgeRestarts ==
    /\ Disturbance
    /\ cache' = NoEntry /\ lastActiveMode' = None /\ hold' = FALSE
    /\ poll' = [p \in Polls |-> "idle"] /\ answer' = [p \in Polls |-> None]
    /\ stage' = [c \in Commanders |-> "idle"] /\ command' = [c \in Commanders |-> None]
    /\ link' = FALSE /\ birth' = FALSE
    /\ UNCHANGED <<cloudVars, haUp, haView>>

-----------------------------------------------------------------------------
Poll(p) == PollStarts(p) \/ PollServed(p) \/ PollAnswered(p) \/ PollFails(p)
Command(c) == \/ \E cmd \in Commands : CommandArrives(c, cmd)
              \/ CommandSent(c) \/ CommandRetried(c) \/ CommandApplied(c)
              \/ CommandAnswered(c) \/ CommandFails(c)

Next == \/ \E p \in Polls : Poll(p)
        \/ \E c \in Commanders : Command(c)
        \/ HoldExpires
        \/ LinkDrops \/ LinkUp \/ HaStops \/ HaStarts \/ BirthArrives
        \/ CloudCatchesUp \/ ApplianceChanges \/ CacheExpires \/ BridgeRestarts

Spec == Init /\ [][Next]_vars

\* Timers fire, calls end (axios has a timeout) and polls do not fail for ever;
\* the link, Home Assistant and the cloud's copy recover.
FairSpec ==
    /\ Spec
    /\ \A p \in Polls : /\ WF_vars(Poll(p))
                        /\ SF_vars(PollServed(p)) /\ SF_vars(PollAnswered(p))
    /\ \A c \in Commanders : WF_vars(CommandSent(c)) /\ WF_vars(CommandAnswered(c) \/ CommandFails(c))
    /\ WF_vars(HoldExpires) /\ WF_vars(CloudCatchesUp)
    /\ WF_vars(LinkUp) /\ WF_vars(HaStarts) /\ WF_vars(BirthArrives)

-----------------------------------------------------------------------------
(* Properties.                                                             *)

\* While the link and Home Assistant are up, what Home Assistant shows is what
\* the bridge holds in its cache: no publish, revert, reconnect or restart, in
\* whatever order polls and commands end, leaves the two apart.
ViewMatchesCache ==
    link /\ haUp /\ ~birth /\ cache.kind # "none"
        => haView = resolveCachedNormalizedState(cache)

\* The mode that a fan or temperature command restores is the mode of the cached
\* state, whichever of polls and commands touched the two last.
LastModeKnown ==
    cache.kind # "none" /\ resolveCachedNormalizedState(cache).mode \in Modes
        => lastActiveMode = resolveCachedNormalizedState(cache).mode

\* What the discovery templates make of a state: mode_state_template shows "off"
\* for an appliance that is off.
Shown(state) == <<IF state.applianceState = "off" THEN "off" ELSE state.mode,
                  state.fanSpeedSetting>>

\* The two translations of a command agree: if the cached state showed the
\* appliance as the command found it, then the feedback shows the appliance as
\* the payload has left it.
FeedbackAgreesWithDevice ==
    [][\A c \in Commanders :
         /\ CommandAnswered(c) /\ cache.kind # "none"
         /\ \E d \in Appliances :
               /\ Obey(d, transformMqttCommandToApi(command[c])) = device
               /\ Shown(normalizeState(d)) = Shown(resolveCachedNormalizedState(cache))
               /\ lastActiveMode = normalizeClimateMode[d.mode]
         => Shown(cache'.state) = Shown(normalizeState(device))]_vars

\* While the command delay runs, the state a command left in the cache is not
\* replaced by a poll's (the delay's purpose in config.example.yml).
DelayKeepsFeedback ==
    [][cache.kind = "normalized" /\ hold => cache'.kind # "raw"]_vars

\* Once commands, changes and outages are over, Home Assistant ends up showing
\* the appliance as the API reports it, and stays there.
Converges == <>[](haView = normalizeState(Report(device)))
=============================================================================
