--------------------------- MODULE StateSyncProofs ---------------------------
(***************************************************************************)
(* Proofs about StateSync, for any number of overlapping polls and         *)
(* commands, outages and restarts: its type invariant, that Home Assistant *)
(* shows the cached state, that the last mode is known, that command       *)
(* feedback agrees with the appliance, and that polls correct a view and   *)
(* never undo one that is right.                                           *)
(***************************************************************************)
EXTENDS StateSync, TLAPS

LEMMA Facts == /\ ApiModes \subseteq {"COOL", "FANONLY"} /\ OffReportsMode \in BOOLEAN
               /\ MaxCommands \in Nat /\ MaxDisturbances \in Nat
               /\ None \notin ApiModes \cup ApiFans \cup Modes \cup {"off", "high", "medium"}
               /\ None \notin RawStates /\ None \notin States
               /\ None \notin Commands
BY SyncAssumption

LEMMA ModesAreNames == /\ Modes \subseteq {"cool", "fan_only"} /\ None \notin Modes
                       /\ "off" \notin Modes
BY Facts DEF Modes, normalizeClimateMode

-----------------------------------------------------------------------------
(* The translations.                                                       *)

\* The modes and fan speeds of states in Home Assistant's terms.
StateModes == {normalizeClimateMode[m] : m \in ApiModes \cup {"OFF"}}
StateFans  == {normalizeFanSpeed[f] : f \in ApiFans}

LEMMA StateSets ==
    /\ StateModes = Modes \cup {"off"} /\ StateFans = {"high", "medium"}
    /\ States = [applianceState : {"on", "off"}, mode : StateModes, fanSpeedSetting : StateFans]
    /\ Commands = [mode : Modes \cup {"off"}, fanSpeedSetting : {None}]
                  \cup [mode : {None}, fanSpeedSetting : StateFans]
<1>1. StateModes = Modes \cup {"off"}
  BY Facts DEF StateModes, Modes, normalizeClimateMode
<1>2. StateFans = {"high", "medium"}
  BY DEF StateFans, ApiFans, normalizeFanSpeed
<1> QED BY <1>1, <1>2 DEF StateModes, StateFans, States, Commands

LEMMA ModeNames ==
    /\ \A m \in ApiModes : /\ normalizeClimateMode[m] \in Modes
                           /\ denormalizeClimateMode[normalizeClimateMode[m]] = m
    /\ normalizeClimateMode["OFF"] = "off"
    /\ \A m \in Modes : /\ denormalizeClimateMode[m] \in ApiModes
                        /\ normalizeClimateMode[denormalizeClimateMode[m]] = m
BY Facts DEF Modes, normalizeClimateMode, denormalizeClimateMode

LEMMA FanNames ==
    /\ \A f \in ApiFans : normalizeFanSpeed[f] \in StateFans
    /\ \A f \in StateFans : /\ denormalizeFanSpeed[f] \in ApiFans
                            /\ normalizeFanSpeed[denormalizeFanSpeed[f]] = f
BY DEF ApiFans, StateFans, normalizeFanSpeed, denormalizeFanSpeed

LEMMA RawFields ==
    ASSUME NEW raw \in RawStates
    PROVE  /\ raw.applianceState \in {"RUNNING", "OFF"} /\ raw.mode \in ApiModes \cup {"OFF"}
           /\ raw.fanSpeedSetting \in ApiFans
           /\ raw = [applianceState |-> raw.applianceState, mode |-> raw.mode,
                     fanSpeedSetting |-> raw.fanSpeedSetting]
BY DEF RawStates

LEMMA ApplianceFields ==
    ASSUME NEW d \in Appliances
    PROVE  d \in RawStates /\ d.mode \in ApiModes /\ d.mode # "OFF"
BY Facts DEF Appliances

LEMMA StateFields ==
    ASSUME NEW state \in States
    PROVE  /\ state.applianceState \in {"on", "off"} /\ state.mode \in Modes \cup {"off"}
           /\ state.fanSpeedSetting \in StateFans
BY StateSets

LEMMA CommandFields ==
    ASSUME NEW cmd \in Commands
    PROVE  /\ cmd.mode \in Modes \cup {"off", None}
           /\ cmd.fanSpeedSetting \in StateFans \cup {None}
           /\ cmd.mode = None <=> cmd.fanSpeedSetting # None
<1>1. None \notin StateFans
  BY Facts, StateSets
<1>2. CASE cmd \in [mode : Modes \cup {"off"}, fanSpeedSetting : {None}]
  BY <1>2, ModesAreNames, Facts
<1>3. CASE cmd \in [mode : {None}, fanSpeedSetting : StateFans]
  BY <1>1, <1>3
<1> QED BY <1>2, <1>3, StateSets

LEMMA NormalizeFields ==
    ASSUME NEW raw \in RawStates
    PROVE  /\ normalizeState(raw) \in States
           /\ normalizeState(raw).applianceState = IF raw.applianceState = "RUNNING" THEN "on"
                                                   ELSE "off"
           /\ normalizeState(raw).mode = normalizeClimateMode[raw.mode]
           /\ normalizeState(raw).mode \in Modes <=> raw.mode \in ApiModes
           /\ normalizeState(raw).mode = "off" <=> raw.mode = "OFF"
           /\ normalizeState(raw).fanSpeedSetting = normalizeFanSpeed[raw.fanSpeedSetting]
<1>1. /\ normalizeState(raw).applianceState = IF raw.applianceState = "RUNNING" THEN "on"
                                              ELSE "off"
      /\ normalizeState(raw).mode = normalizeClimateMode[raw.mode]
      /\ normalizeState(raw).fanSpeedSetting = normalizeFanSpeed[raw.fanSpeedSetting]
  BY DEF normalizeState
<1>2. normalizeClimateMode[raw.mode] \in Modes <=> raw.mode \in ApiModes
  BY RawFields, ModeNames, ModesAreNames
<1>3. normalizeClimateMode[raw.mode] = "off" <=> raw.mode = "OFF"
  BY RawFields, ModeNames, ModesAreNames
<1>4. normalizeState(raw) \in States
  BY <1>2, RawFields, ModeNames, FanNames, StateSets DEF normalizeState
<1> QED BY <1>1, <1>2, <1>3, <1>4

LEMMA ReportFields ==
    ASSUME NEW d \in Appliances
    PROVE  Report(d) \in RawStates /\ (Report(d).mode = "OFF" => Report(d).applianceState = "OFF")
<1>1. d \in RawStates /\ d.mode # "OFF"
  BY ApplianceFields
<1>2. CASE d.applianceState = "OFF" /\ ~OffReportsMode
  <2>1. Report(d) = [d EXCEPT !.mode = "OFF"]
    BY <1>2 DEF Report
  <2>2. Report(d) \in RawStates
    BY <1>1, <2>1 DEF RawStates
  <2>3. Report(d).applianceState = "OFF"
    BY <1>1, <1>2, <2>1 DEF RawStates
  <2> QED BY <2>2, <2>3
<1>3. CASE ~(d.applianceState = "OFF" /\ ~OffReportsMode)
  BY <1>1, <1>3 DEF Report
<1> QED BY <1>2, <1>3

LEMMA EntryKinds ==
    ASSUME NEW entry \in Entries
    PROVE  /\ entry.kind \in {"raw", "normalized", "none"}
           /\ entry.kind = "none" <=> entry = NoEntry
           /\ entry.kind = "raw" => entry.state \in RawStates
           /\ entry.kind = "normalized" => entry.state \in States
           /\ entry.kind # "none" => resolveCachedNormalizedState(entry) \in States
<1>1. /\ entry.kind \in {"raw", "normalized", "none"}
      /\ entry.kind = "none" <=> entry = NoEntry
      /\ entry.kind = "raw" => entry.state \in RawStates
      /\ entry.kind = "normalized" => entry.state \in States
  BY DEF Entries, NoEntry
<1> QED BY <1>1, NormalizeFields DEF resolveCachedNormalizedState

LEMMA PayloadFields ==
    ASSUME NEW cmd \in Commands
    PROVE  LET payload == transformMqttCommandToApi(cmd)
           IN  /\ payload.executeCommand = IF cmd.mode = "off" THEN "OFF" ELSE "ON"
               /\ payload.mode = IF cmd.mode \in Modes THEN denormalizeClimateMode[cmd.mode]
                                 ELSE None
               /\ payload.fanSpeedSetting = IF cmd.fanSpeedSetting = None THEN None
                                            ELSE denormalizeFanSpeed[cmd.fanSpeedSetting]
BY DEF transformMqttCommandToApi

LEMMA ObeyFields ==
    ASSUME NEW d \in Appliances, NEW cmd \in Commands
    PROVE  LET next == Obey(d, transformMqttCommandToApi(cmd))
           IN  /\ next \in Appliances
               /\ next.applianceState = IF cmd.mode = "off" THEN "OFF" ELSE "RUNNING"
               /\ next.mode = IF cmd.mode \in Modes THEN denormalizeClimateMode[cmd.mode]
                              ELSE d.mode
               /\ next.fanSpeedSetting = IF cmd.fanSpeedSetting = None THEN d.fanSpeedSetting
                                         ELSE denormalizeFanSpeed[cmd.fanSpeedSetting]
<1> DEFINE next == Obey(d, transformMqttCommandToApi(cmd))
<1>1. \A m \in Modes : denormalizeClimateMode[m] # None
  BY ModeNames, Facts
<1>2. \A f \in StateFans : denormalizeFanSpeed[f] # None
  BY FanNames, Facts DEF ApiFans
<1>3. next = [applianceState  |-> IF cmd.mode = "off" THEN "OFF" ELSE "RUNNING",
              mode            |-> IF cmd.mode \in Modes THEN denormalizeClimateMode[cmd.mode]
                                  ELSE d.mode,
              fanSpeedSetting |-> IF cmd.fanSpeedSetting = None THEN d.fanSpeedSetting
                                  ELSE denormalizeFanSpeed[cmd.fanSpeedSetting]]
  BY <1>1, <1>2, CommandFields, PayloadFields DEF Obey
<1>4. /\ next.mode \in ApiModes /\ next.fanSpeedSetting \in ApiFans
      /\ next.applianceState \in {"RUNNING", "OFF"}
  BY <1>3, CommandFields, ApplianceFields, RawFields, ModeNames, FanNames
<1>5. next \in RawStates
  BY <1>3, <1>4 DEF RawStates
<1>6. next \in Appliances
  BY <1>4, <1>5 DEF Appliances
<1> QED BY <1>3, <1>6

\* What publishCommandFeedback publishes.
Feedback(state, cmd, seen) ==
    [CombinedState(state, cmd, seen) EXCEPT !.applianceState = deriveImmediateStateFromCommand(cmd)]

\* What replacing the three fields of a state makes of it.
LEMMA Replaced ==
    ASSUME NEW state \in States
    PROVE  \A onOff, mode, fan :
             [state EXCEPT !.applianceState = onOff, !.mode = mode, !.fanSpeedSetting = fan]
               = [applianceState |-> onOff, mode |-> mode, fanSpeedSetting |-> fan]
<1> TAKE onOff, mode, fan
<1>1. PICK a \in {"on", "off"},
           m \in {normalizeClimateMode[x] : x \in ApiModes \cup {"OFF"}},
           f \in {normalizeFanSpeed[x] : x \in ApiFans} :
        state = [applianceState |-> a, mode |-> m, fanSpeedSetting |-> f]
  BY DEF States
<1> DEFINE replaced == [state EXCEPT !.applianceState = onOff, !.mode = mode,
                                     !.fanSpeedSetting = fan]
<1>2. DOMAIN replaced = {"applianceState", "mode", "fanSpeedSetting"}
  BY <1>1
<1>3. /\ replaced.applianceState = onOff /\ replaced.mode = mode
      /\ replaced.fanSpeedSetting = fan
  BY <1>1
<1>4. replaced = [x \in {"applianceState", "mode", "fanSpeedSetting"} |-> replaced[x]]
  BY <1>2, <1>1
<1> DEFINE record == [applianceState |-> onOff, mode |-> mode, fanSpeedSetting |-> fan]
<1>5. record = [x \in {"applianceState", "mode", "fanSpeedSetting"} |-> record[x]]
  OBVIOUS
<1>6. /\ record.applianceState = onOff /\ record.mode = mode
      /\ record.fanSpeedSetting = fan
  OBVIOUS
<1> HIDE DEF replaced, record
<1>7. replaced = record
  BY <1>3, <1>4, <1>5, <1>6
<1> QED BY <1>7 DEF replaced, record

LEMMA FeedbackFields ==
    ASSUME NEW state \in States, NEW cmd \in Commands, NEW seen \in Modes \cup {None}
    PROVE  LET combined == Feedback(state, cmd, seen)
               turnsOff == cmd.mode = "off" /\ seen # None
               turnsOn  == cmd.mode = None /\ state.applianceState = "off" /\ seen # None
           IN  /\ combined \in States
               /\ combined.applianceState = IF cmd.mode = "off" THEN "off" ELSE "on"
               /\ combined.mode = IF turnsOff \/ turnsOn THEN seen
                                  ELSE IF cmd.mode # None THEN cmd.mode ELSE state.mode
               /\ combined.fanSpeedSetting = IF cmd.fanSpeedSetting = None
                                             THEN state.fanSpeedSetting
                                             ELSE cmd.fanSpeedSetting
<1> DEFINE turnsOff == cmd.mode = "off" /\ seen # None
           turnsOn  == cmd.mode = None /\ state.applianceState = "off" /\ seen # None
           combined == Feedback(state, cmd, seen)
<1>1. deriveImmediateStateFromCommand(cmd) = IF cmd.mode = "off" THEN "off" ELSE "on"
  BY PayloadFields DEF deriveImmediateStateFromCommand
<1>2. combined = [applianceState |-> IF cmd.mode = "off" THEN "off" ELSE "on",
                  mode |-> IF turnsOff \/ turnsOn THEN seen
                           ELSE IF cmd.mode # None THEN cmd.mode ELSE state.mode,
                  fanSpeedSetting |-> IF cmd.fanSpeedSetting = None THEN state.fanSpeedSetting
                                      ELSE cmd.fanSpeedSetting]
  <2>1. state = [applianceState |-> state.applianceState, mode |-> state.mode,
                 fanSpeedSetting |-> state.fanSpeedSetting]
    BY StateSets
  <2>2. CombinedState(state, cmd, seen) =
          [applianceState |-> IF turnsOn THEN "on" ELSE state.applianceState,
           mode |-> IF turnsOff \/ turnsOn THEN seen
                    ELSE IF cmd.mode # None THEN cmd.mode ELSE state.mode,
           fanSpeedSetting |-> IF cmd.fanSpeedSetting = None THEN state.fanSpeedSetting
                               ELSE cmd.fanSpeedSetting]
    <3> DEFINE onOff == IF turnsOn THEN "on" ELSE state.applianceState
               mode  == IF turnsOff \/ turnsOn THEN seen
                        ELSE IF cmd.mode # None THEN cmd.mode ELSE state.mode
               fan   == IF cmd.fanSpeedSetting = None THEN state.fanSpeedSetting
                        ELSE cmd.fanSpeedSetting
    <3>1. CombinedState(state, cmd, seen)
            = [state EXCEPT !.applianceState = onOff, !.mode = mode, !.fanSpeedSetting = fan]
      BY Zenon DEF CombinedState
    <3>2. \A x, y, z : [state EXCEPT !.applianceState = x, !.mode = y, !.fanSpeedSetting = z]
                          = [applianceState |-> x, mode |-> y, fanSpeedSetting |-> z]
      BY Replaced
    <3> HIDE DEF onOff, mode, fan
    <3>3. [state EXCEPT !.applianceState = onOff, !.mode = mode, !.fanSpeedSetting = fan]
            = [applianceState |-> onOff, mode |-> mode, fanSpeedSetting |-> fan]
      BY <3>2
    <3> QED BY <3>1, <3>3, Zenon DEF onOff, mode, fan
  <2> QED BY <1>1, <2>2 DEF Feedback
<1>3. combined \in States
  BY <1>2, CommandFields, StateFields, StateSets
<1> QED BY <1>2, <1>3

-----------------------------------------------------------------------------
(* The inductive invariant.                                                *)

Shows == resolveCachedNormalizedState(cache)

CloudTypes == device \in Appliances /\ reported \in Appliances
BridgeTypes == /\ cache \in Entries /\ lastActiveMode \in Modes \cup {None}
               /\ haView \in States \cup {None}
PollTypes == /\ poll \in [Polls -> {"idle", "asked", "served"}]
             /\ answer \in [Polls -> RawStates \cup {None}]
             /\ \A p \in Polls : poll[p] = "served" <=> answer[p] # None
CommandTypes == /\ stage \in [Commanders -> {"idle", "checked", "sent", "applied"}]
                /\ command \in [Commanders -> Commands \cup {None}]
                /\ \A c \in Commanders : stage[c] # "idle" <=> command[c] # None
FlagTypes == hold \in BOOLEAN /\ link \in BOOLEAN /\ haUp \in BOOLEAN /\ birth \in BOOLEAN
SpentType == spent \in [commands : 0 .. MaxCommands, disturbances : 0 .. MaxDisturbances]

LEMMA TypeParts == TypeOK <=> /\ CloudTypes /\ BridgeTypes /\ PollTypes /\ CommandTypes
                              /\ FlagTypes /\ SpentType
BY DEF TypeOK, CloudTypes, BridgeTypes, PollTypes, CommandTypes, FlagTypes, SpentType

\* An answer is a report: only an appliance that is off comes without its mode.
AnswersAreReports ==
    \A p \in Polls : answer[p] # None /\ answer[p].mode = "OFF" => answer[p].applianceState = "OFF"

\* A state without a mode is cached for an appliance that is on only as the feedback
\* of a command that found no mode to restore.
OnWithoutMode ==
    cache.kind # "none" /\ Shows.applianceState = "on" /\ Shows.mode = "off"
        => lastActiveMode = None

PollPart   == PollTypes /\ AnswersAreReports
BridgePart == BridgeTypes /\ ViewMatchesCache /\ LastModeKnown /\ OnWithoutMode
IInv == CloudTypes /\ BridgePart /\ PollPart /\ CommandTypes /\ FlagTypes /\ SpentType

LEMMA PollFrame == ASSUME PollPart, UNCHANGED pollVars PROVE PollPart'
BY DEF PollPart, PollTypes, AnswersAreReports, pollVars

LEMMA CommandFrame == ASSUME CommandTypes, UNCHANGED cmdVars PROVE CommandTypes'
BY DEF CommandTypes, cmdVars

LEMMA CloudFrame == ASSUME CloudTypes, UNCHANGED cloudVars PROVE CloudTypes'
BY DEF CloudTypes, cloudVars

LEMMA BridgeFrame ==
    ASSUME BridgePart, UNCHANGED <<cache, lastActiveMode, haView, link, haUp, birth>>
    PROVE  BridgePart'
BY DEF BridgePart, BridgeTypes, ViewMatchesCache, LastModeKnown, OnWithoutMode, Shows,
       resolveCachedNormalizedState

LEMMA SpentFrame == ASSUME SpentType, UNCHANGED spent \/ Disturbance PROVE SpentType'
<1>1. CASE UNCHANGED spent
  BY <1>1 DEF SpentType
<1>2. CASE Disturbance
  BY <1>2, Facts DEF SpentType, Disturbance
<1> QED BY <1>1, <1>2

\* The cache stays and what Home Assistant receives, if anything, is the cached state.
LEMMA Republished ==
    ASSUME IInv, UNCHANGED <<cache, lastActiveMode>>,
           haView' = haView \/ (cache.kind # "none" /\ haView' = Shows),
           link' /\ haUp' /\ ~birth' =>
               (link /\ haUp /\ ~birth) \/ cache.kind = "none" \/ haView' = Shows
    PROVE  BridgePart'
<1>1. cache \in Entries /\ (cache.kind # "none" => Shows \in States)
  BY EntryKinds DEF IInv, BridgePart, BridgeTypes, Shows
<1>2. BridgeTypes'
  BY <1>1 DEF IInv, BridgePart, BridgeTypes
<1>3. Shows' = Shows
  BY DEF Shows, resolveCachedNormalizedState
<1>4. LastModeKnown' /\ OnWithoutMode'
  BY <1>3 DEF IInv, BridgePart, LastModeKnown, OnWithoutMode, Shows
<1>5. ViewMatchesCache'
  BY <1>3 DEF IInv, BridgePart, ViewMatchesCache, Shows
<1> QED BY <1>2, <1>4, <1>5 DEF BridgePart

LEMMA InitIInv == Init => IInv
<1> SUFFICES ASSUME Init PROVE IInv
  OBVIOUS
<1>1. NoEntry \in Entries /\ NoEntry.kind = "none"
  BY DEF Entries, NoEntry
<1>2. BridgePart
  BY <1>1 DEF Init, BridgePart, BridgeTypes, ViewMatchesCache, LastModeKnown, OnWithoutMode
<1>3. PollPart /\ CommandTypes
  BY DEF Init, PollPart, PollTypes, AnswersAreReports, CommandTypes
<1>4. CloudTypes /\ FlagTypes
  BY DEF Init, CloudTypes, FlagTypes
<1>5. SpentType
  BY Facts DEF Init, SpentType
<1> QED BY <1>2, <1>3, <1>4, <1>5 DEF IInv

-----------------------------------------------------------------------------
(* Polls.                                                                  *)

LEMMA PollEndsInv == ASSUME IInv, NEW p \in Polls, PollEnds(p) PROVE PollPart'
BY DEF IInv, PollPart, PollTypes, AnswersAreReports, PollEnds

LEMMA PollInv ==
    ASSUME IInv, NEW p \in Polls, PollStarts(p) \/ PollServed(p) \/ PollFails(p)
    PROVE  IInv'
<1> USE DEF PollStarts, PollServed, PollFails
<1>1. CloudTypes' /\ CommandTypes' /\ FlagTypes' /\ SpentType'
  BY CloudFrame, CommandFrame, SpentFrame DEF IInv, FlagTypes, haVars, bridgeVars
<1>2. BridgePart'
  BY BridgeFrame DEF IInv, bridgeVars, haVars
<1>3. PollPart'
  <2>1. CASE PollStarts(p)
    BY <2>1, Facts DEF IInv, PollPart, PollTypes, AnswersAreReports
  <2>2. CASE PollServed(p)
    <3>1. Report(reported) \in RawStates /\ Report(reported) # None
          /\ (Report(reported).mode = "OFF" => Report(reported).applianceState = "OFF")
      BY ReportFields, Facts DEF IInv, CloudTypes
    <3> QED BY <2>2, <3>1 DEF IInv, PollPart, PollTypes, AnswersAreReports
  <2>3. CASE PollFails(p)
    BY <2>3, PollEndsInv
  <2> QED BY <2>1, <2>2, <2>3
<1> QED BY <1>1, <1>2, <1>3 DEF IInv

LEMMA PollAnsweredInv == ASSUME IInv, NEW p \in Polls, PollAnswered(p) PROVE IInv'
<1> DEFINE fresh == normalizeState(answer[p])
<1>1. CloudTypes' /\ CommandTypes' /\ FlagTypes' /\ SpentType'
  BY CloudFrame, CommandFrame, SpentFrame DEF IInv, PollAnswered, FlagTypes, haVars
<1>2. PollPart'
  BY PollEndsInv DEF PollAnswered
<1>3. /\ answer[p] \in RawStates /\ fresh \in States
      /\ fresh.applianceState = "on" => fresh.mode # "off"
  <2>1. answer[p] \in RawStates
    BY DEF IInv, PollPart, PollTypes, PollAnswered
  <2>2. answer[p].mode = "OFF" => answer[p].applianceState = "OFF"
    BY <2>1, Facts DEF IInv, PollPart, AnswersAreReports
  <2> QED BY <2>1, <2>2, NormalizeFields, RawFields
<1>4. cache \in Entries /\ lastActiveMode \in Modes \cup {None} /\ haView \in States \cup {None}
  BY DEF IInv, BridgePart, BridgeTypes
<1>5. lastActiveMode' = IF fresh.mode \in Modes THEN fresh.mode ELSE lastActiveMode
  BY DEF PollAnswered, SeenMode
<1>6. UNCHANGED <<link, haUp, birth>>
  BY DEF PollAnswered, haVars
<1>7. CASE cache.kind # "raw" \/ normalizeState(cache.state) # fresh
  <2>1. cache' = [kind |-> "raw", state |-> answer[p]] /\ publish(fresh)
    BY <1>7 DEF PollAnswered
  <2>2. cache' \in Entries /\ cache'.kind = "raw" /\ Shows' = fresh
    BY <1>3, <2>1 DEF Entries, Shows, resolveCachedNormalizedState
  <2>3. haView' = IF link /\ haUp THEN fresh ELSE haView
    BY <2>1 DEF publish
  <2>4. BridgeTypes'
    BY <1>3, <1>4, <1>5, <2>2, <2>3 DEF BridgeTypes
  <2>5. ViewMatchesCache'
    BY <1>6, <2>2, <2>3 DEF ViewMatchesCache, Shows
  <2>6. LastModeKnown' /\ OnWithoutMode'
    BY <1>3, <1>5, <2>2 DEF LastModeKnown, OnWithoutMode, Shows
  <2> QED BY <1>1, <1>2, <2>4, <2>5, <2>6 DEF IInv, BridgePart
<1>8. CASE cache.kind = "raw" /\ normalizeState(cache.state) = fresh
  <2>1. UNCHANGED <<cache, haView>>
    BY <1>8 DEF PollAnswered
  <2>2. Shows = fresh /\ Shows' = fresh
    BY <1>8, <2>1 DEF Shows, resolveCachedNormalizedState
  <2>3. BridgeTypes' /\ LastModeKnown' /\ OnWithoutMode'
    BY <1>3, <1>4, <1>5, <2>1, <2>2 DEF BridgeTypes, LastModeKnown, OnWithoutMode, Shows
  <2>4. ViewMatchesCache'
    BY <1>6, <2>1, <2>2 DEF IInv, BridgePart, ViewMatchesCache, Shows
  <2> QED BY <1>1, <1>2, <2>3, <2>4 DEF IInv, BridgePart
<1> QED BY <1>7, <1>8

-----------------------------------------------------------------------------
(* Commands.                                                               *)

\* Reverting publishes what is cached.
LEMMA RevertFacts ==
    ASSUME revertStateFromCache
    PROVE  \/ haView' = haView /\ (cache.kind = "none" \/ ~(link /\ haUp))
           \/ cache.kind # "none" /\ haView' = Shows
BY DEF revertStateFromCache, publish, Shows

LEMMA CommandEndsInv == ASSUME IInv, NEW c \in Commanders, CommandEnds(c) PROVE CommandTypes'
BY DEF IInv, CommandTypes, CommandEnds

LEMMA CommandArrivesInv ==
    ASSUME IInv, NEW c \in Commanders, NEW cmd \in Commands, CommandArrives(c, cmd)
    PROVE  IInv'
<1>1. CloudTypes' /\ PollPart' /\ FlagTypes'
  BY CloudFrame, PollFrame DEF IInv, CommandArrives, FlagTypes, haVars, bridgeVars
<1>2. SpentType'
  BY Facts DEF IInv, SpentType, CommandArrives
<1>3. CommandTypes'
  BY Facts DEF IInv, CommandTypes, CommandArrives, cmdVars
<1>4. UNCHANGED <<cache, lastActiveMode, link, haUp, birth>>
  BY DEF CommandArrives, bridgeVars, haVars
<1>5. haView' = haView \/ (cache.kind # "none" /\ haView' = Shows)
  BY RevertFacts DEF CommandArrives
<1>6. BridgePart'
  BY <1>4, <1>5, Republished
<1> QED BY <1>1, <1>2, <1>3, <1>6 DEF IInv

LEMMA CommandSentInv ==
    ASSUME IInv, NEW c \in Commanders,
           CommandSent(c) \/ CommandRetried(c) \/ CommandApplied(c)
    PROVE  IInv'
<1> USE DEF CommandSent, CommandRetried, CommandApplied
<1>1. PollPart' /\ BridgePart' /\ FlagTypes' /\ SpentType'
  BY PollFrame, BridgeFrame, SpentFrame DEF IInv, FlagTypes, haVars, bridgeVars
<1>2. CommandTypes'
  BY DEF IInv, CommandTypes, cmdVars
<1>3. CloudTypes'
  <2>1. CASE CommandSent(c) \/ CommandRetried(c)
    BY <2>1, CloudFrame DEF IInv
  <2>2. CASE CommandApplied(c)
    <3>1. command[c] \in Commands
      BY <2>2 DEF IInv, CommandTypes
    <3> QED BY <2>2, <3>1, ObeyFields DEF IInv, CloudTypes
  <2> QED BY <2>1, <2>2
<1> QED BY <1>1, <1>2, <1>3 DEF IInv

LEMMA CommandFailsInv == ASSUME IInv, NEW c \in Commanders, CommandFails(c) PROVE IInv'
<1>1. CloudTypes' /\ PollPart' /\ FlagTypes' /\ SpentType' /\ CommandTypes'
  BY CloudFrame, PollFrame, SpentFrame, CommandEndsInv
     DEF IInv, CommandFails, FlagTypes, haVars, bridgeVars
<1>2. UNCHANGED <<cache, lastActiveMode, link, haUp, birth>>
  BY DEF CommandFails, bridgeVars, haVars
<1>3. haView' = haView \/ (cache.kind # "none" /\ haView' = Shows)
  BY RevertFacts DEF CommandFails
<1> QED BY <1>1, <1>2, <1>3, Republished DEF IInv

\* What an answered command leaves behind.
LEMMA FeedbackFacts ==
    ASSUME IInv, NEW c \in Commanders, CommandAnswered(c), cache.kind # "none"
    PROVE  LET seen == SeenMode(command[c].mode)
               combined == Feedback(Shows, command[c], seen)
           IN  /\ command[c] \in Commands /\ Shows \in States
               /\ seen \in Modes \cup {None} /\ lastActiveMode' = seen
               /\ cache' = [kind |-> "normalized", state |-> combined]
               /\ haView' = IF link /\ haUp THEN combined ELSE haView
<1>1. command[c] \in Commands
  BY DEF IInv, CommandTypes, CommandAnswered
<1>2. cache \in Entries /\ Shows \in States
  BY EntryKinds DEF IInv, BridgePart, BridgeTypes, Shows
<1>3. SeenMode(command[c].mode) \in Modes \cup {None}
  BY DEF IInv, BridgePart, BridgeTypes, SeenMode
<1> QED BY <1>1, <1>2, <1>3
        DEF CommandAnswered, publishCommandFeedback, publish, Feedback, Shows

LEMMA CommandAnsweredInv == ASSUME IInv, NEW c \in Commanders, CommandAnswered(c) PROVE IInv'
<1>1. CloudTypes' /\ PollPart' /\ FlagTypes' /\ SpentType' /\ CommandTypes'
  BY CloudFrame, PollFrame, SpentFrame, CommandEndsInv
     DEF IInv, CommandAnswered, FlagTypes, haVars
<1>2. UNCHANGED <<link, haUp, birth>>
  BY DEF CommandAnswered, haVars
<1>3. CASE cache.kind = "none"
  <2>1. UNCHANGED <<cache, lastActiveMode, haView>>
    BY <1>3 DEF CommandAnswered, publishCommandFeedback
  <2> QED BY <1>1, <1>2, <2>1, BridgeFrame DEF IInv
<1>4. CASE cache.kind # "none"
  <2> DEFINE cmd == command[c]
             seen == SeenMode(cmd.mode)
             combined == Feedback(Shows, cmd, seen)
  <2>1. /\ cmd \in Commands /\ Shows \in States
        /\ seen \in Modes \cup {None} /\ lastActiveMode' = seen
        /\ cache' = [kind |-> "normalized", state |-> combined]
        /\ haView' = IF link /\ haUp THEN combined ELSE haView
    BY <1>4, FeedbackFacts
  <2>2. /\ combined \in States
        /\ combined.applianceState = IF cmd.mode = "off" THEN "off" ELSE "on"
        /\ combined.mode =
              IF \/ cmd.mode = "off" /\ seen # None
                 \/ cmd.mode = None /\ Shows.applianceState = "off" /\ seen # None
              THEN seen ELSE IF cmd.mode # None THEN cmd.mode ELSE Shows.mode
    BY <2>1, FeedbackFields
  <2>3. seen = IF cmd.mode \in Modes THEN cmd.mode ELSE lastActiveMode
    BY DEF SeenMode
  <2>4. cache' \in Entries /\ cache'.kind = "normalized" /\ Shows' = combined
    BY <2>1, <2>2 DEF Entries, Shows, resolveCachedNormalizedState
  <2>5. BridgeTypes'
    BY <2>1, <2>2, <2>4 DEF IInv, BridgePart, BridgeTypes
  <2>6. ViewMatchesCache'
    BY <1>2, <2>1, <2>4 DEF ViewMatchesCache, Shows
  <2>7. cmd.mode \in Modes \cup {"off", None}
    BY <2>1, CommandFields
  <2>8. Shows.mode \in Modes => lastActiveMode = Shows.mode
    BY <1>4 DEF IInv, BridgePart, LastModeKnown, Shows
  <2>9. Shows.applianceState = "on" /\ Shows.mode = "off" => lastActiveMode = None
    BY <1>4 DEF IInv, BridgePart, OnWithoutMode
  <2>10. LastModeKnown'
    <3>1. combined.mode \in Modes => seen = combined.mode
      BY <2>2, <2>3, <2>7, <2>8, ModesAreNames, Facts
    <3> QED BY <2>1, <2>4, <3>1 DEF LastModeKnown, Shows
  <2>11. OnWithoutMode'
    <3>1. combined.applianceState = "on" /\ combined.mode = "off" => seen = None
      BY <2>1, <2>2, <2>3, <2>7, <2>9, StateFields, ModesAreNames, Facts
    <3> QED BY <2>1, <2>4, <3>1 DEF OnWithoutMode, Shows
  <2> QED BY <1>1, <2>5, <2>6, <2>10, <2>11 DEF IInv, BridgePart
<1> QED BY <1>3, <1>4

-----------------------------------------------------------------------------
(* MQTT, Home Assistant, the cloud, the process.                           *)

LEMMA LinkInv ==
    ASSUME IInv, LinkDrops \/ LinkUp \/ HaStarts \/ BirthArrives \/ HoldExpires
    PROVE  IInv'
<1> USE DEF LinkDrops, LinkUp, HaStarts, BirthArrives, HoldExpires, republish, haVars
<1>1. CloudTypes' /\ PollPart' /\ FlagTypes' /\ SpentType' /\ CommandTypes'
  BY CloudFrame, PollFrame, SpentFrame, CommandFrame DEF IInv, FlagTypes, bridgeVars
<1>2. UNCHANGED <<cache, lastActiveMode>>
  BY DEF bridgeVars
<1>3. haView' = haView \/ (cache.kind # "none" /\ haView' = Shows)
  BY DEF Shows
<1>4. link' /\ haUp' /\ ~birth' =>
          (link /\ haUp /\ ~birth) \/ cache.kind = "none" \/ haView' = Shows
  BY DEF IInv, FlagTypes, Shows
<1> QED BY <1>1, <1>2, <1>3, <1>4, Republished DEF IInv

LEMMA HaStopsInv == ASSUME IInv, HaStops PROVE IInv'
<1>1. CloudTypes' /\ PollPart' /\ FlagTypes' /\ SpentType' /\ CommandTypes'
  BY CloudFrame, PollFrame, SpentFrame, CommandFrame DEF IInv, HaStops, FlagTypes, bridgeVars
<1>2. BridgePart'
  BY DEF HaStops, bridgeVars, IInv, BridgePart, BridgeTypes, ViewMatchesCache, LastModeKnown,
         OnWithoutMode, Shows, resolveCachedNormalizedState
<1> QED BY <1>1, <1>2 DEF IInv

LEMMA CloudInv == ASSUME IInv, CloudCatchesUp \/ ApplianceChanges PROVE IInv'
<1> USE DEF CloudCatchesUp, ApplianceChanges, bridgeVars, haVars
<1>1. PollPart' /\ FlagTypes' /\ SpentType' /\ CommandTypes' /\ BridgePart'
  BY PollFrame, SpentFrame, CommandFrame, BridgeFrame DEF IInv, FlagTypes
<1>2. CloudTypes'
  BY DEF IInv, CloudTypes
<1> QED BY <1>1, <1>2 DEF IInv

LEMMA ForgetInv == ASSUME IInv, CacheExpires \/ BridgeRestarts PROVE IInv'
<1> USE DEF CacheExpires, BridgeRestarts, haVars
<1>1. CloudTypes' /\ FlagTypes' /\ SpentType'
  BY CloudFrame, SpentFrame DEF IInv, FlagTypes
<1>2. PollPart' /\ CommandTypes'
  <2>1. CASE CacheExpires
    BY <2>1, PollFrame, CommandFrame DEF IInv
  <2>2. CASE BridgeRestarts
    BY <2>2 DEF PollPart, PollTypes, AnswersAreReports, CommandTypes
  <2> QED BY <2>1, <2>2
<1>3. cache' = NoEntry /\ NoEntry \in Entries /\ NoEntry.kind = "none"
  BY DEF Entries, NoEntry
<1>4. BridgePart'
  BY <1>3 DEF IInv, BridgePart, BridgeTypes, ViewMatchesCache, LastModeKnown, OnWithoutMode
<1> QED BY <1>1, <1>2, <1>4 DEF IInv

LEMMA NextIInv == IInv /\ [Next]_vars => IInv'
<1> SUFFICES ASSUME IInv, [Next]_vars PROVE IInv'
  OBVIOUS
<1>1. ASSUME NEW p \in Polls, Poll(p) PROVE IInv'
  BY <1>1, PollInv, PollAnsweredInv DEF Poll
<1>2. ASSUME NEW c \in Commanders, Command(c) PROVE IInv'
  BY <1>2, CommandArrivesInv, CommandSentInv, CommandAnsweredInv, CommandFailsInv DEF Command
<1>3. CASE HoldExpires \/ LinkDrops \/ LinkUp \/ HaStarts \/ BirthArrives
  BY <1>3, LinkInv
<1>4. CASE HaStops
  BY <1>4, HaStopsInv
<1>5. CASE CloudCatchesUp \/ ApplianceChanges
  BY <1>5, CloudInv
<1>6. CASE CacheExpires \/ BridgeRestarts
  BY <1>6, ForgetInv
<1>7. CASE UNCHANGED vars
  <2>1. CloudTypes' /\ PollPart' /\ CommandTypes' /\ BridgePart'
    BY <1>7, CloudFrame, PollFrame, CommandFrame, BridgeFrame
       DEF IInv, vars, cloudVars, pollVars, cmdVars
  <2>2. FlagTypes' /\ SpentType'
    BY <1>7 DEF IInv, vars, FlagTypes, SpentType
  <2> QED BY <2>1, <2>2 DEF IInv
<1> QED BY <1>1, <1>2, <1>3, <1>4, <1>5, <1>6, <1>7 DEF Next

-----------------------------------------------------------------------------
(* The results.                                                            *)

LEMMA Invariance == Spec => []IInv
BY InitIInv, NextIInv, PTL DEF Spec

\* The client, the broker's side and the cloud have their types.
THEOREM TypeCorrect == Spec => []TypeOK
<1>1. IInv => TypeOK
  BY TypeParts DEF IInv, BridgePart, PollPart
<1> QED BY <1>1, Invariance, PTL

\* However many polls and commands overlap, Home Assistant shows the cached state.
THEOREM ViewIsCached == Spec => []ViewMatchesCache
<1>1. IInv => ViewMatchesCache
  BY DEF IInv, BridgePart
<1> QED BY <1>1, Invariance, PTL

\* lastActiveMode is the mode of the cached state, if that has one.
THEOREM LastMode == Spec => []LastModeKnown
<1>1. IInv => LastModeKnown
  BY DEF IInv, BridgePart
<1> QED BY <1>1, Invariance, PTL

LEMMA FeedbackAgrees ==
    ASSUME IInv, NEW c \in Commanders, CommandAnswered(c), cache.kind # "none",
           NEW d \in Appliances,
           Obey(d, transformMqttCommandToApi(command[c])) = device,
           Shown(normalizeState(d)) = Shown(Shows),
           lastActiveMode = normalizeClimateMode[d.mode]
    PROVE  Shown(cache'.state) = Shown(normalizeState(device))
<1> DEFINE cmd == command[c]
           seen == SeenMode(cmd.mode)
           combined == Feedback(Shows, cmd, seen)
<1>1. /\ cmd \in Commands /\ Shows \in States /\ seen \in Modes \cup {None}
      /\ cache'.state = combined
  BY FeedbackFacts
<1>2. /\ combined.applianceState = IF cmd.mode = "off" THEN "off" ELSE "on"
      /\ combined.mode =
            IF \/ cmd.mode = "off" /\ seen # None
               \/ cmd.mode = None /\ Shows.applianceState = "off" /\ seen # None
            THEN seen ELSE IF cmd.mode # None THEN cmd.mode ELSE Shows.mode
      /\ combined.fanSpeedSetting = IF cmd.fanSpeedSetting = None THEN Shows.fanSpeedSetting
                                    ELSE cmd.fanSpeedSetting
  BY <1>1, FeedbackFields
<1>3. /\ device \in Appliances
      /\ device.applianceState = IF cmd.mode = "off" THEN "OFF" ELSE "RUNNING"
      /\ device.mode = IF cmd.mode \in Modes THEN denormalizeClimateMode[cmd.mode] ELSE d.mode
      /\ device.fanSpeedSetting = IF cmd.fanSpeedSetting = None THEN d.fanSpeedSetting
                                  ELSE denormalizeFanSpeed[cmd.fanSpeedSetting]
  BY <1>1, ObeyFields
<1>4. /\ d \in RawStates /\ device \in RawStates /\ d.mode \in ApiModes
      /\ lastActiveMode \in Modes /\ lastActiveMode # None
  BY <1>3, ApplianceFields, ModeNames, ModesAreNames
<1>5. /\ cmd.mode \in Modes \cup {"off", None} /\ cmd.fanSpeedSetting \in StateFans \cup {None}
      /\ Shows.applianceState \in {"on", "off"}
      /\ seen = IF cmd.mode \in Modes THEN cmd.mode ELSE lastActiveMode
  BY <1>1, CommandFields, StateFields DEF SeenMode
<1>6. normalizeState(d).fanSpeedSetting = Shows.fanSpeedSetting
      /\ (Shows.applianceState = "on" => Shows.mode = IF normalizeState(d).applianceState = "off"
                                                      THEN "off" ELSE normalizeState(d).mode)
  BY <1>5 DEF Shown
<1>7. combined.fanSpeedSetting = normalizeState(device).fanSpeedSetting
  <2>1. CASE cmd.fanSpeedSetting = None
    BY <1>2, <1>3, <1>4, <1>6, <2>1, NormalizeFields
  <2>2. CASE cmd.fanSpeedSetting # None
    BY <1>2, <1>3, <1>4, <1>5, <2>2, NormalizeFields, FanNames
  <2> QED BY <2>1, <2>2
<1>8. CASE cmd.mode = "off"
  <2>1. combined.applianceState = "off" /\ normalizeState(device).applianceState = "off"
    BY <1>2, <1>3, <1>4, <1>8, NormalizeFields
  <2> QED BY <1>1, <1>7, <2>1 DEF Shown
<1>9. CASE cmd.mode \in Modes
  <2>1. combined.applianceState = "on" /\ normalizeState(device).applianceState = "on"
    BY <1>2, <1>3, <1>4, <1>9, NormalizeFields, ModesAreNames
  <2>2. combined.mode = cmd.mode
    BY <1>2, <1>9, ModesAreNames
  <2>3. normalizeState(device).mode = cmd.mode
    BY <1>3, <1>4, <1>9, NormalizeFields, ModeNames
  <2> QED BY <1>1, <1>7, <2>1, <2>2, <2>3 DEF Shown
<1>10. CASE cmd.mode = None
  <2>1. combined.applianceState = "on" /\ normalizeState(device).applianceState = "on"
    BY <1>2, <1>3, <1>4, <1>10, NormalizeFields, Facts
  <2>2. normalizeState(device).mode = lastActiveMode
    BY <1>3, <1>4, <1>10, NormalizeFields, ModesAreNames
  <2>3. combined.mode = lastActiveMode
    <3>1. CASE Shows.applianceState = "off"
      BY <1>2, <1>4, <1>5, <1>10, <3>1, ModesAreNames
    <3>2. CASE Shows.applianceState = "on"
      <4>1. combined.mode = Shows.mode
        BY <1>2, <1>10, <3>2, Facts
      <4>2. Shows.mode # "off"
        BY <1>4, <3>2, Facts, ModesAreNames DEF IInv, BridgePart, OnWithoutMode,
           ViewMatchesCache, LastModeKnown
      <4>3. Shows.mode = normalizeState(d).mode
        BY <1>6, <3>2, <4>2
      <4> QED BY <1>4, <4>1, <4>3, NormalizeFields
    <3> QED BY <1>5, <3>1, <3>2
  <2> QED BY <1>1, <1>7, <2>1, <2>2, <2>3 DEF Shown
<1> QED BY <1>5, <1>8, <1>9, <1>10

\* Whatever a command finds, its feedback (buildCombinedCommandState and
\* deriveImmediateStateFromCommand) shows what its payload does.
THEOREM FeedbackRight == Spec => FeedbackAgreesWithDevice
<1>1. IInv /\ [Next]_vars =>
        [\A c \in Commanders :
           /\ CommandAnswered(c) /\ cache.kind # "none"
           /\ \E d \in Appliances :
                 /\ Obey(d, transformMqttCommandToApi(command[c])) = device
                 /\ Shown(normalizeState(d)) = Shown(resolveCachedNormalizedState(cache))
                 /\ lastActiveMode = normalizeClimateMode[d.mode]
           => Shown(cache'.state) = Shown(normalizeState(device))]_vars
  BY FeedbackAgrees DEF Shows
<1> QED BY <1>1, Invariance, PTL DEF Spec, FeedbackAgreesWithDevice

-----------------------------------------------------------------------------
(* What convergence rests on: a poll corrects what is shown, and what is   *)
(* right stays right.  That polls go on being answered is left to the      *)
(* fairness of Converges.                                                  *)

\* A poll that brings the appliance's state makes Home Assistant show it, also where
\* fetchAndProcessApplianceState finds no change and publishes nothing.
PollsCorrect ==
    [][\A p \in Polls :
         /\ PollAnswered(p) /\ answer[p] = Report(device)
         /\ link /\ haUp /\ ~birth
         => haView' = normalizeState(Report(device))]_vars

LEMMA PollCorrects ==
    ASSUME IInv, NEW p \in Polls, PollAnswered(p), answer[p] = Report(device),
           link, haUp, ~birth
    PROVE  haView' = normalizeState(Report(device))
<1> DEFINE fresh == normalizeState(answer[p])
<1>1. CASE cache.kind = "raw" /\ normalizeState(cache.state) = fresh
  <2>1. haView' = haView
    BY <1>1 DEF PollAnswered
  <2>2. haView = resolveCachedNormalizedState(cache)
    BY <1>1 DEF IInv, BridgePart, ViewMatchesCache
  <2> QED BY <1>1, <2>1, <2>2 DEF resolveCachedNormalizedState
<1>2. CASE ~(cache.kind = "raw" /\ normalizeState(cache.state) = fresh)
  BY <1>2 DEF PollAnswered, publish
<1> QED BY <1>1, <1>2

\* Whatever the cache held, the answer of a poll that saw the appliance as it is corrects
\* Home Assistant.
THEOREM PollsCorrectTheView == Spec => PollsCorrect
<1>1. IInv /\ [Next]_vars =>
        [\A p \in Polls :
           /\ PollAnswered(p) /\ answer[p] = Report(device)
           /\ link /\ haUp /\ ~birth
           => haView' = normalizeState(Report(device))]_vars
  BY PollCorrects
<1> QED BY <1>1, Invariance, PTL DEF Spec, PollsCorrect

\* The appliance, the cloud's copy, the polls in flight, the cache and Home Assistant are
\* at one, and no command is under way.
Settled ==
    /\ reported = device
    /\ \A p \in Polls : answer[p] # None => answer[p] = Report(device)
    /\ \A c \in Commanders : stage[c] = "idle"
    /\ cache = [kind |-> "raw", state |-> Report(device)]
    /\ link /\ haUp /\ haView = normalizeState(Report(device))

\* Only a command, a change of the appliance, an outage, a restart or the cache's expiry
\* takes Home Assistant's view away from the appliance again.
SettledStays == [][Settled => Settled' \/ spent' # spent]_vars

LEMMA Spends ==
    ASSUME IInv, \/ spent' = [spent EXCEPT !.commands = spent.commands + 1]
                 \/ spent' = [spent EXCEPT !.disturbances = spent.disturbances + 1]
    PROVE  spent' # spent
<1>1. spent.commands \in Nat /\ spent.disturbances \in Nat
      /\ DOMAIN spent = {"commands", "disturbances"}
  BY Facts DEF IInv, SpentType
<1> QED BY <1>1

LEMMA SettledStep == ASSUME IInv, Settled, [Next]_vars PROVE Settled' \/ spent' # spent
<1> DEFINE report == Report(device)
<1>1. resolveCachedNormalizedState(cache) = normalizeState(report) /\ cache.kind = "raw"
  BY DEF Settled, resolveCachedNormalizedState
<1>2. ASSUME NEW p \in Polls, Poll(p) PROVE Settled'
  <2>1. UNCHANGED <<device, reported, stage, link, haUp>>
    BY <1>2 DEF Poll, PollStarts, PollServed, PollAnswered, PollFails, cloudVars, cmdVars, haVars
  <2>2. CASE PollStarts(p)
    BY <2>1, <2>2 DEF Settled, PollStarts, bridgeVars
  <2>3. CASE PollServed(p)
    <3>1. answer' = [answer EXCEPT ![p] = report] /\ UNCHANGED <<cache, haView>>
      BY <2>3 DEF Settled, PollServed, bridgeVars
    <3>2. \A q \in Polls : answer'[q] # None => answer'[q] = report
      BY <3>1 DEF Settled, IInv, PollPart, PollTypes
    <3> QED BY <2>1, <3>1, <3>2 DEF Settled
  <2>4. CASE PollAnswered(p) \/ PollFails(p)
    <3>1. answer' = [answer EXCEPT ![p] = None]
      BY <2>4 DEF PollAnswered, PollFails, PollEnds
    <3>2. \A q \in Polls : answer'[q] # None => answer'[q] = report
      BY <3>1 DEF Settled, IInv, PollPart, PollTypes
    <3>3. UNCHANGED <<cache, haView>>
      <4>1. CASE PollAnswered(p)
        <5>1. answer[p] = report
          BY <4>1 DEF Settled, IInv, PollPart, PollTypes, PollAnswered
        <5>2. normalizeState(cache.state) = normalizeState(answer[p])
          BY <5>1 DEF Settled
        <5> QED BY <1>1, <4>1, <5>2 DEF PollAnswered
      <4>2. CASE PollFails(p)
        BY <4>2 DEF PollFails, bridgeVars
      <4> QED BY <2>4, <4>1, <4>2
    <3> QED BY <2>1, <3>2, <3>3 DEF Settled
  <2> QED BY <1>2, <2>2, <2>3, <2>4 DEF Poll
<1>3. ASSUME NEW c \in Commanders, Command(c) PROVE spent' # spent
  <2>1. stage[c] = "idle"
    BY DEF Settled
  <2>2. PICK cmd \in Commands : CommandArrives(c, cmd)
    BY <1>3, <2>1 DEF Command, CommandSent, CommandRetried, CommandApplied,
       CommandAnswered, CommandFails
  <2> QED BY <2>2, Spends DEF CommandArrives
<1>4. CASE HoldExpires
  BY <1>4 DEF Settled, HoldExpires, cloudVars, pollVars, cmdVars, haVars
<1>5. CASE BirthArrives
  <2>1. haView' = normalizeState(report)
    BY <1>1, <1>5 DEF BirthArrives, republish, Settled
  <2> QED BY <1>5, <2>1 DEF Settled, BirthArrives, cloudVars, bridgeVars, pollVars, cmdVars
<1>6. ASSUME LinkDrops \/ HaStops \/ ApplianceChanges \/ CacheExpires \/ BridgeRestarts
      PROVE  spent' # spent
  BY <1>6, Spends DEF LinkDrops, HaStops, ApplianceChanges, CacheExpires, BridgeRestarts,
     Disturbance
<1>7. ~(LinkUp \/ HaStarts \/ CloudCatchesUp)
  BY DEF Settled, LinkUp, HaStarts, CloudCatchesUp
<1>8. CASE UNCHANGED vars
  BY <1>8 DEF Settled, vars
<1> QED BY <1>2, <1>3, <1>4, <1>5, <1>6, <1>7, <1>8 DEF Next

\* Overlapping polls, late answers and births never undo a view that is right.
THEOREM SettledIsKept == Spec => SettledStays
<1>1. IInv /\ [Next]_vars => [Settled => Settled' \/ spent' # spent]_vars
  BY SettledStep
<1> QED BY <1>1, Invariance, PTL DEF Spec, SettledStays
=============================================================================
