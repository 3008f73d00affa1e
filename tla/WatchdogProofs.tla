--------------------------- MODULE WatchdogProofs ---------------------------
(* Proofs about Watchdog: its types, that it never exits early, and that   *)
(* the health file is fresh in quiet times.                                *)
EXTENDS Watchdog, TLAPS

\* Polls are counted by appliance, whether they wait or are in flight.
PollsBounded == \A a \in Appliances : waiting[a] + asked[a] <= MaxPolls

\* The watchdog's clock was reset by each answer, and perhaps by a skipped poll.
ClockIsRecent == sinceSuccess <= sinceContact

IInv == TypeOK /\ PollsBounded /\ ClockIsRecent /\ NoRestartWhileAnswered

\* An age and its bound.
LEMMA OlderBounds ==
    ASSUME NEW bound \in Nat, NEW age \in 0 .. bound
    PROVE  Older(age, bound) \in 0 .. bound /\ age <= Older(age, bound)
  BY SMT DEF Older

\* Ages count at least as far as the threshold.
LEMMA Bounds == MaxAge \in Nat /\ Threshold \in Nat /\ Threshold <= MaxAge
                /\ Refresh \in Nat /\ Delay \in Nat /\ MaxPolls \in Nat /\ MaxCommands \in Nat
  BY WatchdogAssumption, SMT DEF MaxAge

\* The two parts of TypeOK, which different provers are good at.
Counted ==
    /\ timer \in [Appliances -> 0 .. Refresh]
    /\ waiting \in [Appliances -> 0 .. MaxPolls]
    /\ asked \in [Appliances -> 0 .. MaxPolls]
    /\ cached \in [Appliances -> {"none", "raw", "normalized"}]
    /\ sinceCommand \in [Appliances -> 0 .. Delay]
    /\ put \in [Appliances -> {"no", "sent", "resent"}]
    /\ sinceSuccess \in 0 .. MaxAge /\ sinceContact \in 0 .. MaxAge
    /\ fileAge \in 0 .. Refresh + 1 /\ calm \in 0 .. Refresh + 1
    /\ commands \in 0 .. MaxCommands

Flags == /\ exited \in BOOLEAN /\ failed \in BOOLEAN
         /\ api \in BOOLEAN /\ gateOpen \in BOOLEAN /\ link \in BOOLEAN

LEMMA TypeParts == TypeOK <=> Counted /\ Flags
  BY DEF TypeOK, Counted, Flags

\* One poll of an appliance less in flight keeps the others' counts.
LEMMA OnePollEnds ==
    ASSUME TypeOK, PollsBounded, NEW a \in Appliances, asked[a] > 0,
           asked' = [asked EXCEPT ![a] = @ - 1], UNCHANGED waiting
    PROVE  PollsBounded' /\ asked' \in [Appliances -> 0 .. MaxPolls]
  <1> USE Bounds DEF TypeOK
  <1>1. asked' \in [Appliances -> 0 .. MaxPolls] BY SMT
  <1>2. \A b \in Appliances : asked'[b] <= asked[b] BY SMT
  <1> QED BY <1>1, <1>2, SMT DEF PollsBounded

LEMMA InitIInv == Init => IInv
  <1> USE DEF Init, IInv
  <1> SUFFICES ASSUME Init PROVE IInv OBVIOUS
  <1>1. Counted BY Bounds, SMT DEF Counted
  <1>2. Flags
    <2>1. (sinceSuccess > 0) \in BOOLEAN OBVIOUS
    <2> QED BY <2>1 DEF Flags
  <1>3. PollsBounded
    <2>1. \A a \in Appliances : waiting[a] = 0 /\ asked[a] = 0 OBVIOUS
    <2>2. 0 + 0 <= MaxPolls BY Bounds, SMT
    <2> HIDE DEF Init
    <2> QED BY <2>1, <2>2 DEF PollsBounded
  <1>4. ClockIsRecent BY Bounds, SMT DEF ClockIsRecent
  <1> QED BY <1>1, <1>2, <1>3, <1>4, TypeParts DEF NoRestartWhileAnswered

\* What the result handler changes: the clock, the flag and the file's age.
LEMMA HandleFacts ==
    ASSUME TypeOK, NEW defined \in BOOLEAN, Handle(defined)
    PROVE  /\ sinceSuccess' \in 0 .. MaxAge /\ fileAge' \in 0 .. Refresh + 1
           /\ exited' \in BOOLEAN
           /\ sinceSuccess' <= sinceSuccess /\ (defined => sinceSuccess' = 0)
           /\ exited' => ~defined /\ sinceSuccess >= Threshold
  <1>1. trackApiResult(defined) /\ writeHealthStatus BY DEF Handle
  <1>2. sinceSuccess' \in 0 .. MaxAge /\ sinceSuccess' <= sinceSuccess
        /\ (defined => sinceSuccess' = 0)
    BY <1>1, Bounds, SMT DEF trackApiResult, TypeOK
  <1>3. exited' \in BOOLEAN /\ (exited' => ~defined /\ sinceSuccess >= Threshold)
    BY <1>1 DEF trackApiResult
  <1>4. fileAge' \in 0 .. Refresh + 1
    BY <1>1, Bounds, SMT DEF writeHealthStatus, writeHealthFile, TypeOK
  <1> QED BY <1>2, <1>3, <1>4

LEMMA NextIInv == IInv /\ [Next]_vars => IInv'
  <1> SUFFICES ASSUME IInv, [Next]_vars PROVE IInv' OBVIOUS
  <1> USE DEF IInv
  <1>a. ASSUME NEW a \in Appliances, PollSkipped(a) PROVE IInv'
    <2> (cached[a] = "raw") \in BOOLEAN OBVIOUS
    <2>1. Handle(cached[a] = "raw") BY <1>a DEF PollSkipped
    <2>2. sinceSuccess' \in 0 .. MaxAge /\ fileAge' \in 0 .. Refresh + 1 /\ exited' \in BOOLEAN
          /\ sinceSuccess' <= sinceSuccess /\ (exited' => sinceSuccess >= Threshold)
      BY <2>1, HandleFacts
    <2>3. TypeOK'
      BY <1>a, <2>2, Bounds, SMT DEF PollSkipped, TypeOK, cmdVars, envVars
    <2>4. PollsBounded' BY <1>a DEF PollSkipped, PollsBounded
    <2>5. ClockIsRecent' /\ NoRestartWhileAnswered'
      BY <1>a, <2>2, Bounds, SMT DEF PollSkipped, TypeOK, ClockIsRecent, NoRestartWhileAnswered
    <2> QED BY <2>3, <2>4, <2>5
  <1>b. ASSUME NEW a \in Appliances, PollStarts(a) PROVE IInv'
    <2> USE <1>b, Bounds DEF PollStarts
    <2>1. TypeOK' BY SMT DEF TypeOK, PollsBounded, cmdVars, envVars
    <2>2. PollsBounded' BY SMT DEF PollsBounded, TypeOK
    <2>3. ClockIsRecent' /\ NoRestartWhileAnswered'
      BY DEF ClockIsRecent, NoRestartWhileAnswered
    <2> QED BY <2>1, <2>2, <2>3
  <1>c. ASSUME NEW a \in Appliances, PollAnswered(a) PROVE IInv'
    <2>1. Handle(TRUE) BY <1>c DEF PollAnswered
    <2>2. sinceSuccess' = 0 /\ fileAge' \in 0 .. Refresh + 1 /\ exited' = FALSE
      BY <2>1, HandleFacts
    <2>4. PollsBounded' /\ asked' \in [Appliances -> 0 .. MaxPolls]
      BY <1>c, OnePollEnds DEF PollAnswered
    <2>6. cached' \in [Appliances -> {"none", "raw", "normalized"}]
      BY <1>c, SMT DEF PollAnswered, TypeOK
    <2>3. TypeOK'
      <3>1. Counted' BY <1>c, <2>2, <2>4, <2>6, Bounds, SMT DEF PollAnswered, TypeOK, Counted, envVars
      <3>2. Flags' BY <1>c, <2>2 DEF PollAnswered, TypeOK, Flags, envVars
      <3> QED BY <3>1, <3>2 DEF Counted, Flags, TypeOK
    <2>5. ClockIsRecent' /\ NoRestartWhileAnswered'
      BY <1>c, <2>2, SMT DEF PollAnswered, ClockIsRecent, NoRestartWhileAnswered
    <2> QED BY <2>3, <2>4, <2>5
  <1>d. ASSUME NEW a \in Appliances, PollFails(a) PROVE IInv'
    <2>1. Handle(FALSE) BY <1>d DEF PollFails
    <2>2. sinceSuccess' \in 0 .. MaxAge /\ fileAge' \in 0 .. Refresh + 1 /\ exited' \in BOOLEAN
          /\ sinceSuccess' <= sinceSuccess /\ (exited' => sinceSuccess >= Threshold)
      BY <2>1, HandleFacts
    <2>3. TypeOK'
      BY <1>d, <2>2, Bounds, SMT DEF PollFails, TypeOK, cmdVars, envVars
    <2>4. PollsBounded' BY <1>d, OnePollEnds DEF PollFails
    <2>5. ClockIsRecent' /\ NoRestartWhileAnswered'
      BY <1>d, <2>2, Bounds, SMT DEF PollFails, TypeOK, ClockIsRecent, NoRestartWhileAnswered
    <2> QED BY <2>3, <2>4, <2>5
  <1>e. ASSUME NEW a \in Appliances, PollRefused(a) PROVE IInv'
    <2> USE <1>e, Bounds DEF PollRefused
    <2>1. TypeOK'
      <3>1. Counted' BY SMT DEF TypeOK, Counted, PollsBounded, cmdVars
      <3>2. Flags' BY DEF TypeOK, Flags, cmdVars
      <3> QED BY <3>1, <3>2 DEF Counted, Flags, TypeOK
    <2>2. PollsBounded' BY SMT DEF PollsBounded, TypeOK
    <2>3. ClockIsRecent' /\ NoRestartWhileAnswered'
      BY DEF ClockIsRecent, NoRestartWhileAnswered
    <2> QED BY <2>1, <2>2, <2>3
  <1>f. ASSUME NEW a \in Appliances, Command(a) \/ CacheExpires(a) PROVE IInv'
    <2> USE <1>f, Bounds DEF Command, CommandSent, CommandAnswered, CommandFails, CacheExpires,
                       pollVars, envVars
    <2>1. TypeOK'
      <3>1. Counted' BY SMT DEF TypeOK, Counted
      <3>2. Flags' BY DEF TypeOK, Flags
      <3> QED BY <3>1, <3>2 DEF Counted, Flags, TypeOK
    <2>2. PollsBounded' BY DEF PollsBounded
    <2>3. ClockIsRecent' /\ NoRestartWhileAnswered'
      BY DEF ClockIsRecent, NoRestartWhileAnswered
    <2> QED BY <2>1, <2>2, <2>3
  <1>g. CASE TroubleStarts \/ TroubleEnds
    <2> USE <1>g, Bounds DEF TroubleStarts, TroubleEnds, pollVars, cmdVars
    <2>1. TypeOK'
      <3>1. Counted' BY SMT DEF TypeOK, Counted
      <3>2. Flags' BY DEF TypeOK, Flags
      <3> QED BY <3>1, <3>2 DEF Counted, Flags, TypeOK
    <2>2. PollsBounded' BY DEF PollsBounded
    <2>3. ClockIsRecent' /\ NoRestartWhileAnswered'
      BY DEF ClockIsRecent, NoRestartWhileAnswered
    <2> QED BY <2>1, <2>2, <2>3
  <1>h. CASE GateOpens
    <2> USE <1>h, Bounds DEF GateOpens
    <2>1. TypeOK'
      <3>1. Counted' BY SMT DEF TypeOK, Counted, PollsBounded, cmdVars
      <3>2. Flags' BY DEF TypeOK, Flags, cmdVars
      <3> QED BY <3>1, <3>2 DEF Counted, Flags, TypeOK
    <2>2. PollsBounded' BY SMT DEF PollsBounded, TypeOK
    <2>3. ClockIsRecent' /\ NoRestartWhileAnswered'
      BY DEF ClockIsRecent, NoRestartWhileAnswered
    <2> QED BY <2>1, <2>2, <2>3
  <1>i. CASE Tick
    <2>1. sinceSuccess' \in 0 .. MaxAge /\ sinceContact' \in 0 .. MaxAge
          /\ fileAge' \in 0 .. Refresh + 1 /\ calm' \in 0 .. Refresh + 1
      BY <1>i, Bounds, SMT DEF Tick, TypeOK, Older
    <2>2. sinceCommand' \in [Appliances -> 0 .. Delay] /\ timer' \in [Appliances -> 0 .. Refresh]
      BY <1>i, Bounds, SMT DEF Tick, TypeOK, Older
    <2>3. TypeOK' BY <1>i, <2>1, <2>2 DEF Tick, TypeOK, envVars
    <2>4. PollsBounded' BY <1>i DEF Tick, PollsBounded
    <2>5. ClockIsRecent' /\ NoRestartWhileAnswered'
      BY <1>i, Bounds, SMT DEF Tick, TypeOK, Older, ClockIsRecent, NoRestartWhileAnswered
    <2> QED BY <2>3, <2>4, <2>5
  <1>j. CASE UNCHANGED vars
    BY <1>j DEF vars, TypeOK, PollsBounded, ClockIsRecent, NoRestartWhileAnswered
  <1> QED BY <1>a, <1>b, <1>c, <1>d, <1>e, <1>f, <1>g, <1>h, <1>i, <1>j DEF Next, Poll

\* The inductive invariant holds in every reachable state of Watchdog.
THEOREM Invariance == Spec => []IInv
  BY InitIInv, NextIInv, PTL DEF Spec

\* Every variable of Watchdog keeps its type.
THEOREM TypeCorrect == Spec => []TypeOK
  <1>1. IInv => TypeOK BY DEF IInv
  <1> QED BY <1>1, Invariance, PTL

\* The process does not exit within the threshold of an answered poll
\* (trackApiResult), for any number of appliances, interval, delay and threshold.
THEOREM NoEarlyRestart == Spec => []NoRestartWhileAnswered
  <1>1. IInv => NoRestartWhileAnswered BY DEF IInv
  <1> QED BY <1>1, Invariance, PTL

-----------------------------------------------------------------------------
(* The health file.                                                        *)

\* Every disturbance starts the count of calm ticks again.
CalmIsCalm == calm > 0 => Calm

\* Since an appliance's interval fired last, either it has not been calm for
\* longer, or its poll has refreshed the file; a poll in flight may still do so.
FileFollowsTimer ==
    healthCheckEnabled => \A a \in Appliances :
        asked[a] = 0 => calm + timer[a] <= Refresh \/ fileAge + timer[a] <= Refresh

HealthInv == CalmIsCalm /\ FileFollowsTimer /\ HealthyWhenCalm

LEMMA InitHealth == Init => HealthInv
  <1> SUFFICES ASSUME Init PROVE HealthInv OBVIOUS
  <1>1. CalmIsCalm BY DEF Init, CalmIsCalm
  <1>2. FileFollowsTimer BY Bounds, SMT DEF Init, FileFollowsTimer
  <1>3. HealthyWhenCalm BY Bounds, SMT DEF Init, HealthyWhenCalm
  <1> QED BY <1>1, <1>2, <1>3 DEF HealthInv

\* Where nothing is calm any more, or nothing has been yet, the file is free.
LEMMA NotCalm == ASSUME TypeOK', calm' = 0 PROVE HealthInv'
  <1>1. CalmIsCalm' BY SMT DEF CalmIsCalm
  <1>2. FileFollowsTimer'
    <2>1. \A a \in Appliances : calm' + timer'[a] <= Refresh
      BY Bounds, SMT DEF TypeOK
    <2> QED BY <2>1 DEF FileFollowsTimer
  <1>3. HealthyWhenCalm' BY Bounds, SMT DEF HealthyWhenCalm
  <1> QED BY <1>1, <1>2, <1>3 DEF HealthInv

\* An answer while it is calm is written down.
LEMMA AnswerRefreshes ==
    ASSUME TypeOK, Handle(TRUE), link, UNCHANGED link, healthCheckEnabled
    PROVE  fileAge' = 0
  <1>1. sinceSuccess' = 0 /\ exited' = FALSE BY DEF Handle, trackApiResult
  <1>2. sinceSuccess' < 3 * Refresh BY <1>1, Bounds, WatchdogAssumption, SMT
  <1> QED BY <1>1, <1>2 DEF Handle, writeHealthStatus, writeHealthFile

LEMMA TickHealth == ASSUME IInv, TypeOK', HealthInv, Tick PROVE HealthInv'
  <1> USE Bounds DEF IInv
  <1>1. CASE ~Calm BY <1>1, NotCalm DEF Tick
  <1>2. CASE Calm
    <2>1. calm' = Older(calm, Refresh + 1) /\ fileAge' = Older(fileAge, Refresh + 1)
      BY <1>2 DEF Tick
    <2>2. CalmIsCalm'
      <3>1. UNCHANGED envVars /\ \A a \in Appliances : sinceCommand'[a] >= Delay
        BY <1>2, SMT DEF Tick, Calm, TypeOK, Older
      <3> QED BY <1>2, <3>1 DEF CalmIsCalm, Calm, envVars
    <2>3. ASSUME healthCheckEnabled, NEW a \in Appliances
          PROVE  calm' + timer'[a] <= Refresh \/ fileAge' + timer'[a] <= Refresh
      <3>1. asked[a] = 0 /\ timer[a] > 0 /\ timer'[a] = timer[a] - 1 BY <2>3 DEF Tick
      <3>2. calm + timer[a] <= Refresh \/ fileAge + timer[a] <= Refresh
        BY <2>3, <3>1 DEF HealthInv, FileFollowsTimer
      <3>3. timer[a] \in Nat /\ calm \in Nat /\ fileAge \in Nat BY <2>3, SMT DEF TypeOK
      <3> QED BY <2>1, <3>1, <3>2, <3>3, SMT DEF Older
    <2>4. HealthyWhenCalm'
      <3> SUFFICES ASSUME healthCheckEnabled, calm' > Refresh PROVE fileAge' <= Refresh
        BY DEF HealthyWhenCalm
      <3>1. PICK a \in Appliances : TRUE BY WatchdogAssumption
      <3>2. timer'[a] \in Nat BY SMT DEF TypeOK
      <3>3. calm' \in Nat /\ fileAge' \in Nat BY SMT DEF TypeOK
      <3> QED BY <2>3, <3>1, <3>2, <3>3, SMT
    <2> QED BY <2>2, <2>3, <2>4 DEF HealthInv, FileFollowsTimer
  <1> QED BY <1>1, <1>2

\* The steps of an appliance's polls.
LEMMA PollHealth ==
    ASSUME IInv, TypeOK', HealthInv, NEW a \in Appliances, Poll(a)
    PROVE  HealthInv'
  <1> USE Bounds DEF IInv
  <1>1. CASE PollSkipped(a)
    <2>1. ~Calm BY <1>1, SMT DEF PollSkipped, Calm, TypeOK
    <2>2. calm' = 0 BY <1>1, <2>1, SMT DEF HealthInv, CalmIsCalm, PollSkipped, TypeOK
    <2> QED BY <2>2, NotCalm
  <1>2. CASE PollFails(a) \/ PollRefused(a)
    BY <1>2, NotCalm DEF PollFails, PollRefused
  <1>3. CASE PollStarts(a)
    <2>1. CASE gateOpen
      <3>1. CalmIsCalm' /\ HealthyWhenCalm'
        BY <1>3, <2>1 DEF PollStarts, HealthInv, CalmIsCalm, Calm, HealthyWhenCalm, cmdVars, envVars
      <3>2. asked'[a] > 0 BY <1>3, <2>1, SMT DEF PollStarts, TypeOK
      <3>3. \A b \in Appliances : b # a => asked'[b] = asked[b] /\ timer'[b] = timer[b]
        BY <1>3, <2>1 DEF PollStarts, TypeOK
      <3>4. FileFollowsTimer'
        BY <1>3, <3>2, <3>3 DEF PollStarts, HealthInv, FileFollowsTimer
      <3> QED BY <3>1, <3>4 DEF HealthInv
    <2>2. CASE ~gateOpen
      <3>1. calm' = 0
        BY <1>3, <2>2, SMT DEF PollStarts, HealthInv, CalmIsCalm, Calm, TypeOK
      <3> QED BY <3>1, NotCalm
    <2> QED BY <2>1, <2>2
  <1>4. CASE PollAnswered(a)
    <2>1. CASE calm = 0 BY <1>4, <2>1, NotCalm DEF PollAnswered
    <2>2. CASE calm # 0
      <3>1. Calm BY <2>2, SMT DEF HealthInv, CalmIsCalm, TypeOK
      <3>2. CalmIsCalm' BY <1>4, <3>1 DEF PollAnswered, CalmIsCalm, Calm, envVars
      <3>3. healthCheckEnabled => fileAge' = 0
        BY <1>4, <3>1, AnswerRefreshes DEF PollAnswered, Calm, envVars
      <3>4. \A b \in Appliances : timer'[b] <= Refresh BY SMT DEF TypeOK
      <3>5. FileFollowsTimer'
        <4>1. \A b \in Appliances : timer'[b] \in Nat BY SMT DEF TypeOK
        <4> QED BY <3>3, <3>4, <4>1, SMT DEF FileFollowsTimer
      <3>6. HealthyWhenCalm' BY <3>3, SMT DEF HealthyWhenCalm
      <3> QED BY <3>2, <3>5, <3>6 DEF HealthInv
    <2> QED BY <2>1, <2>2
  <1> QED BY <1>1, <1>2, <1>3, <1>4 DEF Poll

LEMMA NextHealth == IInv /\ HealthInv /\ [Next]_vars => HealthInv'
  <1> SUFFICES ASSUME IInv, HealthInv, [Next]_vars PROVE HealthInv' OBVIOUS
  <1>0. TypeOK' BY NextIInv DEF IInv
  <1>1. CASE Tick BY <1>0, <1>1, TickHealth
  <1>2. ASSUME NEW a \in Appliances, Poll(a) PROVE HealthInv' BY <1>0, <1>2, PollHealth
  <1>3. ASSUME NEW a \in Appliances, CommandSent(a) PROVE HealthInv'
    BY <1>0, <1>3, NotCalm DEF CommandSent
  <1>4. CASE TroubleStarts BY <1>0, <1>4, NotCalm DEF TroubleStarts
  <1>5. ASSUME UNCHANGED <<timer, asked, sinceCommand, fileAge, calm>>,
               TroubleEnds \/ UNCHANGED envVars
        PROVE  HealthInv'
    BY <1>5 DEF TroubleEnds, HealthInv, CalmIsCalm, Calm, FileFollowsTimer, HealthyWhenCalm, envVars
  <1>6. ASSUME NEW a \in Appliances, CommandAnswered(a) \/ CommandFails(a) \/ CacheExpires(a)
        PROVE  HealthInv'
    BY <1>5, <1>6 DEF CommandAnswered, CommandFails, CacheExpires, pollVars
  <1>7. CASE GateOpens
    <2>1. calm' = 0
      BY <1>7, SMT DEF GateOpens, HealthInv, CalmIsCalm, Calm, IInv, TypeOK
    <2> QED BY <1>0, <2>1, NotCalm
  <1>8. CASE TroubleEnds BY <1>5, <1>8 DEF TroubleEnds, pollVars, cmdVars
  <1>9. CASE UNCHANGED vars BY <1>5, <1>9 DEF vars, envVars
  <1> QED BY <1>1, <1>2, <1>3, <1>4, <1>6, <1>7, <1>8, <1>9 DEF Next, Command

\* When nothing has gone wrong for more than a refresh interval, the health file
\* (writeHealthStatus) is at most one interval old, for any number of appliances
\* whose intervals are in any phase.
THEOREM FileIsFresh == Spec => []HealthyWhenCalm
  <1>1. HealthInv => HealthyWhenCalm BY DEF HealthInv
  <1> QED BY <1>1, InitHealth, NextHealth, Invariance, PTL DEF Spec

-----------------------------------------------------------------------------
(* What a restart without a failed request takes.                          *)

\* No appliance is within its command delay.
NoDelay == commands = 0 /\ \A a \in Appliances : put[a] = "no" /\ sinceCommand[a] = Delay

\* Without commands no poll is skipped, and the process exits only after a request that
\* has failed: the restarts that the documentation does not speak of ("sustained API
\* failure", config.example.yml) are those of polls skipped within the delay of a
\* command (getApplianceState, electrolux.ts).
THEOREM RestartsAreFailures ==
    ASSUME MaxCommands = 0
    PROVE  Spec => []RestartMeansApiFailure
  <1> DEFINE FInv == NoDelay /\ RestartMeansApiFailure
  <1>1. Init => FInv
    BY DEF Init, NoDelay, RestartMeansApiFailure
  <1>2. IInv /\ FInv /\ [Next]_vars => FInv'
    <2> SUFFICES ASSUME IInv, FInv, [Next]_vars PROVE FInv' OBVIOUS
    <2>1. CASE UNCHANGED vars
      BY <2>1 DEF vars, NoDelay, RestartMeansApiFailure
    <2>2. ASSUME NEW a \in Appliances, PollSkipped(a) \/ CommandSent(a) PROVE FALSE
      BY <2>2, WatchdogAssumption DEF PollSkipped, CommandSent, NoDelay
    <2>3. ASSUME NEW a \in Appliances,
                 \/ PollStarts(a) \/ PollRefused(a) \/ CommandAnswered(a) \/ CommandFails(a)
                 \/ CacheExpires(a)
          PROVE  FInv'
      BY <2>3 DEF PollStarts, PollRefused, CommandAnswered, CommandFails, CacheExpires,
         NoDelay, RestartMeansApiFailure, cmdVars, envVars, pollVars
    <2>4. ASSUME NEW a \in Appliances, PollAnswered(a) \/ PollFails(a)
          PROVE  FInv'
      BY <2>4 DEF PollAnswered, PollFails, Handle, trackApiResult, NoDelay,
         RestartMeansApiFailure, cmdVars
    <2>5. CASE TroubleStarts \/ TroubleEnds \/ GateOpens
      BY <2>5 DEF TroubleStarts, TroubleEnds, GateOpens, NoDelay, RestartMeansApiFailure, cmdVars
    <2>6. CASE Tick
      BY <2>6, WatchdogAssumption DEF Tick, Older, NoDelay, RestartMeansApiFailure
    <2> QED BY <2>1, <2>2, <2>3, <2>4, <2>5, <2>6 DEF Next, Poll, Command
  <1>3. FInv => RestartMeansApiFailure
    OBVIOUS
  <1> QED BY <1>1, <1>2, <1>3, Invariance, PTL DEF Spec
=============================================================================
