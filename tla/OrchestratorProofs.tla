------------------------- MODULE OrchestratorProofs -------------------------
(***************************************************************************)
(* Proofs about Orchestrator, for any number of appliances and overlapping *)
(* runs and every grace period: its type invariant, that absences are      *)
(* those of managed appliances, that nobody is removed early, that managed *)
(* appliances are polled, that command handlers follow them, and that what *)
(* is settled between the account and the bridge stays so.                 *)
(***************************************************************************)
EXTENDS Orchestrator, SequenceTheorems, TLAPS

LEMMA Facts == /\ Grace \in Nat /\ Grace > 0 /\ MaxChains \in Nat /\ MaxDisturbances \in Nat
               /\ Main \notin Discoveries /\ None \notin Runs /\ None \notin Ages
               /\ Main \in Runs /\ Discoveries \subseteq Runs
BY OrchestratorAssumption DEF Ages, Runs

-----------------------------------------------------------------------------
(* The inductive invariant.                                                *)

Labels == {"idle", "asked", "served", "init", "sub", "done"}

\* The parts of the type invariant.
PlainTypes == /\ {account, instances, handlers, announced, matched} \subseteq SUBSET Appliances
              /\ list \in [Runs -> SUBSET Appliances] /\ todo \in [Runs -> SUBSET Appliances]
              /\ link \in BOOLEAN /\ birthSub \in {"no", "pending", "yes", "failed"}
              /\ spent \in 0 .. MaxDisturbances
ChainTypes == /\ timers \in [Appliances -> 0 .. MaxChains]
              /\ firsts \in [Appliances -> 0 .. MaxChains]
              /\ intervals \in [Appliances -> 0 .. MaxChains]
              /\ tracked \in SUBSET Appliances
AgeTypes == missing \in [Appliances -> Ages \cup {None}] /\ unlisted \in [Appliances -> Ages]
RunTypes == pc \in [Runs -> Labels] /\ ops \in [Appliances -> Seq(Runs \cup {None})]

LEMMA TypeParts == TypeOK <=> PlainTypes /\ ChainTypes /\ AgeTypes /\ RunTypes
BY DEF TypeOK, PlainTypes, ChainTypes, AgeTypes, RunTypes, Labels

\* Only a run that finds the bound not reached starts another chain.
ChainsBounded == \A a \in Appliances : timers[a] + firsts[a] + intervals[a] <= MaxChains

\* An absence is no older than the last list with the appliance.
AbsenceIsUnlisted == \A a \in Appliances : missing[a] # None => missing[a] <= unlisted[a]

\* Until main is done no discovery runs, and no absence is timed.
StartupIsAlone ==
    pc[Main] # "done" => /\ \A r \in Discoveries : pc[r] = "idle"
                         /\ \A a \in Appliances : missing[a] = None

\* A subscribe call not acknowledged is awaited by its run, which makes one at a time.
AwaitedOnce ==
    /\ \A a \in Appliances : \A i \in 1 .. Len(ops[a]) : ops[a][i] # None => pc[ops[a][i]] = "sub"
    /\ \A a, b \in Appliances : \A i \in 1 .. Len(ops[a]), j \in 1 .. Len(ops[b]) :
          ops[a][i] # None /\ ops[a][i] = ops[b][j] => a = b /\ i = j

ChainPart == ChainTypes /\ ChainsBounded /\ ManagedIsPolled
AgePart   == AgeTypes /\ MissingAreManaged /\ AbsenceIsUnlisted
RunPart   == RunTypes /\ StartupIsAlone /\ AwaitedOnce
IInv == PlainTypes /\ ChainPart /\ AgePart /\ RunPart /\ HandlerFollowsInstance

-----------------------------------------------------------------------------
(* Sequences of calls.                                                     *)

LEMMA AppendFacts ==
    ASSUME NEW S, NEW s \in Seq(S), NEW e \in S
    PROVE  /\ Append(s, e) \in Seq(S) /\ Append(s, e) # <<>>
           /\ Last(Append(s, e)) = e
           /\ Len(Append(s, e)) = Len(s) + 1
           /\ \A i \in 1 .. Len(s) : Append(s, e)[i] = s[i]
           /\ Append(s, e)[Len(s) + 1] = e
BY DEF Last

LEMMA TailFacts ==
    ASSUME NEW S, NEW s \in Seq(S), s # <<>>
    PROVE  /\ Tail(s) \in Seq(S) /\ Head(s) \in S /\ Head(s) = s[1]
           /\ Len(s) \in Nat \ {0} /\ Len(Tail(s)) = Len(s) - 1
           /\ \A i \in 1 .. Len(Tail(s)) : Tail(s)[i] = s[i + 1] /\ i + 1 \in 1 .. Len(s)
           /\ Tail(s) = <<>> => Last(s) = Head(s)
           /\ Tail(s) # <<>> => Last(Tail(s)) = Last(s)
<1>1. Len(s) \in Nat \ {0} /\ Tail(s) \in Seq(S) /\ Len(Tail(s)) = Len(s) - 1
  OBVIOUS
<1>2. Head(s) \in S /\ Head(s) = s[1]
  OBVIOUS
<1>3. ASSUME NEW i \in 1 .. Len(Tail(s))
      PROVE  Tail(s)[i] = s[i + 1] /\ i + 1 \in 1 .. Len(s)
  BY <1>1, <1>3
<1>4. CASE Len(s) = 1
  <2>1. Tail(s) = <<>>
    <3>1. Tail(s) # <<>> => Len(Tail(s)) \in Nat \ {0}
      BY <1>1, EmptySeq
    <3> QED BY <1>1, <1>4, <3>1
  <2> QED BY <1>1, <1>2, <1>3, <1>4, <2>1 DEF Last
<1>5. CASE Len(s) # 1
  <2>1. Len(Tail(s)) \in 1 .. Len(Tail(s)) /\ Len(Tail(s)) + 1 = Len(s)
    BY <1>1, <1>5
  <2>2. Tail(s)[Len(Tail(s))] = s[Len(s)]
    BY <1>3, <2>1
  <2>3. Last(Tail(s)) = Last(s) /\ Tail(s) # <<>>
    <3>1. Len(Tail(s)) # 0
      BY <1>1, <1>5
    <3>2. Tail(s) # <<>>
      BY <1>1, <3>1, EmptySeq
    <3> QED BY <2>2, <3>2 DEF Last
  <2> QED BY <1>1, <1>2, <1>3, <2>3
<1> QED BY <1>1, <1>2, <1>3, <1>4, <1>5

LEMMA AwaitedTwice ==
    ASSUME AwaitedOnce, NEW a \in Appliances, NEW b \in Appliances,
           NEW i \in 1 .. Len(ops[a]), NEW j \in 1 .. Len(ops[b]),
           ops[a][i] # None, ops[a][i] = ops[b][j]
    PROVE  a = b /\ i = j
BY DEF AwaitedOnce

-----------------------------------------------------------------------------
LEMMA InitIInv == Init => IInv
<1> SUFFICES ASSUME Init PROVE IInv
  OBVIOUS
<1> USE Facts
<1>1. PlainTypes
  <2>1. {account, instances, handlers, announced, matched} \subseteq SUBSET Appliances
    <3>1. account \in SUBSET Appliances /\ instances = {} /\ handlers = {}
          /\ announced = {} /\ matched = {}
      BY DEF Init
    <3> QED BY <3>1
  <2>2. list \in [Runs -> SUBSET Appliances] /\ todo \in [Runs -> SUBSET Appliances]
    BY DEF Init
  <2>3. link \in BOOLEAN /\ birthSub \in {"no", "pending", "yes", "failed"}
    BY DEF Init
  <2>4. spent \in 0 .. MaxDisturbances
    BY DEF Init
  <2> QED BY <2>1, <2>2, <2>3, <2>4 DEF PlainTypes
<1>2. ChainPart
  BY DEF Init, ChainPart, ChainTypes, ChainsBounded, ManagedIsPolled
<1>3. AgePart
  BY DEF Init, AgePart, AgeTypes, MissingAreManaged, AbsenceIsUnlisted, Ages
<1>4. RunTypes
  BY DEF Init, RunTypes, Labels
<1>5. StartupIsAlone
  BY DEF Init, StartupIsAlone, Runs
<1>6. AwaitedOnce /\ HandlerFollowsInstance
  BY DEF Init, AwaitedOnce, HandlerFollowsInstance
<1> QED BY <1>1, <1>2, <1>3, <1>4, <1>5, <1>6 DEF IInv, RunPart

\* What leaves the chains, the absences, the runs or the handlers alone keeps their part.
LEMMA ChainFrame == ASSUME ChainPart, UNCHANGED <<chainVars, instances>> PROVE ChainPart'
BY DEF ChainPart, ChainTypes, ChainsBounded, ManagedIsPolled, chainVars

LEMMA AgeFrame == ASSUME AgePart, UNCHANGED <<missing, unlisted, instances>> PROVE AgePart'
BY DEF AgePart, AgeTypes, MissingAreManaged, AbsenceIsUnlisted

LEMMA RunFrame == ASSUME RunPart, UNCHANGED <<pc, ops, missing>> PROVE RunPart'
BY DEF RunPart, RunTypes, StartupIsAlone, AwaitedOnce

LEMMA HandlerFrame ==
    ASSUME HandlerFollowsInstance, UNCHANGED <<ops, handlers, instances>>
    PROVE  HandlerFollowsInstance'
BY DEF HandlerFollowsInstance

\* A run that is not awaiting a subscribe goes on.
LEMMA GotoKeepsRuns ==
    ASSUME IInv, NEW r \in Runs, NEW label \in Labels, Goto(r, label), pc[r] # "sub",
           UNCHANGED <<ops, missing>>,
           r = Main => pc[Main] # "done",
           r # Main => pc[Main] = "done"
    PROVE  RunPart'
<1>1. pc \in [Runs -> Labels] /\ pc' = [pc EXCEPT ![r] = label]
  BY DEF IInv, RunPart, RunTypes, Goto
<1>2. RunTypes'
  BY <1>1 DEF IInv, RunPart, RunTypes
<1>3. StartupIsAlone'
  BY <1>1, Facts DEF IInv, RunPart, StartupIsAlone
<1>4. AwaitedOnce'
  <2>1. \A a \in Appliances : \A i \in 1 .. Len(ops[a]) :
           ops[a][i] # None => pc'[ops[a][i]] = "sub"
    <3> SUFFICES ASSUME NEW a \in Appliances, NEW i \in 1 .. Len(ops[a]), ops[a][i] # None
                 PROVE  pc'[ops[a][i]] = "sub"
      OBVIOUS
    <3>1. ops[a] \in Seq(Runs \cup {None})
      BY DEF IInv, RunPart, RunTypes
    <3>2. ops[a][i] \in Runs
      BY <3>1
    <3>3. pc[ops[a][i]] = "sub"
      BY DEF IInv, RunPart, AwaitedOnce
    <3> QED BY <1>1, <3>2, <3>3
  <2> QED BY <2>1 DEF IInv, RunPart, AwaitedOnce
<1> QED BY <1>2, <1>3, <1>4 DEF RunPart

-----------------------------------------------------------------------------
(* The steps of a run.                                                     *)

\* A discovery runs only when main is done.
LEMMA RunsInTurn ==
    ASSUME IInv, NEW r \in Runs, r # Main, pc[r] # "idle"
    PROVE  pc[Main] = "done"
BY DEF IInv, RunPart, StartupIsAlone, Runs

LEMMA AskInv ==
    ASSUME IInv, NEW r \in Runs, discoverAppliances(r) \/ ListServed(r) \/ ListFails(r)
    PROVE  IInv'
<1>1. PlainTypes'
  BY DEF IInv, PlainTypes, discoverAppliances, ListServed, ListFails, mqttVars, haVars
<1>2. ChainPart' /\ AgePart' /\ HandlerFollowsInstance'
  BY ChainFrame, AgeFrame, HandlerFrame
     DEF IInv, discoverAppliances, ListServed, ListFails, mqttVars, haVars
<1>3. PICK label \in Labels : Goto(r, label)
  BY DEF discoverAppliances, ListServed, ListFails, Labels
<1>4. pc[r] \in {"idle", "asked", "served"} /\ (r = Main => pc[Main] # "done")
  BY DEF discoverAppliances, ListServed, ListFails
<1>5. r # Main => pc[Main] = "done"
  BY RunsInTurn DEF discoverAppliances, ListServed, ListFails
<1>6. UNCHANGED <<ops, missing>>
  BY DEF discoverAppliances, ListServed, ListFails, mqttVars
<1>7. RunPart'
  BY <1>3, <1>4, <1>5, <1>6, GotoKeepsRuns
<1> QED BY <1>1, <1>2, <1>7 DEF IInv

LEMMA MainListHandledInv == ASSUME IInv, MainListHandled PROVE IInv'
<1>1. PlainTypes'
  BY Facts DEF IInv, PlainTypes, MainListHandled, mqttVars, haVars
<1>2. ChainPart' /\ HandlerFollowsInstance'
  BY ChainFrame, HandlerFrame DEF IInv, MainListHandled, mqttVars, haVars
<1>3. RunPart'
  <2>1. PICK label \in Labels : Goto(Main, label)
    BY DEF MainListHandled, Labels
  <2> QED BY <2>1, GotoKeepsRuns, Facts DEF MainListHandled, mqttVars
<1>4. AgePart'
  <2>1. \A a \in Appliances : missing[a] = None
    BY DEF IInv, RunPart, StartupIsAlone, MainListHandled
  <2>2. missing' = missing /\ instances' = instances
    BY DEF MainListHandled
  <2>3. unlisted' \in [Appliances -> Ages]
    BY Facts DEF MainListHandled, Listed, IInv, AgePart, AgeTypes, Ages
  <2> QED BY <2>1, <2>2, <2>3
          DEF IInv, AgePart, AgeTypes, MissingAreManaged, AbsenceIsUnlisted
<1> QED BY <1>1, <1>2, <1>3, <1>4 DEF IInv

LEMMA InfoFailsInv ==
    ASSUME IInv, NEW r \in Runs, NEW a \in Appliances, InfoFails(r, a) PROVE IInv'
<1>1. PlainTypes'
  BY DEF IInv, PlainTypes, InfoFails, mqttVars, haVars
<1>2. ChainPart' /\ AgePart' /\ HandlerFollowsInstance'
  BY ChainFrame, AgeFrame, HandlerFrame DEF IInv, InfoFails, mqttVars, haVars
<1>3. RunPart'
  <2>1. PICK label \in Labels : Goto(r, label)
    BY DEF InfoFails, Labels, End
  <2>2. r # Main => pc[Main] = "done"
    BY RunsInTurn DEF InfoFails
  <2> QED BY <2>1, <2>2, GotoKeepsRuns DEF InfoFails, mqttVars
<1> QED BY <1>1, <1>2, <1>3 DEF IInv

-----------------------------------------------------------------------------
(* A list is handled.                                                      *)

\* The absences after a list, and those of them that have lasted.
Absent(r) == updateMissingSince(list[r])
Gone(r)   == {a \in Appliances : Absent(r)[a] = Grace}

LEMMA AbsentFacts ==
    ASSUME IInv, NEW r \in Runs, NEW a \in Appliances
    PROVE  /\ Absent(r)[a] \in Ages \cup {None}
           /\ Absent(r)[a] # None => a \in instances /\ a \notin list[r]
           /\ Absent(r)[a] # None => Absent(r)[a] = 0 \/ Absent(r)[a] = missing[a]
           /\ a \in instances /\ a \in list[r] => Absent(r)[a] = None
           /\ a \notin instances => missing[a] = None
<1>1. missing[a] \in Ages \cup {None} /\ (missing[a] # None => a \in instances)
  BY DEF IInv, AgePart, AgeTypes, MissingAreManaged
<1>2. 0 \in Ages
  BY Facts DEF Ages
<1>3. Absent(r)[a] = IF a \in instances /\ a \in list[r] THEN None
                     ELSE IF a \in instances /\ missing[a] = None THEN 0 ELSE missing[a]
  BY DEF Absent, updateMissingSince
<1> QED BY <1>1, <1>2, <1>3

LEMMA GoneFacts ==
    ASSUME IInv, NEW r \in Runs, NEW a \in Gone(r)
    PROVE  /\ a \in Appliances /\ a \in instances /\ a \notin list[r]
           /\ unlisted[a] = Grace
<1>1. a \in Appliances /\ Absent(r)[a] = Grace /\ Grace # None /\ Grace # 0
  BY Facts DEF Gone, Ages
<1>2. a \in instances /\ a \notin list[r] /\ missing[a] = Grace
  BY <1>1, AbsentFacts
<1>3. unlisted[a] \in Ages /\ Grace <= unlisted[a]
  BY <1>1, <1>2 DEF IInv, AgePart, AgeTypes, AbsenceIsUnlisted
<1> QED BY <1>1, <1>2, <1>3, Facts DEF Ages

LEMMA ListHandledInv == ASSUME IInv, NEW r \in Runs, ListHandled(r) PROVE IInv'
<1>1. /\ r # Main /\ pc[r] = "served"
      /\ missing' = [a \in Appliances |-> IF a \in Gone(r) THEN None ELSE Absent(r)[a]]
      /\ cleanupAppliance(Gone(r))
      /\ todo' = [todo EXCEPT ![r] = list[r] \ instances]
      /\ list' = [list EXCEPT ![r] = {}]
      /\ Listed(r)
      /\ UNCHANGED <<account, timers, firsts, handlers, link, birthSub, announced, spent>>
  BY DEF ListHandled, Gone, Absent
<1>2. /\ instances' = instances \ Gone(r)
      /\ intervals' = [a \in Appliances |-> IF a \in Gone(r) \cap tracked THEN intervals[a] - 1
                                            ELSE intervals[a]]
      /\ tracked' = tracked \ Gone(r)
      /\ matched' = matched \ Gone(r)
      /\ ops' = [a \in Appliances |-> IF a \in Gone(r) THEN Append(ops[a], None) ELSE ops[a]]
  BY <1>1 DEF cleanupAppliance
<1>3. PlainTypes'
  BY <1>1, <1>2 DEF IInv, PlainTypes
<1>4. ChainPart'
  <2>1. ASSUME NEW a \in Appliances
        PROVE  /\ intervals'[a] \in 0 .. MaxChains /\ intervals'[a] <= intervals[a]
               /\ a \notin Gone(r) => intervals'[a] = intervals[a]
    BY <1>2, <2>1, Facts DEF IInv, ChainPart, ChainTypes, ManagedIsPolled
  <2>2. ChainTypes'
    BY <1>1, <1>2, <2>1 DEF IInv, ChainPart, ChainTypes
  <2>3. ChainsBounded'
    BY <1>1, <2>1, <2>2, Facts DEF IInv, ChainPart, ChainTypes, ChainsBounded
  <2>4. ManagedIsPolled'
    BY <1>1, <1>2, <2>1 DEF IInv, ChainPart, ChainTypes, ManagedIsPolled
  <2> QED BY <2>2, <2>3, <2>4 DEF ChainPart
<1>5. AgePart'
  <2>1. unlisted' = [a \in Appliances |-> IF a \in list[r] THEN 0 ELSE unlisted[a]]
    BY <1>1 DEF Listed
  <2>2. unlisted' \in [Appliances -> Ages]
    BY <2>1, Facts DEF IInv, AgePart, AgeTypes, Ages
  <2>3. missing' \in [Appliances -> Ages \cup {None}]
    BY <1>1, AbsentFacts
  <2>4. MissingAreManaged'
    BY <1>1, <1>2, AbsentFacts DEF MissingAreManaged
  <2>5. AbsenceIsUnlisted'
    <3> SUFFICES ASSUME NEW a \in Appliances, missing'[a] # None
                 PROVE  missing'[a] <= unlisted'[a]
      BY DEF AbsenceIsUnlisted
    <3>1. missing'[a] = Absent(r)[a] /\ a \notin list[r]
      BY <1>1, AbsentFacts
    <3>2. missing'[a] = 0 \/ missing'[a] = missing[a]
      BY <3>1, AbsentFacts
    <3>3. unlisted'[a] = unlisted[a] /\ unlisted[a] \in Nat
      BY <2>1, <3>1, Facts DEF IInv, AgePart, AgeTypes, Ages
    <3> QED BY <3>2, <3>3 DEF IInv, AgePart, AbsenceIsUnlisted
  <2> QED BY <2>2, <2>3, <2>4, <2>5 DEF AgePart, AgeTypes
<1>6. \A a \in Appliances : ops[a] \in Seq(Runs \cup {None})
  BY DEF IInv, RunPart, RunTypes
<1>7. RunPart'
  <2>1. PICK label \in Labels : pc' = [pc EXCEPT ![r] = label]
    BY DEF ListHandled, Goto, Labels
  <2>2. pc \in [Runs -> Labels]
    BY DEF IInv, RunPart, RunTypes
  <2>3. \A a \in Appliances : ops'[a] \in Seq(Runs \cup {None})
    BY <1>2, <1>6, AppendFacts
  <2>4. RunTypes'
    BY <1>2, <2>1, <2>2, <2>3 DEF RunTypes
  <2>5. StartupIsAlone'
    <3>1. pc[Main] = "done"
      BY <1>1, RunsInTurn
    <3> QED BY <1>1, <2>1, <2>2, <3>1, Facts DEF StartupIsAlone
  <2>6. AwaitedOnce'
    <3>1. ASSUME NEW a \in Appliances, NEW i \in 1 .. Len(ops'[a]), ops'[a][i] # None
          PROVE  i \in 1 .. Len(ops[a]) /\ ops'[a][i] = ops[a][i]
      <4>1. CASE a \in Gone(r)
        <5>1. ops'[a] = Append(ops[a], None)
          BY <1>2, <3>1, <4>1
        <5>2. /\ Len(ops'[a]) = Len(ops[a]) + 1
              /\ \A k \in 1 .. Len(ops[a]) : ops'[a][k] = ops[a][k]
              /\ ops'[a][Len(ops[a]) + 1] = None
          BY <1>6, <3>1, <5>1, AppendFacts
        <5>3. Len(ops[a]) \in Nat
          BY <1>6, <3>1
        <5> QED BY <3>1, <5>2, <5>3
      <4>2. CASE a \notin Gone(r)
        BY <1>2, <3>1, <4>2
      <4> QED BY <4>1, <4>2
    <3>2. ASSUME NEW a \in Appliances, NEW i \in 1 .. Len(ops'[a]), ops'[a][i] # None
          PROVE  pc'[ops'[a][i]] = "sub"
      <4>1. i \in 1 .. Len(ops[a]) /\ ops'[a][i] = ops[a][i]
        BY <3>1, <3>2
      <4>2. ops[a][i] \in Runs /\ pc[ops[a][i]] = "sub"
        BY <1>6, <3>2, <4>1 DEF IInv, RunPart, AwaitedOnce
      <4> QED BY <1>1, <2>1, <2>2, <4>1, <4>2
    <3>3. ASSUME NEW a \in Appliances, NEW b \in Appliances,
                 NEW i \in 1 .. Len(ops'[a]), NEW j \in 1 .. Len(ops'[b]),
                 ops'[a][i] # None, ops'[a][i] = ops'[b][j]
          PROVE  a = b /\ i = j
      <4>1. i \in 1 .. Len(ops[a]) /\ ops'[a][i] = ops[a][i]
        BY <3>1, <3>3
      <4>2. j \in 1 .. Len(ops[b]) /\ ops'[b][j] = ops[b][j]
        BY <3>1, <3>3
      <4>3. AwaitedOnce /\ ops[a][i] # None /\ ops[a][i] = ops[b][j]
        BY <3>3, <4>1, <4>2 DEF IInv, RunPart
      <4> QED BY <3>3, <4>1, <4>2, <4>3, AwaitedTwice
    <3> QED BY <3>2, <3>3 DEF AwaitedOnce
  <2> QED BY <2>4, <2>5, <2>6 DEF RunPart
<1>8. HandlerFollowsInstance'
  <2> SUFFICES ASSUME NEW a \in Appliances
               PROVE  IF ops'[a] = <<>> THEN a \in handlers' => a \in instances'
                      ELSE Last(ops'[a]) # None <=> a \in instances'
    BY DEF HandlerFollowsInstance
  <2>1. CASE a \in Gone(r)
    <3>1. ops'[a] = Append(ops[a], None)
      BY <1>2, <2>1
    <3>2. ops'[a] # <<>> /\ Last(ops'[a]) = None
      BY <1>6, <3>1, AppendFacts
    <3> QED BY <1>2, <2>1, <3>2
  <2>2. CASE a \notin Gone(r)
    BY <1>1, <1>2, <2>2 DEF IInv, HandlerFollowsInstance
  <2> QED BY <2>1, <2>2
<1> QED BY <1>3, <1>4, <1>5, <1>7, <1>8 DEF IInv

-----------------------------------------------------------------------------
(* An appliance is initialized, and its subscription acknowledged.         *)

LEMMA initializeApplianceInv ==
    ASSUME IInv, NEW r \in Runs, NEW a \in Appliances, initializeAppliance(r, a)
    PROVE  IInv'
<1>1. /\ pc[r] = "init" /\ pc' = [pc EXCEPT ![r] = "sub"]
      /\ timers[a] + firsts[a] + intervals[a] < MaxChains
      /\ instances' = instances \cup {a}
      /\ timers' = [timers EXCEPT ![a] = timers[a] + 1]
      /\ ops' = [ops EXCEPT ![a] = Append(ops[a], r)]
      /\ UNCHANGED <<missing, unlisted, firsts, intervals, tracked, handlers>>
  BY DEF initializeAppliance, Goto
<1>2. PlainTypes'
  BY <1>1 DEF IInv, PlainTypes, initializeAppliance
<1>3. ChainPart'
  <2>1. timers[a] \in Nat /\ firsts[a] \in Nat /\ intervals[a] \in Nat
    BY DEF IInv, ChainPart, ChainTypes
  <2>2. timers[a] + 1 \in 0 .. MaxChains
    BY <1>1, <2>1, Facts
  <2>3. ChainTypes'
    BY <1>1, <2>2 DEF IInv, ChainPart, ChainTypes
  <2>4. ChainsBounded'
    BY <1>1, <2>1, Facts DEF IInv, ChainPart, ChainTypes, ChainsBounded
  <2>5. ManagedIsPolled'
    BY <1>1, <2>1 DEF IInv, ChainPart, ChainTypes, ManagedIsPolled
  <2> QED BY <2>3, <2>4, <2>5 DEF ChainPart
<1>4. AgePart'
  BY <1>1 DEF IInv, AgePart, AgeTypes, MissingAreManaged, AbsenceIsUnlisted
<1>5. /\ \A b \in Appliances : ops[b] \in Seq(Runs \cup {None})
      /\ ops' \in [Appliances -> Seq(Runs \cup {None})]
      /\ \A b \in Appliances \ {a} : ops'[b] = ops[b]
      /\ ops'[a] = Append(ops[a], r)
  BY <1>1, AppendFacts DEF IInv, RunPart, RunTypes
<1>6. /\ ops'[a] # <<>> /\ Last(ops'[a]) = r /\ Len(ops'[a]) = Len(ops[a]) + 1
      /\ \A i \in 1 .. Len(ops[a]) : ops'[a][i] = ops[a][i]
      /\ ops'[a][Len(ops[a]) + 1] = r /\ Len(ops[a]) \in Nat
  BY <1>5, AppendFacts
<1>7. RunPart'
  <2>1. RunTypes'
    BY <1>1, <1>5 DEF IInv, RunPart, RunTypes, Labels
  <2>2. StartupIsAlone'
    <3>1. r # Main => pc[Main] = "done"
      BY <1>1, RunsInTurn
    <3> QED BY <1>1, <3>1, Facts DEF IInv, RunPart, RunTypes, StartupIsAlone
  <2>3. \A b \in Appliances : \A i \in 1 .. Len(ops[b]) : ops[b][i] # r
    BY <1>1, Facts DEF IInv, RunPart, AwaitedOnce
  <2>4. ASSUME NEW b \in Appliances, NEW i \in 1 .. Len(ops'[b])
        PROVE  \/ b = a /\ i = Len(ops[a]) + 1 /\ ops'[b][i] = r
               \/ i \in 1 .. Len(ops[b]) /\ ops'[b][i] = ops[b][i]
    BY <1>5, <1>6, <2>4
  <2>5. ASSUME NEW b \in Appliances, NEW i \in 1 .. Len(ops'[b]), ops'[b][i] # None
        PROVE  pc'[ops'[b][i]] = "sub"
    <3>1. CASE ops'[b][i] = r
      BY <1>1, <3>1 DEF IInv, RunPart, RunTypes
    <3>2. CASE i \in 1 .. Len(ops[b]) /\ ops'[b][i] = ops[b][i]
      <4>1. ops[b][i] \in Runs /\ pc[ops[b][i]] = "sub"
        BY <1>5, <2>5, <3>2 DEF IInv, RunPart, AwaitedOnce
      <4> QED BY <1>1, <3>2, <4>1 DEF IInv, RunPart, RunTypes
    <3> QED BY <2>4, <2>5, <3>1, <3>2
  <2>6. ASSUME NEW b \in Appliances, NEW c \in Appliances,
               NEW i \in 1 .. Len(ops'[b]), NEW j \in 1 .. Len(ops'[c]),
               ops'[b][i] # None, ops'[b][i] = ops'[c][j]
        PROVE  b = c /\ i = j
    <3>1. CASE i \in 1 .. Len(ops[b]) /\ ops'[b][i] = ops[b][i]
               /\ j \in 1 .. Len(ops[c]) /\ ops'[c][j] = ops[c][j]
      <4>1. AwaitedOnce /\ ops[b][i] # None /\ ops[b][i] = ops[c][j]
        BY <2>6, <3>1 DEF IInv, RunPart
      <4> QED BY <2>6, <3>1, <4>1, AwaitedTwice
    <3> QED BY <2>3, <2>4, <2>6, <3>1
  <2>7. AwaitedOnce'
    BY <2>5, <2>6 DEF AwaitedOnce
  <2> QED BY <2>1, <2>2, <2>7 DEF RunPart
<1>8. HandlerFollowsInstance'
  BY <1>1, <1>5, <1>6, Facts DEF IInv, HandlerFollowsInstance
<1> QED BY <1>2, <1>3, <1>4, <1>7, <1>8 DEF IInv

LEMMA AcknowledgeInv == ASSUME IInv, NEW a \in Appliances, Acknowledge(a) PROVE IInv'
<1> DEFINE r == Head(ops[a])
<1>1. /\ ops[a] # <<>> /\ ops' = [ops EXCEPT ![a] = Tail(ops[a])]
      /\ UNCHANGED <<account, instances, missing, list, todo, chainVars, link, birthSub,
                     haVars, unlisted, spent>>
      /\ IF r = None THEN handlers' = handlers \ {a} /\ UNCHANGED pc
         ELSE /\ handlers' \in {handlers, handlers \cup {a}}
              /\ pc' = [pc EXCEPT ![r] = IF todo[r] = {} THEN End(r) ELSE "init"]
  BY DEF Acknowledge, Goto
<1>2. PlainTypes'
  BY <1>1 DEF IInv, PlainTypes, haVars
<1>3. ChainPart' /\ AgePart'
  BY <1>1, ChainFrame, AgeFrame DEF IInv
<1>4. /\ \A b \in Appliances : ops[b] \in Seq(Runs \cup {None})
      /\ \A b \in Appliances \ {a} : ops'[b] = ops[b]
      /\ ops'[a] = Tail(ops[a])
  BY <1>1 DEF IInv, RunPart, RunTypes
<1>5. /\ Tail(ops[a]) \in Seq(Runs \cup {None}) /\ r \in Runs \cup {None} /\ r = ops[a][1]
      /\ Len(ops[a]) \in Nat \ {0}
      /\ \A i \in 1 .. Len(ops'[a]) : ops'[a][i] = ops[a][i + 1] /\ i + 1 \in 1 .. Len(ops[a])
      /\ Tail(ops[a]) = <<>> => Last(ops[a]) = r
      /\ Tail(ops[a]) # <<>> => Last(Tail(ops[a])) = Last(ops[a])
  <2>1. ops[a] \in Seq(Runs \cup {None}) /\ ops[a] # <<>>
    BY <1>1, <1>4
  <2> QED BY <1>4, <2>1, TailFacts
<1>6. r # None => pc[r] = "sub" /\ r \in Runs
  BY <1>5 DEF IInv, RunPart, AwaitedOnce
<1>7. ASSUME NEW b \in Appliances, NEW i \in 1 .. Len(ops'[b])
      PROVE  \E k \in 1 .. Len(ops[b]) : /\ ops'[b][i] = ops[b][k]
                                         /\ k = IF b = a THEN i + 1 ELSE i
  <2>1. CASE b = a
    BY <1>5, <1>7, <2>1
  <2>2. CASE b # a
    BY <1>4, <1>7, <2>2
  <2> QED BY <2>1, <2>2
<1>8. RunPart'
  <2>1. RunTypes'
    <3>1. ops' \in [Appliances -> Seq(Runs \cup {None})]
      BY <1>1, <1>5 DEF IInv, RunPart, RunTypes
    <3>2. pc' \in [Runs -> Labels]
      BY <1>1, <1>5 DEF IInv, RunPart, RunTypes, Labels, End
    <3> QED BY <3>1, <3>2 DEF RunTypes
  <2>2. StartupIsAlone'
    <3>1. CASE r = None
      BY <1>1, <3>1 DEF IInv, RunPart, StartupIsAlone
    <3>2. CASE r # None
      <4>1. r # Main => pc[Main] = "done"
        BY <1>6, <3>2, RunsInTurn
      <4> QED BY <1>1, <1>6, <3>2, <4>1, Facts DEF IInv, RunPart, RunTypes, StartupIsAlone
    <3> QED BY <3>1, <3>2
  <2>3. ASSUME NEW b \in Appliances, NEW i \in 1 .. Len(ops'[b]), ops'[b][i] # None
        PROVE  pc'[ops'[b][i]] = "sub"
    <3>1. PICK k \in 1 .. Len(ops[b]) : /\ ops'[b][i] = ops[b][k]
                                        /\ k = IF b = a THEN i + 1 ELSE i
      BY <1>7, <2>3
    <3>2. ops[b][k] \in Runs /\ pc[ops[b][k]] = "sub"
      BY <1>4, <2>3, <3>1 DEF IInv, RunPart, AwaitedOnce
    <3>3. ops[b][k] # r
      <4>1. b # a \/ k # 1
        BY <2>3, <3>1
      <4>2. 1 \in 1 .. Len(ops[a])
        BY <1>5
      <4> QED BY <1>5, <2>3, <3>1, <4>1, <4>2 DEF IInv, RunPart, AwaitedOnce
    <3>4. pc'[ops[b][k]] = pc[ops[b][k]]
      BY <1>1, <3>2, <3>3 DEF IInv, RunPart, RunTypes
    <3> QED BY <3>1, <3>2, <3>4
  <2>4. ASSUME NEW b \in Appliances, NEW c \in Appliances,
               NEW i \in 1 .. Len(ops'[b]), NEW j \in 1 .. Len(ops'[c]),
               ops'[b][i] # None, ops'[b][i] = ops'[c][j]
        PROVE  b = c /\ i = j
    <3>1. PICK k \in 1 .. Len(ops[b]) : /\ ops'[b][i] = ops[b][k]
                                        /\ k = IF b = a THEN i + 1 ELSE i
      BY <1>7, <2>4
    <3>2. PICK l \in 1 .. Len(ops[c]) : /\ ops'[c][j] = ops[c][l]
                                        /\ l = IF c = a THEN j + 1 ELSE j
      BY <1>7, <2>4
    <3>3. b = c /\ k = l
      <4>1. AwaitedOnce /\ ops[b][k] # None /\ ops[b][k] = ops[c][l]
        BY <2>4, <3>1, <3>2 DEF IInv, RunPart
      <4> QED BY <2>4, <3>1, <3>2, <4>1, AwaitedTwice
    <3> QED BY <2>4, <3>1, <3>2, <3>3
  <2> QED BY <2>1, <2>2, <2>3, <2>4 DEF RunPart, AwaitedOnce
<1>9. HandlerFollowsInstance'
  <2> SUFFICES ASSUME NEW b \in Appliances
               PROVE  IF ops'[b] = <<>> THEN b \in handlers' => b \in instances'
                      ELSE Last(ops'[b]) # None <=> b \in instances'
    BY DEF HandlerFollowsInstance
  <2>1. CASE b = a
    <3>1. Last(ops[a]) # None <=> a \in instances
      BY <1>1 DEF IInv, HandlerFollowsInstance
    <3> QED BY <1>1, <1>4, <1>5, <2>1, <3>1
  <2>2. CASE b # a
    BY <1>1, <1>4, <2>2 DEF IInv, HandlerFollowsInstance
  <2> QED BY <2>1, <2>2
<1> QED BY <1>2, <1>3, <1>8, <1>9 DEF IInv

-----------------------------------------------------------------------------
(* The polling chain, the broker, the account and time.                    *)

LEMMA PollingInv ==
    ASSUME IInv, NEW a \in Appliances, TimerFires(a) \/ FirstPollEnds(a)
    PROVE  IInv'
<1>1. PlainTypes' /\ AgePart' /\ RunPart' /\ HandlerFollowsInstance'
  BY AgeFrame, RunFrame, HandlerFrame
     DEF IInv, PlainTypes, TimerFires, FirstPollEnds, runVars, mqttVars, haVars
<1>2. /\ timers[a] \in Nat /\ firsts[a] \in Nat /\ intervals[a] \in Nat
      /\ timers[a] + firsts[a] + intervals[a] <= MaxChains
  BY DEF IInv, ChainPart, ChainTypes, ChainsBounded
<1>3. ChainPart'
  <2>1. CASE TimerFires(a)
    <3>1. ChainTypes'
      BY <1>2, <2>1, Facts DEF IInv, ChainPart, ChainTypes, TimerFires
    <3>2. ChainsBounded'
      BY <1>2, <2>1, Facts DEF IInv, ChainPart, ChainTypes, ChainsBounded, TimerFires
    <3>3. ManagedIsPolled'
      BY <1>2, <2>1, Facts DEF IInv, ChainPart, ChainTypes, ManagedIsPolled, TimerFires
    <3> QED BY <3>1, <3>2, <3>3 DEF ChainPart
  <2>2. CASE FirstPollEnds(a)
    <3>1. ChainTypes'
      BY <1>2, <2>2, Facts DEF IInv, ChainPart, ChainTypes, FirstPollEnds
    <3>2. ChainsBounded'
      BY <1>2, <2>2, Facts DEF IInv, ChainPart, ChainTypes, ChainsBounded, FirstPollEnds
    <3>3. ManagedIsPolled'
      BY <1>2, <2>2, Facts DEF IInv, ChainPart, ChainTypes, ManagedIsPolled, FirstPollEnds
    <3> QED BY <3>1, <3>2, <3>3 DEF ChainPart
  <2> QED BY <2>1, <2>2
<1> QED BY <1>1, <1>3 DEF IInv

\* When the link drops no call is left, and whoever awaited one goes on.
LEMMA LinkDropsInv == ASSUME IInv, LinkDrops PROVE IInv'
<1>1. /\ UNCHANGED <<account, instances, missing, list, todo, chainVars, matched, unlisted>>
      /\ ops' = [a \in Appliances |-> <<>>]
      /\ handlers' = {a \in handlers : None \notin Range(ops[a])}
      /\ pc' = [r \in Runs |-> IF pc[r] # "sub" THEN pc[r]
                               ELSE IF todo[r] = {} THEN End(r) ELSE "init"]
  BY DEF LinkDrops, AllGoOn
<1>2. PlainTypes'
  <2>1. link' \in BOOLEAN /\ birthSub' \in {"no", "pending", "yes", "failed"}
    BY DEF LinkDrops, IInv, PlainTypes
  <2>2. announced' \in SUBSET Appliances
    BY DEF LinkDrops, IInv, PlainTypes
  <2>3. spent' \in 0 .. MaxDisturbances
    <3>1. spent \in 0 .. MaxDisturbances /\ spent < MaxDisturbances /\ spent' = spent + 1
      BY DEF LinkDrops, Disturbance, IInv, PlainTypes
    <3> QED BY <3>1, Facts
  <2> QED BY <1>1, <2>1, <2>2, <2>3 DEF IInv, PlainTypes
<1>3. ChainPart' /\ AgePart'
  BY <1>1, ChainFrame, AgeFrame DEF IInv
<1>4. \A r \in Runs : pc[r] \in Labels /\ (pc[r] # "sub" => pc'[r] = pc[r])
  BY <1>1 DEF IInv, RunPart, RunTypes
<1>5. RunPart'
  <2>1. RunTypes'
    <3>1. pc' \in [Runs -> Labels]
      BY <1>1, <1>4 DEF Labels, End
    <3>2. ops' \in [Appliances -> Seq(Runs \cup {None})]
      BY <1>1
    <3> QED BY <3>1, <3>2 DEF RunTypes
  <2>2. StartupIsAlone'
    BY <1>1, <1>4, Facts DEF IInv, RunPart, StartupIsAlone
  <2>3. AwaitedOnce'
    BY <1>1 DEF AwaitedOnce
  <2> QED BY <2>1, <2>2, <2>3 DEF RunPart
<1>6. HandlerFollowsInstance'
  <2> SUFFICES ASSUME NEW a \in Appliances, a \in handlers' PROVE a \in instances'
    BY <1>1 DEF HandlerFollowsInstance
  <2>1. a \in handlers /\ None \notin Range(ops[a]) /\ ops[a] \in Seq(Runs \cup {None})
    BY <1>1 DEF IInv, RunPart, RunTypes
  <2>2. CASE ops[a] = <<>>
    BY <1>1, <2>1, <2>2 DEF IInv, HandlerFollowsInstance
  <2>3. CASE ops[a] # <<>>
    <3>1. Last(ops[a]) \in Range(ops[a])
      <4>1. Len(ops[a]) \in DOMAIN ops[a]
        BY <2>1, <2>3, EmptySeq
      <4> QED BY <4>1 DEF Last, Range
    <3> QED BY <1>1, <2>1, <2>3, <3>1 DEF IInv, HandlerFollowsInstance
  <2> QED BY <2>2, <2>3
<1> QED BY <1>2, <1>3, <1>5, <1>6 DEF IInv

LEMMA EnvironmentInv ==
    ASSUME IInv,
           \/ \E a \in Appliances : StateChanged(a) \/ CacheExpires(a) \/ AccountChanges(a)
           \/ LinkUp \/ BirthSubscribed \/ Birth
    PROVE  IInv'
<1> USE DEF StateChanged, CacheExpires, AccountChanges, LinkUp, BirthSubscribed,
            Birth, Disturbance, runVars, mqttVars, haVars
<1>1. PlainTypes'
  <2>1. {account', instances', handlers', announced', matched'} \subseteq SUBSET Appliances
    BY DEF IInv, PlainTypes
  <2>2. /\ UNCHANGED <<list, todo>>
        /\ link' \in BOOLEAN /\ birthSub' \in {"no", "pending", "yes", "failed"}
    BY DEF IInv, PlainTypes
  <2>3. spent' \in 0 .. MaxDisturbances
    BY Facts DEF IInv, PlainTypes
  <2> QED BY <2>1, <2>2, <2>3 DEF IInv, PlainTypes
<1>2. ChainPart' /\ AgePart' /\ RunPart' /\ HandlerFollowsInstance'
  BY ChainFrame, AgeFrame, RunFrame, HandlerFrame DEF IInv
<1> QED BY <1>1, <1>2 DEF IInv

LEMMA TickInv == ASSUME IInv, Tick PROVE IInv'
<1>1. PlainTypes' /\ ChainPart' /\ HandlerFollowsInstance'
  BY ChainFrame, HandlerFrame DEF IInv, PlainTypes, Tick, runVars, mqttVars, haVars
<1>2. ASSUME NEW a \in Appliances
      PROVE  /\ missing[a] \in Ages \cup {None} /\ unlisted[a] \in Ages
             /\ missing'[a] = Older(missing[a]) /\ unlisted'[a] = Older(unlisted[a])
  BY <1>2 DEF IInv, AgePart, AgeTypes, Tick
<1>3. ASSUME NEW a \in Appliances
      PROVE  /\ missing'[a] \in Ages \cup {None} /\ unlisted'[a] \in Ages
             /\ missing[a] = None <=> missing'[a] = None
             /\ missing'[a] # None => missing'[a] <= unlisted'[a]
  <2>1. unlisted'[a] \in Ages /\ unlisted'[a] >= unlisted[a]
        /\ unlisted'[a] = IF unlisted[a] < Grace THEN unlisted[a] + 1 ELSE Grace
    BY <1>2, <1>3, Facts DEF Older, Ages
  <2>2. CASE missing[a] = None
    BY <1>2, <1>3, <2>1, <2>2, Facts DEF Older, Ages
  <2>3. CASE missing[a] # None
    <3>1. missing[a] \in Ages /\ missing[a] <= unlisted[a]
      BY <1>2, <1>3, <2>3 DEF IInv, AgePart, AbsenceIsUnlisted
    <3>2. missing'[a] = IF missing[a] < Grace THEN missing[a] + 1 ELSE Grace
      BY <1>2, <1>3, <3>1, Facts DEF Older, Ages
    <3>3. missing'[a] \in Ages /\ missing'[a] <= unlisted'[a]
      BY <1>2, <1>3, <2>1, <3>1, <3>2, Facts DEF Ages
    <3> QED BY <2>1, <2>3, <3>3, Facts
  <2> QED BY <2>2, <2>3
<1>4. AgePart'
  <2>1. instances' = instances /\ DOMAIN missing' = Appliances
    BY DEF Tick
  <2>2. AgeTypes'
    BY <1>3 DEF AgeTypes, Tick
  <2> QED BY <1>3, <2>1, <2>2 DEF IInv, AgePart, MissingAreManaged, AbsenceIsUnlisted
<1>5. RunPart'
  <2>1. UNCHANGED <<pc, ops>>
    BY DEF Tick, runVars, mqttVars
  <2> QED BY <1>3, <2>1 DEF IInv, RunPart, RunTypes, StartupIsAlone, AwaitedOnce
<1> QED BY <1>1, <1>4, <1>5 DEF IInv

LEMMA NextIInv == IInv /\ [Next]_vars => IInv'
<1> SUFFICES ASSUME IInv, [Next]_vars PROVE IInv'
  OBVIOUS
<1>1. ASSUME NEW r \in Runs, RunStep(r) PROVE IInv'
  BY <1>1, AskInv, ListHandledInv, MainListHandledInv, InfoFailsInv, initializeApplianceInv
     DEF RunStep
<1>2. ASSUME NEW a \in Appliances, ApplianceStep(a) PROVE IInv'
  BY <1>2, AcknowledgeInv, PollingInv, EnvironmentInv DEF ApplianceStep
<1>3. CASE LinkDrops \/ LinkUp \/ BirthSubscribed \/ Birth
  BY <1>3, LinkDropsInv, EnvironmentInv
<1>4. CASE Tick
  BY <1>4, TickInv
<1>5. CASE UNCHANGED vars
  <2>1. PlainTypes'
    BY <1>5 DEF IInv, PlainTypes, vars
  <2> QED BY <1>5, <2>1, ChainFrame, AgeFrame, RunFrame, HandlerFrame DEF IInv, vars, chainVars
<1> QED BY <1>1, <1>2, <1>3, <1>4, <1>5 DEF Next

-----------------------------------------------------------------------------
(* The results.                                                            *)

LEMMA Invariance == Spec => []IInv
BY InitIInv, NextIInv, PTL DEF Spec

\* The orchestrator's maps and counters have their types, however many runs overlap.
THEOREM TypeCorrect == Spec => []TypeOK
<1>1. IInv => TypeOK
  BY TypeParts DEF IInv, ChainPart, AgePart, RunPart
<1> QED BY <1>1, Invariance, PTL

\* Every entry of applianceMissingSince is that of a managed appliance.
THEOREM AbsencesAreManaged == Spec => []MissingAreManaged
<1>1. IInv => MissingAreManaged
  BY DEF IInv, AgePart
<1> QED BY <1>1, Invariance, PTL

\* No managed appliance is ever left without a polling chain.
THEOREM Polled == Spec => []ManagedIsPolled
<1>1. IInv => ManagedIsPolled
  BY DEF IInv, ChainPart
<1> QED BY <1>1, Invariance, PTL

\* Out of step acknowledgements leave every command handler with its appliance.
THEOREM Handled == Spec => []HandlerFollowsInstance
<1>1. IInv => HandlerFollowsInstance
  BY DEF IInv
<1> QED BY <1>1, Invariance, PTL

LEMMA OnlySweptLeave ==
    ASSUME IInv, [Next]_vars, NEW a \in instances \ instances'
    PROVE  \E r \in Runs : ListHandled(r) /\ a \in Gone(r)
<1>1. CASE \E r \in Runs : ListHandled(r)
  BY <1>1 DEF ListHandled, cleanupAppliance, Gone, Absent
<1>2. CASE ~\E r \in Runs : ListHandled(r)
  BY <1>2 DEF Next, RunStep, ApplianceStep, discoverAppliances, ListServed, ListFails,
     MainListHandled, InfoFails, initializeAppliance, Acknowledge, TimerFires, FirstPollEnds,
     StateChanged, CacheExpires, AccountChanges, LinkDrops, LinkUp, BirthSubscribed, Birth,
     Tick, vars
<1> QED BY <1>1, <1>2

\* Whatever the grace period, an appliance is removed only after a whole one without
\* a list that held it (updateMissingSince, sweepExpired).
THEOREM NobodyRemovedEarly == Spec => NoEarlyRemoval
<1>1. IInv /\ [Next]_vars => [\A a \in instances \ instances' : unlisted[a] = Grace]_vars
  BY OnlySweptLeave, GoneFacts
<1> QED BY <1>1, Invariance, PTL DEF Spec, NoEarlyRemoval

-----------------------------------------------------------------------------
(* What is settled stays settled: the safety half of RegisteredIsManaged   *)
(* and GoneIsDropped, which TLC checks under fairness.                     *)

\* A registered appliance is managed, and no list that a run has yet to handle lacks it.
SettledManaged(a) ==
    a \in account /\ a \in instances /\ \A r \in Runs : pc[r] = "served" => a \in list[r]

\* An appliance that is gone is not managed, no list to be handled holds it, and no run
\* has it to initialize.
SettledDropped(a) ==
    /\ a \notin account /\ a \notin instances
    /\ \A r \in Runs : a \notin todo[r] /\ (pc[r] = "served" => a \notin list[r])

\* As long as it is registered.
ManagedStays ==
    [][\A a \in Appliances : SettledManaged(a) /\ a \in account' => SettledManaged(a)']_vars

\* As long as it is not registered.
DroppedStays ==
    [][\A a \in Appliances : SettledDropped(a) /\ a \notin account' => SettledDropped(a)']_vars

LEMMA GotoOthers ==
    ASSUME RunTypes, NEW r \in Runs
    PROVE  \A label : Goto(r, label) => pc'[r] = label /\ \A q \in Runs : q # r => pc'[q] = pc[q]
BY DEF Goto, RunTypes

\* The steps after which no run but perhaps this one has another list to handle.
LEMMA ListsToHandle ==
    ASSUME IInv, [Next]_vars, NEW r \in Runs, pc'[r] = "served"
    PROVE  \/ pc[r] = "served" /\ list'[r] = list[r]
           \/ list'[r] = account /\ account' = account
<1>1. ASSUME NEW q \in Runs, RunStep(q)
      PROVE  \/ pc[r] = "served" /\ list'[r] = list[r]
             \/ list'[r] = account /\ account' = account
  <2>1. \E label : Goto(q, label)
    BY <1>1 DEF RunStep, discoverAppliances, ListServed, ListFails, ListHandled,
       MainListHandled, InfoFails, initializeAppliance
  <2>2. CASE ListServed(q)
    <3>1. list' = [list EXCEPT ![q] = account] /\ account' = account /\ Goto(q, "served")
      BY <2>2 DEF ListServed
    <3>2. CASE q = r
      BY <3>1, <3>2 DEF IInv, PlainTypes
    <3>3. CASE q # r
      BY <3>1, <3>3, GotoOthers DEF IInv, PlainTypes, RunPart
    <3> QED BY <3>2, <3>3
  <2>3. CASE ~ListServed(q)
    <3>1. q # r
      <4>1. \E label \in {"asked", "idle", "init", "sub", "done"} : Goto(q, label)
        BY <1>1, <2>3 DEF RunStep, discoverAppliances, ListFails, ListHandled,
           MainListHandled, InfoFails, initializeAppliance, End
      <4> QED BY <4>1, GotoOthers DEF IInv, RunPart
    <3>2. list'[r] = list[r]
      BY <1>1, <2>3, <3>1 DEF RunStep, discoverAppliances, ListFails, ListHandled,
         MainListHandled, InfoFails, initializeAppliance, IInv, PlainTypes
    <3>3. pc'[r] = pc[r]
      BY <2>1, <3>1, GotoOthers DEF IInv, RunPart
    <3> QED BY <3>2, <3>3
  <2> QED BY <2>2, <2>3
<1>2. ASSUME NEW a \in Appliances, Acknowledge(a)
      PROVE  pc[r] = "served" /\ list'[r] = list[r]
  <2>1. list' = list
    BY <1>2 DEF Acknowledge
  <2>2. CASE pc' = pc
    BY <2>1, <2>2
  <2>3. ASSUME NEW q \in Runs, NEW label \in {"done", "idle", "init"}, Goto(q, label)
        PROVE  pc[r] = "served"
    BY <2>3, GotoOthers DEF IInv, RunPart
  <2>4. pc' = pc \/ \E q \in Runs : \E label \in {"done", "idle", "init"} : Goto(q, label)
    <3>1. /\ ops[a] # <<>>
          /\ Head(ops[a]) # None
                => Goto(Head(ops[a]), IF todo[Head(ops[a])] = {} THEN End(Head(ops[a])) ELSE "init")
          /\ Head(ops[a]) = None => pc' = pc
      BY <1>2 DEF Acknowledge
    <3>2. Head(ops[a]) \in Runs \cup {None}
      <4>1. ops[a] \in Seq(Runs \cup {None})
        BY DEF IInv, RunPart, RunTypes
      <4> QED BY <3>1, <4>1, HeadTailProperties
    <3> QED BY <3>1, <3>2 DEF End
  <2> QED BY <2>1, <2>2, <2>3, <2>4
<1>3. CASE UNCHANGED <<pc, list>>
  BY <1>3
<1>4. CASE LinkDrops
  BY <1>4 DEF LinkDrops, AllGoOn, End
<1>5. ASSUME ~\E q \in Runs : RunStep(q), ~\E a \in Appliances : Acknowledge(a), ~LinkDrops
      PROVE  UNCHANGED <<pc, list>>
  BY <1>5 DEF Next, ApplianceStep, TimerFires, FirstPollEnds, StateChanged, CacheExpires,
     AccountChanges, LinkUp, BirthSubscribed, Birth, Tick, runVars, vars
<1> QED BY <1>1, <1>2, <1>3, <1>4, <1>5

\* An appliance that stays registered is never lost again, however many runs overlap:
\* lists handled out of order, failures and absences timed before do not remove it
\* (discoverAppliances, orchestrator.ts).
THEOREM RegisteredStaysManaged == Spec => ManagedStays
<1>1. ASSUME IInv, [Next]_vars, NEW a \in Appliances, SettledManaged(a), a \in account'
      PROVE  SettledManaged(a)'
  <2>1. a \in instances'
    <3>1. ASSUME a \notin instances' PROVE FALSE
      <4>1. PICK r \in Runs : ListHandled(r) /\ a \in Gone(r)
        BY <1>1, <3>1, OnlySweptLeave DEF SettledManaged
      <4>2. pc[r] = "served" /\ a \notin list[r]
        BY <1>1, <4>1, GoneFacts DEF ListHandled
      <4> QED BY <1>1, <4>2 DEF SettledManaged
    <3> QED BY <3>1
  <2>2. \A r \in Runs : pc'[r] = "served" => a \in list'[r]
    BY <1>1, ListsToHandle DEF SettledManaged
  <2> QED BY <1>1, <2>1, <2>2 DEF SettledManaged
<1>2. IInv /\ [Next]_vars
        => [\A a \in Appliances : SettledManaged(a) /\ a \in account' => SettledManaged(a)']_vars
  BY <1>1
<1> QED BY <1>2, Invariance, PTL DEF Spec, ManagedStays

\* What a run has to initialize it had before, or it stood on the list just handled.
LEMMA TodoIsListed ==
    ASSUME IInv, [Next]_vars, NEW q \in Runs, NEW a \in todo'[q]
    PROVE  a \in todo[q] \/ (pc[q] = "served" /\ a \in list[q])
<1>1. ASSUME NEW r \in Runs, RunStep(r)
      PROVE  a \in todo[q] \/ (pc[q] = "served" /\ a \in list[q])
  <2>1. CASE MainListHandled
    BY <2>1, Facts DEF MainListHandled, IInv, PlainTypes
  <2>2. CASE ListHandled(r)
    BY <2>2 DEF ListHandled, IInv, PlainTypes
  <2>3. CASE \E b \in Appliances : InfoFails(r, b) \/ initializeAppliance(r, b)
    BY <2>3 DEF InfoFails, initializeAppliance, IInv, PlainTypes
  <2>4. CASE discoverAppliances(r) \/ ListServed(r) \/ ListFails(r)
    BY <2>4 DEF discoverAppliances, ListServed, ListFails
  <2> QED BY <1>1, <2>1, <2>2, <2>3, <2>4 DEF RunStep
<1>2. ASSUME ~\E r \in Runs : RunStep(r)
      PROVE  todo' = todo
  BY <1>2 DEF Next, ApplianceStep, Acknowledge, TimerFires, FirstPollEnds, StateChanged,
     CacheExpires, AccountChanges, LinkDrops, LinkUp, BirthSubscribed, Birth, Tick, runVars,
     vars
<1> QED BY <1>1, <1>2

\* Only what a run has to initialize becomes managed.
LEMMA OnlyInitializedEnter ==
    ASSUME IInv, [Next]_vars, NEW a \in instances' \ instances
    PROVE  \E r \in Runs : a \in todo[r]
BY DEF Next, RunStep, ApplianceStep, discoverAppliances, ListServed, ListFails, ListHandled,
   cleanupAppliance, MainListHandled, InfoFails, initializeAppliance, Acknowledge, TimerFires,
   FirstPollEnds, StateChanged, CacheExpires, AccountChanges, LinkDrops, LinkUp,
   BirthSubscribed, Birth, Tick, vars

\* An appliance that was dropped does not come back while it is not registered: no run
\* that overlaps has an old list to initialize it from (discoverAppliances,
\* initializeAppliance, orchestrator.ts).
THEOREM GoneStaysDropped == Spec => DroppedStays
<1>1. ASSUME IInv, [Next]_vars, NEW a \in Appliances, SettledDropped(a), a \notin account'
      PROVE  SettledDropped(a)'
  <2>1. a \notin instances'
    BY <1>1, OnlyInitializedEnter DEF SettledDropped
  <2>2. \A r \in Runs : a \notin todo'[r]
    BY <1>1, TodoIsListed DEF SettledDropped
  <2>3. \A r \in Runs : pc'[r] = "served" => a \notin list'[r]
    BY <1>1, ListsToHandle DEF SettledDropped
  <2> QED BY <1>1, <2>1, <2>2, <2>3 DEF SettledDropped
<1>2. IInv /\ [Next]_vars
        => [\A a \in Appliances : SettledDropped(a) /\ a \notin account' => SettledDropped(a)']_vars
  BY <1>1
<1> QED BY <1>2, Invariance, PTL DEF Spec, DroppedStays
=============================================================================
