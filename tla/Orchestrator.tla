---------------------------- MODULE Orchestrator ----------------------------
(***************************************************************************)
(* The life of the appliances in the bridge (src/orchestrator.ts, started  *)
(* by main in src/index.ts): discovery runs find them and lose them, each  *)
(* managed appliance has a polling chain (a startup timer, a first poll,   *)
(* then an interval), a command subscription and a discovery config that   *)
(* Home Assistant reads from the broker.                                   *)
(*                                                                         *)
(* A run is the startup loop of main or one discoverAppliances(), which    *)
(* its interval does not await, so that runs overlap.  Polling chains of   *)
(* one appliance are counted, because nothing tells them apart but the     *)
(* entry of applianceStateIntervals.  The bridge's own end is not here:    *)
(* index.ts exits the process right after shutdown().                      *)
(***************************************************************************)
EXTENDS Naturals, Sequences, SequencesExt

CONSTANTS
    Appliances,
    Main,           \* the run of main()
    Discoveries,    \* bound: discovery runs at once
    Grace,          \* applianceRemovalGracePeriodMs, in ticks
    haBirthRepublish,
    MaxChains,      \* bound: polling chains of one appliance
    MaxDisturbances,\* bound: registrations, removals and link losses
    None

Runs == Discoveries \cup {Main}

ASSUME OrchestratorAssumption ==
    /\ Main \notin Discoveries /\ None \notin Runs \cup Nat
    /\ Grace \in Nat \ {0} /\ MaxChains \in Nat /\ MaxDisturbances \in Nat
    /\ haBirthRepublish \in BOOLEAN

VARIABLES
    account,        \* the appliances registered with the cloud
    instances,      \* applianceInstances
    missing,        \* applianceMissingSince: time since the entry was made, or None
    pc,             \* each run: "idle", "asked", "served", "init" or "sub"; main ends "done"
    list,           \* the list of appliances the cloud served a run
    todo,           \* those the run has still to initialize
    timers, firsts, intervals,  \* of each appliance: startup timers, first polls
                                \* in flight, running intervals
    tracked,        \* the appliances with an entry in applianceStateIntervals
    ops,            \* subscribe (its run) and unsubscribe (None) calls not yet acknowledged
    handlers,       \* the appliances whose command topic has a handler
    link,           \* the MQTT client is connected
    birthSub,       \* the birth subscription: "no", "pending", "yes" or "failed"
    announced,      \* the appliances whose discovery config the broker retains
    matched,        \* those whose discovery config matchByValue has stored
    unlisted,       \* history: time since a handled list last held the appliance
    spent           \* disturbances so far

chainVars == <<timers, firsts, intervals, tracked>>
runVars   == <<pc, list, todo>>
mqttVars  == <<ops, handlers, link, birthSub>>
haVars    == <<announced, matched>>
vars == <<account, instances, missing, pc, list, todo, timers, firsts, intervals, tracked,
          ops, handlers, link, birthSub, announced, matched, unlisted, spent>>

Ages == 0 .. Grace

TypeOK ==
    /\ {account, instances, tracked, handlers, announced, matched} \subseteq SUBSET Appliances
    /\ missing \in [Appliances -> Ages \cup {None}]
    /\ pc \in [Runs -> {"idle", "asked", "served", "init", "sub", "done"}]
    /\ list \in [Runs -> SUBSET Appliances]
    /\ todo \in [Runs -> SUBSET Appliances]
    /\ {timers, firsts, intervals} \subseteq [Appliances -> 0 .. MaxChains]
    /\ ops \in [Appliances -> Seq(Runs \cup {None})]
    /\ link \in BOOLEAN
    /\ birthSub \in {"no", "pending", "yes", "failed"}
    /\ unlisted \in [Appliances -> Ages]
    /\ spent \in 0 .. MaxDisturbances

Init ==
    /\ account \in SUBSET Appliances
    /\ instances = {} /\ missing = [a \in Appliances |-> None]
    /\ pc = [r \in Runs |-> IF r = Main THEN "asked" ELSE "idle"]
    /\ list = [r \in Runs |-> {}] /\ todo = [r \in Runs |-> {}]
    /\ timers = [a \in Appliances |-> 0] /\ firsts = timers /\ intervals = timers
    /\ tracked = {}
    /\ ops = [a \in Appliances |-> <<>>] /\ handlers = {}
    /\ link = FALSE /\ birthSub = "no"
    /\ announced = {} /\ matched = {}
    /\ unlisted = [a \in Appliances |-> Grace]
    /\ spent = 0

-----------------------------------------------------------------------------
(* A run asks for the list of appliances.                                  *)

Goto(r, label) == pc' = [pc EXCEPT ![r] = label]

\* What becomes of a run that has nothing left to initialize.
End(r) == IF r = Main THEN "done" ELSE "idle"

\* The discovery interval fires; main sets it up when its own loop is done.
discoverAppliances(r) ==
    /\ r # Main /\ pc[r] = "idle" /\ pc[Main] = "done"
    /\ Goto(r, "asked")
    /\ UNCHANGED <<account, instances, missing, list, todo, chainVars, mqttVars,
                   haVars, unlisted, spent>>

ListServed(r) ==
    /\ pc[r] = "asked"
    /\ Goto(r, "served")
    /\ list' = [list EXCEPT ![r] = account]
    /\ UNCHANGED <<account, instances, missing, todo, chainVars, mqttVars, haVars,
                   unlisted, spent>>

\* Faulty variant: main is not started again.
ListFailsForGood(r) ==
    /\ pc[r] \in {"asked", "served"}
    /\ Goto(r, "idle")
    /\ list' = [list EXCEPT ![r] = {}]
    /\ UNCHANGED <<account, instances, missing, todo, chainVars, mqttVars, haVars,
                   unlisted, spent>>

\* getAppliances() returns undefined: no signal.  main begins again.
ListFails(r) ==
    /\ pc[r] \in {"asked", "served"}
    /\ Goto(r, IF r = Main THEN "asked" ELSE "idle")
    /\ list' = [list EXCEPT ![r] = {}]
    /\ UNCHANGED <<account, instances, missing, todo, chainVars, mqttVars, haVars,
                   unlisted, spent>>

Listed(r) == unlisted' = [a \in Appliances |-> IF a \in list[r] THEN 0 ELSE unlisted[a]]

\* main: an empty list starts it over.
MainListHandled ==
    /\ pc[Main] = "served"
    /\ IF list[Main] = {} THEN Goto(Main, "asked") ELSE Goto(Main, "init")
    /\ todo' = [todo EXCEPT ![Main] = list[Main]]
    /\ list' = [list EXCEPT ![Main] = {}]
    /\ Listed(Main)
    /\ UNCHANGED <<account, instances, missing, chainVars, mqttVars, haVars, spent>>

\* Faulty variant: reappearing does not end an absence.
updateMissingSinceOnce(current) ==
    [a \in Appliances |->
        IF a \in instances /\ a \notin current /\ missing[a] = None THEN 0
        ELSE missing[a]]

updateMissingSince(current) ==
    [a \in Appliances |->
        IF a \in instances /\ a \in current THEN None
        ELSE IF a \in instances /\ missing[a] = None THEN 0
        ELSE missing[a]]

\* Faulty variant: the command topic stays subscribed.
cleanupApplianceSubscribed(gone) ==
    /\ instances' = instances \ gone
    /\ intervals' = [a \in Appliances |-> IF a \in gone \cap tracked THEN intervals[a] - 1
                                          ELSE intervals[a]]
    /\ tracked' = tracked \ gone
    /\ matched' = matched \ gone
    /\ UNCHANGED ops

\* Faulty variant: the entry of the cleared interval stays.
cleanupApplianceTracked(gone) ==
    /\ instances' = instances \ gone
    /\ intervals' = [a \in Appliances |-> IF a \in gone \cap tracked THEN intervals[a] - 1
                                          ELSE intervals[a]]
    /\ matched' = matched \ gone
    /\ ops' = [a \in Appliances |-> IF a \in gone THEN Append(ops[a], None) ELSE ops[a]]
    /\ UNCHANGED tracked

\* cleanupAppliance of every appliance of gone: the tracked interval is cleared,
\* startup timers and first polls are not.
cleanupAppliance(gone) ==
    /\ instances' = instances \ gone
    /\ intervals' = [a \in Appliances |-> IF a \in gone \cap tracked THEN intervals[a] - 1
                                          ELSE intervals[a]]
    /\ tracked' = tracked \ gone
    /\ matched' = matched \ gone
    /\ ops' = [a \in Appliances |-> IF a \in gone THEN Append(ops[a], None) ELSE ops[a]]

\* Faulty variant: an appliance swept keeps its entry.
ListHandledKeepsEntry(r) ==
    LET absent == updateMissingSince(list[r])
        gone   == {a \in Appliances : absent[a] = Grace}
        new    == list[r] \ instances
    IN  /\ r # Main /\ pc[r] = "served"
        /\ missing' = absent
        /\ cleanupAppliance(gone)
        /\ todo' = [todo EXCEPT ![r] = new]
        /\ Goto(r, IF new = {} THEN "idle" ELSE "init")
        /\ list' = [list EXCEPT ![r] = {}]
        /\ Listed(r)
        /\ UNCHANGED <<account, timers, firsts, handlers, link, birthSub, announced, spent>>

\* Faulty variant: an empty list is taken for a failure.
ListHandledUnlessEmpty(r) ==
    LET absent == IF list[r] = {} THEN missing ELSE updateMissingSince(list[r])
        gone   == IF list[r] = {} THEN {} ELSE {a \in Appliances : absent[a] = Grace}
        new    == list[r] \ instances
    IN  /\ r # Main /\ pc[r] = "served"
        /\ missing' = [a \in Appliances |-> IF a \in gone THEN None ELSE absent[a]]
        /\ cleanupAppliance(gone)
        /\ todo' = [todo EXCEPT ![r] = new]
        /\ Goto(r, IF new = {} THEN "idle" ELSE "init")
        /\ list' = [list EXCEPT ![r] = {}]
        /\ Listed(r)
        /\ UNCHANGED <<account, timers, firsts, handlers, link, birthSub, announced, spent>>

\* discoverAppliances after its await: absences are updated and swept, and what
\* was not known before the sweep is new.
ListHandled(r) ==
    LET absent == updateMissingSince(list[r])
        gone   == {a \in Appliances : absent[a] = Grace}    \* sweepExpired
        new    == list[r] \ instances
    IN  /\ r # Main /\ pc[r] = "served"
        /\ missing' = [a \in Appliances |-> IF a \in gone THEN None ELSE absent[a]]
        /\ cleanupAppliance(gone)
        /\ todo' = [todo EXCEPT ![r] = new]
        /\ Goto(r, IF new = {} THEN "idle" ELSE "init")
        /\ list' = [list EXCEPT ![r] = {}]
        /\ Listed(r)
        /\ UNCHANGED <<account, timers, firsts, handlers, link, birthSub, announced, spent>>

-----------------------------------------------------------------------------
(* initializeAppliance, one appliance after the other.                     *)

\* getApplianceInfo() fails or createAppliance() throws: on to the next.
InfoFails(r, a) ==
    /\ pc[r] = "init" /\ a \in todo[r]
    /\ todo' = [todo EXCEPT ![r] = @ \ {a}]
    /\ Goto(r, IF todo[r] = {a} THEN End(r) ELSE "init")
    /\ UNCHANGED <<account, instances, missing, list, chainVars, mqttVars, haVars,
                   unlisted, spent>>

\* The information is there: from the instance to the call of subscribe().
\* Nothing looks whether another run has initialized the appliance meanwhile.
initializeAppliance(r, a) ==
    /\ pc[r] = "init" /\ a \in todo[r]
    /\ timers[a] + firsts[a] + intervals[a] < MaxChains
    /\ instances' = instances \cup {a}
    /\ announced' = IF link THEN announced \cup {a} ELSE announced
    /\ birthSub' = IF birthSub = "no" /\ haBirthRepublish THEN "pending" ELSE birthSub
    /\ timers' = [timers EXCEPT ![a] = @ + 1]
    /\ ops' = [ops EXCEPT ![a] = Append(@, r)]
    /\ todo' = [todo EXCEPT ![r] = @ \ {a}]
    /\ Goto(r, "sub")
    /\ UNCHANGED <<account, missing, list, firsts, intervals, tracked, handlers, link,
                   matched, unlisted, spent>>

\* The broker acknowledges the oldest call on the topic: an unsubscribe drops the
\* handler whether or not it failed, a subscribe sets it unless it failed; then
\* the run that awaits it goes on.  Calls made while the link is down wait for it.
Acknowledge(a) ==
    /\ link /\ ops[a] # <<>>
    /\ ops' = [ops EXCEPT ![a] = Tail(@)]
    /\ LET r == Head(ops[a])
       IN  IF r = None THEN handlers' = handlers \ {a} /\ UNCHANGED pc
           ELSE /\ handlers' \in {handlers, handlers \cup {a}}
                /\ Goto(r, IF todo[r] = {} THEN End(r) ELSE "init")
    /\ UNCHANGED <<account, instances, missing, list, todo, chainVars, link, birthSub,
                   haVars, unlisted, spent>>

-----------------------------------------------------------------------------
(* The polling chain.                                                      *)

\* _startPolling: the startup timer fires.
TimerFires(a) ==
    /\ timers[a] > 0
    /\ timers' = [timers EXCEPT ![a] = @ - 1]
    /\ firsts' = [firsts EXCEPT ![a] = IF a \in instances THEN @ + 1 ELSE @]
    /\ UNCHANGED <<account, instances, missing, runVars, intervals, tracked, mqttVars,
                   haVars, unlisted, spent>>

\* Faulty variant: a first poll that fails starts no interval.
FirstPollEndsWell(a) ==
    /\ firsts[a] > 0
    /\ firsts' = [firsts EXCEPT ![a] = @ - 1]
    /\ \E ok \in BOOLEAN :
          IF ok /\ a \in instances
          THEN /\ intervals' = [intervals EXCEPT ![a] = @ + 1]
               /\ tracked' = tracked \cup {a}
          ELSE UNCHANGED <<intervals, tracked>>
    /\ UNCHANGED <<account, instances, missing, runVars, timers, mqttVars, haVars,
                   unlisted, spent>>

\* The first poll ends, well or badly: _startIntervalPolling.  The entry of an
\* interval that was tracked before is overwritten.
FirstPollEnds(a) ==
    /\ firsts[a] > 0
    /\ firsts' = [firsts EXCEPT ![a] = @ - 1]
    /\ IF a \in instances
       THEN /\ intervals' = [intervals EXCEPT ![a] = @ + 1]
            /\ tracked' = tracked \cup {a}
       ELSE UNCHANGED <<intervals, tracked>>
    /\ UNCHANGED <<account, instances, missing, runVars, timers, mqttVars, haVars,
                   unlisted, spent>>

\* A poll sees a change: applianceDiscoveryCallback.
StateChanged(a) ==
    /\ firsts[a] + intervals[a] > 0 /\ a \notin matched
    /\ matched' = matched \cup {a}
    /\ announced' = IF link THEN announced \cup {a} ELSE announced
    /\ UNCHANGED <<account, instances, missing, runVars, chainVars, mqttVars, unlisted, spent>>

\* The stored discovery config has not been set for a day (defaultTtl).
CacheExpires(a) ==
    /\ a \in matched /\ matched' = matched \ {a}
    /\ UNCHANGED <<account, instances, missing, runVars, chainVars, mqttVars, announced,
                   unlisted, spent>>

-----------------------------------------------------------------------------
(* The broker, Home Assistant, the account, time.                          *)

Disturbance == spent < MaxDisturbances /\ spent' = spent + 1

\* The runs that await a subscribe call go on.
AllGoOn == pc' = [r \in Runs |-> IF pc[r] # "sub" THEN pc[r]
                                 ELSE IF todo[r] = {} THEN End(r) ELSE "init"]

\* mqtt.js answers every call on its way with an error when its stream closes: an
\* unsubscribe drops the handler all the same, a subscribe sets none.  The broker may
\* come back without the messages it retained.
LinkDrops ==
    /\ link /\ Disturbance
    /\ link' = FALSE
    /\ ops' = [a \in Appliances |-> <<>>]
    /\ handlers' = {a \in handlers : None \notin Range(ops[a])}
    /\ AllGoOn
    /\ birthSub' = IF birthSub = "pending" THEN "failed" ELSE birthSub
    /\ announced' \in {announced, {}}
    /\ UNCHANGED <<account, instances, missing, list, todo, chainVars, matched, unlisted>>

\* Connected, the reconnect handler republishes the state of every instance.
LinkUp ==
    /\ ~link /\ link' = TRUE
    /\ UNCHANGED <<account, instances, missing, runVars, chainVars, ops, handlers, birthSub,
                   haVars, unlisted, spent>>

\* _registerBirthHandler: registered once, also if the broker refuses.
BirthSubscribed ==
    /\ birthSub = "pending" /\ link
    /\ birthSub' \in {"yes", "failed"}
    /\ UNCHANGED <<account, instances, missing, runVars, chainVars, ops, handlers, link,
                   haVars, unlisted, spent>>

\* A birth message of Home Assistant: republishAll.
Birth ==
    /\ birthSub = "yes" /\ link
    /\ announced' = announced \cup instances
    /\ UNCHANGED <<account, instances, missing, runVars, chainVars, mqttVars, matched,
                   unlisted, spent>>

\* An appliance is registered with the account or removed from it.
AccountChanges(a) ==
    /\ Disturbance
    /\ account' = IF a \in account THEN account \ {a} ELSE account \cup {a}
    /\ UNCHANGED <<instances, missing, runVars, chainVars, mqttVars, haVars, unlisted>>

\* Time since, up to the grace period; more makes no difference.
Older(age) == IF age \in 0 .. Grace - 1 THEN age + 1 ELSE age

Tick ==
    /\ missing' = [a \in Appliances |-> Older(missing[a])]
    /\ unlisted' = [a \in Appliances |-> Older(unlisted[a])]
    /\ UNCHANGED <<account, instances, runVars, chainVars, mqttVars, haVars, spent>>

-----------------------------------------------------------------------------
RunStep(r) == \/ discoverAppliances(r) \/ ListServed(r) \/ ListFails(r) \/ ListHandled(r)
              \/ r = Main /\ MainListHandled
              \/ \E a \in Appliances : InfoFails(r, a) \/ initializeAppliance(r, a)
ApplianceStep(a) == \/ Acknowledge(a) \/ TimerFires(a) \/ FirstPollEnds(a)
                    \/ StateChanged(a) \/ CacheExpires(a) \/ AccountChanges(a)

Next == \/ \E r \in Runs : RunStep(r)
        \/ \E a \in Appliances : ApplianceStep(a)
        \/ LinkDrops \/ LinkUp \/ BirthSubscribed \/ Birth \/ Tick

Spec == Init /\ [][Next]_vars

\* The interval fires, calls end, time passes, the link recovers, and the cloud does
\* not refuse everybody for ever.
FairSpec ==
    /\ Spec
    /\ \A r \in Runs : WF_vars(RunStep(r))
    /\ SF_vars(\E r \in Runs : ListServed(r))
    /\ SF_vars(MainListHandled \/ \E r \in Discoveries : ListHandled(r))
    /\ \A a \in Appliances : /\ SF_vars(\E r \in Runs : initializeAppliance(r, a))
                             /\ WF_vars(Acknowledge(a)) /\ WF_vars(TimerFires(a))
                             /\ WF_vars(FirstPollEnds(a))
    /\ WF_vars(LinkUp) /\ WF_vars(Tick)

-----------------------------------------------------------------------------
(* Properties.                                                             *)

\* An absence is only ever timed for an appliance that is managed, although runs
\* overlap: no entry outlives its appliance to remove its successor at once.
MissingAreManaged == \A a \in Appliances : missing[a] # None => a \in instances

\* An appliance is removed only if no list handled within the grace period held
\* it: failures, lists handled out of order and overlapping runs remove nobody early.
NoEarlyRemoval ==
    [][\A a \in instances \ instances' : unlisted[a] = Grace]_vars

\* A managed appliance is polled, or will be: whichever runs initialize it and clean it
\* up, and whenever its timers and first polls end, a chain is left, and the entry of
\* applianceStateIntervals stands for a running interval.
ManagedIsPolled ==
    /\ \A a \in instances : timers[a] + firsts[a] > 0 \/ a \in tracked
    /\ \A a \in tracked : intervals[a] > 0

\* The command topic follows the life of the appliance: of the calls that the
\* broker has still to acknowledge the last one is right, and with none left an
\* appliance that is not managed has no handler.  A late unsubscribe takes no
\* handler away from an appliance initialized again, a late subscribe gives none back.
HandlerFollowsInstance ==
    \A a \in Appliances : IF ops[a] = <<>> THEN a \in handlers => a \in instances
                          ELSE Last(ops[a]) # None <=> a \in instances

\* An appliance that stays registered is managed in the end, and one that stays
\* away is dropped in the end, whatever fails in between.
RegisteredIsManaged ==
    \A a \in Appliances : <>[](a \in account) => <>[](a \in instances)
GoneIsDropped ==
    \A a \in Appliances : <>[](a \notin account) => <>[](a \notin instances)

\* Cleaning an appliance up clears its polling interval.
RemovedIsNotPolled == \A a \in Appliances : a \notin instances => intervals[a] = 0

\* A connect event republishes the discovery config of every managed appliance.
AnnouncedOnConnect == [][~link /\ link' => instances \subseteq announced']_vars
=============================================================================
