# TLA+ models of electrolux-to-mqtt

electrolux-to-mqtt is a bridge: it logs in to the Electrolux cloud, polls the
state of the account's air conditioners, publishes it over MQTT to Home
Assistant, and turns Home Assistant's commands into requests to the cloud.  This
directory holds TLA+ modules of its core logic, the TLC configurations that check
them on small instances, and theorems that TLAPS proves for every instance.
Paths below are relative to the repository's `src/`.

Run from this directory:

    tlc -config MCAuthGate.cfg MCAuthGate.tla      # any MC*.cfg with its module
    tlapm AuthGateProofs.tla                       # any *Proofs.tla

`PROJECT.json` lists every run, the lines each definition models, the mutants
that show that each checked property can fail, the hazards and the findings.

## 1. Inventory

| Component | State it keeps | Operations | Interacts with |
|---|---|---|---|
| Cloud session, `electrolux.ts` 218–594, 685–705 | tokens and their expiry, `isLoggingIn`, `isLoggedIn`, `loginWaiters`, the axios client, retry timers | `login`, `refreshTokens`, `waitForLogin`, `ensureValidToken`, `handleApiRequest` | every API call; started by `main` |
| State and commands, `electrolux.ts` 707–985 | `lastActiveMode`, `lastCommandTime`, the cache's state entry | `getApplianceState`, `sendApplianceCommand`, feedback and revert | session, appliance classes, cache, MQTT |
| Appliance classes and normalizers, `appliances/` | capabilities | `normalizeState`, `validateCommand`, `transformMqttCommandToApi`, discovery config | called by the two above |
| Cache, `cache.ts`, `canonical-stringify.ts` | LRU map of JSON strings | `get`, `set`, `matchByValue`, `delete` | client, orchestrator |
| MQTT, `mqtt.ts` | connection, topic handlers, connect callbacks | publish (dropped while disconnected), subscribe, unsubscribe | broker |
| Orchestrator, `orchestrator.ts`, `index.ts` | instances, intervals, timers, missing-since times | discovery runs, initialize, clean up, connect and birth handlers, shutdown | all of the above |
| Watchdog, `orchestrator.ts` 48–64, `health.ts` | time of the last success, health file | `trackApiResult`, `writeHealthStatus`, `isHealthy` | polls, Docker |
| Version checker, `version-checker.ts`, `telemetry.ts` | last info published, version notified | `checkForUpdates`, telemetry ping | GitLab, ntfy, MQTT |
| Badges of the telemetry backend, `telemetry-backend/src/badge-store.ts`, `badges.ts`, `index.ts` | telemetry and release tags in memory, four files | regenerations by an interval and by a one-shot process | ClickHouse, GitLab, the reverse proxy |
| Ingest of the telemetry backend, `server.ts`, `rate-limit.ts`, `ip.ts` | windows of the rate limiter, requests in flight | `POST /telemetry` | bridges, Aptabase |
| Configuration, logging, migration, helpers | none after start | — | all |

What is hard here is that everything runs in one event loop with awaits in every
operation and no lock: polls, discoveries and commands overlap, several login and
refresh flows write the same tokens, answers arrive after the state they were
asked in has gone, MQTT drops what is published while it is down, and the cache
holds two shapes of state.  What makes each component correct:

- session: nobody waits at the login gate without somebody working to open it; an
  open gate means a usable session; lost tokens lead to a login; calls return;
- state and commands: Home Assistant shows what the bridge holds, and in the end
  what the appliance does; feedback agrees with what the command does;
- orchestrator: registered appliances are managed and polled, others are dropped,
  never early; command handlers follow the instances;
- watchdog: it restarts on outages and on nothing else; the health file is fresh
  exactly when polling works;
- version checker: one notification per release and none too early;
- badges: what was good once stays until something newer replaces it, and in the end
  badges, redirects and counts are those of GitLab and ClickHouse;
- rate limiter: nobody gets more than the limit in a window, nobody is locked out
  longer, and entries do not accumulate.

`PROJECT.json` lists the hazards at their lines with the properties that cover them.
Ten are covered by none, and their notes say why: mostly because the code does
nothing about them, so that the property would not hold (a login request without an
answer, accumulating retries, a subscribe that failed, a poll that outlives its
appliance, an outage behind a closed gate or hidden by commands, an info message
dropped while MQTT is down, releases faster than the grace period, a webhook call
that failed, a command validated against an outdated mode).

## 2. Modules

| Module | Models | Kind |
|---|---|---|
| `LoginGate` | what the session promises its callers: a gate and a queue | abstract |
| `AuthGate` | the session: tokens, flows, retry timers, callers | component, implements `LoginGate` |
| `StateSync` | one appliance's polls, commands, cache, publishing | component |
| `Orchestrator` | discovery runs, polling chains, subscriptions, announcements | component |
| `Watchdog` | health judgement over polls, command delays and the gate | component |
| `VersionOrder` | versions and the two orders of them, the bridge's and the backend's | operators |
| `VersionChecker` | update checks, channel, info message, webhook | component, uses `VersionOrder` |
| `BadgeStore` | regenerations of badges, the backend's memory and files | component, uses `VersionOrder` |
| `FixedWindow` | what a rate limiter with a fixed window promises | abstract |
| `Ingest` | `POST /telemetry` and the rate limiter with its sweep | component, implements `FixedWindow` |
| `AuthGateProofs`, `StateSyncProofs`, `OrchestratorProofs`, `WatchdogProofs`, `VersionCheckerProofs`, `BadgeStoreProofs`, `IngestProofs` | theorems of the component they are named for | TLAPS |
| `VersionOrderProofs` | that both orders of versions are orders, and where they agree; used by `BadgeStoreProofs` | TLAPS |
| `MC*` | model values and instances for TLC | instances |

One action is the code between two awaits that really yield, because JavaScript
runs to completion between them.  Operators keep the names of the functions they
model.  The name of an operator that begins with the name of another one
(`LinkUpSilent` of `LinkUp`) and the comment "Faulty variant" mark the mutants:
nothing uses them.

**AuthGate.**  A caller (`main` or a member of `Requests`: a poll, a discovery, a
command) walks through `handleApiRequest`: `ensureValidToken`, the request
interceptor's wait, the request, and after a 403 the forced refresh and one retry.
A member of `Flows` is one login or refresh with its chain of retry timers;
nothing in the code keeps two callers from starting two, so flows are a set and
their number is a bound.  The server's answers are unconstrained.  Tokens are
known by their relation to the current client's header, because only that matters:
a request sent by a client that has been replaced carries a stale token.  The
retry counters set delays only and are left out, as timers may fire at any time.

**StateSync.**  A poll is asked, served by the cloud and handled at three moments;
a command is validated and queued, sent, carried out by the cloud, and answered.
The cloud's copy of the appliance lags behind the appliance, which is why the code
has a command delay.  The cache entry keeps its shape: the API's after a poll,
normalized after a command.  The device, the cloud's copy, Home Assistant and its
birth message are external.  Commands change one field at a time, as the discovery
templates do.  A call's wait at the login gate is part of its time in flight.
A PUT refused with a 403 is made again and sets `lastCommandTime` once more
(`CommandRetried`); that this happens once per command is left to `AuthGate`.
Mode, fan speed and power are modelled; temperature, swing and sleep mode are
carried along by the same code without further control, except for validation.
`logging.ignoredKeys`, whose changes are neither logged nor published, is taken not
to name an attribute that is modelled; if it does, nothing converges in that one.

**Orchestrator.**  A run is `main`'s startup loop or one `discoverAppliances()`.
Per appliance it counts startup timers, first polls and intervals, because an
interval whose entry in `applianceStateIntervals` was overwritten can no longer be
cleared.  Subscriptions are acknowledged in the order of the calls and only while
the link is up; the run awaits them.  When the link drops, mqtt.js answers all of
them with an error (`LinkDrops`); calls made while it is down wait for it.  Timestamps are ages that stop at the grace
period.  `shutdown()` is not modelled: `index.ts` exits the process after it.

**Watchdog.**  Time is counted in ticks longer than a request's timeout.  A poll
is skipped within the command delay, waits at the gate, is answered, fails or is
refused; each result but the wait is tracked.  Ages stop where no comparison
distinguishes them.

**VersionChecker.**  A version is its number and its label, which is all that
`splitVersion` gets out of the string; strings that are no versions are left out.
A check waits for the list of releases, then perhaps for the tags, then perhaps
for the webhook; GitLab, the broker and time move in between.  The latest version
is the latest by date, as in the code, which need not be the highest one.  One check
ends before the next begins, because three requests of 10 seconds are shorter than
the smallest interval of a minute.  GitLab's lists only grow: a release or tag that is
deleted is not modelled, and `ReleaseNotifiedOnce` depends on that, for a deletion can
make an older release the latest again.  The telemetry ping keeps no state and is left out.

**VersionOrder.**  The repository orders versions twice, in `version-checker.ts` and
in `badges.ts`; both orders are defined over the same versions, so that their
agreement can be stated.  Strings that are no versions are left out.

**BadgeStore.**  A run of `regenerate()` goes through its awaits: the queries, the
two telemetry files, the list of releases, the two badges.  Each may fail, and a
half that fails ends.  The server's interval awaits no run, so that runs overlap;
one-shot processes write the same files and have a memory nobody reads.  The newest release may be deleted (`Withdrawn`), down to an empty list.  A write that
fails, and a stop in the middle of one, may leave a truncated file (`Torn`), because
`fs.writeFile` truncates the file before it writes; that a
reader may see a file while it is written is left out.  Only the number of users
stands for the answers of ClickHouse.  GitLab lists a page of releases, the newest
first; which of them are drawn on a badge or redirected to is `fetchLatestReleases`
and `betaIsNewer`.

**Ingest.**  Timestamps are ages that stop at two windows, where no comparison
tells them apart any more; `Date.now()` is taken to be monotonic, so that a clock set
back is not modelled.  A request passes the limiter and the content type without an
await, then waits for its body, and after its answer for Aptabase; what a body
holds decides between outcomes only.  `recent` is a history variable, which counts
the requests that were admitted.

### Interaction and composition

The components share few variables, and each module holds the others' part as
its environment: `StateSync` and `Watchdog` take the gate of `AuthGate` as delay or
as a variable that may close at any time and opens only with the API;
`Orchestrator` takes the result of a poll as any result; `VersionChecker`
shares only the MQTT link with them, and takes it as one that changes at any time;
`Watchdog` takes polling as the interval that `Orchestrator` maintains; the backend's
two components share nothing, and the bridges are its clients, who may send anything.  These are over-approximations, so
that the safety properties hold of the composition.  `AuthGate` implements
`LoginGate`, the interface the others rely on.  `VersionChecker` and `BadgeStore`
meet in `VersionOrder`: `OrdersAgree` says that the badges call newer what the
bridges announce as newer.

## 3. Runs

Deadlock is checked except in `watchdog`, where the process may exit.

| Run | Instance | Properties | What it shows |
|---|---|---|---|
| `auth` | `main`, 2 requests, 2 flows | `TypeOK`, `NoOrphanWaiter`, `WaitersAreBlocked`, `OpenGateHasSession`, `ReloginPending`, `RetryUsesNewToken`, `WaitersLeaveOnlyByLogin`, `EveryCallReturns`, `ImplementsLoginGate` | the gate and the tokens stay consistent whatever flows overlap and however they end; every call returns; the client is a `LoginGate` |
| `sync` | 2 polls at once, 1 command, 1 disturbance | `TypeOK`, `ViewMatchesCache`, `LastModeKnown`, `FeedbackAgreesWithDevice`, `Converges` | no interleaving separates Home Assistant from the cache, or feedback from the command's effect; answers that overtake each other do not leave a stale view for good |
| `sync_stale` | 1 poll, 1 command | `DelayKeepsFeedback` | finding, below |
| `orch` | 1 appliance, `main`, 2 discoveries, 2 disturbances, grace 2 | `TypeOK`, `MissingAreManaged`, `ManagedIsPolled`, `HandlerFollowsInstance`, `NoEarlyRemoval`, `RegisteredIsManaged`, `GoneIsDropped` | overlapping runs keep managing, polling and subscribing in step; the managed set follows the account |
| `orch_connect` | 2 disturbances | `AnnouncedOnConnect` | finding |
| `orch_leak` | 2 discoveries | `RemovedIsNotPolled` | finding |
| `watchdog` | 2 appliances, refresh 1, delay 2, threshold 3, 1 command | `TypeOK`, `NoRestartWhileAnswered`, `HealthyWhenCalm`, `OutageEndsInRestart` | no early exit, a fresh health file in calm times, an exit in an outage |
| `watchdog_spurious` | 1 appliance, refresh 2, delay 3, threshold 4, 2 commands | `RestartMeansApiFailure` | finding |
| `version` | 2 versions, 8 installations, grace 1, 4 moments, 1 restart | `TypeOK`, `AnnouncedIsDue`, `StableSeesNoPreRelease`, `ReleaseNotifiedOnce`, `UpdateIsAnnounced` | only what is due and of the channel is shown and notified, once per release, and in the end |
| `badges` | 2 overlapping runs, 4 versions, a page of 2, 2 disturbances | `TypeOK`, `OrdersAgree`, `LastGoodKept`, `ReleasesConverge`, `TelemetryConverges` | no failure or overlap loses a good value or replaces it by a worse one; badges, redirects and counts settle on the sources' values |
| `badges_failed` | 1 run | `RedirectMatchesBadge` | finding |
| `ingest` | 1 client and the unknown one, 2 requests at once, limit 2, window 3 | `TypeOK`, `BurstBound`, `NoLockout`, `TrackedAreRecent`, `ImplementsFixedWindow` | windows and sweeps admit no burst, lock nobody out, keep no old entry, and are a fixed window to every client |

**Why the bounds are enough.**  Two flows let one fail, be rejected or succeed
around the other one, and the safety of the gate is proved for any number of them;
two requests are enough for one to wait while the
other one refreshes, or to be refused the same token.  Two overlapping polls are the smallest case of reordering (the
safety of `StateSync` is proved for any number of polls and commands), and a disturbance is a
change of the appliance, a broker outage, a Home Assistant restart, the expiry of
the cached state or a restart of the bridge, each of which occurs at every moment.  The appliances of the
orchestrator share only the runs' queues, so that one appliance meets every
interleaving of two runs and `main`; two disturbances let it leave and return,
or the link fail in between, and the proofs hold for any number.  A grace period of two ticks separates
"not yet", "just now" and "since long".  In the watchdog two appliances are needed
because they share the clock, and the threshold exceeds the delay, as the
configuration's ranges do (10 minutes and more against 300 seconds and less).  Of
versions, a CalVer beta and its stable version can each be the latest, the running
one or one to come, next to a shorter older number; each is tagged and released at
any of four moments, the grace period being one; the installations set every
source of the channel, to stable and to beta, with a webhook and without one, and run
the older number, the beta (also on the stable channel) or the newest version, which
must not be told of a downgrade.  Both versions can be announced to the same process, which
is what notifying twice needs.  Of the badges' disturbances (releases, their withdrawal, changes
of the count, failed writes, stops) two are enough to fail between two states of the world,
and to fill a page of two with betas so that the stable release leaves it.  The runs
that overlap are the server's; with a one-shot process in place of one of them the
same properties hold of 717,536 states, which takes longer.  A window of three ticks
has a beginning, a middle and an end, and a sweep falls on each of them.

**Fairness.**  Event-loop steps that are ready run; requests end because the axios
client has a timeout; timers fire.  These are weak fairness.  Strong fairness is
assumed of the environment only: a server that is asked again and again accepts
at some point, a list or state that is requested for ever is served at some
point, and of steps that only the models' bounds disable.  The requests of `login()`
itself go through bare axios calls without a timeout: that they end is an
assumption on the network, which the code does not enforce.  The liveness
properties of `StateSync` and `Orchestrator` speak of behaviours in which
disturbances are over; that is what their bound on disturbances says.
`UpdateIsAnnounced` assumes a link that stays up, because an info message dropped
while it is down is remembered as published (version-checker.ts:356; only states
are republished on connect), and a release that stays the latest, because a newer one
starts the grace period anew.  In `BadgeStore` the container is restarted, its
interval fires, calls end, and GitLab's list is fetched again and again in the end;
ClickHouse may fail for ever (`ReleasesConverge` holds all the same), and
`TelemetryConverges` states its assumption itself: telemetry goes on to be written
from time to time.  Writes do not fail for ever, as they are bounded disturbances.
`Ingest` needs no fairness.  `OutageEndsInRestart` assumes an open gate: behind a closed one polls report
nothing, and the bridge goes on retrying its login for as long as that takes.

## 4. Findings

- **`sync_stale`** — the command delay is consulted when a poll begins, so that a
  poll in flight at that moment overwrites the command's feedback with the state
  before it, which `config.example.yml` says the delay prevents.  `sync` shows
  that the view recovers with a later poll.
- **`orch_connect`** — the connect handler republishes states but not discovery
  configs, contrary to the comment on `republishAll`; an appliance initialized while
  MQTT is down is unknown to Home Assistant until its birth message or a change.
- **`orch_leak`** — two overlapping discovery runs initialize the same appliance
  twice, and its clean-up then clears one of two intervals.
- **`watchdog_spurious`** — a poll skipped because of a command returns `undefined`
  when the cached state is a normalized one, which the watchdog counts as an API
  failure: the process can exit although no request has failed.
- **`badges_failed`** — the tag that `GET /stable` redirects to is set before its badge
  is written, so that after a failed write, and until a later cycle, memory and disk
  disagree, while the comment on the store says that on failure nothing is overwritten.
  The same run has the other way to break that promise: the failed write may have
  truncated the badge, which is why `LastGoodKept` exempts a file whose own write fails
  or is stopped.  `badges` shows that badge and redirect agree again in the end.

## 5. Proofs

TLAPS checks these for every set of callers, appliances, runs and clients and every
value of the constants that satisfies the modules' assumptions (`AuthAssumption`,
`SyncAssumption`, `OrchestratorAssumption`, `WatchdogAssumption`, `VersionAssumption`,
`BadgeAssumption`, `IngestAssumption`: intervals and bounds are numbers, model values
differ from data, and what versions and settings consist of).  Every invariant and
every action property that a run checks is proved, and of the liveness properties the
part that is safety: that a state once settled stays so.

**AuthGateProofs.**  None of the gate's invariants is inductive by itself: that a
waiter is not orphaned depends on who closed the gate.  `IInv` is the conjunction
of `TypeOK`; `OwnersAwait` (a flow's attempt is awaited by one caller at most, who
is where he awaits it); `LoggingInHasFlow` and `ClosedGateHasFlow` (a closed gate
has a flow: the heart of the argument, since every path that ends an attempt
without success sets a timer); `WaitersAreBlocked`; `QueueBehindClosedGate`;
`StartupIsAlone` (before `main` is done nobody else calls, which its two ways
through the gate need); and `NoTokenHasLogin`.  Steps are grouped by the shape they
share, and there is one lemma per shape.  From `IInv`: `TypeCorrect`, `NoOrphan`,
`WaitersBlocked`, `Relogin`; as an action property `WaitersLeave`; and
`RefinesGate`: the initial states and every step of the client are those of
`LoginGate` or stutter.  `OpenGateSession` adds that a client with a header behind an
open gate has all the tokens (`HeaderHasTokens`) and that `main` is past its start
only with such a client (`MainHasHeader`).  `RetryToken` adds that only an attempt
under way is awaited (`OwnedIsAttempt`) and that a forced refresh that goes on as a
login has dropped the refused token (`RefusedIsDropped`).

**StateSyncProofs.**  `ViewMatchesCache` and `LastModeKnown` need each other and two
facts: an answer in flight is a report, in which only an appliance that is off has no
mode (`AnswersAreReports`), and a state that is on without a mode was left by a
command that found none to restore (`OnWithoutMode`).  `FeedbackRight` compares the
two translations of a command, the one for the API and the one for the cache, over all
commands, modes and settings of the two flags.  `PollsCorrectTheView` says that an
answer which saw the appliance as it is corrects Home Assistant whatever shape the
cache had: a normalized entry is taken for no state, a raw one that is equal was
published already.

**OrchestratorProofs.**  `IInv` adds to the types: the chains of an appliance are
bounded together (`ChainsBounded`); an absence is no older than the last list with
the appliance (`AbsenceIsUnlisted`), which is why nobody is removed early; no
discovery runs before `main` is done (`StartupIsAlone`); and every subscribe call that
is not acknowledged is awaited by the one run that made it (`AwaitedOnce`), from which
it follows that a late acknowledgement never gives a removed appliance its handler
back (`HandlerFollowsInstance`).  `RegisteredStaysManaged` and `GoneStaysDropped` need
that only a list without the appliance removes it (`OnlySweptLeave`, `GoneFacts`), that
a list to be handled is one the account has just served or one known before
(`ListsToHandle`), and that a run initializes only what a list held (`TodoIsListed`).

**WatchdogProofs.**  `IInv` adds to the types that an appliance's polls are bounded
as a whole and that the watchdog's clock is never older than the last answer
(`ClockIsRecent`), from which `NoEarlyRestart` follows: whatever is skipped,
delayed or refused, the process does not exit within the threshold of an answer.
`FileIsFresh` rests on `FileFollowsTimer`: since an appliance's interval fired last,
either it has not been calm for longer or its poll has refreshed the file.
`RestartsAreFailures` complements a finding: where no command is ever sent, no poll is
skipped, and the process exits only after a request that has failed.

**VersionCheckerProofs.**  The checker remembers one version only; that it still
notifies no release twice (`NotifiedOnce`) rests on dates.  `IInv` says, beside the
types: releases have different dates (`ReleasesDiffer`); what was notified as a
release is still one that the channel lets through, so that the tags are not asked
any more (`NotifiedAreReleases`); everything notified is older than what was notified
last, where the webhook call under way counts (`LastIsLatest`); and the channel is the
installation's and lets through what is notified (`ChannelFits`).  `StableOnly` is
about every step that notifies or shows a version: the webhook's and the info
message, which every installation gets; what is shown is the version the check has
just judged, so that a pre-release must have passed the channel's filter
(`JudgeShows`).  `AnnouncedDue` compares the lexicographic order of the code with
the number `Rank`, which tells versions of at most three parts below 100 apart
(`SmallVersions`).

**VersionOrderProofs.**  `VersionsAreOrdered`: `compareVersions` of the bridge answers
the opposite the other way round and is transitive, for version numbers of any
length; since it looks for the first part that differs, that takes a least index
(`LeastExists`, from `WFMin` of the well-founded order of the naturals) and the
transitivity of a lexicographic order.  `ComparatorIsConsistent` says the same of
`compareVersionsDescending`, which the backend hands to `sort`.

**BadgeStoreProofs.**  `IInv` says that what a run goes on with belongs to the file
it writes next, and that it writes the stable badge only when its list has a stable
release (`StableIsFound`); with that no value is lost but by a write of its own that fails or is
stopped, and as long as no run under way has found an older answer
(`CountsCarried`, `ReleasesCarried`) nothing but the present answer is written or
remembered, a list without releases changes nothing, and one without a stable release
leaves the stable badge alone (`LastGood`), whichever runs overlap, one-shot processes
among them.  `ReleasesKept` and `TelemetryKept` say what it
takes for the badges to stay right: that they are, and that no run under way carries
an older list or count; overlapping runs then write only what is there already
(`CarriesOn`, `CountsOn`).  `RedirectAgreesAlone` complements a finding: with one run at
a time, only a write that fails separates the badge from the redirect; its invariant
adds that the run about to write has set the tag (`StableIsSet`) and that a stopped
server runs nothing (`DownIsIdle`).  `OrdersSame` takes both version orders to the
first part that differs (`FirstDifference`), for all numbers.

**IngestProofs.**  An entry outlives its window by no more than the time to the next
sweep (`SweepBound`), from which `LimiterForgets` follows, and a window that counts was
opened by a request that was admitted (`OpenedByAdmitted`), from which
`LimiterAdmitsAgain` follows.  `LimiterBoundsBursts` is about a sum over the ages of all admissions, which
the module defines by a recursive function.  That the function exists and what it
does at each age (`SumExists`, `SumsAre`) is shown without an induction theorem: a
set of ages that holds 0 and with each age the next one lacks none, since it would
lack a least one (`NoneMissing`).  With that, an admission adds one to every sum
(`SumWithOneMore`) and a tick moves the sums by one (`SumOneTickLater`).  The invariant
(`Budget`, with a bound for each client in `Within`) bounds the admissions in the window
that counts by its count, and those before it by the limit, which is where twice the
limit comes from.
`LimiterImplementsFixedWindow` maps the entries that
count to the windows of `FixedWindow`: sweeps and entries that have expired are invisible.

**What is settled stays settled.**  A property `<>[]P` of a run says that P is reached
and kept.  That it is kept is proved, with P strengthened by what must not be under
way: `SettledIsKept` for `Converges`, `RegisteredStaysManaged` and `GoneStaysDropped` for
`RegisteredIsManaged` and `GoneIsDropped`, `AnnouncedStands` for `UpdateIsAnnounced` (the
answer about the releases finds the same one, because their dates differ, and the
message published is the last one), `ReleasesKept` and `TelemetryKept` for
`ReleasesConverge` and `TelemetryConverges`.  TLC has checked each of these formulas,
and that states which satisfy the strengthened P while something is under way are
reached, on the instances of the runs before they were proved.

Only model-checked: that the settled states are reached, and all other liveness
(`EveryCallReturns`, `OutageEndsInRestart`, and the fairness of `LoginGate`), because TLAPS
does not reason about fairness and ENABLED here.

## 6. What is left

1. `Climate`: validation, translation and feedback of all fields (temperature,
   swing, sleep mode) as pure operators against a reference definition, and
   `getStateDifferences` with ignored keys.
2. A composition of `Orchestrator` and `StateSync` for polls that outlive their
   appliance: such a poll puts the removed appliance's state back into the cache.
3. A composition of `AuthGate` and `Watchdog`: outages that close the gate.

Not modelled, and why: configuration parsing, logging, the migration, CI and
release scripts and the Dockerfile keep no state the properties depend on;
of the backend the drawing of badges, the contents of bodies and events, the SQL, a
reader that meets a file during a write and a clock that is set back; LRU eviction
does not occur at the cache's size of 1000 for a handful of keys (entries do expire,
which is modelled); `shutdown()` of the bridge is followed by the end of the process.
