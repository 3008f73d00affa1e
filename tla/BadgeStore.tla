----------------------------- MODULE BadgeStore -----------------------------
(***************************************************************************)
(* The badges of the telemetry backend (telemetry-backend/src): a run of   *)
(* regenerate() (badge-store.ts) queries ClickHouse and GitLab and writes  *)
(* four files that the reverse proxy serves; the server (index.ts) keeps   *)
(* what its runs found in memory for its endpoints.                        *)
(*                                                                         *)
(* The server's interval does not await the run it starts, so that runs    *)
(* overlap, and a one-shot process (regenerate-badges.ts) writes the same  *)
(* files.  A file is written in one step that may fail and leave it        *)
(* truncated, as a stop in the middle of a write does; that a reader may   *)
(* see a file during a write is left out.  The code between two awaits is  *)
(* one action.                                                             *)
(***************************************************************************)
EXTENDS VersionOrder

CONSTANTS
    Tags,               \* the versions that may be released
    Counts,             \* the numbers of users ClickHouse may count
    ServerRuns,         \* bounds: runs of the server at once, one-shot processes at once
    OneShots,
    PageSize,           \* how many releases GitLab lists
    MaxDisturbances,    \* bound: releases and their withdrawals, changes of the count,
                        \* failed writes, stops
    None, Torn, Invisible

Runs == ServerRuns \cup OneShots
Files == {"users", "json", "stable", "beta"}

ASSUME BadgeAssumption ==
    /\ \A v \in Tags : IsVersion(v) /\ Len(v.core) <= 3
    /\ ServerRuns \cap OneShots = {}
    /\ PageSize \in Nat \ {0} /\ MaxDisturbances \in Nat
    /\ \A x \in {None, Torn, Invisible} : x \notin Tags /\ x \notin Counts
    /\ None # Torn /\ None # Invisible /\ Torn # Invisible

VARIABLES
    releases,       \* GitLab's list, the newest first
    usage,          \* the users ClickHouse counts now
    server,         \* "down", "starting" (its first run is awaited) or "up"
    pc,             \* each run: "idle", "query", "fetch", or the file it writes
    found,          \* what it goes on with: a count, the release tags, or the beta badge
    telemetryJson, stableTag, betaTag,  \* the server's memory
    files,          \* the content of each file
    spent           \* disturbances so far

worldVars  == <<releases, usage>>
memoryVars == <<telemetryJson, stableTag, betaTag>>
vars == <<releases, usage, server, pc, found, telemetryJson, stableTag, betaTag, files, spent>>

NoReleases == [stable |-> None, beta |-> None]
Latest == [stable : Tags \cup {None}, beta : Tags \cup {None}]

TypeOK ==
    /\ releases \in Seq(Tags) /\ usage \in Counts
    /\ server \in {"down", "starting", "up"}
    /\ pc \in [Runs -> {"idle", "query", "fetch"} \cup Files]
    /\ \A r \in Runs : found[r] \in CASE pc[r] \in {"users", "json"} -> Counts
                                      [] pc[r] = "stable" -> Latest
                                      [] pc[r] = "beta"   -> Tags \cup {Invisible}
                                      [] OTHER            -> {None}
    /\ telemetryJson \in Counts \cup {None}
    /\ {stableTag, betaTag} \subseteq Tags \cup {None}
    /\ files.users \in Counts \cup {None, Torn} /\ files.json \in Counts \cup {None, Torn}
    /\ files.stable \in Tags \cup {None, Torn}
    /\ files.beta \in Tags \cup {None, Torn, Invisible}
    /\ DOMAIN files = Files /\ DOMAIN found = Runs
    /\ spent \in 0 .. MaxDisturbances

Init ==
    /\ releases \in {<<>>} \cup {<<v>> : v \in Tags} /\ usage \in Counts
    /\ server = "down"
    /\ pc = [r \in Runs |-> "idle"] /\ found = [r \in Runs |-> None]
    /\ telemetryJson = None /\ stableTag = None /\ betaTag = None
    /\ files = [f \in Files |-> None]
    /\ spent = 0

-----------------------------------------------------------------------------
(* What GitLab's list says.                                                *)

ReleasedTags == {releases[i] : i \in DOMAIN releases}

\* The first tag of a page that is a beta, or the first that is none.
FirstTag(page, isBeta) ==
    LET hits == {i \in DOMAIN page : isBetaTag(page[i]) = isBeta}
    IN  IF hits = {} THEN None ELSE page[CHOOSE i \in hits : \A j \in hits : i <= j]

fetchLatestReleases ==
    LET page == SubSeq(releases, 1, IF Len(releases) < PageSize THEN Len(releases) ELSE PageSize)
    IN  [stable |-> FirstTag(page, FALSE), beta |-> FirstTag(page, TRUE)]

betaIsNewer(latest) ==
    /\ latest.beta # None
    /\ latest.stable = None \/ compareVersionsDescending(latest.beta, latest.stable) < 0

\* Faulty variant: the beta that was found, newer or not, or none at all.
betaBadgeFound(latest) == latest.beta

betaBadge(latest) == IF betaIsNewer(latest) THEN latest.beta ELSE Invisible

\* What GET /beta redirects to.
betaRedirect(latest) == IF betaIsNewer(latest) THEN latest.beta ELSE None

-----------------------------------------------------------------------------
(* A run of regenerate().                                                  *)

Goto(r, label, content) == /\ pc' = [pc EXCEPT ![r] = label]
                           /\ found' = [found EXCEPT ![r] = content]

\* The end of a run: the server's first one lets it listen and start its interval.
Ends(r) == /\ Goto(r, "idle", None)
           /\ server' = IF server = "starting" /\ r \in ServerRuns THEN "up" ELSE server

ServerStarts ==
    /\ server = "down" /\ server' = "starting"
    /\ \E r \in ServerRuns : Goto(r, "query", None)
    /\ UNCHANGED <<worldVars, memoryVars, files, spent>>

\* The interval fires, or somebody runs the one-shot process in the container.
RegenerateStarts(r) ==
    /\ pc[r] = "idle"
    /\ server = "up" \/ (server = "starting" /\ r \in OneShots)
    /\ Goto(r, "query", None)
    /\ UNCHANGED <<worldVars, server, memoryVars, files, spent>>

\* aggregateTelemetry has its answers.
QueryAnswered(r) ==
    /\ pc[r] = "query"
    /\ Goto(r, "users", usage)
    /\ UNCHANGED <<worldVars, server, memoryVars, files, spent>>

\* Faulty variant: one try block around both halves.
QueryFailsBoth(r) ==
    /\ pc[r] = "query"
    /\ Ends(r)
    /\ UNCHANGED <<worldVars, memoryVars, files, spent>>

\* The telemetry half ends and the releases half begins.
QueryFails(r) ==
    /\ pc[r] = "query"
    /\ Goto(r, "fetch", None)
    /\ UNCHANGED <<worldVars, server, memoryVars, files, spent>>

UsersWritten(r) ==
    /\ pc[r] = "users"
    /\ files' = [files EXCEPT !.users = found[r]]
    /\ Goto(r, "json", found[r])
    /\ UNCHANGED <<worldVars, server, memoryVars, spent>>

\* Faulty variant: only the first result is kept in memory.
JsonWrittenOnce(r) ==
    /\ pc[r] = "json"
    /\ files' = [files EXCEPT !.json = found[r]]
    /\ telemetryJson' = IF r \in ServerRuns /\ telemetryJson = None THEN found[r]
                        ELSE telemetryJson
    /\ Goto(r, "fetch", None)
    /\ UNCHANGED <<worldVars, server, stableTag, betaTag, spent>>

JsonWritten(r) ==
    /\ pc[r] = "json"
    /\ files' = [files EXCEPT !.json = found[r]]
    /\ telemetryJson' = IF r \in ServerRuns THEN found[r] ELSE telemetryJson
    /\ Goto(r, "fetch", None)
    /\ UNCHANGED <<worldVars, server, stableTag, betaTag, spent>>

\* The tag of the beta badge is set, and the file is about to be written.
BetaDecided(r, latest) ==
    /\ betaTag' = IF r \in ServerRuns THEN betaRedirect(latest) ELSE betaTag
    /\ Goto(r, "beta", betaBadge(latest))
    /\ UNCHANGED server

\* Faulty variant: an empty list is taken for an answer like any other.
ReleasesFetchedEmpty(r) ==
    LET latest == fetchLatestReleases
    IN  /\ pc[r] = "fetch"
        /\ stableTag' = IF r \in ServerRuns /\ latest.stable # None THEN latest.stable
                        ELSE stableTag
        /\ IF latest.stable = None THEN BetaDecided(r, latest)
           ELSE Goto(r, "stable", latest) /\ UNCHANGED <<server, betaTag>>
        /\ UNCHANGED <<worldVars, telemetryJson, files, spent>>

\* fetchLatestReleases has its answer; the stable tag is set before its file.
ReleasesFetched(r) ==
    LET latest == fetchLatestReleases
    IN  /\ pc[r] = "fetch"
        /\ stableTag' = IF r \in ServerRuns /\ latest.stable # None THEN latest.stable
                        ELSE stableTag
        /\ IF latest = NoReleases THEN Ends(r) /\ UNCHANGED betaTag
           ELSE IF latest.stable = None THEN BetaDecided(r, latest)
           ELSE Goto(r, "stable", latest) /\ UNCHANGED <<server, betaTag>>
        /\ UNCHANGED <<worldVars, telemetryJson, files, spent>>

FetchFails(r) ==
    /\ pc[r] = "fetch"
    /\ Ends(r)
    /\ UNCHANGED <<worldVars, memoryVars, files, spent>>

StableWritten(r) ==
    /\ pc[r] = "stable"
    /\ files' = [files EXCEPT !.stable = found[r].stable]
    /\ BetaDecided(r, found[r])
    /\ UNCHANGED <<worldVars, telemetryJson, stableTag, spent>>

BetaWritten(r) ==
    /\ pc[r] = "beta"
    /\ files' = [files EXCEPT !.beta = found[r]]
    /\ Ends(r)
    /\ UNCHANGED <<worldVars, memoryVars, spent>>

Disturbance == spent < MaxDisturbances /\ spent' = spent + 1

\* mkdir or writeFile rejects: the half ends.
WriteFails(r) ==
    /\ pc[r] \in Files /\ Disturbance
    /\ files' \in {files, [files EXCEPT ![pc[r]] = Torn]}
    /\ IF pc[r] \in {"users", "json"} THEN Goto(r, "fetch", None) /\ UNCHANGED server
       ELSE Ends(r)
    /\ UNCHANGED <<worldVars, memoryVars>>

-----------------------------------------------------------------------------
(* The container, GitLab and ClickHouse.                                   *)

\* shutdown() or a crash, which awaits no run: any file may be truncated that was
\* being written.
ServerStops ==
    /\ server # "down" /\ Disturbance
    /\ server' = "down"
    /\ pc' = [r \in Runs |-> "idle"] /\ found' = [r \in Runs |-> None]
    /\ telemetryJson' = None /\ stableTag' = None /\ betaTag' = None
    /\ \E torn \in SUBSET {pc[r] : r \in Runs} :
          files' = [f \in Files |-> IF f \in torn THEN Torn ELSE files[f]]
    /\ UNCHANGED worldVars

Published(v) ==
    /\ Disturbance
    /\ v \notin ReleasedTags
    /\ releases' = <<v>> \o releases
    /\ UNCHANGED <<usage, server, pc, found, memoryVars, files>>

\* The newest release is deleted.
Withdrawn ==
    /\ Disturbance
    /\ releases # <<>>
    /\ releases' = Tail(releases)
    /\ UNCHANGED <<usage, server, pc, found, memoryVars, files>>

UsageChanges ==
    /\ Disturbance
    /\ usage' \in Counts \ {usage}
    /\ UNCHANGED <<releases, server, pc, found, memoryVars, files>>

-----------------------------------------------------------------------------
HalfStep(r) == \/ QueryAnswered(r) \/ QueryFails(r) \/ UsersWritten(r) \/ JsonWritten(r)
               \/ ReleasesFetched(r) \/ FetchFails(r) \/ StableWritten(r) \/ BetaWritten(r)

Next == \/ ServerStarts \/ ServerStops \/ UsageChanges \/ Withdrawn
        \/ \E r \in Runs : RegenerateStarts(r) \/ HalfStep(r) \/ WriteFails(r)
        \/ \E v \in Tags : Published(v)

Spec == Init /\ [][Next]_vars

\* The container is restarted, its interval fires, calls end, and GitLab does not
\* refuse for ever; ClickHouse may.
FairSpec ==
    /\ Spec
    /\ WF_vars(ServerStarts)
    /\ \A r \in ServerRuns : WF_vars(RegenerateStarts(r)) /\ SF_vars(ReleasesFetched(r))
    /\ \A r \in Runs : WF_vars(HalfStep(r))

-----------------------------------------------------------------------------
(* Properties.                                                             *)

\* The two orders of versions that the repository implements agree, apart from two
\* labels with the same number, which the version checker takes for equal: what the
\* badges show as newer is what the bridges announce as newer.
OrdersAgree ==
    \A v1, v2 \in ReleasedTags :
        v1.pre = v2.pre \/ v1.pre = "" \/ v2.pre = "" \/ v1.num # v2.num =>
            /\ compareVersionsDescending(v1, v2) < 0 <=> compareVersions(v1, v2) > 0
            /\ compareVersionsDescending(v1, v2) > 0 <=> compareVersions(v1, v2) < 0

\* A write of the file fails or is stopped, which truncates it: fs.writeFile truncates
\* before it writes.
Spoilt(f) == files'[f] = Torn /\ spent' # spent /\ \E r \in Runs : pc[r] = f

\* What was found stays found: no file is emptied or hidden for want of an answer, and
\* the memory stays until the server stops, but for a beta that a list has passed.
NothingIsLost ==
    /\ \A f \in Files : files[f] \notin {None, Torn} => files'[f] \notin {None, Torn} \/ Spoilt(f)
    /\ server' # "down" =>
           /\ telemetryJson # None => telemetryJson' # None
           /\ stableTag # None => stableTag' # None
           /\ betaTag # None => \/ betaTag' # None
                                \/ \E r \in ServerRuns : pc'[r] = "beta" /\ found'[r] = Invisible

\* No run under way goes on with another count than the present one.
CountsCarried == \A r \in Runs : pc[r] \in {"users", "json"} => found[r] = usage

\* No run under way goes on with anything but what the list says.
ReleasesCarried(latest) ==
    \A r \in Runs : /\ pc[r] = "stable" => found[r] = latest
                    /\ pc[r] = "beta" => latest # NoReleases /\ found[r] = betaBadge(latest)

\* Unless a run under way has found an older count, or the count changes, nothing but
\* the present count is written or remembered, and no run comes to carry another.
TelemetryGuarded ==
    CountsCarried /\ usage' = usage =>
        /\ CountsCarried'
        /\ \A f \in {"users", "json"} : files'[f] \in {files[f], usage} \/ Spoilt(f)
        /\ telemetryJson' \in {telemetryJson, usage} \/ server' = "down"

\* Likewise for the releases; a list without releases changes nothing at all, and one
\* without a stable release leaves the stable badge and tag alone.
BadgesGuarded ==
    LET latest == fetchLatestReleases
    IN  ReleasesCarried(latest) /\ releases' = releases =>
            /\ ReleasesCarried(fetchLatestReleases)'
            /\ files'.stable # files.stable =>
                   Spoilt("stable") \/ (latest.stable # None /\ files'.stable = latest.stable)
            /\ files'.beta # files.beta =>
                   Spoilt("beta") \/ (latest # NoReleases /\ files'.beta = betaBadge(latest))
            /\ server' # "down" =>
                   /\ stableTag' # stableTag => latest.stable # None /\ stableTag' = latest.stable
                   /\ betaTag' # betaTag => latest # NoReleases /\ betaTag' = betaRedirect(latest)

\* A good value is never lost or replaced by a worse one: queries and fetches that
\* fail, lists without releases, a failure of the other half, a stop, and runs of the
\* server and one-shot processes that overlap leave the last good files and memory as
\* they are (badge-store.ts: "Best-effort").  Only a file whose own write fails or is
\* stopped may be truncated, and only a run that has found an older answer, still
\* under way, may bring that answer back.
LastGoodKept == [][NothingIsLost /\ TelemetryGuarded /\ BadgesGuarded]_vars

\* Once releases, failed writes and restarts are over, every badge and both redirects
\* settle on GitLab's list: the newest stable release, and the newest beta if it is
\* above it, although old runs may have ended after new ones, ClickHouse may never
\* answer, and the list may have no stable release, which leaves the stable badge alone.
ReleasesConverge ==
    <>[](LET latest == fetchLatestReleases
         IN  /\ latest.stable # None =>
                    stableTag = latest.stable /\ files.stable = latest.stable
             /\ latest # NoReleases =>
                    betaTag = betaRedirect(latest) /\ files.beta = betaBadge(latest))

\* If the telemetry half of the server's runs goes on to succeed from time to time,
\* the users badge, telemetry.json and GET /telemetry settle on the same count,
\* whatever becomes of the releases.
TelemetryConverges ==
    []<><<\E r \in ServerRuns : JsonWritten(r)>>_vars
        => <>[](files.users = usage /\ files.json = usage /\ telemetryJson = usage)

\* "On failure nothing is overwritten - the disk file and the in-memory value stay as
\* the last-good" (badge-store.ts:21): when no run is under way, the stable badge
\* shows the tag that GET /stable redirects to.
RedirectMatchesBadge ==
    (\A r \in Runs : pc[r] = "idle") /\ stableTag # None => files.stable = stableTag
=============================================================================
