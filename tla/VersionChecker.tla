--------------------------- MODULE VersionChecker ---------------------------
(***************************************************************************)
(* The version checker (src/version-checker.ts): at the start of the       *)
(* process and then periodically it asks GitLab for the latest version on  *)
(* its update channel, publishes the verdict as a retained MQTT message    *)
(* when it has changed, and notifies the user of a newer version through a *)
(* webhook, unless it is too young or was notified already.                *)
(*                                                                         *)
(* One check ends before the next one begins: its requests time out after  *)
(* 10 s each and the interval is at least 60 s.  GitLab's lists only grow: *)
(* a release that is deleted is left out, which could be notified again    *)
(* when it comes back, since one version is remembered.                    *)
(***************************************************************************)
EXTENDS VersionOrder

CONSTANTS
    Versions,       \* what may be tagged and released
    Installs,       \* [version, configured, image, webhook]: an image and its settings
    Grace,          \* notifyGracePeriod
    MaxTime,        \* bound: the clock
    MaxRestarts     \* bound: restarts

development == [core |-> <<>>, pre |-> "development", num |-> 0]

ASSUME VersionAssumption ==
    /\ \A v \in Versions : IsVersion(v)
    /\ \A i \in Installs : /\ IsVersion(i.version) \/ i.version = development
                           /\ i.configured \in {"unset", "stable", "beta"}
                           /\ i.image \in {"", "junk", "stable", "beta"}
                           /\ i.webhook \in BOOLEAN
    /\ Grace \in Nat /\ MaxTime \in Nat /\ MaxRestarts \in Nat

VARIABLES
    now,
    tags, releases,     \* at GitLab: sets of [version, at]; no two of the same age
    install,            \* what runs: its version and settings
    updateChannel,      \* "stable" or "beta", resolved at the start
    check,              \* "idle", or what it waits for: "releases", "tags" or "ntfy"
    latest,             \* while it waits for ntfy: the version notified
    hasNotifiedVersion, \* set of at most one version: empty for null
    lastPublishedInfo,
    retained,           \* the info message the broker retains
    link,               \* MQTT is connected
    notified,           \* history: versions notified as releases since the start
    restarts

gitlabVars  == <<tags, releases>>
processVars == <<install, updateChannel, restarts>>
infoVars    == <<lastPublishedInfo, retained>>
vars == <<now, tags, releases, install, updateChannel, check, latest, hasNotifiedVersion,
          lastPublishedInfo, retained, link, notified, restarts>>

Entries == [version : Versions, at : 0 .. MaxTime]

NoInfo == [status |-> "none"]
Infos == [status : {"up-to-date", "update-available", "development"},
          current : {i.version : i \in Installs},
          of : Entries \cup {[at |-> t] : t \in 0 .. MaxTime} \cup {<<>>}]

TypeOK ==
    /\ now \in 0 .. MaxTime /\ restarts \in 0 .. MaxRestarts
    /\ tags \subseteq Entries /\ releases \subseteq Entries
    /\ install \in Installs /\ updateChannel \in {"stable", "beta"}
    /\ check \in {"idle", "releases", "tags", "ntfy"}
    /\ latest \subseteq Versions /\ hasNotifiedVersion \subseteq Versions
    /\ (check = "ntfy") <=> (latest # {})
    /\ lastPublishedInfo \in Infos \cup {NoInfo}
    /\ retained \in Infos \cup {NoInfo}
    /\ link \in BOOLEAN /\ notified \subseteq Versions

-----------------------------------------------------------------------------
(* Channels.                                                               *)

\* Faulty variant: whatever is baked into the image is taken.
resolveUpdateChannelRaw(i) ==
    CASE i.configured # "unset" -> i.configured
      [] i.configured = "unset" /\ i.image # "" -> i.image
      [] OTHER -> IF isPreRelease(i.version) THEN "beta" ELSE "stable"

\* Configured, else baked into the image, else derived from the version.
resolveUpdateChannel(i) ==
    CASE i.configured # "unset"        -> i.configured
      [] i.configured = "unset" /\ i.image \in {"stable", "beta"} -> i.image
      [] OTHER -> IF isPreRelease(i.version) THEN "beta" ELSE "stable"

Eligible(list) ==
    IF updateChannel = "stable" THEN {e \in list : ~isPreRelease(e.version)} ELSE list

\* The latest by date, which need not be the highest version.
IsLatestOf(e, list) == e \in Eligible(list) /\ \A f \in Eligible(list) : f.at <= e.at

-----------------------------------------------------------------------------
(* GitLab, time, the link and the process.                                 *)

Boot(i) ==
    /\ install' = i /\ updateChannel' = resolveUpdateChannel(i)
    /\ check' = "idle" /\ latest' = {} /\ hasNotifiedVersion' = {}
    /\ lastPublishedInfo' = NoInfo /\ notified' = {}

Init ==
    /\ now = 0 /\ tags = {} /\ releases = {}
    /\ install \in Installs /\ updateChannel = resolveUpdateChannel(install)
    /\ check = "idle" /\ latest = {} /\ hasNotifiedVersion = {}
    /\ lastPublishedInfo = NoInfo /\ retained = NoInfo
    /\ link \in BOOLEAN /\ notified = {} /\ restarts = 0

\* A version is tagged, and released then or later.  A tag has the date of its
\* commit, a release that of its creation.
Tagged(v, date) ==
    /\ date <= now
    /\ \A e \in tags : e.version # v /\ e.at # date
    /\ tags' = tags \cup {[version |-> v, at |-> date]}
    /\ UNCHANGED <<now, releases, processVars, check, latest, hasNotifiedVersion,
                   infoVars, link, notified>>

Released(v) ==
    /\ \E e \in tags : e.version = v
    /\ \A e \in releases : e.version # v /\ e.at # now
    /\ releases' = releases \cup {[version |-> v, at |-> now]}
    /\ UNCHANGED <<now, tags, processVars, check, latest, hasNotifiedVersion,
                   infoVars, link, notified>>

Tick ==
    /\ now < MaxTime
    /\ now' = now + 1
    /\ UNCHANGED <<gitlabVars, processVars, check, latest, hasNotifiedVersion,
                   infoVars, link, notified>>

LinkChanges ==
    /\ link' = ~link
    /\ UNCHANGED <<now, gitlabVars, processVars, check, latest, hasNotifiedVersion,
                   infoVars, notified>>

\* The container is restarted, possibly on another image or with other settings.
Restart(i) ==
    /\ restarts < MaxRestarts
    /\ restarts' = restarts + 1
    /\ Boot(i)
    /\ UNCHANGED <<now, gitlabVars, retained, link>>

-----------------------------------------------------------------------------
(* The check.                                                              *)

\* The message is remembered although it is dropped while the link is down.
publishInfoIfChanged(info) ==
    IF info = lastPublishedInfo THEN UNCHANGED infoVars
    ELSE /\ lastPublishedInfo' = info
         /\ retained' = IF link THEN info ELSE retained

CheckStarts ==
    /\ check = "idle"
    /\ IF install.version = development
       THEN /\ publishInfoIfChanged([status |-> "development", current |-> development,
                                     of |-> <<>>])
            /\ UNCHANGED check
       ELSE check' = "releases" /\ UNCHANGED infoVars
    /\ UNCHANGED <<now, gitlabVars, processVars, latest, hasNotifiedVersion, link, notified>>

\* Faulty variant: the age of a release is not looked at.
OldEnoughAlways(e) == TRUE

OldEnough(e) == now - e.at >= Grace

\* Past the grace period: the info, and the webhook unless it was the last one
\* notified.
NotifyUpdate(e) ==
    /\ publishInfoIfChanged([status |-> "update-available", current |-> install.version,
                             of |-> e])
    /\ IF install.webhook /\ e.version \notin hasNotifiedVersion
       THEN check' = "ntfy" /\ latest' = {e.version}
       ELSE check' = "idle" /\ UNCHANGED latest

ReportUpToDate(e) ==
    /\ publishInfoIfChanged([status |-> "up-to-date", current |-> install.version,
                             of |-> [at |-> e.at]])
    /\ check' = "idle" /\ UNCHANGED latest

\* The rest of checkForUpdates, once the latest version is known.
Judge(e) ==
    CASE compareVersions(install.version, e.version) >= 0 -> ReportUpToDate(e)
      [] compareVersions(install.version, e.version) < 0 /\ OldEnough(e) -> NotifyUpdate(e)
      [] OTHER -> check' = "idle" /\ UNCHANGED <<latest, infoVars>>

ReleasesAnswered ==
    /\ check = "releases"
    /\ \/ /\ Eligible(releases) = {}
          /\ check' = "tags" /\ UNCHANGED <<latest, infoVars, notified>>
       \/ \E e \in releases :
            /\ IsLatestOf(e, releases)
            /\ Judge(e)
            /\ notified' = notified \cup latest'
    /\ UNCHANGED <<now, gitlabVars, processVars, hasNotifiedVersion, link>>

TagsAnswered ==
    /\ check = "tags"
    /\ \/ /\ Eligible(tags) = {}
          /\ check' = "idle" /\ UNCHANGED <<latest, infoVars>>
       \/ \E e \in tags : IsLatestOf(e, tags) /\ Judge(e)
    /\ UNCHANGED <<now, gitlabVars, processVars, hasNotifiedVersion, link, notified>>

FetchFails ==
    /\ check \in {"releases", "tags"}
    /\ check' = "idle"
    /\ UNCHANGED <<now, gitlabVars, processVars, latest, hasNotifiedVersion, infoVars,
                   link, notified>>

\* Faulty variant: only a webhook that was never notified is remembered.
NtfyEndsKeepsFirst ==
    /\ check = "ntfy"
    /\ hasNotifiedVersion' = IF hasNotifiedVersion = {} THEN latest ELSE hasNotifiedVersion
    /\ check' = "idle" /\ latest' = {}
    /\ UNCHANGED <<now, gitlabVars, processVars, infoVars, link, notified>>

\* Delivered or not: sendNtfyNotification swallows its errors.
NtfyEnds ==
    /\ check = "ntfy"
    /\ hasNotifiedVersion' = latest
    /\ check' = "idle" /\ latest' = {}
    /\ UNCHANGED <<now, gitlabVars, processVars, infoVars, link, notified>>

Fetched == ReleasesAnswered \/ TagsAnswered

Next ==
    \/ \E v \in Versions : Released(v) \/ \E date \in 0 .. MaxTime : Tagged(v, date)
    \/ Tick \/ LinkChanges
    \/ \E i \in Installs : Restart(i)
    \/ CheckStarts \/ Fetched \/ FetchFails \/ NtfyEnds

Spec == Init /\ [][Next]_vars

\* The interval fires and requests end, which their timeouts see to; a GitLab
\* that is asked for ever answers at some point.
FairSpec ==
    /\ Spec /\ WF_vars(CheckStarts) /\ WF_vars(NtfyEnds)
    /\ WF_vars(Fetched \/ FetchFails)
    /\ SF_vars(ReleasesAnswered) /\ SF_vars(TagsAnswered)

-----------------------------------------------------------------------------
(* Properties.                                                             *)

\* The order of versions, for parts and numbers below 100: pre-releases of
\* either label by their numbers, then the stable version.
Rank(v) == (((Part(v, 1) * 100 + Part(v, 2)) * 100 + Part(v, 3)) * 100)
           + (IF v.pre = "" THEN 99 ELSE v.num)

\* What checkForUpdates announces, to the webhook or as info, is above the version
\* that runs and was tagged or released at least a grace period ago.
AnnouncedIsDue ==
    LET Due(v) == /\ Rank(v) > Rank(install.version)
                  /\ \E e \in tags \cup releases : e.version = v /\ e.at + Grace <= now
    IN  /\ \A v \in latest : Due(v)
        /\ lastPublishedInfo.status = "update-available" => Due(lastPublishedInfo.of.version)

\* Who has chosen "stable", or has chosen nothing and runs an image of the stable
\* channel or a stable version without channel.
WantsStable(i) ==
    \/ i.configured = "stable"
    \/ i.configured = "unset" /\ i.image = "stable"
    \/ i.configured = "unset" /\ i.image # "beta" /\ i.version.pre = ""

ShowsStable(info) == info.status = "update-available" => info.of.version.pre = ""

\* Who wants stable versions is told of stable versions only, by the webhook and by
\* the info message: over resolveUpdateChannel, the filters of both lists, the
\* fallback and restarts with other settings (the message that an earlier process
\* left with the broker stays there until this one publishes its own).
StableSeesNoPreRelease ==
    [][WantsStable(install') =>
          /\ \A v \in latest' \cup hasNotifiedVersion' : v.pre = ""
          /\ ShowsStable(lastPublishedInfo')
          /\ retained' # retained => ShowsStable(retained')]_vars

\* Only the last version is remembered (hasNotifiedVersion), but a version notified
\* as a release is not notified a second time by the same process, whatever is
\* tagged and released in between (version-checker.test.ts: "should only send ntfy
\* notification once per version").
ReleaseNotifiedOnce ==
    [][check # "ntfy" /\ check' = "ntfy" => latest' \cap notified = {}]_vars

\* While MQTT stays connected, a release that stays the latest of its channel, is
\* newer than what runs and grows older than the grace period is in the end the one
\* Home Assistant is shown, and has been sent to the webhook (checkForUpdates).
UpdateIsAnnounced ==
    \A v \in Versions :
        LET Waits == \E e \in releases : /\ e.version = v /\ IsLatestOf(e, releases)
                                         /\ e.at + Grace <= now
                                         /\ install.version # development
                                         /\ Rank(v) > Rank(install.version)
        IN  []link /\ <>[]Waits =>
              <>[](/\ retained.status = "update-available" /\ retained.of.version = v
                   /\ retained.current = install.version
                   /\ install.webhook => v \in hasNotifiedVersion)
=============================================================================
