------------------------ MODULE VersionCheckerProofs ------------------------
(***************************************************************************)
(* Theorems about VersionChecker, for every set of versions and of         *)
(* installations: types, that the stable channel shows no pre-release,     *)
(* that one process notifies a release once, and that what is announced is *)
(* newer than what runs and old enough, and stays announced.               *)
(***************************************************************************)
EXTENDS VersionChecker, SequenceTheorems, TLAPS

\* No two releases of one date, and none released twice.
ReleasesDiffer ==
    \A e, f \in releases : e.at = f.at \/ e.version = f.version => e = f

\* What was notified as a release is still one that the channel lets through, so
\* that the tags are not asked any more.
NotifiedAreReleases ==
    /\ \A v \in notified : \E e \in Eligible(releases) : e.version = v
    /\ check = "tags" => notified = {}

\* What hasNotifiedVersion is, or will be when the webhook has answered.
LastNotified == IF check = "ntfy" THEN latest ELSE hasNotifiedVersion

\* Everything notified as a release is older than what was notified last.
LastIsLatest ==
    \A e \in releases : e.version \in notified =>
        \/ e.version \in LastNotified
        \/ \E f \in Eligible(releases) : f.version \in LastNotified /\ f.at > e.at

\* The channel is that of the installation, and lets through what is notified.
ChannelFits ==
    /\ updateChannel = resolveUpdateChannel(install)
    /\ updateChannel = "stable" => \A v \in latest \cup hasNotifiedVersion : v.pre = ""

IInv == TypeOK /\ ReleasesDiffer /\ NotifiedAreReleases /\ LastIsLatest /\ ChannelFits

\* The assumption, in the parts that are used.
LEMMA Bounds == Grace \in Nat /\ MaxTime \in Nat /\ MaxRestarts \in Nat
BY VersionAssumption DEF VersionAssumption

LEMMA InstallType == \A i \in Installs : /\ i.configured \in {"unset", "stable", "beta"}
                                         /\ i.image \in {"", "junk", "stable", "beta"}
BY VersionAssumption DEF VersionAssumption

LEMMA VersionType == \A v \in Versions : v.pre \in {"", "rc", "b"}
BY VersionAssumption DEF VersionAssumption, IsVersion

-----------------------------------------------------------------------------

LEMMA ChannelType == ASSUME NEW i \in Installs
                     PROVE  resolveUpdateChannel(i) \in {"stable", "beta"}
BY InstallType DEF resolveUpdateChannel

LEMMA InitInv == Init => IInv
<1> SUFFICES ASSUME Init PROVE IInv
  OBVIOUS
<1>1. TypeOK
  <2>1. now \in 0 .. MaxTime /\ restarts \in 0 .. MaxRestarts
    BY Bounds DEF Init
  <2> QED
    BY <2>1, ChannelType DEF Init, TypeOK
<1>2. ReleasesDiffer /\ NotifiedAreReleases /\ LastIsLatest /\ ChannelFits
  BY DEF Init, ReleasesDiffer, NotifiedAreReleases, LastIsLatest, ChannelFits
<1> QED
  BY <1>1, <1>2 DEF IInv

\* The message a check publishes is an info message.
LEMMA PublishType ==
    ASSUME TypeOK, NEW info \in Infos, publishInfoIfChanged(info)
    PROVE  lastPublishedInfo' \in Infos \cup {NoInfo} /\ retained' \in Infos \cup {NoInfo}
BY DEF TypeOK, publishInfoIfChanged, infoVars

\* What the verdict over an entry does to the check: it ends, or it waits for the
\* webhook to be told of that entry's version, which was not the last one.
LEMMA JudgeEffect ==
    ASSUME TypeOK, NEW e \in Entries, Judge(e), check # "ntfy"
    PROVE  /\ \/ check' = "idle" /\ latest' = {}
              \/ /\ check' = "ntfy" /\ latest' = {e.version}
                 /\ e.version \notin hasNotifiedVersion
           /\ lastPublishedInfo' \in Infos \cup {NoInfo}
           /\ retained' \in Infos \cup {NoInfo}
<1> DEFINE update   == [status |-> "update-available", current |-> install.version, of |-> e]
           upToDate == [status |-> "up-to-date", current |-> install.version,
                        of |-> [at |-> e.at]]
<1>1. update \in Infos /\ upToDate \in Infos
  BY DEF TypeOK, Infos, Entries
<1>2. latest = {}
  BY DEF TypeOK
<1>3. CASE ReportUpToDate(e)
  BY <1>1, <1>2, <1>3, PublishType DEF ReportUpToDate
<1>4. CASE NotifyUpdate(e)
  BY <1>1, <1>2, <1>4, PublishType DEF NotifyUpdate
<1>5. CASE check' = "idle" /\ UNCHANGED <<latest, infoVars>>
  BY <1>2, <1>5 DEF TypeOK, infoVars
<1>6. ReportUpToDate(e) \/ NotifyUpdate(e) \/ (check' = "idle" /\ UNCHANGED <<latest, infoVars>>)
  BY DEF Judge
<1> QED
  BY <1>3, <1>4, <1>5, <1>6

LEMMA EligibleIsIn == ASSUME NEW list PROVE Eligible(list) \subseteq list
BY DEF Eligible

\* The channel's filter works for either list.
LEMMA EligibleFits ==
    ASSUME TypeOK, NEW list \in SUBSET Entries, NEW e \in Eligible(list),
           updateChannel = "stable"
    PROVE  e.version.pre = ""
BY VersionType DEF Eligible, isPreRelease, Entries

-----------------------------------------------------------------------------
(* Steps that leave the check's own state alone.                           *)

LEMMA ReleasedInv == ASSUME IInv, NEW v \in Versions, Released(v) PROVE IInv'
<1> USE DEF IInv, Released, processVars, infoVars
<1> DEFINE new == [version |-> v, at |-> now]
<1>0. new \in Entries /\ releases \subseteq Entries /\ releases' = releases \cup {new}
  BY DEF TypeOK, Entries
<1>1. TypeOK'
  BY <1>0 DEF TypeOK
<1>2. ReleasesDiffer'
  BY <1>0 DEF ReleasesDiffer
<1>3. Eligible(releases) \subseteq Eligible(releases')  /\ Eligible(releases)' = Eligible(releases')
  BY <1>0 DEF Eligible
<1>4. NotifiedAreReleases'
  BY <1>3 DEF NotifiedAreReleases
<1>5. new.version \notin notified
  BY EligibleIsIn DEF NotifiedAreReleases
<1>6. LastIsLatest'
  BY <1>0, <1>3, <1>5 DEF LastIsLatest, LastNotified
<1>7. ChannelFits'
  BY DEF ChannelFits
<1> QED
  BY <1>1, <1>2, <1>4, <1>6, <1>7

LEMMA RestartInv == ASSUME IInv, NEW i \in Installs, Restart(i) PROVE IInv'
<1> USE DEF IInv, Restart, Boot, gitlabVars
<1>1. TypeOK'
  <2>1. restarts' \in 0 .. MaxRestarts
    BY Bounds DEF TypeOK
  <2> QED
    BY <2>1, ChannelType DEF TypeOK
<1>2. ReleasesDiffer' /\ NotifiedAreReleases' /\ LastIsLatest' /\ ChannelFits'
  BY DEF ReleasesDiffer, NotifiedAreReleases, LastIsLatest, ChannelFits
<1> QED
  BY <1>1, <1>2

\* Steps after which the same is released, notified and waited for: the last
\* three conjuncts speak of nothing else.
LEMMA FrameInv ==
    ASSUME IInv, UNCHANGED <<releases, install, updateChannel, latest, hasNotifiedVersion,
                             notified>>,
           (check # "ntfy" /\ check' # "ntfy") \/ check' = check,
           check' = "tags" => check = "tags" \/ notified = {}
    PROVE  (ReleasesDiffer /\ NotifiedAreReleases /\ LastIsLatest /\ ChannelFits)'
<1>1. Eligible(releases)' = Eligible(releases)
  BY DEF Eligible
<1>2. LastNotified' = LastNotified
  BY DEF LastNotified
<1> QED
  BY <1>1, <1>2 DEF IInv, ReleasesDiffer, NotifiedAreReleases, LastIsLatest, ChannelFits

LEMMA EnvironmentInv ==
    ASSUME IInv,
           \/ \E v \in Versions, date \in 0 .. MaxTime : Tagged(v, date)
           \/ Tick \/ LinkChanges
    PROVE  IInv'
<1> USE DEF Tagged, Tick, LinkChanges, gitlabVars, processVars, infoVars
<1>1. now' \in 0 .. MaxTime
  BY Bounds DEF IInv, TypeOK
<1>2. tags' \subseteq Entries
  BY DEF IInv, TypeOK, Entries
<1>3. TypeOK'
  BY <1>1, <1>2 DEF IInv, TypeOK
<1>4. (ReleasesDiffer /\ NotifiedAreReleases /\ LastIsLatest /\ ChannelFits)'
  BY FrameInv
<1> QED
  BY <1>3, <1>4 DEF IInv

-----------------------------------------------------------------------------
(* The check's steps.                                                      *)

LEMMA CheckStartsInv == ASSUME IInv, CheckStarts PROVE IInv'
<1> USE DEF CheckStarts, gitlabVars, processVars, infoVars
<1> DEFINE info == [status |-> "development", current |-> development, of |-> <<>>]
<1>1. CASE install.version = development
  <2>1. info \in Infos
    BY <1>1 DEF IInv, TypeOK, Infos
  <2>2. lastPublishedInfo' \in Infos \cup {NoInfo} /\ retained' \in Infos \cup {NoInfo}
    BY <1>1, <2>1, PublishType DEF IInv
  <2> QED
    BY <1>1, <2>2, FrameInv DEF IInv, TypeOK
<1>2. CASE install.version # development
  BY <1>2, FrameInv DEF IInv, TypeOK
<1> QED
  BY <1>1, <1>2

LEMMA FetchFailsInv == ASSUME IInv, FetchFails PROVE IInv'
<1> USE DEF FetchFails, gitlabVars, processVars, infoVars
<1>1. TypeOK'
  BY DEF IInv, TypeOK
<1> QED
  BY <1>1, FrameInv DEF IInv

LEMMA NtfyEndsInv == ASSUME IInv, NtfyEnds PROVE IInv'
<1> USE DEF NtfyEnds, gitlabVars, processVars, infoVars
<1>1. TypeOK'
  BY DEF IInv, TypeOK
<1>2. Eligible(releases)' = Eligible(releases) /\ LastNotified' = LastNotified
  BY DEF Eligible, LastNotified
<1>3. (ReleasesDiffer /\ NotifiedAreReleases /\ LastIsLatest)'
  BY <1>2 DEF IInv, ReleasesDiffer, NotifiedAreReleases, LastIsLatest
<1>4. ChannelFits'
  BY DEF IInv, ChannelFits
<1> QED
  BY <1>1, <1>3, <1>4 DEF IInv

LEMMA TagsAnsweredInv == ASSUME IInv, TagsAnswered PROVE IInv'
<1> USE DEF TagsAnswered, gitlabVars, processVars
<1>1. CASE Eligible(tags) = {} /\ check' = "idle" /\ UNCHANGED <<latest, infoVars>>
  BY <1>1, FrameInv DEF IInv, TypeOK, infoVars
<1>2. CASE \E e \in tags : IsLatestOf(e, tags) /\ Judge(e)
  <2>1. PICK e \in tags : IsLatestOf(e, tags) /\ Judge(e)
    BY <1>2
  <2>2. e \in Entries /\ e \in Eligible(tags) /\ tags \in SUBSET Entries
    BY <2>1 DEF IInv, TypeOK, IsLatestOf
  <2>3. /\ \/ check' = "idle" /\ latest' = {}
           \/ check' = "ntfy" /\ latest' = {e.version}
        /\ lastPublishedInfo' \in Infos \cup {NoInfo} /\ retained' \in Infos \cup {NoInfo}
    BY <2>1, <2>2, JudgeEffect DEF IInv
  <2>4. TypeOK'
    BY <2>2, <2>3 DEF IInv, TypeOK, Entries
  <2>5. notified' = {}
    BY DEF IInv, NotifiedAreReleases
  <2>6. (ReleasesDiffer /\ NotifiedAreReleases /\ LastIsLatest)'
    BY <2>5 DEF IInv, ReleasesDiffer, NotifiedAreReleases, LastIsLatest
  <2>7. ChannelFits'
    BY <2>2, <2>3, EligibleFits DEF IInv, ChannelFits
  <2> QED
    BY <2>4, <2>6, <2>7 DEF IInv
<1> QED
  BY <1>1, <1>2

\* The one step that notifies a release: every release notified before is older.
LEMMA ReleasesAnsweredInv ==
    ASSUME IInv, ReleasesAnswered
    PROVE  IInv' /\ (check' = "ntfy" => latest' \cap notified = {})
<1> USE DEF ReleasesAnswered, gitlabVars, processVars
<1>1. CASE Eligible(releases) = {} /\ check' = "tags" /\ UNCHANGED <<latest, infoVars, notified>>
  <2>1. notified = {}
    BY <1>1 DEF IInv, NotifiedAreReleases
  <2> QED
    BY <1>1, <2>1, FrameInv DEF IInv, TypeOK, infoVars
<1>2. CASE \E e \in releases : /\ IsLatestOf(e, releases) /\ Judge(e)
                               /\ notified' = notified \cup latest'
  <2>1. PICK e \in releases : /\ IsLatestOf(e, releases) /\ Judge(e)
                              /\ notified' = notified \cup latest'
    BY <1>2
  <2>2. e \in Entries /\ e \in Eligible(releases) /\ releases \in SUBSET Entries
    BY <2>1 DEF IInv, TypeOK, IsLatestOf
  <2>3. /\ \/ check' = "idle" /\ latest' = {}
           \/ /\ check' = "ntfy" /\ latest' = {e.version}
              /\ e.version \notin hasNotifiedVersion
        /\ lastPublishedInfo' \in Infos \cup {NoInfo} /\ retained' \in Infos \cup {NoInfo}
    BY <2>1, <2>2, JudgeEffect DEF IInv
  <2>4. TypeOK'
    BY <2>1, <2>2, <2>3 DEF IInv, TypeOK, Entries
  <2>5. ReleasesDiffer' /\ Eligible(releases)' = Eligible(releases)
    BY DEF IInv, ReleasesDiffer, Eligible
  <2>6. NotifiedAreReleases'
    BY <2>1, <2>2, <2>3, <2>5 DEF IInv, NotifiedAreReleases
  <2>7. LastNotified = hasNotifiedVersion
    BY DEF LastNotified
  <2>8. \A d \in releases : d.version \in notified => d.at <= e.at
    <3> SUFFICES ASSUME NEW d \in releases, d.version \in notified PROVE d.at <= e.at
      OBVIOUS
    <3>1. d \in Eligible(releases)
      <4>1. PICK f \in Eligible(releases) : f.version = d.version
        BY DEF IInv, NotifiedAreReleases
      <4>2. f \in releases
        BY <4>1, EligibleIsIn
      <4> QED
        BY <4>1, <4>2 DEF IInv, ReleasesDiffer
    <3> QED
      BY <2>1, <3>1 DEF IsLatestOf
  <2>9. CASE check' = "idle" /\ latest' = {}
    <3>1. notified' = notified /\ LastNotified' = hasNotifiedVersion
      BY <2>1, <2>9 DEF LastNotified
    <3>2. LastIsLatest'
      BY <2>5, <2>7, <3>1 DEF IInv, LastIsLatest
    <3>3. ChannelFits'
      BY <2>9 DEF IInv, ChannelFits
    <3> QED
      BY <2>4, <2>5, <2>6, <2>9, <3>2, <3>3 DEF IInv
  <2>10. CASE /\ check' = "ntfy" /\ latest' = {e.version}
              /\ e.version \notin hasNotifiedVersion
    <3>1. notified' = notified \cup {e.version} /\ LastNotified' = {e.version}
      BY <2>1, <2>10 DEF LastNotified
    <3>2. ASSUME NEW d \in releases, d.version \in notified, d.version # e.version
          PROVE  e.at > d.at
      <4>1. d.at # e.at
        BY <3>2 DEF IInv, ReleasesDiffer
      <4>2. d.at \in Int /\ e.at \in Int
        BY <2>2, <3>2, Bounds DEF Entries
      <4> QED
        BY <2>8, <3>2, <4>1, <4>2
    <3>3. LastIsLatest'
      BY <2>2, <2>5, <3>1, <3>2 DEF LastIsLatest
    <3>4. ChannelFits'
      BY <2>2, <2>10, EligibleFits DEF IInv, ChannelFits
    <3>5. e.version \notin notified
      <4> SUFFICES ASSUME e.version \in notified PROVE FALSE
        OBVIOUS
      <4>1. PICK f \in Eligible(releases) : f.at > e.at
        BY <2>7, <2>10 DEF IInv, LastIsLatest
      <4>2. f.at <= e.at /\ f.at \in Int /\ e.at \in Int
        BY <2>1, <2>2, <4>1, EligibleIsIn, Bounds DEF IsLatestOf, Entries
      <4> QED
        BY <4>1, <4>2
    <3> QED
      BY <2>4, <2>5, <2>6, <2>10, <3>3, <3>4, <3>5 DEF IInv
  <2> QED
    BY <2>3, <2>9, <2>10
<1> QED
  BY <1>1, <1>2

-----------------------------------------------------------------------------

LEMMA NextInv == IInv /\ [Next]_vars => IInv'
<1> SUFFICES ASSUME IInv, [Next]_vars PROVE IInv'
  OBVIOUS
<1>1. CASE UNCHANGED vars
  BY <1>1, FrameInv DEF vars, IInv, TypeOK
<1>2. CASE \E v \in Versions : Released(v)
  BY <1>2, ReleasedInv
<1>3. CASE \E i \in Installs : Restart(i)
  BY <1>3, RestartInv
<1>4. CASE \/ \E v \in Versions, date \in 0 .. MaxTime : Tagged(v, date)
           \/ Tick \/ LinkChanges
  BY <1>4, EnvironmentInv
<1>5. CASE CheckStarts \/ Fetched \/ FetchFails \/ NtfyEnds
  BY <1>5, CheckStartsInv, ReleasesAnsweredInv, TagsAnsweredInv, FetchFailsInv, NtfyEndsInv
     DEF Fetched
<1> QED
  BY <1>1, <1>2, <1>3, <1>4, <1>5 DEF Next

\* The inductive invariant holds in every reachable state.
THEOREM Invariance == Spec => []IInv
BY InitInv, NextInv, PTL DEF Spec

\* Every variable keeps its type.
THEOREM TypeCorrect == Spec => []TypeOK
<1>1. IInv => TypeOK
  BY DEF IInv
<1> QED
  BY <1>1, Invariance, PTL

\* On the stable channel the info message shows no pre-release.
InfoFits == updateChannel = "stable" => ShowsStable(lastPublishedInfo)

\* A message is published, or not, that the channel may show; what the broker retains
\* is what it did, or that message.
LEMMA Remembers ==
    \A info : /\ publishInfoIfChanged(info) /\ UNCHANGED updateChannel
              /\ updateChannel = "stable" => ShowsStable(info)
              => InfoFits' /\ retained' \in {retained, lastPublishedInfo'}
<1> SUFFICES ASSUME NEW info, publishInfoIfChanged(info), UNCHANGED updateChannel,
                    updateChannel = "stable" => ShowsStable(info)
             PROVE  InfoFits' /\ retained' \in {retained, lastPublishedInfo'}
  OBVIOUS
<1>1. lastPublishedInfo' = info /\ retained' \in {retained, info}
  BY DEF publishInfoIfChanged, infoVars
<1> QED
  BY <1>1 DEF InfoFits, ShowsStable

LEMMA NothingPublished ==
    InfoFits /\ UNCHANGED <<updateChannel, infoVars>>
        => InfoFits' /\ retained' \in {retained, lastPublishedInfo'}
BY DEF InfoFits, ShowsStable, infoVars

\* The messages that announce nothing, and the one that announces.
LEMMA Announcing ==
    /\ ShowsStable(NoInfo)
    /\ \A version : ShowsStable([status |-> "development", current |-> version, of |-> <<>>])
    /\ \A version, e : ShowsStable([status |-> "up-to-date", current |-> version,
                                    of |-> [at |-> e.at]])
    /\ \A version, e : e.version.pre = "" =>
          ShowsStable([status |-> "update-available", current |-> version, of |-> e])
<1>1. NoInfo.status # "update-available"
  BY DEF NoInfo
<1>2. \A version, of : /\ [status |-> "development", current |-> version, of |-> of].status
                             # "update-available"
                       /\ [status |-> "up-to-date", current |-> version, of |-> of].status
                             # "update-available"
                       /\ [status |-> "update-available", current |-> version, of |-> of].of = of
  OBVIOUS
<1> QED
  BY <1>1, <1>2 DEF ShowsStable

\* The verdict over an entry that the channel lets through.
LEMMA JudgeShows ==
    ASSUME IInv, InfoFits, NEW list \in SUBSET Entries, NEW e \in Eligible(list), Judge(e),
           UNCHANGED updateChannel
    PROVE  InfoFits' /\ retained' \in {retained, lastPublishedInfo'}
<1>1. updateChannel = "stable" => e.version.pre = ""
  BY EligibleFits DEF IInv
<1>2. CASE ReportUpToDate(e)
  BY <1>2, Remembers, Announcing DEF ReportUpToDate
<1>3. CASE NotifyUpdate(e)
  BY <1>1, <1>3, Remembers, Announcing DEF NotifyUpdate
<1>4. CASE UNCHANGED infoVars
  BY <1>4, NothingPublished
<1> QED
  BY <1>2, <1>3, <1>4 DEF Judge

LEMMA InfoStep ==
    IInv /\ InfoFits /\ [Next]_vars => InfoFits' /\ retained' \in {retained, lastPublishedInfo'}
<1> SUFFICES ASSUME IInv, InfoFits, [Next]_vars
             PROVE  InfoFits' /\ retained' \in {retained, lastPublishedInfo'}
  OBVIOUS
<1>1. tags \in SUBSET Entries /\ releases \in SUBSET Entries
  BY DEF IInv, TypeOK
<1>2. CASE \E i \in Installs : Restart(i)
  BY <1>2, Announcing DEF Restart, Boot, InfoFits
<1>3. CASE CheckStarts
  <2>1. UNCHANGED updateChannel
    BY <1>3 DEF CheckStarts, processVars
  <2>2. \/ UNCHANGED infoVars
        \/ publishInfoIfChanged([status |-> "development", current |-> development, of |-> <<>>])
    BY <1>3 DEF CheckStarts
  <2> QED
    BY <2>1, <2>2, Remembers, Announcing, NothingPublished
<1>4. CASE ReleasesAnswered
  <2>1. \/ UNCHANGED infoVars
        \/ \E e \in releases : IsLatestOf(e, releases) /\ Judge(e)
    BY <1>4 DEF ReleasesAnswered
  <2>2. UNCHANGED updateChannel
    BY <1>4 DEF ReleasesAnswered, processVars
  <2>3. CASE \E e \in releases : IsLatestOf(e, releases) /\ Judge(e)
    BY <1>1, <2>2, <2>3, JudgeShows DEF IsLatestOf
  <2> QED
    BY <2>1, <2>2, <2>3, NothingPublished
<1>5. CASE TagsAnswered
  <2>1. \/ UNCHANGED infoVars
        \/ \E e \in tags : IsLatestOf(e, tags) /\ Judge(e)
    BY <1>5 DEF TagsAnswered
  <2>2. UNCHANGED updateChannel
    BY <1>5 DEF TagsAnswered, processVars
  <2>3. CASE \E e \in tags : IsLatestOf(e, tags) /\ Judge(e)
    BY <1>1, <2>2, <2>3, JudgeShows DEF IsLatestOf
  <2> QED
    BY <2>1, <2>2, <2>3, NothingPublished
<1>6. CASE UNCHANGED <<updateChannel, infoVars>>
  BY <1>6, NothingPublished
<1> QED
  BY <1>2, <1>3, <1>4, <1>5, <1>6 DEF Next, Fetched, Released, Tagged, Tick, LinkChanges,
     FetchFails, NtfyEnds, processVars, vars, infoVars

\* Who has chosen the stable channel, or got it from the image or from the version,
\* is told of no pre-release, by the webhook (version-checker.ts:405-409) or by the info
\* message (version-checker.ts:394-403), which everybody gets.
THEOREM StableOnly == Spec => StableSeesNoPreRelease
<1>1. Init => InfoFits
  BY Announcing DEF Init, InfoFits
<1>2. IInv /\ InfoFits /\ [Next]_vars
        => [WantsStable(install') =>
               /\ \A v \in latest' \cup hasNotifiedVersion' : v.pre = ""
               /\ ShowsStable(lastPublishedInfo')
               /\ retained' # retained => ShowsStable(retained')]_vars
  <2> SUFFICES ASSUME IInv, InfoFits, [Next]_vars, WantsStable(install')
               PROVE  /\ \A v \in latest' \cup hasNotifiedVersion' : v.pre = ""
                      /\ ShowsStable(lastPublishedInfo')
                      /\ retained' # retained => ShowsStable(retained')
    OBVIOUS
  <2>1. IInv' /\ InfoFits' /\ retained' \in {retained, lastPublishedInfo'}
    BY NextInv, InfoStep
  <2>2. resolveUpdateChannel(install)' = "stable"
    BY DEF WantsStable, resolveUpdateChannel, isPreRelease
  <2>3. updateChannel' = "stable"
    BY <2>1, <2>2 DEF IInv, ChannelFits
  <2> QED
    BY <2>1, <2>3 DEF IInv, ChannelFits, InfoFits, ShowsStable
<1> QED
  BY <1>1, <1>2, InfoStep, Invariance, PTL DEF Spec, StableSeesNoPreRelease

\* One process never notifies a release a second time.
THEOREM NotifiedOnce == Spec => ReleaseNotifiedOnce
<1>1. IInv /\ [Next]_vars =>
        [check # "ntfy" /\ check' = "ntfy" => latest' \cap notified = {}]_vars
  <2> SUFFICES ASSUME IInv, Next, check # "ntfy", check' = "ntfy"
               PROVE  latest' \cap notified = {}
    OBVIOUS
  <2>1. ReleasesAnswered \/ TagsAnswered
    BY DEF Next, Released, Tagged, Tick, LinkChanges, Restart, Boot, CheckStarts, Fetched,
           FetchFails, NtfyEnds
  <2>2. CASE ReleasesAnswered
    BY <2>2, ReleasesAnsweredInv
  <2>3. CASE TagsAnswered
    BY <2>3 DEF TagsAnswered, IInv, NotifiedAreReleases
  <2> QED
    BY <2>1, <2>2, <2>3
<1> QED
  BY <1>1, Invariance, PTL DEF Spec, ReleaseNotifiedOnce

-----------------------------------------------------------------------------
(* Announced versions.                                                     *)

\* The versions that Rank tells apart.
Small(v) == /\ v.core \in Seq(0 .. 99) /\ Len(v.core) <= 3
            /\ v.num \in 0 .. 98 /\ (v.pre = "" => v.num = 0)

LEMMA SmallParts ==
    ASSUME NEW v, Small(v)
    PROVE  /\ Len(v.core) \in 0 .. 3
           /\ \A i \in Nat \ {0} : Part(v, i) \in 0 .. 99 /\ (i > Len(v.core) => Part(v, i) = 0)
<1> DEFINE core == v.core
           part(i) == Part(v, i)
<1>1. core \in Seq(0 .. 99)
  BY DEF Small
<1>7. Len(core) <= 3
  BY DEF Small
<1>2. \A i : part(i) = IF i <= Len(core) THEN core[i] ELSE 0
  BY DEF Part
<1> HIDE DEF core, part
<1>3. Len(core) \in Nat
  BY <1>1, LenProperties
<1>4. \A i \in 1 .. Len(core) : core[i] \in 0 .. 99
  BY <1>1, ElementOfSeq
<1>5. ASSUME NEW i \in Nat \ {0} PROVE part(i) \in 0 .. 99 /\ (i > Len(core) => part(i) = 0)
  <2>1. CASE i <= Len(core)
    <3>1. i \in 1 .. Len(core)
      BY <1>3, <2>1
    <3>2. part(i) = core[i]
      BY <1>2, <2>1
    <3> QED
      BY <1>3, <1>4, <2>1, <3>1, <3>2
  <2>2. CASE ~(i <= Len(core))
    <3>1. part(i) = 0
      BY <1>2, <2>2
    <3> QED
      BY <3>1
  <2> QED
    BY <2>1, <2>2
<1>6. Len(core) \in 0 .. 3
  <2> DEFINE len == Len(core)
  <2>1. len \in Nat /\ len <= 3
    BY <1>3, <1>7
  <2> HIDE DEF len
  <2>2. len \in 0 .. 3
    BY <2>1
  <2> QED
    BY <2>2 DEF len
<1> QED
  BY <1>5, <1>6, Zenon DEF core, part

\* Of two versions with the same parts, the one that compares lower ranks lower.
LEMMA LabelBelow ==
    ASSUME NEW v, NEW w, Small(v), Small(w)
    PROVE  LET label(u) == IF u.pre = "" THEN 99 ELSE u.num
           IN  /\ label(v) \in 0 .. 99 /\ label(w) \in 0 .. 99
               /\ comparePreRelease(v, w) < 0 => label(v) < label(w)
<1>1. /\ v.num \in 0 .. 98 /\ w.num \in 0 .. 98
      /\ (v.pre = "" => v.num = 0) /\ (w.pre = "" => w.num = 0)
  BY DEF Small
<1> DEFINE none == ""
           a == v.pre
           b == w.pre
           x == v.num
           y == w.num
           compared == CASE a = b /\ x = y        -> 0
                         [] a = none /\ b # none -> 1
                         [] a # none /\ b = none -> -1
                         [] OTHER -> IF x < y THEN -1 ELSE IF x > y THEN 1 ELSE 0
           lx == IF a = none THEN 99 ELSE x
           ly == IF b = none THEN 99 ELSE y
<1>2. comparePreRelease(v, w) = compared
  BY Zenon DEF comparePreRelease
<1>3. x \in 0 .. 98 /\ y \in 0 .. 98 /\ (a = none => x = 0) /\ (b = none => y = 0)
  BY <1>1
<1> HIDE DEF none, a, b, x, y
<1>4. lx \in 0 .. 99 /\ ly \in 0 .. 99 /\ (compared < 0 => lx < ly)
  <2>1. CASE a = none \/ b = none
    BY <1>3, <2>1
  <2>2. CASE a # none /\ b # none
    BY <1>3, <2>2
  <2> QED
    BY <2>1, <2>2
<1> QED
  BY <1>2, <1>4, Zenon DEF none, a, b, x, y

\* The order of the version checker is the order of the ranks.
LEMMA BelowInRank ==
    ASSUME NEW v, NEW w, Small(v), Small(w), compareVersions(v, w) < 0
    PROVE  Rank(w) > Rank(v)
<1> DEFINE n == Len(v.core)
           m == Len(w.core)
           p(i) == Part(v, i)
           q(i) == Part(w, i)
           label == IF v.pre = "" THEN 99 ELSE v.num
           label2 == IF w.pre = "" THEN 99 ELSE w.num
<1>1. /\ n \in 0 .. 3 /\ m \in 0 .. 3
      /\ \A i \in Nat \ {0} : /\ p(i) \in 0 .. 99 /\ (i > n => p(i) = 0)
                              /\ q(i) \in 0 .. 99 /\ (i > m => q(i) = 0)
  BY SmallParts
<1>2. label \in 0 .. 99 /\ label2 \in 0 .. 99
  BY LabelBelow, Zenon
<1>3. /\ Rank(v) = ((p(1) * 100 + p(2)) * 100 + p(3)) * 100 + label
      /\ Rank(w) = ((q(1) * 100 + q(2)) * 100 + q(3)) * 100 + label2
  BY DEF Rank
<1>4. /\ CoreBelow(v, w) <=>
           \E i \in 1 .. n + m : p(i) < q(i) /\ \A j \in 1 .. i - 1 : p(j) = q(j)
      /\ CoreBelow(w, v) <=>
           \E i \in 1 .. m + n : q(i) < p(i) /\ \A j \in 1 .. i - 1 : q(j) = p(j)
  BY DEF CoreBelow
<1>5. CoreBelow(v, w) \/ (~CoreBelow(w, v) /\ label < label2)
  <2>1. CoreBelow(v, w) \/ (~CoreBelow(w, v) /\ comparePreRelease(v, w) < 0)
    BY DEF compareVersions
  <2>2. comparePreRelease(v, w) < 0 => label < label2
    BY LabelBelow, Zenon
  <2> QED
    BY <2>1, <2>2
<1> HIDE DEF n, m, p, q, label, label2
<1>6. /\ p(1) \in 0 .. 99 /\ p(2) \in 0 .. 99 /\ p(3) \in 0 .. 99
      /\ q(1) \in 0 .. 99 /\ q(2) \in 0 .. 99 /\ q(3) \in 0 .. 99
  BY <1>1
<1>9. \/ p(1) < q(1)
      \/ p(1) = q(1) /\ p(2) < q(2)
      \/ p(1) = q(1) /\ p(2) = q(2) /\ p(3) < q(3)
      \/ p(1) = q(1) /\ p(2) = q(2) /\ p(3) = q(3) /\ label < label2
      => Rank(w) > Rank(v)
  <2> DEFINE lower == ((p(1) * 100 + p(2)) * 100 + p(3)) * 100 + label
             upper == ((q(1) * 100 + q(2)) * 100 + q(3)) * 100 + label2
  <2>1. \/ p(1) < q(1)
        \/ p(1) = q(1) /\ p(2) < q(2)
        \/ p(1) = q(1) /\ p(2) = q(2) /\ p(3) < q(3)
        \/ p(1) = q(1) /\ p(2) = q(2) /\ p(3) = q(3) /\ label < label2
        => upper > lower
    <3> DEFINE p1 == p(1)
               p2 == p(2)
               p3 == p(3)
               q1 == q(1)
               q2 == q(2)
               q3 == q(3)
    <3>1. /\ p1 \in 0 .. 99 /\ p2 \in 0 .. 99 /\ p3 \in 0 .. 99
          /\ q1 \in 0 .. 99 /\ q2 \in 0 .. 99 /\ q3 \in 0 .. 99
      BY <1>6
    <3> HIDE DEF p1, p2, p3, q1, q2, q3
    <3>2. \/ p1 < q1
          \/ p1 = q1 /\ p2 < q2
          \/ p1 = q1 /\ p2 = q2 /\ p3 < q3
          \/ p1 = q1 /\ p2 = q2 /\ p3 = q3 /\ label < label2
          => ((q1 * 100 + q2) * 100 + q3) * 100 + label2
               > ((p1 * 100 + p2) * 100 + p3) * 100 + label
      BY <1>2, <3>1
    <3> QED
      BY <3>2 DEF p1, p2, p3, q1, q2, q3
  <2> HIDE DEF lower, upper
  <2>2. Rank(v) = lower /\ Rank(w) = upper
    BY <1>3 DEF lower, upper
  <2> QED
    BY <2>1, <2>2
<1>7. CASE CoreBelow(v, w)
  <2>1. PICK i \in 1 .. n + m : p(i) < q(i) /\ \A j \in 1 .. i - 1 : p(j) = q(j)
    BY <1>4, <1>7
  <2>2. i \in {1, 2, 3}
    BY <1>1, <2>1
  <2>3. /\ i = 1 => p(1) < q(1)
        /\ i = 2 => p(1) = q(1) /\ p(2) < q(2)
        /\ i = 3 => p(1) = q(1) /\ p(2) = q(2) /\ p(3) < q(3)
    BY <2>1
  <2>4. \/ p(1) < q(1)
        \/ p(1) = q(1) /\ p(2) < q(2)
        \/ p(1) = q(1) /\ p(2) = q(2) /\ p(3) < q(3)
    BY <2>2, <2>3
  <2> QED
    BY <1>9, <2>4
<1>8. CASE ~CoreBelow(v, w)
  <2>1. /\ ~\E i \in 1 .. n + m : p(i) < q(i) /\ \A j \in 1 .. i - 1 : p(j) = q(j)
        /\ ~\E i \in 1 .. n + m : q(i) < p(i) /\ \A j \in 1 .. i - 1 : q(j) = p(j)
    <3>1. m + n = n + m
      BY <1>1
    <3> QED
      BY <1>4, <1>5, <1>8, <3>1
  <2>2. ASSUME NEW i \in {1, 2, 3}, \A j \in 1 .. i - 1 : p(j) = q(j)
        PROVE  p(i) = q(i)
    <3> SUFFICES ASSUME p(i) # q(i) PROVE FALSE
      OBVIOUS
    <3>1. i <= n \/ i <= m
      BY <1>1
    <3>2. i \in 1 .. n + m
      BY <1>1, <3>1
    <3>3. p(i) < q(i) \/ q(i) < p(i)
      BY <1>6
    <3>4. \A j \in 1 .. i - 1 : q(j) = p(j)
      BY <2>2
    <3> QED
      BY <2>1, <2>2, <3>2, <3>3, <3>4
  <2>3. p(1) = q(1)
    BY <2>2
  <2>4. p(2) = q(2)
    BY <2>2, <2>3
  <2>5. p(3) = q(3)
    BY <2>2, <2>3, <2>4
  <2> QED
    BY <1>5, <1>8, <1>9, <2>3, <2>4, <2>5
<1> QED
  BY <1>7, <1>8

\* An announced version is above the one that runs and old enough.
Due(v) == /\ Rank(v) > Rank(install.version)
          /\ \E e \in tags \cup releases : e.version = v /\ e.at + Grace <= now

LEMMA DueParts ==
    AnnouncedIsDue => /\ \A v \in latest : Due(v)
                      /\ \A v : /\ lastPublishedInfo.status = "update-available"
                                /\ lastPublishedInfo.of.version = v
                                => Due(v)
BY DEF AnnouncedIsDue, Due

LEMMA DueNext ==
    ASSUME \A v \in latest' : Due(v)',
           \A v : /\ lastPublishedInfo'.status = "update-available"
                  /\ lastPublishedInfo'.of.version = v
                  => Due(v)'
    PROVE  AnnouncedIsDue'
BY DEF AnnouncedIsDue, Due

\* What was due stays due while the same version runs.
LEMMA StaysDue ==
    ASSUME TypeOK, TypeOK', tags \subseteq tags', releases \subseteq releases', now <= now',
           UNCHANGED install, NEW v, Due(v)
    PROVE  Due(v)'
<1>1. PICK e \in tags \cup releases : e.version = v /\ e.at + Grace <= now
  BY DEF Due
<1>2. e.at \in Nat /\ now \in Nat /\ now' \in Nat /\ Grace \in Nat
  BY Bounds DEF TypeOK, Entries
<1>3. e.at + Grace <= now'
  BY <1>1, <1>2
<1> QED
  BY <1>1, <1>3 DEF Due

\* A step that announces nothing.
LEMMA NothingNew ==
    ASSUME TypeOK, TypeOK', AnnouncedIsDue, UNCHANGED install,
           tags \subseteq tags', releases \subseteq releases', now <= now',
           latest' \subseteq latest,
           \/ UNCHANGED lastPublishedInfo
           \/ lastPublishedInfo'.status # "update-available"
    PROVE  AnnouncedIsDue'
BY DueParts, DueNext, StaysDue

SmallVersions == \A v \in Versions \cup {i.version : i \in Installs} : Small(v)

\* The verdict over an entry of either list.
LEMMA JudgedIsDue ==
    ASSUME SmallVersions, TypeOK, TypeOK', AnnouncedIsDue,
           UNCHANGED <<install, tags, releases, now>>,
           NEW e \in tags \cup releases, Judge(e), check # "ntfy"
    PROVE  AnnouncedIsDue'
<1>1. latest = {}
  BY DEF TypeOK
<1>2. CASE ReportUpToDate(e)
  <2>1. latest' = {}
    BY <1>1, <1>2 DEF ReportUpToDate
  <2>2. UNCHANGED lastPublishedInfo \/ lastPublishedInfo'.status = "up-to-date"
    BY <1>2 DEF ReportUpToDate, publishInfoIfChanged, infoVars
  <2>3. now <= now'
    BY Bounds DEF TypeOK
  <2> QED
    BY <1>1, <2>1, <2>2, <2>3, NothingNew
<1>3. CASE NotifyUpdate(e) /\ OldEnough(e) /\ compareVersions(install.version, e.version) < 0
  <2>1. e \in Entries /\ install \in Installs
    BY DEF TypeOK
  <2>2. Small(e.version) /\ Small(install.version)
    BY <2>1 DEF SmallVersions, Entries
  <2>3. Rank(e.version) > Rank(install.version)
    BY <1>3, <2>2, BelowInRank
  <2>4. e.at + Grace <= now
    BY <1>3, <2>1, Bounds DEF OldEnough, TypeOK, Entries
  <2>5. Due(e.version)
    BY <2>3, <2>4 DEF Due
  <2>6. Due(e.version)'
    BY <2>5 DEF Due
  <2>7. latest' \subseteq {e.version}
    BY <1>1, <1>3 DEF NotifyUpdate
  <2>8. UNCHANGED lastPublishedInfo \/ lastPublishedInfo'.of = e
    BY <1>3 DEF NotifyUpdate, publishInfoIfChanged, infoVars
  <2>9. \A v : /\ lastPublishedInfo.status = "update-available"
               /\ lastPublishedInfo.of.version = v
               => Due(v)'
    BY DueParts DEF Due
  <2> QED
    BY <2>6, <2>7, <2>8, <2>9, DueNext
<1>4. CASE UNCHANGED <<latest, infoVars>>
  <2>1. now <= now'
    BY Bounds DEF TypeOK
  <2> QED
    BY <1>4, <2>1, NothingNew DEF infoVars
<1> QED
  BY <1>2, <1>3, <1>4 DEF Judge

LEMMA NextDue ==
    ASSUME SmallVersions, IInv, AnnouncedIsDue, [Next]_vars
    PROVE  AnnouncedIsDue'
<1>1. TypeOK /\ TypeOK'
  BY NextInv DEF IInv
<1>2. now <= now
  BY Bounds DEF TypeOK, IInv
<1>3. CASE \/ \E v \in Versions : Released(v) \/ \E date \in 0 .. MaxTime : Tagged(v, date)
           \/ LinkChanges \/ FetchFails \/ NtfyEnds \/ UNCHANGED vars
  <2>1. /\ UNCHANGED <<now, install, lastPublishedInfo>> /\ latest' \subseteq latest
        /\ tags \subseteq tags' /\ releases \subseteq releases'
    BY <1>3 DEF Released, Tagged, LinkChanges, FetchFails, NtfyEnds, vars, gitlabVars,
       processVars, infoVars
  <2> QED
    BY <1>1, <1>2, <2>1, NothingNew
<1>4. CASE Tick
  <2>1. now <= now'
    BY <1>1, <1>4, Bounds DEF Tick, TypeOK
  <2> QED
    BY <1>1, <1>4, <2>1, NothingNew DEF Tick, gitlabVars, processVars, infoVars
<1>5. CASE \E i \in Installs : Restart(i)
  <2>1. latest' = {} /\ lastPublishedInfo' = [status |-> "none"]
    BY <1>5 DEF Restart, Boot, NoInfo
  <2> QED
    BY <2>1, DueNext
<1>6. CASE CheckStarts
  <2>1. UNCHANGED lastPublishedInfo \/ lastPublishedInfo'.status = "development"
    BY <1>6 DEF CheckStarts, publishInfoIfChanged, infoVars
  <2> QED
    BY <1>1, <1>2, <1>6, <2>1, NothingNew DEF CheckStarts, gitlabVars, processVars
<1>7. CASE ReleasesAnswered
  <2>1. CASE UNCHANGED <<latest, infoVars>>
    BY <1>1, <1>2, <1>7, <2>1, NothingNew DEF ReleasesAnswered, gitlabVars, processVars, infoVars
  <2>2. CASE \E e \in releases : Judge(e)
    BY <1>1, <1>7, <2>2, JudgedIsDue DEF ReleasesAnswered, gitlabVars, processVars
  <2> QED
    BY <1>7, <2>1, <2>2 DEF ReleasesAnswered
<1>8. CASE TagsAnswered
  <2>1. CASE UNCHANGED <<latest, infoVars>>
    BY <1>1, <1>2, <1>8, <2>1, NothingNew DEF TagsAnswered, gitlabVars, processVars, infoVars
  <2>2. CASE \E e \in tags : Judge(e)
    BY <1>1, <1>8, <2>2, JudgedIsDue DEF TagsAnswered, gitlabVars, processVars
  <2> QED
    BY <1>8, <2>1, <2>2 DEF TagsAnswered
<1> QED
  BY <1>3, <1>4, <1>5, <1>6, <1>7, <1>8 DEF Next, Fetched

\* What the checks announce is above the version that runs and at least a grace
\* period old, for all versions that Rank tells apart.
THEOREM AnnouncedDue == SmallVersions => (Spec => []AnnouncedIsDue)
<1> SUFFICES ASSUME SmallVersions PROVE Spec => []AnnouncedIsDue
  OBVIOUS
<1>1. Init => AnnouncedIsDue
  BY DEF Init, NoInfo, AnnouncedIsDue
<1>2. IInv /\ AnnouncedIsDue /\ [Next]_vars => AnnouncedIsDue'
  BY NextDue
<1> QED
  BY <1>1, <1>2, Invariance, PTL DEF Spec

-----------------------------------------------------------------------------
(* What is announced stays announced: the safety half of                   *)
(* UpdateIsAnnounced, which TLC checks under fairness.                     *)

UpdateInfo(e) == [status |-> "update-available", current |-> install.version, of |-> e]

\* The latest release is due, Home Assistant is shown it, the webhook has been called
\* for it, and no answer about tags or webhook that is under way says anything else.
Announced(e) ==
    /\ IsLatestOf(e, releases) /\ OldEnough(e)
    /\ install.version # development /\ compareVersions(install.version, e.version) < 0
    /\ lastPublishedInfo = UpdateInfo(e) /\ retained = UpdateInfo(e)
    /\ install.webhook => e.version \in hasNotifiedVersion
    /\ check \in {"idle", "releases"}

\* Until there is a later release, or another start.
AnnouncementStands ==
    [][\A e \in releases : Announced(e) /\ IsLatestOf(e, releases)' /\ restarts' = restarts
                              => Announced(e)']_vars

LEMMA CompareType == \A v1, v2 : compareVersions(v1, v2) \in {-1, 0, 1}
<1>1. \A v1, v2 : comparePreRelease(v1, v2) \in {-1, 0, 1}
  BY DEF comparePreRelease
<1> QED
  BY <1>1 DEF compareVersions

\* The answer about the releases finds the same one, and leaves everything as it is.
LEMMA SameVerdict ==
    ASSUME IInv, ReleasesAnswered, NEW e \in releases, Announced(e)
    PROVE  /\ check' = "idle"
           /\ UNCHANGED <<now, releases, install, lastPublishedInfo, retained, hasNotifiedVersion>>
<1>1. PICK f \in releases : IsLatestOf(f, releases) /\ Judge(f)
  BY DEF ReleasesAnswered, Announced, IsLatestOf
<1>2. f = e
  <2>1. f.at \in Nat /\ e.at \in Nat
    BY Bounds DEF IInv, TypeOK, Entries
  <2>2. f.at <= e.at /\ e.at <= f.at
    BY <1>1 DEF Announced, IsLatestOf
  <2> QED
    BY <2>1, <2>2 DEF IInv, ReleasesDiffer
<1>3. NotifyUpdate(e)
  <2>1. compareVersions(install.version, e.version) \in {-1, 0, 1}
    BY CompareType
  <2>2. ~(compareVersions(install.version, e.version) >= 0)
    BY <2>1 DEF Announced
  <2> QED
    BY <1>1, <1>2, <2>2 DEF Judge, Announced
<1>4. check' = "idle" /\ UNCHANGED infoVars
  BY <1>3 DEF NotifyUpdate, publishInfoIfChanged, Announced, UpdateInfo
<1> QED
  BY <1>4 DEF ReleasesAnswered, gitlabVars, processVars, infoVars

\* From then on Home Assistant is shown the update and the webhook is not called
\* again, over fetches that fail and a link that comes and goes, until there is a later
\* release or the process starts again (checkForUpdates, version-checker.ts).
THEOREM AnnouncedStands == Spec => AnnouncementStands
<1>1. ASSUME IInv, [Next]_vars, NEW e \in releases, Announced(e), IsLatestOf(e, releases)',
             restarts' = restarts
      PROVE  Announced(e)'
  <2>1. \A i \in Installs : ~Restart(i)
    BY <1>1, Bounds DEF Restart, IInv, TypeOK
  <2>2. ~TagsAnswered /\ ~NtfyEnds
    BY <1>1 DEF TagsAnswered, NtfyEnds, Announced
  <2>3. CASE ReleasesAnswered
    <3>1. /\ check' = "idle"
          /\ UNCHANGED <<now, releases, install, lastPublishedInfo, retained, hasNotifiedVersion>>
      BY <1>1, <2>3, SameVerdict
    <3> QED
      BY <1>1, <3>1 DEF Announced, OldEnough, UpdateInfo
  <2>4. CASE CheckStarts \/ FetchFails
    BY <1>1, <2>4 DEF CheckStarts, FetchFails, Announced, OldEnough, UpdateInfo, infoVars,
       processVars
  <2>5. CASE Tick
    <3>1. OldEnough(e)'
      BY <1>1, <2>5, Bounds DEF Tick, OldEnough, Announced, IInv, TypeOK, Entries
    <3> QED
      BY <1>1, <2>5, <3>1 DEF Tick, Announced, UpdateInfo, infoVars, processVars
  <2>6. CASE \/ \E v \in Versions : Released(v) \/ \E date \in 0 .. MaxTime : Tagged(v, date)
             \/ LinkChanges \/ UNCHANGED vars
    BY <1>1, <2>6 DEF Released, Tagged, LinkChanges, vars, Announced, OldEnough, UpdateInfo,
       infoVars, processVars
  <2> QED
    BY <1>1, <2>1, <2>2, <2>3, <2>4, <2>5, <2>6 DEF Next, Fetched
<1>2. IInv /\ [Next]_vars
        => [\A e \in releases : Announced(e) /\ IsLatestOf(e, releases)' /\ restarts' = restarts
                                   => Announced(e)']_vars
  BY <1>1
<1> QED
  BY <1>2, Invariance, PTL DEF Spec, AnnouncementStands
=============================================================================
