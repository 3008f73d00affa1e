-------------------------- MODULE BadgeStoreProofs --------------------------
(***************************************************************************)
(* Theorems about BadgeStore, for any number of runs of the server and of  *)
(* one-shot processes, any versions and any page: types, that no good      *)
(* value is lost or replaced by a worse one but by a failed or stopped     *)
(* write of its own or an older run under way, that what is settled stays  *)
(* settled, what separates a redirect from its badge, and that the two     *)
(* orders of versions agree.                                               *)
(***************************************************************************)
EXTENDS BadgeStore, VersionOrderProofs, SequenceTheorems, TLAPS

-----------------------------------------------------------------------------
(* The page.                                                               *)

\* A tag that is found on a page stands on it.
LEMMA FirstTagType ==
    ASSUME NEW S, NEW page \in Seq(S), NEW isBeta \in BOOLEAN
    PROVE  FirstTag(page, isBeta) \in S \cup {None}
<1> DEFINE hits == {i \in DOMAIN page : isBetaTag(page[i]) = isBeta}
           first == CHOOSE i \in hits : \A j \in hits : i <= j
<1>1. DOMAIN page = 1 .. Len(page) /\ Len(page) \in Nat
  BY LenProperties
<1>2. hits \in SUBSET Nat
  BY <1>1
<1>3. CASE hits = {}
  BY <1>3 DEF FirstTag
<1>4. CASE hits # {}
  <2>1. first \in hits
    BY <1>2, <1>4, SmallestHit
  <2>2. page[first] \in S
    BY <1>1, <2>1, ElementOfSeq
  <2> QED
    BY <1>4, <2>2 DEF FirstTag
<1> QED
  BY <1>3, <1>4

LEMMA LatestType ==
    ASSUME releases \in Seq(Tags)
    PROVE  fetchLatestReleases \in Latest
<1> DEFINE n == IF Len(releases) < PageSize THEN Len(releases) ELSE PageSize
           page == SubSeq(releases, 1, n)
<1>1. Len(releases) \in Nat /\ PageSize \in Nat
  BY LenProperties, BadgeAssumption
<1>2. n \in Nat /\ n <= Len(releases)
  BY <1>1
<1>3. page \in Seq(Tags)
  <2> HIDE DEF n
  <2>1. \A i \in 1 .. n : releases[i] \in Tags
    BY <1>1, <1>2, ElementOfSeq
  <2> QED
    BY <1>2, <2>1, SubSeqProperties
<1>4. FirstTag(page, FALSE) \in Tags \cup {None} /\ FirstTag(page, TRUE) \in Tags \cup {None}
  BY <1>3, FirstTagType
<1> QED
  BY <1>4 DEF fetchLatestReleases, Latest

-----------------------------------------------------------------------------
(* The inductive invariant.                                                *)

WorldTypes == /\ releases \in Seq(Tags) /\ usage \in Counts
              /\ spent \in 0 .. MaxDisturbances /\ server \in {"down", "starting", "up"}
MemoryTypes == /\ telemetryJson \in Counts \cup {None}
               /\ stableTag \in Tags \cup {None} /\ betaTag \in Tags \cup {None}
FileTypes == /\ DOMAIN files = Files
             /\ files.users \in Counts \cup {None, Torn}
             /\ files.json \in Counts \cup {None, Torn}
             /\ files.stable \in Tags \cup {None, Torn}
             /\ files.beta \in Tags \cup {None, Torn, Invisible}

\* What a run at a step goes on with.
Content(label) == CASE label \in {"users", "json"} -> Counts
                    [] label = "stable" -> Latest
                    [] label = "beta"   -> Tags \cup {Invisible}
                    [] OTHER            -> {None}
RunTypes == /\ pc \in [Runs -> {"idle", "query", "fetch"} \cup Files]
            /\ DOMAIN found = Runs
            /\ \A r \in Runs : found[r] \in Content(pc[r])

LEMMA TypeParts == /\ TypeOK <=> WorldTypes /\ MemoryTypes /\ FileTypes /\ RunTypes
                   /\ TypeOK' <=> WorldTypes' /\ MemoryTypes' /\ FileTypes' /\ RunTypes'
BY DEF TypeOK, WorldTypes, MemoryTypes, FileTypes, RunTypes, Content

\* A run is about to write the stable badge only with a stable release.
StableIsFound == \A r \in Runs : pc[r] = "stable" => found[r].stable # None

IInv == WorldTypes /\ MemoryTypes /\ FileTypes /\ RunTypes /\ StableIsFound

LEMMA InitHolds == Init => IInv
<1> SUFFICES ASSUME Init PROVE IInv
  OBVIOUS
<1>1. WorldTypes
  <2>1. releases \in Seq(Tags)
    <3>1. \A v \in Tags : <<v>> \in Seq(Tags)
      OBVIOUS
    <3> QED
      BY <3>1, EmptySeq DEF Init
  <2> QED
    BY <2>1, BadgeAssumption DEF Init, WorldTypes
<1>2. MemoryTypes /\ FileTypes
  BY DEF Init, MemoryTypes, FileTypes, Files
<1>3. RunTypes /\ StableIsFound
  BY DEF Init, RunTypes, StableIsFound, Content
<1> QED
  BY <1>1, <1>2, <1>3 DEF IInv

\* A run goes on with what belongs to its next step.
LEMMA GotoTypes ==
    ASSUME RunTypes, StableIsFound, NEW r \in Runs
    PROVE  \A label \in {"idle", "query", "fetch"} \cup Files : \A content \in Content(label) :
              /\ Goto(r, label, content)
              /\ label = "stable" => content.stable # None
              => RunTypes' /\ StableIsFound'
<1> SUFFICES ASSUME NEW label \in {"idle", "query", "fetch"} \cup Files,
                    NEW content \in Content(label), Goto(r, label, content),
                    label = "stable" => content.stable # None
             PROVE  RunTypes' /\ StableIsFound'
  OBVIOUS
<1>1. /\ pc' = [pc EXCEPT ![r] = label]
      /\ found' = [found EXCEPT ![r] = content]
  BY DEF Goto
<1>2. DOMAIN found' = Runs
  BY <1>1 DEF RunTypes
<1>3. pc' \in [Runs -> {"idle", "query", "fetch"} \cup Files]
  BY <1>1 DEF RunTypes
<1>4. pc'[r] = label /\ found'[r] = content
  BY <1>1 DEF RunTypes
<1>5. \A q \in Runs : q # r => pc'[q] = pc[q] /\ found'[q] = found[q]
  BY <1>1 DEF RunTypes
<1>6. ASSUME NEW q \in Runs PROVE found'[q] \in Content(pc'[q])
  <2>1. CASE q = r
    BY <1>4, <2>1
  <2>2. CASE q # r
    BY <1>5, <2>2 DEF RunTypes
  <2> QED
    BY <2>1, <2>2
<1>7. ASSUME NEW q \in Runs, pc'[q] = "stable" PROVE found'[q].stable # None
  <2>1. CASE q = r
    BY <1>4, <1>7, <2>1
  <2>2. CASE q # r
    BY <1>5, <1>7, <2>2 DEF StableIsFound
  <2> QED
    BY <2>1, <2>2
<1> QED
  BY <1>2, <1>3, <1>6, <1>7 DEF RunTypes, StableIsFound

LEMMA Contents ==
    /\ Content("idle") = {None} /\ Content("query") = {None} /\ Content("fetch") = {None}
    /\ Content("users") = Counts /\ Content("json") = Counts
    /\ Content("stable") = Latest /\ Content("beta") = Tags \cup {Invisible}
BY DEF Content

LEMMA EndsTypes ==
    ASSUME WorldTypes, RunTypes, StableIsFound, NEW r \in Runs, Ends(r)
    PROVE  /\ RunTypes' /\ StableIsFound'
           /\ server' \in {"down", "starting", "up"}
           /\ server' = "down" => server = "down"
<1>1. Goto(r, "idle", None)
  BY DEF Ends
<1>2. RunTypes' /\ StableIsFound'
  BY <1>1, GotoTypes, Contents
<1> QED
  BY <1>2 DEF Ends, WorldTypes

-----------------------------------------------------------------------------
(* Each step.                                                              *)

LEMMA StartStep ==
    ASSUME IInv, NEW r \in Runs, ServerStarts \/ RegenerateStarts(r)
    PROVE  IInv' /\ NothingIsLost
<1>1. PICK q \in Runs : Goto(q, "query", None)
  BY DEF ServerStarts, RegenerateStarts, Runs
<1>2. RunTypes' /\ StableIsFound'
  BY <1>1, GotoTypes, Contents DEF IInv
<1>3. /\ UNCHANGED <<worldVars, memoryVars, files, spent>>
      /\ server' \in {server, "starting"}
  BY DEF ServerStarts, RegenerateStarts
<1>4. WorldTypes'
  BY <1>3 DEF IInv, WorldTypes, worldVars
<1>5. MemoryTypes'
  BY <1>3 DEF IInv, MemoryTypes, memoryVars
<1>6. FileTypes'
  BY <1>3 DEF IInv, FileTypes
<1>7. NothingIsLost
  BY <1>3 DEF NothingIsLost, memoryVars
<1> QED
  BY <1>2, <1>4, <1>5, <1>6, <1>7 DEF IInv

LEMMA QueryStep ==
    ASSUME IInv, NEW r \in Runs, QueryAnswered(r) \/ QueryFails(r) \/ FetchFails(r)
    PROVE  IInv' /\ NothingIsLost
<1>1. RunTypes' /\ StableIsFound' /\ server' \in {"down", "starting", "up"}
  <2>1. CASE QueryAnswered(r)
    <3>1. Goto(r, "users", usage) /\ server' = server
      BY <2>1 DEF QueryAnswered
    <3>2. usage \in Content("users") /\ "users" \in Files
      BY Contents DEF IInv, WorldTypes, Files
    <3>3. RunTypes' /\ StableIsFound'
      BY <3>1, <3>2, GotoTypes DEF IInv
    <3> QED
      BY <3>1, <3>3 DEF IInv, WorldTypes
  <2>2. CASE QueryFails(r)
    <3>1. Goto(r, "fetch", None) /\ server' = server
      BY <2>2 DEF QueryFails
    <3>2. RunTypes' /\ StableIsFound'
      BY <3>1, GotoTypes, Contents DEF IInv
    <3> QED
      BY <3>1, <3>2 DEF IInv, WorldTypes
  <2>3. CASE FetchFails(r)
    BY <2>3, EndsTypes DEF FetchFails, IInv
  <2> QED
    BY <2>1, <2>2, <2>3
<1>2. UNCHANGED <<worldVars, memoryVars, files, spent>>
  BY DEF QueryAnswered, QueryFails, FetchFails
<1>3. WorldTypes'
  BY <1>1, <1>2 DEF IInv, WorldTypes, worldVars
<1>4. MemoryTypes'
  BY <1>2 DEF IInv, MemoryTypes, memoryVars
<1>5. FileTypes'
  BY <1>2 DEF IInv, FileTypes
<1>6. NothingIsLost
  BY <1>2 DEF NothingIsLost, memoryVars
<1> QED
  BY <1>1, <1>3, <1>4, <1>5, <1>6 DEF IInv

LEMMA UsersStep ==
    ASSUME IInv, NEW r \in Runs, UsersWritten(r)
    PROVE  IInv' /\ NothingIsLost
<1>1. /\ pc[r] = "users" /\ Goto(r, "json", found[r])
      /\ files' = [files EXCEPT !.users = found[r]]
      /\ UNCHANGED <<worldVars, server, memoryVars, spent>>
  BY DEF UsersWritten
<1>2. found[r] \in Counts /\ found[r] \notin {None, Torn}
  <2>1. found[r] \in Counts
    BY <1>1, Contents DEF IInv, RunTypes
  <2> QED
    BY <2>1, BadgeAssumption
<1>3. RunTypes' /\ StableIsFound'
  <2>1. found[r] \in Content("json") /\ "json" \in Files
    BY <1>2, Contents DEF Files
  <2> QED
    BY <1>1, <2>1, GotoTypes DEF IInv
<1>4. WorldTypes'
  BY <1>1 DEF IInv, WorldTypes, worldVars
<1>5. MemoryTypes'
  BY <1>1 DEF IInv, MemoryTypes, memoryVars
<1>6. FileTypes'
  BY <1>1, <1>2 DEF IInv, FileTypes, Files
<1>7. NothingIsLost
  BY <1>1, <1>2 DEF NothingIsLost, memoryVars, IInv, FileTypes, Files
<1> QED
  BY <1>3, <1>4, <1>5, <1>6, <1>7 DEF IInv

LEMMA JsonStep ==
    ASSUME IInv, NEW r \in Runs, JsonWritten(r)
    PROVE  IInv' /\ NothingIsLost
<1>1. /\ pc[r] = "json" /\ Goto(r, "fetch", None)
      /\ files' = [files EXCEPT !.json = found[r]]
      /\ telemetryJson' \in {telemetryJson, found[r]}
      /\ UNCHANGED <<worldVars, server, stableTag, betaTag, spent>>
  BY DEF JsonWritten
<1>2. found[r] \in Counts /\ found[r] \notin {None, Torn}
  <2>1. found[r] \in Counts
    BY <1>1, Contents DEF IInv, RunTypes
  <2> QED
    BY <2>1, BadgeAssumption
<1>3. RunTypes' /\ StableIsFound'
  BY <1>1, GotoTypes, Contents DEF IInv
<1>4. WorldTypes'
  BY <1>1 DEF IInv, WorldTypes, worldVars
<1>5. MemoryTypes'
  BY <1>1, <1>2 DEF IInv, MemoryTypes
<1>6. FileTypes'
  BY <1>1, <1>2 DEF IInv, FileTypes, Files
<1>7. NothingIsLost
  BY <1>1, <1>2 DEF NothingIsLost, IInv, FileTypes, Files
<1> QED
  BY <1>3, <1>4, <1>5, <1>6, <1>7 DEF IInv

\* The memory's beta is dropped only on the way to hiding the badge.
BetaIsLeft == betaTag # None => \/ betaTag' # None
                                \/ \E r \in ServerRuns : pc'[r] = "beta" /\ found'[r] = Invisible

\* The releases half goes on with a latest beta, or without one.
LEMMA BetaTypes ==
    ASSUME IInv, NEW r \in Runs
    PROVE  \A latest \in Latest : BetaDecided(r, latest)
              => /\ RunTypes' /\ StableIsFound' /\ server' = server
                 /\ betaTag' \in Tags \cup {None} /\ BetaIsLeft
<1> SUFFICES ASSUME NEW latest \in Latest, BetaDecided(r, latest)
             PROVE  /\ RunTypes' /\ StableIsFound' /\ server' = server
                    /\ betaTag' \in Tags \cup {None} /\ BetaIsLeft
  OBVIOUS
<1>1. betaIsNewer(latest) => latest.beta \in Tags /\ latest.beta # None
  BY DEF betaIsNewer, Latest
<1>2. betaBadge(latest) \in Content("beta")
  BY <1>1, Contents DEF betaBadge
<1>3. Goto(r, "beta", betaBadge(latest)) /\ "beta" \in Files
  BY DEF BetaDecided, Files
<1>4. RunTypes' /\ StableIsFound'
  BY <1>2, <1>3, GotoTypes DEF IInv
<1>5. /\ betaTag' = IF r \in ServerRuns THEN betaRedirect(latest) ELSE betaTag
      /\ server' = server
  BY DEF BetaDecided
<1>6. betaTag' \in Tags \cup {None}
  BY <1>1, <1>5 DEF betaRedirect, IInv, MemoryTypes
<1>7. BetaIsLeft
  <2>1. pc'[r] = "beta" /\ found'[r] = betaBadge(latest)
    BY <1>3 DEF Goto, IInv, RunTypes
  <2> QED
    BY <1>1, <1>5, <2>1 DEF BetaIsLeft, betaRedirect, betaBadge
<1> QED
  BY <1>4, <1>5, <1>6, <1>7

LEMMA FetchStep ==
    ASSUME IInv, NEW r \in Runs, ReleasesFetched(r)
    PROVE  IInv' /\ NothingIsLost
<1> DEFINE latest == fetchLatestReleases
<1>1. latest \in Latest
  BY LatestType DEF IInv, WorldTypes
<1> HIDE DEF latest
<1>2. /\ stableTag' = IF r \in ServerRuns /\ latest.stable # None THEN latest.stable
                      ELSE stableTag
      /\ IF latest = NoReleases THEN Ends(r) /\ UNCHANGED betaTag
         ELSE IF latest.stable = None THEN BetaDecided(r, latest)
         ELSE Goto(r, "stable", latest) /\ UNCHANGED <<server, betaTag>>
      /\ UNCHANGED <<worldVars, telemetryJson, files, spent>>
  BY DEF ReleasesFetched, latest
<1>3. /\ RunTypes' /\ StableIsFound' /\ BetaIsLeft
      /\ server' \in {"down", "starting", "up"} /\ betaTag' \in Tags \cup {None}
  <2>1. CASE Ends(r) /\ UNCHANGED betaTag
    BY <2>1, EndsTypes DEF IInv, MemoryTypes, BetaIsLeft
  <2>2. CASE BetaDecided(r, latest)
    BY <1>1, <2>2, BetaTypes DEF IInv, WorldTypes
  <2>3. CASE latest.stable # None /\ Goto(r, "stable", latest) /\ UNCHANGED <<server, betaTag>>
    <3>1. latest \in Content("stable") /\ "stable" \in Files
      BY <1>1, Contents DEF Files
    <3>2. RunTypes' /\ StableIsFound'
      BY <2>3, <3>1, GotoTypes DEF IInv
    <3> QED
      BY <2>3, <3>2 DEF IInv, WorldTypes, MemoryTypes, BetaIsLeft
  <2> QED
    BY <1>2, <2>1, <2>2, <2>3
<1>4. WorldTypes'
  BY <1>2, <1>3 DEF IInv, WorldTypes, worldVars
<1>5. MemoryTypes'
  BY <1>1, <1>2, <1>3 DEF IInv, MemoryTypes, Latest
<1>6. FileTypes'
  BY <1>2 DEF IInv, FileTypes
<1>7. NothingIsLost
  BY <1>2, <1>3 DEF NothingIsLost, BetaIsLeft
<1> QED
  BY <1>3, <1>4, <1>5, <1>6, <1>7 DEF IInv

LEMMA StableStep ==
    ASSUME IInv, NEW r \in Runs, StableWritten(r)
    PROVE  IInv' /\ NothingIsLost
<1>1. /\ pc[r] = "stable" /\ files' = [files EXCEPT !.stable = found[r].stable]
      /\ BetaDecided(r, found[r])
      /\ UNCHANGED <<worldVars, telemetryJson, stableTag, spent>>
  BY DEF StableWritten
<1>2. found[r] \in Latest /\ found[r].stable # None
  BY <1>1, Contents DEF IInv, RunTypes, StableIsFound
<1>3. found[r].stable \in Tags /\ found[r].stable \notin {None, Torn}
  BY <1>2, BadgeAssumption DEF Latest
<1>4. /\ RunTypes' /\ StableIsFound' /\ server' = server
      /\ betaTag' \in Tags \cup {None} /\ BetaIsLeft
  BY <1>1, <1>2, BetaTypes
<1>5. WorldTypes'
  BY <1>1, <1>4 DEF IInv, WorldTypes, worldVars
<1>6. MemoryTypes'
  BY <1>1, <1>4 DEF IInv, MemoryTypes
<1>7. FileTypes'
  BY <1>1, <1>3 DEF IInv, FileTypes, Files
<1>8. NothingIsLost
  BY <1>1, <1>3, <1>4 DEF NothingIsLost, BetaIsLeft, IInv, FileTypes, Files
<1> QED
  BY <1>4, <1>5, <1>6, <1>7, <1>8 DEF IInv

LEMMA BetaStep ==
    ASSUME IInv, NEW r \in Runs, BetaWritten(r)
    PROVE  IInv' /\ NothingIsLost
<1>1. /\ pc[r] = "beta" /\ files' = [files EXCEPT !.beta = found[r]] /\ Ends(r)
      /\ UNCHANGED <<worldVars, memoryVars, spent>>
  BY DEF BetaWritten
<1>2. found[r] \in Tags \cup {Invisible} /\ found[r] \notin {None, Torn}
  <2>1. found[r] \in Tags \cup {Invisible}
    BY <1>1, Contents DEF IInv, RunTypes
  <2> QED
    BY <2>1, BadgeAssumption
<1>3. RunTypes' /\ StableIsFound' /\ server' \in {"down", "starting", "up"}
  BY <1>1, EndsTypes DEF IInv
<1>4. WorldTypes'
  BY <1>1, <1>3 DEF IInv, WorldTypes, worldVars
<1>5. MemoryTypes'
  BY <1>1 DEF IInv, MemoryTypes, memoryVars
<1>6. FileTypes'
  BY <1>1, <1>2 DEF IInv, FileTypes, Files
<1>7. NothingIsLost
  BY <1>1, <1>2 DEF NothingIsLost, memoryVars, IInv, FileTypes, Files
<1> QED
  BY <1>3, <1>4, <1>5, <1>6, <1>7 DEF IInv

LEMMA FailureStep ==
    ASSUME IInv, NEW r \in Runs, WriteFails(r)
    PROVE  IInv' /\ NothingIsLost
<1>1. /\ pc[r] \in Files /\ spent < MaxDisturbances /\ spent' = spent + 1
      /\ files' \in {files, [files EXCEPT ![pc[r]] = Torn]}
      /\ UNCHANGED <<worldVars, memoryVars>>
  BY DEF WriteFails, Disturbance
<1>2. RunTypes' /\ StableIsFound' /\ server' \in {"down", "starting", "up"}
  <2>1. CASE Goto(r, "fetch", None) /\ UNCHANGED server
    <3>1. RunTypes' /\ StableIsFound'
      BY <2>1, GotoTypes, Contents DEF IInv
    <3> QED
      BY <2>1, <3>1 DEF IInv, WorldTypes
  <2>2. CASE Ends(r)
    BY <2>2, EndsTypes DEF IInv
  <2> QED
    BY <2>1, <2>2 DEF WriteFails
<1>3. WorldTypes'
  BY <1>1, <1>2, BadgeAssumption DEF IInv, WorldTypes, worldVars
<1>4. MemoryTypes'
  BY <1>1 DEF IInv, MemoryTypes, memoryVars
<1>5. \A f \in Files : files'[f] \in {files[f], Torn}
  BY <1>1 DEF IInv, FileTypes
<1>6. FileTypes'
  BY <1>1, <1>5 DEF IInv, FileTypes, Files
<1>7. NothingIsLost
  <2>1. spent' # spent
    BY <1>1 DEF IInv, WorldTypes
  <2>2. \A f \in Files : files'[f] # files[f] => Spoilt(f)
    BY <1>1, <1>5, <2>1 DEF Spoilt, IInv, FileTypes
  <2> QED
    BY <1>1, <2>2 DEF NothingIsLost, memoryVars
<1> QED
  BY <1>2, <1>3, <1>4, <1>6, <1>7 DEF IInv

LEMMA StopStep ==
    ASSUME IInv, ServerStops
    PROVE  IInv' /\ NothingIsLost
<1>1. /\ spent < MaxDisturbances /\ spent' = spent + 1 /\ server' = "down"
      /\ pc' = [r \in Runs |-> "idle"] /\ found' = [r \in Runs |-> None]
      /\ telemetryJson' = None /\ stableTag' = None /\ betaTag' = None
      /\ UNCHANGED worldVars
  BY DEF ServerStops, Disturbance
<1>2. DOMAIN files' = Files /\ \A f \in Files : files'[f] \in {files[f], Torn}
  BY DEF ServerStops
<1>3. RunTypes' /\ StableIsFound'
  BY <1>1 DEF RunTypes, StableIsFound, Content
<1>4. WorldTypes'
  BY <1>1, BadgeAssumption DEF IInv, WorldTypes, worldVars
<1>5. MemoryTypes'
  BY <1>1 DEF MemoryTypes
<1>6. FileTypes'
  BY <1>2 DEF IInv, FileTypes, Files
<1>7. NothingIsLost
  <2>1. spent' # spent
    BY <1>1 DEF IInv, WorldTypes
  <2>2. \A f \in Files : files'[f] # files[f] => Spoilt(f)
    BY <2>1 DEF ServerStops, Spoilt
  <2> QED
    BY <1>1, <2>2 DEF NothingIsLost
<1> QED
  BY <1>3, <1>4, <1>5, <1>6, <1>7 DEF IInv

LEMMA WorldStep ==
    ASSUME IInv, UsageChanges \/ Withdrawn \/ \E v \in Tags : Published(v)
    PROVE  IInv' /\ NothingIsLost
<1>1. /\ spent < MaxDisturbances /\ spent' = spent + 1
      /\ UNCHANGED <<server, pc, found, memoryVars, files>>
  BY DEF UsageChanges, Withdrawn, Published, Disturbance
<1>2. releases' \in Seq(Tags) /\ usage' \in Counts
  <2>1. CASE UsageChanges
    BY <2>1 DEF UsageChanges, IInv, WorldTypes
  <2>2. ASSUME NEW v \in Tags, Published(v) PROVE releases' \in Seq(Tags) /\ usage' \in Counts
    <3>1. <<v>> \in Seq(Tags)
      OBVIOUS
    <3>2. releases \in Seq(Tags) /\ usage \in Counts
      BY DEF IInv, WorldTypes
    <3> QED
      BY <2>2, <3>1, <3>2, ConcatProperties DEF Published
  <2>3. CASE Withdrawn
    <3>1. releases \in Seq(Tags) /\ releases # <<>> /\ usage \in Counts
      BY <2>3 DEF Withdrawn, IInv, WorldTypes
    <3> QED
      BY <2>3, <3>1, HeadTailProperties DEF Withdrawn
  <2> QED
    BY <2>1, <2>2, <2>3
<1>3. WorldTypes'
  BY <1>1, <1>2, BadgeAssumption DEF IInv, WorldTypes
<1>4. MemoryTypes' /\ FileTypes' /\ RunTypes' /\ StableIsFound'
  BY <1>1 DEF IInv, MemoryTypes, FileTypes, RunTypes, StableIsFound, memoryVars
<1>5. NothingIsLost
  BY <1>1 DEF NothingIsLost, memoryVars
<1> QED
  BY <1>3, <1>4, <1>5 DEF IInv

-----------------------------------------------------------------------------
(* The theorems.                                                           *)

LEMMA EveryStep == IInv /\ [Next]_vars => IInv' /\ NothingIsLost
<1> SUFFICES ASSUME IInv, [Next]_vars PROVE IInv' /\ NothingIsLost
  OBVIOUS
<1>1. CASE ServerStarts
  <2>1. PICK r \in ServerRuns : Goto(r, "query", None)
    BY <1>1 DEF ServerStarts
  <2>2. r \in Runs
    BY DEF Runs
  <2> QED
    BY <1>1, <2>2, StartStep
<1>2. CASE ServerStops
  BY <1>2, StopStep
<1>3. CASE UsageChanges \/ Withdrawn
  BY <1>3, WorldStep
<1>4. ASSUME NEW r \in Runs, RegenerateStarts(r) PROVE IInv' /\ NothingIsLost
  BY <1>4, StartStep
<1>5. ASSUME NEW r \in Runs, HalfStep(r) PROVE IInv' /\ NothingIsLost
  BY <1>5, QueryStep, UsersStep, JsonStep, FetchStep, StableStep, BetaStep DEF HalfStep
<1>6. ASSUME NEW r \in Runs, WriteFails(r) PROVE IInv' /\ NothingIsLost
  BY <1>6, FailureStep
<1>7. CASE \E v \in Tags : Published(v)
  BY <1>7, WorldStep
<1>8. CASE UNCHANGED vars
  <2>1. IInv'
    BY <1>8 DEF vars, IInv, WorldTypes, MemoryTypes, FileTypes, RunTypes, StableIsFound
  <2>2. NothingIsLost
    BY <1>8 DEF vars, NothingIsLost
  <2> QED
    BY <2>1, <2>2
<1> QED
  BY <1>1, <1>2, <1>3, <1>4, <1>5, <1>6, <1>7, <1>8 DEF Next

\* The inductive invariant: types, and that a run writes the stable badge only when
\* the list it fetched has a stable release (regenerateReleases, badge-store.ts).
THEOREM Invariance == Spec => []IInv
<1>1. IInv /\ [Next]_vars => IInv'
  BY EveryStep
<1> QED
  BY <1>1, InitHolds, PTL DEF Spec

\* Type correctness: what a run goes on with belongs to the file it writes next.
THEOREM TypeCorrect == Spec => []TypeOK
<1>1. IInv => TypeOK
  BY TypeParts DEF IInv
<1> QED
  BY <1>1, Invariance, PTL

-----------------------------------------------------------------------------
(* A step of a run, and what the other runs go on with.                    *)

\* A step of a run changes nothing of another run.
LEMMA GotoEffect ==
    ASSUME RunTypes, NEW r \in Runs
    PROVE  \A label, content : Goto(r, label, content) =>
              /\ pc'[r] = label /\ found'[r] = content
              /\ \A q \in Runs : q # r => pc'[q] = pc[q] /\ found'[q] = found[q]
BY DEF Goto, RunTypes

LEMMA ListIsRead == releases' = releases => fetchLatestReleases' = fetchLatestReleases
BY DEF fetchLatestReleases

\* A run that goes on with what the list says leaves nothing old under way.
LEMMA CarriesOn ==
    ASSUME RunTypes, NEW latest, ReleasesCarried(latest), NEW r \in Runs
    PROVE  \A label, content :
              /\ Goto(r, label, content)
              /\ label = "stable" => content = latest
              /\ label = "beta" => latest # NoReleases /\ content = betaBadge(latest)
              => ReleasesCarried(latest)'
<1> SUFFICES ASSUME NEW label, NEW content, Goto(r, label, content),
                    label = "stable" => content = latest,
                    label = "beta" => latest # NoReleases /\ content = betaBadge(latest)
             PROVE  ReleasesCarried(latest)'
  OBVIOUS
<1>1. /\ pc'[r] = label /\ found'[r] = content
      /\ \A q \in Runs : q # r => pc'[q] = pc[q] /\ found'[q] = found[q]
  BY GotoEffect
<1>2. ASSUME NEW q \in Runs
      PROVE  /\ pc'[q] = "stable" => found'[q] = latest
             /\ pc'[q] = "beta" => latest # NoReleases /\ found'[q] = betaBadge(latest)
  <2>1. CASE q = r
    BY <1>1, <2>1
  <2>2. CASE q # r
    BY <1>1, <2>2 DEF ReleasesCarried
  <2> QED
    BY <2>1, <2>2
<1> QED
  BY <1>2 DEF ReleasesCarried

\* A run that goes on with the present count, or with none, has no older one.
LEMMA CountsOn ==
    ASSUME RunTypes, CountsCarried, usage' = usage, NEW r \in Runs
    PROVE  \A label, content :
              Goto(r, label, content) /\ (label \in {"users", "json"} => content = usage)
              => CountsCarried'
<1> SUFFICES ASSUME NEW label, NEW content, Goto(r, label, content),
                    label \in {"users", "json"} => content = usage,
                    NEW q \in Runs, pc'[q] \in {"users", "json"}
             PROVE  found'[q] = usage
  BY DEF CountsCarried
<1>1. /\ pc'[r] = label /\ found'[r] = content
      /\ \A p \in Runs : p # r => pc'[p] = pc[p] /\ found'[p] = found[p]
  BY GotoEffect
<1>2. CASE q = r
  BY <1>1, <1>2
<1>3. CASE q # r
  BY <1>1, <1>3 DEF CountsCarried
<1> QED
  BY <1>2, <1>3

LEMMA DisturbanceIsSpent == IInv /\ Disturbance => spent' # spent
BY BadgeAssumption DEF IInv, WorldTypes, Disturbance

\* The files change in a failure or a stop only where they were being written.
LEMMA FailureSpoils ==
    ASSUME IInv, NEW r \in Runs, WriteFails(r) \/ ServerStops
    PROVE  \A f \in Files : files'[f] # files[f] => Spoilt(f)
<1>1. spent' # spent
  BY DisturbanceIsSpent DEF WriteFails, ServerStops
<1>2. CASE WriteFails(r)
  BY <1>1, <1>2 DEF WriteFails, Spoilt, IInv, FileTypes
<1>3. CASE ServerStops
  BY <1>1, <1>3 DEF ServerStops, Spoilt
<1> QED
  BY <1>2, <1>3

\* A run fails or starts: of pc and found it changes its own.
LEMMA FailsAside ==
    ASSUME NEW r \in Runs, WriteFails(r)
    PROVE  /\ \E label \in {"fetch", "idle"} : Goto(r, label, None)
           /\ UNCHANGED <<worldVars, memoryVars>>
BY DEF WriteFails, Ends

-----------------------------------------------------------------------------
(* The telemetry.                                                          *)

\* What TelemetryGuarded says of a step, and of the memory even in a stop.
TelemetryHeld == /\ CountsCarried'
                 /\ \A f \in {"users", "json"} : files'[f] \in {files[f], usage} \/ Spoilt(f)
                 /\ telemetryJson' \in {telemetryJson, usage}

LEMMA TelemetryRunStep ==
    ASSUME IInv, CountsCarried, NEW r \in Runs, HalfStep(r)
    PROVE  /\ TelemetryHeld
           /\ \A f \in {"users", "json"} : files'[f] \in {files[f], usage}
<1> DEFINE Same == usage' = usage /\ telemetryJson' = telemetryJson
           FilesSame == files'.users = files.users /\ files'.json = files.json
<1>1. RunTypes
  BY DEF IInv
<1>2. CASE QueryAnswered(r)
  <2>1. Goto(r, "users", usage) /\ Same /\ FilesSame
    BY <1>2 DEF QueryAnswered, worldVars, memoryVars
  <2> QED
    BY <1>1, <2>1, CountsOn DEF TelemetryHeld
<1>3. CASE UsersWritten(r)
  <2>1. /\ found[r] = usage /\ Goto(r, "json", usage) /\ Same
        /\ files' = [files EXCEPT !.users = usage]
    BY <1>3 DEF UsersWritten, worldVars, memoryVars, CountsCarried
  <2>2. files'.users = usage /\ files'.json = files.json
    BY <2>1 DEF IInv, FileTypes, Files
  <2> QED
    BY <1>1, <2>1, <2>2, CountsOn DEF TelemetryHeld
<1>4. CASE JsonWritten(r)
  <2>1. /\ found[r] = usage /\ Goto(r, "fetch", None)
        /\ files' = [files EXCEPT !.json = usage]
        /\ usage' = usage /\ telemetryJson' \in {telemetryJson, usage}
    BY <1>4 DEF JsonWritten, worldVars, CountsCarried
  <2>2. files'.json = usage /\ files'.users = files.users
    BY <2>1 DEF IInv, FileTypes, Files
  <2> QED
    BY <1>1, <2>1, <2>2, CountsOn DEF TelemetryHeld
<1>5. CASE \/ QueryFails(r) \/ ReleasesFetched(r) \/ FetchFails(r)
           \/ StableWritten(r) \/ BetaWritten(r)
  <2>1. Same /\ FilesSame
    BY <1>5 DEF QueryFails, ReleasesFetched, FetchFails, StableWritten, BetaWritten,
                worldVars, memoryVars, IInv, FileTypes, Files
  <2>2. \E label \in {"fetch", "idle", "stable", "beta"} : \E content : Goto(r, label, content)
    BY <1>5 DEF QueryFails, ReleasesFetched, FetchFails, StableWritten, BetaWritten,
                Ends, BetaDecided
  <2> QED
    BY <1>1, <2>1, <2>2, CountsOn DEF TelemetryHeld
<1> QED
  BY <1>2, <1>3, <1>4, <1>5 DEF HalfStep

\* The steps of runs that start, in the server or beside it.
LEMMA StartHoldsTelemetry ==
    ASSUME IInv, CountsCarried, ServerStarts \/ \E r \in Runs : RegenerateStarts(r)
    PROVE  TelemetryHeld /\ files' = files /\ telemetryJson' = telemetryJson
<1>1. PICK r \in Runs : Goto(r, "query", None)
  BY DEF ServerStarts, RegenerateStarts, Runs
<1>2. usage' = usage /\ files' = files /\ telemetryJson' = telemetryJson
  BY DEF ServerStarts, RegenerateStarts, worldVars, memoryVars
<1> QED
  BY <1>1, <1>2, CountsOn DEF IInv, TelemetryHeld

LEMMA TelemetryIsGuarded == IInv /\ [Next]_vars => TelemetryGuarded
<1> SUFFICES ASSUME IInv, [Next]_vars, CountsCarried, usage' = usage
             PROVE  /\ CountsCarried'
                    /\ \A f \in {"users", "json"} : files'[f] \in {files[f], usage} \/ Spoilt(f)
                    /\ telemetryJson' \in {telemetryJson, usage} \/ server' = "down"
  BY DEF TelemetryGuarded
<1>1. CASE \/ \E r \in Runs : RegenerateStarts(r) \/ HalfStep(r)
           \/ ServerStarts
  BY <1>1, StartHoldsTelemetry, TelemetryRunStep DEF TelemetryHeld
<1>2. ASSUME NEW r \in Runs, WriteFails(r) PROVE TelemetryHeld
  BY <1>2, FailsAside, FailureSpoils, CountsOn DEF TelemetryHeld, IInv, memoryVars, Files
<1>3. CASE ServerStops
  <2>1. CountsCarried' /\ server' = "down"
    BY <1>3 DEF ServerStops, CountsCarried
  <2>2. \A f \in Files : files'[f] = files[f] \/ Spoilt(f)
    BY <1>3, DisturbanceIsSpent DEF ServerStops, Spoilt
  <2> QED
    BY <2>1, <2>2 DEF Files
<1>4. CASE \/ UsageChanges \/ Withdrawn \/ UNCHANGED vars
           \/ \E v \in Tags : Published(v)
  BY <1>4 DEF UsageChanges, Withdrawn, Published, vars, memoryVars, CountsCarried
<1> QED
  BY <1>1, <1>2, <1>3, <1>4 DEF Next, TelemetryHeld

-----------------------------------------------------------------------------
(* The releases.                                                           *)

\* What BadgesGuarded says of a step, for the list it was taken under, and of the
\* memory even in a stop.
StableHeld(latest) == latest.stable # None /\ files'.stable = latest.stable
BetaHeld(latest) == latest # NoReleases /\ files'.beta = betaBadge(latest)
MemoryHeld(latest) ==
    /\ stableTag' # stableTag => latest.stable # None /\ stableTag' = latest.stable
    /\ betaTag' # betaTag => latest # NoReleases /\ betaTag' = betaRedirect(latest)
BadgesHeld(latest) ==
    /\ ReleasesCarried(latest)'
    /\ files'.stable # files.stable => StableHeld(latest)
    /\ files'.beta # files.beta => BetaHeld(latest)
    /\ MemoryHeld(latest)

LEMMA NoReleasesNoStable == \A latest : latest.stable # None => latest # NoReleases
BY DEF NoReleases

\* The steps that write no badge and set no tag.
LEMMA OtherStepHoldsBadges ==
    ASSUME IInv, NEW latest, ReleasesCarried(latest), NEW r \in Runs,
           \/ ServerStarts \/ RegenerateStarts(r) \/ QueryAnswered(r) \/ QueryFails(r)
           \/ FetchFails(r) \/ UsersWritten(r) \/ JsonWritten(r)
    PROVE  BadgesHeld(latest)
<1>1. /\ stableTag' = stableTag /\ betaTag' = betaTag
      /\ files'.stable = files.stable /\ files'.beta = files.beta
  BY DEF ServerStarts, RegenerateStarts, QueryAnswered, QueryFails, FetchFails, UsersWritten,
         JsonWritten, memoryVars, IInv, FileTypes, Files
<1>2. \E q \in Runs : \E label \in {"query", "users", "fetch", "json", "idle"} :
         \E content : Goto(q, label, content)
  BY DEF ServerStarts, RegenerateStarts, QueryAnswered, QueryFails, FetchFails, UsersWritten,
         JsonWritten, Ends, Runs
<1>3. ReleasesCarried(latest)'
  BY <1>2, CarriesOn DEF IInv
<1> QED
  BY <1>1, <1>3 DEF BadgesHeld, MemoryHeld

\* The list is fetched, and the releases half ends or goes on with it.
LEMMA FetchHoldsBadges ==
    ASSUME IInv, NEW latest, latest = fetchLatestReleases, ReleasesCarried(latest),
           NEW r \in Runs, ReleasesFetched(r)
    PROVE  BadgesHeld(latest)
<1>1. /\ stableTag' = IF r \in ServerRuns /\ latest.stable # None THEN latest.stable
                      ELSE stableTag
      /\ IF latest = NoReleases THEN Ends(r) /\ UNCHANGED betaTag
         ELSE IF latest.stable = None THEN BetaDecided(r, latest)
         ELSE Goto(r, "stable", latest) /\ UNCHANGED <<server, betaTag>>
      /\ files' = files
  BY DEF ReleasesFetched
<1>2. stableTag' # stableTag => latest.stable # None /\ stableTag' = latest.stable
  BY <1>1
<1>3. CASE latest = NoReleases
  BY <1>1, <1>2, <1>3, CarriesOn DEF IInv, Ends, BadgesHeld, MemoryHeld
<1>4. CASE latest # NoReleases /\ latest.stable = None
  <2>1. Goto(r, "beta", betaBadge(latest)) /\ betaTag' \in {betaTag, betaRedirect(latest)}
    BY <1>1, <1>4 DEF BetaDecided
  <2>2. ReleasesCarried(latest)'
    BY <1>4, <2>1, CarriesOn DEF IInv
  <2> QED
    BY <1>1, <1>2, <1>4, <2>1, <2>2 DEF BadgesHeld, MemoryHeld
<1>5. CASE latest # NoReleases /\ latest.stable # None
  <2>1. Goto(r, "stable", latest) /\ betaTag' = betaTag
    BY <1>1, <1>5
  <2>2. ReleasesCarried(latest)'
    BY <2>1, CarriesOn DEF IInv
  <2> QED
    BY <1>1, <1>2, <2>1, <2>2 DEF BadgesHeld, MemoryHeld
<1> QED
  BY <1>3, <1>4, <1>5

\* A badge is written.
LEMMA WriteHoldsBadges ==
    ASSUME IInv, NEW latest, ReleasesCarried(latest), NEW r \in Runs,
           StableWritten(r) \/ BetaWritten(r)
    PROVE  BadgesHeld(latest)
<1>1. CASE StableWritten(r)
  <2>1. found[r] = latest /\ latest.stable # None
    BY <1>1 DEF StableWritten, ReleasesCarried, IInv, StableIsFound
  <2>2. /\ files' = [files EXCEPT !.stable = latest.stable]
        /\ BetaDecided(r, latest) /\ stableTag' = stableTag
    BY <1>1, <2>1 DEF StableWritten
  <2>3. files'.stable = latest.stable /\ files'.beta = files.beta
    BY <2>2 DEF IInv, FileTypes, Files
  <2>4. latest # NoReleases
    BY <2>1, NoReleasesNoStable
  <2>5. betaTag' \in {betaTag, betaRedirect(latest)}
    BY <2>2 DEF BetaDecided
  <2>6. ReleasesCarried(latest)'
    BY <2>2, <2>4, CarriesOn DEF BetaDecided, IInv
  <2> QED
    BY <2>1, <2>2, <2>3, <2>4, <2>5, <2>6 DEF BadgesHeld, MemoryHeld, StableHeld
<1>2. CASE BetaWritten(r)
  <2>1. /\ files' = [files EXCEPT !.beta = betaBadge(latest)] /\ latest # NoReleases
        /\ Goto(r, "idle", None) /\ stableTag' = stableTag /\ betaTag' = betaTag
    BY <1>2 DEF BetaWritten, ReleasesCarried, Ends, memoryVars
  <2>2. files'.beta = betaBadge(latest) /\ files'.stable = files.stable
    BY <2>1 DEF IInv, FileTypes, Files
  <2>3. ReleasesCarried(latest)'
    BY <2>1, CarriesOn DEF IInv
  <2> QED
    BY <2>1, <2>2, <2>3 DEF BadgesHeld, MemoryHeld, BetaHeld
<1> QED
  BY <1>1, <1>2

LEMMA RunHoldsBadges ==
    ASSUME IInv, NEW latest, latest = fetchLatestReleases, ReleasesCarried(latest),
           ServerStarts \/ \E r \in Runs : RegenerateStarts(r) \/ HalfStep(r)
    PROVE  BadgesHeld(latest)
<1>1. CASE ServerStarts
  <2>1. Runs # {}
    BY <1>1 DEF ServerStarts, Runs
  <2> QED
    BY <1>1, <2>1, OtherStepHoldsBadges
<1>2. ASSUME NEW r \in Runs, RegenerateStarts(r) \/ HalfStep(r)
      PROVE  BadgesHeld(latest)
  BY <1>2, OtherStepHoldsBadges, FetchHoldsBadges, WriteHoldsBadges DEF HalfStep
<1> QED
  BY <1>1, <1>2

\* The steps of the environment, and failures, touch a badge only by truncating it.
LEMMA DisturbanceHoldsBadges ==
    ASSUME IInv, NEW latest, ReleasesCarried(latest),
           \/ ServerStops \/ UsageChanges \/ Withdrawn \/ UNCHANGED vars
           \/ \E v \in Tags : Published(v)
           \/ \E r \in Runs : WriteFails(r)
    PROVE  /\ ReleasesCarried(latest)'
           /\ \A f \in Files : files'[f] # files[f] => Spoilt(f)
           /\ server' # "down" => stableTag' = stableTag /\ betaTag' = betaTag
<1>1. CASE ServerStops
  <2>1. ReleasesCarried(latest)' /\ server' = "down"
    BY <1>1 DEF ServerStops, ReleasesCarried
  <2>2. \A f \in Files : files'[f] # files[f] => Spoilt(f)
    BY <1>1, DisturbanceIsSpent DEF ServerStops, Spoilt
  <2> QED
    BY <2>1, <2>2
<1>2. ASSUME NEW r \in Runs, WriteFails(r)
      PROVE  /\ ReleasesCarried(latest)'
             /\ \A f \in Files : files'[f] # files[f] => Spoilt(f)
             /\ stableTag' = stableTag /\ betaTag' = betaTag
  <2>1. ReleasesCarried(latest)'
    BY <1>2, FailsAside, CarriesOn DEF IInv
  <2> QED
    BY <1>2, <2>1, FailsAside, FailureSpoils DEF memoryVars
<1>3. CASE \/ UsageChanges \/ Withdrawn \/ UNCHANGED vars
           \/ \E v \in Tags : Published(v)
  BY <1>3 DEF UsageChanges, Withdrawn, Published, vars, memoryVars, ReleasesCarried
<1> QED
  BY <1>1, <1>2, <1>3

LEMMA BadgesAreGuarded == IInv /\ [Next]_vars => BadgesGuarded
<1> SUFFICES ASSUME IInv, [Next]_vars, ReleasesCarried(fetchLatestReleases), releases' = releases
             PROVE  BadgesGuarded
  BY DEF BadgesGuarded
<1>1. PICK latest : latest = fetchLatestReleases
  OBVIOUS
<1>2. ReleasesCarried(latest) /\ fetchLatestReleases' = latest
  BY <1>1, ListIsRead
<1>3. /\ ReleasesCarried(latest)'
      /\ files'.stable # files.stable => Spoilt("stable") \/ StableHeld(latest)
      /\ files'.beta # files.beta => Spoilt("beta") \/ BetaHeld(latest)
      /\ server' # "down" => MemoryHeld(latest)
  <2>1. CASE ServerStarts \/ \E r \in Runs : RegenerateStarts(r) \/ HalfStep(r)
    BY <1>1, <1>2, <2>1, RunHoldsBadges DEF BadgesHeld
  <2>2. CASE \/ ServerStops \/ UsageChanges \/ Withdrawn \/ UNCHANGED vars
             \/ \E v \in Tags : Published(v)
             \/ \E r \in Runs : WriteFails(r)
    BY <1>2, <2>2, DisturbanceHoldsBadges DEF MemoryHeld, Files
  <2> QED
    BY <2>1, <2>2 DEF Next
<1>4. ReleasesCarried(fetchLatestReleases)'
  BY <1>2, <1>3 DEF ReleasesCarried, betaBadge, betaIsNewer
<1> QED
  BY <1>1, <1>3, <1>4 DEF BadgesGuarded, StableHeld, BetaHeld, MemoryHeld

\* Nothing good is lost or replaced by a worse value, for any number of runs of the
\* server and of one-shot processes: failures, empty lists, stops and overlaps leave the
\* files and the memory as they are, but for a file whose own write fails or is stopped
\* (badge-store.ts:20-22).
THEOREM LastGood == Spec => LastGoodKept
<1>1. IInv /\ [Next]_vars => [NothingIsLost /\ TelemetryGuarded /\ BadgesGuarded]_vars
  BY EveryStep, TelemetryIsGuarded, BadgesAreGuarded
<1> QED
  BY <1>1, Invariance, PTL DEF Spec, LastGoodKept

-----------------------------------------------------------------------------
(* What is settled stays settled: the safety half of what the runs of TLC  *)
(* check under fairness.                                                   *)

\* The badges and the redirects agree with a list of GitLab.
ReleasesShown(latest) ==
    /\ latest.stable # None => stableTag = latest.stable /\ files.stable = latest.stable
    /\ latest # NoReleases => betaTag = betaRedirect(latest) /\ files.beta = betaBadge(latest)

ReleasesSettled == ReleasesShown(fetchLatestReleases) /\ ReleasesCarried(fetchLatestReleases)

\* The two files and the memory hold the present count, and no run an older one.
TelemetrySettled ==
    files.users = usage /\ files.json = usage /\ telemetryJson = usage /\ CountsCarried

\* Only a release or its withdrawal, a failed write or a stop unsettles the badges (and
\* a change of the count, which is a disturbance too).
ReleasesStaySettled == [][ReleasesSettled => ReleasesSettled' \/ spent' # spent]_vars

\* Only a change of the count, a failed write or a stop unsettles the telemetry.
TelemetryStaysSettled == [][TelemetrySettled => TelemetrySettled' \/ spent' # spent]_vars

\* What is left of the steps when nothing is disturbed.
LEMMA UndisturbedStep ==
    ASSUME IInv, [Next]_vars, spent' = spent
    PROVE  \/ UNCHANGED vars
           \/ /\ ServerStarts \/ \E r \in Runs : RegenerateStarts(r) \/ HalfStep(r)
              /\ releases' = releases /\ usage' = usage
<1>1. ~Disturbance
  BY DisturbanceIsSpent
<1> QED
  BY <1>1 DEF Next, ServerStops, UsageChanges, Withdrawn, WriteFails, Published, ServerStarts,
              RegenerateStarts, HalfStep, QueryAnswered, QueryFails, UsersWritten, JsonWritten,
              ReleasesFetched, FetchFails, StableWritten, BetaWritten, worldVars

LEMMA ReleasesStep == IInv /\ ReleasesSettled /\ [Next]_vars => ReleasesSettled' \/ spent' # spent
<1> SUFFICES ASSUME IInv, ReleasesSettled, [Next]_vars, spent' = spent
             PROVE  ReleasesSettled'
  OBVIOUS
<1>1. PICK latest : latest = fetchLatestReleases
  OBVIOUS
<1>2. ReleasesShown(latest) /\ ReleasesCarried(latest)
  BY <1>1 DEF ReleasesSettled
<1>3. fetchLatestReleases' = latest
  BY <1>1, UndisturbedStep, ListIsRead DEF vars
<1>4. CASE UNCHANGED vars
  BY <1>2, <1>3, <1>4
     DEF vars, ReleasesSettled, ReleasesShown, ReleasesCarried, betaBadge, betaRedirect, betaIsNewer
<1>5. CASE ServerStarts \/ \E r \in Runs : RegenerateStarts(r) \/ HalfStep(r)
  <2>1. BadgesHeld(latest)
    BY <1>1, <1>2, <1>5, RunHoldsBadges
  <2>2. /\ latest.stable # None => stableTag' = latest.stable /\ files'.stable = latest.stable
        /\ latest # NoReleases => /\ betaTag' = betaRedirect(latest)
                                  /\ files'.beta = betaBadge(latest)
    BY <1>2, <2>1 DEF ReleasesShown, BadgesHeld, MemoryHeld, StableHeld, BetaHeld
  <2> QED
    BY <1>3, <2>1, <2>2 DEF BadgesHeld, ReleasesSettled, ReleasesShown, ReleasesCarried,
                           betaBadge, betaRedirect, betaIsNewer
<1> QED
  BY <1>4, <1>5, UndisturbedStep

\* Once the badges and redirects agree with the list, with nothing old under way, the
\* overlapping runs of the server and of one-shot processes keep them so, whatever
\* queries and fetches fail (regenerateReleases, badge-store.ts:78-106).
THEOREM ReleasesKept == Spec => ReleasesStaySettled
<1>1. IInv /\ [Next]_vars => [ReleasesSettled => ReleasesSettled' \/ spent' # spent]_vars
  BY ReleasesStep
<1> QED
  BY <1>1, Invariance, PTL DEF Spec, ReleasesStaySettled

LEMMA TelemetryStep ==
    IInv /\ TelemetrySettled /\ [Next]_vars => TelemetrySettled' \/ spent' # spent
<1> SUFFICES ASSUME IInv, TelemetrySettled, [Next]_vars, spent' = spent
             PROVE  TelemetrySettled'
  OBVIOUS
<1>1. usage' = usage
  BY UndisturbedStep DEF vars
<1>2. CASE \E r \in Runs : HalfStep(r)
  BY <1>1, <1>2, TelemetryRunStep DEF TelemetrySettled, TelemetryHeld
<1>3. CASE ServerStarts \/ \E r \in Runs : RegenerateStarts(r)
  BY <1>1, <1>3, StartHoldsTelemetry DEF TelemetrySettled, TelemetryHeld
<1>4. CASE UNCHANGED vars
  BY <1>4 DEF vars, TelemetrySettled, CountsCarried
<1> QED
  BY <1>2, <1>3, <1>4, UndisturbedStep

\* Once the users badge, telemetry.json and the memory show the present count, with no
\* older one under way, overlapping runs keep them so, whatever becomes of the releases
\* (regenerateTelemetry, badge-store.ts:65-76).
THEOREM TelemetryKept == Spec => TelemetryStaysSettled
<1>1. IInv /\ [Next]_vars => [TelemetrySettled => TelemetrySettled' \/ spent' # spent]_vars
  BY TelemetryStep
<1> QED
  BY <1>1, Invariance, PTL DEF Spec, TelemetryStaysSettled

-----------------------------------------------------------------------------
(* What separates a redirect from its badge.                               *)

\* The stable badge shows what GET /stable redirects to, or is about to.
StableAgrees ==
    stableTag # None => \/ files.stable = stableTag
                        \/ \E r \in ServerRuns : pc[r] = "stable" /\ found[r].stable = stableTag

\* The run that is about to write the stable badge has set the tag.
StableIsSet == \A r \in Runs : pc[r] = "stable" => found[r].stable = stableTag

\* A stop ends every run.
DownIsIdle == server = "down" => \A r \in Runs : pc[r] = "idle"

\* With a single run at a time, which is the server's, only a write that fails leaves
\* the redirect and the badge apart: the disagreement of the doc comment at
\* badge-store.ts:21 needs that, or runs that overlap.
THEOREM RedirectAgreesAlone ==
    ASSUME NEW single, ServerRuns = {single}, OneShots = {}
    PROVE  Spec /\ [][~WriteFails(single)]_vars => []RedirectMatchesBadge
<1> DEFINE AInv == StableAgrees /\ StableIsSet /\ DownIsIdle
<1>1. Runs = {single}
  BY DEF Runs
<1>2. Init => AInv
  BY DEF Init, StableAgrees, StableIsSet, DownIsIdle
<1>3. IInv /\ AInv /\ [Next]_vars /\ [~WriteFails(single)]_vars => AInv'
  <2> SUFFICES ASSUME IInv, AInv, [Next]_vars, [~WriteFails(single)]_vars
               PROVE  AInv'
    OBVIOUS
  <2>1. CASE UNCHANGED vars
    BY <2>1 DEF vars, StableAgrees, StableIsSet, DownIsIdle
  <2>2. CASE UsageChanges \/ Withdrawn \/ \E v \in Tags : Published(v)
    BY <2>2 DEF UsageChanges, Withdrawn, Published, memoryVars, StableAgrees, StableIsSet, DownIsIdle
  <2>3. CASE ServerStops
    BY <2>3 DEF ServerStops, StableAgrees, StableIsSet, DownIsIdle
  <2>4. ASSUME NEW label \in {"query", "users", "json", "fetch", "beta", "idle"}, NEW content,
               Goto(single, label, content), pc[single] # "stable" \/ files'.stable = stableTag,
               stableTag' = stableTag, files'.stable \in {files.stable, stableTag},
               server' # "down"
        PROVE  AInv'
    <3>1. pc'[single] = label
      BY <2>4, <1>1, GotoEffect DEF IInv
    <3>2. stableTag # None => files'.stable = stableTag
      BY <1>1, <2>4 DEF StableAgrees
    <3> QED
      BY <1>1, <2>4, <3>1, <3>2 DEF StableAgrees, StableIsSet, DownIsIdle
  <2>5. CASE ServerStarts \/ RegenerateStarts(single)
    <3>1. Goto(single, "query", None) /\ pc[single] = "idle"
      BY <1>1, <2>5 DEF ServerStarts, RegenerateStarts, DownIsIdle
    <3>2. stableTag' = stableTag /\ files' = files /\ server' # "down"
      BY <2>5 DEF ServerStarts, RegenerateStarts, memoryVars
    <3> QED
      BY <2>4, <3>1, <3>2
  <2>6. CASE HalfStep(single)
    <3>1. server # "down"
      BY <1>1, <2>6 DEF DownIsIdle, HalfStep, QueryAnswered, QueryFails, UsersWritten,
            JsonWritten, ReleasesFetched, FetchFails, StableWritten, BetaWritten
    <3>2. CASE QueryAnswered(single) \/ QueryFails(single) \/ FetchFails(single)
      <4>1. /\ pc[single] # "stable" /\ files' = files /\ stableTag' = stableTag
            /\ server' # "down"
            /\ \E label \in {"users", "fetch", "idle"} : \E content : Goto(single, label, content)
        BY <3>1, <3>2 DEF QueryAnswered, QueryFails, FetchFails, memoryVars, Ends
      <4> QED
        BY <2>4, <4>1
    <3>3. CASE UsersWritten(single) \/ JsonWritten(single) \/ BetaWritten(single)
      <4>1. /\ pc[single] # "stable" /\ stableTag' = stableTag /\ server' # "down"
            /\ \E label \in {"json", "fetch", "idle"} : \E content : Goto(single, label, content)
        BY <3>1, <3>3 DEF UsersWritten, JsonWritten, BetaWritten, memoryVars, Ends
      <4>2. files'.stable = files.stable
        BY <3>3 DEF UsersWritten, JsonWritten, BetaWritten, IInv, FileTypes, Files
      <4> QED
        BY <2>4, <4>1, <4>2
    <3>4. CASE StableWritten(single)
      <4>1. found[single].stable = stableTag
        BY <1>1, <3>4 DEF StableWritten, StableIsSet
      <4>2. files'.stable = stableTag
        BY <3>4, <4>1 DEF StableWritten, IInv, FileTypes, Files
      <4>3. /\ stableTag' = stableTag /\ server' # "down"
            /\ \E content : Goto(single, "beta", content)
        BY <3>1, <3>4 DEF StableWritten, BetaDecided
      <4> QED
        BY <2>4, <4>2, <4>3
    <3>5. CASE ReleasesFetched(single)
      <4>1. PICK latest : latest = fetchLatestReleases
        OBVIOUS
      <4>2. /\ pc[single] = "fetch" /\ files' = files
            /\ stableTag' = IF latest.stable # None THEN latest.stable ELSE stableTag
            /\ IF latest = NoReleases THEN Ends(single) /\ UNCHANGED betaTag
               ELSE IF latest.stable = None THEN BetaDecided(single, latest)
               ELSE Goto(single, "stable", latest) /\ UNCHANGED <<server, betaTag>>
        BY <3>5, <4>1 DEF ReleasesFetched
      <4>3. CASE latest.stable = None
        <5>1. /\ stableTag' = stableTag /\ server' # "down"
              /\ \E label \in {"idle", "beta"} : \E content : Goto(single, label, content)
          BY <3>1, <4>2, <4>3 DEF BetaDecided, Ends
        <5> QED
          BY <2>4, <4>2, <5>1
      <4>4. CASE latest.stable # None
        <5>1. Goto(single, "stable", latest) /\ server' = server /\ stableTag' = latest.stable
          BY <4>2, <4>4, NoReleasesNoStable
        <5>2. pc'[single] = "stable" /\ found'[single] = latest
          BY <1>1, <5>1, GotoEffect DEF IInv
        <5> QED
          BY <1>1, <3>1, <5>1, <5>2 DEF StableAgrees, StableIsSet, DownIsIdle
      <4> QED
        BY <4>3, <4>4
    <3> QED
      BY <2>6, <3>2, <3>3, <3>4, <3>5 DEF HalfStep
  <2>7. ~WriteFails(single) \/ UNCHANGED vars
    OBVIOUS
  <2> QED
    BY <1>1, <2>1, <2>2, <2>3, <2>5, <2>6, <2>7 DEF Next
<1>4. AInv => RedirectMatchesBadge
  BY DEF StableAgrees, RedirectMatchesBadge, Runs
<1> QED
  BY <1>2, <1>3, <1>4, Invariance, PTL DEF Spec

-----------------------------------------------------------------------------
(* The two orders.                                                         *)

\* The badges and the version checker order all releases alike (badges.ts:53-75,
\* version-checker.ts:131-149), whatever their numbers.
THEOREM OrdersSame == Spec => []OrdersAgree
<1>1. IInv => OrdersAgree
  <2> SUFFICES ASSUME IInv, NEW v1 \in ReleasedTags, NEW v2 \in ReleasedTags,
                      v1.pre = v2.pre \/ v1.pre = "" \/ v2.pre = "" \/ v1.num # v2.num
               PROVE  Opposite(compareVersionsDescending(v1, v2), compareVersions(v1, v2))
    BY DEF OrdersAgree, Opposite
  <2>1. ReleasedTags \subseteq Tags
    <3>1. releases \in Seq(Tags)
      BY DEF IInv, WorldTypes
    <3>2. \A i \in DOMAIN releases : releases[i] \in Tags
      BY <3>1, LenProperties, ElementOfSeq
    <3> QED
      BY <3>2 DEF ReleasedTags
  <2>2. v1 \in Tags /\ v2 \in Tags
    BY <2>1
  <2>3. /\ IsVersion(v1) /\ Len(v1.core) <= 3
        /\ IsVersion(v2) /\ Len(v2.core) <= 3
    BY <2>2, BadgeAssumption
  <2> HIDE DEF ReleasedTags
  <2> QED
    BY <2>3, LabelsAgree, OrdersAgreeOn
<1> QED
  BY <1>1, Invariance, PTL
=============================================================================
