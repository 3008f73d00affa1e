---------------------------- MODULE VersionOrder ----------------------------
(***************************************************************************)
(* Version strings and their order, which the repository implements twice: *)
(* compareVersions of the bridge (src/version-checker.ts), which decides   *)
(* about updates, and compareVersionsDescending of the telemetry backend   *)
(* (telemetry-backend/src/badges.ts), which decides about badges.          *)
(*                                                                         *)
(* A version is its number and its pre-release label: "1.18.5-rc.1" is     *)
(* [core |-> <<1, 18, 5>>, pre |-> "rc", num |-> 1], "2026.6.0b2" has the  *)
(* label "b", a stable version the label "".  A leading "v" is dropped.    *)
(***************************************************************************)
EXTENDS Integers, Sequences

IsVersion(v) == /\ v \in [core : Seq(Nat), pre : {"", "rc", "b"}, num : Nat]
                /\ v.pre = "" => v.num = 0

-----------------------------------------------------------------------------
(* The order of the version checker.                                       *)

\* Faulty variant: a SemVer dash only.
isPreReleaseDash(v) == v.pre = "rc"

isPreRelease(v) == v.pre \in {"rc", "b"}

Part(v, i) == IF i <= Len(v.core) THEN v.core[i] ELSE 0

\* The first part that differs decides; missing parts are 0.
CoreBelow(v1, v2) ==
    \E i \in 1 .. Len(v1.core) + Len(v2.core) :
        /\ Part(v1, i) < Part(v2, i)
        /\ \A j \in 1 .. i - 1 : Part(v1, j) = Part(v2, j)

\* Faulty variant: the number of a stable version is 0.
comparePreReleaseByNumber(v1, v2) ==
    IF v1.num < v2.num THEN -1 ELSE IF v1.num > v2.num THEN 1 ELSE 0

\* A stable version is above its pre-releases; labels count by their numbers.
comparePreRelease(v1, v2) ==
    CASE v1.pre = v2.pre /\ v1.num = v2.num -> 0
      [] v1.pre = "" /\ v2.pre # ""         -> 1
      [] v1.pre # "" /\ v2.pre = ""         -> -1
      [] OTHER -> IF v1.num < v2.num THEN -1 ELSE IF v1.num > v2.num THEN 1 ELSE 0

compareVersions(v1, v2) ==
    CASE CoreBelow(v1, v2) -> -1
      [] CoreBelow(v2, v1) -> 1
      [] OTHER             -> comparePreRelease(v1, v2)

-----------------------------------------------------------------------------
(* The order of the telemetry backend.                                     *)

isBetaTag(v) == v.pre = "b"

\* Labels with the same number compare as strings: "b" is below "rc".
LabelRank == [b |-> 1, rc |-> 2]

\* Faulty variant: the label of a stable version counts as none.
comparePreReleaseDescendingByNumber(v1, v2) == v2.num - v1.num

\* Negative if v1 comes first: a stable version before its pre-releases, a higher
\* number before a lower one.
comparePreReleaseDescending(v1, v2) ==
    CASE v1.pre = "" /\ v2.pre # "" -> -1
      [] v1.pre # "" /\ v2.pre = "" -> 1
      [] v1.pre = "" /\ v2.pre = "" -> 0
      [] v1.pre # "" /\ v2.pre # "" /\ v1.num # v2.num -> v2.num - v1.num
      [] OTHER -> LabelRank[v2.pre] - LabelRank[v1.pre]

\* Only major, minor and patch are looked at.
compareVersionsDescending(v1, v2) ==
    IF \E i \in 1 .. 3 : Part(v1, i) # Part(v2, i)
    THEN LET i == CHOOSE j \in 1 .. 3 : /\ Part(v1, j) # Part(v2, j)
                                        /\ \A k \in 1 .. j - 1 : Part(v1, k) = Part(v2, k)
         IN  Part(v2, i) - Part(v1, i)
    ELSE comparePreReleaseDescending(v1, v2)
=============================================================================
