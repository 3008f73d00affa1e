-------------------------- MODULE VersionOrderProofs --------------------------
(***************************************************************************)
(* Theorems about the two orders of versions, for versions of any length:  *)
(* each is a total preorder, as the sorting and the comparing code takes   *)
(* for granted, and they agree on the versions that releases have.         *)
(***************************************************************************)
EXTENDS VersionOrder, SequenceTheorems, WellFoundedInduction, TLAPS

\* There is a least one.
LEMMA LeastExists ==
    ASSUME NEW T \in SUBSET Nat, T # {}
    PROVE  \E i \in T : \A j \in T : i <= j
<1> DEFINE R == OpToRel(<, Nat)
<1>1. IsWellFoundedOn(R, Nat)
  BY NatLessThanWellFounded
<1>2. \A m, n \in Nat : m < n => <<m, n>> \in R
  BY DEF OpToRel
<1> HIDE DEF R
<1>3. PICK x \in T : \A y \in T : ~(<<y, x>> \in R)
  BY <1>1, WFMin
<1>4. ASSUME NEW y \in T PROVE x <= y
  <2>1. x \in Nat /\ y \in Nat
    OBVIOUS
  <2>2. ~(y < x)
    BY <1>2, <1>3, <2>1
  <2> QED
    BY <2>1, <2>2
<1> QED
  BY <1>4

LEMMA SmallestHit ==
    ASSUME NEW T \in SUBSET Nat, T # {}
    PROVE  (CHOOSE i \in T : \A j \in T : i <= j) \in T
BY LeastExists

-----------------------------------------------------------------------------
(* The two orders agree.                                                   *)

Opposite(d, c) == /\ d < 0 <=> c > 0
                  /\ d > 0 <=> c < 0

LEMMA OppositeValues == Opposite(0, 0) /\ Opposite(-1, 1) /\ Opposite(1, -1)
BY DEF Opposite

LEMMA OppositeNumbers ==
    ASSUME NEW m \in Nat, NEW n \in Nat
    PROVE  Opposite(n - m, IF m < n THEN -1 ELSE IF m > n THEN 1 ELSE 0)
BY DEF Opposite

LEMMA RankValues == /\ LabelRank["rc"] - LabelRank["rc"] = 0
                    /\ LabelRank["b"] - LabelRank["b"] = 0
BY DEF LabelRank

\* The labels of two versions with the same number.
LEMMA LabelsAgree ==
    ASSUME NEW v1, NEW v2, IsVersion(v1), IsVersion(v2),
           v1.pre = v2.pre \/ v1.pre = "" \/ v2.pre = "" \/ v1.num # v2.num
    PROVE  Opposite(comparePreReleaseDescending(v1, v2), comparePreRelease(v1, v2))
<1> DEFINE n1 == v1.num
           n2 == v2.num
           d == comparePreReleaseDescending(v1, v2)
           c == comparePreRelease(v1, v2)
<1>1. /\ v1.pre \in {"", "rc", "b"} /\ v2.pre \in {"", "rc", "b"}
      /\ v1.pre = "" => n1 = 0
      /\ v2.pre = "" => n2 = 0
  BY DEF IsVersion
<1>2. n1 \in Nat /\ n2 \in Nat
  BY DEF IsVersion
<1>3. CASE v1.pre = "" /\ v2.pre = ""
  <2>1. d = 0
    BY <1>3 DEF comparePreReleaseDescending
  <2>2. c = 0
    BY <1>1, <1>3 DEF comparePreRelease
  <2> QED
    BY <2>1, <2>2, OppositeValues
<1>4. CASE v1.pre = "" /\ v2.pre # ""
  <2>1. d = -1
    BY <1>4 DEF comparePreReleaseDescending
  <2>2. c = 1
    BY <1>4 DEF comparePreRelease
  <2> QED
    BY <2>1, <2>2, OppositeValues
<1>5. CASE v1.pre # "" /\ v2.pre = ""
  <2>1. d = 1
    BY <1>5 DEF comparePreReleaseDescending
  <2>2. c = -1
    BY <1>5 DEF comparePreRelease
  <2> QED
    BY <2>1, <2>2, OppositeValues
<1>6. CASE v1.pre # "" /\ v2.pre # "" /\ n1 # n2
  <2>1. d = n2 - n1
    BY <1>6 DEF comparePreReleaseDescending
  <2>2. c = IF n1 < n2 THEN -1 ELSE IF n1 > n2 THEN 1 ELSE 0
    BY <1>6 DEF comparePreRelease
  <2>3. Opposite(n2 - n1, IF n1 < n2 THEN -1 ELSE IF n1 > n2 THEN 1 ELSE 0)
    BY <1>2, OppositeNumbers
  <2> QED
    BY <2>1, <2>2, <2>3
<1>7. CASE v1.pre # "" /\ v2.pre # "" /\ n1 = n2
  <2>1. v1.pre = v2.pre
    BY <1>7
  <2>2. d = LabelRank[v1.pre] - LabelRank[v1.pre]
    BY <1>7, <2>1 DEF comparePreReleaseDescending
  <2>3. v1.pre = "rc" \/ v1.pre = "b"
    BY <1>1, <1>7
  <2>4. d = 0
    BY <2>2, <2>3, RankValues
  <2>5. c = 0
    BY <1>7, <2>1 DEF comparePreRelease
  <2> QED
    BY <2>4, <2>5, OppositeValues
<1> QED
  BY <1>3, <1>4, <1>5, <1>6, <1>7

LEMMA PartType ==
    ASSUME NEW v, IsVersion(v)
    PROVE  /\ Len(v.core) \in Nat
           /\ \A i \in Nat \ {0} : Part(v, i) \in Nat /\ (i > Len(v.core) => Part(v, i) = 0)
<1> DEFINE core == v.core
           len == Len(core)
<1>1. core \in Seq(Nat)
  BY DEF IsVersion
<1>2. len \in Nat
  BY <1>1, LenProperties
<1>3. ASSUME NEW i \in Nat \ {0} PROVE Part(v, i) \in Nat /\ (i > len => Part(v, i) = 0)
  <2>1. Part(v, i) = IF i <= len THEN core[i] ELSE 0
    BY DEF Part
  <2>2. i <= len => core[i] \in Nat
    <3> HIDE DEF core
    <3> QED
      BY <1>1, <1>2, ElementOfSeq
  <2> HIDE DEF core, len
  <2> QED
    BY <1>2, <2>1, <2>2
<1> QED
  BY <1>2, <1>3

Parts(v) == [i \in Nat \ {0} |-> Part(v, i)]
Below(p, q, n) == \E i \in 1 .. n : p[i] < q[i] /\ \A j \in 1 .. i - 1 : p[j] = q[j]
IsFirst(p, q, i) == p[i] # q[i] /\ \A j \in 1 .. i - 1 : p[j] = q[j]

\* Two sequences of at most three parts differ first in one of three, if at all.
LEMMA FirstDifference ==
    ASSUME NEW p \in [Nat \ {0} -> Nat], NEW q \in [Nat \ {0} -> Nat],
           NEW m \in 0 .. 3, NEW n \in 0 .. 3,
           \A i \in Nat \ {0} : (i > m => p[i] = 0) /\ (i > n => q[i] = 0)
    PROVE  \/ /\ \A i \in Nat \ {0} : p[i] = q[i]
              /\ ~Below(p, q, m + n) /\ ~Below(q, p, n + m)
           \/ \E i \in 1 .. 3 :
                 /\ p[i] # q[i]
                 /\ i = CHOOSE j \in 1 .. 3 : IsFirst(p, q, j)
                 /\ Below(p, q, m + n) <=> p[i] < q[i]
                 /\ Below(q, p, n + m) <=> q[i] < p[i]
<1>1. CASE \A i \in 1 .. 3 : p[i] = q[i]
  <2>1. \A i \in Nat \ {0} : p[i] = q[i]
    BY <1>1
  <2>2. ~Below(p, q, m + n) /\ ~Below(q, p, n + m)
    BY <2>1 DEF Below
  <2> QED
    BY <2>1, <2>2
<1>2. CASE \E i \in 1 .. 3 : p[i] # q[i]
  <2>1. PICK i \in 1 .. 3 : IsFirst(p, q, i)
    <3>1. 1 .. 1 - 1 = {} /\ 1 .. 2 - 1 = {1} /\ 1 .. 3 - 1 = {1, 2} /\ 1 .. 3 = {1, 2, 3}
      OBVIOUS
    <3>2. CASE p[1] # q[1]
      BY <3>1, <3>2 DEF IsFirst
    <3>3. CASE p[1] = q[1] /\ p[2] # q[2]
      BY <3>1, <3>3 DEF IsFirst
    <3>4. CASE p[1] = q[1] /\ p[2] = q[2] /\ p[3] # q[3]
      BY <3>1, <3>4 DEF IsFirst
    <3> QED
      BY <1>2, <3>1, <3>2, <3>3, <3>4
  <2>2. ASSUME NEW j \in Nat \ {0}, IsFirst(p, q, j) PROVE j = i
    BY <2>1, <2>2 DEF IsFirst
  <2>3. i = CHOOSE j \in 1 .. 3 : IsFirst(p, q, j)
    BY <2>1, <2>2
  <2>4. i \in 1 .. m + n
    <3>1. p[i] # q[i]
      BY <2>1 DEF IsFirst
    <3>2. i <= m \/ i <= n
      BY <3>1
    <3> QED
      BY <3>2
  <2>5. Below(p, q, m + n) <=> p[i] < q[i]
    <3>1. ASSUME Below(p, q, m + n) PROVE p[i] < q[i]
      <4>1. PICK j \in 1 .. m + n : p[j] < q[j] /\ \A k \in 1 .. j - 1 : p[k] = q[k]
        BY <3>1 DEF Below
      <4>2. p[j] \in Nat /\ q[j] \in Nat /\ j \in Nat \ {0}
        OBVIOUS
      <4>3. IsFirst(p, q, j)
        BY <4>1, <4>2 DEF IsFirst
      <4> QED
        BY <2>2, <4>1, <4>2, <4>3
    <3> QED
      BY <2>1, <2>4, <3>1 DEF Below, IsFirst
  <2>6. Below(q, p, n + m) <=> q[i] < p[i]
    <3>1. ASSUME Below(q, p, n + m) PROVE q[i] < p[i]
      <4>1. PICK j \in 1 .. n + m : q[j] < p[j] /\ \A k \in 1 .. j - 1 : q[k] = p[k]
        BY <3>1 DEF Below
      <4>2. p[j] \in Nat /\ q[j] \in Nat /\ j \in Nat \ {0}
        OBVIOUS
      <4>3. IsFirst(p, q, j)
        BY <4>1, <4>2 DEF IsFirst
      <4> QED
        BY <2>2, <4>1, <4>2, <4>3
    <3> QED
      BY <2>1, <2>4, <3>1 DEF Below, IsFirst
  <2> QED
    BY <2>1, <2>3, <2>5, <2>6 DEF IsFirst
<1> QED
  BY <1>1, <1>2

LEMMA CoreIsBelow ==
    ASSUME NEW v1, NEW v2, Len(v1.core) \in Nat, Len(v2.core) \in Nat
    PROVE  CoreBelow(v1, v2) <=> Below(Parts(v1), Parts(v2), Len(v1.core) + Len(v2.core))
<1> DEFINE n == Len(v1.core) + Len(v2.core)
           p == Parts(v1)
           q == Parts(v2)
<1>1. n \in Nat
  <2> DEFINE a == Len(v1.core)
             b == Len(v2.core)
  <2>1. a \in Nat /\ b \in Nat
    OBVIOUS
  <2> HIDE DEF a, b
  <2>2. a + b \in Nat
    BY <2>1
  <2> QED
    BY <2>2 DEF a, b
<1>2. CoreBelow(v1, v2) <=> \E i \in 1 .. n : /\ Part(v1, i) < Part(v2, i)
                                            /\ \A j \in 1 .. i - 1 : Part(v1, j) = Part(v2, j)
  BY DEF CoreBelow
<1>3. \A i \in Nat \ {0} : p[i] = Part(v1, i) /\ q[i] = Part(v2, i)
  BY DEF Parts
<1> HIDE DEF n, p, q
<1>4. \A i \in 1 .. n : i \in Nat \ {0} /\ 1 .. i - 1 \subseteq Nat \ {0}
  BY <1>1
<1>5. Below(p, q, n) <=> \E i \in 1 .. n : /\ Part(v1, i) < Part(v2, i)
                                          /\ \A j \in 1 .. i - 1 : Part(v1, j) = Part(v2, j)
  BY <1>3, <1>4 DEF Below
<1> QED
  BY <1>2, <1>5 DEF n, p, q

LEMMA FirstPart ==
    ASSUME NEW v1, NEW v2
    PROVE  /\ (\E i \in 1 .. 3 : Part(v1, i) # Part(v2, i))
                => compareVersionsDescending(v1, v2)
                     = LET i == CHOOSE j \in 1 .. 3 : IsFirst(Parts(v1), Parts(v2), j)
                       IN  Part(v2, i) - Part(v1, i)
           /\ (\A i \in 1 .. 3 : Part(v1, i) = Part(v2, i))
                => compareVersionsDescending(v1, v2) = comparePreReleaseDescending(v1, v2)
<1> DEFINE p == Parts(v1)
           q == Parts(v2)
<1>1. \A i \in Nat \ {0} : p[i] = Part(v1, i) /\ q[i] = Part(v2, i)
  BY DEF Parts
<1> HIDE DEF p, q
<1>2. \A j \in 1 .. 3 : j \in Nat \ {0} /\ 1 .. j - 1 \subseteq Nat \ {0}
  OBVIOUS
<1>3. \A j \in 1 .. 3 : IsFirst(p, q, j)
          <=> /\ Part(v1, j) # Part(v2, j)
              /\ \A k \in 1 .. j - 1 : Part(v1, k) = Part(v2, k)
  BY <1>1, <1>2 DEF IsFirst
<1>4. (CHOOSE j \in 1 .. 3 : IsFirst(p, q, j))
        = CHOOSE j \in 1 .. 3 : /\ Part(v1, j) # Part(v2, j)
                                /\ \A k \in 1 .. j - 1 : Part(v1, k) = Part(v2, k)
  BY <1>3
<1> QED
  BY <1>4 DEF compareVersionsDescending, p, q

\* The orders look for the first part that differs; the backend in three parts only.
LEMMA OrdersAgreeOn ==
    ASSUME NEW v1, NEW v2, IsVersion(v1), IsVersion(v2), Len(v1.core) <= 3, Len(v2.core) <= 3,
           Opposite(comparePreReleaseDescending(v1, v2), comparePreRelease(v1, v2))
    PROVE  Opposite(compareVersionsDescending(v1, v2), compareVersions(v1, v2))
<1> DEFINE p == Parts(v1)
           q == Parts(v2)
           m == Len(v1.core)
           n == Len(v2.core)
<1>1. p \in [Nat \ {0} -> Nat] /\ q \in [Nat \ {0} -> Nat]
  BY PartType DEF Parts
<1>2. m \in Nat /\ n \in Nat /\ m <= 3 /\ n <= 3
  BY PartType
<1>3. \A i \in Nat \ {0} : (i > m => p[i] = 0) /\ (i > n => q[i] = 0)
  BY PartType DEF Parts
<1>4. /\ CoreBelow(v1, v2) <=> Below(p, q, m + n)
      /\ CoreBelow(v2, v1) <=> Below(q, p, n + m)
  BY <1>2, CoreIsBelow
<1>5. \A i \in Nat \ {0} : p[i] = Part(v1, i) /\ q[i] = Part(v2, i)
  BY DEF Parts
<1>6. /\ (\E i \in 1 .. 3 : Part(v1, i) # Part(v2, i))
           => compareVersionsDescending(v1, v2)
                = LET i == CHOOSE j \in 1 .. 3 : IsFirst(p, q, j) IN Part(v2, i) - Part(v1, i)
      /\ (\A i \in 1 .. 3 : Part(v1, i) = Part(v2, i))
           => compareVersionsDescending(v1, v2) = comparePreReleaseDescending(v1, v2)
  BY FirstPart
<1>7. m \in 0 .. 3 /\ n \in 0 .. 3
  <2> HIDE DEF m, n
  <2> QED
    BY <1>2
<1> HIDE DEF p, q, m, n
<1>8. CASE /\ \A i \in Nat \ {0} : p[i] = q[i]
           /\ ~Below(p, q, m + n) /\ ~Below(q, p, n + m)
  <2>1. compareVersions(v1, v2) = comparePreRelease(v1, v2)
    BY <1>4, <1>8 DEF compareVersions
  <2>2. \A i \in 1 .. 3 : i \in Nat \ {0}
    OBVIOUS
  <2>3. compareVersionsDescending(v1, v2) = comparePreReleaseDescending(v1, v2)
    BY <1>5, <1>6, <1>8, <2>2
  <2> QED
    BY <2>1, <2>3
<1>9. CASE \E i \in 1 .. 3 :
             /\ p[i] # q[i]
             /\ i = CHOOSE j \in 1 .. 3 : IsFirst(p, q, j)
             /\ Below(p, q, m + n) <=> p[i] < q[i]
             /\ Below(q, p, n + m) <=> q[i] < p[i]
  <2>1. PICK i \in 1 .. 3 : /\ p[i] # q[i]
                            /\ i = CHOOSE j \in 1 .. 3 : IsFirst(p, q, j)
                            /\ Below(p, q, m + n) <=> p[i] < q[i]
                            /\ Below(q, p, n + m) <=> q[i] < p[i]
    BY <1>9
  <2> DEFINE a == p[i]
             b == q[i]
  <2>2. i \in Nat \ {0}
    OBVIOUS
  <2>3. a \in Nat /\ b \in Nat /\ a # b
    BY <1>1, <2>1, <2>2
  <2>4. a = Part(v1, i) /\ b = Part(v2, i)
    BY <1>5, <2>2
  <2>5. compareVersionsDescending(v1, v2) = b - a
    BY <1>6, <2>1, <2>4
  <2>6. (CoreBelow(v1, v2) <=> a < b) /\ (CoreBelow(v2, v1) <=> b < a)
    BY <1>4, <2>1
  <2> HIDE DEF a, b
  <2>7. compareVersions(v1, v2) = IF a < b THEN -1 ELSE IF a > b THEN 1 ELSE 0
    <3>1. (a < b /\ ~(b < a)) \/ (~(a < b) /\ b < a /\ a > b)
      BY <2>3
    <3> QED
      BY <2>6, <3>1 DEF compareVersions
  <2> QED
    BY <2>3, <2>5, <2>7, OppositeNumbers
<1> QED
  BY <1>1, <1>3, <1>7, <1>8, <1>9, FirstDifference
-----------------------------------------------------------------------------
(* The order of the parts.                                                 *)

Indices == Nat \ {0}

\* The first difference decides.
Lex(p, q) == \E i \in Indices : p[i] < q[i] /\ \A j \in 1 .. i - 1 : p[j] = q[j]

LEMMA LexAsymmetric ==
    ASSUME NEW p \in [Indices -> Nat], NEW q \in [Indices -> Nat], Lex(p, q)
    PROVE  ~Lex(q, p)
<1> SUFFICES ASSUME Lex(q, p) PROVE FALSE
  OBVIOUS
<1>1. PICK i \in Indices : p[i] < q[i] /\ \A j \in 1 .. i - 1 : p[j] = q[j]
  BY DEF Lex
<1>2. PICK k \in Indices : q[k] < p[k] /\ \A j \in 1 .. k - 1 : q[j] = p[j]
  BY DEF Lex
<1>3. p[i] \in Nat /\ q[i] \in Nat /\ p[k] \in Nat /\ q[k] \in Nat
  OBVIOUS
<1>4. i \in 1 .. k - 1 \/ k \in 1 .. i - 1 \/ i = k
  BY DEF Indices
<1> QED
  BY <1>1, <1>2, <1>3, <1>4

LEMMA LexTransitive ==
    ASSUME NEW p \in [Indices -> Nat], NEW q \in [Indices -> Nat], NEW r \in [Indices -> Nat],
           Lex(p, q), Lex(q, r)
    PROVE  Lex(p, r)
<1>1. PICK i \in Indices : p[i] < q[i] /\ \A j \in 1 .. i - 1 : p[j] = q[j]
  BY DEF Lex
<1>2. PICK k \in Indices : q[k] < r[k] /\ \A j \in 1 .. k - 1 : q[j] = r[j]
  BY DEF Lex
<1>3. /\ p[i] \in Nat /\ q[i] \in Nat /\ r[i] \in Nat
      /\ p[k] \in Nat /\ q[k] \in Nat /\ r[k] \in Nat
  OBVIOUS
<1>4. CASE i < k
  <2>1. i \in 1 .. k - 1 /\ \A j \in 1 .. i - 1 : j \in 1 .. k - 1
    BY <1>4 DEF Indices
  <2> QED
    BY <1>1, <1>2, <2>1 DEF Lex
<1>5. CASE k < i
  <2>1. k \in 1 .. i - 1 /\ \A j \in 1 .. k - 1 : j \in 1 .. i - 1
    BY <1>5 DEF Indices
  <2> QED
    BY <1>1, <1>2, <2>1 DEF Lex
<1>6. CASE i = k
  BY <1>1, <1>2, <1>3, <1>6 DEF Lex
<1> QED
  BY <1>4, <1>5, <1>6 DEF Indices

LEMMA LexTotal ==
    ASSUME NEW p \in [Indices -> Nat], NEW q \in [Indices -> Nat], ~Lex(p, q), ~Lex(q, p)
    PROVE  p = q
<1> DEFINE differing == {i \in Indices : p[i] # q[i]}
<1>1. ASSUME differing # {} PROVE FALSE
  <2>1. differing \in SUBSET Nat
    BY DEF Indices
  <2>2. PICK first \in differing : \A j \in differing : first <= j
    BY <1>1, <2>1, LeastExists
  <2>3. first \in Indices /\ p[first] # q[first] /\ p[first] \in Nat /\ q[first] \in Nat
    BY <2>2
  <2>4. \A j \in 1 .. first - 1 : j \in Indices /\ j < first
    BY <2>3 DEF Indices
  <2>5. \A j \in 1 .. first - 1 : p[j] = q[j]
    BY <2>2, <2>3, <2>4 DEF Indices
  <2> QED
    BY <2>3, <2>5 DEF Lex
<1> QED
  BY <1>1

\* Beyond the parts of both versions there is nothing to find.
LEMMA BelowIsLex ==
    ASSUME NEW p \in [Indices -> Nat], NEW q \in [Indices -> Nat], NEW m \in Nat, NEW n \in Nat,
           \A i \in Indices : (i > m => p[i] = 0) /\ (i > n => q[i] = 0)
    PROVE  Below(p, q, m + n) <=> Lex(p, q)
<1>1. ASSUME NEW i \in Indices, p[i] < q[i] PROVE i \in 1 .. m + n
  <2>1. p[i] \in Nat /\ q[i] # 0
    BY <1>1
  <2>2. i <= n
    BY <2>1 DEF Indices
  <2> QED
    BY <2>2 DEF Indices
<1>2. \A i \in 1 .. m + n : i \in Indices
  BY DEF Indices
<1> QED
  BY <1>1, <1>2 DEF Below, Lex

LEMMA CoreIsLex ==
    ASSUME NEW v1, NEW v2, IsVersion(v1), IsVersion(v2)
    PROVE  /\ Parts(v1) \in [Indices -> Nat] /\ Parts(v2) \in [Indices -> Nat]
           /\ CoreBelow(v1, v2) <=> Lex(Parts(v1), Parts(v2))
<1> DEFINE p == Parts(v1)
           q == Parts(v2)
           m == Len(v1.core)
           n == Len(v2.core)
<1>1. p \in [Indices -> Nat] /\ q \in [Indices -> Nat]
  BY PartType DEF Parts, Indices
<1>2. m \in Nat /\ n \in Nat
  BY PartType
<1>3. \A i \in Indices : (i > m => p[i] = 0) /\ (i > n => q[i] = 0)
  BY PartType DEF Parts, Indices
<1>4. CoreBelow(v1, v2) <=> Below(p, q, m + n)
  BY <1>2, CoreIsBelow
<1> HIDE DEF p, q, m, n
<1>5. Below(p, q, m + n) <=> Lex(p, q)
  BY <1>1, <1>2, <1>3, BelowIsLex
<1> QED
  BY <1>1, <1>4, <1>5 DEF p, q

-----------------------------------------------------------------------------
(* The order of the version checker.                                       *)

LabelAtMost(v1, v2) == v2.pre = "" \/ (v1.pre # "" /\ v1.num <= v2.num)

Signs == {-1, 0, 1}

LEMMA Negatives ==
    ASSUME NEW c, NEW d, (c = 0 /\ d = 0) \/ (c = 1 /\ d = -1) \/ (c = -1 /\ d = 1)
    PROVE  c \in Signs /\ d = -c /\ (c <= 0 <=> c # 1)
BY DEF Signs

LEMMA LabelOrder ==
    ASSUME NEW v1, NEW v2, IsVersion(v1), IsVersion(v2)
    PROVE  /\ comparePreRelease(v1, v2) \in Signs
           /\ comparePreRelease(v2, v1) = -comparePreRelease(v1, v2)
           /\ comparePreRelease(v1, v2) <= 0 <=> LabelAtMost(v1, v2)
<1> DEFINE none == ""
           a == v1.pre
           b == v2.pre
           x == v1.num
           y == v2.num
           c == CASE a = b /\ x = y        -> 0
                  [] a = none /\ b # none -> 1
                  [] a # none /\ b = none -> -1
                  [] OTHER -> IF x < y THEN -1 ELSE IF x > y THEN 1 ELSE 0
           d == CASE b = a /\ y = x        -> 0
                  [] b = none /\ a # none -> 1
                  [] b # none /\ a = none -> -1
                  [] OTHER -> IF y < x THEN -1 ELSE IF y > x THEN 1 ELSE 0
<1>1. comparePreRelease(v1, v2) = c /\ comparePreRelease(v2, v1) = d
  BY Zenon DEF comparePreRelease
<1>2. x \in Nat /\ y \in Nat /\ (a = none => x = 0) /\ (b = none => y = 0)
  BY DEF IsVersion
<1>3. LabelAtMost(v1, v2) <=> (b = none \/ (a # none /\ x <= y))
  BY Zenon DEF LabelAtMost
<1> HIDE DEF none, a, b, x, y
<1>4. c \in Signs /\ d = -c /\ (c <= 0 <=> (b = none \/ (a # none /\ x <= y)))
  <2>1. CASE a = none /\ b = none
    <3>1. c = 0 /\ d = 0
      BY <1>2, <2>1
    <3> HIDE DEF c, d
    <3>2. c \in Signs /\ d = -c /\ (c <= 0 <=> c # 1)
      BY <3>1, Negatives, Zenon
    <3>3. c # 1 <=> b = none
      BY <2>1, <3>1
    <3> QED
      BY <2>1, <3>2, <3>3
  <2>2. CASE a = none /\ b # none
    <3>1. c = 1 /\ d = -1
      BY <2>2
    <3> HIDE DEF c, d
    <3>2. c \in Signs /\ d = -c /\ (c <= 0 <=> c # 1)
      BY <3>1, Negatives, Zenon
    <3>3. c # 1 <=> b = none
      BY <2>2, <3>1
    <3> QED
      BY <2>2, <3>2, <3>3
  <2>3. CASE a # none /\ b = none
    <3>1. c = -1 /\ d = 1
      BY <2>3
    <3> HIDE DEF c, d
    <3>2. c \in Signs /\ d = -c /\ (c <= 0 <=> c # 1)
      BY <3>1, Negatives, Zenon
    <3>3. c # 1 <=> b = none
      BY <2>3, <3>1
    <3> QED
      BY <2>3, <3>2, <3>3
  <2>4. CASE a # none /\ b # none
    <3>1. CASE x < y
      BY <1>2, <2>4, <3>1 DEF Signs
    <3>2. CASE x = y
      BY <1>2, <2>4, <3>2 DEF Signs
    <3>3. CASE x > y
      BY <1>2, <2>4, <3>3 DEF Signs
    <3> QED
      BY <1>2, <3>1, <3>2, <3>3
  <2> QED
    BY <2>1, <2>2, <2>3, <2>4
<1> HIDE DEF c, d
<1> QED
  BY <1>1, <1>3, <1>4

LEMMA LabelTransitive ==
    ASSUME NEW v1, NEW v2, NEW v3, IsVersion(v1), IsVersion(v2), IsVersion(v3),
           LabelAtMost(v1, v2), LabelAtMost(v2, v3)
    PROVE  LabelAtMost(v1, v3)
<1> DEFINE none == ""
           x == v1.num
           y == v2.num
           z == v3.num
<1>1. x \in Nat /\ y \in Nat /\ z \in Nat
  BY DEF IsVersion
<1>2. /\ v2.pre = none \/ (v1.pre # none /\ x <= y)
      /\ v3.pre = none \/ (v2.pre # none /\ y <= z)
  BY Zenon DEF LabelAtMost
<1> HIDE DEF none, x, y, z
<1>3. v3.pre = none \/ (v1.pre # none /\ x <= z)
  BY <1>1, <1>2
<1> QED
  BY <1>3, Zenon DEF LabelAtMost, none, x, z

\* What compareVersions says in terms of its two parts.
LEMMA ComparedParts ==
    ASSUME NEW v1, NEW v2, IsVersion(v1), IsVersion(v2)
    PROVE  \/ /\ Lex(Parts(v1), Parts(v2)) /\ ~Lex(Parts(v2), Parts(v1))
              /\ compareVersions(v1, v2) = -1
           \/ /\ Lex(Parts(v2), Parts(v1)) /\ ~Lex(Parts(v1), Parts(v2))
              /\ compareVersions(v1, v2) = 1
           \/ /\ Parts(v1) = Parts(v2)
              /\ ~Lex(Parts(v1), Parts(v2)) /\ ~Lex(Parts(v2), Parts(v1))
              /\ compareVersions(v1, v2) = comparePreRelease(v1, v2)
<1> DEFINE p == Parts(v1)
           q == Parts(v2)
<1>1. /\ p \in [Indices -> Nat] /\ q \in [Indices -> Nat]
      /\ CoreBelow(v1, v2) <=> Lex(p, q)
      /\ CoreBelow(v2, v1) <=> Lex(q, p)
  BY CoreIsLex
<1> HIDE DEF p, q
<1>2. CASE Lex(p, q)
  <2>1. ~Lex(q, p)
    BY <1>1, <1>2, LexAsymmetric
  <2>2. compareVersions(v1, v2) = -1
    BY <1>1, <1>2, <2>1 DEF compareVersions
  <2> QED
    BY <1>2, <2>1, <2>2 DEF p, q
<1>3. CASE ~Lex(p, q) /\ Lex(q, p)
  <2>1. ~CoreBelow(v1, v2) /\ CoreBelow(v2, v1)
    BY <1>1, <1>3
  <2>2. compareVersions(v1, v2) = 1
    BY <2>1 DEF compareVersions
  <2> QED
    BY <1>3, <2>2 DEF p, q
<1>4. CASE ~Lex(p, q) /\ ~Lex(q, p)
  <2>1. p = q
    BY <1>1, <1>4, LexTotal
  <2>2. compareVersions(v1, v2) = comparePreRelease(v1, v2)
    BY <1>1, <1>4 DEF compareVersions
  <2> QED
    BY <1>4, <2>1, <2>2 DEF p, q
<1> QED
  BY <1>2, <1>3, <1>4

\* compareVersions (version-checker.ts) is a total preorder on versions of any length: it
\* answers the opposite the other way round, and "at most" is transitive.  No two versions
\* are each an update of the other, and what is no update of a version is none of an
\* update of it.
THEOREM VersionsAreOrdered ==
    ASSUME NEW v1, NEW v2, NEW v3, IsVersion(v1), IsVersion(v2), IsVersion(v3)
    PROVE  /\ compareVersions(v1, v2) \in {-1, 0, 1}
           /\ compareVersions(v2, v1) = -compareVersions(v1, v2)
           /\ compareVersions(v1, v2) <= 0 /\ compareVersions(v2, v3) <= 0
              => compareVersions(v1, v3) <= 0
<1> DEFINE p == Parts(v1)
           q == Parts(v2)
           r == Parts(v3)
<1>1. /\ comparePreRelease(v1, v2) \in Signs
      /\ comparePreRelease(v2, v1) = -comparePreRelease(v1, v2)
  BY LabelOrder
<1>2. compareVersions(v1, v2) \in {-1, 0, 1}
  BY <1>1, ComparedParts DEF Signs
<1>3. compareVersions(v2, v1) = -compareVersions(v1, v2)
  <2>1. /\ \/ Lex(p, q) /\ ~Lex(q, p) /\ compareVersions(v1, v2) = -1
           \/ Lex(q, p) /\ ~Lex(p, q) /\ compareVersions(v1, v2) = 1
           \/ /\ p = q /\ ~Lex(p, q) /\ ~Lex(q, p)
              /\ compareVersions(v1, v2) = comparePreRelease(v1, v2)
        /\ \/ Lex(q, p) /\ ~Lex(p, q) /\ compareVersions(v2, v1) = -1
           \/ Lex(p, q) /\ ~Lex(q, p) /\ compareVersions(v2, v1) = 1
           \/ /\ q = p /\ ~Lex(q, p) /\ ~Lex(p, q)
              /\ compareVersions(v2, v1) = comparePreRelease(v2, v1)
    BY ComparedParts
  <2> HIDE DEF p, q
  <2> QED
    BY <1>1, <2>1 DEF Signs
<1>4. ASSUME compareVersions(v1, v2) <= 0, compareVersions(v2, v3) <= 0
      PROVE  compareVersions(v1, v3) <= 0
  <2>1. /\ p \in [Indices -> Nat] /\ q \in [Indices -> Nat] /\ r \in [Indices -> Nat]
    BY CoreIsLex
  <2>2. \/ Lex(p, q)
        \/ p = q /\ LabelAtMost(v1, v2)
    BY <1>4, ComparedParts, LabelOrder
  <2>3. \/ Lex(q, r)
        \/ q = r /\ LabelAtMost(v2, v3)
    BY <1>4, ComparedParts, LabelOrder
  <2>4. Lex(p, r) => compareVersions(v1, v3) <= 0
    BY ComparedParts
  <2>5. p = r /\ LabelAtMost(v1, v3) => compareVersions(v1, v3) <= 0
    BY ComparedParts, LabelOrder
  <2> HIDE DEF p, q, r
  <2> QED
    BY <2>1, <2>2, <2>3, <2>4, <2>5, LexTransitive, LabelTransitive
<1> QED
  BY <1>2, <1>3, <1>4

-----------------------------------------------------------------------------
(* The order of the telemetry backend.                                     *)

\* Higher numbers first; on equal ones the rest decides.
Descending(m, n, rest) == IF m # n THEN n - m ELSE rest

RankOf(v) == IF v.pre = "" THEN 0 ELSE LabelRank[v.pre]

StableFirst(s1, s2, rest) ==
    IF s1 /\ s2 THEN 0 ELSE IF s1 THEN -1 ELSE IF s2 THEN 1 ELSE rest

LEMMA RankIsNumber == ASSUME NEW v, IsVersion(v) PROVE RankOf(v) \in Nat /\ v.num \in Nat
<1>1. v.pre \in {"", "rc", "b"}
  BY DEF IsVersion
<1>2. v.num \in Nat
  BY DEF IsVersion
<1>3. LabelRank["rc"] = 2 /\ LabelRank["b"] = 1
  BY DEF LabelRank
<1>4. RankOf(v) = 0 \/ RankOf(v) = 1 \/ RankOf(v) = 2
  BY <1>1, <1>3, Zenon DEF RankOf
<1>5. RankOf(v) \in Nat
  BY <1>4
<1> QED
  BY <1>2, <1>5

LabelsDescending(v1, v2) ==
    StableFirst(v1.pre = "", v2.pre = "",
                Descending(v1.num, v2.num, Descending(RankOf(v1), RankOf(v2), 0)))

LEMMA LabelsAreDescending ==
    ASSUME NEW v1, NEW v2, IsVersion(v1), IsVersion(v2)
    PROVE  comparePreReleaseDescending(v1, v2) = LabelsDescending(v1, v2)
<1> DEFINE none == ""
           a == v1.pre
           b == v2.pre
           x == v1.num
           y == v2.num
           r == LabelRank[a]
           t == LabelRank[b]
           inner == CASE a = none /\ b # none -> -1
                      [] a # none /\ b = none -> 1
                      [] a = none /\ b = none -> 0
                      [] a # none /\ b # none /\ x # y -> y - x
                      [] OTHER -> t - r
<1>1. comparePreReleaseDescending(v1, v2) = inner
  BY Zenon DEF comparePreReleaseDescending
<1>2. /\ a = none => RankOf(v1) = 0
      /\ b = none => RankOf(v2) = 0
      /\ a # none => RankOf(v1) = r
      /\ b # none => RankOf(v2) = t
  BY Zenon DEF RankOf
<1>3. RankOf(v1) \in Nat /\ RankOf(v2) \in Nat /\ x \in Nat /\ y \in Nat
  BY RankIsNumber
<1>4. LabelsDescending(v1, v2)
        = StableFirst(a = none, b = none,
                      Descending(x, y, Descending(RankOf(v1), RankOf(v2), 0)))
  BY Zenon DEF LabelsDescending
<1> DEFINE i == RankOf(v1)
           j == RankOf(v2)
<1>5. /\ i \in Nat /\ j \in Nat /\ (a # none => i = r) /\ (b # none => j = t)
  BY <1>2, <1>3
<1> HIDE DEF none, a, b, x, y, r, t, i, j
<1>6. inner = StableFirst(a = none, b = none, Descending(x, y, Descending(i, j, 0)))
  <2>1. CASE a = none /\ b = none
    BY <2>1 DEF StableFirst
  <2>2. CASE a = none /\ b # none
    BY <2>2 DEF StableFirst
  <2>3. CASE a # none /\ b = none
    BY <2>3 DEF StableFirst
  <2>4. CASE a # none /\ b # none /\ x # y
    BY <1>3, <2>4 DEF StableFirst, Descending
  <2>5. CASE a # none /\ b # none /\ x = y
    <3>1. r = i /\ t = j /\ t - r = Descending(i, j, 0)
      BY <1>5, <2>5 DEF Descending
    <3> QED
      BY <2>5, <3>1 DEF StableFirst, Descending
  <2> QED
    BY <2>1, <2>2, <2>3, <2>4, <2>5
<1> QED
  BY <1>1, <1>4, <1>6, Zenon DEF i, j

LEMMA LabelsCompare ==
    ASSUME NEW v1, NEW v2, NEW v3, IsVersion(v1), IsVersion(v2), IsVersion(v3)
    PROVE  /\ LabelsDescending(v1, v2) \in Int
           /\ LabelsDescending(v2, v1) = -LabelsDescending(v1, v2)
           /\ LabelsDescending(v1, v2) <= 0 /\ LabelsDescending(v2, v3) <= 0
              => LabelsDescending(v1, v3) <= 0
<1> DEFINE stable(v) == v.pre = ""
           byRank(v, w) == Descending(RankOf(v), RankOf(w), 0)
           byNumber(v, w) == Descending(v.num, w.num, byRank(v, w))
<1>1. /\ RankOf(v1) \in Nat /\ RankOf(v2) \in Nat /\ RankOf(v3) \in Nat
      /\ v1.num \in Nat /\ v2.num \in Nat /\ v3.num \in Nat
  BY RankIsNumber
<1>2. stable(v1) \in BOOLEAN /\ stable(v2) \in BOOLEAN /\ stable(v3) \in BOOLEAN
  OBVIOUS
<1>3. /\ byRank(v1, v2) \in Int /\ byRank(v2, v1) \in Int
      /\ byRank(v2, v3) \in Int /\ byRank(v1, v3) \in Int
      /\ byRank(v2, v1) = -byRank(v1, v2)
      /\ byRank(v1, v2) <= 0 /\ byRank(v2, v3) <= 0 => byRank(v1, v3) <= 0
  BY <1>1 DEF Descending
<1>4. /\ LabelsDescending(v1, v2) = StableFirst(stable(v1), stable(v2), byNumber(v1, v2))
      /\ LabelsDescending(v2, v1) = StableFirst(stable(v2), stable(v1), byNumber(v2, v1))
      /\ LabelsDescending(v2, v3) = StableFirst(stable(v2), stable(v3), byNumber(v2, v3))
      /\ LabelsDescending(v1, v3) = StableFirst(stable(v1), stable(v3), byNumber(v1, v3))
  BY Zenon DEF LabelsDescending
<1> HIDE DEF stable, byRank
<1>5. /\ byNumber(v1, v2) \in Int /\ byNumber(v2, v1) \in Int
      /\ byNumber(v2, v3) \in Int /\ byNumber(v1, v3) \in Int
      /\ byNumber(v2, v1) = -byNumber(v1, v2)
      /\ byNumber(v1, v2) <= 0 /\ byNumber(v2, v3) <= 0 => byNumber(v1, v3) <= 0
  BY <1>1, <1>3 DEF Descending
<1> HIDE DEF byNumber
<1> QED
  BY <1>2, <1>4, <1>5 DEF StableFirst

LEMMA PartsDescend ==
    ASSUME NEW v1, NEW v2, IsVersion(v1), IsVersion(v2)
    PROVE  compareVersionsDescending(v1, v2)
             = Descending(Part(v1, 1), Part(v2, 1),
                 Descending(Part(v1, 2), Part(v2, 2),
                   Descending(Part(v1, 3), Part(v2, 3), LabelsDescending(v1, v2))))
<1> DEFINE p == Parts(v1)
           q == Parts(v2)
<1>1. /\ Part(v1, 1) = p[1] /\ Part(v1, 2) = p[2] /\ Part(v1, 3) = p[3]
      /\ Part(v2, 1) = q[1] /\ Part(v2, 2) = q[2] /\ Part(v2, 3) = q[3]
  BY DEF Parts
<1>2. 1 .. 1 - 1 = {} /\ 1 .. 2 - 1 = {1} /\ 1 .. 3 - 1 = {1, 2} /\ 1 .. 3 = {1, 2, 3}
  OBVIOUS
<1>3. /\ (\E i \in 1 .. 3 : Part(v1, i) # Part(v2, i))
           => compareVersionsDescending(v1, v2)
                = LET i == CHOOSE j \in 1 .. 3 : IsFirst(p, q, j) IN Part(v2, i) - Part(v1, i)
      /\ (\A i \in 1 .. 3 : Part(v1, i) = Part(v2, i))
           => compareVersionsDescending(v1, v2) = comparePreReleaseDescending(v1, v2)
  BY FirstPart
<1> HIDE DEF p, q
<1>4. CASE p[1] # q[1]
  <2>1. (CHOOSE j \in 1 .. 3 : IsFirst(p, q, j)) = 1
    BY <1>2, <1>4 DEF IsFirst
  <2>2. compareVersionsDescending(v1, v2) = Part(v2, 1) - Part(v1, 1)
    BY <1>1, <1>2, <1>3, <1>4, <2>1
  <2> QED
    BY <1>1, <1>4, <2>2 DEF Descending
<1>5. CASE p[1] = q[1] /\ p[2] # q[2]
  <2>1. (CHOOSE j \in 1 .. 3 : IsFirst(p, q, j)) = 2
    BY <1>2, <1>5 DEF IsFirst
  <2>2. compareVersionsDescending(v1, v2) = Part(v2, 2) - Part(v1, 2)
    BY <1>1, <1>2, <1>3, <1>5, <2>1
  <2> QED
    BY <1>1, <1>5, <2>2 DEF Descending
<1>6. CASE p[1] = q[1] /\ p[2] = q[2] /\ p[3] # q[3]
  <2>1. (CHOOSE j \in 1 .. 3 : IsFirst(p, q, j)) = 3
    BY <1>2, <1>6 DEF IsFirst
  <2>2. compareVersionsDescending(v1, v2) = Part(v2, 3) - Part(v1, 3)
    BY <1>1, <1>2, <1>3, <1>6, <2>1
  <2> QED
    BY <1>1, <1>6, <2>2 DEF Descending
<1>7. CASE p[1] = q[1] /\ p[2] = q[2] /\ p[3] = q[3]
  <2>1. compareVersionsDescending(v1, v2) = LabelsDescending(v1, v2)
    BY <1>1, <1>2, <1>3, <1>7, LabelsAreDescending
  <2> QED
    BY <1>1, <1>7, <2>1 DEF Descending
<1> QED
  BY <1>4, <1>5, <1>6, <1>7

\* compareVersionsDescending (badges.ts) is a comparator as Array.prototype.sort asks for
\* one: it answers the opposite the other way round, and "not after" is transitive, so
\* that the hundred versions kept (aggregateTelemetry, clickhouse.ts:152) do not depend on
\* the order of the rows, but for versions that compare equal.
THEOREM ComparatorIsConsistent ==
    ASSUME NEW v1, NEW v2, NEW v3, IsVersion(v1), IsVersion(v2), IsVersion(v3)
    PROVE  /\ compareVersionsDescending(v1, v2) \in Int
           /\ compareVersionsDescending(v2, v1) = -compareVersionsDescending(v1, v2)
           /\ compareVersionsDescending(v1, v2) <= 0 /\ compareVersionsDescending(v2, v3) <= 0
              => compareVersionsDescending(v1, v3) <= 0
<1> DEFINE third(v, w) == Descending(Part(v, 3), Part(w, 3), LabelsDescending(v, w))
           second(v, w) == Descending(Part(v, 2), Part(w, 2), third(v, w))
           first(v, w) == Descending(Part(v, 1), Part(w, 1), second(v, w))
<1>1. \A i \in 1 .. 3 : Part(v1, i) \in Nat /\ Part(v2, i) \in Nat /\ Part(v3, i) \in Nat
  <2>1. \A i \in 1 .. 3 : i \in Nat \ {0}
    OBVIOUS
  <2> QED
    BY <2>1, PartType
<1>2. /\ compareVersionsDescending(v1, v2) = first(v1, v2)
      /\ compareVersionsDescending(v2, v1) = first(v2, v1)
      /\ compareVersionsDescending(v2, v3) = first(v2, v3)
      /\ compareVersionsDescending(v1, v3) = first(v1, v3)
  BY PartsDescend
<1>3. /\ LabelsDescending(v1, v2) \in Int /\ LabelsDescending(v2, v1) \in Int
      /\ LabelsDescending(v2, v3) \in Int /\ LabelsDescending(v1, v3) \in Int
      /\ LabelsDescending(v2, v1) = -LabelsDescending(v1, v2)
      /\ LabelsDescending(v1, v2) <= 0 /\ LabelsDescending(v2, v3) <= 0
         => LabelsDescending(v1, v3) <= 0
  BY LabelsCompare
<1>4. /\ third(v1, v2) \in Int /\ third(v2, v1) \in Int
      /\ third(v2, v3) \in Int /\ third(v1, v3) \in Int
      /\ third(v2, v1) = -third(v1, v2)
      /\ third(v1, v2) <= 0 /\ third(v2, v3) <= 0 => third(v1, v3) <= 0
  BY <1>1, <1>3 DEF Descending
<1> HIDE DEF third
<1>5. /\ second(v1, v2) \in Int /\ second(v2, v1) \in Int
      /\ second(v2, v3) \in Int /\ second(v1, v3) \in Int
      /\ second(v2, v1) = -second(v1, v2)
      /\ second(v1, v2) <= 0 /\ second(v2, v3) <= 0 => second(v1, v3) <= 0
  BY <1>1, <1>4 DEF Descending
<1> HIDE DEF second
<1>6. /\ first(v1, v2) \in Int
      /\ first(v2, v1) = -first(v1, v2)
      /\ first(v1, v2) <= 0 /\ first(v2, v3) <= 0 => first(v1, v3) <= 0
  BY <1>1, <1>5 DEF Descending
<1> HIDE DEF first
<1> QED
  BY <1>2, <1>6
=============================================================================
