---------------------------- MODULE IngestProofs ----------------------------
(***************************************************************************)
(* Proofs about Ingest: its type invariant, that bursts are bounded, that  *)
(* nobody is locked out, that the map of the limiter forgets, and that it  *)
(* implements the limiter that has nothing to sweep.                       *)
(***************************************************************************)
EXTENDS Ingest, WellFoundedInduction, TLAPS

WindowsSet == [count : 1 .. maxRequests, age : 0 .. MaxAge]

LEMMA WindowFacts == Window \in Nat /\ Window > 0 /\ maxRequests \in Nat /\ maxRequests > 0
BY IngestAssumption

LEMMA NoneIsNoWindow == None \notin WindowsSet
BY IngestAssumption DEF WindowsSet, MaxAge

LEMMA NoneIsNoVerdict == None \notin [ip : Ips, allowed : BOOLEAN]
BY IngestAssumption

LEMMA ClientIpIsKnown == \A from \in Addresses : extractClientIp(from) \in Ips
BY DEF Addresses, extractClientIp, Ips

\* The map of the limiter, as TypeOK has it.
WindowsOK == windows \in [Ips -> WindowsSet \cup {None}]

\* What a request finds in the map is what was there, or nothing where it did not count.
LEMMA SweptKeepsWhatCounts ==
    ASSUME WindowsOK
    PROVE  /\ swept \in [Ips -> WindowsSet \cup {None}]
           /\ \A ip \in Ips : /\ swept[ip] = windows[ip] \/ swept[ip] = None
                              /\ Counts(swept[ip]) <=> Counts(windows[ip])
                              /\ Counts(windows[ip]) => swept[ip] = windows[ip]
                              /\ sinceSweep >= Window /\ swept[ip] # None => Counts(swept[ip])
<1>1. CASE sinceSweep >= Window
  <2>1. swept = [ip \in Ips |-> IF windows[ip] # None /\ Expired(windows[ip]) THEN None
                                ELSE windows[ip]]
    BY <1>1 DEF swept, sweepExpired
  <2> QED BY <1>1, <2>1 DEF WindowsOK, Counts
<1>2. CASE ~(sinceSweep >= Window)
  <2>1. swept = windows
    BY <1>2 DEF swept
  <2> QED BY <1>2, <2>1 DEF WindowsOK
<1> QED BY <1>1, <1>2

LEMMA NextWindowType ==
    ASSUME NEW window \in WindowsSet \cup {None}
    PROVE  /\ NextWindow(window) \in WindowsSet
           /\ ~Counts(window) => NextWindow(window) = [count |-> 1, age |-> 0]
           /\ Counts(window) /\ Admits(window) =>
                 NextWindow(window) = [count |-> window.count + 1, age |-> window.age]
           /\ Counts(window) /\ ~Admits(window) => NextWindow(window) = window
<1> USE WindowFacts
<1>1. CASE ~Counts(window)
  BY <1>1 DEF NextWindow, WindowsSet, MaxAge
<1>2. CASE Counts(window)
  <2>1. window \in WindowsSet
    BY <1>2 DEF Counts
  <2>2. Admits(window) <=> window.count < maxRequests
    BY <1>2 DEF Admits
  <2>3. CASE Admits(window)
    <3>1. NextWindow(window) = [window EXCEPT !.count = @ + 1]
      BY <1>2, <2>3 DEF NextWindow
    <3> QED BY <1>2, <2>1, <2>2, <2>3, <3>1 DEF WindowsSet, MaxAge
  <2>4. CASE ~Admits(window)
    BY <1>2, <2>1, <2>4 DEF NextWindow
  <2> QED BY <2>3, <2>4
<1> QED BY <1>1, <1>2

LEMMA OlderFacts ==
    ASSUME NEW age \in 0 .. MaxAge
    PROVE  /\ Older(age) \in 0 .. MaxAge /\ Older(age) <= age + 1 /\ Older(age) >= age
           /\ age < Window => Older(age) = age + 1
BY WindowFacts DEF Older, MaxAge

LEMMA OlderWindow ==
    ASSUME NEW window \in WindowsSet, NEW older,
           older = [count |-> window.count, age |-> Older(window.age)]
    PROVE  /\ older \in WindowsSet
           /\ older.age = Older(window.age)
           /\ window.age \in 0 .. MaxAge
<1>1. window.count \in 1 .. maxRequests /\ window.age \in 0 .. MaxAge
  BY DEF WindowsSet
<1>2. Older(window.age) \in 0 .. MaxAge
  BY <1>1, OlderFacts
<1> QED BY <1>1, <1>2 DEF WindowsSet

LEMMA NewWindowIsRecord ==
    ASSUME NEW window \in WindowsSet
    PROVE  window = [count |-> window.count, age |-> window.age]
           /\ window.count \in 1 .. maxRequests /\ window.age \in 0 .. MaxAge
BY DEF WindowsSet

-----------------------------------------------------------------------------
(* Sums over the ages.  A set of numbers that holds 0 and the successor of *)
(* each of its members below a bound holds all of them: the least one that *)
(* is missing would follow one that is not.                                *)

LEMMA NoneMissing ==
    ASSUME NEW bound \in Nat, NEW P \in SUBSET (0 .. bound), 0 \in P,
           \A n \in 1 .. bound : n - 1 \in P => n \in P
    PROVE  P = 0 .. bound
<1> DEFINE R == OpToRel(<, Nat)
           missing == (0 .. bound) \ P
<1>1. IsWellFoundedOn(R, Nat)
  BY NatLessThanWellFounded
<1>2. \A m, n \in Nat : m < n => <<m, n>> \in R
  BY DEF OpToRel
<1> HIDE DEF R
<1>3. ASSUME missing # {} PROVE FALSE
  <2>1. missing \in SUBSET Nat
    OBVIOUS
  <2> HIDE DEF missing
  <2>2. PICK x \in missing : \A y \in missing : ~(<<y, x>> \in R)
    BY <1>1, <1>3, <2>1, WFMin
  <2>3. x \in 1 .. bound /\ x \notin P
    BY <2>2 DEF missing
  <2>4. x - 1 \in missing
    BY <2>3 DEF missing
  <2>5. <<x - 1, x>> \in R
    BY <1>2, <2>3
  <2> QED BY <2>2, <2>4, <2>5
<1> QED BY <1>3

\* The admissions of one client, by age.
Admissions == [Ages -> Nat]

SumsUp(sum, admitted, last) ==
    /\ sum \in [0 .. last -> Nat] /\ sum[0] = 0
    /\ \A n \in 1 .. last : sum[n] = sum[n - 1] + admitted[n - 1]

\* There is a function as AdmittedBelow defines it.
LEMMA SumExists ==
    ASSUME NEW admitted \in Admissions
    PROVE  \E sum : SumsUp(sum, admitted, Window)
<1> DEFINE P == {last \in 0 .. Window : \E sum : SumsUp(sum, admitted, last)}
<1>1. 0 \in P
  <2> DEFINE zero == [n \in 0 .. 0 |-> 0]
  <2>1. SumsUp(zero, admitted, 0)
    BY DEF SumsUp
  <2> QED BY <2>1, WindowFacts
<1>2. ASSUME NEW last \in 1 .. Window, last - 1 \in P PROVE last \in P
  <2>1. PICK sum : SumsUp(sum, admitted, last - 1)
    BY <1>2
  <2> DEFINE longer == [n \in 0 .. last |-> IF n = last THEN sum[last - 1] + admitted[last - 1]
                                             ELSE sum[n]]
  <2>2. last - 1 \in Ages /\ last - 1 \in 0 .. last - 1 /\ last \in Nat
    BY WindowFacts DEF Ages
  <2>3. admitted[last - 1] \in Nat /\ sum[last - 1] \in Nat
    BY <2>1, <2>2 DEF SumsUp, Admissions
  <2>4. \A n \in 0 .. last : n # last => n \in 0 .. last - 1
    BY <2>2
  <2>5. longer \in [0 .. last -> Nat] /\ longer[0] = 0
    BY <2>1, <2>2, <2>3, <2>4 DEF SumsUp
  <2>6. ASSUME NEW n \in 1 .. last PROVE longer[n] = longer[n - 1] + admitted[n - 1]
    <3>1. n - 1 \in 0 .. last - 1 /\ n - 1 \in 0 .. last /\ n - 1 # last /\ n \in 0 .. last
      BY <2>2
    <3>2. longer[n - 1] = sum[n - 1]
      BY <3>1
    <3>3. CASE n = last
      BY <3>1, <3>2, <3>3
    <3>4. CASE n # last
      <4>1. n \in 1 .. last - 1
        BY <2>2, <3>4
      <4>2. sum[n] = sum[n - 1] + admitted[n - 1]
        BY <2>1, <4>1 DEF SumsUp
      <4> QED BY <3>1, <3>2, <3>4, <4>2
    <3> QED BY <3>3, <3>4
  <2>7. SumsUp(longer, admitted, last)
    BY <2>5, <2>6 DEF SumsUp
  <2> QED BY <2>7
<1> HIDE DEF P
<1>3. P \in SUBSET (0 .. Window)
  BY DEF P
<1>4. P = 0 .. Window
  BY <1>1, <1>2, <1>3, NoneMissing, WindowFacts
<1>5. Window \in P
  BY <1>4, WindowFacts
<1> QED BY <1>5 DEF P

\* The sums, one after the other.
LEMMA SumsAre ==
    ASSUME NEW admitted \in Admissions
    PROVE  SumsUp(AdmittedBelow(admitted), admitted, Window)
<1> DEFINE Step(f) == [n \in 0 .. Window |-> IF n = 0 THEN 0 ELSE f[n - 1] + admitted[n - 1]]
<1>1. PICK sums : SumsUp(sums, admitted, Window)
  BY SumExists
<1>2. sums = Step(sums)
  <2>1. \A n \in 0 .. Window : n # 0 => n \in 1 .. Window
    BY WindowFacts
  <2> QED BY <1>1, <2>1 DEF SumsUp
<1>3. AdmittedBelow(admitted) = CHOOSE f : f = Step(f)
  BY DEF AdmittedBelow
<1>4. AdmittedBelow(admitted) = Step(AdmittedBelow(admitted))
  <2> HIDE DEF Step
  <2> QED BY <1>2, <1>3
<1> DEFINE sum == AdmittedBelow(admitted)
<1>5. /\ sum[0] = 0
      /\ \A n \in 1 .. Window : sum[n] = sum[n - 1] + admitted[n - 1]
      /\ sum = [n \in 0 .. Window |-> sum[n]]
  <2>1. \A n \in 1 .. Window : n \in 0 .. Window /\ n # 0
    OBVIOUS
  <2> HIDE DEF sum
  <2>2. sum = [n \in 0 .. Window |-> IF n = 0 THEN 0 ELSE sum[n - 1] + admitted[n - 1]]
    BY <1>4 DEF sum
  <2> QED BY <2>1, <2>2, WindowFacts
<1> HIDE DEF sum
<1> DEFINE P == {n \in 0 .. Window : sum[n] \in Nat}
<1>6. 0 \in P
  BY <1>5, WindowFacts
<1>7. ASSUME NEW n \in 1 .. Window, n - 1 \in P PROVE n \in P
  <2>1. n - 1 \in Ages /\ sum[n - 1] \in Nat
    BY <1>7, WindowFacts DEF Ages
  <2>2. admitted[n - 1] \in Nat
    BY <2>1 DEF Admissions
  <2>3. sum[n] = sum[n - 1] + admitted[n - 1]
    BY <1>5
  <2>4. sum[n] \in Nat
    BY <2>1, <2>2, <2>3
  <2> QED BY <2>4
<1> HIDE DEF P
<1>8. P = 0 .. Window
  <2>1. P \in SUBSET (0 .. Window)
    BY DEF P
  <2> QED BY <1>6, <1>7, <2>1, NoneMissing, WindowFacts
<1>9. \A n \in 0 .. Window : sum[n] \in Nat
  BY <1>8 DEF P
<1>10. sum \in [0 .. Window -> Nat]
  BY <1>5, <1>9
<1>11. SumsUp(sum, admitted, Window)
  BY <1>5, <1>10 DEF SumsUp
<1> QED BY <1>11 DEF sum

\* A request that is admitted now counts in every sum.
LEMMA SumWithOneMore ==
    ASSUME NEW admitted \in Admissions, NEW more \in Admissions,
           more[0] = admitted[0] + 1, \A age \in Ages : age # 0 => more[age] = admitted[age]
    PROVE  \A n \in 1 .. Window : AdmittedBelow(more)[n] = AdmittedBelow(admitted)[n] + 1
<1> DEFINE s == AdmittedBelow(admitted)
           t == AdmittedBelow(more)
<1>1. SumsUp(s, admitted, Window) /\ SumsUp(t, more, Window)
  BY SumsAre
<1> HIDE DEF s, t
<1> DEFINE P == {n \in 0 .. Window : n # 0 => t[n] = s[n] + 1}
<1>2. 0 \in P
  BY WindowFacts
<1>3. ASSUME NEW n \in 1 .. Window, n - 1 \in P PROVE n \in P
  <2>1. n - 1 \in Ages /\ n - 1 \in 0 .. Window
    BY WindowFacts DEF Ages
  <2>2. s[n] = s[n - 1] + admitted[n - 1] /\ t[n] = t[n - 1] + more[n - 1]
    BY <1>1 DEF SumsUp
  <2>3. admitted[n - 1] \in Nat /\ s[n - 1] \in Nat
    BY <1>1, <2>1 DEF SumsUp, Admissions
  <2>4. CASE n = 1
    <3>1. s[0] = 0 /\ t[0] = 0
      BY <1>1 DEF SumsUp
    <3> QED BY <2>2, <2>3, <2>4, <3>1
  <2>5. CASE n # 1
    <3>1. n - 1 # 0 /\ t[n - 1] = s[n - 1] + 1
      BY <1>3, <2>5
    <3>2. more[n - 1] = admitted[n - 1]
      BY <2>1, <3>1
    <3> QED BY <2>2, <2>3, <3>1, <3>2
  <2> QED BY <2>4, <2>5
<1> HIDE DEF P
<1>4. P = 0 .. Window
  <2>1. P \in SUBSET (0 .. Window)
    BY DEF P
  <2> QED BY <1>2, <1>3, <2>1, NoneMissing, WindowFacts
<1>5. ASSUME NEW n \in 1 .. Window PROVE t[n] = s[n] + 1
  <2>1. n \in P
    BY <1>4, WindowFacts
  <2> QED BY <2>1 DEF P
<1> QED BY <1>5 DEF s, t

\* When time passes each sum is what the one below it was.
LEMMA SumOneTickLater ==
    ASSUME NEW admitted \in Admissions, NEW later \in Admissions,
           later[0] = 0, \A age \in Ages : age # 0 => later[age] = admitted[age - 1]
    PROVE  \A n \in 1 .. Window : AdmittedBelow(later)[n] = AdmittedBelow(admitted)[n - 1]
<1> DEFINE s == AdmittedBelow(admitted)
           t == AdmittedBelow(later)
<1>1. SumsUp(s, admitted, Window) /\ SumsUp(t, later, Window)
  BY SumsAre
<1> HIDE DEF s, t
<1> DEFINE P == {n \in 0 .. Window : n # 0 => t[n] = s[n - 1]}
<1>2. 0 \in P
  BY WindowFacts
<1>3. ASSUME NEW n \in 1 .. Window, n - 1 \in P PROVE n \in P
  <2>1. n - 1 \in Ages /\ n \in 0 .. Window
    BY WindowFacts DEF Ages
  <2>2. t[n] = t[n - 1] + later[n - 1]
    BY <1>1 DEF SumsUp
  <2>3. CASE n = 1
    <3>1. s[0] = 0 /\ t[0] = 0
      BY <1>1 DEF SumsUp
    <3> QED BY <2>2, <2>3, <3>1
  <2>4. CASE n # 1
    <3>1. n - 1 # 0 /\ t[n - 1] = s[(n - 1) - 1]
      BY <1>3, <2>4
    <3>2. later[n - 1] = admitted[(n - 1) - 1]
      BY <2>1, <3>1
    <3>3. n - 1 \in 1 .. Window
      BY <2>4, WindowFacts
    <3>4. s[n - 1] = s[(n - 1) - 1] + admitted[(n - 1) - 1]
      BY <1>1, <3>3 DEF SumsUp
    <3> QED BY <2>1, <2>2, <3>1, <3>2, <3>4
  <2> QED BY <2>3, <2>4
<1> HIDE DEF P
<1>4. P = 0 .. Window
  <2>1. P \in SUBSET (0 .. Window)
    BY DEF P
  <2> QED BY <1>2, <1>3, <2>1, NoneMissing, WindowFacts
<1>5. ASSUME NEW n \in 1 .. Window PROVE t[n] = s[n - 1]
  <2>1. n \in P
    BY <1>4, WindowFacts
  <2> QED BY <2>1 DEF P
<1> QED BY <1>5 DEF s, t

-----------------------------------------------------------------------------
(* The inductive invariant.                                                *)

\* An entry outlives its window by no more than the time until the next sweep.
SweepBound ==
    sinceSweep < Window =>
        \A ip \in Ips : windows[ip] # None => windows[ip].age < sinceSweep + Window

\* A window that counts was opened by a request that was admitted.
OpenedByAdmitted ==
    \A ip \in Ips : Counts(windows[ip]) => recent[ip][windows[ip].age] > 0

IInv == TypeOK /\ SweepBound /\ OpenedByAdmitted

LEMMA InitIInv == Init => IInv
<1> SUFFICES ASSUME Init PROVE IInv
  OBVIOUS
<1>1. TypeOK
  BY WindowFacts DEF Init, TypeOK, Ages, MaxAge
<1>2. SweepBound /\ OpenedByAdmitted
  BY DEF Init, SweepBound, OpenedByAdmitted, Counts
<1> QED BY <1>1, <1>2 DEF IInv

LEMMA AllowIInv ==
    ASSUME IInv, NEW ip \in Ips, allow(ip), stage' \in [Handlers -> {"idle", "reading", "forwarding"}]
    PROVE  IInv'
<1> DEFINE allowed == Admits(swept[ip])
<1>0. WindowsOK
  BY DEF IInv, TypeOK, WindowsOK, WindowsSet
<1>1. /\ windows' = [swept EXCEPT ![ip] = NextWindow(swept[ip])]
      /\ sinceSweep' = IF sinceSweep >= Window THEN 0 ELSE sinceSweep
      /\ verdict' = [ip |-> ip, allowed |-> allowed]
      /\ recent' = IF allowed THEN [recent EXCEPT ![ip][0] = @ + 1] ELSE recent
  BY DEF allow
<1>2. allowed \in BOOLEAN
  BY DEF Admits, Counts
<1>3. /\ swept \in [Ips -> WindowsSet \cup {None}]
      /\ NextWindow(swept[ip]) \in WindowsSet
  BY <1>0, SweptKeepsWhatCounts, NextWindowType
<1>4. windows' \in [Ips -> WindowsSet \cup {None}]
  BY <1>1, <1>3
<1>5. sinceSweep \in 0 .. MaxAge /\ sinceSweep' \in 0 .. MaxAge /\ sinceSweep' < Window
  BY <1>1, WindowFacts DEF IInv, TypeOK, MaxAge
<1>6. recent \in [Ips -> [Ages -> Nat]] /\ 0 \in Ages
  BY WindowFacts DEF IInv, TypeOK, Ages
<1>7. recent' \in [Ips -> [Ages -> Nat]]
  BY <1>1, <1>6
<1>8. \A x \in Ips, age \in Ages : recent'[x][age] >= recent[x][age]
  BY <1>1, <1>6
<1>9. TypeOK'
  BY <1>1, <1>2, <1>4, <1>5, <1>7 DEF TypeOK, WindowsSet
<1>10. SweepBound'
  <2> SUFFICES ASSUME NEW x \in Ips, windows'[x] # None
               PROVE  windows'[x].age < sinceSweep' + Window
    BY DEF SweepBound
  <2>1. CASE x = ip /\ ~Counts(swept[ip])
    BY <1>1, <1>3, <1>5, <2>1, NextWindowType, WindowFacts
  <2>2. CASE swept[x] # None /\ windows'[x].age = swept[x].age
    <3>1. swept[x] = windows[x] /\ windows[x] \in WindowsSet
      BY <1>0, <2>2, SweptKeepsWhatCounts DEF WindowsOK
    <3>2. windows[x].age \in Nat
      BY <3>1, NewWindowIsRecord
    <3>3. CASE sinceSweep >= Window
      <4>1. ~(windows[x].age >= Window)
        BY <1>0, <2>2, <3>1, <3>3, SweptKeepsWhatCounts DEF Counts, Expired
      <4> QED BY <1>1, <1>5, <2>2, <3>1, <3>2, <3>3, <4>1, WindowFacts
    <3>4. CASE sinceSweep < Window
      <4>1. windows[x].age < sinceSweep + Window
        BY <2>2, <3>1, <3>4 DEF IInv, SweepBound
      <4> QED BY <1>1, <1>5, <2>2, <3>1, <3>4, <4>1, WindowFacts
    <3> QED BY <1>5, <3>3, <3>4, WindowFacts DEF MaxAge
  <2>3. CASE x = ip /\ Counts(swept[ip])
    <3>1. swept[ip] # None /\ swept[ip] \in WindowsSet
      BY <1>3, <2>3 DEF Counts
    <3>2. NextWindow(swept[ip]).age = swept[ip].age
      BY <2>3, <3>1, NextWindowType
    <3> QED BY <1>1, <1>3, <2>2, <2>3, <3>1, <3>2
  <2>4. CASE x # ip
    <3>1. windows'[x] = swept[x]
      BY <1>1, <1>3, <2>4
    <3> QED BY <2>2, <3>1
  <2> QED BY <2>1, <2>3, <2>4
<1>11. OpenedByAdmitted'
  <2> SUFFICES ASSUME NEW x \in Ips, Counts(windows'[x])
               PROVE  recent'[x][windows'[x].age] > 0
    BY DEF OpenedByAdmitted, Counts, Expired
  <2>1. CASE x = ip /\ ~Counts(swept[ip])
    <3>1. windows'[x].age = 0
      BY <1>1, <1>3, <2>1, NextWindowType
    <3>2. allowed
      BY <2>1 DEF Admits
    <3>3. recent'[ip][0] = recent[ip][0] + 1
      BY <1>1, <1>6, <3>2
    <3> QED BY <1>6, <2>1, <3>1, <3>3
  <2>2. CASE Counts(swept[x]) /\ windows'[x].age = swept[x].age
    <3>1. swept[x] = windows[x] /\ Counts(windows[x]) /\ windows[x] \in WindowsSet
      BY <1>0, <2>2, SweptKeepsWhatCounts DEF Counts, WindowsOK
    <3>2. recent[x][windows[x].age] > 0
      BY <3>1 DEF IInv, OpenedByAdmitted
    <3>3. windows[x].age \in Ages
      BY <3>1, NewWindowIsRecord, WindowFacts DEF Counts, Expired, Ages, MaxAge
    <3> QED BY <1>6, <1>7, <1>8, <2>2, <3>1, <3>2, <3>3
  <2>3. CASE x = ip /\ Counts(swept[ip])
    <3>1. swept[ip] \in WindowsSet
      BY <1>3, <2>3 DEF Counts
    <3>2. NextWindow(swept[ip]).age = swept[ip].age
      BY <2>3, <3>1, NextWindowType
    <3> QED BY <1>1, <1>3, <2>2, <2>3, <3>2
  <2>4. CASE x # ip
    <3>1. windows'[x] = swept[x]
      BY <1>1, <1>3, <2>4
    <3> QED BY <2>2, <3>1
  <2> QED BY <2>1, <2>3, <2>4
<1> QED BY <1>9, <1>10, <1>11 DEF IInv

LEMMA TickIInv == ASSUME IInv, Tick PROVE IInv'
<1>1. \A x \in Ips : windows[x] # None => windows[x] \in WindowsSet
  BY DEF IInv, TypeOK, WindowsSet
<1>2. \A x \in Ips : windows[x] # None =>
         windows'[x] = [count |-> windows[x].count, age |-> Older(windows[x].age)]
  <2> SUFFICES ASSUME NEW x \in Ips, windows[x] # None
               PROVE  windows'[x] = [count |-> windows[x].count, age |-> Older(windows[x].age)]
    OBVIOUS
  <2>1. windows'[x] = [windows[x] EXCEPT !.age = Older(windows[x].age)]
    BY DEF Tick
  <2> QED BY <1>1, <2>1 DEF WindowsSet
<1>3. \A x \in Ips : windows[x] = None => windows'[x] = None
  BY DEF Tick
<1>4. \A x \in Ips : windows'[x] \in WindowsSet \cup {None}
  BY <1>1, <1>2, <1>3, OlderWindow
<1>5. sinceSweep \in 0 .. MaxAge /\ sinceSweep' = Older(sinceSweep)
  BY DEF IInv, TypeOK, Tick
<1>6. recent \in [Ips -> [Ages -> Nat]]
  BY DEF IInv, TypeOK
<1>7. recent' = [ip \in Ips |-> [age \in Ages |-> IF age = 0 THEN 0 ELSE recent[ip][age - 1]]]
  BY DEF Tick
<1>8. recent' \in [Ips -> [Ages -> Nat]]
  BY <1>6, <1>7, WindowFacts DEF Ages
<1>9. windows' \in [Ips -> WindowsSet \cup {None}]
  BY <1>4 DEF Tick
<1>10. sinceSweep' \in 0 .. MaxAge
  BY <1>5, OlderFacts
<1>11. TypeOK'
  BY <1>8, <1>9, <1>10 DEF TypeOK, WindowsSet, IInv, Tick
<1>12. SweepBound'
  <2> SUFFICES ASSUME NEW x \in Ips, windows'[x] # None, sinceSweep' < Window
               PROVE  windows'[x].age < sinceSweep' + Window
    BY DEF SweepBound
  <2>1. windows[x] # None /\ windows[x] \in WindowsSet
    BY <1>1, <1>3
  <2>2. windows[x].age \in 0 .. MaxAge /\ windows'[x].age = Older(windows[x].age)
    BY <1>2, <2>1, OlderWindow
  <2>3. sinceSweep < Window /\ sinceSweep' = sinceSweep + 1
    BY <1>5, OlderFacts, WindowFacts DEF MaxAge
  <2>4. windows[x].age < sinceSweep + Window
    BY <2>1, <2>3 DEF IInv, SweepBound
  <2>5. windows'[x].age <= windows[x].age + 1
    BY <2>2, OlderFacts
  <2> QED BY <1>5, <2>2, <2>3, <2>4, <2>5, WindowFacts, OlderFacts DEF MaxAge
<1>13. OpenedByAdmitted'
  <2> SUFFICES ASSUME NEW x \in Ips, Counts(windows'[x])
               PROVE  recent'[x][windows'[x].age] > 0
    BY DEF OpenedByAdmitted, Counts, Expired
  <2>1. windows[x] # None /\ windows[x] \in WindowsSet
    BY <1>1, <1>3 DEF Counts
  <2>2. windows[x].age \in 0 .. MaxAge /\ windows'[x].age = Older(windows[x].age)
    BY <1>2, <2>1, OlderWindow
  <2>3. Older(windows[x].age) < Window
    BY <2>2, OlderFacts, WindowFacts DEF Counts, Expired, MaxAge
  <2>4. windows[x].age < Window /\ windows'[x].age = windows[x].age + 1
    BY <2>2, <2>3, OlderFacts, WindowFacts DEF MaxAge
  <2>5. recent[x][windows[x].age] > 0
    <3>1. ~(windows[x].age >= Window)
      BY <2>2, <2>4, WindowFacts DEF MaxAge
    <3>2. Counts(windows[x])
      BY <2>1, <3>1 DEF Counts, Expired
    <3> QED BY <3>2 DEF IInv, OpenedByAdmitted
  <2>6. windows[x].age + 1 \in Ages /\ windows[x].age + 1 # 0
    BY <2>2, <2>3, <2>4, WindowFacts DEF Ages, MaxAge
  <2>7. recent'[x][windows[x].age + 1] = recent[x][(windows[x].age + 1) - 1]
    BY <1>7, <2>6
  <2>8. (windows[x].age + 1) - 1 = windows[x].age
    BY <2>2
  <2> QED BY <2>4, <2>5, <2>7, <2>8
<1> QED BY <1>11, <1>12, <1>13 DEF IInv

\* What Next does: time passes, a request is asked, or a handler goes on.
LEMMA NextCases ==
    ASSUME IInv, Next
    PROVE  \/ Tick
           \/ /\ \E ip \in Ips : allow(ip)
              /\ stage' \in [Handlers -> {"idle", "reading", "forwarding"}]
           \/ /\ UNCHANGED <<windows, sinceSweep, verdict, recent>>
              /\ stage' \in [Handlers -> {"idle", "reading", "forwarding"}]
<1>1. stage \in [Handlers -> {"idle", "reading", "forwarding"}]
  BY DEF IInv, TypeOK
<1>2. ASSUME NEW h \in Handlers, NEW from \in Addresses, Post(h, from)
      PROVE  /\ \E ip \in Ips : allow(ip)
             /\ stage' \in [Handlers -> {"idle", "reading", "forwarding"}]
  BY <1>1, <1>2, ClientIpIsKnown DEF Post
<1>3. ASSUME NEW h \in Handlers, BodyRead(h) \/ ForwardEnds(h)
      PROVE  /\ UNCHANGED <<windows, sinceSweep, verdict, recent>>
             /\ stage' \in [Handlers -> {"idle", "reading", "forwarding"}]
  BY <1>1, <1>3 DEF BodyRead, ForwardEnds
<1> QED BY <1>2, <1>3 DEF Next

LEMMA NextIInv == IInv /\ [Next]_vars => IInv'
<1> SUFFICES ASSUME IInv, [Next]_vars PROVE IInv'
  OBVIOUS
<1>1. CASE Next
  <2>1. ASSUME NEW ip \in Ips, allow(ip),
               stage' \in [Handlers -> {"idle", "reading", "forwarding"}]
        PROVE  IInv'
    BY <2>1, AllowIInv
  <2>2. ASSUME UNCHANGED <<windows, sinceSweep, verdict, recent>>,
               stage' \in [Handlers -> {"idle", "reading", "forwarding"}]
        PROVE  IInv'
    BY <2>2 DEF IInv, TypeOK, SweepBound, OpenedByAdmitted, Counts, Expired
  <2> QED BY <1>1, <2>1, <2>2, NextCases, TickIInv
<1>2. CASE UNCHANGED vars
  BY <1>2 DEF vars, IInv, TypeOK, SweepBound, OpenedByAdmitted, Counts, Expired
<1> QED BY <1>1, <1>2

LEMMA AlwaysIInv == Spec => []IInv
BY InitIInv, NextIInv, PTL DEF Spec

\* The types of the limiter and of the handlers (rate-limit.ts, server.ts).
THEOREM IngestTypeOK == Spec => []TypeOK
BY AlwaysIInv, PTL DEF IInv

-----------------------------------------------------------------------------
LEMMA StepForgets ==
    ASSUME IInv, IInv', NEW h \in Handlers, NEW from \in Addresses, Post(h, from),
           NEW ip \in Ips, windows'[ip] # None
    PROVE  windows'[ip].age < 2 * Window
<1>1. sinceSweep \in 0 .. MaxAge /\ sinceSweep' \in 0 .. MaxAge
  BY DEF IInv, TypeOK
<1>2. sinceSweep' < Window
  BY <1>1, WindowFacts DEF Post, allow, MaxAge
<1>3. windows'[ip].age < sinceSweep' + Window
  BY <1>2 DEF IInv, SweepBound
<1>4. windows'[ip] \in WindowsSet
  BY DEF IInv, TypeOK, WindowsSet
<1>5. windows'[ip].age \in 0 .. MaxAge
  BY <1>4, NewWindowIsRecord
<1> QED BY <1>1, <1>2, <1>3, <1>5, WindowFacts DEF MaxAge

\* For every length of a window and any number of addresses, a request leaves no entry
\* in the map of rate-limit.ts that is two windows old.
THEOREM LimiterForgets == Spec => TrackedAreRecent
<1>1. IInv /\ IInv' /\ [Next]_vars =>
         [\A h \in Handlers, from \in Addresses : Post(h, from) =>
            \A ip \in Ips : windows'[ip] # None => windows'[ip].age < 2 * Window]_vars
  BY StepForgets
<1> QED BY <1>1, AlwaysIInv, PTL DEF Spec, TrackedAreRecent

LEMMA StepAdmits ==
    ASSUME IInv, NEW h \in Handlers, NEW from \in Addresses, Post(h, from),
           \A age \in Ages : recent[extractClientIp(from)][age] = 0
    PROVE  verdict' = [ip |-> extractClientIp(from), allowed |-> TRUE]
<1> DEFINE ip == extractClientIp(from)
<1>1. ip \in Ips
  BY ClientIpIsKnown
<1>2. WindowsOK
  BY DEF IInv, TypeOK, WindowsOK, WindowsSet
<1>3. ASSUME Counts(windows[ip]) PROVE FALSE
  <2>1. windows[ip] \in WindowsSet
    BY <1>1, <1>2, <1>3 DEF Counts, WindowsOK
  <2>2. windows[ip].age \in Ages
    BY <1>3, <2>1, NewWindowIsRecord, WindowFacts DEF Counts, Expired, Ages, MaxAge
  <2>3. recent[ip][windows[ip].age] > 0
    BY <1>1, <1>3 DEF IInv, OpenedByAdmitted
  <2> QED BY <2>2, <2>3
<1>4. ~Counts(swept[ip])
  BY <1>1, <1>2, <1>3, SweptKeepsWhatCounts
<1>5. Admits(swept[ip]) = TRUE
  BY <1>4 DEF Admits, Counts
<1>6. allow(ip)
  BY DEF Post
<1> QED BY <1>5, <1>6 DEF allow

\* Refused requests never prolong a refusal, whatever the limit, the window and the
\* other clients (allow in rate-limit.ts).
THEOREM LimiterAdmitsAgain == Spec => NoLockout
<1>1. IInv /\ [Next]_vars =>
         [\A h \in Handlers, from \in Addresses :
            LET ip == extractClientIp(from)
            IN  Post(h, from) /\ (\A age \in Ages : recent[ip][age] = 0)
                => verdict' = [ip |-> ip, allowed |-> TRUE]]_vars
  BY StepAdmits
<1> QED BY <1>1, AlwaysIInv, PTL DEF Spec, NoLockout

-----------------------------------------------------------------------------
(* Bursts.                                                                 *)

\* Of the requests admitted within the length of a window, those of a window that counts
\* are its count, and those before it were all of one earlier window; what is admitted
\* now belongs to a window that counts.
Within(window, admitted) ==
    /\ Counts(window) =>
          /\ AdmittedBelow(admitted)[window.age + 1] = window.count
          /\ AdmittedBelow(admitted)[Window] <= maxRequests + window.count
    /\ ~Counts(window) =>
          /\ admitted[0] = 0
          /\ AdmittedBelow(admitted)[Window] <= maxRequests

Budget == \A ip \in Ips : Within(windows[ip], recent[ip])

LEMMA SumIsNumber ==
    ASSUME NEW admitted \in Admissions, NEW n \in 0 .. Window
    PROVE  AdmittedBelow(admitted)[n] \in Nat
BY SumsAre DEF SumsUp

\* A window that counts covers the ages up to its own.
LEMMA CountingWindow ==
    ASSUME NEW window \in WindowsSet \cup {None}, Counts(window)
    PROVE  /\ window \in WindowsSet /\ window.age \in Ages /\ window.age + 1 \in 1 .. Window
           /\ window.count \in 1 .. maxRequests
<1>1. window \in WindowsSet
  BY DEF Counts
<1>2. ~(window.age >= Window)
  BY DEF Counts, Expired
<1> QED BY <1>1, <1>2, NewWindowIsRecord, WindowFacts DEF Ages, MaxAge

LEMMA AdmitWithin ==
    ASSUME NEW window \in WindowsSet \cup {None}, NEW admitted \in Admissions, NEW more,
           more = [admitted EXCEPT ![0] = admitted[0] + 1],
           Within(window, admitted), Admits(window)
    PROVE  Within(NextWindow(window), more)
<1>1. 0 \in Ages /\ more \in Admissions /\ more[0] = admitted[0] + 1
  BY WindowFacts DEF Admissions, Ages
<1>2. \A n \in 1 .. Window : AdmittedBelow(more)[n] = AdmittedBelow(admitted)[n] + 1
  <2>1. \A age \in Ages : age # 0 => more[age] = admitted[age]
    BY DEF Admissions
  <2> QED BY <1>1, <2>1, SumWithOneMore
<1>3. Window \in 1 .. Window /\ Window \in 0 .. Window /\ 1 \in 1 .. Window /\ 1 \in 0 .. Window
  BY WindowFacts
<1>4. AdmittedBelow(admitted)[Window] \in Nat
  BY <1>3, SumIsNumber
<1>5. CASE ~Counts(window)
  <2>1. NextWindow(window) = [count |-> 1, age |-> 0] /\ NextWindow(window) \in WindowsSet
    BY <1>5, NextWindowType
  <2>2. Counts(NextWindow(window))
    BY <2>1, NoneIsNoWindow, WindowFacts DEF Counts, Expired
  <2>3. AdmittedBelow(admitted)[1] = 0
    <3>1. SumsUp(AdmittedBelow(admitted), admitted, Window)
      BY SumsAre
    <3>2. AdmittedBelow(admitted)[1] = AdmittedBelow(admitted)[1 - 1] + admitted[1 - 1]
      BY <1>3, <3>1 DEF SumsUp
    <3> QED BY <1>5, <3>1, <3>2 DEF SumsUp, Within
  <2>4. AdmittedBelow(more)[0 + 1] = 1
    <3>1. AdmittedBelow(more)[1] = AdmittedBelow(admitted)[1] + 1
      BY <1>2, <1>3
    <3> QED BY <2>3, <3>1
  <2>5. AdmittedBelow(more)[Window] <= maxRequests + 1
    <3>1. AdmittedBelow(admitted)[Window] <= maxRequests
      BY <1>5 DEF Within
    <3>2. AdmittedBelow(more)[Window] = AdmittedBelow(admitted)[Window] + 1
      BY <1>2, <1>3
    <3> QED BY <1>4, <3>1, <3>2, WindowFacts
  <2> QED BY <2>1, <2>2, <2>4, <2>5 DEF Within
<1>6. CASE Counts(window)
  <2>1. /\ window.age \in Ages /\ window.age + 1 \in 1 .. Window
        /\ window.count \in 1 .. maxRequests /\ window \in WindowsSet
    BY <1>6, CountingWindow
  <2>2. /\ NextWindow(window) = [count |-> window.count + 1, age |-> window.age]
        /\ NextWindow(window) \in WindowsSet
    BY <1>6, NextWindowType
  <2>3. Counts(NextWindow(window))
    BY <1>6, <2>2, NoneIsNoWindow DEF Counts, Expired
  <2>4. AdmittedBelow(more)[window.age + 1] = window.count + 1
    BY <1>2, <1>6, <2>1 DEF Within
  <2>5. AdmittedBelow(more)[Window] <= maxRequests + (window.count + 1)
    <3>1. AdmittedBelow(admitted)[Window] <= maxRequests + window.count
      BY <1>6 DEF Within
    <3>2. AdmittedBelow(more)[Window] = AdmittedBelow(admitted)[Window] + 1
      BY <1>2, <1>3
    <3> QED BY <1>4, <2>1, <3>1, <3>2, WindowFacts
  <2> QED BY <2>2, <2>3, <2>4, <2>5 DEF Within
<1> QED BY <1>5, <1>6

LEMMA TickWithin ==
    ASSUME NEW window \in WindowsSet \cup {None}, NEW admitted \in Admissions,
           NEW older \in WindowsSet \cup {None}, NEW later \in Admissions,
           later = [age \in Ages |-> IF age = 0 THEN 0 ELSE admitted[age - 1]],
           window = None => older = None,
           window # None => older = [count |-> window.count, age |-> Older(window.age)],
           Within(window, admitted)
    PROVE  Within(older, later)
<1>1. 0 \in Ages /\ later[0] = 0
  BY WindowFacts DEF Ages
<1>2. \A n \in 1 .. Window : AdmittedBelow(later)[n] = AdmittedBelow(admitted)[n - 1]
  <2>1. \A age \in Ages : age # 0 => later[age] = admitted[age - 1]
    OBVIOUS
  <2> QED BY <1>1, <2>1, SumOneTickLater
<1>3. AdmittedBelow(later)[Window] <= AdmittedBelow(admitted)[Window]
  <2>1. SumsUp(AdmittedBelow(admitted), admitted, Window)
    BY SumsAre
  <2>2. Window \in 1 .. Window /\ Window - 1 \in 0 .. Window /\ Window - 1 \in Ages
    BY WindowFacts DEF Ages
  <2>3. AdmittedBelow(admitted)[Window] = AdmittedBelow(admitted)[Window - 1] + admitted[Window - 1]
    BY <2>1, <2>2 DEF SumsUp
  <2>4. AdmittedBelow(admitted)[Window - 1] \in Nat /\ admitted[Window - 1] \in Nat
    BY <2>2, SumIsNumber DEF Admissions
  <2>5. AdmittedBelow(later)[Window] = AdmittedBelow(admitted)[Window - 1]
    BY <1>2, <2>2
  <2> QED BY <2>3, <2>4, <2>5
<1>4. Window \in 0 .. Window
  BY WindowFacts
<1>5. AdmittedBelow(later)[Window] \in Nat /\ AdmittedBelow(admitted)[Window] \in Nat
  BY <1>4, SumIsNumber
<1>6. CASE Counts(older)
  <2>1. older \in WindowsSet /\ older.age \in Ages /\ older.age + 1 \in 1 .. Window
    BY <1>6, CountingWindow
  <2>2. window # None /\ window \in WindowsSet
    BY <1>6 DEF Counts
  <2>3. window.age \in 0 .. MaxAge /\ window.count \in 1 .. maxRequests
    BY <2>2, NewWindowIsRecord
  <2>4. older.count = window.count /\ older.age = Older(window.age)
    BY <2>2
  <2>5. window.age < Window /\ older.age = window.age + 1
    BY <2>1, <2>3, <2>4, OlderFacts, WindowFacts DEF Ages, MaxAge
  <2>6. Counts(window)
    BY <2>2, <2>3, <2>5, WindowFacts DEF Counts, Expired, MaxAge
  <2>7. AdmittedBelow(later)[older.age + 1] = AdmittedBelow(admitted)[window.age + 1]
    <3>1. (older.age + 1) - 1 = window.age + 1
      BY <2>3, <2>5
    <3> QED BY <1>2, <2>1, <3>1
  <2>8. AdmittedBelow(later)[older.age + 1] = older.count
    BY <2>4, <2>6, <2>7 DEF Within
  <2>9. AdmittedBelow(admitted)[Window] <= maxRequests + window.count
    BY <2>6 DEF Within
  <2>10. AdmittedBelow(later)[Window] <= maxRequests + older.count
    BY <1>3, <1>5, <2>3, <2>4, <2>9, WindowFacts
  <2> QED BY <1>6, <2>8, <2>10 DEF Within
<1>7. CASE ~Counts(older)
  <2>1. CASE ~Counts(window)
    <3>1. AdmittedBelow(admitted)[Window] <= maxRequests
      BY <2>1 DEF Within
    <3>2. AdmittedBelow(later)[Window] <= maxRequests
      BY <1>3, <1>5, <3>1, WindowFacts
    <3> QED BY <1>1, <1>7, <3>2 DEF Within
  <2>2. CASE Counts(window)
    <3>1. /\ window \in WindowsSet /\ window.age \in Ages
          /\ window.count \in 1 .. maxRequests
      BY <2>2, CountingWindow
    <3>2. older # None /\ older.age = Older(window.age)
      <4>1. window # None
        BY <2>2 DEF Counts
      <4>2. older = [count |-> window.count, age |-> Older(window.age)]
        BY <4>1
      <4>3. window.age \in 0 .. MaxAge /\ Older(window.age) \in 0 .. MaxAge
        BY <3>1, NewWindowIsRecord, OlderFacts
      <4>4. older \in WindowsSet
        BY <3>1, <4>2, <4>3 DEF WindowsSet
      <4> QED BY <4>2, <4>4, NoneIsNoWindow
    <3>3. window.age + 1 = Window
      <4>1. older.age >= Window
        BY <1>7, <3>2 DEF Counts, Expired
      <4>2. Older(window.age) <= window.age + 1
        BY <3>1, NewWindowIsRecord, OlderFacts
      <4>3. Older(window.age) \in 0 .. MaxAge
        BY <3>1, NewWindowIsRecord, OlderFacts
      <4> QED BY <3>1, <3>2, <4>1, <4>2, <4>3, WindowFacts DEF Ages, MaxAge
    <3>4. AdmittedBelow(admitted)[Window] = window.count
      BY <2>2, <3>3 DEF Within
    <3>5. AdmittedBelow(later)[Window] <= maxRequests
      BY <1>3, <1>5, <3>1, <3>4, WindowFacts
    <3> QED BY <1>1, <1>7, <3>5 DEF Within
  <2> QED BY <2>1, <2>2
<1> QED BY <1>6, <1>7

LEMMA InitBudget == Init => Budget
<1> SUFFICES ASSUME Init PROVE Budget
  OBVIOUS
<1> DEFINE none == [age \in Ages |-> 0]
           sum == AdmittedBelow(none)
<1>1. none \in Admissions /\ none = [age \in Ages |-> 0] /\ 0 \in Ages
  BY WindowFacts DEF Admissions, Ages
<1>2. \A ip \in Ips : recent[ip] = none /\ ~Counts(windows[ip])
  BY DEF Init, Counts
<1> HIDE DEF none
<1>3. SumsUp(sum, none, Window)
  BY <1>1, SumsAre
<1> HIDE DEF sum
<1> DEFINE P == {n \in 0 .. Window : sum[n] = 0}
<1>4. 0 \in P
  BY <1>3, WindowFacts DEF SumsUp
<1>5. ASSUME NEW n \in 1 .. Window, n - 1 \in P PROVE n \in P
  <2>1. n - 1 \in Ages /\ none[n - 1] = 0 /\ sum[n - 1] = 0
    BY <1>1, <1>5, WindowFacts DEF Ages
  <2>2. sum[n] = sum[n - 1] + none[n - 1]
    BY <1>3 DEF SumsUp
  <2> QED BY <2>1, <2>2
<1> HIDE DEF P
<1>6. P = 0 .. Window
  <2>1. P \in SUBSET (0 .. Window)
    BY DEF P
  <2> QED BY <1>4, <1>5, <2>1, NoneMissing, WindowFacts
<1>7. Window \in P
  BY <1>6, WindowFacts
<1>8. sum[Window] = 0
  BY <1>7 DEF P
<1>9. \A ip \in Ips : recent[ip][0] = 0
  BY <1>1, <1>2
<1>10. AdmittedBelow(none)[Window] <= maxRequests
  BY <1>8, WindowFacts DEF sum
<1>11. ASSUME NEW ip \in Ips PROVE Within(windows[ip], recent[ip])
  BY <1>2, <1>9, <1>10 DEF Within
<1> QED BY <1>11 DEF Budget

LEMMA AllowBudget ==
    ASSUME IInv, Budget, NEW ip \in Ips, allow(ip)
    PROVE  Budget'
<1>0. WindowsOK /\ recent \in [Ips -> Admissions]
  BY DEF IInv, TypeOK, WindowsOK, WindowsSet, Admissions
<1>1. /\ windows' = [swept EXCEPT ![ip] = NextWindow(swept[ip])]
      /\ recent' = IF Admits(swept[ip]) THEN [recent EXCEPT ![ip][0] = @ + 1] ELSE recent
  BY DEF allow
<1>2. /\ swept \in [Ips -> WindowsSet \cup {None}]
      /\ \A x \in Ips : /\ Counts(swept[x]) <=> Counts(windows[x])
                        /\ Counts(windows[x]) => swept[x] = windows[x]
  BY <1>0, SweptKeepsWhatCounts
<1>3. \A x \in Ips : Within(swept[x], recent[x])
  <2> SUFFICES ASSUME NEW x \in Ips PROVE Within(swept[x], recent[x])
    OBVIOUS
  <2>1. Within(windows[x], recent[x])
    BY DEF Budget
  <2> QED BY <1>2, <2>1 DEF Within
<1>4. \A x \in Ips : Within(windows'[x], recent'[x])
  <2> SUFFICES ASSUME NEW x \in Ips PROVE Within(windows'[x], recent'[x])
    OBVIOUS
  <2>1. CASE x # ip
    <3>1. windows'[x] = swept[x] /\ recent'[x] = recent[x]
      BY <1>0, <1>1, <1>2, <2>1
    <3> QED BY <1>3, <3>1
  <2>2. CASE x = ip /\ Admits(swept[ip])
    <3>1. windows'[ip] = NextWindow(swept[ip])
      BY <1>1, <1>2
    <3>2. recent'[ip] = [recent[ip] EXCEPT ![0] = recent[ip][0] + 1]
      BY <1>0, <1>1, <2>2
    <3>3. /\ swept[ip] \in WindowsSet \cup {None} /\ recent[ip] \in Admissions
          /\ Within(swept[ip], recent[ip])
      BY <1>0, <1>2, <1>3
    <3>4. Within(NextWindow(swept[ip]), recent'[ip])
      BY <2>2, <3>2, <3>3, AdmitWithin
    <3> QED BY <2>2, <3>1, <3>4
  <2>3. CASE x = ip /\ ~Admits(swept[ip])
    <3>1. NextWindow(swept[ip]) = swept[ip]
      BY <1>2, <2>3, NextWindowType DEF Admits
    <3>2. windows'[ip] = swept[ip] /\ recent'[ip] = recent[ip]
      BY <1>1, <1>2, <2>3, <3>1
    <3> QED BY <1>3, <2>3, <3>2
  <2> QED BY <2>1, <2>2, <2>3
<1> QED BY <1>4 DEF Budget, Within, Counts, Expired, AdmittedBelow

LEMMA TickBudget == ASSUME IInv, IInv', Budget, Tick PROVE Budget'
<1>1. /\ windows \in [Ips -> WindowsSet \cup {None}] /\ recent \in [Ips -> Admissions]
      /\ windows' \in [Ips -> WindowsSet \cup {None}] /\ recent' \in [Ips -> Admissions]
  BY DEF IInv, TypeOK, WindowsSet, Admissions
<1>2. \A x \in Ips : Within(windows'[x], recent'[x])
  <2> SUFFICES ASSUME NEW x \in Ips PROVE Within(windows'[x], recent'[x])
    OBVIOUS
  <2>1. recent'[x] = [age \in Ages |-> IF age = 0 THEN 0 ELSE recent[x][age - 1]]
    BY DEF Tick
  <2>2. windows[x] = None => windows'[x] = None
    BY DEF Tick
  <2>3. ASSUME windows[x] # None
        PROVE  windows'[x] = [count |-> windows[x].count, age |-> Older(windows[x].age)]
    <3>1. windows'[x] = [windows[x] EXCEPT !.age = Older(windows[x].age)]
      BY <2>3 DEF Tick
    <3> QED BY <1>1, <2>3, <3>1 DEF WindowsSet
  <2>4. Within(windows[x], recent[x])
    BY DEF Budget
  <2>5. /\ windows[x] \in WindowsSet \cup {None} /\ windows'[x] \in WindowsSet \cup {None}
        /\ recent[x] \in Admissions /\ recent'[x] \in Admissions
    BY <1>1
  <2> QED BY <2>1, <2>2, <2>3, <2>4, <2>5, TickWithin
<1> QED BY <1>2 DEF Budget, Within, Counts, Expired, AdmittedBelow

LEMMA NextBudget == IInv /\ IInv' /\ Budget /\ [Next]_vars => Budget'
<1> SUFFICES ASSUME IInv, IInv', Budget, [Next]_vars PROVE Budget'
  OBVIOUS
<1>1. ASSUME UNCHANGED <<windows, sinceSweep, verdict, recent>> PROVE Budget'
  BY <1>1 DEF Budget, Within, Counts, Expired, AdmittedBelow
<1>2. CASE Next
  BY <1>1, <1>2, NextCases, AllowBudget, TickBudget
<1>3. CASE UNCHANGED vars
  BY <1>1, <1>3 DEF vars
<1> QED BY <1>2, <1>3

LEMMA BudgetBoundsBursts == IInv /\ Budget => BurstBound
<1> SUFFICES ASSUME IInv, Budget, NEW ip \in Ips
             PROVE  AdmittedBelow(recent[ip])[Window] <= 2 * maxRequests
  BY DEF BurstBound
<1>1. Within(windows[ip], recent[ip]) /\ windows[ip] \in WindowsSet \cup {None}
  BY DEF Budget, IInv, TypeOK, WindowsSet
<1>2. AdmittedBelow(recent[ip])[Window] \in Nat
  <2>1. recent[ip] \in Admissions /\ Window \in 0 .. Window
    BY WindowFacts DEF IInv, TypeOK, Admissions
  <2> QED BY <2>1, SumIsNumber
<1>3. CASE Counts(windows[ip])
  <2>1. windows[ip].count \in 1 .. maxRequests
    BY <1>1, <1>3, CountingWindow
  <2>2. AdmittedBelow(recent[ip])[Window] <= maxRequests + windows[ip].count
    BY <1>1, <1>3 DEF Within
  <2> QED BY <1>2, <2>1, <2>2, WindowFacts
<1>4. CASE ~Counts(windows[ip])
  <2>1. AdmittedBelow(recent[ip])[Window] <= maxRequests
    BY <1>1, <1>4 DEF Within
  <2> QED BY <1>2, <2>1, WindowFacts
<1> QED BY <1>3, <1>4

\* Whatever the limit, the length of a window and the times of the requests, one address
\* is never admitted more than twice the limit within the length of a window (allow in
\* rate-limit.ts).
THEOREM LimiterBoundsBursts == Spec => []BurstBound
<1>1. Init => Budget
  BY InitBudget
<1>2. IInv /\ IInv' /\ Budget /\ [Next]_vars => Budget'
  BY NextBudget
<1>3. IInv /\ Budget => BurstBound
  BY BudgetBoundsBursts
<1> QED BY <1>1, <1>2, <1>3, AlwaysIInv, PTL DEF Spec

-----------------------------------------------------------------------------
(* The refinement.                                                         *)

liveBar == [ip \in Ips |-> IF Counts(windows[ip]) THEN windows[ip] ELSE None]

LEMMA AllowRequests ==
    ASSUME IInv, NEW ip \in Ips, allow(ip)
    PROVE  Gate!Request(ip)
<1>0. WindowsOK
  BY DEF IInv, TypeOK, WindowsOK, WindowsSet
<1>1. /\ windows' = [swept EXCEPT ![ip] = NextWindow(swept[ip])]
      /\ verdict' = [ip |-> ip, allowed |-> Admits(swept[ip])]
  BY DEF allow
<1>2. /\ swept \in [Ips -> WindowsSet \cup {None}]
      /\ \A x \in Ips : /\ Counts(swept[x]) <=> Counts(windows[x])
                        /\ Counts(windows[x]) => swept[x] = windows[x]
  BY <1>0, SweptKeepsWhatCounts
<1>3. \A x \in Ips \ {ip} : windows'[x] = swept[x]
  BY <1>1, <1>2
<1>4. windows'[ip] = NextWindow(swept[ip])
  BY <1>1, <1>2
<1>5. \A x \in Ips \ {ip} : liveBar'[x] = liveBar[x]
  BY <1>2, <1>3 DEF liveBar, Counts, Expired
<1>6. liveBar' \in [Ips -> {liveBar'[x] : x \in Ips}] /\ liveBar \in [Ips -> {liveBar[x] : x \in Ips}]
  BY DEF liveBar
<1>7. CASE ~Counts(swept[ip])
  <2>1. liveBar[ip] = None
    BY <1>2, <1>7 DEF liveBar
  <2>2. windows'[ip] = [count |-> 1, age |-> 0]
    BY <1>2, <1>4, <1>7, NextWindowType
  <2>3. windows'[ip] # None
    BY <1>2, <1>4, NextWindowType, NoneIsNoWindow
  <2>4. liveBar'[ip] = [count |-> 1, age |-> 0]
    BY <2>2, <2>3, WindowFacts DEF liveBar, Counts, Expired
  <2>5. liveBar' = [liveBar EXCEPT ![ip] = [count |-> 1, age |-> 0]]
    BY <1>5, <2>4 DEF liveBar
  <2>6. Admits(swept[ip]) = TRUE
    BY <1>7 DEF Admits, Counts
  <2>7. Gate!Admit(ip)
    BY <1>1, <2>1, <2>5, <2>6 DEF Gate!Admit, liveBar
  <2> QED BY <2>1, <2>7 DEF Gate!Request, liveBar
<1>8. CASE Counts(swept[ip])
  <2>1. swept[ip] = windows[ip] /\ Counts(windows[ip]) /\ windows[ip] \in WindowsSet
    BY <1>0, <1>2, <1>8 DEF Counts, WindowsOK
  <2>2. liveBar[ip] = windows[ip] /\ liveBar[ip] # None
    BY <2>1, NoneIsNoWindow DEF liveBar
  <2>3. Admits(windows[ip]) = (windows[ip].count < maxRequests)
    BY <2>1 DEF Admits
  <2>4. CASE windows[ip].count < maxRequests
    <3>1. windows'[ip] = [count |-> windows[ip].count + 1, age |-> windows[ip].age]
      BY <1>4, <1>8, <2>1, <2>3, <2>4, NextWindowType
    <3>2. windows'[ip] # None
      BY <1>2, <1>4, NextWindowType, NoneIsNoWindow
    <3>3. liveBar'[ip] = [count |-> liveBar[ip].count + 1, age |-> liveBar[ip].age]
      BY <2>1, <2>2, <3>1, <3>2 DEF liveBar, Counts, Expired
    <3>4. liveBar' = [liveBar EXCEPT ![ip] =
                         [count |-> liveBar[ip].count + 1, age |-> liveBar[ip].age]]
      BY <1>5, <3>3 DEF liveBar
    <3>5. Gate!Admit(ip)
      BY <1>1, <2>1, <2>2, <2>3, <2>4, <3>4 DEF Gate!Admit, liveBar
    <3> QED BY <2>2, <2>4, <3>5 DEF Gate!Request, liveBar
  <2>5. CASE ~(windows[ip].count < maxRequests)
    <3>1. windows'[ip] = windows[ip]
      BY <1>4, <1>8, <2>1, <2>3, <2>5, NextWindowType
    <3>2. liveBar'[ip] = liveBar[ip]
      BY <3>1 DEF liveBar, Counts, Expired
    <3>3. liveBar' = liveBar
      BY <1>5, <3>2 DEF liveBar
    <3>4. verdict' = [ip |-> ip, allowed |-> FALSE]
      <4>1. Admits(swept[ip]) = FALSE
        BY <2>1, <2>5 DEF Admits
      <4> QED BY <1>1, <4>1
    <3>5. Gate!Refuse(ip)
      BY <3>3, <3>4 DEF Gate!Refuse, liveBar
    <3> QED BY <2>2, <2>5, <3>5 DEF Gate!Request, liveBar
  <2> QED BY <2>4, <2>5
<1> QED BY <1>7, <1>8

LEMMA TickPasses == ASSUME IInv, Tick PROVE Gate!TimePasses
<1>1. \A x \in Ips : windows[x] # None => windows[x] \in WindowsSet
  BY DEF IInv, TypeOK, WindowsSet
<1>2. ASSUME NEW x \in Ips
      PROVE  liveBar'[x] = IF liveBar[x] = None \/ liveBar[x].age + 1 = Window THEN None
                           ELSE [count |-> liveBar[x].count, age |-> liveBar[x].age + 1]
  <2>1. CASE windows[x] = None
    <3>1. windows'[x] = None
      BY <2>1 DEF Tick
    <3> QED BY <2>1, <3>1 DEF liveBar, Counts
  <2>2. CASE windows[x] # None
    <3>1. windows[x] \in WindowsSet
      BY <1>1, <2>2
    <3>2. windows[x].age \in 0 .. MaxAge
      BY <3>1, NewWindowIsRecord
    <3>3. windows'[x] = [windows[x] EXCEPT !.age = Older(windows[x].age)]
      BY <2>2 DEF Tick
    <3>4. windows'[x] = [count |-> windows[x].count, age |-> Older(windows[x].age)]
      BY <3>1, <3>3 DEF WindowsSet
    <3>5. windows'[x] # None
      <4>1. windows'[x] \in WindowsSet
        BY <3>1, <3>2, <3>4, NewWindowIsRecord, OlderFacts DEF WindowsSet
      <4> QED BY <4>1, NoneIsNoWindow
    <3>6. liveBar'[x] = IF Older(windows[x].age) >= Window THEN None ELSE windows'[x]
      BY <3>4, <3>5 DEF liveBar, Counts, Expired
    <3>7. CASE windows[x].age >= Window
      <4>1. liveBar[x] = None
        BY <3>7 DEF liveBar, Counts, Expired
      <4>2. Older(windows[x].age) >= Window
        BY <3>2, <3>7, OlderFacts, WindowFacts DEF MaxAge
      <4> QED BY <3>6, <4>1, <4>2
    <3>8. CASE ~(windows[x].age >= Window)
      <4>1. liveBar[x] = windows[x] /\ liveBar[x] # None
        BY <2>2, <3>8 DEF liveBar, Counts, Expired
      <4>2. Older(windows[x].age) = windows[x].age + 1
        BY <3>2, <3>8, OlderFacts, WindowFacts DEF MaxAge
      <4>3. windows[x].age + 1 >= Window <=> windows[x].age + 1 = Window
        BY <3>2, <3>8, WindowFacts DEF MaxAge
      <4> QED BY <3>4, <3>6, <4>1, <4>2, <4>3
    <3> QED BY <3>7, <3>8
  <2> QED BY <2>1, <2>2
<1>3. liveBar' = [x \in Ips |->
                    IF liveBar[x] = None \/ liveBar[x].age + 1 = Window THEN None
                    ELSE [count |-> liveBar[x].count, age |-> liveBar[x].age + 1]]
  BY <1>2 DEF liveBar
<1>4. UNCHANGED verdict
  BY DEF Tick
<1> QED BY <1>3, <1>4 DEF Gate!TimePasses, liveBar

LEMMA NextRefines == IInv /\ [Next]_vars => [Gate!Next]_(Gate!gateVars)
<1> SUFFICES ASSUME IInv, [Next]_vars PROVE [Gate!Next]_(Gate!gateVars)
  OBVIOUS
<1>1. ASSUME UNCHANGED <<windows, verdict>> PROVE UNCHANGED Gate!gateVars
  BY <1>1 DEF Gate!gateVars, Counts, Expired
<1>2. CASE Next
  <2>1. ASSUME Tick PROVE Gate!Next
    BY <2>1, TickPasses DEF Gate!Next
  <2>2. ASSUME NEW ip \in Ips, allow(ip) PROVE Gate!Next
    BY <2>2, AllowRequests DEF Gate!Next
  <2> QED BY <1>1, <1>2, <2>1, <2>2, NextCases
<1>3. CASE UNCHANGED vars
  BY <1>1, <1>3 DEF vars
<1> QED BY <1>2, <1>3

LEMMA InitRefines == Init => Gate!Init
BY DEF Init, Gate!Init, Counts

\* With its lazy expiry and its sweeps, the limiter of rate-limit.ts behaves as one that
\* drops every window at its very end.
THEOREM LimiterImplementsFixedWindow == Spec => ImplementsFixedWindow
BY AlwaysIInv, InitRefines, NextRefines, PTL DEF Spec, ImplementsFixedWindow, Gate!Spec
=============================================================================
