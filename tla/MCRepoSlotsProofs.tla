------------------------- MODULE MCRepoSlotsProofs --------------------------
(***************************************************************************)
(* What MCRepoSlots checks over bounded annotations, lists and schedules,  *)
(* for all of them: the closed form of reconcileRepoSlotMap computes what  *)
(* its loops compute, a storage is left out only when every slot is taken, *)
(* and schedules come out as jobs, names and retention as they say.        *)
(***************************************************************************)
EXTENDS MCRepoSlots, RepoSlotsProofs

-----------------------------------------------------------------------------
(* The loop over the new names.                                            *)

(* What the loop has placed after n names of the list, and the slots then. *)
Reached(existing, list, n) ==
  {s \in DOMAIN reconcileRepoSlotMap(existing, list) :
     s \in Kept(existing, list) \/ \E j \in 1 .. n : list[j] = s}

Placed(existing, list, n) ==
  [s \in Reached(existing, list, n) |-> reconcileRepoSlotMap(existing, list)[s]]

(* A slot that is free for s, and every one below, is taken before s.      *)
LEMMA TakenBefore ==
  ASSUME NEW existing, NEW list \in Seq(Storage), NEW n \in DOMAIN list,
         NEW k, NEW t \in NewBefore(existing, list, list[n]), Takes(existing, list, t, k)
  PROVE  /\ t \in Reached(existing, list, n - 1)
         /\ reconcileRepoSlotMap(existing, list)[t] = k
<1>1. /\ t \in DOMAIN reconcileRepoSlotMap(existing, list)
      /\ reconcileRepoSlotMap(existing, list)[t] = k
  BY PlacedWhereItTakes
<1>2. PICK i \in DOMAIN list : list[i] = t /\ \A j \in 1 .. i : list[j] # list[n]
  BY DEF NewBefore, Precedes
<1>3. i \in 1 .. (n - 1)
  BY <1>2
<1> QED BY <1>1, <1>2, <1>3 DEF Reached

(* One turn of the loop.                                                   *)
LEMMA LoopTurn ==
  ASSUME NEW existing, NEW list \in Seq(Storage), NEW n \in DOMAIN list
  PROVE  PlaceNext(Placed(existing, list, n - 1), list[n]) = Placed(existing, list, n)
<1> DEFINE m == reconcileRepoSlotMap(existing, list)
           s == list[n]
           D == Reached(existing, list, n - 1)
           M == Placed(existing, list, n - 1)
           free == Slots \ {M[t] : t \in DOMAIN M}
<1>1. DOMAIN M = D /\ \A t \in D : M[t] = m[t] /\ t \in DOMAIN m
  BY DEF Placed, Reached
<1>2. s \in ToSet(list) /\ \A j : j \in 1 .. n <=> (j \in 1 .. (n - 1) \/ j = n)
  BY DEF ToSet
<1>3. Reached(existing, list, n) = IF s \in DOMAIN m THEN D \cup {s} ELSE D
  BY <1>2 DEF Reached
<1>4. \A k \in Slots : k \notin Free(existing, list) => k \notin free
  <2> SUFFICES ASSUME NEW k \in Slots, k \notin Free(existing, list)
               PROVE  \E t \in D : m[t] = k
    BY <1>1
  <2>1. PICK t \in Kept(existing, list) : existing[t] = k
    BY DEF Free
  <2>2. t \in D /\ m[t] = existing[t]
    BY <2>1 DEF Reached, reconcileRepoSlotMap
  <2> QED BY <2>1, <2>2
<1>5. CASE s \in D
  <2>1. PlaceNext(M, s) = M
    BY <1>1, <1>5 DEF PlaceNext
  <2>2. Reached(existing, list, n) = D
    BY <1>1, <1>3, <1>5
  <2> QED BY <2>1, <2>2 DEF Placed
<1>6. CASE s \notin DOMAIN m
  <2>1. s \in New(existing, list) /\ \A k \in Slots : ~Takes(existing, list, s, k)
    BY <1>2, <1>6 DEF reconcileRepoSlotMap, New
  <2>2. \A k \in Free(existing, list) : k \notin free
    <3> SUFFICES ASSUME NEW k \in Free(existing, list) PROVE \E t \in D : m[t] = k
      BY <1>1
    <3>1. PICK t \in NewBefore(existing, list, s) : Takes(existing, list, t, k)
      BY <2>1, LeftOutWhenTaken
    <3>2. t \in D /\ m[t] = k
      BY <3>1, TakenBefore
    <3> QED BY <3>2
  <2>3. free = {}
    BY <1>4, <2>2
  <2>4. PlaceNext(M, s) = M
    BY <2>3 DEF PlaceNext
  <2>5. Reached(existing, list, n) = D
    BY <1>3, <1>6
  <2> QED BY <2>4, <2>5 DEF Placed
<1>7. CASE s \notin D /\ s \in DOMAIN m
  <2> DEFINE k == m[s]
  <2>1. s \notin Kept(existing, list) /\ \A j \in 1 .. (n - 1) : list[j] # s
    BY <1>7 DEF Reached
  <2>2. Takes(existing, list, s, k)
    BY <1>7, <2>1, PlacedTakes
  <2>3. k \in Free(existing, list) /\ k \in Slots /\ Slots \subseteq Int
    BY <2>2, MaxReposAssumption DEF Takes, Free, Slots
  <2>4. k \in free
    <3> SUFFICES ASSUME NEW t \in D, m[t] = k PROVE FALSE
      BY <1>1, <2>3
    <3>1. CASE t \in Kept(existing, list)
      BY <2>3, <3>1 DEF Free, reconcileRepoSlotMap
    <3>2. CASE t \notin Kept(existing, list)
      <4>1. Takes(existing, list, t, k)
        BY <1>1, <3>2, PlacedTakes
      <4>2. t = s
        BY <2>2, <4>1, TakenByOne
      <4> QED BY <1>7, <4>2
    <3> QED BY <3>1, <3>2
  <2>5. \A l \in free : k <= l
    <3> SUFFICES ASSUME NEW l \in Slots, l < k PROVE l \notin free
      <4>1. free \subseteq Slots
        OBVIOUS
      <4> HIDE DEF free, k
      <4> QED BY <2>3, <4>1
    <3>1. CASE l \notin Free(existing, list)
      BY <1>4, <3>1
    <3>2. CASE l \in Free(existing, list)
      <4>1. Cardinality(FreeBelow(existing, list, l)) < Cardinality(FreeBelow(existing, list, k))
        BY <2>3, <3>2, SlotRankStrict
      <4>2. Cardinality(FreeBelow(existing, list, l)) < Cardinality(NewBefore(existing, list, s))
        BY <2>2, <4>1 DEF Takes
      <4>3. PICK t \in NewBefore(existing, list, s) :
              Cardinality(NewBefore(existing, list, t)) = Cardinality(FreeBelow(existing, list, l))
        BY <1>2, <4>2, FreeFinite, NameOfRank
      <4>4. Takes(existing, list, t, l)
        BY <3>2, <4>3 DEF Takes, NewBefore
      <4>5. t \in D /\ m[t] = l
        BY <4>4, TakenBefore
      <4> QED BY <1>1, <4>5
    <3> QED BY <3>1, <3>2
  <2>6. Min(free) = k
    <3> HIDE DEF free, k
    <3>1. \A x \in free : (\A l \in free : x <= l) => x = k
      <4>1. free \subseteq Int
        BY <2>3 DEF free
      <4> QED BY <2>4, <2>5, <4>1
    <3> QED BY <2>4, <2>5, <3>1 DEF Min
  <2>7. PlaceNext(M, s) = [x \in DOMAIN M \cup {s} |-> IF x = s THEN k ELSE M[x]]
    BY <1>1, <1>7, <2>4, <2>6 DEF PlaceNext
  <2>8. @ = [x \in D \cup {s} |-> m[x]]
    BY <1>1, <1>7
  <2>9. Reached(existing, list, n) = D \cup {s}
    BY <1>3, <1>7
  <2> QED BY <2>7, <2>8, <2>9 DEF Placed
<1> QED BY <1>5, <1>6, <1>7

(* The loops place what the closed form places.                            *)
LEMMA LoopIsReconcile ==
  ASSUME NEW existing, NEW list \in Seq(Storage)
  PROVE  LoopSlotMap(existing, list) = reconcileRepoSlotMap(existing, list)
<1> DEFINE m == reconcileRepoSlotMap(existing, list)
           N == Len(list)
           Base == Restrict(existing, Kept(existing, list))
           Runs(f) == f = [n \in 0 .. N |-> IF n = 0 THEN Base
                                            ELSE PlaceNext(f[n - 1], list[n])]
           Run == [n \in 0 .. N |-> Placed(existing, list, n)]
<1>1. N \in Nat /\ DOMAIN list = 1 .. N
  OBVIOUS
<1>2. Placed(existing, list, 0) = Base
  <2>1. Kept(existing, list) \subseteq DOMAIN existing
    BY DEF Kept
  <2>2. Kept(existing, list) \subseteq DOMAIN m
        /\ \A t \in Kept(existing, list) : m[t] = existing[t]
    BY DEF reconcileRepoSlotMap
  <2>3. Reached(existing, list, 0) = Kept(existing, list)
    BY <2>2 DEF Reached
  <2> QED BY <2>1, <2>2, <2>3 DEF Placed, Restrict
<1>3. Runs(Run)
  <2>1. \A n \in 1 .. N : Placed(existing, list, n) = PlaceNext(Run[n - 1], list[n])
    BY <1>1, LoopTurn
  <2>2. \A n \in 0 .. N : Placed(existing, list, n)
          = IF n = 0 THEN Base ELSE PlaceNext(Run[n - 1], list[n])
    <3> HIDE DEF Base, Run
    <3> QED BY <1>1, <1>2, <2>1
  <2> QED BY <2>2
<1>4. \A f : Runs(f) => f = Run
  <2> SUFFICES ASSUME NEW f, Runs(f), f # Run PROVE FALSE
    OBVIOUS
  <2> DEFINE Apart == {n \in 0 .. N : f[n] # Run[n]}
  <2>1. DOMAIN f = 0 .. N /\ DOMAIN Run = 0 .. N
    OBVIOUS
  <2>2. Apart # {}
    <3>1. f = [n \in 0 .. N |-> f[n]]
      OBVIOUS
    <3> HIDE DEF Run, Runs
    <3> QED BY <2>1, <3>1 DEF Run
  <2>3. Apart \in SUBSET Nat
    BY <1>1
  <2>4. PICK n \in Apart : \A j \in Apart : n <= j
    <3> HIDE DEF Apart
    <3> QED BY <2>2, <2>3, LeastIndex
  <2>5. CASE n = 0
    <3>1. Run[0] = Base
      BY <1>1, <1>2
    <3>2. f[0] = Base
      <4> HIDE DEF Base
      <4> QED BY <1>1
    <3> QED BY <2>5, <3>1, <3>2
  <2>6. CASE n # 0
    <3>1. n - 1 \in 0 .. N /\ n \in 0 .. N /\ n - 1 \notin Apart
      BY <1>1, <2>4, <2>6
    <3>2. f[n - 1] = Run[n - 1]
      BY <3>1
    <3>3. f[n] = PlaceNext(f[n - 1], list[n]) /\ Run[n] = PlaceNext(Run[n - 1], list[n])
      BY <1>3, <2>6, <3>1
    <3> QED BY <3>2, <3>3
  <2> QED BY <2>5, <2>6
<1>5. LoopSlotMap(existing, list) = Run[N]
  <2>1. (CHOOSE f : Runs(f)) = Run
    <3> HIDE DEF Runs, Run
    <3> QED BY <1>3, <1>4
  <2> QED BY <2>1 DEF LoopSlotMap
<1>6. Run[N] = m
  <2>1. Reached(existing, list, N) = DOMAIN m
    <3>1. \A s \in DOMAIN m : \E j \in 1 .. N : list[j] = s
      BY <1>1, ReconcileType DEF ToSet
    <3> QED BY <3>1 DEF Reached
  <2>2. m = [s \in DOMAIN m |-> m[s]]
    BY DEF reconcileRepoSlotMap
  <2> QED BY <1>1, <2>1, <2>2 DEF Placed
<1> QED BY <1>5, <1>6


-----------------------------------------------------------------------------
(* The days of a period.  A month has at most 31 days, and a year is 6     *)
(* short of twelve such months; what the first months of a leap year lack  *)
(* grows from 0 to 6.                                                      *)

Lack(i) == 31 * i - FirstDays[1 + i]

LEMMA LackGrows ==
  \A i, j \in 0 .. 11 : Lack(i) \in 0 .. 6 /\ (i <= j => Lack(i) <= Lack(j))
<1>1. /\ Lack(0) = 0 /\ Lack(1) = 0 /\ Lack(2) = 2 /\ Lack(3) = 2
      /\ Lack(4) = 3 /\ Lack(5) = 3 /\ Lack(6) = 4 /\ Lack(7) = 4
      /\ Lack(8) = 4 /\ Lack(9) = 5 /\ Lack(10) = 5 /\ Lack(11) = 6
  BY DEF Lack, FirstDays
<1>2. \A i \in 0 .. 11 : i \in {0, 1, 2, 3, 4, 5, 6, 7, 8, 9, 10, 11}
  OBVIOUS
<1> QED BY <1>1, <1>2

LEMMA MonthsFit ==
  ASSUME NEW month \in 0 .. 11, NEW n \in Nat
  PROVE  DaysBefore(month + n) - DaysBefore(month) <= 31 * n
<1> DEFINE q == (month + n) \div 12
           r == (month + n) % 12
<1>1. q \in Nat /\ r \in 0 .. 11 /\ month + n = 12 * q + r
  OBVIOUS
<1>2. month \div 12 = 0 /\ month % 12 = month
  OBVIOUS
<1>3. \A i \in 0 .. 11 : FirstDays[1 + i] \in Int /\ FirstDays[1 + i] = 31 * i - Lack(i)
  <2>1. \A i \in 0 .. 11 : i \in {0, 1, 2, 3, 4, 5, 6, 7, 8, 9, 10, 11}
    OBVIOUS
  <2>2. \A i \in 0 .. 11 : FirstDays[1 + i] \in Int
    BY <2>1 DEF FirstDays
  <2> QED BY <2>2 DEF Lack
<1>4. DaysBefore(month) = 31 * month - Lack(month)
  BY <1>2, <1>3 DEF DaysBefore
<1>5. DaysBefore(month + n) = 366 * q + 31 * r - Lack(r)
  <2>1. DaysBefore(month + n) = 366 * q + FirstDays[1 + r]
    BY DEF DaysBefore
  <2> HIDE DEF q, r
  <2>2. Lack(r) \in Int
    BY <1>1, LackGrows
  <2> QED BY <1>1, <1>3, <2>1, <2>2
<1>6. /\ Lack(r) \in 0 .. 6 /\ Lack(month) \in 0 .. 6
      /\ month <= r => Lack(month) <= Lack(r)
  <2> HIDE DEF r
  <2> QED BY <1>1, LackGrows
<1> HIDE DEF q, r
<1>7. Lack(month) <= 6 * q + Lack(r)
  BY <1>1, <1>6
<1> QED BY <1>1, <1>4, <1>5, <1>6, <1>7

-----------------------------------------------------------------------------
(* The schedules.                                                          *)

AnyRetention ==
  [type : {"count", "time"}, n : Nat, unit : {"d", "w", "m"}]

(* Any schedules at all, whatever their number, names, times and periods.  *)
AnySchedules(list) ==
  /\ \E n \in Nat : DOMAIN list = 1 .. n
  /\ \A i \in DOMAIN list :
       list[i].retention \in {{}} \cup {{r} : r \in AnyRetention}

LEMMA LastOfOne ==
  ASSUME NEW scheds, NEW i \in Int
  PROVE  Repo!Last(scheds, {i}) = {scheds[i]}
<1>1. Repo!Max({i}) = i
  BY DEF Repo!Max
<1> QED BY <1>1 DEF Repo!Last

(* Of the schedules that say how long full backups are kept, when only one *)
(* does, none is cut short: any number of weeks or months, from any month  *)
(* on ("a time window is never shorter than requested").                   *)
THEOREM AnyRetentionIsLongEnough ==
  ASSUME AnySchedules(schedules) PROVE RetentionIsLongEnough
<1> DEFINE Speaking == Repo!Governing(schedules, {"full", "incr"})
<1> SUFFICES ASSUME Cardinality(Speaking) = 1,
                    NEW i \in Speaking, NEW r \in schedules[i].retention, r.type = "time"
             PROVE  \E kept \in Repo!RetentionFull(schedules) :
                      /\ kept.type = "time"
                      /\ \A month \in 0 .. 11 : kept.value >= DaysOf(r, month)
  BY DEF RetentionIsLongEnough
<1>1. PICK n \in Nat : DOMAIN schedules = 1 .. n /\ Speaking \subseteq 1 .. n
  BY DEF Repo!Governing, AnySchedules
<1>2. Speaking = {i}
  <2>1. IsFiniteSet(Speaking)
    <3> HIDE DEF Speaking
    <3>1. IsFiniteSet(1 .. n)
      BY <1>1, FS_Interval
    <3> QED BY <1>1, <3>1, FS_Subset
  <2> HIDE DEF Speaking
  <2> QED BY <2>1, FS_Singleton
<1>3. r \in AnyRetention
  <2>1. schedules[i].retention \in {{}} \cup {{x} : x \in AnyRetention}
    BY <1>1 DEF AnySchedules
  <2> QED BY <2>1
<1> DEFINE kept == Repo!pgBackRestRetention(r)
<1>4. kept \in Repo!RetentionFull(schedules)
  <2>1. Repo!Last(schedules, Speaking) = {schedules[i]}
    <3> HIDE DEF Speaking
    <3> QED BY <1>1, <1>2, LastOfOne
  <2>2. r \in UNION {s.retention : s \in {schedules[i]}}
    OBVIOUS
  <2> QED BY <2>1, <2>2 DEF Repo!RetentionFull
<1>5. kept.type = "time" /\ kept.value = r.n * Repo!daysPerRetentionUnit(r.unit)
  BY DEF Repo!pgBackRestRetention
<1>6. ASSUME NEW month \in 0 .. 11 PROVE kept.value >= DaysOf(r, month)
  <2> HIDE DEF kept
  <2>1. CASE r.unit = "m"
    <3>1. r.n \in Nat
      BY <1>3 DEF AnyRetention
    <3>2. kept.value = 31 * r.n
      BY <1>5, <2>1, <3>1 DEF Repo!daysPerRetentionUnit
    <3>3. DaysOf(r, month) <= 31 * r.n
      BY <2>1, <3>1, MonthsFit DEF DaysOf
    <3>4. DaysOf(r, month) \in Int
      <4>1. \A k \in Nat : DaysBefore(k) \in Int
        <5> TAKE k \in Nat
        <5>1. k \div 12 \in Nat /\ k % 12 \in 0 .. 11
          OBVIOUS
        <5>2. \A j \in 0 .. 11 : j \in {0, 1, 2, 3, 4, 5, 6, 7, 8, 9, 10, 11}
          OBVIOUS
        <5>3. \A j \in 0 .. 11 : FirstDays[1 + j] \in Int
          BY <5>2 DEF FirstDays
        <5> QED BY <5>1, <5>3 DEF DaysBefore
      <4> QED BY <2>1, <3>1, <4>1 DEF DaysOf
    <3> QED BY <3>1, <3>2, <3>3, <3>4
  <2>2. CASE r.unit # "m"
    BY <1>3, <1>5, <2>2 DEF AnyRetention, Repo!daysPerRetentionUnit, DaysOf
  <2> QED BY <2>1, <2>2
<1> QED BY <1>4, <1>5, <1>6

(* The name of a job's backup gives back the kind of the job, for every    *)
(* cluster and repo.                                                       *)
LEMMA NameOfKind ==
  ASSUME NEW cluster, NEW repo, NEW kind
  PROVE  Repo!deriveScheduleName(Repo!GeneratedName(cluster, repo, kind), cluster, repo)
           = <<kind>>
<1> DEFINE name == Repo!GeneratedName(cluster, repo, kind)
<1>1. Len(name) = 4 /\ name[1] = cluster /\ name[2] = repo /\ name[3] = kind
  BY DEF Repo!GeneratedName
<1>2. SubSeq(name, 1, 2) = <<cluster, repo>>
  <2>1. SubSeq(name, 1, 2) = [j \in 1 .. 2 |-> name[j]]
    BY DEF Repo!GeneratedName
  <2>2. [j \in 1 .. 2 |-> name[j]] = <<name[1], name[2]>>
    OBVIOUS
  <2> QED BY <1>1, <2>1, <2>2
<1> HIDE DEF name
<1> QED BY <1>1, <1>2 DEF Repo!deriveScheduleName, name

(* No schedule is lost or swapped on the way to its job and back.          *)
LEMMA AnyScheduleIsMirrored ==
  ASSUME AnySchedules(schedules) PROVE MirroredUnderItsSchedule
<1> SUFFICES ASSUME Plain
             PROVE  UNION {{<<MirroredName(kind), cron>> :
                              cron \in Repo!buildPGBackRestSchedules(schedules, kind)} :
                           kind \in Repo!Kinds}
                      = {<<<<s.name>>, s.cron>> : s \in Enabled}
  BY DEF MirroredUnderItsSchedule
<1> DEFINE Jobs(kind) == Repo!buildPGBackRestSchedules(schedules, kind)
           On == {i \in DOMAIN schedules : schedules[i].enabled}
<1>1. \A kind : MirroredName(kind) = <<kind>>
  BY NameOfKind DEF MirroredName
<1>2. \A i \in On : /\ schedules[i].name \in Repo!Kinds
                    /\ Repo!KindOf(schedules[i]) = schedules[i].name
  BY DEF Plain, Repo!KindOf, Repo!ToLower, Repo!Kinds
<1>3. \A i \in On : Jobs(schedules[i].name) = {schedules[i].cron}
  <2> SUFFICES ASSUME NEW i \in On PROVE Jobs(schedules[i].name) = {schedules[i].cron}
    OBVIOUS
  <2>1. {j \in DOMAIN schedules :
           schedules[j].enabled /\ Repo!KindOf(schedules[j]) = schedules[i].name} = {i}
    BY <1>2 DEF Plain
  <2>2. i \in Int
    BY DEF AnySchedules
  <2>3. Jobs(schedules[i].name) = {s.cron : s \in {schedules[i]}}
    BY <2>1, <2>2, LastOfOne DEF Repo!buildPGBackRestSchedules
  <2> QED BY <2>3
<1>4. \A kind : (\A i \in On : schedules[i].name # kind) => Jobs(kind) = {}
  <2> SUFFICES ASSUME NEW kind, \A i \in On : schedules[i].name # kind
               PROVE  Jobs(kind) = {}
    OBVIOUS
  <2>1. {j \in DOMAIN schedules :
           schedules[j].enabled /\ Repo!KindOf(schedules[j]) = kind} = {}
    BY <1>2
  <2> QED BY <2>1 DEF Repo!buildPGBackRestSchedules, Repo!Last
<1> HIDE DEF Jobs
<1>5. \A x : (\E kind \in Repo!Kinds : \E cron \in Jobs(kind) : x = <<<<kind>>, cron>>)
         <=> (\E i \in On : x = <<<<schedules[i].name>>, schedules[i].cron>>)
  <2> TAKE x
  <2>1. ASSUME NEW kind \in Repo!Kinds, NEW cron \in Jobs(kind), x = <<<<kind>>, cron>>
        PROVE  \E i \in On : x = <<<<schedules[i].name>>, schedules[i].cron>>
    <3>1. PICK i \in On : schedules[i].name = kind
      BY <1>4, <2>1
    <3>2. cron = schedules[i].cron
      BY <1>3, <2>1, <3>1
    <3> QED BY <2>1, <3>1, <3>2
  <2>2. ASSUME NEW i \in On, x = <<<<schedules[i].name>>, schedules[i].cron>>
        PROVE  \E kind \in Repo!Kinds : \E cron \in Jobs(kind) : x = <<<<kind>>, cron>>
    BY <1>2, <1>3, <2>2
  <2> QED BY <2>1, <2>2
<1>6. {<<<<s.name>>, s.cron>> : s \in Enabled}
        = {<<<<schedules[i].name>>, schedules[i].cron>> : i \in On}
  BY DEF Enabled
<1>7. UNION {{<<MirroredName(kind), cron>> : cron \in Jobs(kind)} : kind \in Repo!Kinds}
        = UNION {{<<<<kind>>, cron>> : cron \in Jobs(kind)} : kind \in Repo!Kinds}
  BY <1>1
<1> HIDE DEF On
<1> QED BY <1>5, <1>6, <1>7 DEF Jobs

-----------------------------------------------------------------------------
(* The inputs stay what they are, and the slots are an annotation.         *)

Inputs ==
  /\ storages \in Seq(Storage)
  /\ AnySchedules(schedules)

LEMMA ListsAreSequences == Lists \subseteq Seq(Storage)
BY DEF Lists

LEMMA InputsHold == Spec => []Inputs
<1>1. Init => Inputs
  <2>1. \A s \in Schedules : s.retention \in {{}} \cup {{r} : r \in AnyRetention}
    <3>1. /\ [type |-> "count", n |-> 1, unit |-> "d"] \in AnyRetention
          /\ \A n \in {1, 12}, u \in {"w", "m"} :
               [type |-> "time", n |-> n, unit |-> u] \in AnyRetention
      BY DEF AnyRetention
    <3> QED BY <3>1 DEF Schedules, Retentions
  <2>2. \A list \in ScheduleLists : AnySchedules(list)
    BY <2>1 DEF ScheduleLists, AnySchedules
  <2>3. AnySchedules(<<>>) /\ <<>> \in Seq(Storage)
    BY DEF AnySchedules
  <2> QED BY <2>2, <2>3, ListsAreSequences DEF Init, Inputs
<1>2. Inputs /\ [Reconcile]_vars => Inputs'
  BY DEF Inputs, Reconcile, vars
<1> QED BY <1>1, <1>2, PTL DEF Spec

(* The closed form of reconcileRepoSlotMap is its loop.                    *)
THEOREM ClosedFormIsTheLoop == Spec => []SameAsLoop
<1>1. Inputs => SameAsLoop
  BY LoopIsReconcile DEF Inputs, SameAsLoop
<1> QED BY <1>1, InputsHold, PTL

(* A storage is left without a slot only when every slot is taken, and no  *)
(* two storages come to share one.                                         *)
THEOREM SlotsAreUsedUp == Spec => []LeftOutOnlyWhenFull
<1>1. Inputs => LeftOutOnlyWhenFull
  <2> SUFFICES ASSUME Inputs PROVE LeftOutOnlyWhenFull
    OBVIOUS
  <2> DEFINE m == reconcileRepoSlotMap(slotMap, storages)
  <2>1. \A s \in DOMAIN m : m[s] \in Slots
    BY ReconcileType DEF Inputs, SlotMaps
  <2>2. ToSet(storages) # DOMAIN m => \A k \in Slots : \E s \in DOMAIN m : m[s] = k
    BY ReconcileFull DEF Inputs
  <2>3. IsInjective(slotMap) => IsInjective(m)
    BY ReconcileInjective DEF Inputs
  <2> HIDE DEF m
  <2> QED BY <2>1, <2>2, <2>3 DEF LeftOutOnlyWhenFull, m
<1> QED BY <1>1, InputsHold, PTL

(* Once stored, the slots stay with the storages in whatever order they    *)
(* are listed.                                                             *)
THEOREM SlotsIgnoreTheOrder == Spec => ReorderingMovesNothing
<1> DEFINE Moves == \A list \in Lists :
                      ToSet(list) = ToSet(storages)
                        => reconcileRepoSlotMap(slotMap', list) = slotMap'
<1>1. Inputs /\ [Reconcile]_vars => [Moves]_vars
  <2> SUFFICES ASSUME Inputs, Reconcile PROVE Moves
    BY DEF vars
  <2>1. storages \in Seq(Storage) /\ slotMap' = reconcileRepoSlotMap(slotMap, storages)
    BY DEF Inputs, Reconcile
  <2> QED BY <2>1, ReconcileStable, ListsAreSequences
<1> QED BY <1>1, InputsHold, PTL DEF Spec, ReorderingMovesNothing

(* Each schedule's backups are made at its times and mirrored under its    *)
(* name.                                                                   *)
THEOREM BackupsComeUnderTheirSchedules == Spec => []MirroredUnderItsSchedule
<1>1. Inputs => MirroredUnderItsSchedule
  BY AnyScheduleIsMirrored DEF Inputs
<1> QED BY <1>1, InputsHold, PTL

(* A backup is kept as long as its schedule says.                          *)
THEOREM BackupsAreKeptLongEnough == Spec => []RetentionIsLongEnough
<1>1. Inputs => RetentionIsLongEnough
  BY AnyRetentionIsLongEnough DEF Inputs
<1> QED BY <1>1, InputsHold, PTL


=============================================================================
