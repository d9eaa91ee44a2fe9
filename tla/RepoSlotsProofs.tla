-------------------------- MODULE RepoSlotsProofs --------------------------
(***************************************************************************)
(* What reconcileRepoSlotMap promises, for every annotation, every list    *)
(* and every number of slots.                                              *)
(***************************************************************************)
EXTENDS RepoSlots, TLAPS, FiniteSetTheorems, WellFoundedInduction

-----------------------------------------------------------------------------
(* The order of first occurrences in a list.                               *)

LEMMA LeastIndex ==
  ASSUME NEW I \in SUBSET Nat, I # {}
  PROVE  \E i \in I : \A j \in I : i <= j
<1>1. \E i \in I : \A j \in I : ~ (<<j, i>> \in OpToRel(<, Nat))
  BY NatLessThanWellFounded, WFMin
<1>2. \A i, j \in Nat : <<j, i>> \in OpToRel(<, Nat) <=> j < i
  BY DEF OpToRel
<1>3. PICK i \in I : \A j \in I : ~ (j < i)
  BY <1>1, <1>2
<1>4. \A j \in I : i <= j
  BY <1>3
<1> QED
  BY <1>4

(* Of two different names in a list one is met before the other.           *)
LEMMA PrecedesTotal ==
  ASSUME NEW list \in Seq(Storage), NEW s \in ToSet(list), NEW t \in ToSet(list), s # t
  PROVE  Precedes(list, s, t) \/ Precedes(list, t, s)
<1> DEFINE I == {i \in DOMAIN list : list[i] \in {s, t}}
<1>1. I \in SUBSET Nat /\ I # {}
  BY DEF ToSet
<1>2. PICK i \in I : \A j \in I : i <= j
  BY <1>1, LeastIndex
<1>3. \A j \in 1 .. i : j \in I => j = i
  BY <1>1, <1>2
<1>4. CASE list[i] = s
  BY <1>3, <1>4 DEF Precedes
<1>5. CASE list[i] = t
  BY <1>3, <1>5 DEF Precedes
<1> QED
  BY <1>2, <1>4, <1>5

LEMMA PrecedesTransitive ==
  ASSUME NEW list \in Seq(Storage), NEW r, NEW s, NEW t,
         Precedes(list, r, s), Precedes(list, s, t)
  PROVE  Precedes(list, r, t)
<1>1. PICK i \in DOMAIN list : list[i] = r /\ \A j \in 1 .. i : list[j] # s
  BY DEF Precedes
<1>2. PICK k \in DOMAIN list : list[k] = s /\ \A j \in 1 .. k : list[j] # t
  BY DEF Precedes
<1>3. i < k
  BY <1>1, <1>2
<1> QED
  BY <1>1, <1>2, <1>3 DEF Precedes

LEMMA PrecedesIrreflexive ==
  ASSUME NEW list \in Seq(Storage), NEW s
  PROVE  ~ Precedes(list, s, s)
BY DEF Precedes

-----------------------------------------------------------------------------
(* The new names before a name are ranked: of two new names the one met    *)
(* first has fewer before it.                                              *)

LEMMA NewBeforeFinite ==
  ASSUME NEW existing, NEW list \in Seq(Storage), NEW s
  PROVE  IsFiniteSet(NewBefore(existing, list, s))
<1>1. IsFiniteSet(ToSet(list))
  <2>1. IsFiniteSet(DOMAIN list)
    BY FS_Interval
  <2>2. list \in Surjection(DOMAIN list, ToSet(list))
    BY DEF ToSet, Surjection
  <2> QED
    BY <2>1, <2>2, FS_Surjection
<1>2. NewBefore(existing, list, s) \subseteq ToSet(list)
  BY DEF NewBefore, New
<1> QED
  BY <1>1, <1>2, FS_Subset

LEMMA RankStrict ==
  ASSUME NEW existing, NEW list \in Seq(Storage),
         NEW s \in New(existing, list), NEW t \in New(existing, list),
         Precedes(list, s, t)
  PROVE  Cardinality(NewBefore(existing, list, s)) # Cardinality(NewBefore(existing, list, t))
<1> DEFINE S == NewBefore(existing, list, s)
           T == NewBefore(existing, list, t)
<1>1. S \subseteq T
  BY PrecedesTransitive DEF NewBefore
<1>2. s \in T /\ s \notin S
  BY PrecedesIrreflexive DEF NewBefore
<1>3. IsFiniteSet(T)
  BY NewBeforeFinite
<1> QED
  BY <1>1, <1>2, <1>3, FS_Subset

-----------------------------------------------------------------------------
(* The type of the result: a slot map of listed names only.                *)
LEMMA ReconcileType ==
  ASSUME NEW existing, NEW list \in Seq(Storage)
  PROVE  /\ reconcileRepoSlotMap(existing, list) \in SlotMaps
         /\ DOMAIN reconcileRepoSlotMap(existing, list) \subseteq ToSet(list)
<1> DEFINE m == reconcileRepoSlotMap(existing, list)
<1>1. DOMAIN m \subseteq ToSet(list)
  BY DEF reconcileRepoSlotMap, Kept, New
<1>2. ToSet(list) \subseteq Storage
  BY DEF ToSet
<1>3. ASSUME NEW s \in DOMAIN m
      PROVE  m[s] \in Slots
  <2>1. CASE s \in Kept(existing, list)
    BY <2>1 DEF reconcileRepoSlotMap, Kept
  <2>2. CASE s \notin Kept(existing, list)
    <3>1. \E k \in Slots : Takes(existing, list, s, k)
      BY <2>2, <1>3 DEF reconcileRepoSlotMap
    <3>2. m[s] = CHOOSE k \in Slots : Takes(existing, list, s, k)
      BY <2>2, <1>3 DEF reconcileRepoSlotMap
    <3> QED
      BY <3>1, <3>2
  <2> QED
    BY <2>1, <2>2
<1>4. m \in [DOMAIN m -> Slots]
  BY <1>3 DEF reconcileRepoSlotMap
<1> QED
  BY <1>1, <1>2, <1>4 DEF SlotMaps

(* A storage that stays listed stays where it is: "existing storages keep  *)
(* their previously assigned slots" (backup_mirror.go).                    *)
THEOREM ReconcileKeeps ==
  ASSUME NEW existing \in SlotMaps, NEW list \in Seq(Storage),
         NEW s \in DOMAIN existing \cap ToSet(list)
  PROVE  /\ s \in DOMAIN reconcileRepoSlotMap(existing, list)
         /\ reconcileRepoSlotMap(existing, list)[s] = existing[s]
<1>1. s \in Kept(existing, list)
  BY DEF Kept, SlotMaps
<1> QED
  BY <1>1 DEF reconcileRepoSlotMap

(* A new name that is placed takes its slot, and takes it alone.           *)
LEMMA PlacedTakes ==
  ASSUME NEW existing, NEW list, NEW s \in DOMAIN reconcileRepoSlotMap(existing, list),
         s \notin Kept(existing, list)
  PROVE  Takes(existing, list, s, reconcileRepoSlotMap(existing, list)[s])
<1>1. \E k \in Slots : Takes(existing, list, s, k)
  BY DEF reconcileRepoSlotMap
<1>2. reconcileRepoSlotMap(existing, list)[s]
        = CHOOSE k \in Slots : Takes(existing, list, s, k)
  BY DEF reconcileRepoSlotMap
<1> QED BY <1>1, <1>2

LEMMA TakenByOne ==
  ASSUME NEW existing, NEW list \in Seq(Storage), NEW s, NEW t, NEW k,
         Takes(existing, list, s, k), Takes(existing, list, t, k)
  PROVE  s = t
<1> SUFFICES ASSUME s # t PROVE FALSE
  OBVIOUS
<1>1. s \in New(existing, list) /\ t \in New(existing, list)
  BY DEF Takes
<1>2. Cardinality(NewBefore(existing, list, s)) = Cardinality(NewBefore(existing, list, t))
  BY DEF Takes
<1>3. s \in ToSet(list) /\ t \in ToSet(list)
  BY <1>1 DEF New
<1>4. Precedes(list, s, t) \/ Precedes(list, t, s)
  BY <1>3, PrecedesTotal
<1> QED BY <1>1, <1>2, <1>4, RankStrict

(* Two storages never share a slot, if none did before.                    *)
THEOREM ReconcileInjective ==
  ASSUME NEW existing, NEW list \in Seq(Storage), IsInjective(existing)
  PROVE  IsInjective(reconcileRepoSlotMap(existing, list))
<1> DEFINE m == reconcileRepoSlotMap(existing, list)
           kept == Kept(existing, list)
<1>1. \A s \in kept : s \in DOMAIN m /\ m[s] = existing[s]
  BY DEF reconcileRepoSlotMap
<1>2. \A s \in DOMAIN m : s \notin kept => Takes(existing, list, s, m[s])
  BY PlacedTakes
<1> HIDE DEF m
<1>3. SUFFICES ASSUME NEW s \in DOMAIN m, NEW t \in DOMAIN m, m[s] = m[t], s # t
               PROVE  FALSE
  BY DEF IsInjective, m
<1>4. CASE s \in kept /\ t \in kept
  BY <1>1, <1>3, <1>4 DEF IsInjective, Kept
<1>5. CASE s \in kept /\ t \notin kept
  BY <1>1, <1>2, <1>3, <1>5 DEF Takes, Free
<1>6. CASE s \notin kept /\ t \in kept
  BY <1>1, <1>2, <1>3, <1>6 DEF Takes, Free
<1>7. CASE s \notin kept /\ t \notin kept
  BY <1>2, <1>3, <1>7, TakenByOne
<1> QED
  BY <1>4, <1>5, <1>6, <1>7

-----------------------------------------------------------------------------
(* Counting through a list: what reconcileRepoSlotMap leaves out, it has   *)
(* no slot for.                                                            *)

(* A set built up from nothing, one element at a time, ...                 *)
Grows(g, N) ==
  /\ g[0] = {} /\ \A i \in 0 .. N : IsFiniteSet(g[i])
  /\ \A i \in 1 .. N :
       g[i] # g[i - 1] => \E x : x \notin g[i - 1] /\ g[i] = g[i - 1] \cup {x}

(* ... has every size up to its last on the way.                           *)
LEMMA EverySizeOnTheWay ==
  ASSUME NEW N \in Nat, NEW g, Grows(g, N), NEW n \in Nat, n < Cardinality(g[N])
  PROVE  \E i \in 1 .. N : g[i] # g[i - 1] /\ Cardinality(g[i - 1]) = n
<1> DEFINE I == {i \in 0 .. N : n < Cardinality(g[i])}
<1>1. I \in SUBSET Nat /\ I # {}
  OBVIOUS
<1>2. PICK i \in I : \A j \in I : i <= j
  <2> HIDE DEF I
  <2> QED BY <1>1, LeastIndex
<1>3. i # 0
  BY <1>2, FS_EmptySet DEF Grows
<1>4. i \in 1 .. N /\ i - 1 \in 0 .. N /\ i - 1 \notin I
  BY <1>2, <1>3
<1>5. Cardinality(g[i - 1]) \in Nat /\ Cardinality(g[i - 1]) <= n
  BY <1>4, FS_CardinalityType DEF Grows
<1>6. n < Cardinality(g[i])
  BY <1>2
<1>7. PICK x : x \notin g[i - 1] /\ g[i] = g[i - 1] \cup {x}
  BY <1>4, <1>5, <1>6 DEF Grows
<1>8. Cardinality(g[i]) = Cardinality(g[i - 1]) + 1
  BY <1>4, <1>7, FS_AddElement DEF Grows
<1> QED BY <1>4, <1>5, <1>6, <1>7, <1>8

(* The new names among the first i of a list.                              *)
Met(existing, list, i) ==
  {t \in New(existing, list) : \E j \in 1 .. i : list[j] = t}

(* The names before s are those met before its first place.                *)
LEMMA FirstPlace ==
  ASSUME NEW existing, NEW list \in Seq(Storage), NEW s \in ToSet(list)
  PROVE  \E p \in DOMAIN list :
           /\ list[p] = s /\ \A j \in 1 .. (p - 1) : list[j] # s
           /\ NewBefore(existing, list, s) = Met(existing, list, p - 1)
<1> DEFINE I == {i \in DOMAIN list : list[i] = s}
<1>1. I \in SUBSET Nat /\ I # {}
  BY DEF ToSet
<1>2. PICK p \in I : \A j \in I : p <= j
  <2> HIDE DEF I
  <2> QED BY <1>1, LeastIndex
<1>3. p \in 1 .. Len(list) /\ list[p] = s /\ \A j \in 1 .. (p - 1) : list[j] # s
  BY <1>2
<1>4. ASSUME NEW t
      PROVE  Precedes(list, t, s) <=> \E j \in 1 .. (p - 1) : list[j] = t
  <2>1. ASSUME NEW i \in DOMAIN list, list[i] = t, \A j \in 1 .. i : list[j] # s
        PROVE  i \in 1 .. (p - 1)
    BY <1>3, <2>1
  <2>2. ASSUME NEW j \in 1 .. (p - 1), list[j] = t
        PROVE  j \in DOMAIN list /\ \A l \in 1 .. j : list[l] # s
    BY <1>3, <2>2
  <2> QED BY <2>1, <2>2 DEF Precedes
<1> QED BY <1>3, <1>4 DEF NewBefore, Met

LEMMA MetFinite ==
  ASSUME NEW existing, NEW list \in Seq(Storage), NEW i
  PROVE  IsFiniteSet(Met(existing, list, i))
<1>1. IsFiniteSet(ToSet(list))
  <2>1. list \in Surjection(DOMAIN list, ToSet(list)) /\ IsFiniteSet(DOMAIN list)
    BY FS_Interval DEF ToSet, Surjection
  <2> QED BY <2>1, FS_Surjection
<1> QED BY <1>1, FS_Subset DEF Met, New

(* Of the new names before s one has n others before it.                   *)
LEMMA NameOfRank ==
  ASSUME NEW existing, NEW list \in Seq(Storage), NEW s \in ToSet(list), NEW n \in Nat,
         n < Cardinality(NewBefore(existing, list, s))
  PROVE  \E t \in NewBefore(existing, list, s) : Cardinality(NewBefore(existing, list, t)) = n
<1>1. PICK p \in DOMAIN list :
           /\ list[p] = s /\ \A j \in 1 .. (p - 1) : list[j] # s
           /\ NewBefore(existing, list, s) = Met(existing, list, p - 1)
  BY FirstPlace
<1> DEFINE N == p - 1
           g == [i \in 0 .. N |-> Met(existing, list, i)]
<1>2. N \in Nat /\ N < Len(list)
  BY <1>1
<1>3. \A i \in 0 .. N : IsFiniteSet(g[i])
  BY MetFinite
<1>4. g[0] = {}
  BY <1>2 DEF Met
<1>5. ASSUME NEW i \in 1 .. N, g[i] # g[i - 1]
      PROVE  list[i] \notin g[i - 1] /\ g[i] = g[i - 1] \cup {list[i]}
  <2>1. i - 1 \in 0 .. N /\ \A j : j \in 1 .. i <=> (j \in 1 .. (i - 1) \/ j = i)
    BY <1>2, <1>5
  <2> QED BY <1>5, <2>1 DEF Met
<1>6. n < Cardinality(g[N])
  BY <1>1, <1>2
<1>7. PICK i \in 1 .. N : g[i] # g[i - 1] /\ Cardinality(g[i - 1]) = n
  <2> HIDE DEF g, N
  <2>1. Grows(g, N)
    BY <1>3, <1>4, <1>5 DEF Grows
  <2> QED BY <1>2, <2>1, <1>6, EverySizeOnTheWay
<1>8. i \in DOMAIN list /\ i \in 0 .. N /\ i - 1 \in 0 .. N
  BY <1>2
<1> DEFINE t == list[i]
<1>9. t \in g[i] /\ t \notin g[i - 1]
  <2> HIDE DEF g, N
  <2> QED BY <1>5, <1>7
<1>10. t \in NewBefore(existing, list, s)
  <2>1. t \in New(existing, list) /\ \E j \in 1 .. N : list[j] = t
    BY <1>8, <1>9 DEF Met
  <2> QED BY <1>1, <2>1 DEF Met
<1>11. NewBefore(existing, list, t) = g[i - 1]
  <2>1. PICK q \in DOMAIN list :
           /\ list[q] = t /\ \A j \in 1 .. (q - 1) : list[j] # t
           /\ NewBefore(existing, list, t) = Met(existing, list, q - 1)
    <3>1. t \in ToSet(list)
      BY <1>8 DEF ToSet
    <3> HIDE DEF t
    <3> QED BY <3>1, FirstPlace
  <2>2. \A j \in 1 .. (i - 1) : list[j] # t
    BY <1>8, <1>9, <1>10 DEF Met, NewBefore
  <2>3. q = i
    BY <1>8, <2>1, <2>2
  <2> QED BY <1>8, <2>1, <2>3
<1> QED BY <1>7, <1>10, <1>11

(* The free slots are ranked, too.                                         *)
LEMMA FreeFinite ==
  ASSUME NEW existing, NEW list, NEW k
  PROVE  /\ IsFiniteSet(Free(existing, list)) /\ Cardinality(Free(existing, list)) \in Nat
         /\ IsFiniteSet(FreeBelow(existing, list, k))
         /\ Cardinality(FreeBelow(existing, list, k)) \in Nat
<1>1. IsFiniteSet(Slots)
  BY MaxReposAssumption, FS_Interval DEF Slots
<1>2. IsFiniteSet(Free(existing, list)) /\ IsFiniteSet(FreeBelow(existing, list, k))
  BY <1>1, FS_Subset DEF Free, FreeBelow
<1> QED BY <1>2, FS_CardinalityType

LEMMA SlotRankStrict ==
  ASSUME NEW existing, NEW list, NEW k \in Free(existing, list)
  PROVE  /\ Cardinality(FreeBelow(existing, list, k)) < Cardinality(Free(existing, list))
         /\ \A l \in Free(existing, list) : k < l =>
              Cardinality(FreeBelow(existing, list, k)) < Cardinality(FreeBelow(existing, list, l))
<1> DEFINE F == Free(existing, list)
           B(l) == FreeBelow(existing, list, l)
<1>1. F \subseteq Int
  BY MaxReposAssumption DEF Free, Slots
<1>2. B(k) \subseteq F /\ B(k) # F
  BY <1>1 DEF FreeBelow
<1>3. Cardinality(B(k)) < Cardinality(F)
  <2>1. Cardinality(B(k)) <= Cardinality(F) /\ Cardinality(B(k)) # Cardinality(F)
    BY <1>2, FreeFinite, FS_Subset
  <2> QED BY <2>1, FreeFinite
<1>4. ASSUME NEW l \in F, k < l
      PROVE  Cardinality(B(k)) < Cardinality(B(l))
  <2>1. B(k) \subseteq B(l) /\ k \in B(l) /\ k \notin B(k)
    BY <1>1, <1>4 DEF FreeBelow
  <2>2. Cardinality(B(k)) <= Cardinality(B(l)) /\ Cardinality(B(k)) # Cardinality(B(l))
    BY <2>1, FreeFinite, FS_Subset
  <2> QED BY <2>2, FreeFinite
<1> QED BY <1>3, <1>4

LEMMA SlotOfRank ==
  ASSUME NEW existing, NEW list, NEW n \in Nat, n < Cardinality(Free(existing, list))
  PROVE  \E k \in Free(existing, list) : Cardinality(FreeBelow(existing, list, k)) = n
<1> DEFINE F == Free(existing, list)
           g == [i \in 0 .. MaxRepos |-> {f \in F : f < i}]
<1>1. F \subseteq 0 .. (MaxRepos - 1) /\ MaxRepos \in Nat
  BY MaxReposAssumption DEF Free, Slots
<1>2. \A i \in 0 .. MaxRepos : g[i] = FreeBelow(existing, list, i) /\ IsFiniteSet(g[i])
  BY FreeFinite DEF FreeBelow
<1>3. g[0] = {} /\ g[MaxRepos] = F
  <2>1. \A f \in F : f < MaxRepos /\ ~(f < 0)
    BY <1>1
  <2>2. 0 \in 0 .. MaxRepos /\ MaxRepos \in 0 .. MaxRepos
    BY <1>1
  <2> QED BY <2>1, <2>2
<1>4. ASSUME NEW i \in 1 .. MaxRepos, g[i] # g[i - 1]
      PROVE  i - 1 \notin g[i - 1] /\ i - 1 \in F /\ g[i] = g[i - 1] \cup {i - 1}
  <2>1. i - 1 \in 0 .. MaxRepos /\ \A f \in F : f < i <=> (f < i - 1 \/ f = i - 1)
    BY <1>1
  <2>2. g[i] = {f \in F : f < i} /\ g[i - 1] = {f \in F : f < i - 1} /\ ~(i - 1 < i - 1)
    BY <2>1
  <2> QED BY <1>4, <2>1, <2>2
<1>5. PICK i \in 1 .. MaxRepos : g[i] # g[i - 1] /\ Cardinality(g[i - 1]) = n
  <2>1. n < Cardinality(g[MaxRepos])
    BY <1>3
  <2> HIDE DEF g, F
  <2>2. Grows(g, MaxRepos)
    BY <1>2, <1>3, <1>4 DEF Grows
  <2> QED BY <1>1, <2>1, <2>2, EverySizeOnTheWay
<1>6. i - 1 \in F /\ i - 1 \in 0 .. MaxRepos
  <2>1. i - 1 \in 0 .. MaxRepos
    BY <1>1
  <2> HIDE DEF g, F
  <2> QED BY <1>4, <1>5, <2>1
<1> QED BY <1>2, <1>5, <1>6

(* When a name gets no slot, names met before it have taken all free ones. *)
LEMMA LeftOutWhenTaken ==
  ASSUME NEW existing, NEW list \in Seq(Storage), NEW s \in New(existing, list),
         \A k \in Slots : ~Takes(existing, list, s, k)
  PROVE  \A k \in Free(existing, list) :
           \E t \in NewBefore(existing, list, s) : Takes(existing, list, t, k)
<1> DEFINE rank == Cardinality(NewBefore(existing, list, s))
<1>1. rank \in Nat /\ s \in ToSet(list)
  BY NewBeforeFinite, FS_CardinalityType DEF New
<1>2. ~(rank < Cardinality(Free(existing, list)))
  <2> SUFFICES ASSUME rank < Cardinality(Free(existing, list)) PROVE FALSE
    OBVIOUS
  <2>1. PICK k \in Free(existing, list) : Cardinality(FreeBelow(existing, list, k)) = rank
    BY <1>1, SlotOfRank
  <2> QED BY <2>1 DEF Takes, Free
<1> SUFFICES ASSUME NEW k \in Free(existing, list)
             PROVE  \E t \in NewBefore(existing, list, s) : Takes(existing, list, t, k)
  OBVIOUS
<1>3. /\ Cardinality(FreeBelow(existing, list, k)) < rank
      /\ Cardinality(FreeBelow(existing, list, k)) \in Nat
  BY <1>1, <1>2, FreeFinite, SlotRankStrict
<1>4. PICK t \in NewBefore(existing, list, s) :
        Cardinality(NewBefore(existing, list, t)) = Cardinality(FreeBelow(existing, list, k))
  BY <1>1, <1>3, NameOfRank
<1> QED BY <1>4 DEF Takes, NewBefore

(* A name takes one slot only, so the map says which.                      *)
LEMMA TakesOne ==
  ASSUME NEW existing, NEW list, NEW s, NEW k, NEW l,
         Takes(existing, list, s, k), Takes(existing, list, s, l)
  PROVE  k = l
<1>1. k \in Free(existing, list) /\ l \in Free(existing, list) /\ k \in Int /\ l \in Int
  BY MaxReposAssumption DEF Takes, Free, Slots
<1> QED BY <1>1, SlotRankStrict, FreeFinite DEF Takes

LEMMA PlacedWhereItTakes ==
  ASSUME NEW existing, NEW list, NEW s, NEW k, Takes(existing, list, s, k)
  PROVE  /\ s \in DOMAIN reconcileRepoSlotMap(existing, list)
         /\ reconcileRepoSlotMap(existing, list)[s] = k
<1>1. s \notin Kept(existing, list) /\ k \in Slots /\ s \in New(existing, list)
  BY DEF Takes, New, Free
<1>2. k = CHOOSE l \in Slots : Takes(existing, list, s, l)
  BY <1>1, TakesOne
<1> QED BY <1>1, <1>2 DEF reconcileRepoSlotMap

(* A listed name is left without a slot only when every slot is taken:     *)
(* "SlotAssignmentFailed" never hides a free repo (backup_mirror.go).      *)
THEOREM ReconcileFull ==
  ASSUME NEW existing, NEW list \in Seq(Storage),
         ToSet(list) # DOMAIN reconcileRepoSlotMap(existing, list)
  PROVE  \A k \in Slots : \E s \in DOMAIN reconcileRepoSlotMap(existing, list) :
           reconcileRepoSlotMap(existing, list)[s] = k
<1> DEFINE m == reconcileRepoSlotMap(existing, list)
<1>1. PICK s \in New(existing, list) : \A k \in Slots : ~Takes(existing, list, s, k)
  BY DEF reconcileRepoSlotMap, New, Kept
<1> SUFFICES ASSUME NEW k \in Slots PROVE \E t \in DOMAIN m : m[t] = k
  OBVIOUS
<1>2. CASE k \in Free(existing, list)
  <2>1. PICK t : Takes(existing, list, t, k)
    BY <1>1, <1>2, LeftOutWhenTaken
  <2> QED BY <2>1, PlacedWhereItTakes
<1>3. CASE k \notin Free(existing, list)
  BY <1>3 DEF Free, reconcileRepoSlotMap
<1> QED BY <1>2, <1>3

(* As many storages as there are slots all get one.                        *)
THEOREM ReconcileTotal ==
  ASSUME NEW existing, NEW list \in Seq(Storage), Len(list) <= MaxRepos
  PROVE  DOMAIN reconcileRepoSlotMap(existing, list) = ToSet(list)
<1> DEFINE m == reconcileRepoSlotMap(existing, list)
<1>1. DOMAIN m \subseteq ToSet(list)
  BY DEF reconcileRepoSlotMap, Kept, New
<1>2. SUFFICES ASSUME ToSet(list) # DOMAIN m PROVE FALSE
  OBVIOUS
<1>3. IsFiniteSet(ToSet(list)) /\ Cardinality(ToSet(list)) <= Len(list)
  <2>1. list \in Surjection(DOMAIN list, ToSet(list)) /\ DOMAIN list = 1 .. Len(list)
    BY DEF ToSet, Surjection
  <2>2. IsFiniteSet(1 .. Len(list)) /\ Cardinality(1 .. Len(list)) = Len(list)
    BY FS_Interval
  <2> QED BY <2>1, <2>2, FS_Surjection
<1>4. IsFiniteSet(DOMAIN m) /\ Cardinality(DOMAIN m) < Cardinality(ToSet(list))
  <2>1. /\ IsFiniteSet(DOMAIN m) /\ Cardinality(DOMAIN m) <= Cardinality(ToSet(list))
        /\ Cardinality(DOMAIN m) # Cardinality(ToSet(list))
    BY <1>1, <1>2, <1>3, FS_Subset
  <2> QED BY <1>3, <2>1, FS_CardinalityType
<1>5. Cardinality(Slots) = MaxRepos
  BY MaxReposAssumption, FS_Interval DEF Slots
<1> DEFINE onSlots == [s \in {t \in DOMAIN m : m[t] \in Slots} |-> m[s]]
<1>6. onSlots \in Surjection(DOMAIN onSlots, Slots)
  BY <1>2, ReconcileFull DEF Surjection
<1>7. IsFiniteSet(DOMAIN onSlots) /\ Cardinality(DOMAIN onSlots) <= Cardinality(DOMAIN m)
  BY <1>4, FS_Subset
<1>8. Cardinality(Slots) <= Cardinality(DOMAIN onSlots)
  BY <1>6, <1>7, FS_Surjection
<1> QED
  <2>1. /\ Cardinality(DOMAIN m) \in Nat /\ Cardinality(DOMAIN onSlots) \in Nat
        /\ Cardinality(ToSet(list)) \in Nat
    BY <1>3, <1>4, <1>7, FS_CardinalityType
  <2> QED BY <1>3, <1>4, <1>5, <1>7, <1>8, <2>1, MaxReposAssumption

(* Once an assignment is stored, reconciling it again with the same names  *)
(* changes nothing, whatever their order.                                  *)
THEOREM ReconcileStable ==
  ASSUME NEW existing, NEW list \in Seq(Storage), NEW other \in Seq(Storage),
         ToSet(other) = ToSet(list)
  PROVE  reconcileRepoSlotMap(reconcileRepoSlotMap(existing, list), other)
           = reconcileRepoSlotMap(existing, list)
<1> DEFINE m == reconcileRepoSlotMap(existing, list)
<1>1. m \in SlotMaps /\ DOMAIN m \subseteq ToSet(other) /\ \A s \in DOMAIN m : m[s] \in Slots
  BY ReconcileType DEF SlotMaps
<1>2. m = [s \in DOMAIN m |-> m[s]]
  BY DEF reconcileRepoSlotMap
<1>3. DOMAIN m # ToSet(other) => \A k \in Slots : \E s \in DOMAIN m : m[s] = k
  BY ReconcileFull
<1> HIDE DEF m
<1>4. Kept(m, other) = DOMAIN m
  BY <1>1 DEF Kept
<1>5. \A s, k : ~Takes(m, other, s, k)
  <2>1. New(m, other) = ToSet(other) \ DOMAIN m
    BY <1>4 DEF New
  <2>2. CASE DOMAIN m = ToSet(other)
    BY <2>1, <2>2 DEF Takes
  <2>3. CASE DOMAIN m # ToSet(other)
    BY <1>3, <1>4, <2>3 DEF Takes, Free
  <2> QED BY <2>2, <2>3
<1>6. reconcileRepoSlotMap(m, other) = [s \in DOMAIN m |-> m[s]]
  BY <1>4, <1>5 DEF reconcileRepoSlotMap
<1> QED BY <1>2, <1>6 DEF m

=============================================================================
