------------------------------ MODULE RepoSlots ------------------------------
(***************************************************************************)
(* The repo slots of one PerconaPGCluster.  pgBackRest knows its           *)
(* repositories as repo1..repo4; the provider gives every backup storage   *)
(* of an Instance one of these slots and keeps the assignment in an        *)
(* annotation of the cluster.  This module holds the pure functions of     *)
(* backup_mirror.go and backup.go that compute and read the assignment;    *)
(* BackupRepos uses them in the state machine.                             *)
(*                                                                         *)
(* The Go loops are given in closed form, so that theorems about them need *)
(* no induction.  MCRepoSlots checks the closed form against the loop.     *)
(***************************************************************************)
EXTENDS Integers, FiniteSets, Sequences, SequencesExt

CONSTANTS
  Storage,   \* names of BackupStorage resources
  MaxRepos   \* maxPGBackRestRepos: 4 in the code

ASSUME MaxReposAssumption == MaxRepos \in Nat \ {0}

-----------------------------------------------------------------------------
(* A repoSlotMap is a partial function from names to slots, 0-based like   *)
(* the Go map's values.  The nil map and the empty one read alike.         *)

Slots == 0 .. (MaxRepos - 1)

SlotMaps == UNION {[D -> Slots] : D \in SUBSET Storage}

NoSlotMap == [s \in {} |-> 0]

(* The part of an existing map that survives: names still listed, with a   *)
(* slot in range (a hand-edited annotation may hold any integer).          *)
Kept(existing, storages) ==
  {s \in DOMAIN existing : s \in ToSet(storages) /\ existing[s] \in Slots}

New(existing, storages) == ToSet(storages) \ Kept(existing, storages)

Free(existing, storages) ==
  Slots \ {existing[s] : s \in Kept(existing, storages)}

(* s is met before t when the list is walked from its front.               *)
Precedes(storages, s, t) ==
  \E i \in DOMAIN storages :
    storages[i] = s /\ \A j \in 1 .. i : storages[j] # t

(* The new names met before s, and the free slots below k: a new name      *)
(* takes the free slot that has as many free slots below it as there are   *)
(* new names before it.                                                    *)
NewBefore(existing, storages, s) ==
  {t \in New(existing, storages) : Precedes(storages, t, s)}

FreeBelow(existing, storages, k) ==
  {f \in Free(existing, storages) : f < k}

Takes(existing, storages, s, k) ==
  /\ s \in New(existing, storages)
  /\ k \in Free(existing, storages)
  /\ Cardinality(FreeBelow(existing, storages, k))
       = Cardinality(NewBefore(existing, storages, s))

(* Deliberate faults of reconcileRepoSlotMap, never used by the            *)
(* specification: it forgets the existing slots; it keeps them but ignores *)
(* that they are occupied; it counts slots from 1, like the repo names.    *)
RepackedSlotMap(existing, storages) ==
  [s \in {n \in ToSet(storages) : \E k \in Slots : Takes(NoSlotMap, storages, n, k)} |->
     CHOOSE k \in Slots : Takes(NoSlotMap, storages, s, k)]

OverlappingSlotMap(existing, storages) ==
  LET kept == Kept(existing, storages)
  IN  [s \in kept \cup {n \in ToSet(storages) :
                          \E k \in Slots : Takes(NoSlotMap, storages, n, k)} |->
         IF s \in kept THEN existing[s]
         ELSE CHOOSE k \in Slots : Takes(NoSlotMap, storages, s, k)]

OneBasedSlotMap(existing, storages) ==
  LET m == RepackedSlotMap(existing, storages)
  IN  [s \in DOMAIN m |-> m[s] + 1]

(* reconcileRepoSlotMap: listed names keep their slots, names no longer    *)
(* listed are evicted, new names get the lowest free slots in list order,  *)
(* and a name for which no slot is left gets none.                         *)
reconcileRepoSlotMap(existing, storages) ==
  LET kept   == Kept(existing, storages)
      placed == {n \in New(existing, storages) :
                   \E k \in Slots : Takes(existing, storages, n, k)}
  IN  [s \in kept \cup placed |->
         IF s \in kept THEN existing[s]
         ELSE CHOOSE k \in Slots : Takes(existing, storages, s, k)]

-----------------------------------------------------------------------------
(* The repo list that applyBackupSettings builds from a slot map: the      *)
(* storage behind each repo, NoStorage where no repo is configured.        *)

CONSTANT NoStorage

ASSUME NoStorageAssumption == NoStorage \notin Storage

Repos == [Slots -> Storage \cup {NoStorage}]

NoRepos == [k \in Slots |-> NoStorage]

ReposOf(slotMap) ==
  [k \in Slots |->
     IF \E s \in DOMAIN slotMap : slotMap[s] = k
     THEN CHOOSE s \in DOMAIN slotMap : slotMap[s] = k
     ELSE NoStorage]

hasRepo(repos, k) == repos[k] # NoStorage

=============================================================================
