------------------------- MODULE BackupReposProofs -------------------------
(***************************************************************************)
(* Type correctness, agreement of slot map and repos, and stickiness of    *)
(* the slots of BackupRepos, for all sets of storages and Backups, every   *)
(* number of slots and every bound.                                        *)
(***************************************************************************)
EXTENDS BackupRepos, RepoSlotsProofs

USE MaxReposAssumption

-----------------------------------------------------------------------------
(* Values.                                                                 *)

LEMMA FunctionIsSeq ==
  ASSUME NEW n \in Nat, NEW S, NEW f \in [1 .. n -> S]
  PROVE  f \in Seq(S)
OBVIOUS

LEMMA SublistsType ==
  ASSUME NEW list \in Seq(Storage), NEW names, NEW k \in Sublists(list, names)
  PROVE  k \in Seq(Storage)
<1> DEFINE S == names \cap ToSet(list)
<1>1. IsFiniteSet(S) /\ S \subseteq Storage
  <2>1. list \in Surjection(DOMAIN list, ToSet(list)) /\ ToSet(list) \subseteq Storage
    BY DEF ToSet, Surjection
  <2>2. IsFiniteSet(ToSet(list))
    BY <2>1, FS_Interval, FS_Surjection
  <2> QED
    BY <2>1, <2>2, FS_Subset
<1>2. Cardinality(S) \in Nat
  BY <1>1, FS_CardinalityType
<1>3. k \in [1 .. Cardinality(S) -> Storage]
  BY <1>1 DEF Sublists
<1> QED
  BY <1>2, <1>3, FunctionIsSeq

LEMMA ReposOfType ==
  ASSUME NEW m \in SlotMaps
  PROVE  ReposOf(m) \in Repos
BY DEF ReposOf, Repos, SlotMaps

LEMMA ReposOfAgree ==
  ASSUME NEW m \in SlotMaps, IsInjective(m), NEW c \in Clusters,
         c.slotMap = m, c.repos = ReposOf(m)
  PROVE  Agree(c)
<1>1. \A s \in DOMAIN m : m[s] \in Slots /\ s \in Storage
  BY DEF SlotMaps
<1>2. \A k \in Slots : \A s \in DOMAIN m : m[s] = k => c.repos[k] = s
  BY DEF IsInjective, ReposOf
<1>3. \A k \in Slots : hasRepo(c.repos, k) => \E s \in DOMAIN m : m[s] = k
  BY DEF hasRepo, ReposOf
<1> QED
  BY <1>1, <1>2, <1>3 DEF Agree

LEMMA AgreeInjective ==
  ASSUME NEW c \in Clusters, Agree(c)
  PROVE  IsInjective(c.slotMap)
BY DEF Agree, IsInjective

LEMMA ConstantTypes ==
  /\ NilSpec \in BackupSpecs
  /\ NoSlotMap \in SlotMaps
  /\ NoRepos \in Repos
  /\ NoCluster \in Clusters /\ Agree(NoCluster)
  /\ 0 \in Slots
<1>1. NilSpec \in BackupSpecs
  BY DEF NilSpec, BackupSpecs
<1>2. NoSlotMap \in SlotMaps /\ NoRepos \in Repos /\ 0 \in Slots
  BY DEF NoSlotMap, SlotMaps, NoRepos, Repos, Slots
<1>3. NoCluster \in Clusters
  BY <1>2 DEF NoCluster, Clusters
<1>4. Agree(NoCluster)
  BY DEF Agree, NoCluster, NoSlotMap, NoRepos, hasRepo
<1> QED
  BY <1>1, <1>2, <1>3, <1>4

-----------------------------------------------------------------------------
(* Type correctness.                                                       *)

SyncType ==
  [pc : {"idle", "list", "prune", "settings", "restores", "apply"},
   inst : BackupSpecs, kept : Seq(Storage), desired : Clusters,
   broken : BOOLEAN,
   outcome : {"none", "error", "skipped", "configError", "applied"}]

LEMMA SyncIdleType ==
  ASSUME NEW o \in {"none", "error", "skipped", "configError", "applied"}
  PROVE  SyncIdle(o) \in SyncType
BY ConstantTypes DEF SyncIdle, SyncType

LEMMA InitType == Init => TypeOK
<1> SUFFICES ASSUME Init PROVE TypeOK
  OBVIOUS
<1>1. spec \in BackupSpecs
  <2>1. CASE spec = NilSpec
    BY <2>1, ConstantTypes
  <2>2. CASE spec # NilSpec
    <3>1. PICK l \in FirstLists :
            \E e \in BOOLEAN : \E d \in {{}, ToSet(l)} :
              spec = [declared |-> TRUE, enabled |-> e, storages |-> l, scheduled |-> d]
      BY <2>2 DEF Init, FirstSpecs
    <3>2. l \in Seq(Storage) /\ ToSet(l) \subseteq Storage
      BY FirstListsAssumption DEF ToSet
    <3> QED
      BY <3>1, <3>2 DEF BackupSpecs
  <2> QED
    BY <2>1, <2>2
<1>2. sync \in SyncType
  BY SyncIdleType DEF Init
<1>3. bk \in [pc : {"idle", "resolve", "register", "create"},
              b : Backup \cup {NoBackup}, inst : BackupSpecs, slot : Slots]
  BY ConstantTypes DEF Init, BackupIdle
<1> QED
  BY <1>1, <1>2, <1>3, ConstantTypes, BoundsAssumption
  DEF Init, TypeOK, SyncType, NoOp


OpType == [Backup -> [state : {"absent", "new", "succeeded", "failed"},
                      slot : Slots, at : Storage \cup {NoStorage}]]

BkType == [pc : {"idle", "resolve", "register", "create"},
           b : Backup \cup {NoBackup}, inst : BackupSpecs, slot : Slots]

LEMMA BackupIdleType == BackupIdle \in BkType
BY ConstantTypes DEF BackupIdle, BkType

(* Sync's worker after a step that stays in the same call of Sync.         *)
LEMMA EmptyKept == <<>> \in Seq(Storage)
OBVIOUS

LEMMA SettledType ==
  ASSUME sync \in SyncType, NEW c \in Clusters, NEW broken \in BOOLEAN, Settled(c, broken)
  PROVE  sync' \in SyncType
BY ConstantTypes, EmptyKept DEF Settled, SyncType

(* TypeOK is not inductive by itself: registering needs to know that the   *)
(* Backup in hand was created and names a storage.                         *)
BusyOnBackup ==
  /\ \A b \in Backup : cr[b].state # "absent" => cr[b].storage \in Storage
  /\ bk.pc # "idle" => bk.b \in Backup /\ cr[bk.b].state # "absent"

LEMMA SlotMapNowType ==
  ASSUME TypeOK
  PROVE  SlotMapNow \in SlotMaps /\ ReposOf(SlotMapNow) \in Repos
BY ReconcileType, ReposOfType DEF TypeOK, SlotMapNow, BackupSpecs, Clusters

LEMMA ResolvedType ==
  ASSUME TypeOK
  PROVE  Resolved \in SlotMaps
BY ReconcileType DEF TypeOK, Resolved, BackupSpecs, Clusters

LEMMA CredsAfterType ==
  ASSUME TypeOK, NEW n
  PROVE  CredsAfter(n) \in Repos
BY SlotMapNowType DEF TypeOK, CredsAfter, Repos

(* What a BackupConfigError leaves to apply: the live cluster's settings,  *)
(* or a new cluster's without any repo.                                    *)
LEMMA RejectedSettles ==
  ASSUME SettingsRejected
  PROVE  \E accepted \in BOOLEAN :
           Settled(cluster, TRUE)
           \/ Settled([NoCluster EXCEPT !.exists = TRUE, !.enabled = accepted], TRUE)
<1>1. PICK accepted \in BOOLEAN, unread \in 0 .. 1 : GoesOn(accepted, unread)
  BY DEF SettingsRejected
<1> QED
  BY <1>1 DEF GoesOn

LEMMA RejectedCreds ==
  ASSUME TypeOK, SettingsRejected
  PROVE  creds' \in Repos /\ faults' \in 0 .. MaxFaults
<1>1. PICK lookup \in 0 .. 1, unread \in 0 .. 1 :
        /\ \/ ClassRefused(lookup) \/ ListRefused(lookup)
           \/ \E i \in DOMAIN sync.inst.storages : StorageRefused(i, lookup)
        /\ faults' = faults + lookup + unread
        /\ faults' <= MaxFaults
  BY DEF SettingsRejected
<1>2. faults' \in 0 .. MaxFaults
  BY <1>1, BoundsAssumption DEF TypeOK
<1>3. CASE ClassRefused(lookup) \/ ListRefused(lookup)
  BY <1>2, <1>3 DEF ClassRefused, ListRefused, TypeOK
<1>4. CASE \E i \in DOMAIN sync.inst.storages : StorageRefused(i, lookup)
  <2>1. PICK i : creds' = CredsAfter(i - 1)
    BY <1>4 DEF StorageRefused
  <2>2. CredsAfter(i - 1) \in Repos
    BY CredsAfterType
  <2> QED BY <1>2, <2>1, <2>2
<1> QED BY <1>1, <1>3, <1>4

LEMMA SyncStepType ==
  ASSUME TypeOK, SyncStep
  PROVE  TypeOK'
<1> USE DEF TypeOK, userVars, operatorVars
<1>a. sync \in SyncType
  BY DEF SyncType
<1>1. CASE SyncBegin
  <2>1. sync' \in SyncType
    BY <1>1, SyncIdleType DEF SyncBegin, SyncType
  <2> QED
    BY <1>1, <2>1 DEF SyncBegin, SyncType
<1>2. CASE SyncList
  <2>1. PICK ds \in DataSourceStorages :
          \E kept \in Sublists(sync.inst.storages, Needed(sync.inst, ds)) :
            sync' = [sync EXCEPT
                       !.pc   = IF Len(kept) = Len(sync.inst.storages) THEN "settings" ELSE "prune",
                       !.kept = kept]
    BY <1>2 DEF SyncList
  <2>2. PICK kept \in Sublists(sync.inst.storages, Needed(sync.inst, ds)) :
            sync' = [sync EXCEPT
                       !.pc   = IF Len(kept) = Len(sync.inst.storages) THEN "settings" ELSE "prune",
                       !.kept = kept]
    BY <2>1
  <2>3. kept \in Seq(Storage)
    BY SublistsType DEF BackupSpecs
  <2>4. PICK pc \in {"settings", "prune"} : sync' = [sync EXCEPT !.pc = pc, !.kept = kept]
    BY <2>2
  <2>5. sync' \in SyncType
    BY <1>a, <2>3, <2>4 DEF SyncType
  <2> QED
    BY <1>2, <2>5 DEF SyncList, SyncType
<1>3. CASE SyncPrune
  <2>1. spec' \in BackupSpecs
    BY <1>3 DEF SyncPrune, Prune, BackupSpecs
  <2>2. sync' \in SyncType
    BY <1>a, <1>3 DEF SyncPrune, SyncType, BackupSpecs
  <2> QED
    BY <1>3, <2>1, <2>2 DEF SyncPrune, SyncType
<1>4. CASE SettingsDisabled
  <2>1. [NoCluster EXCEPT !.exists = TRUE] \in Clusters
    BY ConstantTypes DEF Clusters
  <2>2. sync' \in SyncType
    BY <1>a, <1>4, <2>1, SettledType DEF SettingsDisabled
  <2> QED
    BY <1>4, <2>2, ConstantTypes DEF SettingsDisabled, SyncType
<1>5. CASE SettingsConfigured
  <2>1. [exists |-> TRUE, enabled |-> TRUE,
         repos |-> ReposOf(SlotMapNow), slotMap |-> SlotMapNow] \in Clusters
    BY SlotMapNowType DEF Clusters
  <2>2. sync' \in SyncType
    BY <1>a, <1>5, <2>1, SettledType DEF SettingsConfigured
  <2>3. creds' \in Repos
    BY <1>5, SlotMapNowType DEF SettingsConfigured, CredsCleaned
  <2> QED
    BY <1>5, <2>2, <2>3 DEF SettingsConfigured, SyncType
<1>6. CASE SettingsRejected
  <2>1. \A accepted \in BOOLEAN :
          [NoCluster EXCEPT !.exists = TRUE, !.enabled = accepted] \in Clusters
    BY ConstantTypes DEF Clusters
  <2>2. PICK c \in Clusters : Settled(c, TRUE)
    BY <1>6, <2>1, RejectedSettles
  <2>3. sync' \in SyncType
    BY <1>a, <2>2, SettledType
  <2> QED
    BY <1>6, <2>3, RejectedCreds DEF SettingsRejected, SyncType
<1>7. CASE SyncRestores
  <2>1. sync' \in SyncType
    BY <1>a, <1>7, SyncIdleType DEF SyncRestores, SyncType
  <2> QED
    BY <1>7, <2>1 DEF SyncRestores, SyncType
<1>8. CASE SyncApply
  <2>1. sync' \in SyncType
    BY <1>8, SyncIdleType DEF SyncApply
  <2> QED
    BY <1>8, <2>1 DEF SyncApply, SyncType
<1> QED
  BY <1>1, <1>2, <1>3, <1>4, <1>5, <1>6, <1>7, <1>8 DEF SyncStep

LEMMA ReportsType ==
  ASSUME TypeOK, NEW b, NEW state \in {"Pending", "Succeeded", "Failed"}, Reports(b, state)
  PROVE  phase' \in [Backup -> {"None", "Pending", "Succeeded", "Failed"}]
<1>1. phase \in [Backup -> {"None", "Pending", "Succeeded", "Failed"}]
  BY DEF TypeOK
<1> QED
  BY <1>1 DEF Reports

LEMMA BackupStepType ==
  ASSUME TypeOK, BusyOnBackup,
         ResolveStep \/ BackupWrite \/ \E b \in Backup : BackupBegin(b) \/ BackupReport(b)
  PROVE  TypeOK'
<1> USE DEF TypeOK, userVars, operatorVars
<1>a. bk \in BkType /\ op \in OpType
  BY DEF BkType, OpType
<1>1. CASE ResolveNoCluster
  <2>1. Reports(bk.b, "Failed") /\ bk' \in BkType
    BY <1>1, BackupIdleType DEF ResolveNoCluster
  <2> QED
    BY <1>1, ReportsType, <2>1 DEF ResolveNoCluster, BkType
<1>2. CASE ResolveUnlisted
  <2>1. CASE CanRegister
    <3>1. bk' \in BkType /\ phase' = phase
      BY <1>a, <1>2, <2>1 DEF ResolveUnlisted, BkType
    <3> QED
      BY <1>2, <3>1 DEF ResolveUnlisted, BkType
  <2>2. CASE ~CanRegister
    <3>1. PICK state \in {"Failed", "Pending"} : Reports(bk.b, state)
      BY <1>2, <2>2 DEF ResolveUnlisted
    <3>2. bk' \in BkType
      BY <1>2, <2>2, BackupIdleType DEF ResolveUnlisted
    <3>3. phase' \in [Backup -> {"None", "Pending", "Succeeded", "Failed"}]
      BY ReportsType, <3>1
    <3> QED
      BY <1>2, <3>2, <3>3 DEF ResolveUnlisted, BkType
  <2> QED
    BY <2>1, <2>2
<1>3. CASE ResolveListed
  <2> DEFINE k == Resolved[cr[bk.b].storage]
  <2>1. k \in Slots
    BY <1>3, ResolvedType DEF ResolveListed, Found, SlotMaps
  <2>2. CASE RepoReady(k)
    <3>1. bk' = [bk EXCEPT !.pc = "create", !.inst = NilSpec, !.slot = k] /\ phase' = phase
      BY <1>3, <2>2 DEF ResolveListed
    <3> HIDE DEF k
    <3>2. bk' \in BkType
      BY <1>a, <2>1, <3>1, ConstantTypes DEF BkType
    <3> QED
      BY <1>3, <3>1, <3>2 DEF ResolveListed, BkType
  <2>3. CASE ~RepoReady(k)
    <3>1. Reports(bk.b, "Pending") /\ bk' \in BkType
      BY <1>3, <2>3, BackupIdleType DEF ResolveListed
    <3>2. phase' \in [Backup -> {"None", "Pending", "Succeeded", "Failed"}]
      BY ReportsType, <3>1
    <3> QED
      BY <1>3, <3>1, <3>2 DEF ResolveListed, BkType
  <2> QED
    BY <2>2, <2>3
<1>4. CASE BackupRegister
  <2>1. cr[bk.b].storage \in Storage
    BY <1>4 DEF BackupRegister, BusyOnBackup
  <2>2. Append(bk.inst.storages, cr[bk.b].storage) \in Seq(Storage)
    BY <2>1 DEF BackupSpecs
  <2>3. PICK l \in Seq(Storage), e \in BOOLEAN :
          spec' = [spec EXCEPT !.storages = l, !.scheduled = bk.inst.scheduled, !.enabled = e]
    <3>1. CASE bk.inst.enabled
      BY <1>4, <2>2, <3>1 DEF BackupRegister, Register, BackupSpecs
    <3>2. CASE ~bk.inst.enabled
      BY <1>4, <2>2, <3>2 DEF BackupRegister, Register
    <3> QED
      BY <3>1, <3>2
  <2>4. spec' \in BackupSpecs
    BY <2>3 DEF BackupSpecs
  <2>5. Reports(bk.b, "Pending") /\ bk' \in BkType
    BY <1>4, BackupIdleType DEF BackupRegister
  <2>6. phase' \in [Backup -> {"None", "Pending", "Succeeded", "Failed"}]
    BY ReportsType, <2>5
  <2> QED
    BY <1>4, <2>4, <2>5, <2>6 DEF BackupRegister, BkType
<1>5. CASE BackupCreate
  <2>1. op' \in OpType
    BY <1>a, <1>5 DEF BackupCreate, OpType
  <2>2. Reports(bk.b, "Pending") /\ bk' \in BkType
    BY <1>5, BackupIdleType DEF BackupCreate
  <2>3. phase' \in [Backup -> {"None", "Pending", "Succeeded", "Failed"}]
    BY ReportsType, <2>2
  <2> QED
    BY <1>5, <2>1, <2>2, <2>3 DEF BackupCreate, BkType, OpType
<1>6. ASSUME NEW b \in Backup, BackupBegin(b) PROVE TypeOK'
  <2>1. bk' \in BkType
    BY <1>6, ConstantTypes DEF BackupBegin, BkType
  <2> QED
    BY <1>6, <2>1 DEF BackupBegin, BkType
<1>7. ASSUME NEW b \in Backup, BackupReport(b) PROVE TypeOK'
  <2>1. PICK state \in {"Pending", "Succeeded", "Failed"} : Reports(b, state)
    BY <1>7 DEF BackupReport
  <2>2. phase' \in [Backup -> {"None", "Pending", "Succeeded", "Failed"}]
    BY ReportsType, <2>1
  <2> QED
    BY <1>7, <2>2 DEF BackupReport
<1> QED
  BY <1>1, <1>2, <1>3, <1>4, <1>5, <1>6, <1>7 DEF ResolveStep, BackupWrite

LEMMA FaultType ==
  ASSUME TypeOK, Fault
  PROVE  TypeOK'
<1> USE DEF TypeOK, userVars, operatorVars
<1>a. faults < MaxFaults => faults + 1 \in 0 .. MaxFaults
  BY BoundsAssumption
<1>1. CASE SettingsFail
  <2>1. creds' \in Repos
    <3>1. CASE ~Wanted
      BY <1>1, <3>1 DEF SettingsFail, Repos
    <3>2. ASSUME NEW n, creds' = CredsAfter(n) PROVE creds' \in Repos
      BY <3>2, CredsAfterType
    <3>3. ASSUME NEW n \in Slots,
                 creds' = [k \in Slots |-> IF k < n THEN CredsCleaned[k] ELSE CredsUncleaned[k]]
          PROVE  creds' \in Repos
      <4>1. CredsCleaned \in Repos /\ CredsUncleaned \in Repos
        BY SlotMapNowType, CredsAfterType DEF CredsCleaned, CredsUncleaned
      <4> QED
        BY <3>3, <4>1 DEF Repos
    <3> QED
      BY <1>1, <3>1, <3>2, <3>3 DEF SettingsFail
  <2>2. sync' \in SyncType
    BY <1>1, SyncIdleType DEF SettingsFail
  <2> QED
    BY <1>1, <1>a, <2>1, <2>2 DEF SettingsFail, SyncType
<1>2. CASE SyncFail
  <2>1. sync' \in SyncType
    BY <1>2, SyncIdleType DEF SyncFail
  <2> QED
    BY <1>2, <1>a, <2>1 DEF SyncFail, SyncType
<1>3. CASE BackupFail
  <2>1. bk' \in BkType
    BY <1>3, BackupIdleType DEF BackupFail
  <2>2. phase' \in [Backup -> {"None", "Pending", "Succeeded", "Failed"}]
    BY <1>3, ReportsType DEF BackupFail
  <2> QED
    BY <1>3, <1>a, <2>1, <2>2 DEF BackupFail, BkType
<1> QED
  BY <1>1, <1>2, <1>3 DEF Fault

LEMMA OperatorStepType ==
  ASSUME TypeOK, OperatorStep \/ \E b \in Backup : OperatorBackup(b)
  PROVE  TypeOK'
<1> USE DEF TypeOK, userVars, operatorVars
<1>1. CASE OperatorInit
  BY <1>1 DEF OperatorInit
<1>2. CASE OperatorReady
  BY <1>2 DEF OperatorReady, Clusters
<1>3. CASE RestoreStarts \/ RestoreEnds
  BY <1>3 DEF RestoreStarts, RestoreEnds
<1>4. ASSUME NEW b \in Backup, OperatorBackup(b) PROVE TypeOK'
  <2>1. op[b].slot \in Slots /\ op \in OpType
    BY DEF OpType
  <2>2. PICK state \in {"succeeded", "failed"} :
          op' = [op EXCEPT ![b] = [@ EXCEPT !.state = state,
                   !.at = IF state = "succeeded" THEN stanza[op[b].slot] ELSE NoStorage]]
    BY <1>4 DEF OperatorBackup
  <2>3. PICK at \in Storage \cup {NoStorage} :
          op' = [op EXCEPT ![b] = [@ EXCEPT !.state = state, !.at = at]]
    BY <2>1, <2>2 DEF Repos
  <2> DEFINE r == [op[b] EXCEPT !.state = state, !.at = at]
  <2>4. r \in [state : {"absent", "new", "succeeded", "failed"},
               slot : Slots, at : Storage \cup {NoStorage}]
    <3>1. op[b] \in [state : {"absent", "new", "succeeded", "failed"},
                     slot : Slots, at : Storage \cup {NoStorage}]
      BY <2>1 DEF OpType
    <3> HIDE DEF TypeOK
    <3> QED
      BY <3>1
  <2>5. op' = [op EXCEPT ![b] = r]
    BY <2>3
  <2> HIDE DEF r
  <2>6. op' \in OpType
    BY <2>1, <2>4, <2>5 DEF OpType
  <2>7. UNCHANGED <<spec, phase, cluster, creds, sync, bk, faults, userVars, operatorVars>>
    BY <1>4 DEF OperatorBackup
  <2> QED
    BY <2>6, <2>7 DEF OpType
<1> QED
  BY <1>1, <1>2, <1>3, <1>4 DEF OperatorStep

LEMMA UserStepType ==
  ASSUME TypeOK, UserStep
  PROVE  TypeOK'
<1> USE DEF TypeOK, operatorVars, Edit
<1>a. edits < MaxEdits => edits + 1 \in 0 .. MaxEdits
  BY BoundsAssumption
<1>1. CASE UserSwitches
  <2>1. spec' \in BackupSpecs
    BY <1>1 DEF UserSwitches, BackupSpecs
  <2> QED
    BY <1>1, <1>a, <2>1 DEF UserSwitches
<1>2. CASE UserChangesClass
  BY <1>2, <1>a DEF UserChangesClass
<1>3. CASE UserRestores
  BY <1>3, BoundsAssumption DEF UserRestores
<1>4. ASSUME NEW s \in Storage, UserAdds(s) PROVE TypeOK'
  <2>1. Append(spec.storages, s) \in Seq(Storage)
    BY DEF BackupSpecs
  <2>2. PICK l \in Seq(Storage) :
          spec' = [spec EXCEPT !.declared = TRUE, !.storages = l]
    BY <1>4, <2>1 DEF UserAdds
  <2>3. spec' \in BackupSpecs
    BY <2>2 DEF BackupSpecs
  <2> QED
    BY <1>4, <1>a, <2>3 DEF UserAdds
<1>5. ASSUME NEW s \in Storage, UserRemoves(s) PROVE TypeOK'
  <2>1. PICK rest \in Sublists(spec.storages, Storage \ {s}) :
          spec' = [spec EXCEPT !.storages = rest, !.scheduled = @ \ {s}]
    BY <1>5 DEF UserRemoves
  <2>2. rest \in Seq(Storage)
    BY SublistsType DEF BackupSpecs
  <2>3. spec' \in BackupSpecs
    BY <2>1, <2>2 DEF BackupSpecs
  <2> QED
    BY <1>5, <1>a, <2>3 DEF UserRemoves
<1>6. ASSUME NEW s \in Storage, UserSchedules(s) PROVE TypeOK'
  <2>1. PICK d \in SUBSET Storage : spec' = [spec EXCEPT !.scheduled = d]
    BY <1>6 DEF UserSchedules, BackupSpecs
  <2>2. spec' \in BackupSpecs
    BY <2>1 DEF BackupSpecs
  <2> QED
    BY <1>6, <1>a, <2>2 DEF UserSchedules
<1>7. ASSUME NEW s \in Storage, UserChangesStorage(s) PROVE TypeOK'
  BY <1>7, <1>a DEF UserChangesStorage
<1>8. ASSUME NEW b \in Backup, NEW s \in Storage, UserBacksUp(b, s) PROVE TypeOK'
  BY <1>8 DEF UserBacksUp
<1>9. ASSUME NEW b \in Backup, UserDeletesBackup(b) PROVE TypeOK'
  BY <1>9 DEF UserDeletesBackup
<1> QED
  BY <1>1, <1>2, <1>3, <1>4, <1>5, <1>6, <1>7, <1>8, <1>9 DEF UserStep

LEMMA BusyStep ==
  ASSUME TypeOK, BusyOnBackup, [Next]_vars
  PROVE  BusyOnBackup'
<1> USE DEF BusyOnBackup, userVars
<1>1. CASE SyncStep \/ Fault \/ OperatorStep
  <2>1. cr' = cr /\ (bk' = bk \/ bk' = BackupIdle)
    BY <1>1 DEF SyncStep, Fault, OperatorStep, SyncBegin, SyncList, SyncPrune,
      SettingsDisabled, SettingsConfigured, SettingsRejected, SyncRestores, SyncApply,
      SettingsFail, SyncFail, BackupFail, OperatorInit, OperatorReady, RestoreStarts,
      RestoreEnds
  <2> QED
    BY <2>1 DEF BackupIdle
<1>2. CASE ResolveStep
  <2>1. /\ cr' = cr
        /\ bk' = BackupIdle \/ (bk'.b = bk.b /\ bk.pc # "idle")
    <3>1. CASE ResolveNoCluster
      BY <3>1 DEF ResolveNoCluster
    <3>2. CASE ResolveUnlisted
      BY <1>2, <3>2 DEF ResolveUnlisted, TypeOK
    <3>3. CASE ResolveListed
      BY <1>2, <3>3 DEF ResolveListed, TypeOK
    <3> QED
      BY <1>2, <3>1, <3>2, <3>3 DEF ResolveStep
  <2> QED
    BY <2>1 DEF BackupIdle
<1>3. CASE BackupWrite
  <2>1. cr' = cr /\ bk' = BackupIdle
    BY <1>3 DEF BackupWrite, BackupRegister, BackupCreate
  <2> QED
    BY <2>1 DEF BackupIdle
<1>4. CASE UserStep
  <2>1. bk' = bk
    BY <1>4 DEF UserStep, Edit, UserSwitches, UserChangesClass, UserRestores, UserAdds,
      UserRemoves, UserSchedules, UserChangesStorage, UserBacksUp, UserDeletesBackup
  <2> DEFINE Known == \A b \in Backup :
                        \/ cr'[b] = cr[b]
                        \/ cr'[b].state # "absent" /\ cr'[b].storage \in Storage
  <2>2. Known
    <3>1. ASSUME NEW b \in Backup, NEW s \in Storage, UserBacksUp(b, s)
          PROVE  Known
      BY <3>1 DEF UserBacksUp, TypeOK
    <3>2. ASSUME NEW b \in Backup, UserDeletesBackup(b)
          PROVE  Known
      <4>1. cr[b] \in [state : {"absent", "live", "deleting"},
                       storage : Storage \cup {NoStorage}]
        BY DEF TypeOK
      <4>2. cr' = [cr EXCEPT ![b] = [cr[b] EXCEPT !.state = "deleting"]]
        BY <3>2 DEF UserDeletesBackup
      <4>3. cr[b].state # "absent"
        BY <3>2 DEF UserDeletesBackup, Alive
      <4> QED
        BY <4>1, <4>2, <4>3 DEF TypeOK
    <3>3. CASE cr' = cr
      BY <3>3
    <3> QED
      BY <1>4, <3>1, <3>2, <3>3 DEF UserStep, Edit, UserSwitches, UserChangesClass,
        UserRestores, UserAdds, UserRemoves, UserSchedules, UserChangesStorage
  <2> QED
    BY <2>1, <2>2
<1>5. ASSUME NEW b \in Backup, BackupBegin(b) PROVE BusyOnBackup'
  BY <1>5 DEF BackupBegin, Alive
<1>6. ASSUME NEW b \in Backup, BackupReport(b) \/ OperatorBackup(b) PROVE BusyOnBackup'
  BY <1>6 DEF BackupReport, OperatorBackup
<1>7. CASE UNCHANGED vars
  BY <1>7 DEF vars
<1> QED
  BY <1>1, <1>2, <1>3, <1>4, <1>5, <1>6, <1>7 DEF Next

LEMMA TypeStep ==
  ASSUME TypeOK, BusyOnBackup, [Next]_vars
  PROVE  TypeOK'
<1>1. CASE UNCHANGED vars
  BY <1>1 DEF vars, TypeOK
<1>2. CASE Next
  BY <1>2, SyncStepType, BackupStepType, FaultType, OperatorStepType, UserStepType DEF Next
<1> QED
  BY <1>1, <1>2

(* Every variable of the provider, the cluster and the operator keeps its  *)
(* type whatever the order of reconciles, edits, faults and restores; in   *)
(* particular every slot SyncBackup hands to the operator and every slot   *)
(* in the annotation is one of the MaxRepos slots of pgBackRest.           *)
THEOREM TypeCorrect == Spec => []TypeOK
<1>1. Init => TypeOK /\ BusyOnBackup
  <2>1. Init => BusyOnBackup
    BY DEF Init, BusyOnBackup, BackupIdle
  <2> QED
    BY <2>1, InitType
<1>2. TypeOK /\ BusyOnBackup /\ [Next]_vars => (TypeOK /\ BusyOnBackup)'
  BY TypeStep, BusyStep
<1> QED
  BY <1>1, <1>2, PTL DEF Spec

-----------------------------------------------------------------------------
(* Agreement of map and repos, and stickiness of the slots.                *)

(* What is to be applied to the cluster agrees in itself and with the      *)
(* slots of the live cluster: only SyncApply writes the cluster, so the    *)
(* map that applyBackupSettings reconciled cannot be stale by then.        *)
Extends(old, new) ==
  \A s \in DOMAIN old.slotMap \cap DOMAIN new.slotMap : new.slotMap[s] = old.slotMap[s]

Planned ==
  sync.pc \in {"restores", "apply"} => Agree(sync.desired) /\ Extends(cluster, sync.desired)

SlotInv == TypeOK /\ BusyOnBackup /\ SlotsAgree /\ Planned

LEMMA SettledPlan ==
  ASSUME TypeOK, NEW c \in Clusters, NEW broken, Settled(c, broken)
  PROVE  sync'.desired = c /\ sync'.pc = "restores"
BY DEF Settled, TypeOK

(* A call of Sync that does not reach the settings plans nothing.          *)
LEMMA NoPlan ==
  ASSUME TypeOK, SlotsAgree, Planned,
         SyncBegin \/ SyncList \/ SyncPrune \/ SettingsFail \/ SyncFail
  PROVE  (SlotsAgree /\ Planned)'
<1>1. cluster' = cluster
  BY DEF SyncBegin, SyncList, SyncPrune, SettingsFail, SyncFail
<1>2. sync'.pc \notin {"restores", "apply"}
  <2>a. DOMAIN sync = {"pc", "inst", "kept", "desired", "broken", "outcome"}
    BY DEF TypeOK
  <2>1. CASE SyncList
    <3>1. PICK pc \in {"settings", "prune"} :
            \E kept : sync' = [sync EXCEPT !.pc = pc, !.kept = kept]
      BY <2>1 DEF SyncList
    <3> QED
      BY <2>a, <3>1
  <2>2. CASE SyncPrune
    <3>1. PICK inst : sync' = [sync EXCEPT !.pc = "settings", !.inst = inst]
      BY <2>2 DEF SyncPrune
    <3> QED
      BY <2>a, <3>1
  <2>3. CASE SyncBegin \/ SettingsFail \/ SyncFail
    <3>1. CASE SyncBegin
      <4>1. PICK inst : sync' = [SyncIdle("none") EXCEPT !.pc = "list", !.inst = inst]
        BY <3>1 DEF SyncBegin
      <4> QED
        BY <4>1 DEF SyncIdle
    <3>2. CASE SettingsFail \/ SyncFail
      <4>1. sync' = SyncIdle("error")
        BY <3>2 DEF SettingsFail, SyncFail
      <4> QED
        BY <4>1 DEF SyncIdle
    <3> QED
      BY <2>3, <3>1, <3>2
  <2> QED
    BY <2>1, <2>2, <2>3
<1> QED
  BY <1>1, <1>2 DEF SlotsAgree, Planned, Agree

(* The three ways out of the settings.                                     *)
LEMMA SettingsPlan ==
  ASSUME TypeOK, SlotsAgree, SettingsDisabled \/ SettingsConfigured \/ SettingsRejected
  PROVE  (SlotsAgree /\ Planned)'
<1>1. cluster' = cluster
  BY DEF SettingsDisabled, SettingsConfigured, SettingsRejected
<1>2. cluster \in Clusters
  BY DEF TypeOK
<1>3. \A c \in Clusters : c.slotMap = NoSlotMap /\ c.repos = NoRepos
        => Agree(c) /\ Extends(cluster, c)
  BY DEF Agree, Extends, NoSlotMap, NoRepos, hasRepo
<1>4. \A e \in BOOLEAN : [NoCluster EXCEPT !.exists = TRUE, !.enabled = e] \in Clusters
  BY ConstantTypes DEF Clusters
<1>5. SUFFICES ASSUME NEW c \in Clusters, NEW broken, Settled(c, broken),
                      Agree(c) /\ Extends(cluster, c)
               PROVE  (SlotsAgree /\ Planned)'
  <2>1. CASE SettingsDisabled
    <3> DEFINE c == [NoCluster EXCEPT !.exists = TRUE]
    <3>1. c \in Clusters /\ c.slotMap = NoSlotMap /\ c.repos = NoRepos
      BY ConstantTypes DEF NoCluster, Clusters
    <3> QED
      BY <1>3, <1>5, <2>1, <3>1 DEF SettingsDisabled
  <2>2. CASE SettingsConfigured
    <3> DEFINE c == [exists |-> TRUE, enabled |-> TRUE,
                     repos |-> ReposOf(SlotMapNow), slotMap |-> SlotMapNow]
    <3>1. c \in Clusters
      BY SlotMapNowType DEF Clusters
    <3>2. SlotMapNow \in SlotMaps /\ IsInjective(SlotMapNow)
      BY <1>2, AgreeInjective, SlotMapNowType, ReconcileInjective
      DEF SlotMapNow, SlotsAgree, TypeOK, Clusters, BackupSpecs
    <3>3. Agree(c)
      BY <3>1, <3>2, ReposOfAgree
    <3>4. Extends(cluster, c)
      <4>1. ASSUME NEW s \in DOMAIN cluster.slotMap, s \in DOMAIN SlotMapNow
            PROVE  SlotMapNow[s] = cluster.slotMap[s]
        <5>1. s \in ToSet(sync.inst.storages)
          BY <4>1 DEF SlotMapNow, reconcileRepoSlotMap, Kept, New
        <5> QED
          BY <4>1, <5>1, ReconcileKeeps DEF SlotMapNow, TypeOK, Clusters, BackupSpecs
      <4> QED
        BY <4>1 DEF Extends
    <3> QED
      BY <1>5, <2>2, <3>1, <3>3, <3>4 DEF SettingsConfigured
  <2>3. CASE SettingsRejected
    <3>2. PICK accepted \in BOOLEAN :
            Settled(cluster, TRUE)
            \/ Settled([NoCluster EXCEPT !.exists = TRUE, !.enabled = accepted], TRUE)
      BY <2>3, RejectedSettles
    <3> DEFINE c == [NoCluster EXCEPT !.exists = TRUE, !.enabled = accepted]
    <3>1. c \in Clusters /\ c.slotMap = NoSlotMap /\ c.repos = NoRepos
      BY <1>4 DEF TypeOK, NoCluster
    <3>3. Agree(cluster) /\ Extends(cluster, cluster)
      BY DEF SlotsAgree, Extends
    <3> QED
      BY <1>2, <1>3, <1>5, <3>1, <3>2, <3>3
  <2> QED
    BY <2>1, <2>2, <2>3
<1>6. sync'.desired = c
  BY <1>5, SettledPlan
<1> QED
  BY <1>1, <1>5, <1>6 DEF SlotsAgree, Planned, Agree, Extends

LEMMA SlotStep ==
  ASSUME TypeOK, SlotsAgree, Planned, [Next]_vars
  PROVE  (SlotsAgree /\ Planned)' /\ Extends(cluster, cluster')
<1> USE DEF SlotsAgree, Planned
<1>1. CASE SyncRestores
  <2>1. cluster' = cluster /\ (sync'.pc = "idle" \/ sync'.desired = sync.desired)
    BY <1>1 DEF SyncRestores, SyncIdle, TypeOK
  <2> QED
    BY <1>1, <2>1 DEF SyncRestores, Agree, Extends
<1>2. CASE SyncApply
  <2>1. cluster' = sync.desired /\ sync'.pc = "idle"
    BY <1>2 DEF SyncApply, SyncIdle
  <2> QED
    BY <1>2, <2>1 DEF SyncApply, Agree, Extends
<1>3. CASE SyncBegin \/ SyncList \/ SyncPrune \/ SettingsFail \/ SyncFail
  <2>1. cluster' = cluster
    BY <1>3 DEF SyncBegin, SyncList, SyncPrune, SettingsFail, SyncFail
  <2> QED
    BY <1>3, <2>1, NoPlan DEF Extends
<1>4. CASE SettingsDisabled \/ SettingsConfigured \/ SettingsRejected
  <2>1. cluster' = cluster
    BY <1>4 DEF SettingsDisabled, SettingsConfigured, SettingsRejected
  <2> QED
    BY <1>4, <2>1, SettingsPlan DEF Extends
<1>5. CASE UNCHANGED <<cluster, sync>>
  BY <1>5 DEF Agree, Extends
<1>6. BackupFail \/ ResolveStep \/ BackupWrite \/ OperatorStep \/ UserStep \/ UNCHANGED vars
        => UNCHANGED <<cluster, sync>>
  BY DEF BackupFail, ResolveStep, ResolveNoCluster, ResolveUnlisted, ResolveListed,
    BackupWrite, BackupRegister, BackupCreate, OperatorStep, OperatorInit, OperatorReady,
    RestoreStarts, RestoreEnds, UserStep, Edit, UserSwitches, UserChangesClass,
    UserRestores, UserAdds, UserRemoves, UserSchedules, UserChangesStorage, UserBacksUp,
    UserDeletesBackup, vars
<1>7. ASSUME NEW b \in Backup, BackupBegin(b) \/ BackupReport(b) \/ OperatorBackup(b)
      PROVE  UNCHANGED <<cluster, sync>>
  BY <1>7 DEF BackupBegin, BackupReport, OperatorBackup
<1> QED
  BY <1>1, <1>2, <1>3, <1>4, <1>5, <1>6, <1>7 DEF Next, SyncStep, Fault

LEMMA SlotInvHolds == Spec => []SlotInv
<1>1. Init => SlotsAgree /\ Planned
  BY ConstantTypes DEF Init, SlotsAgree, Planned, SyncIdle
<1>2. TypeOK /\ SlotsAgree /\ Planned /\ [Next]_vars => (SlotsAgree /\ Planned)'
  BY SlotStep
<1>3. Init => TypeOK /\ BusyOnBackup
  BY InitType DEF Init, BusyOnBackup, BackupIdle
<1>4. TypeOK /\ BusyOnBackup /\ [Next]_vars => (TypeOK /\ BusyOnBackup)'
  BY TypeStep, BusyStep
<1> QED
  BY <1>1, <1>2, <1>3, <1>4, PTL DEF Spec, SlotInv

(* The slot-map annotation and the repo list of the live cluster always    *)
(* say the same: no storage shares a repo with another, whatever edits,    *)
(* prunes, registrations, failures and restarts come between.              *)
THEOREM SlotsAlwaysAgree == Spec => []SlotsAgree
BY SlotInvHolds, PTL DEF SlotInv

(* No write to the cluster ever moves a storage from one repo to another.  *)
THEOREM SlotsNeverMove == Spec => SlotsAreSticky
<1>1. SlotInv /\ [Next]_vars =>
        [\A s \in DOMAIN cluster.slotMap \cap DOMAIN cluster'.slotMap :
           cluster'.slotMap[s] = cluster.slotMap[s]]_vars
  BY SlotStep DEF SlotInv, Extends
<1> QED
  BY <1>1, SlotInvHolds, PTL DEF Spec, SlotsAreSticky

-----------------------------------------------------------------------------
(* The credentials of the repos.                                           *)

(* CredentialsMatch is not inductive: the Secrets are written some steps   *)
(* before the cluster, and must be those of the repos to be applied then.  *)
CredsKnown ==
  /\ sync.pc \in {"restores", "apply"} /\ ~sync.broken => creds = sync.desired.repos
  /\ sync.outcome = "applied" => sync.pc = "idle"
  /\ CredentialsMatch

LEMMA CredsStep ==
  ASSUME TypeOK, CredsKnown, [Next]_vars
  PROVE  CredsKnown'
<1> USE DEF CredsKnown, CredentialsMatch
<1>a. sync \in SyncType
  BY DEF TypeOK, SyncType
<1>1. CASE SyncBegin \/ SettingsFail \/ SyncFail
  <2>1. sync'.pc \in {"list", "idle"} /\ sync'.outcome \in {"none", "error"}
    <3>1. CASE SyncBegin
      <4>1. PICK inst : sync' = [SyncIdle("none") EXCEPT !.pc = "list", !.inst = inst]
        BY <3>1 DEF SyncBegin
      <4> QED BY <4>1 DEF SyncIdle
    <3>2. CASE SettingsFail \/ SyncFail
      <4>1. sync' = SyncIdle("error")
        BY <3>2 DEF SettingsFail, SyncFail
      <4> QED BY <4>1 DEF SyncIdle
    <3> QED BY <1>1, <3>1, <3>2
  <2> QED BY <2>1
<1>2. CASE SyncList \/ SyncPrune
  <2>1. sync'.pc \in {"settings", "prune"} /\ sync'.outcome = sync.outcome /\ sync.pc # "idle"
    <3>1. CASE SyncList
      <4>1. PICK pc \in {"settings", "prune"} :
              \E kept : sync' = [sync EXCEPT !.pc = pc, !.kept = kept]
        BY <3>1 DEF SyncList
      <4> QED BY <1>a, <3>1, <4>1 DEF SyncList, SyncType
    <3>2. CASE SyncPrune
      <4>1. PICK inst : sync' = [sync EXCEPT !.pc = "settings", !.inst = inst]
        BY <3>2 DEF SyncPrune
      <4> QED BY <1>a, <3>2, <4>1 DEF SyncPrune, SyncType
    <3> QED BY <1>2, <3>1, <3>2
  <2> QED BY <2>1
<1>3. CASE SettingsDisabled
  <2>1. /\ sync.pc = "settings" /\ creds' = NoRepos
        /\ Settled([NoCluster EXCEPT !.exists = TRUE], FALSE)
    BY <1>3 DEF SettingsDisabled
  <2>2. sync'.pc = "restores" /\ sync'.outcome = sync.outcome /\ sync'.desired.repos = NoRepos
    BY <1>a, <2>1 DEF Settled, SyncType, NoCluster
  <2> QED BY <2>1, <2>2
<1>4. CASE SettingsConfigured
  <2>1. /\ sync.pc = "settings" /\ creds' = ReposOf(SlotMapNow)
        /\ Settled([exists |-> TRUE, enabled |-> TRUE,
                    repos |-> ReposOf(SlotMapNow), slotMap |-> SlotMapNow], FALSE)
    BY <1>4 DEF SettingsConfigured, CredsCleaned
  <2>2. /\ sync'.pc = "restores" /\ sync'.outcome = sync.outcome
        /\ sync'.desired.repos = ReposOf(SlotMapNow)
    BY <1>a, <2>1 DEF Settled, SyncType
  <2> QED BY <2>1, <2>2
<1>5. CASE SettingsRejected
  <2>1. sync.pc = "settings" /\ \E c : Settled(c, TRUE)
    BY <1>5, RejectedSettles DEF SettingsRejected
  <2>2. sync'.pc = "restores" /\ sync'.outcome = sync.outcome /\ sync'.broken
    BY <1>a, <2>1 DEF Settled, SyncType
  <2> QED BY <2>1, <2>2
<1>6. CASE SyncRestores
  <2>1. /\ UNCHANGED <<creds, cluster>> /\ sync.pc = "restores"
        /\ \/ sync'.pc = "idle" /\ sync'.outcome = "skipped"
           \/ /\ sync'.pc = "apply" /\ sync'.desired = sync.desired
              /\ sync'.broken = sync.broken /\ sync'.outcome = sync.outcome
    BY <1>a, <1>6 DEF SyncRestores, SyncIdle, SyncType
  <2> QED BY <2>1
<1>7. CASE SyncApply
  <2>1. /\ creds' = creds /\ cluster' = sync.desired /\ sync.pc = "apply" /\ sync'.pc = "idle"
        /\ sync'.outcome = (IF sync.broken THEN "configError" ELSE "applied")
    BY <1>7 DEF SyncApply, SyncIdle
  <2> QED BY <2>1
<1>8. CASE UNCHANGED <<cluster, sync, creds>>
  BY <1>8
<1>9. BackupFail \/ ResolveStep \/ BackupWrite \/ OperatorStep \/ UserStep \/ UNCHANGED vars
        => UNCHANGED <<cluster, sync, creds>>
  BY DEF BackupFail, ResolveStep, ResolveNoCluster, ResolveUnlisted, ResolveListed,
    BackupWrite, BackupRegister, BackupCreate, OperatorStep, OperatorInit, OperatorReady,
    RestoreStarts, RestoreEnds, UserStep, Edit, UserSwitches, UserChangesClass,
    UserRestores, UserAdds, UserRemoves, UserSchedules, UserChangesStorage, UserBacksUp,
    UserDeletesBackup, vars
<1>10. ASSUME NEW b \in Backup, BackupBegin(b) \/ BackupReport(b) \/ OperatorBackup(b)
       PROVE  UNCHANGED <<cluster, sync, creds>>
  BY <1>10 DEF BackupBegin, BackupReport, OperatorBackup
<1> QED
  BY <1>1, <1>2, <1>3, <1>4, <1>5, <1>6, <1>7, <1>8, <1>9, <1>10 DEF Next, SyncStep, Fault

(* After a Sync that ended well the Secrets hold the credentials of the    *)
(* cluster's repos, each those of its own storage, and no Secret is left   *)
(* over (applyBackupSettings writes them before Sync applies the cluster). *)
THEOREM CredentialsAlwaysMatch == Spec => []CredentialsMatch
<1>1. Init => CredsKnown
  BY DEF Init, SyncIdle, CredsKnown, CredentialsMatch
<1>2. SlotInv /\ CredsKnown /\ [Next]_vars => CredsKnown'
  BY CredsStep DEF SlotInv
<1>3. CredsKnown => CredentialsMatch
  BY DEF CredsKnown
<1> QED BY <1>1, <1>2, <1>3, SlotInvHolds, PTL DEF Spec

-----------------------------------------------------------------------------
(* No storage is listed twice.                                             *)

(* UniqueStorages is not inductive: the workers write lists they read      *)
(* earlier, and register what they did not find then.                      *)
UniqueInv ==
  /\ UniqueStorages
  /\ IsInjective(sync.inst.storages) /\ IsInjective(sync.kept)
  /\ IsInjective(bk.inst.storages)
  /\ bk.pc = "register" => cr[bk.b].storage \notin ToSet(bk.inst.storages)

LEMMA EmptyInjective == IsInjective(<<>>) /\ IsInjective(NilSpec.storages)
BY DEF IsInjective, NilSpec

LEMMA SublistsInjective ==
  ASSUME NEW list \in Seq(Storage), NEW names, NEW k \in Sublists(list, names)
  PROVE  IsInjective(k)
<1> DEFINE S == names \cap ToSet(list)
<1>1. k \in [1 .. Cardinality(S) -> S]
      /\ \A i, j \in DOMAIN k : i < j => Precedes(list, k[i], k[j])
  BY DEF Sublists
<1>2. Cardinality(S) \in Nat
  <2>1. list \in Surjection(DOMAIN list, ToSet(list)) /\ IsFiniteSet(DOMAIN list)
    BY FS_Interval DEF ToSet, Surjection
  <2>2. IsFiniteSet(S)
    BY <2>1, FS_Surjection, FS_Subset
  <2> QED BY <2>2, FS_CardinalityType
<1>3. ASSUME NEW i \in DOMAIN k, NEW j \in DOMAIN k, k[i] = k[j], i # j
      PROVE  FALSE
  <2>1. i < j \/ j < i
    BY <1>1, <1>2, <1>3
  <2> QED BY <1>1, <1>3, <2>1, PrecedesIrreflexive
<1> QED BY <1>3 DEF IsInjective

LEMMA AppendStaysInjective ==
  ASSUME NEW list \in Seq(Storage), IsInjective(list), NEW s \in Storage, s \notin ToSet(list)
  PROVE  IsInjective(Append(list, s))
<1>1. /\ DOMAIN Append(list, s) = 1 .. (Len(list) + 1)
      /\ \A i \in 1 .. Len(list) : Append(list, s)[i] = list[i] /\ list[i] # s
      /\ Append(list, s)[Len(list) + 1] = s
  BY DEF ToSet
<1>2. \A i \in 1 .. (Len(list) + 1) : i \in 1 .. Len(list) \/ i = Len(list) + 1
  OBVIOUS
<1> QED BY <1>1, <1>2 DEF IsInjective

(* A storage that is registered was not listed: a listed one has a slot as *)
(* long as there is room, and without room nothing is registered.          *)
LEMMA UnlistedIsNew ==
  ASSUME TypeOK, ~Found, CanRegister
  PROVE  cr[bk.b].storage \notin ToSet(bk.inst.storages)
<1>1. bk.inst.storages \in Seq(Storage) /\ Len(bk.inst.storages) \in Nat
  BY DEF TypeOK, BackupSpecs
<1>2. Len(bk.inst.storages) <= MaxRepos
  BY <1>1 DEF CanRegister
<1>3. DOMAIN Resolved = ToSet(bk.inst.storages)
  BY <1>1, <1>2, ReconcileTotal DEF Resolved
<1> QED BY <1>3 DEF Found, CanRegister

LEMMA UniqueSyncStep ==
  ASSUME TypeOK, UniqueInv, SyncStep \/ SettingsFail \/ SyncFail
  PROVE  UniqueInv'
<1> USE DEF userVars
<1>a. sync \in SyncType /\ sync.inst.storages \in Seq(Storage)
  BY DEF TypeOK, SyncType, BackupSpecs
<1> SUFFICES /\ UNCHANGED <<bk, cr>> /\ IsInjective(spec'.storages)
             /\ IsInjective(sync'.inst.storages) /\ IsInjective(sync'.kept)
  BY DEF UniqueInv, UniqueStorages
<1>1. UNCHANGED <<bk, cr>>
  BY DEF SyncStep, SyncBegin, SyncList, SyncPrune, SettingsDisabled, SettingsConfigured,
    SettingsRejected, SyncRestores, SyncApply, SettingsFail, SyncFail
<1>2. CASE SyncPrune
  <2>1. spec'.storages = sync.kept
    BY <1>2 DEF SyncPrune, Prune, TypeOK, BackupSpecs
  <2>2. sync'.inst.storages = sync.kept /\ sync'.kept = sync.kept
    BY <1>a, <1>2 DEF SyncPrune, SyncType, BackupSpecs
  <2> QED BY <1>1, <2>1, <2>2 DEF UniqueInv
<1>3. CASE SyncList
  <2>1. PICK names : \E kept \in Sublists(sync.inst.storages, names) : \E pc :
          sync' = [sync EXCEPT !.pc = pc, !.kept = kept]
    BY <1>3 DEF SyncList
  <2>2. PICK kept \in Sublists(sync.inst.storages, names) : \E pc :
          sync' = [sync EXCEPT !.pc = pc, !.kept = kept]
    BY <2>1
  <2>3. sync'.inst = sync.inst /\ sync'.kept = kept
    BY <1>a, <2>2 DEF SyncType
  <2>4. IsInjective(kept)
    BY <1>a, SublistsInjective
  <2>5. spec' = spec
    BY <1>3 DEF SyncList
  <2> QED BY <1>1, <2>3, <2>4, <2>5 DEF UniqueInv, UniqueStorages
<1>4. CASE SyncStep /\ ~SyncPrune /\ ~SyncList
  <2>1. spec' = spec
    BY <1>4 DEF SyncStep, SyncBegin, SettingsDisabled, SettingsConfigured,
      SettingsRejected, SyncRestores, SyncApply
  <2>2. CASE SyncBegin
    BY <1>1, <2>1, <2>2, EmptyInjective DEF SyncBegin, SyncIdle, UniqueInv, UniqueStorages
  <2>3. ASSUME NEW c, NEW broken, Settled(c, broken)
        PROVE  sync'.inst = NilSpec /\ sync'.kept = <<>>
    BY <1>a, <2>3 DEF Settled, SyncType
  <2>4. CASE SettingsDisabled \/ SettingsConfigured \/ SettingsRejected
    <3>1. \E c, broken : Settled(c, broken)
      BY <2>4, RejectedSettles DEF SettingsDisabled, SettingsConfigured
    <3> QED BY <1>1, <2>1, <2>3, <3>1, EmptyInjective DEF UniqueInv, UniqueStorages
  <2>5. CASE SyncRestores \/ SyncApply
    <3>1. \/ sync'.inst = NilSpec /\ sync'.kept = <<>>
          \/ sync'.inst = sync.inst /\ sync'.kept = sync.kept
      BY <1>a, <2>5 DEF SyncRestores, SyncApply, SyncIdle, SyncType
    <3> QED BY <1>1, <2>1, <3>1, EmptyInjective DEF UniqueInv, UniqueStorages
  <2> QED BY <1>4, <2>2, <2>4, <2>5 DEF SyncStep
<1>5. CASE SettingsFail \/ SyncFail
  BY <1>1, <1>5, EmptyInjective DEF SettingsFail, SyncFail, SyncIdle, UniqueInv, UniqueStorages
<1> QED BY <1>2, <1>3, <1>4, <1>5

LEMMA UniqueBackupStep ==
  ASSUME TypeOK, BusyOnBackup, UniqueInv,
         \/ BackupFail \/ ResolveStep \/ BackupWrite
         \/ \E b \in Backup : BackupBegin(b)
  PROVE  UniqueInv'
<1> USE DEF userVars
<1>a. bk \in BkType /\ bk.inst.storages \in Seq(Storage)
  BY DEF TypeOK, BkType, BackupSpecs
<1>b. UNCHANGED <<sync, cr>>
  BY DEF BackupFail, ResolveStep, ResolveNoCluster, ResolveUnlisted, ResolveListed,
    BackupWrite, BackupRegister, BackupCreate, BackupBegin
<1>1. CASE bk' = BackupIdle /\ spec' = spec
  BY <1>b, <1>1, EmptyInjective DEF BackupIdle, UniqueInv, UniqueStorages
<1>2. CASE BackupRegister
  <2>1. cr[bk.b].storage \in Storage
    BY <1>2 DEF BackupRegister, BusyOnBackup
  <2>2. spec'.storages = Append(bk.inst.storages, cr[bk.b].storage)
    BY <1>2 DEF BackupRegister, Register, TypeOK, BackupSpecs
  <2>3. IsInjective(spec'.storages)
    BY <1>a, <1>2, <2>1, <2>2, AppendStaysInjective DEF UniqueInv, BackupRegister
  <2> QED BY <1>b, <1>2, <2>3, EmptyInjective
          DEF BackupRegister, BackupIdle, UniqueInv, UniqueStorages
<1>3. CASE ResolveUnlisted /\ CanRegister
  <2>1. bk'.b = bk.b /\ bk'.inst = bk.inst /\ spec' = spec
    BY <1>a, <1>3 DEF ResolveUnlisted, BkType
  <2>2. cr[bk.b].storage \notin ToSet(bk.inst.storages)
    BY <1>3, UnlistedIsNew DEF ResolveUnlisted
  <2> QED BY <1>b, <2>1, <2>2 DEF UniqueInv, UniqueStorages
<1>4. CASE ResolveListed /\ bk' # BackupIdle
  <2>1. PICK k : bk' = [bk EXCEPT !.pc = "create", !.inst = NilSpec, !.slot = k]
    BY <1>4 DEF ResolveListed
  <2>2. bk'.pc = "create" /\ bk'.inst = NilSpec
    BY <1>a, <2>1 DEF BkType
  <2>3. spec' = spec
    BY <1>4 DEF ResolveListed
  <2> QED BY <1>b, <2>2, <2>3, EmptyInjective DEF UniqueInv, UniqueStorages
<1>5. ASSUME NEW b \in Backup, BackupBegin(b) PROVE UniqueInv'
  BY <1>b, <1>5 DEF BackupBegin, UniqueInv, UniqueStorages
<1>6. BackupFail \/ ResolveNoCluster \/ ResolveUnlisted \/ ResolveListed \/ BackupCreate =>
        spec' = spec
  BY DEF BackupFail, ResolveNoCluster, ResolveUnlisted, ResolveListed, BackupCreate
<1>7. BackupFail \/ ResolveNoCluster \/ (ResolveUnlisted /\ ~CanRegister) \/ BackupCreate =>
        bk' = BackupIdle
  BY DEF BackupFail, ResolveNoCluster, ResolveUnlisted, BackupCreate
<1> QED BY <1>1, <1>2, <1>3, <1>4, <1>5, <1>6, <1>7 DEF ResolveStep, BackupWrite

LEMMA UniqueOthersStep ==
  ASSUME TypeOK, BusyOnBackup, UniqueInv,
         \/ OperatorStep \/ UserStep
         \/ \E b \in Backup : BackupReport(b) \/ OperatorBackup(b)
  PROVE  UniqueInv'
<1> USE DEF userVars, Edit
<1>a. spec.storages \in Seq(Storage)
  BY DEF TypeOK, BackupSpecs
<1>b. UNCHANGED <<sync, bk>>
  BY DEF OperatorStep, OperatorInit, OperatorReady, RestoreStarts, RestoreEnds, UserStep,
    UserSwitches, UserChangesClass, UserRestores, UserAdds, UserRemoves, UserSchedules,
    UserChangesStorage, UserBacksUp, UserDeletesBackup, BackupReport, OperatorBackup
<1>1. bk.pc = "register" => cr'[bk.b].storage = cr[bk.b].storage
  <2>1. ASSUME NEW b \in Backup, NEW s \in Storage, UserBacksUp(b, s), bk.pc = "register"
        PROVE  cr'[bk.b] = cr[bk.b]
    BY <2>1 DEF UserBacksUp, BusyOnBackup
  <2>2. ASSUME NEW b \in Backup, UserDeletesBackup(b), bk.pc = "register"
        PROVE  cr'[bk.b].storage = cr[bk.b].storage
    <3>1. cr \in [Backup -> [state : {"absent", "live", "deleting"},
                             storage : Storage \cup {NoStorage}]]
      BY DEF TypeOK
    <3>2. cr' = [cr EXCEPT ![b] = [cr[b] EXCEPT !.state = "deleting"]] /\ bk.b \in Backup
      BY <2>2 DEF UserDeletesBackup, BusyOnBackup
    <3> QED BY <3>1, <3>2
  <2>3. \/ cr' = cr
        \/ \E b \in Backup, s \in Storage : UserBacksUp(b, s)
        \/ \E b \in Backup : UserDeletesBackup(b)
    BY DEF OperatorStep, OperatorInit, OperatorReady, RestoreStarts, RestoreEnds, UserStep,
      UserSwitches, UserChangesClass, UserRestores, UserAdds, UserRemoves, UserSchedules,
      UserChangesStorage, BackupReport, OperatorBackup
  <2> QED BY <2>1, <2>2, <2>3
<1>2. IsInjective(spec'.storages)
  <2>1. ASSUME NEW s \in Storage, UserAdds(s) PROVE IsInjective(spec'.storages)
    <3>1. spec'.storages = Append(spec.storages, s)
      BY <2>1 DEF UserAdds, TypeOK, BackupSpecs
    <3> QED BY <1>a, <2>1, <3>1, AppendStaysInjective DEF UserAdds, UniqueInv, UniqueStorages
  <2>2. ASSUME NEW s \in Storage, UserRemoves(s) PROVE IsInjective(spec'.storages)
    <3>1. PICK rest \in Sublists(spec.storages, Storage \ {s}) :
            spec' = [spec EXCEPT !.storages = rest, !.scheduled = @ \ {s}]
      BY <2>2 DEF UserRemoves
    <3>2. spec'.storages = rest
      BY <3>1 DEF TypeOK, BackupSpecs
    <3> QED BY <1>a, <3>2, SublistsInjective
  <2>3. ASSUME NEW s \in Storage, UserSchedules(s) PROVE spec'.storages = spec.storages
    BY <2>3 DEF UserSchedules, TypeOK, BackupSpecs
  <2>4. CASE UserSwitches
    BY <2>4 DEF UserSwitches, TypeOK, BackupSpecs, UniqueInv, UniqueStorages
  <2>5. CASE spec' = spec
    BY <2>5 DEF UniqueInv, UniqueStorages
  <2>6. \/ spec' = spec \/ UserSwitches
        \/ \E s \in Storage : UserAdds(s) \/ UserRemoves(s) \/ UserSchedules(s)
    BY DEF OperatorStep, OperatorInit, OperatorReady, RestoreStarts, RestoreEnds, UserStep,
      UserChangesClass, UserRestores, UserChangesStorage, UserBacksUp, UserDeletesBackup,
      BackupReport, OperatorBackup
  <2> QED BY <2>1, <2>2, <2>3, <2>4, <2>5, <2>6 DEF UniqueInv, UniqueStorages
<1> QED BY <1>b, <1>1, <1>2 DEF UniqueInv, UniqueStorages

(* However the patches of pruneUnreferencedStorages, autoRegisterStorage   *)
(* and users overwrite each other, no storage is ever listed twice, so no  *)
(* two repos of the cluster have one name.                                 *)
THEOREM StoragesStayUnique == Spec => []UniqueStorages
<1>1. Init => UniqueInv
  <2> SUFFICES ASSUME Init PROVE UniqueInv
    OBVIOUS
  <2>1. IsInjective(spec.storages)
    BY EmptyInjective, FirstListsAssumption DEF Init, FirstSpecs
  <2> QED BY <2>1, EmptyInjective
          DEF Init, UniqueInv, UniqueStorages, SyncIdle, BackupIdle
<1>2. SlotInv /\ UniqueInv /\ [Next]_vars => UniqueInv'
  <2> SUFFICES ASSUME SlotInv, UniqueInv, [Next]_vars PROVE UniqueInv'
    OBVIOUS
  <2>1. CASE UNCHANGED vars
    BY <2>1 DEF vars, UniqueInv, UniqueStorages
  <2>2. CASE Next
    BY <2>2, UniqueSyncStep, UniqueBackupStep, UniqueOthersStep DEF SlotInv, Next, Fault
  <2> QED BY <2>1, <2>2
<1>3. UniqueInv => UniqueStorages
  BY DEF UniqueInv
<1> QED BY <1>1, <1>2, <1>3, SlotInvHolds, PTL DEF Spec

=============================================================================
