---------------------------- MODULE BackupRepos ----------------------------
(***************************************************************************)
(* Backup storages, pgBackRest repos and on-demand backups of one          *)
(* Instance.                                                               *)
(*                                                                         *)
(* Two workers of the provider run concurrently: the Instance reconciler,  *)
(* whose Sync prunes unused storages from the Instance and writes the      *)
(* repos, their slot map and their credential Secrets to the cluster, and  *)
(* the Backup reconciler, whose SyncBackup registers missing storages on   *)
(* the Instance and creates the operator's backup on the repo of the       *)
(* storage.  They share only API objects, which they write without a       *)
(* resource version, so every API read and every API write is a step of    *)
(* its own here and everybody else may act in between.  Users edit the     *)
(* Instance, the Percona operator (external) reads the cluster.            *)
(***************************************************************************)
EXTENDS RepoSlots

CONSTANTS
  Backup,            \* names of Backup CRs on this Instance
  NoBackup,
  FirstLists,        \* storage lists an Instance may be created with
  UserMay,           \* which edits users make (see the User actions)
  DataSourceStorages,\* outcomes of resolving spec.dataSource while pruning
  MaxEdits,          \* bound: edits by users
  MaxFaults,         \* bound: failed API calls and restarts of the provider
  MaxRestores        \* bound: Restore CRs created

Unresolved == "source Backup not found"

ASSUME FirstListsAssumption ==
  \A l \in FirstLists : l \in Seq(Storage) /\ IsInjective(l)

ASSUME NoBackupAssumption == NoBackup \notin Backup

ASSUME BoundsAssumption ==
  MaxEdits \in Nat /\ MaxFaults \in Nat /\ MaxRestores \in Nat

VARIABLES
  spec,       \* the Instance's spec.backup
  present,    \* BackupStorage resources that exist
  classOK,    \* the BackupClass exists and accepts the Instance's settings
  cr,         \* Backup CRs: existence and storageRef
  phase,      \* the state SyncBackup last reported for each Backup
  cluster,    \* the PerconaPGCluster's backup settings and slot map
  creds,      \* the S3 credentials in each repo's Secret, by storage
  stanza,     \* the repos the operator has set up (status.pgbackrest)
  opState,    \* the cluster's status.state
  op,         \* PerconaPGBackups made by SyncBackup
  restore,    \* the Instance's Restore, if any
  sync,       \* Sync's worker: its place and what it has read
  bk,         \* SyncBackup's worker
  edits, faults, restores   \* what is left of the bounds

vars == <<spec, present, classOK, cr, phase, cluster, creds, stanza, opState,
          op, restore, sync, bk, edits, faults, restores>>

userVars     == <<present, classOK, cr, edits, restores>>
operatorVars == <<stanza, opState, restore>>

-----------------------------------------------------------------------------
(* spec.backup: nil (not declared), or a switch and a list of storages,    *)
(* some of them with schedules.  A merge patch replaces the list as a      *)
(* whole, schedules included.                                              *)

BackupSpecs == [declared : BOOLEAN, enabled : BOOLEAN,
                storages : Seq(Storage), scheduled : SUBSET Storage]

NilSpec == [declared |-> FALSE, enabled |-> FALSE,
            storages |-> <<>>, scheduled |-> {}]

NoCluster == [exists |-> FALSE, enabled |-> FALSE,
              repos |-> NoRepos, slotMap |-> NoSlotMap]

Clusters == [exists : BOOLEAN, enabled : BOOLEAN, repos : Repos, slotMap : SlotMaps]

(* The worker of Sync: where it is, the Instance it read, what it will     *)
(* prune or apply, and how the last call ended.                            *)
SyncIdle(outcome) ==
  [pc |-> "idle", inst |-> NilSpec, kept |-> <<>>, desired |-> NoCluster,
   broken |-> FALSE, outcome |-> outcome]

(* The worker of SyncBackup: where it is, for which Backup, the Instance   *)
(* it read and the slot it chose.                                          *)
BackupIdle == [pc |-> "idle", b |-> NoBackup, inst |-> NilSpec, slot |-> 0]

NoOp == [state |-> "absent", slot |-> 0, at |-> NoStorage]

(* An Instance as its author may first create it: storages without any     *)
(* schedule or each with one.                                              *)
FirstSpecs ==
  {NilSpec} \cup
  UNION {{[declared |-> TRUE, enabled |-> e, storages |-> l, scheduled |-> d] :
            e \in BOOLEAN, d \in {{}, ToSet(l)}} : l \in FirstLists}

Init ==
  /\ spec \in FirstSpecs
  /\ present = Storage
  /\ classOK = TRUE
  /\ cr = [b \in Backup |-> [state |-> "absent", storage |-> NoStorage]]
  /\ phase = [b \in Backup |-> "None"]
  /\ cluster = NoCluster
  /\ creds = NoRepos
  /\ stanza = NoRepos
  /\ opState = "unknown"
  /\ op = [b \in Backup |-> NoOp]
  /\ restore = "none"
  /\ sync = SyncIdle("none")
  /\ bk = BackupIdle
  /\ edits = 0
  /\ faults = 0
  /\ restores = 0


-----------------------------------------------------------------------------
(* Lists of storages.  Sublists holds the one list of the given names in   *)
(* the order of list (lists name a storage once, see UniqueStorages).      *)

Sublists(list, names) ==
  LET S == names \cap ToSet(list)
  IN  {k \in [1 .. Cardinality(S) -> S] :
         \A i, j \in DOMAIN k : i < j => Precedes(list, k[i], k[j])}

Backups == spec.declared /\ spec.enabled

Alive(b) == cr[b].state = "live"

-----------------------------------------------------------------------------
(* Sync, the Instance worker.                                              *)

(* The runtime reads the Instance and calls Sync.                          *)
SyncBegin ==
  /\ sync.pc = "idle"
  /\ sync' = [SyncIdle("none") EXCEPT !.pc = "list", !.inst = spec]
  /\ UNCHANGED <<spec, phase, cluster, creds, op, bk, faults, userVars, operatorVars>>

(* What pruneUnreferencedStorages keeps, from the Backup CRs there are now *)
(* (the faulty variants overlook Backups: all, or those not yet started).  *)
ReferencedByNone == {}

ReferencedByData ==
  {cr[b].storage : b \in {x \in Backup : Alive(x) /\ op[x].state # "absent"}}

Referenced == {cr[b].storage : b \in {x \in Backup : Alive(x)}}

Needed(inst, dataSource) ==
  IF dataSource = Unresolved
  THEN ToSet(inst.storages)
  ELSE {s \in ToSet(inst.storages) :
          s \in inst.scheduled \/ s \in Referenced \/ s = dataSource}

SyncList ==
  /\ sync.pc = "list"
  /\ \E ds \in DataSourceStorages : \E kept \in Sublists(sync.inst.storages, Needed(sync.inst, ds)) :
       sync' = [sync EXCEPT
                  !.pc   = IF Len(kept) = Len(sync.inst.storages) THEN "settings" ELSE "prune",
                  !.kept = kept]
  /\ UNCHANGED <<spec, phase, cluster, creds, op, bk, faults, userVars, operatorVars>>

(* The merge patch against the Instance that was read: the list replaces   *)
(* the live one; enabled is in it only if it changes what was read.        *)
Prune(s) ==
  [s EXCEPT !.storages  = sync.kept,
            !.scheduled = sync.inst.scheduled,
            !.enabled   = IF sync.kept = <<>> /\ sync.inst.enabled THEN FALSE ELSE @]

SyncPrune ==
  /\ sync.pc = "prune"
  /\ spec' = Prune(spec)
  /\ sync' = [sync EXCEPT
                !.pc   = "settings",
                !.inst = [@ EXCEPT !.storages = sync.kept,
                                   !.enabled  = @ /\ sync.kept # <<>>]]
  /\ UNCHANGED <<phase, cluster, creds, op, bk, faults, userVars, operatorVars>>

(* applyBackupSettings against the live cluster's slot map.                *)
SlotMapNow == reconcileRepoSlotMap(cluster.slotMap, sync.inst.storages)

Refused(i) ==
  \/ sync.inst.storages[i] \notin DOMAIN SlotMapNow   \* SlotAssignmentFailed
  \/ sync.inst.storages[i] \notin present             \* StorageNotFound

(* The Secrets once the loop has handled the first n storages: each Secret *)
(* is named after the repo and written before the cluster is.              *)
CredsAfter(n) ==
  LET repos == ReposOf(SlotMapNow)
  IN  [k \in Slots |-> IF \E i \in 1 .. n : sync.inst.storages[i] = repos[k]
                       THEN repos[k] ELSE creds[k]]

(* The Secrets after the whole loop, with those of unused slots deleted    *)
(* (the faulty variant leaves them).                                       *)
CredsUncleaned == CredsAfter(Len(sync.inst.storages))

CredsCleaned == ReposOf(SlotMapNow)

Wanted == sync.inst.declared /\ sync.inst.enabled

Settled(desired, broken) ==
  sync' = [sync EXCEPT !.pc = "restores", !.inst = NilSpec, !.kept = <<>>,
                       !.desired = desired, !.broken = broken]

SettingsDisabled ==
  /\ sync.pc = "settings"
  /\ ~Wanted
  /\ Settled([NoCluster EXCEPT !.exists = TRUE], FALSE)
  /\ creds' = NoRepos
  /\ UNCHANGED <<spec, phase, cluster, op, bk, faults, userVars, operatorVars>>

SettingsConfigured ==
  /\ sync.pc = "settings"
  /\ Wanted /\ classOK /\ sync.inst.storages # <<>>
  /\ \A i \in DOMAIN sync.inst.storages : ~Refused(i)
  /\ Settled([exists |-> TRUE, enabled |-> TRUE,
              repos |-> ReposOf(SlotMapNow), slotMap |-> SlotMapNow], FALSE)
  /\ creds' = CredsCleaned
  /\ UNCHANGED <<spec, phase, cluster, op, bk, faults, userVars, operatorVars>>

(* Where applyBackupSettings ends with a BackupConfigError: at the class,  *)
(* at an empty list, or at the i-th storage.  A call that fails there      *)
(* (lookup = 1: of the class, the BackupStorage or its credentials) is     *)
(* taken for a mistake in the configuration, too.                          *)
ClassRefused(lookup) ==
  /\ ~classOK \/ lookup = 1
  /\ creds' = creds

ListRefused(lookup) ==
  /\ classOK /\ lookup = 0
  /\ sync.inst.storages = <<>>
  /\ creds' = creds

StorageRefused(i, lookup) ==
  /\ classOK
  /\ IF lookup = 1 THEN sync.inst.storages[i] \in DOMAIN SlotMapNow ELSE Refused(i)
  /\ \A j \in 1 .. (i - 1) : ~Refused(j)
  /\ creds' = CredsAfter(i - 1)

(* Sync goes on with the live cluster's settings, if it can read them      *)
(* (unread = 0); otherwise with what applyBackupSettings left in the new   *)
(* object: Enabled is set once the class has been accepted, the repos never*)
(* are.                                                                    *)
GoesOn(accepted, unread) ==
  /\ unread = 1 => cluster.exists
  /\ Settled(IF cluster.exists /\ unread = 0 THEN cluster
             ELSE [NoCluster EXCEPT !.exists = TRUE, !.enabled = accepted], TRUE)

SettingsRejected ==
  /\ sync.pc = "settings"
  /\ Wanted
  /\ \E lookup, unread \in 0 .. 1 :
       /\ \/ ClassRefused(lookup) /\ GoesOn(FALSE, unread)
          \/ ListRefused(lookup) /\ GoesOn(TRUE, unread)
          \/ \E i \in DOMAIN sync.inst.storages :
               StorageRefused(i, lookup) /\ GoesOn(TRUE, unread)
       /\ faults' = faults + lookup + unread
       /\ faults' <= MaxFaults
  /\ UNCHANGED <<spec, phase, cluster, op, bk, userVars, operatorVars>>

(* An API call fails while Secrets are being written or deleted: those of  *)
(* the first n slots, storages or again slots have been handled.           *)
SettingsFail ==
  /\ sync.pc = "settings"
  /\ faults < MaxFaults
  /\ \/ /\ ~Wanted
        /\ \E n \in Slots : creds' = [k \in Slots |-> IF k < n THEN NoStorage ELSE creds[k]]
     \/ /\ Wanted /\ classOK
        /\ \E n \in 0 .. Len(sync.inst.storages) :
             /\ \A i \in 1 .. n : ~Refused(i)
             /\ creds' = CredsAfter(n)
     \/ /\ Wanted /\ classOK /\ sync.inst.storages # <<>>
        /\ \A i \in DOMAIN sync.inst.storages : ~Refused(i)
        /\ \E n \in Slots :
             creds' = [k \in Slots |-> IF k < n THEN CredsCleaned[k] ELSE CredsUncleaned[k]]
  /\ sync' = SyncIdle("error")
  /\ faults' = faults + 1
  /\ UNCHANGED <<spec, phase, cluster, op, bk, userVars, operatorVars>>

(* isRestoreRunning: any Restore CR of the Instance without a final state  *)
(* (the faulty variant: any Restore CR).                                   *)
EverRestored == restore # "none"

Restoring == restore \in {"requested", "running"}

SyncRestores ==
  /\ sync.pc = "restores"
  /\ sync' = IF Restoring THEN SyncIdle("skipped") ELSE [sync EXCEPT !.pc = "apply"]
  /\ UNCHANGED <<spec, phase, cluster, creds, op, bk, faults, userVars, operatorVars>>

SyncApply ==
  /\ sync.pc = "apply"
  /\ cluster' = sync.desired
  /\ sync' = SyncIdle(IF sync.broken THEN "configError" ELSE "applied")
  /\ UNCHANGED <<spec, phase, creds, op, bk, faults, userVars, operatorVars>>

(* Any other call fails, or the provider restarts: Sync starts over.       *)
SyncFail ==
  /\ sync.pc \notin {"idle", "settings"}
  /\ faults < MaxFaults
  /\ faults' = faults + 1
  /\ sync' = SyncIdle("error")
  /\ UNCHANGED <<spec, phase, cluster, creds, op, bk, userVars, operatorVars>>

-----------------------------------------------------------------------------
(* SyncBackup, the Backup worker, for on-demand Backups.                   *)

BackupBegin(b) ==
  /\ bk.pc = "idle"
  /\ Alive(b) /\ op[b].state = "absent"
  /\ bk' = [pc |-> "resolve", b |-> b, inst |-> spec, slot |-> 0]
  /\ UNCHANGED <<spec, phase, cluster, creds, op, sync, faults, userVars, operatorVars>>

(* storageNameToRepoName: the live slot map, reconciled with the storages  *)
(* of the Instance that the worker read.                                   *)
Resolved == reconcileRepoSlotMap(cluster.slotMap, bk.inst.storages)

Found == bk.inst.declared /\ cr[bk.b].storage \in DOMAIN Resolved

(* The gates in front of creating the operator's backup, by repo name.     *)
RepoReady(k) ==
  /\ cluster.enabled
  /\ hasRepo(cluster.repos, k)
  /\ opState # "initializing"
  /\ hasRepo(stanza, k)     \* isStanzaCreated

Reports(b, state) == phase' = [phase EXCEPT ![b] = state]

ResolveNoCluster ==
  /\ bk.pc = "resolve" /\ ~cluster.exists
  /\ Reports(bk.b, "Failed")
  /\ bk' = BackupIdle
  /\ UNCHANGED <<spec, cluster, creds, op, sync, faults, userVars, operatorVars>>

(* autoRegisterStorage, up to its patch (the faulty variant lacks the      *)
(* limit).                                                                 *)
CanRegisterMore ==
  cr[bk.b].storage \in present /\ bk.inst.declared

CanRegister ==
  /\ cr[bk.b].storage \in present
  /\ bk.inst.declared
  /\ Len(bk.inst.storages) < MaxRepos

ResolveUnlisted ==
  /\ bk.pc = "resolve" /\ cluster.exists /\ ~Found
  /\ IF CanRegister
     THEN bk' = [bk EXCEPT !.pc = "register"] /\ phase' = phase
     ELSE /\ Reports(bk.b, IF cr[bk.b].storage \in present /\ bk.inst.declared
                           THEN "Failed" ELSE "Pending")
          /\ bk' = BackupIdle
  /\ UNCHANGED <<spec, cluster, creds, op, sync, faults, userVars, operatorVars>>

ResolveListed ==
  /\ bk.pc = "resolve" /\ cluster.exists /\ Found
  /\ LET k == Resolved[cr[bk.b].storage]
     IN  IF RepoReady(k)
         THEN bk' = [bk EXCEPT !.pc = "create", !.inst = NilSpec, !.slot = k] /\ phase' = phase
         ELSE Reports(bk.b, "Pending") /\ bk' = BackupIdle
  /\ UNCHANGED <<spec, cluster, creds, op, sync, faults, userVars, operatorVars>>

(* The merge patch of autoRegisterStorage, against the Instance read.      *)
Register(s) ==
  [s EXCEPT !.storages  = Append(bk.inst.storages, cr[bk.b].storage),
            !.scheduled = bk.inst.scheduled,
            !.enabled   = IF bk.inst.enabled THEN @ ELSE TRUE]

BackupRegister ==
  /\ bk.pc = "register"
  /\ spec' = Register(spec)
  /\ Reports(bk.b, "Pending")
  /\ bk' = BackupIdle
  /\ UNCHANGED <<cluster, creds, op, sync, faults, userVars, operatorVars>>

BackupCreate ==
  /\ bk.pc = "create"
  /\ op' = [op EXCEPT ![bk.b] = [state |-> "new", slot |-> bk.slot, at |-> NoStorage]]
  /\ Reports(bk.b, "Pending")
  /\ bk' = BackupIdle
  /\ UNCHANGED <<spec, cluster, creds, sync, faults, userVars, operatorVars>>

(* The operator's backup exists: its state is mapped.                      *)
BackupReport(b) ==
  /\ bk.pc = "idle"
  /\ Alive(b) /\ op[b].state # "absent"
  /\ Reports(b, CASE op[b].state = "succeeded" -> "Succeeded"
                  [] op[b].state = "failed"    -> "Failed"
                  [] OTHER                     -> "Pending")
  /\ UNCHANGED <<spec, cluster, creds, op, sync, bk, faults, userVars, operatorVars>>

(* A call fails, or the provider restarts: the Backup is synced again.     *)
(* But whatever goes wrong in autoRegisterStorage is reported as Failed.   *)
BackupFail ==
  /\ bk.pc # "idle"
  /\ faults < MaxFaults
  /\ faults' = faults + 1
  /\ \/ phase' = phase
     \/ /\ bk.pc = "register" \/ (bk.pc = "resolve" /\ cluster.exists /\ ~Found)
        /\ Reports(bk.b, "Failed")
  /\ bk' = BackupIdle
  /\ UNCHANGED <<spec, cluster, creds, op, sync, userVars, operatorVars>>

-----------------------------------------------------------------------------
(* Users: kubectl and the API server's checks make each edit atomic.       *)

Edit(kind) ==
  /\ kind \in UserMay
  /\ edits < MaxEdits
  /\ edits' = edits + 1
  /\ UNCHANGED <<phase, cluster, creds, op, sync, bk, faults, cr, restores, operatorVars>>

UserSwitches ==
  /\ Edit("switch")
  /\ spec' = [spec EXCEPT !.declared = TRUE, !.enabled = ~@]
  /\ UNCHANGED <<present, classOK>>

UserAdds(s) ==
  /\ Edit("add")
  /\ s \notin ToSet(spec.storages)
  /\ spec' = [spec EXCEPT !.declared = TRUE, !.storages = Append(@, s)]
  /\ UNCHANGED <<present, classOK>>

UserRemoves(s) ==
  /\ Edit("remove")
  /\ s \in ToSet(spec.storages)
  /\ \E rest \in Sublists(spec.storages, Storage \ {s}) :
       spec' = [spec EXCEPT !.storages = rest, !.scheduled = @ \ {s}]
  /\ UNCHANGED <<present, classOK>>

UserSchedules(s) ==
  /\ Edit("schedule")
  /\ s \in ToSet(spec.storages)
  /\ spec' = [spec EXCEPT !.scheduled = IF s \in @ THEN @ \ {s} ELSE @ \cup {s}]
  /\ UNCHANGED <<present, classOK>>

UserChangesStorage(s) ==
  /\ Edit("storage")
  /\ present' = IF s \in present THEN present \ {s} ELSE present \cup {s}
  /\ UNCHANGED <<spec, classOK>>

UserChangesClass ==
  /\ Edit("class")
  /\ classOK' = ~classOK
  /\ UNCHANGED <<spec, present>>

UserBacksUp(b, s) ==
  /\ cr[b].state = "absent"
  /\ cr' = [cr EXCEPT ![b] = [state |-> "live", storage |-> s]]
  /\ UNCHANGED <<spec, phase, cluster, creds, op, sync, bk, faults,
                 present, classOK, edits, restores, operatorVars>>

UserDeletesBackup(b) ==
  /\ "delete" \in UserMay
  /\ Alive(b)
  /\ cr' = [cr EXCEPT ![b].state = "deleting"]
  /\ UNCHANGED <<spec, phase, cluster, creds, op, sync, bk, faults,
                 present, classOK, edits, restores, operatorVars>>

UserRestores ==
  /\ restores < MaxRestores
  /\ ~Restoring
  /\ restore' = "requested"
  /\ restores' = restores + 1
  /\ UNCHANGED <<spec, phase, cluster, creds, op, sync, bk, faults,
                 present, classOK, cr, edits, stanza, opState>>

UserStep ==
  \/ UserSwitches \/ UserChangesClass \/ UserRestores
  \/ \E s \in Storage : \/ UserAdds(s) \/ UserRemoves(s)
                        \/ UserSchedules(s) \/ UserChangesStorage(s)
  \/ \E b \in Backup, s \in Storage : UserBacksUp(b, s)
  \/ \E b \in Backup : UserDeletesBackup(b)

-----------------------------------------------------------------------------
(* The Percona operator: it sets up the repos it finds in the cluster,     *)
(* with the cluster "initializing" meanwhile, and runs backups and         *)
(* restores.  It leaves the settings it was given alone.                   *)

OperatorInit ==
  /\ cluster.exists /\ stanza # cluster.repos
  /\ opState # "initializing"
  /\ opState' = "initializing"
  /\ UNCHANGED <<spec, phase, cluster, creds, op, sync, bk, faults, userVars,
                 stanza, restore>>

OperatorReady ==
  /\ cluster.exists
  /\ opState = "initializing" \/ (opState = "unknown" /\ stanza = cluster.repos)
  /\ stanza' = cluster.repos
  /\ opState' = "ready"
  /\ UNCHANGED <<spec, phase, cluster, creds, op, sync, bk, faults, userVars, restore>>

(* A backup job writes to whatever storage its repo is set up with.        *)
OperatorBackup(b) ==
  /\ op[b].state = "new"
  /\ opState = "ready" /\ stanza = cluster.repos
  /\ \E state \in {"succeeded", "failed"} :
       /\ state = "succeeded" => hasRepo(stanza, op[b].slot)
       /\ op' = [op EXCEPT ![b] = [@ EXCEPT !.state = state,
                   !.at = IF state = "succeeded" THEN stanza[op[b].slot] ELSE NoStorage]]
  /\ UNCHANGED <<spec, phase, cluster, creds, sync, bk, faults, userVars, operatorVars>>

(* SyncRestore creates the operator's restore, or fails; the restore ends. *)
RestoreStarts ==
  /\ restore = "requested"
  /\ restore' \in {"running", "done"}
  /\ UNCHANGED <<spec, phase, cluster, creds, op, sync, bk, faults, userVars,
                 stanza, opState>>

RestoreEnds ==
  /\ restore = "running"
  /\ restore' = "done"
  /\ UNCHANGED <<spec, phase, cluster, creds, op, sync, bk, faults, userVars,
                 stanza, opState>>

-----------------------------------------------------------------------------

SyncStep ==
  \/ SyncBegin \/ SyncList \/ SyncPrune
  \/ SettingsDisabled \/ SettingsConfigured \/ SettingsRejected
  \/ SyncRestores \/ SyncApply

ResolveStep == ResolveNoCluster \/ ResolveUnlisted \/ ResolveListed

BackupWrite == BackupRegister \/ BackupCreate

Fault == SettingsFail \/ SyncFail \/ BackupFail

OperatorStep ==
  \/ OperatorInit \/ OperatorReady
  \/ RestoreStarts \/ RestoreEnds

Next ==
  \/ SyncStep \/ ResolveStep \/ BackupWrite \/ Fault
  \/ OperatorStep \/ UserStep
  \/ \E b \in Backup : BackupBegin(b) \/ BackupReport(b) \/ OperatorBackup(b)

Spec == Init /\ [][Next]_vars

(* The runtime calls Sync again after every change it watches, after every *)
(* error and periodically, and keeps calling SyncBackup for a Backup that  *)
(* has not ended (a failed one it may leave alone); its queue is first in, *)
(* first out, so that no Backup is passed over for ever (strong fairness:  *)
(* the one worker serves them all).  Nothing is assumed of users, faults.  *)
Fairness ==
  /\ WF_vars(SyncStep)
  /\ WF_vars(ResolveStep)
  /\ WF_vars(BackupWrite)
  /\ WF_vars(OperatorInit \/ OperatorReady)
  /\ WF_vars(RestoreStarts \/ RestoreEnds)
  /\ \A b \in Backup : /\ SF_vars(BackupBegin(b) /\ phase[b] # "Failed")
                       /\ SF_vars(BackupReport(b))
                       /\ WF_vars(OperatorBackup(b))

FairSpec == Spec /\ Fairness

-----------------------------------------------------------------------------
(* Safety.                                                                 *)

TypeOK ==
  /\ spec \in BackupSpecs
  /\ present \subseteq Storage
  /\ classOK \in BOOLEAN
  /\ cr \in [Backup -> [state : {"absent", "live", "deleting"},
                        storage : Storage \cup {NoStorage}]]
  /\ phase \in [Backup -> {"None", "Pending", "Succeeded", "Failed"}]
  /\ cluster \in Clusters
  /\ creds \in Repos
  /\ stanza \in Repos
  /\ opState \in {"unknown", "initializing", "ready"}
  /\ op \in [Backup -> [state : {"absent", "new", "succeeded", "failed"},
                        slot : Slots, at : Storage \cup {NoStorage}]]
  /\ restore \in {"none", "requested", "running", "done"}
  /\ sync \in [pc : {"idle", "list", "prune", "settings", "restores", "apply"},
               inst : BackupSpecs, kept : Seq(Storage), desired : Clusters,
               broken : BOOLEAN,
               outcome : {"none", "error", "skipped", "configError", "applied"}]
  /\ bk \in [pc : {"idle", "resolve", "register", "create"},
             b : Backup \cup {NoBackup}, inst : BackupSpecs, slot : Slots]
  /\ edits \in 0 .. MaxEdits /\ faults \in 0 .. MaxFaults /\ restores \in 0 .. MaxRestores

(* The slot map and the repos of a cluster say the same: every slot in the *)
(* map is a configured repo of that storage and every repo is in the map.  *)
(* So two storages never share a repo, and the reverse lookup by repo name *)
(* (repoNameToStorageName) is a function.                                  *)
Agree(c) ==
  /\ \A s \in DOMAIN c.slotMap : c.repos[c.slotMap[s]] = s
  /\ \A k \in Slots : hasRepo(c.repos, k) =>
       c.repos[k] \in DOMAIN c.slotMap /\ c.slotMap[c.repos[k]] = k

(* Whatever the order of edits, prunes, registrations, failures and        *)
(* restarts, the live cluster's map and repos agree (applyBackupSettings   *)
(* and the BackupConfigError path of Sync).                                *)
SlotsAgree == Agree(cluster)

(* No apply moves a storage from one repo to another (the repo-slot-map    *)
(* annotation: "prevents repo slots from shifting when storages are added  *)
(* or removed").                                                           *)
SlotsAreSticky ==
  [][\A s \in DOMAIN cluster.slotMap \cap DOMAIN cluster'.slotMap :
       cluster'.slotMap[s] = cluster.slotMap[s]]_vars

(* After a Sync that ended well every repo of the cluster has a Secret     *)
(* with the credentials of its own storage, and no Secret is left over,    *)
(* although Secrets and cluster are written by separate calls of which any *)
(* may fail, and slots change hands.                                       *)
CredentialsMatch == sync.outcome = "applied" => creds = cluster.repos

(* Two patches that each replace the whole list, from Instances read at    *)
(* different times, never make a storage appear twice (two repos of the    *)
(* same name): a storage that has no slot because all are taken is not     *)
(* taken for one that is not registered.                                   *)
UniqueStorages == IsInjective(spec.storages)

-----------------------------------------------------------------------------
(* Liveness.                                                               *)

Waiting(b) == Alive(b) /\ op[b].state = "absent"

(* An on-demand Backup gets its operator backup or a reported failure (or  *)
(* is deleted), unless backups end up switched off for good: registration  *)
(* and pruning, which undo each other, do not starve it.                   *)
BackupIsTaken ==
  \A b \in Backup :
    Waiting(b) ~> (~Waiting(b) \/ phase[b] = "Failed" \/ [](~spec.enabled))

(* The provider's own patches of the Instance come to an end: pruning and  *)
(* registering do not chase each other for ever.                           *)
InstanceSettles == <>[][UNCHANGED spec]_vars

(* In the end the cluster has a slot and a repo for exactly the listed     *)
(* storages, each repo's Secret holds the credentials of its own storage   *)
(* and no other Secret is left, although slots change hands and Secrets    *)
(* are rewritten by Syncs that a restore keeps from applying (enabled      *)
(* without storages is rejected and leaves the cluster as it was).         *)
Listed == IF Backups THEN ToSet(spec.storages) ELSE {}

ClusterFollows ==
  <>[](\/ Backups /\ spec.storages = <<>>
       \/ /\ DOMAIN cluster.slotMap = Listed
          /\ Range(cluster.repos) \ {NoStorage} = Listed
          /\ creds = cluster.repos)

-----------------------------------------------------------------------------
(* What comments and tests of the repository say and the code does not     *)
(* guarantee: each is violated (see the findings in README.md).            *)

(* The data of an on-demand Backup is in the storage its spec names.       *)
DataInItsStorage ==
  \A b \in Backup : op[b].state = "succeeded" => op[b].at = cr[b].storage

(* While a Backup and its storage exist, the storage stays at the repo     *)
(* the backup was written through.                                         *)
BackupsKeepTheirRepo ==
  \A b \in Backup :
    (Alive(b) /\ op[b].state = "succeeded" /\ op[b].at \in DOMAIN cluster.slotMap)
      => cluster.slotMap[op[b].at] = op[b].slot

(* Nothing is applied to the cluster while a restore is running.           *)
RestoreHasControl == [][restore = "running" => cluster' = cluster]_vars

(* A Sync that reports a configuration error leaves the setup of the live  *)
(* cluster, its repos and their credentials, working.                      *)
ConfigErrorKeepsSetup ==
  sync.outcome = "configError" =>
    \A k \in Slots : hasRepo(cluster.repos, k) => creds[k] = cluster.repos[k]

(* A storage registered for a Backup does not leave it pending for ever.   *)
RegisteredBackupRuns ==
  \A b \in Backup :
    (bk.pc = "register" /\ bk.b = b) ~> (~Waiting(b) \/ phase[b] = "Failed")

=============================================================================
