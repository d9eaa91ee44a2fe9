# Verification of provider-percona-postgresql

The provider turns OpenEverest resources (Instance, Backup, Restore, BackupStorage,
BackupClass) into resources of the Percona PostgreSQL operator. Most of its code
translates fields; what is hard in it are the few places where several reconcilers
write the same API objects without locks: backup storages, pgBackRest repos,
backups and restores, the cluster's monitoring and its status. That is what this project models.

## 1. The system

### Components

| Component | Source (`src/internal/provider/`) | State it keeps | Operations |
|---|---|---|---|
| Instance reconciler | `provider.go` | the PerconaPGCluster, the pgBackRest credential Secrets; it also patches the Instance | `Sync`, `Status`, `Cleanup` |
| Backup storages | `backup_mirror.go` | `spec.backup` of the Instance (shared with users), the slot map annotation, Secrets | `pruneUnreferencedStorages`, `autoRegisterStorage`, `applyBackupSettings`, `reconcileRepoSlotMap`, `storageNameToRepoName` |
| Backup reconciler | `backup.go` | PerconaPGBackups, the Backup's reported state | `SyncBackup`, `CleanupBackup` |
| Mirroring | `backup_mirror.go` | Backup CRs for scheduled backups | `Mirror` |
| Restore reconciler | `backup.go`, `datasource.go` | PerconaPGRestores, the Restore's reported state, the bootstrap source of a new cluster | `SyncRestore`, `CleanupRestore`, `applyDataSourceBootstrap` |
| Recovery window | `backup_status.go` | nothing | `BackupStorageStatuses` |
| Monitoring | `monitoring.go` | the PMM Secret, `spec.pmm` of the cluster | `applyPMM`, `renderPMM`, `mirrorPMMToken`, `deletePMMSecret` |
| Schedules | `backup_mirror.go` | nothing | `buildPGBackRestSchedules`, `applyRetentionConfig`, `deriveScheduleName` |
| Configuration | `validate.go`, `engine_config.go`, `proxy_config.go`, `scheduling.go`, `spec.go` | nothing | pure functions of one Instance |
| Around it | `cmd/provider`, `rbac.go`, `definition/`, `charts/`, `test/` | nothing | wiring, declarations, tests |

Outside this repository: the provider runtime, which watches, queues and calls the
operations above; the Percona operator; the Kubernetes API; users.

### How they interact

All communication is through API objects. The runtime calls each reconciler from
a work queue of its own, so `Sync` of an Instance and `SyncBackup` or `SyncRestore`
of its Backups and Restores run at the same time, and each works on the Instance
it was given, which may be old. The provider patches the Instance with merge patches that carry no
resource version: a patch computed from an old Instance replaces the whole list of
storages, and leaves `enabled` alone if the old Instance already had the wanted
value. The cluster is written by `Sync` only. The operator reads the cluster, sets up the repos (status
`initializing`, then a stanza for each repo) and runs the backups and restores.

### What makes the components correct

* Slots: every listed storage has one slot while there are enough, no two share one, and a
  storage stays at its slot.
* Repos and Secrets: the cluster's repo list, its slot map and the credential
  Secrets say the same after every successful `Sync`, although they are written by separate calls.
* Registration and pruning: they do not undo each other for ever, lose a storage or list one twice.
* Backups: an on-demand Backup is taken or reported as failed, and its data goes to the storage it names.
* Restores: nobody changes the cluster while one runs; the cluster catches up afterwards; a Restore ends.
* Mirroring and deletion: a scheduled backup is mirrored once, under the right storage; deletion
  purges data or retains it, as asked.
* Seeding: a new cluster starts from its data source or not at all.
* Monitoring: agents that run have a token; what is not known does not switch PMM off.
* Deletion of an Instance: it ends, and leaves no cluster and no Secret behind.
* Settings and status: what `Validate` accepts `Sync` can translate; Ready comes with an endpoint that serves; no event that matters is without a watch.

The `hazards` list in PROJECT.json has the single places in the code, each at its line.

## 2. Modules

| Module | Content |
|---|---|
| `RepoSlots` | the pure functions on slot maps and repos: `reconcileRepoSlotMap`, the repo list, `hasRepo` |
| `BackupSchedules` | the pure functions on schedules: jobs, retention, the name a generated backup is mirrored under |
| `MCRepoSlots` | both over every bounded input, with the Go loops as reference |
| `RepoSlotsProofs` | theorems about `reconcileRepoSlotMap` |
| `MCRepoSlotsProofs` | what `MCRepoSlots` checks, proved for all inputs |
| `BackupRepos`, `MCBackupRepos`, `BackupReposProofs` | `Sync` and `SyncBackup` around `spec.backup`, the cluster and the Secrets; users and the operator |
| `BackupStore` | abstract specification: what users are promised about the data of backups |
| `BackupLifecycle`, `MCBackupLifecycle`, `BackupLifecycleProofs` | `Mirror`, the creation in `SyncBackup`, `CleanupBackup`, the backups a recovery window rests on; implements `BackupStore` |
| `RestoreContract` | abstract specification: what the user of a Restore is promised |
| `RestoreLifecycle`, `MCRestoreLifecycle`, `RestoreLifecycleProofs` | `SyncRestore`, `CleanupRestore` and seeding in `Sync`; users, Backups and the operator; implements `RestoreContract` |
| `InstanceLifecycle`, `InstanceLifecycleProofs` | monitoring in `Sync` (`applyPMM`), and `Cleanup` |
| `InstanceSettings` | the pure functions of an Instance: `Validate`, images and versions, Services, spread constraints, and `Sync`'s translation |
| `InstanceStatus`, `MCInstanceStatus`, `InstanceStatusProofs` | events, `Sync`'s write of the cluster and `Status`'s reads of it, over a lagging cache and the operator's own pace |

`RepoSlots` is shared by `BackupRepos` and `BackupLifecycle`. The latter takes `Sync` as one action (`SyncApplies`: another list of storages is
applied), whose steps are in `BackupRepos`; `RestoreLifecycle`, `InstanceLifecycle` and `InstanceStatus` follow other parts of the same `Sync`, each with the restore check and
the apply in the order of the code.

### RepoSlots

A slot map is a partial function from storages to `0 .. MaxRepos - 1`. The Go function
walks the list and gives each new storage the lowest free slot. The module says the same without a
loop: the n-th new storage of the list takes the n-th free slot (`Takes`, by counting the
new storages before it and the free slots below). This form needs no induction in proofs; `MCRepoSlots` has the
loop as a recursive function, TLC compares the two and `MCRepoSlotsProofs` proves them equal.

### BackupRepos

| Variables | Code |
|---|---|
| `spec`, `present`, `classOK`, `cr` | `spec.backup`; the BackupStorages; whether the class accepts the settings; the Backups |
| `phase` | what `SyncBackup` reports |
| `cluster` | PerconaPGCluster: `backups.enabled`, the repos, the slot map annotation |
| `creds` | the Secret of each repo, as the storage whose credentials it holds |
| `stanza`, `opState`, `op`, `restore` | the operator's side: repos that are set up, the cluster's state, PerconaPGBackups, a Restore |
| `sync`, `bk` | program counter and local variables of the two workers |
| `edits`, `faults`, `restores` | what is used up of the bounds |

Each call to the API that can see or cause a change by somebody else is a step of its own:

| `Sync` | |
|---|---|
| `SyncBegin` | the Instance is read |
| `SyncList` | Backups are listed; what is still needed is computed |
| `SyncPrune` | the merge patch against the Instance that was read |
| `SettingsDisabled`, `SettingsConfigured`, `SettingsRejected` | `applyBackupSettings` in its three outcomes, with the Secrets it writes |
| `SyncRestores` | `isRestoreRunning` |
| `SyncApply` | the cluster is written |
| `SettingsFail`, `SyncFail` | a call fails midway, or the provider restarts |

| `SyncBackup` | |
|---|---|
| `BackupBegin` | the Instance is read; there is no operator backup yet |
| `ResolveNoCluster`, `ResolveUnlisted`, `ResolveListed` | the cluster is read, the repo resolved, the gates passed or not |
| `BackupRegister` | the merge patch of `autoRegisterStorage` |
| `BackupCreate` | the PerconaPGBackup is created |
| `BackupReport` | its state is mapped |
| `BackupFail` | a call fails (inside `autoRegisterStorage` this reports `Failed`) |

`applyBackupSettings` is one step although it writes several Secrets: only `Sync` writes or reads
Secrets and the cluster, so nobody can act on what lies between; its failures in the middle are
`SettingsFail`, with every prefix of the writes and of the deletions. The same holds for its read of the cluster.
`SettingsRejected` ends at the class (`ClassRefused`), at an empty list (`ListRefused`) or at a storage (`StorageRefused`). A lookup of the class, of a BackupStorage or of its
credentials that merely fails is a configuration error in the code too, so it is one here (`lookup`, at the cost of a fault). `Sync` then goes on with the live cluster's settings, or, if it
cannot read the cluster, with the new object as `applyBackupSettings` left it (`GoesOn`, `unread`).
Users and the operator are external: their actions are what the API allows (an Instance may not
list a storage twice). The operator's `OperatorBackup` writes to the storage its repo is set up with.

Left out: storages that are not S3, the contents of schedules (a storage has some or none), retention, images, and
everything in `Sync` that does not concern backups. The resolution of `spec.dataSource` while
pruning is a choice from `DataSourceStorages`.

### RestoreLifecycle and RestoreContract

| Variables | Code |
|---|---|
| `source`, `listed` | `spec.dataSource` of the Instance; whether its `spec.backup` lists the storage of the streams |
| `origin`, `cr`, `op` | Backups: whose they are, the Backup CRs, the PerconaPGBackups |
| `other` | the other Instance: whether it exists, and whether its cluster has the repo of the streams |
| `cluster` | PerconaPGCluster: its state, whether it has the repo, what it was bootstrapped from |
| `restores`, `opRestore` | Restores with what they report; PerconaPGRestores |
| `sync`, `rs` | program counter and local variables of the two workers |

`Sync` is followed from the check for Restores on; what lies before it is `BackupRepos`.

| `Sync` | |
|---|---|
| `SyncBegin`, `SyncCheck` | the Instance is read; `isRestoreRunning` |
| `SyncExisting`, `SyncAbsent` | `applyDataSourceBootstrap`: is there a cluster already? |
| `SyncReadsSource`, `SyncReadsOp`, `SyncReadsInstance`, `SyncReadsStorage` | the reads of `buildDataSourceBootstrap` |
| `SyncApply`, `ReconcileDataSource` | the cluster is written; the runtime makes the seeding Restore |

| `SyncRestore` | |
|---|---|
| `RestoreBegin` | the runtime calls it for a Restore that has not ended |
| `RestoreReadsSource`, `RestoreReadsOp` | `resolveRestoreSource`, for a Backup in two reads |
| `RestoreWhose`, `RestoreSeeded` | is it a seeding from another Instance? then the cluster's state is reported |
| `RestoreOperates` | the PerconaPGRestore is read or made, its state mapped |
| `RestoreReport` | the runtime writes the status |
| `CleanupRestore` | on a deleted Restore, by the same worker |

`BackupRead`, `OpRead` and `StreamRead` are the reads of a source, shared by the two workers as in the code. Left out:
restore options and recovery targets, the credentials Secret of the data source, several storages, Backups without an origin Instance. That the runtime
makes the seeding Restore in `ReconcileDataSource` and does not call `SyncRestore` again once a Restore has ended is taken from
how the code uses the runtime (`provider.go:66`, `datasource.go:28`).

`RestoreContract` has, for each Restore, whether it is there, the source it names, what its user is told, and what was done to the cluster for it; and what
the cluster was created from. There are no operator restores and no workers in it. The cluster is overwritten for a Restore (`Begin`) at most once, not after an
end was told and not after the Restore is gone; an end that is told (`Tell`) is final; `Succeeded` is told only if the overwriting is done or the cluster was created from that
source, `Failed` never while it is under way. The refinement mapping takes the effect from the state of the PerconaPGRestore (`Effect`); when a Restore that is being deleted has none
and no `SyncRestore` is at it, nothing more will be done for it (`"over"`), and only then it may vanish.

### BackupLifecycle and BackupStore

| Variables | Code |
|---|---|
| `cr` | Backup CRs: state, storage, deletion policy, whether a schedule made it, whether it has an owner |
| `op` | PerconaPGBackups: state, kind, slot of the repo, the finalizer `delete-backup` (`keep`), who deleted it (`removal`) |
| `at` | where the data of a backup lies |
| `slotMap`, `instance` | the annotation of the cluster; live, live without a backup class, deleting or gone |
| `dropped` | history, in no guard: operator backups whose storage was dropped from the list after they were made |
| `mir`, `bk` | Mirror's worker and the Backup reconciler's, with what they have read |

`MirrorBegin`, `MirrorInstance`, `MirrorStorage`, `MirrorCreate` are the reads of `Mirror` and the creation by the runtime; the event may be old by
then, and nothing is mirrored for an Instance that is being deleted or has no backup class (`MirrorsFor`; users take the class away and bring it back). `BackupBegin` and `BackupCreate` are the two ends of `SyncBackup` (what lies between is in `BackupRepos`). `CleanupBegin`, `CleanupStrip`,
`CleanupDelete`, `CleanupEnds` are the calls of `CleanupBackup`: the update carries the resource version that was read (`fresh`), the deletion does not.
The operator sets its finalizer, writes the data, purges it; Kubernetes removes what has no finalizer and collects Backups whose owner is
gone; the retention and users delete operator backups (`Expires`).

`BackupStore` has three variables: the data that lies in a storage, what the deletion under way asks for, and the backups that somebody else is removing. Data
goes only if its deletion was asked for or somebody else does it, and a deletion with policy Delete is over only when the data is gone. The refinement
mapping computes the three from `at`, from `cr` and `op`, and from `removal`.

Any list of storages may follow another (`SyncApplies`), whatever backups there are: storages with backups are dropped, come back at other slots, and others take theirs.
One switch says what the environment may do: `FinalizerRaces`, the operator may set its finalizer between two calls of `CleanupBackup`.

### InstanceLifecycle

One worker does `Sync` and `Cleanup`: `SyncBegin` (RequiredSources), `SyncReadsLive`, `SyncForgets` (`deletePMMSecret`), `SyncRenders`, `SyncMirrors`
(`renderPMM`, `mirrorPMMToken`), `SyncChecksRestores`, `SyncApplies`; `CleanupBegin`, `CleanupDeletes`, and for the Secrets that the operator leaves behind
`CleanupLists`, `CleanupRemoves`, `CleanupEnds`. `need` and `token` are what users bind; `cluster`, `pmmSecret` and `secrets` the objects; `seen` the cluster in the
client's cache, which is all that the worker reads of it (`Live`) and may lag behind without limit. Two histories, in no guard, tell the properties when a read was too old: `overlooks` (this
`Sync` or `Cleanup` was not shown that PMM is on, or not the cluster) and `misled` (one that overlooked something deleted the token or declared the end). The list of Secrets in `Cleanup` is current. Left out: fields of the rendered spec other than on or off and the token, and results that are only written to bindings.

### InstanceSettings and InstanceStatus

`InstanceSettings` has three readers of the same settings, which must agree: `Validate`, `Sync` (`Translate`, `SyncFails`) and the operator (`PodSpread`). Before
`Validate` the runtime has checked the types of the components against those the provider declares (`RuntimeAccepts`, external: `validate.go:30-32` relies on it). Lists of spread constraints are bags,
because a constraint that is there twice is what Kubernetes rejects: the operator's two are added to what `Sync` hands on, not united with it. A catalog is what the generated `ProviderSpec` says of versions; a release of the provider brings another one.

In `InstanceStatus` the Instance is worked on when an event has queued it (`queued`): `SyncRejects`, `SyncTranslates`, `SyncChecksRestores`, `SyncApplies`, then
`StatusReadsCluster` and `StatusReports`. `cluster` has a generation and the one the operator has observed; `seen` is the cache that `Deliver` fills, `from` remembers
for the properties what the cluster was translated from. `Phase`, `ReportedHost`, `ReportedURI` are the cases of `Status`, in the order of the code. Host and URI
are modelled by where they come from; ports, user names and the text of URIs are left out, and so are resources, affinity and volume sizes, which are copied.

### BackupSchedules

A schedule has a name, a cron expression, whether it is enabled and a retention. `buildPGBackRestSchedules`, `applyRetentionConfig` (`RetentionFull`, `RetentionDiff`,
`RetentionRejected`) and `deriveScheduleName` are operators; "the last schedule of a kind wins" is `Last`. A generated name is a sequence of its parts.

## 3. Runs

| Run | Instance | Shows |
|---|---|---|
| `repo_slots` | 4 storages, 3 slots, all annotations with slots 0..3 (3 is out of range) and all lists up to length 4 with repetitions; all lists of up to 2 schedules over 5 names, 2 times and 6 retentions | the closed form is the loop; nobody is left out while a slot is free and no slot is shared; the order of a list does not matter once it is stored; backups are mirrored under their schedule and kept long enough |
| `backup_repos` | 3 storages, 2 slots, 1 Backup, 1 edit of each kind, 1 failed call, 1 restore | type, `SlotsAgree`, `CredentialsMatch`, `UniqueStorages`, `SlotsAreSticky` |
| `backup_repos_live` | 2 storages, 2 slots, 1 Backup, 1 added storage, deletion, 1 restore | `BackupIsTaken`, `InstanceSettles`, `ClusterFollows` |
| `restores` | 1 Backup of either Instance, 1 Restore of a user, the seeding Restore, 2 actions of users, 1 failed call | type, `RestoreIsSeen`, `OwnRepoOnly`, `SeededFromSource`, the refinement `KeepsContract` |
| `restores_live` | the same with 1 Restore, nothing else done by users | `RestoreEnds`, `InstanceStarts` |
| `backup_lifecycle` | 1 name, 2 storages, 2 slots, every list of storages after every other, 1 failed call | type, the refinement `KeepsPromise`, `MirroredIsReal`, `WindowIsOwn`, `OrphansGo`, `ScheduledIsMirrored`, `InstanceGoes` |
| `instance_lifecycle` | 2 tokens, 2 Secrets, 3 edits, 1 failed call, a cache of any age | type, `AgentsHaveToken`, `NothingIsLeft`, `StaysMonitored`, `MonitoringFollows`, `DeletionEnds` |
| `instance_status` | 3 versions, 3 releases of the catalog, 20 settings, 1 edit or upgrade, 1 failure | type, `AcceptedSyncs`, `RunsItsMajor`, `SpreadAsStated`, `EndpointServes`, `NoLostWakeup`, `ReportCatchesUp` |
| `wrong_storage`, `stuck_backup`, `false_success`, `circular_wait` | as small as shows it | see section 5 |

Bounds of `BackupRepos`. Three storages and two slots are the smallest instance in which a slot can change hands
while another stays, and in which a storage finds no slot; one list may already be full when the Backup's storage has to
be registered. One edit is enough to give the two workers different Instances: the initial Instance is any list of
up to two storages (so it may be full), enabled or not, scheduled or not, and registering and pruning make further edits. One failed call or restart is enough
to stop either worker at any step. `MaxEdits`, `MaxFaults` and `MaxRestores` bound only users, faults and new restores; the
provider and the operator are not bounded. The safety runs use symmetry of storages and Backups; the liveness runs do not.
Deadlock is not checked in these runs: when nothing is left to do for the users the system may rest.

In `RestoreLifecycle` two Restores, a user's and the seeding one, are enough for one to keep `Sync` waiting while the other needs it;
two actions of users are a Restore and a deletion while it is served. `KeepsContract` was also checked once with three
(a Restore, its deletion and the deletion of its Backup: 1.74 million states). `SuccessIsReal` follows from `KeepsContract`,
because an operator restore has the source of its Restore; it is stated on its own for `false_success` and as a theorem. In the passing runs users are careful: they restore into a
cluster that has its repo, and do not delete a Backup that an open Restore or an unfinished seeding needs. Without
these habits the properties fail: the values `"early"` and `"careless"` of `UserMay` are for the runs that show it. An
Instance is not seeded from its own stream (section 5).

In `BackupLifecycle` names of backups interact only through the one worker of each kind, and a name is given out again
once nothing remembers it, so one name shows late events, deletions that repeat and races of a Backup with its operator backup; users and the operator
are not bounded. The safety invariants were also checked once with two names that take turns at one slot (two storages, no failed call:
5.05 million states up to symmetry). `InstanceLifecycle`: three edits are enough to switch monitoring on, off and on again, or to switch it and start a restore in between; two
Secrets show one that is deleted by somebody else between the list and the deletion. `InstanceStatus`: the 20 settings differ
from a plain one in each respect that `Validate`, `Sync` and `Status` look at; one edit and one failure put any two of them,
a release, a restore, a failing pod or a restart between any two steps. The safety invariants were checked once with two edits and no failure (1.38 million states).

Fairness (`FairSpec`). `Sync` is called again after every change it watches, after errors and
periodically; a step that has begun is carried on (weak fairness of `SyncStep`, `ResolveStep`, `BackupWrite`). The Backup worker serves one Backup
after the other from a first-in-first-out queue, so every Backup that has not ended gets its turn: strong fairness of
`BackupBegin` and `BackupReport` for each. Nothing is assumed for Backups reported as `Failed`, for users and for faults. The
operator sets repos up, and its backups and restores end, sooner or later. In `RestoreLifecycle` likewise: weak fairness of `Sync`, of
a begun `SyncRestore`, of the operator and of the worker of the Backups; strong fairness for each Restore's turn in its queue.
In `BackupLifecycle` `Mirror` is called for every event of an operator backup and again for all of them when the watch is resynchronised: strong fairness of
`MirrorBegin` for each name without a Backup, and of the Backup reconciler for each Backup that is being deleted, because both serve one name after the other; weak fairness
of steps that have begun, of the operator and of Kubernetes. In `InstanceLifecycle` and `InstanceStatus` a queued Instance is worked on, the
watch delivers, the operator finishes, restores end (weak fairness, one worker and no rival). `InstanceStatus` does not assume that `Sync` is called
periodically: only events queue the Instance, which is what `NoLostWakeup` and `ReportCatchesUp` are about.

## 4. Proofs

tlapm checks, for every set of storages, names, Secrets and settings, every number of slots and every bound:

* `RepoSlotsProofs`: `ReconcileKeeps`, `ReconcileInjective`: a listed storage keeps its slot; no slot is shared afterwards if none was before.
  The second needs that two new storages have different ranks (`RankStrict`), which rests on `Precedes` being a strict total order on the
  names of a list; the smallest position of a name exists by well-ordering of the naturals. `ReconcileFull`: a storage is left out only if every slot is taken; `ReconcileTotal`: as many
  storages as there are slots all get one; `ReconcileStable`: what is stored stays as it is, in whatever order the same storages are listed. These three rest on the converse of the rank lemmas:
  each free slot below the one a storage would take is taken by a storage before it.
* `MCRepoSlotsProofs`: `ClosedFormIsTheLoop`: the closed form equals the loop of the code, for all annotations and lists. The loop is a recursive function, and the induction over
  the list that would be needed is out of reach as a theorem with an operator parameter; the proof instead writes down a function (`Placed`: what the closed form gives the names up to n), shows that it satisfies
  the recursive equation (`LoopTurn`: one turn of the loop), and that two functions that satisfy it are equal, because there is a least index at which they differ.
  `SlotsAreUsedUp` and `SlotsIgnoreTheOrder` follow from `RepoSlotsProofs`. `BackupsComeUnderTheirSchedules` and `BackupsAreKeptLongEnough` hold for every list of schedules (`AnyScheduleIsMirrored`,
  `AnyRetentionIsLongEnough`), not only those of the run; for retention, n months from any month on have at most 31 n days (`MonthsFit`): a year is 6 days short of 12 x 31, and within a year the
  days that are short only grow (`LackGrows`).
* `BackupReposProofs`: `TypeCorrect`. `TypeOK` is not inductive: registering appends the storage of the Backup in hand, so
  `BusyOnBackup` adds that this Backup exists and names a storage. `SlotsAlwaysAgree`, `SlotsNeverMove`: the inductive invariant adds
  `Planned`: what is about to be applied agrees in itself and
  extends the live cluster's map. It holds because only `SyncApply` writes the cluster, so the map that
  `applyBackupSettings` read is still the live one when the result is applied. `reconcileRepoSlotMap` enters through `ReconcileKeeps` and `ReconcileInjective` only.
  `CredentialsAlwaysMatch`: `CredsKnown` adds that between the writes of the Secrets and the apply the Secrets are those of the repos about to be applied, unless the configuration was rejected.
  `StoragesStayUnique`: `UniqueInv` adds that the lists the workers have read, and what pruning keeps of them, have no repetitions, and that what is registered was not listed in the list read.
* `RestoreLifecycleProofs`: `RestoreTypeCorrect`, and `RestoresReadOwnRepos`: no operator restore reads another Instance's repo, careless users included. The
  inductive invariant `OwnInv` says what `SyncRestore` knows at each place about the source in hand: after the guard
  it is the Instance's own unless the Restore seeds, and before the PerconaPGRestore is made it is the Instance's own. `OthersKeepOwn`
  shows that nobody else disturbs this, because Restores keep their source and only `SyncRestore` makes PerconaPGRestores.
  `OperatorRestoresAreSeen`, `ClustersStartFromTheirSource`, `SuccessesAreReal` share one inductive invariant, `CarefulInv`: what the workers know about the source in hand at each place, which reads
  last (a usable Backup can only be deleted, a failed one never becomes usable), that an operator restore under way belongs to a Restore that is open and about which no end is reported or about to be, and that the Backup
  a seeding needs stays until the seeding has ended.
  `RestoresKeepTheirContract` is the refinement `Spec => KeepsContract`. `CarefulInv` says too little about deleted Restores; `DeletedSettle` adds that an operator restore is deleted only
  while no `SyncRestore` is at it (one that was would make it again), and is gone before its Restore goes. The steps of a worker, of the operator, of users and of `Sync` are then shown to be steps of `RestoreContract` or to stutter, one Restore at a time (`OneChanges`).
  These four have the hypothesis `CarefulUsers` (`"careless" \notin UserMay`): users do not delete a Backup that is in use. It is a condition on the environment, which the passing runs satisfy; `false_success` (section 5) shows what happens without it.
* `BackupLifecycleProofs`: `TypeCorrect`; `ImplementsStore`, the refinement: `Spec => KeepsPromise`, where every step is a step of `BackupStore` or
  a stutter. Two of its steps have guards, and the inductive invariant `PromiseInv` is there for them. Data may be purged because a backup with
  the finalizer that `CleanupBackup` has deleted belongs to a deletion with policy Delete (`PurgedIsAsked`); a deletion with policy Delete may be
  over because the finalizer is missing from a backup with data only if its data is to be retained (`StrippedIsRetained`). Both need what the worker has read to hold still
  (`CleanupReads`): a Backup that is being deleted keeps its policy, and, by assumption, nobody puts the finalizer back. `MirrorsAreReal` and `WindowsAreOwn` rest on `StorageInv`: unless the storage of a backup has been dropped since it was made,
  its slot stands for the storage its data lies in, and that is the storage Mirror names; slots are
  injective and stay while their storage is listed, by `ReconcileInjective` and `ReconcileKeeps`, however many other slots change hands.
  `ImplementsStore` assumes `~FinalizerRaces`; the other two assume nothing. Lemmas say first what each action does to the objects
  (`CRSteps`, `CreateWrites`, ... `ExpireWrites`), the invariants then follow from effects.
* `InstanceLifecycleProofs`: `TypeCorrect`; `AgentsKeepTheirToken`, `DeletionIsComplete`, `MonitoringIsNotLost`, over a cache that lags without limit and without hypotheses. `AgentsHaveToken` is not inductive:
  the invariant adds that a cluster about to be applied with PMM has its token in place, that the token is forgotten only while PMM is off in the cluster and in what is
  to be applied, and that Cleanup, once it lists, is alone with the Secrets it has found. What a worker reads is an
  earlier state of the cluster (`CacheKnows`), so what it does not overlook it knows. All rest on one worker writing cluster and Secret.
* `InstanceStatusProofs`: `TypeCorrect`; `AcceptedTranslates` (a lemma on data: the runtime's check and `Validate` imply that `Sync` meets no error of its own) and with it `AcceptedSettingsSync`,
  `ClusterRunsItsMajor`, `PodsSpreadAsStated`, `ReportedEndpointServes`, `NoWakeupIsLost`. The inductive invariant says that every cluster in flight, in the cache, read by
  Status or live, is translated from accepted settings (`Translated`), that a host that the operator reports for the generation it has observed is
  the spec's own (`HostsAreCurrent`), and that whenever the report is not what Status would say now, something is still queued, in work or to be delivered (`ReportIsCurrent`).

Assumptions on constants: `MaxRepos` is a positive integer; `NoStorage`, `NoBackup`, `NoName`, `NoToken`, `NoVersion` are not names; lists are sequences of storages (initial ones
without repetitions); bounds are naturals; catalogs are sound: a bundle names versions that have images, and engine versions start with a number, as `definition/versions.yaml` does.
The inductive invariants were first checked by TLC on the instances of section 3.

Every safety invariant, action property and refinement of the passing runs is stated by a theorem. Only model-checked: the liveness properties (`BackupIsTaken`, `InstanceSettles`, `ClusterFollows`, `RestoreEnds`,
`InstanceStarts`, `OrphansGo`, `ScheduledIsMirrored`, `InstanceGoes`, `MonitoringFollows`, `DeletionEnds`, `ReportCatchesUp`), because liveness under fairness is out of the prover's reach.

## 5. What does not hold

Each of these is a run that violates one property, taken from a comment of the code.

* `wrong_storage`: a storage is removed and another added in one go; before the next apply a Backup of the new storage resolves to the freed slot, the cluster
  still has that repo, and the data goes to the old storage.
* `stuck_backup`: a registration computed while backups were on, applied after they were switched off, lists the storage with backups off; the Backup waits for ever.
* `false_success`: an Instance that seeds from its own retained Backup; the Backup goes between two reads of `SyncRestore`, the source Instance is then
  unknown, which counts as another Instance, and the Ready but empty cluster makes the Restore `Succeeded`.
* `circular_wait`: a point-in-time Restore made before the cluster waits for the cluster; it is `Pending`, so `Sync` does not create the cluster.

Three more have a property and a configuration that shows it violated, and are not among the listed runs because they need no interleaving that the runs do not have:

* `MCSlotShift.cfg` (`BackupsKeepTheirRepo`): disabling backups (pruning the last storage does it too) deletes the slot map, and a storage with data may come back at another repo.
  So does a configuration error whose read of the live cluster fails (`provider.go:257`).
* `MCConfigError.cfg` (`ConfigErrorKeepsSetup`): the configuration error of one storage keeps the repos, but a Secret was already overwritten for an earlier storage.
* `MCRestoreControl.cfg` (`RestoreHasControl`): the check for running restores and the apply are two steps.

What a passing run assumes away by a switch, and what fails without it:

* `FinalizerRaces` TRUE: `KeepsPromise` fails. The finalizer is stripped, the operator sets it again, and the deletion, which carries no precondition, makes the operator purge data
  that was to be retained (the comment at `backup.go:578-584` promises the opposite).

What the properties of passing runs and their theorems excuse, because the code lets it happen:

* `dropped`, in `MirroredIsReal` and `WindowIsOwn`. A storage with operator backups is dropped from the Instance, and another takes its slot: the backups of the first are
  counted for, or mirrored under, the second. It is excused only for the backup whose own storage was dropped; all others must come out right while slots change hands around them.
* `misled` and `overlooks`, in `AgentsHaveToken`, `NothingIsLeft` and `StaysMonitored`. The client answers from its cache: a `Sync` that is not shown its own last apply
  may delete the token of agents that run, or switch PMM off without being told to, and a `Cleanup` that is not shown the cluster takes it for gone. `MonitoringFollows` and `DeletionEnds` excuse nothing: what
  is wrong with monitoring is repaired by the next `Sync`. How far reads lag behind is up to the runtime, so this is not stated as a fault of the code.
* Constraints that the user lists twice, in `SpreadAsStated`. `validateSpreadConstraints` does not look for them (`scheduling.go:56-73`), `Sync` hands them on, and Kubernetes rejects the pods.

From the same models, without a run. A Backup deleted between the reads of `buildDataSourceBootstrap`
leaves the source Instance unknown there too, and the new cluster is created empty (`SeededFromSource` fails with careless users). A Restore whose source
is deleted after the operator's restore was made resolves the source first and stays `Pending` for ever, with every `Sync` skipping its
apply (`RestoreEnds` excuses it). An Instance seeded from its own stream waits for its own cluster before it creates it. `RunsItsMajor` and `AcceptedSyncs` need sound
catalogs: `validateImage` takes any version a bundle names, with an image or not, and the image then falls back to the default of whatever major (`provider.go:147-163`). The error for a proxy component of a type that the provider
does not declare (`provider.go:177-183`) is kept away by the runtime's check alone: `Validate` has none. An Instance that follows the default bundle is
moved to the next release's version, major versions included, by the upgrade of the provider; the properties allow it. The user Secret has no watch: credentials that appear
after the status was computed wait for the next event (`NoLostWakeup` leaves them out). `MirroredUnderItsSchedule` holds for schedules with plain names, one enabled per kind: others overwrite each other
silently, and are mirrored under the kind's name. Full and incremental schedules share one retention key, the last one wins. And one from
reading: on a new cluster a configuration error leaves backups enabled with no repos (`backup_mirror.go:268`), where the comment
at `provider.go:267` counts on them being disabled.

## 6. Not modelled

* The times of a recovery window (`pitrWindow`): the oldest completion and the newest restorable time of backups that `WindowIsOwn` speaks of; they depend on what the
  operator stamps on its backups, which no code here relates to each other.
* Contents that are copied: resources, affinity, volume sizes, bucket paths and endpoints, restore options and recovery targets, the credentials of a data source, ports and the text of URIs.
* Storages that are not S3, several storages with streams in `RestoreLifecycle`.
* Entry point, RBAC rules, names, definitions, charts and end-to-end tests: wiring and declarations, without a behaviour of their own.

What would come next: the cache of `InstanceLifecycle` in the other modules; the times of the recovery window; several storages with streams.
