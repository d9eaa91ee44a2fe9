-------------------------- MODULE RestoreLifecycle --------------------------
(***************************************************************************)
(* Restores of one Instance, and its seeding from a data source.           *)
(*                                                                         *)
(* Two workers: Sync creates the cluster, from another Instance's repo if  *)
(* the data source says so, and keeps away from it while a Restore is      *)
(* open; SyncRestore resolves a Restore's source, makes the operator's     *)
(* restore and reports on it.  Each resolves the source by several reads,  *)
(* and everybody else may act between two of them.  Two Instances matter:  *)
(* "self", whose workers these are, and "other", a possible source.        *)
(***************************************************************************)
EXTENDS Naturals

CONSTANTS
  Backup,          \* names of Backup CRs
  NoBackup,
  Restore,         \* names of the Restores users make
  Seed,            \* the name of the Restore that seeds the Instance
  InstanceSources, \* what spec.dataSource may be
  RestoreSources,  \* what a user's Restore may name as its source
  UserMay,         \* what users do (see the User actions)
  MaxEdits,        \* bound: actions by users
  MaxFaults        \* bound: failed API calls and restarts of the provider

Instances == {"self", "other"}

(* A source is a Backup or the WAL stream of an Instance in its storage    *)
(* (without instanceRef: of whoever is restored).                          *)
NoSource == [type |-> "none", backup |-> NoBackup, instance |-> "none"]

BackupSource(b) == [type |-> "Backup", backup |-> b, instance |-> "none"]

StreamSource(i) == [type |-> "PointInTime", backup |-> NoBackup, instance |-> i]

Sources == {BackupSource(b) : b \in Backup} \cup
           {StreamSource(i) : i \in Instances \cup {"none"}}

AllRestores == Restore \cup {Seed}

ASSUME NamesAssumption == NoBackup \notin Backup /\ Seed \notin Restore

ASSUME SourcesAssumption ==
  InstanceSources \subseteq Sources \cup {NoSource} /\ RestoreSources \subseteq Sources

ASSUME LimitsAssumption == MaxEdits \in Nat /\ MaxFaults \in Nat

VARIABLES
  source,    \* the Instance's spec.dataSource
  origin,    \* the Instance each Backup was taken of
  listed,    \* spec.backup lists the storage of the streams
  cr, op,    \* Backups, and their PerconaPGBackups
  other,     \* the other Instance: does it exist, has its cluster the repo
  cluster,   \* the PerconaPGCluster: state, has it the repo, its data source
  restores,  \* Restores
  opRestore, \* PerconaPGRestores
  sync, rs,  \* the workers of Sync and SyncRestore
  edits, faults

vars == <<source, origin, listed, cr, op, other, cluster, restores, opRestore, sync, rs,
          edits, faults>>

userVars   == <<source, origin, listed, cr, op, other, edits>>
workerVars == <<sync, rs, faults>>

NoCluster == [state |-> "absent", archives |-> FALSE, from |-> NoSource]

(* A Restore without a status has the state "none" (in the code an empty    *)
(* string).                                                                *)
NoRestore == [cr |-> "none", ds |-> NoSource, state |-> "none"]

NoOpRestore == [state |-> "absent", ds |-> NoSource, deleting |-> FALSE]

SyncIdle == [pc |-> "idle", listed |-> FALSE, from |-> NoSource]

RestoreIdle == [pc |-> "idle", r |-> Seed, listed |-> FALSE, result |-> "none"]

(* A new Instance, among Backups there may already be.                     *)
Init ==
  /\ source \in InstanceSources
  /\ origin \in [Backup -> Instances]
  /\ listed \in BOOLEAN
  /\ cr \in [Backup -> {"none", "live"}]
  /\ op \in [Backup -> {"absent", "succeeded"}]
  /\ \A b \in Backup : op[b] = "succeeded" => cr[b] = "live"
  /\ other \in {[exists |-> e, archives |-> a] : e \in BOOLEAN, a \in BOOLEAN}
  /\ other.archives => other.exists
  /\ cluster = NoCluster
  /\ restores = [r \in AllRestores |-> NoRestore]
  /\ opRestore = [r \in AllRestores |-> NoOpRestore]
  /\ sync = SyncIdle
  /\ rs = RestoreIdle
  /\ edits = 0
  /\ faults = 0

-----------------------------------------------------------------------------
(* Resolving a source, one read at a time.  The outcome is "usable" or the *)
(* state to report.                                                        *)

BackupRead(d) ==
  IF cr[d.backup] \in {"none", "gone"} THEN "Pending"
  ELSE IF cr[d.backup] = "failed" THEN "Failed" ELSE "usable"

(* The operator backup is read next; only seeding may read a backup of     *)
(* another Instance (the faulty variants: anybody may, nobody may).        *)
OpReadAnyOrigin(d, seeding) ==
  CASE op[d.backup] = "failed"    -> "Failed"
    [] op[d.backup] = "succeeded" -> "usable"
    [] OTHER                      -> "Pending"

OpReadOwnOnly(d, seeding) ==
  CASE op[d.backup] = "failed"    -> "Failed"
    [] op[d.backup] = "succeeded" -> IF origin[d.backup] = "self" THEN "usable" ELSE "Failed"
    [] OTHER                      -> "Pending"

OpRead(d, seeding) ==
  CASE op[d.backup] = "failed"    -> "Failed"
    [] op[d.backup] = "succeeded" ->
         IF origin[d.backup] = "self" \/ seeding THEN "usable" ELSE "Failed"
    [] OTHER                      -> "Pending"

(* A stream is read through the cluster that archives it: a foreign one    *)
(* only when seeding, the own one if the Instance lists the storage.       *)
StreamRead(d, seeding, isListed) ==
  IF d.instance = "other"
  THEN IF ~seeding THEN "Failed"
       ELSE IF other.archives THEN "usable" ELSE "Pending"
  ELSE IF cluster.state # "absent" /\ isListed /\ cluster.archives THEN "usable" ELSE "Pending"

(* The Instance that holds the data; the Backup is read again for it.      *)
dataSourceSourceInstance(d) ==
  IF d.type = "PointInTime" THEN d.instance
  ELSE IF d.type = "none" \/ cr[d.backup] \in {"none", "gone"} THEN "none"
  ELSE origin[d.backup]

-----------------------------------------------------------------------------
(* Sync, from its check for Restores on.                                   *)

Open(r) ==
  /\ restores[r].cr \in {"live", "deleting"}
  /\ restores[r].state \in {"none", "Pending", "Running"}

isRestoreRunning == \E r \in AllRestores : Open(r)

SyncAt(pc) == sync.pc = pc

SyncTo(pc) == sync' = [sync EXCEPT !.pc = pc]

SyncOnly == UNCHANGED <<userVars, cluster, restores, opRestore, rs, faults>>

SyncBegin ==
  /\ SyncAt("idle")
  /\ sync' = [pc |-> "check", listed |-> listed, from |-> NoSource]
  /\ SyncOnly

SyncCheck ==
  /\ SyncAt("check")
  /\ SyncTo(IF isRestoreRunning THEN "datasource" ELSE "existing")
  /\ SyncOnly

(* A cluster keeps its data source; a new one without any starts empty.    *)
SyncExisting ==
  /\ SyncAt("existing")
  /\ cluster.state # "absent" \/ source = NoSource
  /\ sync' = [sync EXCEPT !.pc = "apply", !.from = cluster.from]
  /\ SyncOnly

SyncAbsent ==
  /\ SyncAt("existing")
  /\ cluster.state = "absent" /\ source # NoSource
  /\ SyncTo("source")
  /\ SyncOnly

(* A source that is not usable is an error: Sync ends and is retried (the  *)
(* faulty variant creates the cluster all the same).                       *)
SyncAfterCareless(outcome, pc) == IF outcome = "usable" THEN pc ELSE "apply"

SyncAfter(outcome, pc) == IF outcome = "usable" THEN pc ELSE "idle"

SyncReadsSource ==
  /\ SyncAt("source")
  /\ IF source.type = "Backup"
       THEN SyncTo(SyncAfter(BackupRead(source), "op"))
       ELSE SyncTo(SyncAfter(StreamRead(source, TRUE, sync.listed), "instance"))
  /\ SyncOnly

SyncReadsOp ==
  /\ SyncAt("op")
  /\ SyncTo(SyncAfter(OpRead(source, TRUE), "instance"))
  /\ SyncOnly

(* No source Instance, or the Instance itself: nothing to bootstrap from.  *)
(* Otherwise the source Instance is read too; nothing that matters can     *)
(* happen between these two reads.                                         *)
SyncReadsInstance ==
  /\ SyncAt("instance")
  /\ IF dataSourceSourceInstance(source) # "other" THEN SyncTo("apply")
     ELSE SyncTo(IF other.exists THEN "storage" ELSE "idle")
  /\ SyncOnly

(* The storage of the source; for a Backup its CR is read once more.       *)
SyncReadsStorage ==
  /\ SyncAt("storage")
  /\ sync' = IF source.type = "Backup" /\ cr[source.backup] \in {"none", "gone"}
             THEN SyncIdle
             ELSE [sync EXCEPT !.pc = "apply", !.from = source]
  /\ SyncOnly

SyncApply ==
  /\ SyncAt("apply")
  /\ cluster' = [state |-> IF cluster.state = "absent" THEN "initializing" ELSE cluster.state,
                 archives |-> sync.listed, from |-> sync.from]
  /\ SyncTo("datasource")
  /\ UNCHANGED <<userVars, restores, opRestore, rs, faults>>

(* The runtime makes the Restore that stands for spec.dataSource.          *)
ReconcileDataSource ==
  /\ SyncAt("datasource")
  /\ restores' = IF source # NoSource /\ restores[Seed].cr = "none"
                 THEN [restores EXCEPT ![Seed] = [cr |-> "live", ds |-> source, state |-> "none"]]
                 ELSE restores
  /\ sync' = SyncIdle
  /\ UNCHANGED <<userVars, cluster, opRestore, rs, faults>>

SyncFail ==
  /\ ~SyncAt("idle") /\ faults < MaxFaults
  /\ faults' = faults + 1
  /\ sync' = SyncIdle
  /\ UNCHANGED <<userVars, cluster, restores, opRestore, rs>>

-----------------------------------------------------------------------------
(* SyncRestore and CleanupRestore, run by one worker.                      *)

RestoreAt(pc) == rs.pc = pc

ds == restores[rs.r].ds

isSeedingRestore == source # NoSource /\ rs.r = Seed

RestoreOnly == UNCHANGED <<userVars, cluster, restores, opRestore, sync, faults>>

(* SyncRestore goes on to pc, or returns a state that will be reported.    *)
RestoreTo(outcome, pc) ==
  rs' = IF outcome = "usable" THEN [rs EXCEPT !.pc = pc]
        ELSE [rs EXCEPT !.pc = "report", !.result = outcome]

RestoreBegin(r) ==
  /\ RestoreAt("idle")
  /\ restores[r].cr = "live" /\ Open(r)
  /\ rs' = [RestoreIdle EXCEPT !.pc = "source", !.r = r, !.listed = listed]
  /\ RestoreOnly

(* Whatever the operator's restore has come to, the source is resolved     *)
(* again in every call.                                                    *)
RestoreReadsSource ==
  /\ RestoreAt("source")
  /\ IF ds.type = "Backup"
       THEN RestoreTo(BackupRead(ds), "op")
       ELSE RestoreTo(StreamRead(ds, isSeedingRestore, rs.listed), "whose")
  /\ RestoreOnly

RestoreReadsOp ==
  /\ RestoreAt("op")
  /\ RestoreTo(OpRead(ds, isSeedingRestore), "whose")
  /\ RestoreOnly

(* Is it the operator's bootstrap that restores?                           *)
SeededByBootstrap == isSeedingRestore /\ dataSourceSourceInstance(ds) # "self"

RestoreWhose ==
  /\ RestoreAt("whose")
  /\ rs' = [rs EXCEPT !.pc = IF SeededByBootstrap THEN "seeded" ELSE "operate"]
  /\ RestoreOnly

seedingRestoreStatus ==
  CASE cluster.state = "absent" -> "Pending"
    [] cluster.state = "ready"  -> "Succeeded"
    [] OTHER                    -> "Running"

RestoreSeeded ==
  /\ RestoreAt("seeded")
  /\ RestoreTo(seedingRestoreStatus, "report")
  /\ RestoreOnly

(* The operator's state as a Restore state (faulty: as it is; a failed     *)
(* restore taken for one not started).                                     *)
RawState(s) == s

WithoutFailed(s) ==
  CASE s = "running"   -> "Running"
    [] s = "succeeded" -> "Succeeded"
    [] OTHER           -> "Pending"

ReportedState(s) ==
  CASE s = "failed"    -> "Failed"
    [] s = "succeeded" -> "Succeeded"
    [] s = "running"   -> "Running"
    [] OTHER           -> "Pending"

(* Get the operator's restore, or create it (faulty: one that failed is    *)
(* made again).                                                            *)
RestoreRetries ==
  /\ RestoreAt("operate")
  /\ opRestore' = IF opRestore[rs.r].state \in {"absent", "failed"}
                  THEN [opRestore EXCEPT ![rs.r] = [state |-> "new", ds |-> ds, deleting |-> FALSE]]
                  ELSE opRestore
  /\ RestoreTo(ReportedState(opRestore'[rs.r].state), "report")
  /\ UNCHANGED <<userVars, cluster, restores, sync, faults>>

RestoreOperates ==
  /\ RestoreAt("operate")
  /\ opRestore' = IF opRestore[rs.r].state = "absent"
                  THEN [opRestore EXCEPT ![rs.r] = [state |-> "new", ds |-> ds, deleting |-> FALSE]]
                  ELSE opRestore
  /\ RestoreTo(ReportedState(opRestore'[rs.r].state), "report")
  /\ UNCHANGED <<userVars, cluster, restores, sync, faults>>

RestoreReport ==
  /\ RestoreAt("report")
  /\ restores' = [restores EXCEPT ![rs.r].state = rs.result]
  /\ rs' = RestoreIdle
  /\ UNCHANGED <<userVars, cluster, opRestore, sync, faults>>

(* A deleted Restore goes once the operator's restore is gone (faulty:     *)
(* once its deletion is asked for).                                        *)
CleanupRestoreEarly(r) ==
  /\ RestoreAt("idle") /\ restores[r].cr = "deleting"
  /\ restores' = [restores EXCEPT ![r].cr = "gone"]
  /\ opRestore' = [opRestore EXCEPT ![r].deleting = opRestore[r].state # "absent"]
  /\ UNCHANGED <<userVars, cluster, workerVars>>

CleanupRestore(r) ==
  /\ RestoreAt("idle") /\ restores[r].cr = "deleting"
  /\ IF opRestore[r].state = "absent"
       THEN /\ restores' = [restores EXCEPT ![r].cr = "gone"]
            /\ UNCHANGED opRestore
       ELSE /\ opRestore' = [opRestore EXCEPT ![r].deleting = TRUE]
            /\ UNCHANGED restores
  /\ UNCHANGED <<userVars, cluster, workerVars>>

RestoreFail ==
  /\ ~RestoreAt("idle") /\ faults < MaxFaults
  /\ faults' = faults + 1
  /\ rs' = RestoreIdle
  /\ UNCHANGED <<userVars, cluster, restores, opRestore, sync>>

-----------------------------------------------------------------------------
(* Users and the runtime's side of Backups (external).                     *)

Edit(kind) ==
  /\ kind \in UserMay /\ edits < MaxEdits
  /\ edits' = edits + 1

UserLists ==
  /\ Edit("list") /\ ~listed
  /\ listed' = TRUE
  /\ UNCHANGED <<source, origin, cr, op, other, cluster, restores, opRestore, workerVars>>

(* Users who wait restore into a cluster that has its repo.                *)
UserRestores(r, d) ==
  /\ Edit("restore")
  /\ restores[r].cr = "none"
  /\ "early" \in UserMay \/ cluster.archives
  /\ restores' = [restores EXCEPT ![r] = [cr |-> "live", ds |-> d, state |-> "none"]]
  /\ UNCHANGED <<source, origin, listed, cr, op, other, cluster, opRestore, workerVars>>

UserDeletesRestore(r) ==
  /\ Edit("cancel") /\ restores[r].cr = "live"
  /\ restores' = [restores EXCEPT ![r].cr = "deleting"]
  /\ UNCHANGED <<source, origin, listed, cr, op, other, cluster, opRestore, workerVars>>

UserBacksUp(b) ==
  /\ Edit("backup") /\ cr[b] = "none"
  /\ cr' = [cr EXCEPT ![b] = "live"]
  /\ UNCHANGED <<source, origin, listed, op, other, cluster, restores, opRestore, workerVars>>

(* A Backup is in use while a Restore or the data source still needs it;   *)
(* careful users do not delete it then.                                    *)
InUse(b) ==
  \/ \E r \in AllRestores : Open(r) /\ restores[r].ds.backup = b
  \/ source.backup = b /\ (restores[Seed].cr = "none" \/ Open(Seed))

UserDeletesBackup(b) ==
  /\ Edit("delete") /\ cr[b] = "live"
  /\ "careless" \in UserMay \/ ~InUse(b)
  /\ cr' = [cr EXCEPT ![b] = "deleting"]
  /\ UNCHANGED <<source, origin, listed, op, other, cluster, restores, opRestore, workerVars>>

(* The other Instance gets its repo, or is deleted.                        *)
OtherChanges ==
  /\ Edit("other") /\ other.exists
  /\ other' \in {[exists |-> TRUE, archives |-> TRUE], [exists |-> FALSE, archives |-> FALSE]}
  /\ UNCHANGED <<source, origin, listed, cr, op, cluster, restores, opRestore, workerVars>>

backupRest == <<source, origin, listed, other, cluster, restores, opRestore, workerVars, edits>>

(* SyncBackup makes an operator backup once the cluster has the repo.      *)
BackupStarts(b) ==
  /\ cr[b] = "live" /\ op[b] = "absent"
  /\ IF origin[b] = "self" THEN cluster.archives /\ cluster.state = "ready" ELSE other.archives
  /\ op' = [op EXCEPT ![b] = "running"]
  /\ UNCHANGED <<cr, backupRest>>

BackupEnds(b) ==
  /\ op[b] = "running"
  /\ \E s \in {"succeeded", "failed"} : op' = [op EXCEPT ![b] = s]
  /\ UNCHANGED <<cr, backupRest>>

BackupFails(b) ==
  /\ cr[b] = "live" /\ op[b] \in {"absent", "failed"}
  /\ cr' = [cr EXCEPT ![b] = "failed"]
  /\ UNCHANGED <<op, backupRest>>

(* A deleted Backup goes after its operator backup.                        *)
BackupCleanup(b) ==
  /\ cr[b] = "deleting"
  /\ IF op[b] = "absent"
       THEN cr' = [cr EXCEPT ![b] = "gone"] /\ UNCHANGED op
       ELSE op' = [op EXCEPT ![b] = "absent"] /\ UNCHANGED cr
  /\ UNCHANGED backupRest

(* The operator (external): it restores into a ready cluster, one restore  *)
(* at a time, and the cluster is not ready meanwhile.                      *)

Operating(r) == opRestore[r].state = "running"

OperatorReady ==
  /\ cluster.state = "initializing" /\ \A r \in AllRestores : ~Operating(r)
  /\ cluster' = [cluster EXCEPT !.state = "ready"]
  /\ UNCHANGED <<userVars, restores, opRestore, workerVars>>

OperatorStarts(r) ==
  /\ opRestore[r].state = "new" /\ cluster.state = "ready"
  /\ opRestore' = [opRestore EXCEPT ![r].state = "running"]
  /\ cluster' = [cluster EXCEPT !.state = "initializing"]
  /\ UNCHANGED <<userVars, restores, workerVars>>

OperatorEnds(r) ==
  /\ Operating(r)
  /\ \E s \in {"succeeded", "failed"} : opRestore' = [opRestore EXCEPT ![r].state = s]
  /\ UNCHANGED <<userVars, cluster, restores, workerVars>>

OperatorRemoves(r) ==
  /\ opRestore[r].deleting
  /\ opRestore' = [opRestore EXCEPT ![r] = NoOpRestore]
  /\ UNCHANGED <<userVars, cluster, restores, workerVars>>

-----------------------------------------------------------------------------

SyncStep ==
  \/ SyncBegin \/ SyncCheck \/ SyncExisting \/ SyncAbsent \/ SyncReadsSource
  \/ SyncReadsOp \/ SyncReadsInstance \/ SyncReadsStorage \/ SyncApply
  \/ ReconcileDataSource

RestoreStep ==
  \/ RestoreReadsSource \/ RestoreReadsOp \/ RestoreWhose \/ RestoreSeeded
  \/ RestoreOperates \/ RestoreReport

UserStep ==
  \/ UserLists
  \/ \E r \in Restore : UserDeletesRestore(r) \/ \E d \in RestoreSources : UserRestores(r, d)
  \/ \E b \in Backup : UserBacksUp(b) \/ UserDeletesBackup(b)
  \/ OtherChanges

BackupStep(b) == BackupStarts(b) \/ BackupEnds(b) \/ BackupFails(b) \/ BackupCleanup(b)

OperatorStep(r) == OperatorStarts(r) \/ OperatorEnds(r) \/ OperatorRemoves(r)

Next ==
  \/ SyncStep \/ SyncFail
  \/ RestoreStep \/ RestoreFail
  \/ \E r \in AllRestores : RestoreBegin(r) \/ CleanupRestore(r) \/ OperatorStep(r)
  \/ OperatorReady
  \/ \E b \in Backup : BackupStep(b)
  \/ UserStep

Spec == Init /\ [][Next]_vars

(* Sync is called again after errors and changes, and a call goes on; each *)
(* Restore gets its turn in the queue; the operator, and the worker of the *)
(* Backups, do something as long as there is something to do.              *)
Fairness ==
  /\ WF_vars(SyncStep) /\ WF_vars(RestoreStep)
  /\ \A r \in AllRestores : SF_vars(RestoreBegin(r) \/ CleanupRestore(r))
  /\ WF_vars(OperatorReady \/ \E r \in AllRestores : OperatorStep(r))
  /\ WF_vars(\E b \in Backup : BackupStarts(b) \/ BackupEnds(b) \/ BackupCleanup(b))

FairSpec == Spec /\ Fairness

-----------------------------------------------------------------------------
(* Properties                                                              *)

(* Every variable has its type; the workers only rest or stand at a place  *)
(* of SyncRestore (backup.go:247-345) or Sync (provider.go:271-301).       *)
TypeOK ==
  /\ source \in Sources \cup {NoSource} /\ listed \in BOOLEAN
  /\ origin \in [Backup -> Instances]
  /\ cr \in [Backup -> {"none", "live", "failed", "deleting", "gone"}]
  /\ op \in [Backup -> {"absent", "running", "succeeded", "failed"}]
  /\ other \in [exists : BOOLEAN, archives : BOOLEAN]
  /\ cluster \in [state : {"absent", "initializing", "ready"}, archives : BOOLEAN,
                  from : Sources \cup {NoSource}]
  /\ restores \in [AllRestores ->
       [cr : {"none", "live", "deleting", "gone"}, ds : Sources \cup {NoSource},
        state : {"none", "Pending", "Running", "Succeeded", "Failed"}]]
  /\ opRestore \in [AllRestores ->
       [state : {"absent", "new", "running", "succeeded", "failed"},
        ds : Sources \cup {NoSource}, deleting : BOOLEAN]]
  /\ sync \in [pc : {"idle", "check", "existing", "source", "op", "instance", "storage",
                     "apply", "datasource"},
               listed : BOOLEAN, from : Sources \cup {NoSource}]
  /\ rs \in [pc : {"idle", "source", "op", "whose", "seeded", "operate", "report"},
             r : AllRestores, listed : BOOLEAN,
             result : {"none", "Pending", "Running", "Succeeded", "Failed"}]
  /\ edits \in Nat /\ faults \in Nat

Exists(r) == restores[r].cr \in {"live", "deleting"}

Foreign(d) ==
  IF d.type = "Backup" THEN origin[d.backup] = "other" ELSE d.instance = "other"

(* While the operator restores, isRestoreRunning (provider.go:434) says so: *)
(* a Restore is not reported as ended, and does not go away, too early.    *)
RestoreIsSeen == \A r \in AllRestores : Operating(r) => Open(r)

(* An operator restore reads the repos of its own cluster, so its source   *)
(* is the Instance's own (backup.go:472-483, 514-525).                     *)
OwnRepoOnly ==
  \A r \in AllRestores : opRestore[r].state # "absent" => ~Foreign(opRestore[r].ds)

(* A cluster whose Instance names another Instance's data starts from that *)
(* data and never empty, however late the source becomes usable            *)
(* (datasource.go:199-202).                                                *)
SeededFromSource ==
  Foreign(source) /\ cluster.state # "absent" => cluster.from = source

(* A Restore reported as Succeeded has put its source's data in place: the *)
(* operator's restore did, or the bootstrap (backup.go:281-289, 332-334).  *)
SuccessIsReal ==
  \A r \in AllRestores :
    restores[r].cr = "live" /\ restores[r].state = "Succeeded" =>
      \/ opRestore[r].state = "succeeded" /\ opRestore[r].ds = restores[r].ds
      \/ cluster.state # "absent" /\ cluster.from = restores[r].ds

Serves(r) == rs.pc # "idle" /\ rs.r = r

(* What was done to the cluster for a Restore; nothing more will be once   *)
(* it is deleted, has no operator restore, and no SyncRestore is at it.    *)
Effect(r) ==
  IF /\ restores[r].cr \in {"deleting", "gone"}
     /\ opRestore[r].state = "absent" /\ ~Serves(r)
  THEN "over"
  ELSE CASE opRestore[r].state = "running"   -> "running"
         [] opRestore[r].state = "succeeded" -> "done"
         [] opRestore[r].state = "failed"    -> "failed"
         [] OTHER                            -> "none"

Lives == [r \in AllRestores |-> restores[r].cr]

Asked == [r \in AllRestores |-> restores[r].ds]

Told == [r \in AllRestores |-> restores[r].state]

Effects == [r \in AllRestores |-> Effect(r)]

Bootstrap == IF cluster.state = "absent" THEN {} ELSE {cluster.from}

Contract == INSTANCE RestoreContract WITH
  Restores <- AllRestores, life <- Lives, asked <- Asked, report <- Told,
  effect <- Effects, bootstrap <- Bootstrap

(* The operator overwrites the cluster for a Restore at most once, never   *)
(* after its end was reported or when it is gone, and an end is reported   *)
(* once and truly, however SyncRestore, CleanupRestore, Sync, failures and *)
(* deletions interleave (backup.go:247-345, 622-644).                      *)
KeepsContract == Contract!Spec

(* A source that is usable, or becomes so without anybody's edit.          *)
SourceThere(d) ==
  CASE d.type = "Backup" ->
         /\ cr[d.backup] \in {"live", "failed"}
         /\ op[d.backup] # "absent" \/ (IF Foreign(d) THEN other ELSE cluster).archives
    [] d.type = "PointInTime" -> Foreign(d) => other.archives
    [] OTHER -> TRUE

(* Every Restore ends, or is deleted, or its source is missing: SyncRestore *)
(* and Sync do not wait for each other (provider.go:281, backup.go:247).   *)
RestoreEnds ==
  \A r \in AllRestores :
    (restores[r].cr = "live") ~>
      (~Exists(r) \/ restores[r].state \in {"Succeeded", "Failed"} \/ ~SourceThere(restores[r].ds))

SourceFailed ==
  source.type = "Backup" /\ "failed" \in {cr[source.backup], op[source.backup]}

(* Every Instance gets its cluster, if its data source can be had: Sync    *)
(* "skips" only while a restore is actively running (provider.go:271).     *)
InstanceStarts ==
  (cluster.state = "absent") ~>
    (cluster.state = "ready" \/ ~SourceThere(source) \/ ~other.exists \/ SourceFailed)

=============================================================================
