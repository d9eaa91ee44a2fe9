--------------------------- MODULE BackupLifecycle ---------------------------
(***************************************************************************)
(* Backups from the first event to the last: the operator's backups that   *)
(* schedules make are mirrored into Backup CRs, Backup CRs of users become *)
(* operator backups, and the deletion of either takes the data along or    *)
(* leaves it.                                                              *)
(*                                                                         *)
(* Three parties act on the same two objects of a name: Mirror, called for *)
(* events of operator backups and free to work on an old one, the Backup   *)
(* reconciler (SyncBackup, CleanupBackup), and the operator with its       *)
(* finalizer.  Kubernetes collects what has lost its owner, users and the  *)
(* retention of pgBackRest remove backups behind everybody's back, and the *)
(* Instance may be deleted meanwhile.  Which storage a repo stands for     *)
(* changes when Sync applies another list of storages (see BackupRepos).   *)
(***************************************************************************)
EXTENDS RepoSlots

CONSTANTS
  Name,            \* names of backups: Backup CRs and PerconaPGBackups
  NoName,
  Lists,           \* storage lists that Sync may apply
  FinalizerRaces,  \* the operator may set its finalizer while CleanupBackup
                   \* is between its calls
  MaxFaults        \* bound: failed API calls and restarts of the provider

ASSUME NoNameAssumption == NoName \notin Name

ASSUME ListsAssumption == \A l \in Lists : l \in Seq(Storage)

ASSUME FinalizerRacesAssumption == FinalizerRaces \in BOOLEAN

ASSUME MaxFaultsAssumption == MaxFaults \in Nat

VARIABLES
  instance,  \* the Instance: live, live without a backup class, deleting, gone
  slotMap,   \* the slot map annotation of its cluster
  cr,        \* Backup CRs
  op,        \* PerconaPGBackups
  at,        \* where the data of each backup lies
  mir,       \* Mirror's worker: its place and what it has read
  bk,        \* the Backup reconciler's worker
  faults,    \* what is used up of the bound
  dropped    \* history: operator backups whose storage has been dropped from
             \* the list since they were made

vars == <<instance, slotMap, cr, op, at, mir, bk, faults, dropped>>

-----------------------------------------------------------------------------
(* scheduled: spec.scheduleName is set, as only Mirror does.  owned: there *)
(* is an owner reference to the operator's backup.                         *)
CRs == [state : {"absent", "live", "deleting"}, storage : Storage \cup {NoStorage},
        policy : {"Retain", "Delete"}, scheduled : BOOLEAN, owned : BOOLEAN]

NoCR == [state |-> "absent", storage |-> NoStorage, policy |-> "Delete",
         scheduled |-> FALSE, owned |-> FALSE]

(* kind: made by SyncBackup (with a controller reference), by a schedule   *)
(* (with a generated name), or to bootstrap a replica.  keep: the finalizer*)
(* delete-backup is set.  removal: nobody has deleted the object, or       *)
(* CleanupBackup has, or somebody else.                                    *)
Ops == [state : {"absent", "new", "running", "succeeded", "failed"},
        kind : {"onDemand", "scheduled", "replica"}, slot : Slots,
        keep : BOOLEAN, removal : {"none", "cleanup", "other"}]

NoOp == [state |-> "absent", kind |-> "onDemand", slot |-> 0,
         keep |-> FALSE, removal |-> "none"]

NewOp(kind, k) == [NoOp EXCEPT !.state = "new", !.kind = kind, !.slot = k]

MirrorIdle == [pc |-> "idle", b |-> NoName, storage |-> NoStorage]

BackupIdle == [pc |-> "idle", b |-> NoName, slot |-> 0, fresh |-> FALSE]

Init ==
  /\ instance = "live"
  /\ \E l \in Lists : slotMap = reconcileRepoSlotMap(NoSlotMap, l)
  /\ cr = [b \in Name |-> NoCR]
  /\ op = [b \in Name |-> NoOp]
  /\ at = [b \in Name |-> NoStorage]
  /\ mir = MirrorIdle
  /\ bk = BackupIdle
  /\ faults = 0
  /\ dropped = {}

HasCR(b) == cr[b].state # "absent"

HasOp(b) == op[b].state # "absent"

(* A name nothing remembers may be given out again.                        *)
Unused(b) ==
  ~HasCR(b) /\ ~HasOp(b) /\ at[b] = NoStorage /\ mir.b # b /\ bk.b # b

(* Whoever changes an operator backup makes the copy that CleanupBackup    *)
(* has read an old one (resourceVersion).                                  *)
Outdates(b) == bk' = IF bk.b = b THEN [bk EXCEPT !.fresh = FALSE] ELSE bk

-----------------------------------------------------------------------------
(* Mirror, on an event of operator backup b.                               *)

(* What it looks at in the object of the event.                            *)
Mirrorable(b) ==
  /\ op[b].state # "absent" /\ op[b].removal = "none"
  /\ op[b].kind = "scheduled"    \* isScheduledBackup, and no controller

MirrorBegin(b) ==
  /\ mir.pc = "idle" /\ Mirrorable(b)
  /\ mir' = [MirrorIdle EXCEPT !.pc = "instance", !.b = b]
  /\ UNCHANGED <<instance, slotMap, cr, op, at, bk, faults, dropped>>

(* The Instance is read: no Backup for one that is gone or being deleted,  *)
(* or that has no backup class (the faulty variant looks at its existence  *)
(* only).                                                                  *)
MirrorsAnyway == instance # "gone"

MirrorsFor == instance = "live"

MirrorInstance ==
  /\ mir.pc = "instance"
  /\ mir' = IF MirrorsFor THEN [mir EXCEPT !.pc = "storage"] ELSE MirrorIdle
  /\ UNCHANGED <<instance, slotMap, cr, op, at, bk, faults, dropped>>

(* repoNameToStorageName: the storages at slot k of the live annotation    *)
(* (the faulty variants count slots from 1, like the repo names, or answer *)
(* with the empty name).                                                   *)
storagesFromOne(k) == {s \in DOMAIN slotMap : slotMap[s] = k + 1}

storagesOrNone(k) ==
  IF \E s \in DOMAIN slotMap : slotMap[s] = k
  THEN {s \in DOMAIN slotMap : slotMap[s] = k} ELSE {NoStorage}

repoNameToStorageName(k) == {s \in DOMAIN slotMap : slotMap[s] = k}

MirrorStorage ==
  /\ mir.pc = "storage"
  /\ LET found == repoNameToStorageName(op[mir.b].slot)
     IN  IF found = {}
         THEN mir' = MirrorIdle
         ELSE \E s \in found : mir' = [mir EXCEPT !.pc = "create", !.storage = s]
  /\ UNCHANGED <<instance, slotMap, cr, op, at, bk, faults, dropped>>

(* The Backup that Mirror returns (the faulty variant has no owner).       *)
UnownedBackup(s) ==
  [state |-> "live", storage |-> s, policy |-> "Delete",
   scheduled |-> TRUE, owned |-> FALSE]

MirroredBackup(s) ==
  [state |-> "live", storage |-> s, policy |-> "Delete",
   scheduled |-> TRUE, owned |-> TRUE]

(* The runtime creates it; one that exists already is left alone.          *)
MirrorCreate ==
  /\ mir.pc = "create"
  /\ cr' = IF HasCR(mir.b) THEN cr
           ELSE [cr EXCEPT ![mir.b] = MirroredBackup(mir.storage)]
  /\ mir' = MirrorIdle
  /\ UNCHANGED <<instance, slotMap, op, at, bk, faults, dropped>>

-----------------------------------------------------------------------------
(* SyncBackup, where it creates the operator's backup of a user's Backup   *)
(* (its other gates are in BackupRepos).                                   *)

BackupBegin(b) ==
  /\ bk.pc = "idle"
  /\ cr[b].state = "live" /\ ~cr[b].scheduled /\ ~HasOp(b)
  /\ cr[b].storage \in DOMAIN slotMap
  /\ bk' = [BackupIdle EXCEPT !.pc = "create", !.b = b, !.slot = slotMap[cr[b].storage]]
  /\ UNCHANGED <<instance, slotMap, cr, op, at, mir, faults, dropped>>

BackupCreate ==
  /\ bk.pc = "create"
  /\ op' = [op EXCEPT ![bk.b] = NewOp("onDemand", bk.slot)]
  /\ bk' = BackupIdle
  /\ UNCHANGED <<instance, slotMap, cr, at, mir, faults, dropped>>

(* CleanupBackup, for a Backup that is being deleted: the operator's       *)
(* backup is read, the finalizer is stripped if the data is to stay, the   *)
(* object is deleted.  It is finished when there is no such object (the    *)
(* faulty variant: or one that is being deleted).                          *)
FinishedEarly(b) == ~HasOp(b) \/ op[b].removal # "none"

Finished(b) == ~HasOp(b)

Strips(b) == cr[b].policy = "Retain" /\ op[b].keep

CleanupEnds(b) ==
  /\ bk.pc = "idle" /\ cr[b].state = "deleting"
  /\ Finished(b)
  /\ cr' = [cr EXCEPT ![b] = NoCR]
  /\ UNCHANGED <<instance, slotMap, op, at, mir, bk, faults, dropped>>

CleanupBegin(b) ==
  /\ bk.pc = "idle" /\ cr[b].state = "deleting"
  /\ ~Finished(b)
  /\ \/ Strips(b) /\ bk' = [BackupIdle EXCEPT !.pc = "strip", !.b = b, !.fresh = TRUE]
     \/ /\ ~Strips(b) /\ op[b].removal = "none"
        /\ bk' = [BackupIdle EXCEPT !.pc = "delete", !.b = b, !.fresh = TRUE]
  /\ UNCHANGED <<instance, slotMap, cr, op, at, mir, faults, dropped>>

(* The update carries the resourceVersion that was read.                   *)
CleanupStrip ==
  /\ bk.pc = "strip"
  /\ IF bk.fresh
     THEN /\ op' = [op EXCEPT ![bk.b] = [@ EXCEPT !.keep = FALSE]]
          /\ bk' = IF op[bk.b].removal = "none" THEN [bk EXCEPT !.pc = "delete"]
                   ELSE BackupIdle
     ELSE op' = op /\ bk' = BackupIdle
  /\ UNCHANGED <<instance, slotMap, cr, at, mir, faults, dropped>>

(* The deletion does not: it hits whatever is there by that name.          *)
CleanupDelete ==
  /\ bk.pc = "delete"
  /\ op' = IF HasOp(bk.b) /\ op[bk.b].removal = "none"
           THEN [op EXCEPT ![bk.b] = [@ EXCEPT !.removal = "cleanup"]]
           ELSE op
  /\ bk' = BackupIdle
  /\ UNCHANGED <<instance, slotMap, cr, at, mir, faults, dropped>>

(* A call fails, or the provider restarts.                                 *)
WorkerFails ==
  /\ faults < MaxFaults
  /\ faults' = faults + 1
  /\ \/ mir.pc # "idle" /\ mir' = MirrorIdle /\ bk' = bk
     \/ bk.pc # "idle" /\ bk' = BackupIdle /\ mir' = mir
  /\ UNCHANGED <<instance, slotMap, cr, op, at, dropped>>

-----------------------------------------------------------------------------
(* The operator.                                                           *)

(* A schedule fires as long as there is a cluster; new replicas are        *)
(* bootstrapped from a backup.                                             *)
OperatorCreates(b, k) ==
  /\ instance # "gone" /\ Unused(b)
  /\ repoNameToStorageName(k) # {}
  /\ \E kind \in {"scheduled", "replica"} : op' = [op EXCEPT ![b] = NewOp(kind, k)]
  /\ UNCHANGED <<instance, slotMap, cr, at, mir, bk, faults, dropped>>

(* It sets its finalizer before it runs the job, and sets it again if it   *)
(* misses it.                                                              *)
MayFinalize(b) == FinalizerRaces \/ bk.b # b

OperatorRuns(b) ==
  /\ op[b].state = "new" /\ op[b].removal = "none" /\ MayFinalize(b)
  /\ op' = [op EXCEPT ![b] = [@ EXCEPT !.state = "running", !.keep = TRUE]]
  /\ Outdates(b)
  /\ UNCHANGED <<instance, slotMap, cr, at, mir, faults, dropped>>

(* The job ends; it wrote to the storage its repo stands for.              *)
OperatorEnds(b) ==
  /\ op[b].state = "running" /\ op[b].removal = "none"
  /\ \/ /\ op' = [op EXCEPT ![b] = [@ EXCEPT !.state = "failed"]]
        /\ at' = at
     \/ \E s \in DOMAIN slotMap :
          /\ slotMap[s] = op[b].slot
          /\ op' = [op EXCEPT ![b] = [@ EXCEPT !.state = "succeeded"]]
          /\ at' = [at EXCEPT ![b] = s]
  /\ Outdates(b)
  /\ UNCHANGED <<instance, slotMap, cr, mir, faults, dropped>>

OperatorFinalizes(b) ==
  /\ HasOp(b) /\ op[b].state # "new" /\ op[b].removal = "none" /\ ~op[b].keep /\ MayFinalize(b)
  /\ op' = [op EXCEPT ![b] = [@ EXCEPT !.keep = TRUE]]
  /\ Outdates(b)
  /\ UNCHANGED <<instance, slotMap, cr, at, mir, faults, dropped>>

(* A deleted object with the finalizer has its data purged first; without  *)
(* it Kubernetes removes it at once.                                       *)
OperatorPurges(b) ==
  /\ HasOp(b) /\ op[b].removal # "none" /\ op[b].keep
  /\ op' = [op EXCEPT ![b] = [@ EXCEPT !.keep = FALSE]]
  /\ at' = [at EXCEPT ![b] = NoStorage]
  /\ Outdates(b)
  /\ UNCHANGED <<instance, slotMap, cr, mir, faults, dropped>>

OperatorRemoves(b) ==
  /\ HasOp(b) /\ op[b].removal # "none" /\ ~op[b].keep
  /\ op' = [op EXCEPT ![b] = NoOp]
  /\ dropped' = dropped \ {b}
  /\ Outdates(b)
  /\ UNCHANGED <<instance, slotMap, cr, at, mir, faults>>

-----------------------------------------------------------------------------
(* Kubernetes, the runtime, users.                                         *)

(* A Backup whose owner is gone is collected.                              *)
Collect(b) ==
  /\ cr[b].state = "live" /\ cr[b].owned /\ ~HasOp(b)
  /\ cr' = [cr EXCEPT ![b] = [@ EXCEPT !.state = "deleting"]]
  /\ UNCHANGED <<instance, slotMap, op, at, mir, bk, faults, dropped>>

(* The Backups of an Instance that is being deleted are deleted first;     *)
(* Cleanup then removes the cluster and the Instance goes.                 *)
CascadeDeletes(b) ==
  /\ instance = "deleting" /\ cr[b].state = "live"
  /\ cr' = [cr EXCEPT ![b] = [@ EXCEPT !.state = "deleting"]]
  /\ UNCHANGED <<instance, slotMap, op, at, mir, bk, faults, dropped>>

CascadeEnds ==
  /\ instance = "deleting" /\ \A b \in Name : ~HasCR(b)
  /\ instance' = "gone"
  /\ slotMap' = NoSlotMap
  /\ UNCHANGED <<cr, op, at, mir, bk, faults, dropped>>

(* spec.backup, or its class, is removed from the Instance or put back.    *)
UserChangesClass ==
  /\ \/ instance = "live" /\ instance' = "classless"
     \/ instance = "classless" /\ instance' = "live"
  /\ UNCHANGED <<slotMap, cr, op, at, mir, bk, faults, dropped>>

UserDeletesInstance ==
  /\ instance \in {"live", "classless"}
  /\ instance' = "deleting"
  /\ UNCHANGED <<slotMap, cr, op, at, mir, bk, faults, dropped>>

UserBacksUp(b, s) ==
  /\ instance \in {"live", "classless"} /\ Unused(b)
  /\ \E policy \in {"Retain", "Delete"} :
       cr' = [cr EXCEPT ![b] = [NoCR EXCEPT !.state = "live", !.storage = s, !.policy = policy]]
  /\ UNCHANGED <<instance, slotMap, op, at, mir, bk, faults, dropped>>

UserSetsPolicy(b) ==
  /\ cr[b].state = "live"
  /\ \E policy \in {"Retain", "Delete"} :
       cr' = [cr EXCEPT ![b] = [@ EXCEPT !.policy = policy]]
  /\ UNCHANGED <<instance, slotMap, op, at, mir, bk, faults, dropped>>

UserDeletesBackup(b) ==
  /\ cr[b].state = "live"
  /\ cr' = [cr EXCEPT ![b] = [@ EXCEPT !.state = "deleting"]]
  /\ UNCHANGED <<instance, slotMap, op, at, mir, bk, faults, dropped>>

(* The operator's backup is deleted by a user, or by the retention.        *)
Expires(b) ==
  /\ HasOp(b) /\ op[b].removal = "none"
  /\ op' = [op EXCEPT ![b] = [@ EXCEPT !.removal = "other"]]
  /\ Outdates(b)
  /\ UNCHANGED <<instance, slotMap, cr, at, mir, faults, dropped>>

(* Sync applies a list of storages (see BackupRepos): of the Instance as   *)
(* it is or as it was.                                                     *)
Drops(list, k) == \E s \in DOMAIN slotMap \ ToSet(list) : slotMap[s] = k

SyncApplies(list) ==
  /\ instance \in {"live", "classless"}
  /\ slotMap' = reconcileRepoSlotMap(slotMap, list)
  /\ dropped' = dropped \cup {b \in Name : HasOp(b) /\ Drops(list, op[b].slot)}
  /\ UNCHANGED <<instance, cr, op, at, mir, bk, faults>>

-----------------------------------------------------------------------------

MirrorStep == MirrorInstance \/ MirrorStorage \/ MirrorCreate

CleanupStep == CleanupStrip \/ CleanupDelete

KubernetesStep(b) == Collect(b) \/ CascadeDeletes(b)

OperatorStep(b) ==
  OperatorRuns(b) \/ OperatorEnds(b) \/ OperatorPurges(b) \/ OperatorRemoves(b)

Next ==
  \/ MirrorStep \/ BackupCreate \/ CleanupStep \/ WorkerFails
  \/ CascadeEnds \/ UserChangesClass \/ UserDeletesInstance
  \/ \E l \in Lists : SyncApplies(l)
  \/ \E b \in Name :
       \/ MirrorBegin(b) \/ BackupBegin(b) \/ CleanupBegin(b) \/ CleanupEnds(b)
       \/ OperatorStep(b) \/ OperatorFinalizes(b)
       \/ KubernetesStep(b)
       \/ UserSetsPolicy(b) \/ UserDeletesBackup(b) \/ Expires(b)
       \/ \E k \in Slots : OperatorCreates(b, k)
       \/ \E s \in Storage : UserBacksUp(b, s)

Spec == Init /\ [][Next]_vars

(* Mirror is called for every event of an operator backup and again for    *)
(* all of them when its watch is resynchronised, one after the other, so   *)
(* strongly fairly for each name; likewise the Backup reconciler for a     *)
(* Backup that is being deleted.  A call that has begun goes on.           *)
(* Kubernetes and the operator do their work; schedules and users need not *)
(* act.                                                                    *)
Fairness ==
  /\ WF_vars(MirrorStep)
  /\ WF_vars(BackupCreate \/ CleanupStep)
  /\ WF_vars(CascadeEnds)
  /\ \A b \in Name : /\ SF_vars(MirrorBegin(b) /\ ~HasCR(b))
                     /\ SF_vars(CleanupBegin(b) \/ CleanupEnds(b))
                     /\ WF_vars(OperatorStep(b))
                     /\ WF_vars(KubernetesStep(b))

FairSpec == Spec /\ Fairness

-----------------------------------------------------------------------------
(* Safety.                                                                 *)

TypeOK ==
  /\ instance \in {"live", "classless", "deleting", "gone"}
  /\ slotMap \in SlotMaps
  /\ cr \in [Name -> CRs] /\ \A b \in Name : HasCR(b) => cr[b].storage \in Storage
  /\ op \in [Name -> Ops]
  /\ at \in [Name -> Storage \cup {NoStorage}]
  /\ mir \in [pc : {"idle", "instance", "storage", "create"},
              b : Name \cup {NoName}, storage : Storage \cup {NoStorage}]
  /\ bk \in [pc : {"idle", "create", "strip", "delete"},
             b : Name \cup {NoName}, slot : Slots, fresh : BOOLEAN]
  /\ faults \in 0 .. MaxFaults
  /\ dropped \subseteq Name

(* The deletion a Backup stands for, as long as the operator's backup is   *)
(* there: a Backup without one has nothing to delete.                      *)
Wish(b) == IF cr[b].state = "deleting" /\ HasOp(b) THEN cr[b].policy ELSE "none"

Store == INSTANCE BackupStore WITH
  data    <- {b \in Name : at[b] # NoStorage},
  wish    <- [b \in Name |-> Wish(b)],
  expired <- {b \in Name : op[b].removal = "other"}

(* Retained data stays and deleted data goes, whichever of the steps of    *)
(* CleanupBackup fail, repeat, conflict with the operator or race with a   *)
(* Mirror that brings the Backup back.                                     *)
KeepsPromise == Store!Spec

(* A mirrored Backup stands for a scheduled backup, never for one that     *)
(* bootstraps a replica, and names the storage that has the data, although *)
(* Mirror finds the storage by a slot map read after the event and other   *)
(* storages come, go and change places in the list meanwhile.  The one way *)
(* to go wrong is that users drop this very storage while the operator has *)
(* the backup: the slot may then change hands.                             *)
MirroredIsReal ==
  \A b \in Name : cr[b].scheduled /\ HasOp(b) =>
    /\ op[b].kind = "scheduled"
    /\ at[b] \in {cr[b].storage, NoStorage} \/ b \in dropped

(* The backups from which BackupStorageStatuses computes the recovery      *)
(* window of a storage (collectRepoBackups, by the repo of the storage).   *)
RepoBackups(s) ==
  {b \in Name : op[b].slot = slotMap[s] /\ op[b].state = "succeeded"}

(* "Every storage carries an independent stream and window": a window      *)
(* rests on data that lies in that storage (or is just being removed),     *)
(* whatever lists are applied, but for backups of a storage that was       *)
(* dropped: those count for the storage that takes its slot.               *)
WindowIsOwn ==
  \A s \in DOMAIN slotMap : \A b \in RepoBackups(s) \ dropped :
    op[b].removal = "none" => at[b] = s

-----------------------------------------------------------------------------
(* Liveness.                                                               *)

(* A Backup that Mirror made too late, when the operator's backup is gone, *)
(* goes again.                                                             *)
OrphansGo ==
  \A b \in Name : (cr[b].scheduled /\ ~HasOp(b)) ~> ~HasCR(b)

(* A scheduled backup gets its Backup, unless it, its storage, the backup  *)
(* class or the Instance goes first.                                       *)
ScheduledIsMirrored ==
  \A b \in Name :
    (op[b].kind = "scheduled" /\ HasOp(b)) ~>
      \/ HasCR(b)
      \/ op[b].removal # "none" \/ ~HasOp(b)
      \/ b \in dropped \/ instance # "live"

(* The deletion of an Instance ends although its schedules go on firing    *)
(* and every backup they make asks to be mirrored.                         *)
InstanceGoes == instance = "deleting" ~> instance = "gone"

=============================================================================
