----------------------- MODULE BackupLifecycleProofs -----------------------
(***************************************************************************)
(* Theorems about BackupLifecycle: type correctness; that it implements    *)
(* BackupStore, when the operator keeps its finalizer off a backup that    *)
(* CleanupBackup is at; and that mirrored Backups and recovery windows     *)
(* rest on the storage they name, whatever lists of storages are applied   *)
(* and whatever the operator does, until that storage is dropped.          *)
(***************************************************************************)
EXTENDS BackupLifecycle, RepoSlotsProofs

MirrorWorkers ==
  [pc : {"idle", "instance", "storage", "create"},
   b : Name \cup {NoName}, storage : Storage \cup {NoStorage}]

BackupWorkers ==
  [pc : {"idle", "create", "strip", "delete"},
   b : Name \cup {NoName}, slot : Slots, fresh : BOOLEAN]

-----------------------------------------------------------------------------
(* The inductive invariant.                                                *)

(* A worker that is at work knows what it works on.                        *)
WorkersNamed ==
  /\ mir.pc # "idle" => mir.b \in Name
  /\ mir.pc = "create" => mir.storage \in Storage
  /\ bk.pc # "idle" => bk.b \in Name

(* An operator backup that has not run has no data, nor has a user's       *)
(* Backup that it will be made for.                                        *)
NewIsEmpty ==
  /\ \A b \in Name : ~HasOp(b) => op[b].removal = "none" /\ ~op[b].keep
  /\ \A b \in Name : op[b].state = "new" => at[b] = NoStorage
  /\ \A b \in Name :
       cr[b].state = "live" /\ ~cr[b].scheduled /\ ~HasOp(b) => at[b] = NoStorage
  /\ bk.pc = "create" => ~HasOp(bk.b) /\ at[bk.b] = NoStorage

Asks(b, policy) == cr[b].state = "deleting" /\ cr[b].policy = policy

(* The operator's finalizer is missing from a backup with data only when   *)
(* that data is to stay (backup.go:578-603).                               *)
StrippedIsRetained ==
  \A b \in Name :
    HasOp(b) /\ ~op[b].keep
        /\ (at[b] # NoStorage \/ (op[b].state = "running" /\ op[b].removal = "none"))
      => Asks(b, "Retain")

(* CleanupBackup deletes a backup that has the finalizer only when its     *)
(* data is to go, unless the operator puts the finalizer back meanwhile.   *)
PurgedIsAsked ==
  \A b \in Name :
    op[b].removal = "cleanup" /\ op[b].keep => Asks(b, "Delete") \/ FinalizerRaces

(* What CleanupBackup has read still holds: its Backup stays until it is   *)
(* done, and nobody but the operator puts the finalizer back meanwhile.    *)
CleanupReads ==
  /\ bk.pc = "strip" => Asks(bk.b, "Retain")
  /\ bk.pc = "delete" =>
       /\ cr[bk.b].state = "deleting"
       /\ cr[bk.b].policy = "Delete" \/ ~op[bk.b].keep \/ FinalizerRaces

PromiseInv ==
  TypeOK /\ WorkersNamed /\ NewIsEmpty /\ StrippedIsRetained /\ PurgedIsAsked /\ CleanupReads

(* The storage that a slot stands for, as long as there is a cluster.      *)
Assigned(s, k) == instance # "gone" => s \in DOMAIN slotMap /\ slotMap[s] = k

SlotsAreOwn ==
  /\ IsInjective(slotMap)
  /\ instance = "gone" => slotMap = NoSlotMap

(* A backup's slot stands for a storage until that storage is dropped.     *)
Holds(b, s) == b \in dropped \/ Assigned(s, op[b].slot)

(* Data lies in the storage of its backup's slot, and a backup that has    *)
(* succeeded has data until its removal.                                   *)
DataIsInSlot ==
  \A b \in Name :
    /\ HasOp(b) /\ at[b] # NoStorage => Holds(b, at[b])
    /\ op[b].state = "succeeded" /\ op[b].removal = "none" => at[b] # NoStorage

(* A storage that Mirror names for a scheduled backup is the one of its    *)
(* slot, and the one that has its data.                                    *)
MirrorsWell(b, s) ==
  /\ op[b].kind = "scheduled"
  /\ at[b] \in {s, NoStorage} \/ b \in dropped
  /\ Holds(b, s)

MirroredWell ==
  /\ \A b \in Name : cr[b].scheduled /\ HasOp(b) => MirrorsWell(b, cr[b].storage)
  /\ mir.pc = "create" /\ HasOp(mir.b) => MirrorsWell(mir.b, mir.storage)

(* Mirror never works on a Backup of a user, nor SyncBackup on one of      *)
(* Mirror's.                                                               *)
KindsApart ==
  /\ mir.pc # "idle" =>
       /\ HasOp(mir.b) => op[mir.b].kind = "scheduled"
       /\ HasCR(mir.b) => cr[mir.b].scheduled
  /\ bk.pc = "create" => HasCR(bk.b) /\ ~cr[bk.b].scheduled
  /\ \A b \in Name : HasOp(b) /\ op[b].kind = "scheduled" /\ HasCR(b) => cr[b].scheduled
  /\ \A b \in Name : cr[b].scheduled => HasCR(b)

StorageInv ==
  SlotsAreOwn /\ DataIsInSlot /\ MirroredWell /\ KindsApart

-----------------------------------------------------------------------------
(* What the steps do to the objects and the workers.                       *)

LEMMA TypeParts ==
  TypeOK => /\ instance \in {"live", "classless", "deleting", "gone"}
            /\ slotMap \in SlotMaps
            /\ cr \in [Name -> CRs] /\ (\A b \in Name : HasCR(b) => cr[b].storage \in Storage)
            /\ op \in [Name -> Ops]
            /\ at \in [Name -> Storage \cup {NoStorage}]
            /\ mir \in MirrorWorkers /\ bk \in BackupWorkers
            /\ faults \in 0 .. MaxFaults /\ dropped \subseteq Name
BY DEF TypeOK, MirrorWorkers, BackupWorkers

LEMMA SlotZero == 0 \in Slots
BY MaxReposAssumption DEF Slots

LEMMA Initials ==
  /\ NoCR \in CRs /\ NoCR.state = "absent" /\ ~NoCR.scheduled
  /\ NoOp \in Ops /\ NoOp.state = "absent" /\ NoOp.removal = "none" /\ ~NoOp.keep
  /\ MirrorIdle \in MirrorWorkers /\ MirrorIdle.pc = "idle"
  /\ BackupIdle \in BackupWorkers /\ BackupIdle.pc = "idle"
<1>1. NoCR \in CRs /\ NoCR.state = "absent" /\ ~NoCR.scheduled
  BY DEF NoCR, CRs
<1>2. NoOp \in Ops /\ NoOp.state = "absent" /\ NoOp.removal = "none" /\ ~NoOp.keep
  BY SlotZero DEF NoOp, Ops
<1>3. MirrorIdle \in MirrorWorkers /\ MirrorIdle.pc = "idle"
  BY DEF MirrorIdle, MirrorWorkers
<1>4. BackupIdle \in BackupWorkers /\ BackupIdle.pc = "idle"
  BY SlotZero DEF BackupIdle, BackupWorkers
<1> QED BY <1>1, <1>2, <1>3, <1>4

(* What is created for a backup (backup.go:118-139).                       *)
LEMMA NewOpIs ==
  ASSUME NEW kind \in {"onDemand", "scheduled", "replica"}, NEW k \in Slots
  PROVE  /\ NewOp(kind, k) \in Ops
         /\ NewOp(kind, k).state = "new" /\ NewOp(kind, k).kind = kind
         /\ NewOp(kind, k).slot = k /\ ~NewOp(kind, k).keep
         /\ NewOp(kind, k).removal = "none"
<1> DEFINE o1 == [NoOp EXCEPT !.state = "new"]
           o2 == [o1 EXCEPT !.kind = kind]
           o3 == [o2 EXCEPT !.slot = k]
<1>1. o1 \in Ops /\ o1.state = "new" /\ ~o1.keep /\ o1.removal = "none"
  BY Initials DEF Ops
<1> HIDE DEF o1
<1>2. /\ o2 \in Ops /\ o2.state = "new" /\ o2.kind = kind /\ ~o2.keep
      /\ o2.removal = "none"
  BY <1>1 DEF Ops
<1> HIDE DEF o2
<1>3. /\ o3 \in Ops /\ o3.state = "new" /\ o3.kind = kind /\ o3.slot = k /\ ~o3.keep
      /\ o3.removal = "none"
  BY <1>2 DEF Ops
<1>4. NewOp(kind, k) = o3
  BY DEF NewOp, o1, o2
<1> QED BY <1>3, <1>4

(* Whoever changes an operator backup leaves the Backup reconciler where   *)
(* it is.                                                                  *)
LEMMA OutdatesTyped ==
  ASSUME bk \in BackupWorkers, NEW b, Outdates(b)
  PROVE  bk' \in BackupWorkers /\ bk'.pc = bk.pc /\ bk'.b = bk.b /\ bk'.slot = bk.slot
BY DEF Outdates, BackupWorkers

(* The places that the workers reach by their reads.                       *)
LEMMA MirrorReads ==
  ASSUME TypeOK, WorkersNamed, MirrorInstance \/ MirrorStorage \/ \E b \in Name : MirrorBegin(b)
  PROVE  /\ mir' \in MirrorWorkers
         /\ mir'.pc # "idle" => mir'.b \in Name
         /\ mir'.pc = "create" => mir'.storage \in Storage
         /\ \/ mir'.pc = "idle"
            \/ mir'.pc = "instance" /\ mir.pc = "idle" /\ Mirrorable(mir'.b)
            \/ mir'.pc = "storage" /\ mir.pc = "instance" /\ mir'.b = mir.b
            \/ /\ mir'.pc = "create" /\ mir.pc = "storage" /\ mir'.b = mir.b
               /\ mir'.storage \in repoNameToStorageName(op[mir.b].slot)
         /\ UNCHANGED <<instance, slotMap, cr, op, at, bk, faults, dropped>>
<1>0. mir \in MirrorWorkers /\ slotMap \in SlotMaps
  BY TypeParts
<1>1. ASSUME NEW b \in Name, MirrorBegin(b)
      PROVE  /\ mir' \in MirrorWorkers /\ mir'.pc = "instance" /\ mir'.b = b
             /\ mir.pc = "idle" /\ Mirrorable(b)
  <2>1. mir' = [pc |-> "instance", b |-> b, storage |-> NoStorage]
    BY <1>1 DEF MirrorBegin, MirrorIdle
  <2>2. mir.pc = "idle" /\ Mirrorable(b)
    BY <1>1 DEF MirrorBegin
  <2> QED BY <2>1, <2>2 DEF MirrorWorkers
<1>2. CASE MirrorInstance
  <2>1. mir' = [mir EXCEPT !.pc = "storage"] \/ mir' = MirrorIdle
    BY <1>2 DEF MirrorInstance
  <2>2. mir.pc = "instance" /\ mir.b \in Name
    BY <1>2 DEF MirrorInstance, WorkersNamed
  <2>3. CASE mir' = [mir EXCEPT !.pc = "storage"]
    BY <1>0, <1>2, <2>2, <2>3 DEF MirrorInstance, MirrorWorkers
  <2>4. CASE mir' = MirrorIdle
    BY <1>2, <2>4, Initials DEF MirrorInstance
  <2> QED BY <2>1, <2>3, <2>4
<1>3. CASE MirrorStorage
  <2>1. mir.pc = "storage" /\ mir.b \in Name
    BY <1>3 DEF MirrorStorage, WorkersNamed
  <2>2. CASE mir' = MirrorIdle
    BY <1>3, <2>2, Initials DEF MirrorStorage
  <2>3. CASE mir' # MirrorIdle
    <3>1. PICK s \in repoNameToStorageName(op[mir.b].slot) :
            mir' = [mir EXCEPT !.pc = "create", !.storage = s]
      BY <1>3, <2>3 DEF MirrorStorage
    <3>2. s \in Storage
      BY <1>0, <3>1 DEF repoNameToStorageName, SlotMaps
    <3>3. mir' = [pc |-> "create", b |-> mir.b, storage |-> s]
      BY <1>0, <3>1 DEF MirrorWorkers
    <3> QED BY <1>0, <1>3, <2>1, <3>1, <3>2, <3>3 DEF MirrorStorage, MirrorWorkers
  <2> QED BY <2>2, <2>3
<1>4. UNCHANGED <<instance, slotMap, cr, op, at, bk, faults, dropped>>
  BY DEF MirrorInstance, MirrorStorage, MirrorBegin
<1> QED BY <1>1, <1>2, <1>3, <1>4

LEMMA BackupReads ==
  ASSUME TypeOK, WorkersNamed, \E b \in Name : BackupBegin(b) \/ CleanupBegin(b)
  PROVE  /\ bk' \in BackupWorkers /\ bk'.b \in Name /\ bk.pc = "idle"
         /\ \/ /\ bk'.pc = "create" /\ ~HasOp(bk'.b)
               /\ cr[bk'.b].state = "live" /\ ~cr[bk'.b].scheduled
            \/ bk'.pc = "strip" /\ Asks(bk'.b, "Retain")
            \/ /\ bk'.pc = "delete" /\ cr[bk'.b].state = "deleting"
               /\ cr[bk'.b].policy = "Delete" \/ ~op[bk'.b].keep
         /\ UNCHANGED <<instance, slotMap, cr, op, at, mir, faults, dropped>>
<1>0. cr \in [Name -> CRs] /\ slotMap \in SlotMaps /\ bk \in BackupWorkers
  BY TypeParts
<1>1. PICK b \in Name : BackupBegin(b) \/ CleanupBegin(b)
  OBVIOUS
<1>2. CASE BackupBegin(b)
  <2>1. bk' = [pc |-> "create", b |-> b, slot |-> slotMap[cr[b].storage], fresh |-> FALSE]
    BY <1>2 DEF BackupBegin, BackupIdle
  <2>2. slotMap[cr[b].storage] \in Slots
    BY <1>0, <1>2 DEF BackupBegin, SlotMaps
  <2>3. bk' \in BackupWorkers /\ bk'.b = b /\ bk'.pc = "create"
    BY <2>1, <2>2 DEF BackupWorkers
  <2>4. /\ cr[b].state = "live" /\ ~cr[b].scheduled /\ ~HasOp(b) /\ bk.pc = "idle"
        /\ UNCHANGED <<instance, slotMap, cr, op, at, mir, faults, dropped>>
    BY <1>2 DEF BackupBegin
  <2> QED BY <2>3, <2>4
<1>3. CASE CleanupBegin(b)
  <2>1. PICK pc \in {"strip", "delete"} :
          /\ bk' = [pc |-> pc, b |-> b, slot |-> 0, fresh |-> TRUE]
          /\ pc = "strip" <=> Strips(b)
    BY <1>3 DEF CleanupBegin, BackupIdle
  <2>2. bk' \in BackupWorkers /\ bk'.b = b /\ bk'.pc = pc
    BY <2>1, SlotZero DEF BackupWorkers
  <2>3. cr[b].policy \in {"Retain", "Delete"} /\ cr[b].state = "deleting" /\ bk.pc = "idle"
    BY <1>0, <1>3 DEF CleanupBegin, CRs
  <2>4. UNCHANGED <<instance, slotMap, cr, op, at, mir, faults, dropped>>
    BY <1>3 DEF CleanupBegin
  <2> QED BY <2>1, <2>2, <2>3, <2>4 DEF Strips, Asks
<1> QED BY <1>1, <1>2, <1>3

(* A failing call leaves the objects alone.                                *)
LEMMA FailingStops ==
  ASSUME TypeOK, WorkerFails
  PROVE  /\ mir' \in MirrorWorkers /\ (mir' = mir \/ mir'.pc = "idle")
         /\ bk' \in BackupWorkers /\ (bk' = bk \/ bk'.pc = "idle")
         /\ faults' \in 0 .. MaxFaults
         /\ UNCHANGED <<instance, slotMap, cr, op, at, dropped>>
BY TypeParts, Initials, MaxFaultsAssumption DEF WorkerFails

-----------------------------------------------------------------------------
(* Steps that write Backups: one Backup changes, and how.                  *)

CRStep ==
  \/ MirrorCreate
  \/ \E b \in Name :
       \/ CleanupEnds(b) \/ KubernetesStep(b) \/ UserSetsPolicy(b) \/ UserDeletesBackup(b)
       \/ \E s \in Storage : UserBacksUp(b, s)

WritesCR(b) ==
  /\ cr' \in [Name -> CRs]
  /\ \A x \in Name \ {b} : cr'[x] = cr[x]
  /\ HasCR(b)' => cr'[b].storage \in Storage

Appears(b) ==
  /\ cr[b].state = "absent" /\ cr'[b].state = "live"
  /\ mir.pc = "create" /\ mir.b = b
  /\ cr'[b].scheduled /\ cr'[b].storage = mir.storage

Vanishes(b) ==
  /\ cr[b].state = "deleting" /\ cr'[b].state = "absent"
  /\ ~HasOp(b) /\ bk.pc = "idle" /\ ~cr'[b].scheduled

IsDeleted(b) ==
  /\ cr[b].state = "live" /\ cr'[b].state = "deleting"
  /\ cr'[b].policy = cr[b].policy /\ cr'[b].scheduled = cr[b].scheduled
  /\ cr'[b].storage = cr[b].storage

IsEdited(b) ==
  /\ cr[b].state = "live" /\ cr'[b].state = "live"
  /\ cr'[b].scheduled = cr[b].scheduled /\ cr'[b].storage = cr[b].storage

IsAsked(b) ==
  /\ Unused(b) /\ cr'[b].state = "live" /\ ~cr'[b].scheduled

LEMMA CRSteps ==
  ASSUME TypeOK, WorkersNamed, CRStep
  PROVE  /\ \/ cr' = cr
            \/ \E b \in Name :
                 /\ WritesCR(b)
                 /\ Appears(b) \/ Vanishes(b) \/ IsDeleted(b) \/ IsEdited(b) \/ IsAsked(b)
         /\ mir' \in MirrorWorkers /\ (mir' = mir \/ mir'.pc = "idle")
         /\ UNCHANGED <<instance, slotMap, op, at, bk, faults, dropped>>
<1>0. /\ cr \in [Name -> CRs] /\ mir \in MirrorWorkers
      /\ \A b \in Name : HasCR(b) => cr[b].storage \in Storage
  BY TypeParts
<1>1. CASE MirrorCreate
  <2>1. mir.b \in Name /\ mir.storage \in Storage
    BY <1>1 DEF MirrorCreate, WorkersNamed
  <2>2. MirroredBackup(mir.storage) \in CRs
    BY <2>1 DEF MirroredBackup, CRs
  <2>3. mir' \in MirrorWorkers /\ mir'.pc = "idle"
    BY <1>1, Initials DEF MirrorCreate
  <2>4. CASE HasCR(mir.b)
    BY <1>1, <2>3, <2>4 DEF MirrorCreate
  <2>5. CASE ~HasCR(mir.b)
    <3>1. cr' = [cr EXCEPT ![mir.b] = MirroredBackup(mir.storage)]
      BY <1>1, <2>5 DEF MirrorCreate
    <3>2. WritesCR(mir.b) /\ Appears(mir.b)
      BY <1>0, <1>1, <2>1, <2>2, <2>5, <3>1
         DEF WritesCR, Appears, HasCR, MirroredBackup, MirrorCreate
    <3> QED BY <1>1, <2>1, <2>3, <3>2 DEF MirrorCreate
  <2> QED BY <2>4, <2>5
<1>2. ASSUME NEW b \in Name, CleanupEnds(b) PROVE WritesCR(b) /\ Vanishes(b)
  BY <1>0, <1>2, Initials DEF CleanupEnds, WritesCR, Vanishes, HasCR, Finished
<1>3. ASSUME NEW b \in Name, cr[b].state = "live",
             cr' = [cr EXCEPT ![b] = [cr[b] EXCEPT !.state = "deleting"]]
      PROVE  WritesCR(b) /\ IsDeleted(b)
  <2> DEFINE c == [cr[b] EXCEPT !.state = "deleting"]
  <2>1. /\ c \in CRs /\ c.state = "deleting" /\ c.policy = cr[b].policy
        /\ c.scheduled = cr[b].scheduled /\ c.storage = cr[b].storage
    BY <1>0 DEF CRs
  <2>2. cr' = [cr EXCEPT ![b] = c]
    BY <1>3
  <2>3. cr[b].storage \in Storage
    BY <1>0, <1>3 DEF HasCR
  <2> HIDE DEF c
  <2> QED BY <1>0, <1>3, <2>1, <2>2, <2>3 DEF WritesCR, IsDeleted, HasCR
<1>4. ASSUME NEW b \in Name, UserSetsPolicy(b) PROVE WritesCR(b) /\ IsEdited(b)
  <2>1. PICK policy \in {"Retain", "Delete"} :
          cr' = [cr EXCEPT ![b] = [cr[b] EXCEPT !.policy = policy]]
    BY <1>4 DEF UserSetsPolicy
  <2> DEFINE c == [cr[b] EXCEPT !.policy = policy]
  <2>2. /\ c \in CRs /\ c.state = cr[b].state
        /\ c.scheduled = cr[b].scheduled /\ c.storage = cr[b].storage
    BY <1>0 DEF CRs
  <2>3. cr' = [cr EXCEPT ![b] = c] /\ cr[b].state = "live"
    BY <1>4, <2>1 DEF UserSetsPolicy
  <2>4. cr[b].storage \in Storage
    BY <1>0, <2>3 DEF HasCR
  <2> HIDE DEF c
  <2> QED BY <1>0, <2>2, <2>3, <2>4 DEF WritesCR, IsEdited, HasCR
<1>5. ASSUME NEW b \in Name, NEW s \in Storage, UserBacksUp(b, s)
      PROVE  WritesCR(b) /\ IsAsked(b)
  <2>1. PICK policy \in {"Retain", "Delete"} :
          cr' = [cr EXCEPT ![b] = [NoCR EXCEPT !.state = "live", !.storage = s, !.policy = policy]]
    BY <1>5 DEF UserBacksUp
  <2> DEFINE c1 == [NoCR EXCEPT !.state = "live"]
             c2 == [c1 EXCEPT !.storage = s]
             c == [c2 EXCEPT !.policy = policy]
  <2>2. c1 \in CRs /\ c1.state = "live" /\ ~c1.scheduled
    BY Initials DEF CRs
  <2> HIDE DEF c1
  <2>3. c2 \in CRs /\ c2.state = "live" /\ ~c2.scheduled /\ c2.storage = s
    BY <2>2 DEF CRs
  <2> HIDE DEF c2
  <2>4. c \in CRs /\ c.state = "live" /\ ~c.scheduled /\ c.storage = s
    BY <2>3 DEF CRs
  <2>5. cr' = [cr EXCEPT ![b] = c]
    BY <2>1 DEF c1, c2
  <2> HIDE DEF c
  <2> QED BY <1>0, <1>5, <2>4, <2>5 DEF WritesCR, IsAsked, UserBacksUp
<1>6. ASSUME NEW b \in Name, KubernetesStep(b) \/ UserDeletesBackup(b)
      PROVE  WritesCR(b) /\ IsDeleted(b)
  BY <1>3, <1>6 DEF KubernetesStep, Collect, CascadeDeletes, UserDeletesBackup
<1>7. ~MirrorCreate => mir' = mir
  BY DEF CRStep, CleanupEnds, KubernetesStep, Collect, CascadeDeletes, UserSetsPolicy,
     UserDeletesBackup, UserBacksUp
<1>8. UNCHANGED <<instance, slotMap, op, at, bk, faults, dropped>>
  BY DEF CRStep, MirrorCreate, CleanupEnds, KubernetesStep, Collect, CascadeDeletes,
     UserSetsPolicy, UserDeletesBackup, UserBacksUp
<1> QED BY <1>0, <1>1, <1>2, <1>4, <1>5, <1>6, <1>7, <1>8 DEF CRStep

-----------------------------------------------------------------------------
(* Steps that write operator backups: one changes, and how.                *)

WritesOp(b) ==
  /\ op' \in [Name -> Ops]
  /\ \A x \in Name \ {b} : op'[x] = op[x]
  /\ UNCHANGED <<instance, slotMap, cr, mir, faults>>
  /\ dropped' \subseteq dropped /\ dropped \ {b} \subseteq dropped'
  /\ op'[b].state # "absent" => dropped' = dropped

(* A backup that loses its finalizer is otherwise as it was.               *)
LEMMA Unkept ==
  ASSUME NEW o \in Ops
  PROVE  /\ [o EXCEPT !.keep = FALSE] \in Ops
         /\ ~[o EXCEPT !.keep = FALSE].keep
         /\ [o EXCEPT !.keep = FALSE].state = o.state
         /\ [o EXCEPT !.keep = FALSE].removal = o.removal
         /\ [o EXCEPT !.keep = FALSE].kind = o.kind
         /\ [o EXCEPT !.keep = FALSE].slot = o.slot
<1> DEFINE p == [o EXCEPT !.keep = FALSE]
<1>1. p \in Ops
  BY DEF Ops
<1>2. p.state = o.state /\ p.removal = o.removal /\ p.kind = o.kind /\ p.slot = o.slot
  BY DEF Ops
<1>3. p.keep = FALSE
  BY DEF Ops
<1> QED BY <1>1, <1>2, <1>3

(* It stays the same backup.                                               *)
Same(b) == op'[b].kind = op[b].kind /\ op'[b].slot = op[b].slot

(* The Backup reconciler is where it was.                                  *)
LeavesBackup ==
  bk' \in BackupWorkers /\ bk'.pc = bk.pc /\ bk'.b = bk.b /\ bk'.slot = bk.slot

LEMMA CreateWrites ==
  ASSUME TypeOK, WorkersNamed, BackupCreate
  PROVE  /\ bk.pc = "create" /\ bk.b \in Name /\ bk' = BackupIdle /\ at' = at
         /\ WritesOp(bk.b)
         /\ op'[bk.b].state = "new" /\ op'[bk.b].kind = "onDemand" /\ ~op'[bk.b].keep
         /\ op'[bk.b].removal = "none"
<1>1. bk.pc = "create" /\ bk.b \in Name /\ bk.slot \in Slots /\ op \in [Name -> Ops]
  BY TypeParts DEF BackupCreate, WorkersNamed, BackupWorkers
<1> QED BY <1>1, NewOpIs DEF BackupCreate, WritesOp

LEMMA StripWrites ==
  ASSUME TypeOK, WorkersNamed, CleanupStrip
  PROVE  /\ bk.pc = "strip" /\ bk.b \in Name /\ bk' \in BackupWorkers /\ at' = at
         /\ WritesOp(bk.b) /\ Same(bk.b)
         /\ op'[bk.b].state = op[bk.b].state /\ op'[bk.b].removal = op[bk.b].removal
         /\ op' = op \/ ~op'[bk.b].keep
         /\ \/ bk'.pc = "idle"
            \/ bk'.pc = "delete" /\ bk'.b = bk.b /\ ~op'[bk.b].keep
<1>1. /\ bk.pc = "strip" /\ bk.b \in Name /\ op \in [Name -> Ops] /\ bk \in BackupWorkers
      /\ UNCHANGED <<instance, slotMap, cr, at, mir, faults, dropped>>
  BY TypeParts DEF CleanupStrip, WorkersNamed
<1>2. CASE bk.fresh
  <2> DEFINE o == [op[bk.b] EXCEPT !.keep = FALSE]
  <2>1. /\ o \in Ops /\ ~o.keep /\ o.state = op[bk.b].state /\ o.removal = op[bk.b].removal
        /\ o.kind = op[bk.b].kind /\ o.slot = op[bk.b].slot
    BY <1>1, Unkept
  <2>2. op' = [op EXCEPT ![bk.b] = o]
    BY <1>2 DEF CleanupStrip
  <2>3. bk' = [bk EXCEPT !.pc = "delete"] \/ bk' = BackupIdle
    BY <1>2 DEF CleanupStrip
  <2>4. /\ bk' \in BackupWorkers
        /\ bk'.pc = "idle" \/ (bk'.pc = "delete" /\ bk'.b = bk.b)
    BY <1>1, <2>3, Initials DEF BackupWorkers
  <2> HIDE DEF o
  <2> QED BY <1>1, <2>1, <2>2, <2>4 DEF WritesOp, Same
<1>3. CASE ~bk.fresh
  BY <1>1, <1>3, Initials DEF CleanupStrip, WritesOp, Same
<1> QED BY <1>2, <1>3

LEMMA DeleteWrites ==
  ASSUME TypeOK, WorkersNamed, CleanupDelete
  PROVE  /\ bk.pc = "delete" /\ bk.b \in Name /\ bk' = BackupIdle /\ at' = at
         /\ WritesOp(bk.b) /\ Same(bk.b)
         /\ op'[bk.b].state = op[bk.b].state /\ op'[bk.b].keep = op[bk.b].keep
         /\ \/ op' = op
            \/ HasOp(bk.b) /\ op[bk.b].removal = "none" /\ op'[bk.b].removal = "cleanup"
<1>1. /\ bk.pc = "delete" /\ bk.b \in Name /\ op \in [Name -> Ops] /\ bk' = BackupIdle
      /\ UNCHANGED <<instance, slotMap, cr, at, mir, faults, dropped>>
  BY TypeParts DEF CleanupDelete, WorkersNamed
<1>2. CASE HasOp(bk.b) /\ op[bk.b].removal = "none"
  <2> DEFINE o == [op[bk.b] EXCEPT !.removal = "cleanup"]
  <2>1. /\ o \in Ops /\ o.removal = "cleanup" /\ o.state = op[bk.b].state
        /\ o.keep = op[bk.b].keep /\ o.kind = op[bk.b].kind /\ o.slot = op[bk.b].slot
    BY <1>1 DEF Ops
  <2>2. op' = [op EXCEPT ![bk.b] = o]
    BY <1>2 DEF CleanupDelete
  <2> HIDE DEF o
  <2> QED BY <1>1, <1>2, <2>1, <2>2 DEF WritesOp, Same
<1>3. CASE ~(HasOp(bk.b) /\ op[bk.b].removal = "none")
  BY <1>1, <1>3 DEF CleanupDelete, WritesOp, Same
<1> QED BY <1>2, <1>3

(* The operator makes a backup of its own.                                 *)
LEMMA ScheduleWrites ==
  ASSUME TypeOK, NEW b \in Name, NEW k \in Slots, OperatorCreates(b, k)
  PROVE  /\ Unused(b) /\ bk' = bk /\ at' = at /\ WritesOp(b)
         /\ op'[b].state = "new" /\ op'[b].kind \in {"scheduled", "replica"}
         /\ ~op'[b].keep /\ op'[b].removal = "none"
<1>1. PICK kind \in {"scheduled", "replica"} : op' = [op EXCEPT ![b] = NewOp(kind, k)]
  BY DEF OperatorCreates
<1>2. op \in [Name -> Ops]
  BY TypeParts
<1> QED BY <1>1, <1>2, NewOpIs DEF OperatorCreates, WritesOp

(* The finalizer is set: before the job runs, or because it is missed.     *)
LEMMA FinalizerWrites ==
  ASSUME TypeOK, NEW b \in Name, OperatorRuns(b) \/ OperatorFinalizes(b)
  PROVE  /\ WritesOp(b) /\ Same(b) /\ LeavesBackup /\ at' = at
         /\ op'[b].keep /\ op'[b].removal = "none" /\ op[b].removal = "none"
         /\ HasOp(b) /\ MayFinalize(b)
         /\ \/ op[b].state = "new" /\ op'[b].state = "running"
            \/ op[b].state # "new" /\ op'[b].state = op[b].state
<1>0. op \in [Name -> Ops] /\ bk \in BackupWorkers
  BY TypeParts
<1>1. LeavesBackup
  BY <1>0, OutdatesTyped DEF OperatorRuns, OperatorFinalizes, LeavesBackup
<1>2. CASE OperatorRuns(b)
  <2> DEFINE r == [op[b] EXCEPT !.state = "running"]
             o == [r EXCEPT !.keep = TRUE]
  <2>1. /\ r \in Ops /\ r.state = "running" /\ r.removal = op[b].removal
        /\ r.kind = op[b].kind /\ r.slot = op[b].slot
    BY <1>0 DEF Ops
  <2> HIDE DEF r
  <2>2. /\ o \in Ops /\ o.state = "running" /\ o.removal = op[b].removal
        /\ o.kind = op[b].kind /\ o.slot = op[b].slot /\ o.keep
    BY <2>1 DEF Ops
  <2>3. op' = [op EXCEPT ![b] = o]
    BY <1>2 DEF OperatorRuns, r
  <2> HIDE DEF o
  <2> QED BY <1>0, <1>1, <1>2, <2>2, <2>3 DEF OperatorRuns, WritesOp, Same, HasOp
<1>3. CASE OperatorFinalizes(b)
  <2> DEFINE o == [op[b] EXCEPT !.keep = TRUE]
  <2>1. /\ o \in Ops /\ o.state = op[b].state /\ o.removal = op[b].removal
        /\ o.kind = op[b].kind /\ o.slot = op[b].slot /\ o.keep
    BY <1>0 DEF Ops
  <2>2. op' = [op EXCEPT ![b] = o]
    BY <1>3 DEF OperatorFinalizes
  <2> HIDE DEF o
  <2> QED BY <1>0, <1>1, <1>3, <2>1, <2>2 DEF OperatorFinalizes, WritesOp, Same
<1> QED BY <1>2, <1>3

LEMMA EndWrites ==
  ASSUME TypeOK, NEW b \in Name, OperatorEnds(b)
  PROVE  /\ WritesOp(b) /\ Same(b) /\ LeavesBackup
         /\ op[b].state = "running" /\ op[b].removal = "none" /\ op'[b].removal = "none"
         /\ op'[b].keep = op[b].keep
         /\ \/ op'[b].state = "failed" /\ at' = at
            \/ /\ op'[b].state = "succeeded"
               /\ \E s \in DOMAIN slotMap :
                    slotMap[s] = op[b].slot /\ at' = [at EXCEPT ![b] = s]
<1>0. op \in [Name -> Ops] /\ bk \in BackupWorkers
  BY TypeParts
<1>1. LeavesBackup
  BY <1>0, OutdatesTyped DEF OperatorEnds, LeavesBackup
<1>2. PICK state \in {"failed", "succeeded"} :
        /\ op' = [op EXCEPT ![b] = [op[b] EXCEPT !.state = state]]
        /\ state = "failed" => at' = at
        /\ state = "succeeded" =>
             \E s \in DOMAIN slotMap : slotMap[s] = op[b].slot /\ at' = [at EXCEPT ![b] = s]
  BY DEF OperatorEnds
<1> DEFINE o == [op[b] EXCEPT !.state = state]
<1>3. /\ o \in Ops /\ o.state = state /\ o.removal = op[b].removal
      /\ o.kind = op[b].kind /\ o.slot = op[b].slot /\ o.keep = op[b].keep
  BY <1>0 DEF Ops
<1>4. op' = [op EXCEPT ![b] = o]
  BY <1>2
<1>5. /\ op[b].state = "running" /\ op[b].removal = "none"
      /\ UNCHANGED <<instance, slotMap, cr, mir, faults, dropped>>
  BY DEF OperatorEnds
<1> HIDE DEF o
<1>6. WritesOp(b) /\ op'[b] = o
  BY <1>0, <1>3, <1>4, <1>5 DEF WritesOp
<1> QED BY <1>1, <1>2, <1>3, <1>5, <1>6 DEF Same

LEMMA PurgeWrites ==
  ASSUME TypeOK, NEW b \in Name, OperatorPurges(b)
  PROVE  /\ WritesOp(b) /\ Same(b) /\ LeavesBackup
         /\ HasOp(b) /\ op[b].removal # "none" /\ op[b].keep /\ ~op'[b].keep
         /\ op'[b].state = op[b].state /\ op'[b].removal = op[b].removal
         /\ at' = [at EXCEPT ![b] = NoStorage]
<1>0. op \in [Name -> Ops] /\ bk \in BackupWorkers
  BY TypeParts
<1>1. LeavesBackup
  BY <1>0, OutdatesTyped DEF OperatorPurges, LeavesBackup
<1> DEFINE o == [op[b] EXCEPT !.keep = FALSE]
<1>2. /\ o \in Ops /\ ~o.keep /\ o.state = op[b].state /\ o.removal = op[b].removal
      /\ o.kind = op[b].kind /\ o.slot = op[b].slot
  BY <1>0, Unkept
<1>3. op' = [op EXCEPT ![b] = o]
  BY DEF OperatorPurges
<1> HIDE DEF o
<1> QED BY <1>0, <1>1, <1>2, <1>3 DEF OperatorPurges, WritesOp, Same

LEMMA RemoveWrites ==
  ASSUME TypeOK, NEW b \in Name, OperatorRemoves(b)
  PROVE  /\ WritesOp(b) /\ LeavesBackup /\ at' = at
         /\ HasOp(b) /\ op[b].removal # "none" /\ ~op[b].keep /\ op'[b] = NoOp
<1>0. op \in [Name -> Ops] /\ bk \in BackupWorkers
  BY TypeParts
<1>1. LeavesBackup
  BY <1>0, OutdatesTyped DEF OperatorRemoves, LeavesBackup
<1> QED BY <1>0, <1>1, Initials DEF OperatorRemoves, WritesOp

LEMMA ExpireWrites ==
  ASSUME TypeOK, NEW b \in Name, Expires(b)
  PROVE  /\ WritesOp(b) /\ Same(b) /\ LeavesBackup /\ at' = at
         /\ HasOp(b) /\ op[b].removal = "none" /\ op'[b].removal = "other"
         /\ op'[b].state = op[b].state /\ op'[b].keep = op[b].keep
<1>0. op \in [Name -> Ops] /\ bk \in BackupWorkers
  BY TypeParts
<1>1. LeavesBackup
  BY <1>0, OutdatesTyped DEF Expires, LeavesBackup
<1> DEFINE o == [op[b] EXCEPT !.removal = "other"]
<1>2. /\ o \in Ops /\ o.keep = op[b].keep /\ o.state = op[b].state /\ o.removal = "other"
      /\ o.kind = op[b].kind /\ o.slot = op[b].slot
  BY <1>0 DEF Ops
<1>3. op' = [op EXCEPT ![b] = o]
  BY DEF Expires
<1> HIDE DEF o
<1> QED BY <1>0, <1>1, <1>2, <1>3 DEF Expires, WritesOp, Same

OpStep ==
  \/ BackupCreate \/ CleanupStep
  \/ \E b \in Name :
       \/ OperatorStep(b) \/ OperatorFinalizes(b) \/ Expires(b)
       \/ \E k \in Slots : OperatorCreates(b, k)

ReadStep ==
  \/ MirrorInstance \/ MirrorStorage \/ WorkerFails
  \/ \E b \in Name : MirrorBegin(b) \/ BackupBegin(b) \/ CleanupBegin(b)

InstanceStep ==
  \/ CascadeEnds \/ UserChangesClass \/ UserDeletesInstance
  \/ \E l \in Lists : SyncApplies(l)

(* All steps, by what they write.                                          *)
LEMMA NextIs == Next => CRStep \/ OpStep \/ ReadStep \/ InstanceStep
BY DEF Next, CRStep, OpStep, ReadStep, InstanceStep, MirrorStep

-----------------------------------------------------------------------------
(* Type correctness.                                                       *)

LEMMA InitTypes == Init => TypeOK /\ WorkersNamed
<1> SUFFICES ASSUME Init PROVE TypeOK /\ WorkersNamed
  OBVIOUS
<1>1. slotMap \in SlotMaps
  <2>1. NoSlotMap \in SlotMaps
    BY DEF NoSlotMap, SlotMaps
  <2> QED BY <2>1, ReconcileType, ListsAssumption DEF Init
<1>2. /\ cr \in [Name -> CRs] /\ op \in [Name -> Ops] /\ at \in [Name -> Storage \cup {NoStorage}]
      /\ \A b \in Name : ~HasCR(b)
      /\ mir \in MirrorWorkers /\ bk \in BackupWorkers /\ mir.pc = "idle" /\ bk.pc = "idle"
  BY Initials DEF Init, HasCR
<1>3. instance = "live" /\ faults \in 0 .. MaxFaults /\ dropped = {}
  BY MaxFaultsAssumption DEF Init
<1> QED BY <1>1, <1>2, <1>3 DEF TypeOK, WorkersNamed, MirrorWorkers, BackupWorkers

(* The type invariant in the next state, from its parts.                   *)
LEMMA TypesFrom ==
  ASSUME instance' \in {"live", "classless", "deleting", "gone"}, slotMap' \in SlotMaps,
         cr' \in [Name -> CRs], \A b \in Name : HasCR(b)' => cr'[b].storage \in Storage,
         op' \in [Name -> Ops], at' \in [Name -> Storage \cup {NoStorage}],
         mir' \in MirrorWorkers, bk' \in BackupWorkers, faults' \in 0 .. MaxFaults,
         dropped' \subseteq Name
  PROVE  TypeOK'
BY DEF TypeOK, MirrorWorkers, BackupWorkers

LEMMA NextTypes ==
  ASSUME TypeOK, WorkersNamed, [Next]_vars
  PROVE  TypeOK' /\ WorkersNamed'
<1>0. /\ instance \in {"live", "classless", "deleting", "gone"} /\ slotMap \in SlotMaps
      /\ cr \in [Name -> CRs] /\ (\A b \in Name : HasCR(b) => cr[b].storage \in Storage)
      /\ op \in [Name -> Ops] /\ at \in [Name -> Storage \cup {NoStorage}]
      /\ mir \in MirrorWorkers /\ bk \in BackupWorkers /\ faults \in 0 .. MaxFaults
      /\ dropped \subseteq Name
  BY TypeParts
<1>1. CASE CRStep
  <2>1. /\ mir' \in MirrorWorkers /\ (mir' = mir \/ mir'.pc = "idle")
        /\ UNCHANGED <<instance, slotMap, op, at, bk, faults, dropped>>
    BY <1>1, CRSteps
  <2>2. cr' \in [Name -> CRs] /\ \A b \in Name : HasCR(b)' => cr'[b].storage \in Storage
    BY <1>0, <1>1, CRSteps DEF WritesCR, HasCR
  <2>3. TypeOK'
    BY <1>0, <2>1, <2>2, TypesFrom
  <2> QED BY <2>1, <2>3 DEF WorkersNamed
<1>2. CASE OpStep
  <2>1. PICK b \in Name : WritesOp(b)
    BY <1>2, CreateWrites, StripWrites, DeleteWrites, ScheduleWrites, FinalizerWrites,
       EndWrites, PurgeWrites, RemoveWrites, ExpireWrites
       DEF OpStep, CleanupStep, OperatorStep
  <2>2. bk' \in BackupWorkers /\ (bk'.pc = "idle" \/ (bk'.b = bk.b /\ bk.pc # "idle"))
    <3>1. CASE BackupCreate \/ CleanupDelete
      BY <3>1, CreateWrites, DeleteWrites, Initials
    <3>2. CASE CleanupStrip
      BY <3>2, StripWrites
    <3>3. ASSUME NEW x \in Name, NEW k \in Slots, OperatorCreates(x, k) PROVE bk' = bk
      BY <3>3, ScheduleWrites
    <3>4. ASSUME NEW x \in Name, OperatorStep(x) \/ OperatorFinalizes(x) \/ Expires(x)
          PROVE  LeavesBackup
      BY <3>4, FinalizerWrites, EndWrites, PurgeWrites, RemoveWrites, ExpireWrites
         DEF OperatorStep
    <3>5. \/ BackupCreate \/ CleanupDelete \/ CleanupStrip
          \/ bk' = bk \/ LeavesBackup
      BY <1>2, <3>3, <3>4 DEF OpStep, CleanupStep
    <3>6. CASE bk' = bk
      BY <1>0, <3>6
    <3>7. CASE LeavesBackup
      BY <3>7 DEF LeavesBackup
    <3> QED BY <3>1, <3>2, <3>5, <3>6, <3>7
  <2>3. at' \in [Name -> Storage \cup {NoStorage}]
    <3>1. DOMAIN slotMap \subseteq Storage
      BY <1>0 DEF SlotMaps
    <3>2. at' = at \/ \E x \in Name, s \in Storage \cup {NoStorage} : at' = [at EXCEPT ![x] = s]
      BY <1>2, <3>1, CreateWrites, StripWrites, DeleteWrites, ScheduleWrites, FinalizerWrites,
         EndWrites, PurgeWrites, RemoveWrites, ExpireWrites
         DEF OpStep, CleanupStep, OperatorStep
    <3> QED BY <1>0, <3>2
  <2>4. TypeOK'
    BY <1>0, <2>1, <2>2, <2>3, TypesFrom DEF WritesOp, HasCR
  <2> QED BY <2>1, <2>2, <2>4 DEF WritesOp, WorkersNamed
<1>3. CASE ReadStep
  <2>1. /\ mir' \in MirrorWorkers /\ bk' \in BackupWorkers /\ faults' \in 0 .. MaxFaults
        /\ UNCHANGED <<instance, slotMap, cr, op, at, dropped>>
        /\ WorkersNamed'
    BY <1>0, <1>3, MirrorReads, BackupReads, FailingStops DEF ReadStep, WorkersNamed
  <2> QED BY <1>0, <2>1, TypesFrom DEF HasCR
<1>4. CASE InstanceStep
  <2>1. /\ instance' \in {"live", "classless", "deleting", "gone"}
        /\ UNCHANGED <<cr, op, at, mir, bk, faults>>
        /\ dropped' \subseteq Name
    BY <1>0, <1>4 DEF InstanceStep, CascadeEnds, UserChangesClass, UserDeletesInstance, SyncApplies
  <2>2. slotMap' \in SlotMaps
    <3>1. NoSlotMap \in SlotMaps
      BY DEF NoSlotMap, SlotMaps
    <3> QED
      BY <1>0, <1>4, <3>1, ReconcileType, ListsAssumption
         DEF InstanceStep, CascadeEnds, UserChangesClass, UserDeletesInstance, SyncApplies
  <2> QED BY <1>0, <2>1, <2>2, TypesFrom DEF HasCR, WorkersNamed
<1>5. CASE UNCHANGED vars
  BY <1>0, <1>5, TypesFrom DEF vars, HasCR, WorkersNamed
<1> QED BY <1>1, <1>2, <1>3, <1>4, <1>5, NextIs

(* Every reachable state is well typed.                                    *)
THEOREM TypeCorrect == Spec => []TypeOK
<1>1. TypeOK /\ WorkersNamed /\ [Next]_vars => TypeOK' /\ WorkersNamed'
  BY NextTypes
<1> QED BY <1>1, InitTypes, PTL DEF Spec

-----------------------------------------------------------------------------
(* What CleanupBackup relies on.                                           *)

LEMMA InitPromise == Init => PromiseInv
<1>1. Init => NewIsEmpty
  BY Initials DEF Init, NewIsEmpty, HasOp
<1>2. Init => StrippedIsRetained /\ PurgedIsAsked
  BY Initials DEF Init, StrippedIsRetained, PurgedIsAsked, HasOp
<1>3. Init => CleanupReads
  BY Initials DEF Init, CleanupReads
<1> QED BY <1>1, <1>2, <1>3, InitTypes DEF PromiseInv

LEMMA PromiseCR ==
  ASSUME PromiseInv, CRStep, TypeOK', WorkersNamed'
  PROVE  PromiseInv'
<1>0. TypeOK /\ WorkersNamed
  BY DEF PromiseInv
<1>1. UNCHANGED <<op, at, bk>>
  BY <1>0, CRSteps
<1>2. CASE cr' = cr
  BY <1>1, <1>2
     DEF PromiseInv, NewIsEmpty, StrippedIsRetained, PurgedIsAsked, CleanupReads, Asks, HasOp
<1>3. ASSUME NEW b \in Name, WritesCR(b),
             Appears(b) \/ Vanishes(b) \/ IsDeleted(b) \/ IsEdited(b) \/ IsAsked(b)
      PROVE  PromiseInv'
  <2>1. cr[b].state = "deleting" => ~HasOp(b) /\ bk.pc = "idle"
    BY <1>3 DEF Appears, Vanishes, IsDeleted, IsEdited, IsAsked, Unused, HasCR
  <2>2. \A x \in Name \ {b} : cr'[x] = cr[x]
    BY <1>3 DEF WritesCR
  <2>3. NewIsEmpty'
    <3>1. cr'[b].state = "live" /\ ~cr'[b].scheduled /\ ~HasOp(b) => at[b] = NoStorage
      BY <1>3 DEF Appears, Vanishes, IsDeleted, IsEdited, IsAsked, Unused, PromiseInv, NewIsEmpty
    <3>2. (\A x \in Name : cr[x].state = "live" /\ ~cr[x].scheduled /\ ~HasOp(x)
                             => at[x] = NoStorage)'
      BY <1>1, <2>2, <3>1 DEF PromiseInv, NewIsEmpty, HasOp
    <3> QED BY <1>1, <3>2 DEF PromiseInv, NewIsEmpty, HasOp
  <2>4. StrippedIsRetained'
    BY <1>1, <2>1, <2>2 DEF PromiseInv, StrippedIsRetained, Asks, HasOp
  <2>5. PurgedIsAsked'
    <3>1. ~HasOp(b) => op[b].removal = "none"
      BY DEF PromiseInv, NewIsEmpty
    <3> QED BY <1>1, <2>1, <2>2, <3>1 DEF PromiseInv, PurgedIsAsked, Asks
  <2>6. CleanupReads'
    BY <1>0, <1>1, <2>1, <2>2 DEF PromiseInv, CleanupReads, Asks, WorkersNamed
  <2> QED BY <2>3, <2>4, <2>5, <2>6 DEF PromiseInv
<1> QED BY <1>0, <1>2, <1>3, CRSteps

(* A step that writes one operator backup, and may move its data, keeps    *)
(* the promise if it does so for that backup.                              *)
LEMMA PromiseOpFrom ==
  ASSUME PromiseInv, TypeOK', WorkersNamed', NEW b \in Name, WritesOp(b),
         \A x \in Name \ {b} : at'[x] = at[x],
         ~HasOp(b)' => op'[b].removal = "none" /\ ~op'[b].keep,
         op'[b].state = "new" => at'[b] = NoStorage,
         ~HasOp(b)' /\ cr[b].state = "live" /\ ~cr[b].scheduled => at'[b] = NoStorage,
         HasOp(b)' /\ ~op'[b].keep
             /\ (at'[b] # NoStorage \/ (op'[b].state = "running" /\ op'[b].removal = "none"))
           => Asks(b, "Retain"),
         op'[b].removal = "cleanup" /\ op'[b].keep => Asks(b, "Delete") \/ FinalizerRaces,
         bk'.pc = "create" => bk.pc = "create" /\ bk'.b = bk.b /\ bk.b # b,
         bk'.pc = "strip" => bk.pc = "strip" /\ bk'.b = bk.b,
         bk'.pc = "delete" =>
           /\ bk'.b = bk.b /\ bk.b \in Name
           /\ bk.pc = "delete" \/ Asks(bk.b, "Retain")
           /\ bk.b = b => cr[b].policy = "Delete" \/ ~op'[b].keep \/ FinalizerRaces
           /\ bk.b # b => bk.pc = "delete"
  PROVE  PromiseInv'
<1>1. UNCHANGED cr /\ \A x \in Name \ {b} : op'[x] = op[x]
  BY DEF WritesOp
<1>2. NewIsEmpty'
  <2>1. (\A x \in Name : ~HasOp(x) => op[x].removal = "none" /\ ~op[x].keep)'
    BY <1>1 DEF PromiseInv, NewIsEmpty, HasOp
  <2>2. (\A x \in Name : op[x].state = "new" => at[x] = NoStorage)'
    BY <1>1 DEF PromiseInv, NewIsEmpty
  <2>3. (\A x \in Name : cr[x].state = "live" /\ ~cr[x].scheduled /\ ~HasOp(x)
                           => at[x] = NoStorage)'
    BY <1>1 DEF PromiseInv, NewIsEmpty, HasOp
  <2>4. (bk.pc = "create" => ~HasOp(bk.b) /\ at[bk.b] = NoStorage)'
    BY <1>1 DEF PromiseInv, NewIsEmpty, HasOp, WorkersNamed
  <2> QED BY <2>1, <2>2, <2>3, <2>4 DEF NewIsEmpty
<1>3. StrippedIsRetained'
  BY <1>1 DEF PromiseInv, StrippedIsRetained, Asks, HasOp
<1>4. PurgedIsAsked'
  BY <1>1 DEF PromiseInv, PurgedIsAsked, Asks
<1>5. CleanupReads'
  BY <1>1 DEF PromiseInv, CleanupReads, Asks
<1> QED BY <1>2, <1>3, <1>4, <1>5 DEF PromiseInv

LEMMA PromiseBackup ==
  ASSUME PromiseInv, BackupCreate \/ CleanupStep, TypeOK', WorkersNamed'
  PROVE  PromiseInv'
<1>0. TypeOK /\ WorkersNamed /\ NewIsEmpty /\ StrippedIsRetained /\ PurgedIsAsked /\ CleanupReads
  BY DEF PromiseInv
<1>1. CASE BackupCreate
  <2>1. /\ bk.pc = "create" /\ bk.b \in Name /\ bk' = BackupIdle /\ at' = at
        /\ WritesOp(bk.b)
        /\ op'[bk.b].state = "new" /\ ~op'[bk.b].keep /\ op'[bk.b].removal = "none"
    BY <1>0, <1>1, CreateWrites
  <2>2. at[bk.b] = NoStorage
    BY <1>0, <2>1 DEF NewIsEmpty
  <2> QED BY <2>1, <2>2, PromiseOpFrom, Initials DEF HasOp
<1>2. CASE CleanupStrip
  <2>1. /\ bk.pc = "strip" /\ bk.b \in Name /\ at' = at
        /\ WritesOp(bk.b)
        /\ op'[bk.b].state = op[bk.b].state /\ op'[bk.b].removal = op[bk.b].removal
        /\ op' = op \/ ~op'[bk.b].keep
        /\ \/ bk'.pc = "idle"
           \/ bk'.pc = "delete" /\ bk'.b = bk.b /\ ~op'[bk.b].keep
    BY <1>0, <1>2, StripWrites
  <2>2. Asks(bk.b, "Retain")
    BY <1>0, <2>1 DEF CleanupReads
  <2>3. op'[bk.b].state = "absent" => op'[bk.b].removal = "none" /\ ~op'[bk.b].keep
    BY <1>0, <2>1 DEF NewIsEmpty, HasOp
  <2>4. /\ op'[bk.b].state = "new" => at'[bk.b] = NoStorage
        /\ op'[bk.b].state = "absent" /\ cr[bk.b].state = "live" => FALSE
    BY <1>0, <2>1, <2>2 DEF NewIsEmpty, Asks
  <2>5. op'[bk.b].removal = "cleanup" /\ op'[bk.b].keep
          => Asks(bk.b, "Delete") \/ FinalizerRaces
    BY <1>0, <2>1 DEF PurgedIsAsked
  <2> QED BY <2>1, <2>2, <2>3, <2>4, <2>5, PromiseOpFrom DEF HasOp
<1>3. CASE CleanupDelete
  <2>1. /\ bk.pc = "delete" /\ bk.b \in Name /\ bk' = BackupIdle /\ at' = at
        /\ WritesOp(bk.b)
        /\ op'[bk.b].state = op[bk.b].state /\ op'[bk.b].keep = op[bk.b].keep
        /\ \/ op' = op
           \/ HasOp(bk.b) /\ op[bk.b].removal = "none" /\ op'[bk.b].removal = "cleanup"
    BY <1>0, <1>3, DeleteWrites
  <2>2. /\ cr[bk.b].state = "deleting"
        /\ cr[bk.b].policy = "Delete" \/ ~op[bk.b].keep \/ FinalizerRaces
    BY <1>0, <2>1 DEF CleanupReads
  <2>3. op'[bk.b].state = "absent" => op'[bk.b].removal = "none" /\ ~op'[bk.b].keep
    BY <1>0, <2>1 DEF NewIsEmpty, HasOp
  <2>4. /\ op'[bk.b].state = "new" => at'[bk.b] = NoStorage
        /\ op'[bk.b].state = "absent" /\ cr[bk.b].state = "live" => FALSE
    BY <1>0, <2>1, <2>2 DEF NewIsEmpty
  <2>5. op'[bk.b].removal = "cleanup" /\ op'[bk.b].keep
          => Asks(bk.b, "Delete") \/ FinalizerRaces
    BY <1>0, <2>1, <2>2 DEF PurgedIsAsked, Asks
  <2>6. op'[bk.b].state # "absent" /\ ~op'[bk.b].keep
            /\ (at'[bk.b] # NoStorage
                  \/ (op'[bk.b].state = "running" /\ op'[bk.b].removal = "none"))
          => Asks(bk.b, "Retain")
    BY <1>0, <2>1 DEF StrippedIsRetained, HasOp
  <2> QED BY <2>1, <2>3, <2>4, <2>5, <2>6, PromiseOpFrom, Initials DEF HasOp
<1> QED BY <1>1, <1>2, <1>3 DEF CleanupStep

LEMMA PromiseOperator ==
  ASSUME PromiseInv, TypeOK', WorkersNamed', NEW b \in Name,
         \/ OperatorStep(b) \/ OperatorFinalizes(b) \/ Expires(b)
         \/ \E k \in Slots : OperatorCreates(b, k)
  PROVE  PromiseInv'
<1>0. TypeOK /\ WorkersNamed /\ NewIsEmpty /\ StrippedIsRetained /\ PurgedIsAsked /\ CleanupReads
  BY DEF PromiseInv
<1>1. HasOp(b) => ~(bk.pc = "create" /\ bk.b = b)
  BY <1>0 DEF NewIsEmpty
<1>2. bk.pc = "delete" => cr[bk.b].policy = "Delete" \/ ~op[bk.b].keep \/ FinalizerRaces
  BY <1>0 DEF CleanupReads
<1>3. bk.pc # "idle" => bk.b \in Name
  BY <1>0 DEF WorkersNamed
<1>4. ASSUME NEW k \in Slots, OperatorCreates(b, k) PROVE PromiseInv'
  <2>1. /\ bk.b # b /\ bk' = bk /\ at' = at /\ WritesOp(b) /\ at[b] = NoStorage
        /\ op'[b].state = "new" /\ ~op'[b].keep /\ op'[b].removal = "none"
    BY <1>0, <1>4, ScheduleWrites DEF Unused
  <2> QED BY <1>3, <2>1, PromiseOpFrom DEF HasOp
<1>5. CASE OperatorRuns(b) \/ OperatorFinalizes(b)
  <2>1. /\ WritesOp(b) /\ LeavesBackup /\ at' = at
        /\ op'[b].keep /\ op'[b].removal = "none" /\ HasOp(b)
        /\ bk.b # b \/ FinalizerRaces
        /\ op'[b].state = "running" \/ (op'[b].state = op[b].state /\ op[b].state # "new")
    BY <1>0, <1>5, FinalizerWrites DEF MayFinalize
  <2> QED BY <1>1, <1>3, <2>1, PromiseOpFrom DEF HasOp, LeavesBackup
<1>6. CASE OperatorEnds(b)
  <2>1. /\ WritesOp(b) /\ LeavesBackup
        /\ op[b].state = "running" /\ op[b].removal = "none" /\ op'[b].removal = "none"
        /\ op'[b].keep = op[b].keep /\ op'[b].state \in {"failed", "succeeded"}
        /\ \A x \in Name \ {b} : at'[x] = at[x]
    <3>1. at \in [Name -> Storage \cup {NoStorage}]
      BY <1>0, TypeParts
    <3>2. at' = at \/ \E x : at' = [at EXCEPT ![b] = x]
      BY <1>0, <1>6, EndWrites
    <3>3. \A x \in Name \ {b} : at'[x] = at[x]
      BY <3>1, <3>2
    <3> QED BY <1>0, <1>6, <3>3, EndWrites
  <2>2. ~op'[b].keep => Asks(b, "Retain")
    BY <1>0, <2>1 DEF StrippedIsRetained, HasOp
  <2> QED BY <1>1, <1>2, <1>3, <2>1, <2>2, PromiseOpFrom DEF HasOp, LeavesBackup
<1>7. CASE OperatorPurges(b)
  <2>1. /\ WritesOp(b) /\ LeavesBackup /\ HasOp(b) /\ op[b].removal # "none" /\ ~op'[b].keep
        /\ op'[b].state = op[b].state /\ op'[b].removal = op[b].removal
        /\ at' = [at EXCEPT ![b] = NoStorage]
    BY <1>0, <1>7, PurgeWrites
  <2>2. at'[b] = NoStorage /\ \A x \in Name \ {b} : at'[x] = at[x]
    BY <1>0, <2>1, TypeParts
  <2> QED BY <1>1, <1>3, <2>1, <2>2, PromiseOpFrom DEF HasOp, LeavesBackup
<1>8. CASE OperatorRemoves(b)
  <2>1. /\ WritesOp(b) /\ LeavesBackup /\ at' = at /\ HasOp(b) /\ ~op[b].keep
        /\ op'[b].removal = "none" /\ ~op'[b].keep /\ op'[b].state = "absent"
    BY <1>0, <1>8, RemoveWrites, Initials
  <2>2. cr[b].state = "live" => at[b] = NoStorage
    BY <1>0, <2>1 DEF StrippedIsRetained, Asks
  <2> QED BY <1>1, <1>3, <2>1, <2>2, PromiseOpFrom DEF HasOp, LeavesBackup
<1>9. CASE Expires(b)
  <2>1. /\ WritesOp(b) /\ LeavesBackup /\ at' = at /\ HasOp(b)
        /\ op'[b].removal = "other"
        /\ op'[b].state = op[b].state /\ op'[b].keep = op[b].keep
    BY <1>0, <1>9, ExpireWrites
  <2>2. /\ op[b].state = "new" => at[b] = NoStorage
        /\ ~op[b].keep /\ at[b] # NoStorage => Asks(b, "Retain")
    BY <1>0, <2>1 DEF NewIsEmpty, StrippedIsRetained
  <2> QED BY <1>1, <1>2, <1>3, <2>1, <2>2, PromiseOpFrom DEF HasOp, LeavesBackup
<1> QED BY <1>4, <1>5, <1>6, <1>7, <1>8, <1>9 DEF OperatorStep

LEMMA PromiseNext ==
  ASSUME PromiseInv, [Next]_vars
  PROVE  PromiseInv'
<1>0. TypeOK /\ WorkersNamed /\ TypeOK' /\ WorkersNamed'
  BY NextTypes DEF PromiseInv
<1>1. CASE CRStep
  BY <1>0, <1>1, PromiseCR
<1>2. CASE OpStep
  BY <1>0, <1>2, PromiseBackup, PromiseOperator DEF OpStep
<1>3. CASE ReadStep
  <2>1. UNCHANGED <<cr, op, at>>
    BY <1>0, <1>3, MirrorReads, BackupReads, FailingStops DEF ReadStep
  <2>2. \/ bk' = bk \/ bk'.pc = "idle"
        \/ \E b \in Name : BackupBegin(b) \/ CleanupBegin(b)
    BY <1>0, <1>3, MirrorReads, FailingStops DEF ReadStep
  <2>3. NewIsEmpty'
    BY <1>0, <2>1, <2>2, BackupReads DEF PromiseInv, NewIsEmpty, HasOp
  <2>4. CleanupReads'
    BY <1>0, <2>1, <2>2, BackupReads DEF PromiseInv, CleanupReads, Asks
  <2>5. StrippedIsRetained' /\ PurgedIsAsked'
    BY <2>1 DEF PromiseInv, StrippedIsRetained, PurgedIsAsked, Asks, HasOp
  <2> QED BY <1>0, <2>3, <2>4, <2>5 DEF PromiseInv
<1>4. CASE InstanceStep \/ UNCHANGED vars
  <2>1. UNCHANGED <<cr, op, at, mir, bk>>
    BY <1>4 DEF InstanceStep, CascadeEnds, UserChangesClass, UserDeletesInstance, SyncApplies, vars
  <2> QED
    BY <1>0, <2>1
       DEF PromiseInv, NewIsEmpty, StrippedIsRetained, PurgedIsAsked, CleanupReads, Asks, HasOp
<1> QED BY <1>1, <1>2, <1>3, <1>4, NextIs

-----------------------------------------------------------------------------
(* The refinement: what each step is to BackupStore.                       *)

StoreData == {b \in Name : at[b] # NoStorage}

StoreWish == [b \in Name |-> Wish(b)]

StoreExpired == {b \in Name : op[b].removal = "other"}

SameData(b) == at'[b] = NoStorage <=> at[b] = NoStorage

SameWish(b) == Wish(b)' = Wish(b)

SameExpired(b) == op'[b].removal = "other" <=> op[b].removal = "other"

(* What differs for one name only differs there in the store.              *)
LEMMA DataElsewhere ==
  ASSUME NEW b \in Name, \A x \in Name \ {b} : SameData(x)
  PROVE  /\ SameData(b) => StoreData' = StoreData
         /\ at'[b] # NoStorage => StoreData' = StoreData \cup {b}
         /\ at'[b] = NoStorage => StoreData' = StoreData \ {b}
BY DEF StoreData, SameData

LEMMA ExpiredElsewhere ==
  ASSUME NEW b \in Name, \A x \in Name \ {b} : SameExpired(x)
  PROVE  /\ SameExpired(b) => StoreExpired' = StoreExpired
         /\ op'[b].removal = "other" => StoreExpired' = StoreExpired \cup {b}
         /\ op'[b].removal # "other" => StoreExpired' = StoreExpired \ {b}
BY DEF StoreExpired, SameExpired

LEMMA WishElsewhere ==
  ASSUME NEW b \in Name, \A x \in Name \ {b} : SameWish(x)
  PROVE  /\ SameWish(b) => StoreWish' = StoreWish
         /\ StoreWish' = [StoreWish EXCEPT ![b] = Wish(b)']
BY DEF StoreWish, SameWish

(* Nothing but one name is touched.                                        *)
LEMMA OthersSame ==
  ASSUME NEW b \in Name,
         \A x \in Name \ {b} : cr'[x] = cr[x] /\ op'[x] = op[x] /\ at'[x] = at[x]
  PROVE  \A x \in Name \ {b} : SameData(x) /\ SameWish(x) /\ SameExpired(x)
BY DEF SameData, SameWish, SameExpired, Wish, HasOp

LEMMA StoreStutters ==
  ASSUME StoreData' = StoreData, StoreWish' = StoreWish, StoreExpired' = StoreExpired
  PROVE  UNCHANGED Store!svars
BY DEF Store!svars, StoreData, StoreWish, StoreExpired

LEMMA StoreSame ==
  ASSUME NEW b \in Name,
         \A x \in Name \ {b} : cr'[x] = cr[x] /\ op'[x] = op[x] /\ at'[x] = at[x],
         SameData(b), SameWish(b), SameExpired(b)
  PROVE  UNCHANGED Store!svars
BY OthersSame, DataElsewhere, WishElsewhere, ExpiredElsewhere, StoreStutters

(* A deletion of a Backup with data begins.                                *)
LEMMA StoreAsks ==
  ASSUME TypeOK, NEW b \in Name,
         \A x \in Name \ {b} : cr'[x] = cr[x] /\ op'[x] = op[x] /\ at'[x] = at[x],
         SameData(b), SameExpired(b), Wish(b) = "none",
         Wish(b)' \in {"Retain", "Delete"}
  PROVE  Store!Next
<1>1. /\ StoreData' = StoreData /\ StoreExpired' = StoreExpired
      /\ StoreWish' = [StoreWish EXCEPT ![b] = Wish(b)']
  BY OthersSame, DataElsewhere, WishElsewhere, ExpiredElsewhere
<1>2. StoreWish[b] = "none"
  BY DEF StoreWish
<1>3. Store!Ask(b)
  BY <1>1, <1>2 DEF Store!Ask, StoreData, StoreWish, StoreExpired
<1> QED BY <1>3 DEF Store!Next

LEMMA StoreCR ==
  ASSUME PromiseInv, CRStep
  PROVE  [Store!Next]_Store!svars
<1>0. TypeOK /\ WorkersNamed /\ cr \in [Name -> CRs]
  BY TypeParts DEF PromiseInv
<1>1. UNCHANGED <<op, at>>
  BY <1>0, CRSteps
<1>2. CASE cr' = cr
  <2>1. \A b \in Name : SameData(b) /\ SameWish(b) /\ SameExpired(b)
    BY <1>1, <1>2 DEF SameData, SameWish, SameExpired, Wish, HasOp
  <2>2. StoreData' = StoreData /\ StoreWish' = StoreWish /\ StoreExpired' = StoreExpired
    BY <2>1 DEF StoreData, StoreWish, StoreExpired, SameData, SameWish, SameExpired
  <2> QED BY <2>2, StoreStutters
<1>3. ASSUME NEW b \in Name, WritesCR(b),
             Appears(b) \/ Vanishes(b) \/ IsDeleted(b) \/ IsEdited(b) \/ IsAsked(b)
      PROVE  [Store!Next]_Store!svars
  <2>1. /\ \A x \in Name \ {b} : cr'[x] = cr[x] /\ op'[x] = op[x] /\ at'[x] = at[x]
        /\ SameData(b) /\ SameExpired(b)
    BY <1>1, <1>3 DEF WritesCR, SameData, SameExpired
  <2>2. CASE IsDeleted(b) /\ HasOp(b)
    <3>1. Wish(b) = "none" /\ Wish(b)' = cr[b].policy
      BY <1>1, <2>2 DEF IsDeleted, Wish, HasOp
    <3>2. cr[b].policy \in {"Retain", "Delete"}
      BY <1>0 DEF CRs
    <3> QED BY <1>0, <2>1, <3>1, <3>2, StoreAsks
  <2>3. CASE ~(IsDeleted(b) /\ HasOp(b))
    <3>1. SameWish(b)
      BY <1>1, <1>3, <2>3
         DEF SameWish, Wish, HasOp, Appears, Vanishes, IsDeleted, IsEdited, IsAsked, Unused, HasCR
    <3> QED BY <2>1, <3>1, StoreSame
  <2> QED BY <2>2, <2>3
<1> QED BY <1>0, <1>2, <1>3, CRSteps

LEMMA StoreBackup ==
  ASSUME PromiseInv, BackupCreate \/ CleanupStep
  PROVE  [Store!Next]_Store!svars
<1>0. TypeOK /\ WorkersNamed /\ NewIsEmpty /\ cr \in [Name -> CRs]
  BY TypeParts DEF PromiseInv
<1>1. PICK b \in Name : b = bk.b /\ WritesOp(b) /\ at' = at
  BY <1>0, CreateWrites, StripWrites, DeleteWrites DEF CleanupStep
<1>2. /\ \A x \in Name \ {b} : cr'[x] = cr[x] /\ op'[x] = op[x] /\ at'[x] = at[x]
      /\ SameData(b) /\ cr' = cr
  BY <1>1 DEF WritesOp, SameData
<1>3. CASE BackupCreate
  <2>1. /\ op'[b].state = "new" /\ op'[b].removal = "none"
        /\ op[b].state = "absent" /\ op[b].removal = "none"
    BY <1>0, <1>1, <1>3, CreateWrites DEF NewIsEmpty, HasOp
  <2>2. SameExpired(b)
    BY <2>1 DEF SameExpired
  <2>3. CASE cr[b].state = "deleting"
    <3>1. Wish(b) = "none" /\ Wish(b)' = cr[b].policy
      BY <1>2, <2>1, <2>3 DEF Wish, HasOp
    <3>2. cr[b].policy \in {"Retain", "Delete"}
      BY <1>0 DEF CRs
    <3> QED BY <1>0, <1>2, <2>2, <3>1, <3>2, StoreAsks
  <2>4. CASE cr[b].state # "deleting"
    <3>1. SameWish(b)
      BY <1>2, <2>4 DEF SameWish, Wish
    <3> QED BY <1>2, <2>2, <3>1, StoreSame
  <2> QED BY <2>3, <2>4
<1>4. CASE CleanupStep
  <2>1. /\ op'[b].state = op[b].state
        /\ SameExpired(b)
    BY <1>0, <1>1, <1>4, StripWrites, DeleteWrites DEF CleanupStep, SameExpired
  <2>2. SameWish(b)
    BY <1>2, <2>1 DEF SameWish, Wish, HasOp
  <2> QED BY <1>2, <2>1, <2>2, StoreSame
<1> QED BY <1>3, <1>4

(* A deletion is over: data that is left was to be retained.               *)
LEMMA StoreRemoves ==
  ASSUME PromiseInv, NEW b \in Name, OperatorRemoves(b)
  PROVE  Store!Next
<1>0. TypeOK /\ StrippedIsRetained
  BY DEF PromiseInv
<1>1. /\ WritesOp(b) /\ at' = at /\ HasOp(b) /\ ~op[b].keep
      /\ op'[b].removal = "none" /\ op'[b].state = "absent"
  BY <1>0, RemoveWrites, Initials
<1>2. /\ \A x \in Name \ {b} : cr'[x] = cr[x] /\ op'[x] = op[x] /\ at'[x] = at[x]
      /\ SameData(b) /\ Wish(b)' = "none"
  BY <1>1 DEF WritesOp, SameData, Wish, HasOp
<1>3. /\ StoreData' = StoreData /\ StoreExpired' = StoreExpired \ {b}
      /\ StoreWish' = [StoreWish EXCEPT ![b] = "none"]
  BY <1>1, <1>2, OthersSame, DataElsewhere, WishElsewhere, ExpiredElsewhere
<1>4. StoreWish[b] = "Delete" => b \notin StoreData
  BY <1>0, <1>1 DEF StoreWish, StoreData, Wish, StrippedIsRetained, Asks
<1>5. Store!Finish(b)
  BY <1>3, <1>4 DEF Store!Finish, StoreData, StoreWish, StoreExpired
<1> QED BY <1>5 DEF Store!Next

(* Data is purged when its deletion was asked for, or somebody else has    *)
(* deleted the operator's backup.                                          *)
LEMMA StorePurges ==
  ASSUME ~FinalizerRaces, PromiseInv, NEW b \in Name, OperatorPurges(b)
  PROVE  Store!Next
<1>0. TypeOK /\ PurgedIsAsked /\ op \in [Name -> Ops] /\ at \in [Name -> Storage \cup {NoStorage}]
  BY TypeParts DEF PromiseInv
<1>1. /\ WritesOp(b) /\ HasOp(b) /\ op[b].removal # "none" /\ op[b].keep
      /\ op'[b].state = op[b].state /\ op'[b].removal = op[b].removal
      /\ at' = [at EXCEPT ![b] = NoStorage]
  BY <1>0, PurgeWrites
<1>2. /\ \A x \in Name \ {b} : cr'[x] = cr[x] /\ op'[x] = op[x] /\ at'[x] = at[x]
      /\ at'[b] = NoStorage /\ SameWish(b) /\ SameExpired(b)
  BY <1>0, <1>1 DEF WritesOp, SameWish, SameExpired, Wish, HasOp
<1>3. /\ StoreData' = StoreData \ {b} /\ StoreExpired' = StoreExpired /\ StoreWish' = StoreWish
  BY <1>2, OthersSame, DataElsewhere, WishElsewhere, ExpiredElsewhere
<1>4. StoreWish[b] = "Delete" \/ b \in StoreExpired
  <2>1. op[b].removal \in {"cleanup", "other"}
    BY <1>0, <1>1 DEF Ops
  <2>2. op[b].removal = "cleanup" => Asks(b, "Delete")
    BY <1>0, <1>1 DEF PurgedIsAsked
  <2> QED BY <1>1, <2>1, <2>2 DEF StoreWish, StoreExpired, Wish, Asks
<1>5. Store!Purge(b)
  BY <1>3, <1>4 DEF Store!Purge, StoreData, StoreWish, StoreExpired
<1> QED BY <1>5 DEF Store!Next

LEMMA StoreOperator ==
  ASSUME ~FinalizerRaces, PromiseInv, NEW b \in Name,
         \/ OperatorStep(b) \/ OperatorFinalizes(b) \/ Expires(b)
         \/ \E k \in Slots : OperatorCreates(b, k)
  PROVE  [Store!Next]_Store!svars
<1>0. TypeOK /\ NewIsEmpty /\ at \in [Name -> Storage \cup {NoStorage}]
  BY TypeParts DEF PromiseInv
<1>1. ASSUME NEW k \in Slots, OperatorCreates(b, k) PROVE UNCHANGED Store!svars
  <2>1. /\ WritesOp(b) /\ at' = at /\ op'[b].removal = "none" /\ op[b].removal = "none"
        /\ cr[b].state = "absent"
    BY <1>0, <1>1, ScheduleWrites DEF Unused, HasCR, NewIsEmpty
  <2>2. /\ \A x \in Name \ {b} : cr'[x] = cr[x] /\ op'[x] = op[x] /\ at'[x] = at[x]
        /\ SameData(b) /\ SameWish(b) /\ SameExpired(b)
    BY <2>1 DEF WritesOp, SameData, SameWish, SameExpired, Wish
  <2> QED BY <2>2, StoreSame
<1>2. CASE OperatorRuns(b) \/ OperatorFinalizes(b)
  <2>1. /\ WritesOp(b) /\ at' = at /\ HasOp(b) /\ op'[b].state # "absent"
        /\ op'[b].removal = "none" /\ op[b].removal = "none"
    BY <1>0, <1>2, FinalizerWrites DEF HasOp
  <2>2. /\ \A x \in Name \ {b} : cr'[x] = cr[x] /\ op'[x] = op[x] /\ at'[x] = at[x]
        /\ SameData(b) /\ SameWish(b) /\ SameExpired(b)
    BY <2>1 DEF WritesOp, SameData, SameWish, SameExpired, Wish, HasOp
  <2> QED BY <2>2, StoreSame
<1>3. CASE OperatorEnds(b)
  <2>1. /\ WritesOp(b) /\ op[b].state = "running" /\ op'[b].state # "absent"
        /\ op[b].removal = "none" /\ op'[b].removal = "none"
        /\ at' = at \/ \E s \in DOMAIN slotMap : at' = [at EXCEPT ![b] = s]
    BY <1>0, <1>3, EndWrites
  <2>2. /\ \A x \in Name \ {b} : cr'[x] = cr[x] /\ op'[x] = op[x] /\ at'[x] = at[x]
    BY <1>0, <2>1 DEF WritesOp
  <2>3. SameWish(b) /\ SameExpired(b)
    BY <2>1 DEF WritesOp, SameWish, SameExpired, Wish, HasOp
  <2>4. CASE SameData(b)
    BY <2>2, <2>3, <2>4, StoreSame
  <2>5. CASE ~SameData(b)
    <3>1. at[b] = NoStorage /\ at'[b] # NoStorage
      <4>1. \A s \in DOMAIN slotMap : s # NoStorage
        BY <1>0, TypeParts, NoStorageAssumption DEF SlotMaps
      <4> QED BY <1>0, <2>1, <2>5, <4>1 DEF SameData
    <3>2. /\ StoreData' = StoreData \cup {b} /\ StoreWish' = StoreWish
          /\ StoreExpired' = StoreExpired /\ b \notin StoreData
      <4>1. b \notin StoreData
        BY <3>1 DEF StoreData
      <4> QED
        BY <2>2, <2>3, <3>1, <4>1, OthersSame, DataElsewhere, WishElsewhere, ExpiredElsewhere
    <3>3. Store!Take(b)
      BY <3>2 DEF Store!Take, StoreData, StoreWish, StoreExpired
    <3> QED BY <3>3 DEF Store!Next
  <2> QED BY <2>4, <2>5
<1>4. CASE Expires(b)
  <2>1. /\ WritesOp(b) /\ at' = at /\ op'[b].removal = "other" /\ op'[b].state = op[b].state
    BY <1>0, <1>4, ExpireWrites
  <2>2. /\ \A x \in Name \ {b} : cr'[x] = cr[x] /\ op'[x] = op[x] /\ at'[x] = at[x]
        /\ SameData(b) /\ SameWish(b)
    BY <2>1 DEF WritesOp, SameData, SameWish, Wish, HasOp
  <2>3. /\ StoreData' = StoreData /\ StoreWish' = StoreWish
        /\ StoreExpired' = StoreExpired \cup {b}
    BY <2>1, <2>2, OthersSame, DataElsewhere, WishElsewhere, ExpiredElsewhere
  <2>4. Store!Expire(b)
    BY <2>3 DEF Store!Expire, StoreData, StoreWish, StoreExpired
  <2> QED BY <2>4 DEF Store!Next
<1> QED BY <1>1, <1>2, <1>3, <1>4, StorePurges, StoreRemoves DEF OperatorStep

LEMMA StoreStep ==
  ASSUME ~FinalizerRaces, PromiseInv, [Next]_vars
  PROVE  [Store!Next]_Store!svars
<1>0. TypeOK /\ WorkersNamed
  BY DEF PromiseInv
<1>1. CASE CRStep
  BY <1>1, StoreCR
<1>2. CASE OpStep
  BY <1>2, StoreBackup, StoreOperator DEF OpStep
<1>3. CASE ReadStep \/ InstanceStep \/ UNCHANGED vars
  <2>1. UNCHANGED <<cr, op, at>>
    BY <1>0, <1>3, MirrorReads, BackupReads, FailingStops
       DEF ReadStep, InstanceStep, CascadeEnds, UserChangesClass, UserDeletesInstance, SyncApplies, vars
  <2>2. \A b \in Name : SameData(b) /\ SameWish(b) /\ SameExpired(b)
    BY <2>1 DEF SameData, SameWish, SameExpired, Wish, HasOp
  <2>3. StoreData' = StoreData /\ StoreWish' = StoreWish /\ StoreExpired' = StoreExpired
    BY <2>2 DEF StoreData, StoreWish, StoreExpired, SameData, SameWish, SameExpired
  <2> QED BY <2>3, StoreStutters
<1> QED BY <1>1, <1>2, <1>3, NextIs

LEMMA StoreInit == Init => Store!Init
<1> SUFFICES ASSUME Init PROVE Store!Init
  OBVIOUS
<1>1. \A b \in Name : at[b] = NoStorage /\ Wish(b) = "none" /\ op[b].removal = "none"
  BY Initials DEF Init, Wish
<1> QED BY <1>1 DEF Store!Init

(* Retained data stays and deleted data goes: BackupLifecycle implements   *)
(* BackupStore, as long as the operator keeps its finalizer off a backup   *)
(* that CleanupBackup is at (backup.go:578-603).                           *)
THEOREM ImplementsStore ==
  ASSUME ~FinalizerRaces
  PROVE  Spec => KeepsPromise
<1>1. PromiseInv /\ [Next]_vars => PromiseInv'
  BY PromiseNext
<1>2. PromiseInv /\ [Next]_vars => [Store!Next]_Store!svars
  BY StoreStep
<1> QED BY <1>1, <1>2, InitPromise, StoreInit, PTL DEF Spec, KeepsPromise, Store!Spec

-----------------------------------------------------------------------------
(* Mirrored Backups and recovery windows rest on the storage they name.    *)

LEMMA EmptyIsInjective == NoSlotMap \in SlotMaps /\ IsInjective(NoSlotMap)
BY DEF NoSlotMap, SlotMaps, IsInjective

LEMMA InitStorage == Init => StorageInv
<1> SUFFICES ASSUME Init PROVE StorageInv
  OBVIOUS
<1>1. \A b \in Name : ~HasOp(b) /\ ~HasCR(b) /\ ~cr[b].scheduled /\ op[b].state # "succeeded"
  BY Initials DEF Init, HasOp, HasCR
<1>2. mir.pc = "idle" /\ bk.pc = "idle"
  BY Initials DEF Init
<1>3. IsInjective(slotMap) /\ instance = "live"
  BY EmptyIsInjective, ReconcileInjective, ListsAssumption DEF Init
<1> QED BY <1>1, <1>2, <1>3
   DEF StorageInv, SlotsAreOwn, DataIsInSlot, MirroredWell, KindsApart

(* A slot stands for one storage.                                          *)
LEMMA OneStorage ==
  ASSUME SlotsAreOwn, NEW k, NEW s \in DOMAIN slotMap, slotMap[s] = k,
         NEW t, Assigned(t, k)
  PROVE  t = s
<1>1. instance # "gone"
  <2>1. DOMAIN NoSlotMap = {}
    BY DEF NoSlotMap
  <2> QED BY <2>1 DEF SlotsAreOwn
<1> QED BY <1>1 DEF SlotsAreOwn, Assigned, IsInjective

LEMMA StorageCR ==
  ASSUME PromiseInv, StorageInv, CRStep
  PROVE  StorageInv'
<1>0. TypeOK /\ WorkersNamed
  BY DEF PromiseInv
<1>1. /\ UNCHANGED <<instance, slotMap, op, at, bk, dropped>>
      /\ mir' = mir \/ mir'.pc = "idle"
  BY <1>0, CRSteps
<1>2. SlotsAreOwn' /\ DataIsInSlot'
  BY <1>1 DEF StorageInv, SlotsAreOwn, DataIsInSlot, Holds, Assigned, HasOp
<1>3. (mir.pc = "create" /\ HasOp(mir.b) => MirrorsWell(mir.b, mir.storage))'
  BY <1>1 DEF StorageInv, MirroredWell, MirrorsWell, Holds, Assigned, HasOp
<1>4. CASE cr' = cr
  BY <1>1, <1>2, <1>3, <1>4
     DEF StorageInv, MirroredWell, MirrorsWell, KindsApart, Holds, Assigned, HasOp, HasCR
<1>5. ASSUME NEW b \in Name, WritesCR(b),
             Appears(b) \/ Vanishes(b) \/ IsDeleted(b) \/ IsEdited(b) \/ IsAsked(b)
      PROVE  MirroredWell' /\ KindsApart'
  <2>1. \A x \in Name \ {b} : cr'[x] = cr[x]
    BY <1>5 DEF WritesCR
  <2>2. CASE Appears(b)
    <3>1. HasOp(b) => MirrorsWell(b, cr'[b].storage)
      BY <2>2 DEF StorageInv, MirroredWell, Appears
    <3>2. (\A x \in Name : cr[x].scheduled /\ HasOp(x) => MirrorsWell(x, cr[x].storage))'
      BY <1>1, <2>1, <3>1 DEF StorageInv, MirroredWell, MirrorsWell, Holds, Assigned, HasOp
    <3>3. KindsApart'
      BY <1>0, <1>1, <2>1, <2>2
         DEF StorageInv, KindsApart, Appears, HasOp, HasCR, WorkersNamed
    <3> QED BY <1>3, <3>2, <3>3 DEF MirroredWell
  <2>3. CASE Vanishes(b)
    <3>1. (\A x \in Name : cr[x].scheduled /\ HasOp(x) => MirrorsWell(x, cr[x].storage))'
      BY <1>1, <2>1, <2>3 DEF StorageInv, MirroredWell, MirrorsWell, Vanishes, Holds, Assigned, HasOp
    <3>2. KindsApart'
      BY <1>0, <1>1, <2>1, <2>3
         DEF StorageInv, KindsApart, Vanishes, HasOp, HasCR, WorkersNamed
    <3> QED BY <1>3, <3>1, <3>2 DEF MirroredWell
  <2>4. CASE IsDeleted(b) \/ IsEdited(b)
    <3>1. /\ cr'[b].scheduled = cr[b].scheduled /\ cr'[b].storage = cr[b].storage
          /\ HasCR(b) /\ cr'[b].state # "absent"
      BY <2>4 DEF IsDeleted, IsEdited, HasCR
    <3>2. (\A x \in Name : cr[x].scheduled /\ HasOp(x) => MirrorsWell(x, cr[x].storage))'
      BY <1>1, <2>1, <3>1 DEF StorageInv, MirroredWell, MirrorsWell, Holds, Assigned, HasOp
    <3>3. KindsApart'
      BY <1>0, <1>1, <2>1, <3>1
         DEF StorageInv, KindsApart, HasOp, HasCR, WorkersNamed
    <3> QED BY <1>3, <3>2, <3>3 DEF MirroredWell
  <2>5. CASE IsAsked(b)
    <3>1. /\ ~HasOp(b) /\ mir.b # b /\ bk.b # b
          /\ ~cr'[b].scheduled /\ cr'[b].state # "absent"
      BY <2>5 DEF IsAsked, Unused
    <3>2. (\A x \in Name : cr[x].scheduled /\ HasOp(x) => MirrorsWell(x, cr[x].storage))'
      BY <1>1, <2>1, <3>1 DEF StorageInv, MirroredWell, MirrorsWell, Holds, Assigned, HasOp
    <3>3. KindsApart'
      BY <1>0, <1>1, <2>1, <3>1
         DEF StorageInv, KindsApart, HasOp, HasCR, WorkersNamed
    <3> QED BY <1>3, <3>2, <3>3 DEF MirroredWell
  <2> QED BY <1>5, <2>2, <2>3, <2>4, <2>5
<1> QED BY <1>0, <1>2, <1>4, <1>5, CRSteps DEF StorageInv

(* A step that writes one operator backup, and may move its data, keeps    *)
(* StorageInv if it does so for that backup.                               *)
LEMMA StorageOpFrom ==
  ASSUME StorageInv, NEW b \in Name, WritesOp(b),
         \A x \in Name \ {b} : at'[x] = at[x],
         op'[b].state # "absent" /\ at'[b] # NoStorage =>
           b \in dropped \/ Assigned(at'[b], op'[b].slot),
         op'[b].state = "succeeded" /\ op'[b].removal = "none" => at'[b] # NoStorage,
         cr[b].scheduled /\ op'[b].state # "absent" =>
           /\ op'[b].kind = "scheduled"
           /\ \/ b \in dropped
              \/ at'[b] \in {cr[b].storage, NoStorage} /\ Assigned(cr[b].storage, op'[b].slot),
         mir.pc = "create" /\ mir.b = b /\ op'[b].state # "absent" =>
           /\ op'[b].kind = "scheduled"
           /\ \/ b \in dropped
              \/ at'[b] \in {mir.storage, NoStorage} /\ Assigned(mir.storage, op'[b].slot),
         mir.pc # "idle" => mir.b \in Name,
         mir.pc # "idle" /\ mir.b = b /\ op'[b].state # "absent" => op'[b].kind = "scheduled",
         op'[b].state # "absent" /\ op'[b].kind = "scheduled" /\ HasCR(b) => cr[b].scheduled,
         bk'.pc = "create" => bk.pc = "create" /\ bk'.b = bk.b
  PROVE  StorageInv'
<1>1. /\ UNCHANGED <<instance, slotMap, cr, mir>>
      /\ \A x \in Name \ {b} : op'[x] = op[x] /\ (x \in dropped' <=> x \in dropped)
      /\ op'[b].state # "absent" => (b \in dropped' <=> b \in dropped)
  BY DEF WritesOp
<1>2. SlotsAreOwn'
  BY <1>1 DEF StorageInv, SlotsAreOwn
<1>3. DataIsInSlot'
  BY <1>1 DEF StorageInv, DataIsInSlot, Holds, Assigned, HasOp
<1>4. MirroredWell'
  <2>1. (\A x \in Name : cr[x].scheduled /\ HasOp(x) => MirrorsWell(x, cr[x].storage))'
    BY <1>1 DEF StorageInv, MirroredWell, MirrorsWell, Holds, Assigned, HasOp
  <2>2. (mir.pc = "create" /\ HasOp(mir.b) => MirrorsWell(mir.b, mir.storage))'
    BY <1>1 DEF StorageInv, MirroredWell, MirrorsWell, Holds, Assigned, HasOp
  <2> QED BY <2>1, <2>2 DEF MirroredWell
<1>5. KindsApart'
  BY <1>1 DEF StorageInv, KindsApart, HasOp, HasCR
<1> QED BY <1>2, <1>3, <1>4, <1>5 DEF StorageInv

(* So does one that leaves the data, the kind and the slot as they are.    *)
LEMMA StorageOpSame ==
  ASSUME StorageInv, WorkersNamed, NEW b \in Name, WritesOp(b), at' = at, Same(b),
         op'[b].state # "absent" => HasOp(b),
         op'[b].state = "succeeded" /\ op'[b].removal = "none" =>
           op[b].state = "succeeded" /\ op[b].removal = "none",
         bk'.pc = "create" => bk.pc = "create" /\ bk'.b = bk.b
  PROVE  StorageInv'
<1>1. /\ HasOp(b) /\ at[b] # NoStorage => Holds(b, at[b])
      /\ op[b].state = "succeeded" /\ op[b].removal = "none" => at[b] # NoStorage
  BY DEF StorageInv, DataIsInSlot
<1>2. /\ cr[b].scheduled /\ HasOp(b) => MirrorsWell(b, cr[b].storage)
      /\ mir.pc = "create" /\ mir.b = b /\ HasOp(b) => MirrorsWell(b, mir.storage)
  BY DEF StorageInv, MirroredWell
<1>3. /\ mir.pc # "idle" /\ mir.b = b /\ HasOp(b) => op[b].kind = "scheduled"
      /\ HasOp(b) /\ op[b].kind = "scheduled" /\ HasCR(b) => cr[b].scheduled
  BY DEF StorageInv, KindsApart
<1>4. op'[b].kind = op[b].kind /\ op'[b].slot = op[b].slot
  BY DEF Same
<1> QED BY <1>1, <1>2, <1>3, <1>4, StorageOpFrom DEF MirrorsWell, Holds, WorkersNamed

LEMMA StorageOperator ==
  ASSUME PromiseInv, StorageInv, NEW b \in Name,
         \/ OperatorStep(b) \/ OperatorFinalizes(b) \/ Expires(b)
         \/ \E k \in Slots : OperatorCreates(b, k)
  PROVE  StorageInv'
<1>0. /\ TypeOK /\ WorkersNamed /\ at \in [Name -> Storage \cup {NoStorage}]
      /\ slotMap \in SlotMaps
  BY TypeParts DEF PromiseInv
<1>1. ASSUME NEW k \in Slots, OperatorCreates(b, k) PROVE StorageInv'
  <2>1. /\ WritesOp(b) /\ at' = at /\ at[b] = NoStorage /\ bk' = bk /\ mir.b # b
        /\ ~HasCR(b) /\ op'[b].state = "new"
    BY <1>0, <1>1, ScheduleWrites DEF Unused
  <2>2. ~cr[b].scheduled
    BY <2>1 DEF StorageInv, KindsApart
  <2> QED BY <1>0, <2>1, <2>2, StorageOpFrom DEF WorkersNamed
<1>2. CASE OperatorRuns(b) \/ OperatorFinalizes(b)
  <2>1. /\ WritesOp(b) /\ Same(b) /\ LeavesBackup /\ at' = at /\ HasOp(b)
        /\ op[b].removal = "none"
        /\ op'[b].state = "running" \/ op'[b].state = op[b].state
    BY <1>0, <1>2, FinalizerWrites
  <2> QED BY <1>0, <2>1, StorageOpSame DEF LeavesBackup
<1>3. CASE OperatorEnds(b) /\ op'[b].state = "failed"
  <2>1. WritesOp(b) /\ Same(b) /\ LeavesBackup /\ at' = at /\ HasOp(b)
    BY <1>0, <1>3, EndWrites DEF HasOp
  <2> QED BY <1>0, <1>3, <2>1, StorageOpSame DEF LeavesBackup
<1>4. CASE OperatorEnds(b) /\ op'[b].state # "failed"
  <2>1. /\ WritesOp(b) /\ Same(b) /\ LeavesBackup /\ HasOp(b)
        /\ op'[b].removal = "none"
    BY <1>0, <1>4, EndWrites DEF HasOp
  <2>2. PICK s \in DOMAIN slotMap : slotMap[s] = op[b].slot /\ at' = [at EXCEPT ![b] = s]
    BY <1>0, <1>4, EndWrites
  <2>3. at'[b] = s /\ s # NoStorage /\ \A x \in Name \ {b} : at'[x] = at[x]
    <3>1. s \in Storage
      BY <1>0 DEF SlotMaps
    <3> QED BY <1>0, <2>2, <3>1, NoStorageAssumption
  <2>4. Assigned(s, op[b].slot)
    BY <2>2 DEF Assigned
  <2>5. /\ cr[b].scheduled => MirrorsWell(b, cr[b].storage)
        /\ mir.pc = "create" /\ mir.b = b => MirrorsWell(b, mir.storage)
    BY <2>1 DEF StorageInv, MirroredWell
  <2>6. /\ cr[b].scheduled => cr[b].storage = s \/ b \in dropped
        /\ mir.pc = "create" /\ mir.b = b => mir.storage = s \/ b \in dropped
    BY <2>2, <2>5, OneStorage DEF MirrorsWell, Holds, StorageInv
  <2>7. /\ mir.pc # "idle" /\ mir.b = b => op[b].kind = "scheduled"
        /\ op[b].kind = "scheduled" /\ HasCR(b) => cr[b].scheduled
    BY <2>1 DEF StorageInv, KindsApart
  <2>8. op'[b].kind = op[b].kind /\ op'[b].slot = op[b].slot
    BY <2>1 DEF Same
  <2>9. /\ cr[b].scheduled => op[b].kind = "scheduled"
        /\ mir.pc = "create" /\ mir.b = b => op[b].kind = "scheduled"
    BY <2>5 DEF MirrorsWell
  <2> QED
    BY <1>0, <2>1, <2>3, <2>4, <2>6, <2>7, <2>8, <2>9, StorageOpFrom
       DEF LeavesBackup, WorkersNamed
<1>5. CASE OperatorPurges(b)
  <2>1. /\ WritesOp(b) /\ Same(b) /\ LeavesBackup /\ HasOp(b)
        /\ op'[b].removal # "none" /\ at' = [at EXCEPT ![b] = NoStorage]
    BY <1>0, <1>5, PurgeWrites
  <2>2. at'[b] = NoStorage /\ \A x \in Name \ {b} : at'[x] = at[x]
    BY <1>0, <2>1
  <2>3. /\ cr[b].scheduled => MirrorsWell(b, cr[b].storage)
        /\ mir.pc = "create" /\ mir.b = b => MirrorsWell(b, mir.storage)
    BY <2>1 DEF StorageInv, MirroredWell
  <2>4. /\ mir.pc # "idle" /\ mir.b = b => op[b].kind = "scheduled"
        /\ op[b].kind = "scheduled" /\ HasCR(b) => cr[b].scheduled
    BY <2>1 DEF StorageInv, KindsApart
  <2>5. op'[b].kind = op[b].kind /\ op'[b].slot = op[b].slot
    BY <2>1 DEF Same
  <2> QED
    BY <1>0, <2>1, <2>2, <2>3, <2>4, <2>5, StorageOpFrom
       DEF LeavesBackup, MirrorsWell, Holds, WorkersNamed
<1>6. CASE OperatorRemoves(b)
  <2>1. WritesOp(b) /\ LeavesBackup /\ at' = at /\ op'[b].state = "absent"
    BY <1>0, <1>6, RemoveWrites, Initials
  <2> QED BY <1>0, <2>1, StorageOpFrom DEF LeavesBackup, WorkersNamed
<1>7. CASE Expires(b)
  <2>1. /\ WritesOp(b) /\ Same(b) /\ LeavesBackup /\ at' = at /\ HasOp(b)
        /\ op'[b].removal # "none"
    BY <1>0, <1>7, ExpireWrites
  <2> QED BY <1>0, <2>1, StorageOpSame DEF LeavesBackup
<1> QED BY <1>1, <1>2, <1>3, <1>4, <1>5, <1>6, <1>7 DEF OperatorStep

LEMMA StorageBackup ==
  ASSUME PromiseInv, StorageInv, BackupCreate \/ CleanupStep
  PROVE  StorageInv'
<1>0. TypeOK /\ WorkersNamed /\ NewIsEmpty
  BY DEF PromiseInv
<1>1. CASE BackupCreate
  <2>1. PICK b \in Name : b = bk.b /\ bk.pc = "create"
    BY <1>0, <1>1, CreateWrites
  <2>2. /\ bk'.pc = "idle" /\ at' = at /\ WritesOp(b)
        /\ op'[b].state = "new" /\ op'[b].kind = "onDemand"
    BY <1>0, <1>1, <2>1, CreateWrites, Initials
  <2>3. at[b] = NoStorage
    BY <1>0, <2>1 DEF NewIsEmpty
  <2>4. ~cr[b].scheduled /\ HasCR(b)
    BY <2>1 DEF StorageInv, KindsApart
  <2>5. mir.pc # "idle" => mir.b # b
    BY <2>4 DEF StorageInv, KindsApart
  <2> QED BY <1>0, <2>2, <2>3, <2>4, <2>5, StorageOpFrom DEF WorkersNamed
<1>2. CASE CleanupStep
  <2>1. PICK b \in Name : b = bk.b
    BY <1>0, <1>2, StripWrites, DeleteWrites DEF CleanupStep
  <2>2. /\ WritesOp(b) /\ Same(b) /\ at' = at /\ op'[b].state = op[b].state
        /\ op'[b].removal = "none" => op[b].removal = "none"
        /\ bk'.pc # "create"
    BY <1>0, <1>2, <2>1, StripWrites, DeleteWrites, Initials DEF CleanupStep
  <2> QED BY <1>0, <2>2, StorageOpSame DEF HasOp
<1> QED BY <1>1, <1>2

LEMMA StorageReads ==
  ASSUME PromiseInv, StorageInv, ReadStep
  PROVE  StorageInv'
<1>0. TypeOK /\ WorkersNamed
  BY DEF PromiseInv
<1>1. UNCHANGED <<instance, slotMap, cr, op, at, dropped>>
  BY <1>0, MirrorReads, BackupReads, FailingStops DEF ReadStep
<1>2. SlotsAreOwn' /\ DataIsInSlot'
  BY <1>1 DEF StorageInv, SlotsAreOwn, DataIsInSlot, Holds, Assigned, HasOp
<1>3. (\A x \in Name : cr[x].scheduled /\ HasOp(x) => MirrorsWell(x, cr[x].storage))'
  BY <1>1 DEF StorageInv, MirroredWell, MirrorsWell, Holds, Assigned, HasOp
<1>4. /\ (\A b \in Name : HasOp(b) /\ op[b].kind = "scheduled" /\ HasCR(b) => cr[b].scheduled)'
      /\ (\A b \in Name : cr[b].scheduled => HasCR(b))'
  BY <1>1 DEF StorageInv, KindsApart, HasOp, HasCR
<1>5. CASE MirrorInstance \/ MirrorStorage \/ \E b \in Name : MirrorBegin(b)
  <2>1. /\ mir'.pc # "idle" => mir'.b \in Name
        /\ \/ mir'.pc = "idle"
           \/ mir'.pc = "instance" /\ mir.pc = "idle" /\ Mirrorable(mir'.b)
           \/ mir'.pc = "storage" /\ mir.pc = "instance" /\ mir'.b = mir.b
           \/ /\ mir'.pc = "create" /\ mir.pc = "storage" /\ mir'.b = mir.b
              /\ mir'.storage \in repoNameToStorageName(op[mir.b].slot)
        /\ bk' = bk
    BY <1>0, <1>5, MirrorReads
  <2>2. mir'.pc # "idle" =>
          /\ HasOp(mir'.b) => op[mir'.b].kind = "scheduled"
          /\ HasCR(mir'.b) => cr[mir'.b].scheduled
    BY <2>1 DEF StorageInv, KindsApart, Mirrorable, HasOp
  <2>3. mir'.pc = "create" /\ HasOp(mir'.b) => MirrorsWell(mir'.b, mir'.storage)
    <3>1. SUFFICES ASSUME mir'.pc = "create", HasOp(mir'.b)
                   PROVE  MirrorsWell(mir'.b, mir'.storage)
      OBVIOUS
    <3>2. PICK b \in Name : b = mir'.b
      BY <2>1, <3>1
    <3>3. /\ mir'.storage \in DOMAIN slotMap /\ slotMap[mir'.storage] = op[b].slot
          /\ HasOp(b)
      BY <2>1, <3>1, <3>2 DEF repoNameToStorageName
    <3>4. at[b] \in {mir'.storage, NoStorage} \/ b \in dropped
      <4>1. at[b] # NoStorage => Holds(b, at[b])
        BY <3>3 DEF StorageInv, DataIsInSlot
      <4> QED BY <3>3, <4>1, OneStorage DEF StorageInv, Holds
    <3> QED BY <1>1, <2>2, <3>1, <3>2, <3>3, <3>4 DEF MirrorsWell, Holds, Assigned
  <2>4. MirroredWell'
    BY <1>1, <1>3, <2>3 DEF MirroredWell, MirrorsWell, Holds, Assigned, HasOp
  <2>5. KindsApart'
    BY <1>1, <1>4, <2>1, <2>2 DEF StorageInv, KindsApart, HasOp, HasCR
  <2> QED BY <1>2, <2>4, <2>5 DEF StorageInv
<1>6. CASE \/ WorkerFails
           \/ \E b \in Name : BackupBegin(b) \/ CleanupBegin(b)
  <2>1. mir' = mir \/ mir'.pc = "idle"
    BY <1>0, <1>6, BackupReads, FailingStops
  <2>2. bk'.pc = "create" =>
          bk' = bk \/ (cr[bk'.b].state = "live" /\ ~cr[bk'.b].scheduled)
    BY <1>0, <1>6, BackupReads, FailingStops
  <2>3. MirroredWell'
    <3>1. (mir.pc = "create" /\ HasOp(mir.b) => MirrorsWell(mir.b, mir.storage))'
      BY <1>1, <2>1 DEF StorageInv, MirroredWell, MirrorsWell, Holds, Assigned, HasOp
    <3> QED BY <1>3, <3>1 DEF MirroredWell
  <2>4. KindsApart'
    BY <1>1, <1>4, <2>1, <2>2 DEF StorageInv, KindsApart, HasOp, HasCR
  <2> QED BY <1>2, <2>3, <2>4 DEF StorageInv
<1> QED BY <1>5, <1>6 DEF ReadStep

(* A storage that is not dropped keeps its slot, whatever list is applied. *)
LEMMA StorageInstance ==
  ASSUME PromiseInv, StorageInv, InstanceStep
  PROVE  StorageInv'
<1>0. UNCHANGED <<cr, op, at, mir, bk>> /\ slotMap \in SlotMaps
  BY TypeParts DEF InstanceStep, CascadeEnds, UserChangesClass, UserDeletesInstance,
     SyncApplies, PromiseInv
<1>1. SlotsAreOwn'
  BY <1>0, EmptyIsInjective, ReconcileInjective, ListsAssumption
     DEF InstanceStep, CascadeEnds, UserChangesClass, UserDeletesInstance, SyncApplies,
     StorageInv, SlotsAreOwn
<1>2. ASSUME NEW b \in Name, HasOp(b), NEW s, Holds(b, s)
      PROVE  Holds(b, s)'
  <2>1. CASE CascadeEnds \/ UserChangesClass \/ UserDeletesInstance
    BY <1>0, <1>2, <2>1
       DEF CascadeEnds, UserChangesClass, UserDeletesInstance, Holds, Assigned
  <2>2. ASSUME NEW l \in Lists, SyncApplies(l)
        PROVE  Holds(b, s)'
    <3>1. SUFFICES ASSUME b \notin dropped'
                   PROVE  Assigned(s, op[b].slot)'
      BY DEF Holds
    <3>2. b \notin dropped /\ ~Drops(l, op[b].slot)
      BY <1>2, <2>2, <3>1 DEF SyncApplies
    <3>3. s \in DOMAIN slotMap /\ slotMap[s] = op[b].slot
      BY <1>2, <2>2, <3>2 DEF SyncApplies, Holds, Assigned
    <3>4. s \in ToSet(l)
      BY <3>2, <3>3 DEF Drops
    <3>5. /\ s \in DOMAIN reconcileRepoSlotMap(slotMap, l)
          /\ reconcileRepoSlotMap(slotMap, l)[s] = slotMap[s]
      BY <1>0, <3>3, <3>4, ReconcileKeeps, ListsAssumption
    <3> QED BY <1>0, <2>2, <3>3, <3>5 DEF SyncApplies, Assigned
  <2> QED BY <2>1, <2>2 DEF InstanceStep
<1>3. \A b \in dropped : b \in dropped'
  BY DEF InstanceStep, CascadeEnds, UserChangesClass, UserDeletesInstance, SyncApplies
<1>4. DataIsInSlot'
  <2>1. ASSUME NEW b \in Name, HasOp(b), at[b] # NoStorage
        PROVE  Holds(b, at[b])'
    <3>1. PICK s : s = at[b]
      OBVIOUS
    <3>2. Holds(b, s)
      BY <2>1, <3>1 DEF StorageInv, DataIsInSlot
    <3>3. Holds(b, s)'
      BY <1>2, <2>1, <3>2
    <3> QED BY <1>0, <3>1, <3>3 DEF Holds, Assigned
  <2> QED BY <1>0, <2>1 DEF StorageInv, DataIsInSlot, Holds, Assigned, HasOp
<1>5. MirroredWell'
  <2>1. ASSUME NEW b \in Name, HasOp(b), NEW s, MirrorsWell(b, s)
        PROVE  MirrorsWell(b, s)'
    BY <1>0, <1>2, <1>3, <2>1 DEF MirrorsWell
  <2>2. ASSUME NEW b \in Name, cr[b].scheduled, HasOp(b)
        PROVE  MirrorsWell(b, cr[b].storage)'
    <3>1. PICK s : s = cr[b].storage
      OBVIOUS
    <3>2. MirrorsWell(b, s)
      BY <2>2, <3>1 DEF StorageInv, MirroredWell
    <3>3. MirrorsWell(b, s)'
      BY <2>1, <2>2, <3>2
    <3> QED BY <1>0, <3>1, <3>3 DEF MirrorsWell, Holds, Assigned
  <2>3. ASSUME NEW b \in Name, b = mir.b, mir.pc = "create", HasOp(b)
        PROVE  MirrorsWell(mir.b, mir.storage)'
    <3>1. PICK s : s = mir.storage
      OBVIOUS
    <3>2. MirrorsWell(b, s)
      BY <2>3, <3>1 DEF StorageInv, MirroredWell
    <3>3. MirrorsWell(b, s)'
      BY <2>1, <2>3, <3>2
    <3> QED BY <1>0, <2>3, <3>1, <3>3 DEF MirrorsWell, Holds, Assigned
  <2>4. mir.pc = "create" => mir.b \in Name
    BY DEF PromiseInv, WorkersNamed
  <2> QED BY <1>0, <2>2, <2>3, <2>4 DEF MirroredWell, HasOp
<1>6. KindsApart'
  BY <1>0 DEF StorageInv, KindsApart, HasOp, HasCR
<1> QED BY <1>1, <1>4, <1>5, <1>6 DEF StorageInv

LEMMA StorageNext ==
  ASSUME PromiseInv, StorageInv, [Next]_vars
  PROVE  StorageInv'
<1>1. CASE CRStep
  BY <1>1, StorageCR
<1>2. CASE OpStep
  BY <1>2, StorageBackup, StorageOperator DEF OpStep
<1>3. CASE ReadStep
  BY <1>3, StorageReads
<1>4. CASE InstanceStep
  BY <1>4, StorageInstance
<1>5. CASE UNCHANGED vars
  BY <1>5 DEF vars, StorageInv, SlotsAreOwn, DataIsInSlot, MirroredWell, MirrorsWell,
     KindsApart, Holds, Assigned, HasOp, HasCR
<1> QED BY <1>1, <1>2, <1>3, <1>4, <1>5, NextIs

LEMMA StorageHolds == Spec => []StorageInv
<1>1. PromiseInv /\ StorageInv /\ [Next]_vars => PromiseInv' /\ StorageInv'
  BY PromiseNext, StorageNext
<1> QED BY <1>1, InitPromise, InitStorage, PTL DEF Spec

(* A mirrored Backup stands for a scheduled backup and names the storage   *)
(* that has its data (backup_mirror.go:128-190, repoNameToStorageName),    *)
(* whatever lists of storages are applied between and after Mirror's       *)
(* reads; only if that storage itself is dropped while the operator has    *)
(* the backup may it name another.                                         *)
THEOREM MirrorsAreReal == Spec => []MirroredIsReal
<1>1. StorageInv => MirroredIsReal
  BY DEF StorageInv, MirroredWell, MirrorsWell, MirroredIsReal
<1> QED BY <1>1, StorageHolds, PTL

(* A recovery window rests on data that lies in its own storage            *)
(* (backup_status.go:49-71, collectRepoBackups), whatever lists are        *)
(* applied; only a backup whose storage has been dropped may count for     *)
(* another.                                                                *)
THEOREM WindowsAreOwn == Spec => []WindowIsOwn
<1>1. StorageInv => WindowIsOwn
  <2>1. SUFFICES ASSUME StorageInv, NEW s \in DOMAIN slotMap,
                        NEW b \in RepoBackups(s) \ dropped, op[b].removal = "none"
                 PROVE  at[b] = s
    BY DEF WindowIsOwn
  <2>2. /\ b \in Name /\ op[b].slot = slotMap[s] /\ op[b].state = "succeeded"
        /\ b \notin dropped
    BY <2>1 DEF RepoBackups
  <2>3. Assigned(at[b], op[b].slot)
    BY <2>1, <2>2 DEF StorageInv, DataIsInSlot, Holds, HasOp
  <2> QED BY <2>1, <2>2, <2>3, OneStorage DEF StorageInv
<1> QED BY <1>1, StorageHolds, PTL

=============================================================================
