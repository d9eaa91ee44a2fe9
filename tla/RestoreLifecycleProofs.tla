---------------------- MODULE RestoreLifecycleProofs ----------------------
(***************************************************************************)
(* Theorems about RestoreLifecycle: type correctness, that operator        *)
(* restores read only the Instance's own repos, and, with users who do not *)
(* delete a Backup in use, that Restores end as reported, that Sync sees   *)
(* them and that a cluster starts from the data it was made for.           *)
(***************************************************************************)
EXTENDS RestoreLifecycle, TLAPS

States == {"Pending", "Running", "Succeeded", "Failed"}

SomeSource == Sources \cup {NoSource}

RestoreWorkers ==
  [pc : {"idle", "source", "op", "whose", "seeded", "operate", "report"},
   r : AllRestores, listed : BOOLEAN, result : States \cup {"none"}]

SyncWorkers ==
  [pc : {"idle", "check", "existing", "source", "op", "instance", "storage", "apply",
         "datasource"},
   listed : BOOLEAN, from : SomeSource]

Restores ==
  [cr : {"none", "live", "deleting", "gone"}, ds : SomeSource, state : States \cup {"none"}]

OpRestores ==
  [state : {"absent", "new", "running", "succeeded", "failed"}, ds : SomeSource,
   deleting : BOOLEAN]

-----------------------------------------------------------------------------

(* Resolving a source and mapping a state give what SyncRestore may report *)
(* (backup.go:273-279, 328-342).                                           *)
LEMMA OutcomesAreStates ==
  /\ \A d : BackupRead(d) \in {"usable", "Pending", "Failed"}
  /\ \A d, s : OpRead(d, s) \in {"usable", "Pending", "Failed"}
  /\ \A d, s, l : StreamRead(d, s, l) \in {"usable", "Pending", "Failed"}
  /\ seedingRestoreStatus \in States
  /\ \A s : ReportedState(s) \in States
<1>1. \A d : BackupRead(d) \in {"usable", "Pending", "Failed"}
  BY DEF BackupRead
<1>2. \A d, s : OpRead(d, s) \in {"usable", "Pending", "Failed"}
  BY DEF OpRead
<1>3. \A d, s, l : StreamRead(d, s, l) \in {"usable", "Pending", "Failed"}
  BY DEF StreamRead
<1>4. seedingRestoreStatus \in States
  BY DEF seedingRestoreStatus, States
<1>5. \A s : ReportedState(s) \in States
  BY DEF ReportedState, States
<1> QED BY <1>1, <1>2, <1>3, <1>4, <1>5

(* A call of SyncRestore goes on to the next place, or has a state to      *)
(* report (backup.go:273-279).                                             *)
LEMMA RestoreToTyped ==
  ASSUME rs \in RestoreWorkers,
         NEW outcome \in States \cup {"usable"},
         NEW pc \in {"op", "whose", "seeded", "operate", "report"}, RestoreTo(outcome, pc)
  PROVE  /\ rs' \in RestoreWorkers
         /\ rs'.r = rs.r
         /\ rs'.pc = (IF outcome = "usable" THEN pc ELSE "report")
BY DEF RestoreWorkers, RestoreTo, States

(* The worker's part of the type invariant under its name here.            *)
LEMMA WorkerType == TypeOK => rs \in RestoreWorkers
BY DEF TypeOK, RestoreWorkers, States

(* A step that changes nothing but a well-typed worker keeps the types     *)
(* (every read of SyncRestore).                                            *)
LEMMA ReadKeepsTypes ==
  ASSUME TypeOK, rs' \in RestoreWorkers, RestoreOnly
  PROVE  TypeOK'
BY DEF TypeOK, RestoreWorkers, States, RestoreOnly, userVars

(* So does a step that changes Restores only, or operator restores only.   *)
LEMMA RestoresKeepTypes ==
  ASSUME TypeOK, restores' \in [AllRestores -> Restores],
         UNCHANGED <<userVars, cluster, opRestore, workerVars>>
  PROVE  TypeOK'
BY DEF TypeOK, Restores, States, SomeSource, userVars, workerVars

LEMMA OpRestoresKeepTypes ==
  ASSUME TypeOK, opRestore' \in [AllRestores -> OpRestores],
         UNCHANGED <<userVars, restores, workerVars>>, UNCHANGED cluster
  PROVE  TypeOK'
BY DEF TypeOK, OpRestores, SomeSource, userVars, workerVars

(* The named parts of the type invariant.                                  *)
LEMMA PartTypes ==
  TypeOK => /\ restores \in [AllRestores -> Restores]
            /\ opRestore \in [AllRestores -> OpRestores]
BY DEF TypeOK, Restores, OpRestores, States, SomeSource

-----------------------------------------------------------------------------
(* Type correctness.                                                       *)

LEMMA InitTypes == Init => TypeOK
BY SourcesAssumption
   DEF Init, TypeOK, NoCluster, NoRestore, NoOpRestore, SyncIdle, RestoreIdle, AllRestores,
       Instances

(* The reads of Sync (provider.go:277, datasource.go:100-131).             *)
LEMMA SyncReadKeepsTypes == ASSUME TypeOK, sync' \in SyncWorkers, SyncOnly PROVE TypeOK'
BY DEF TypeOK, SyncWorkers, SomeSource, SyncOnly, userVars

LEMMA SyncTypes == ASSUME TypeOK, SyncStep \/ SyncFail PROVE TypeOK'
<1> USE DEF SyncAt, SyncTo
<1>0. sync \in SyncWorkers /\ cluster.from \in SomeSource /\ source \in SomeSource
      /\ listed \in BOOLEAN
  BY DEF TypeOK, SyncWorkers, SomeSource
<1>1. CASE SyncBegin
  <2>1. sync' \in SyncWorkers
    BY <1>0, <1>1 DEF SyncBegin, SyncWorkers, SomeSource
  <2> QED BY <1>1, <2>1, SyncReadKeepsTypes DEF SyncBegin
<1>2. CASE SyncCheck
  <2>1. sync' \in SyncWorkers
    BY <1>0, <1>2 DEF SyncCheck, SyncWorkers
  <2> QED BY <1>2, <2>1, SyncReadKeepsTypes DEF SyncCheck
<1>3. CASE SyncExisting
  <2> DEFINE on == [sync EXCEPT !.pc = "apply"]
  <2>1. on \in SyncWorkers
    BY <1>0 DEF SyncWorkers
  <2>2. [on EXCEPT !.from = cluster.from] \in SyncWorkers
    <3> HIDE DEF on
    <3> QED BY <1>0, <2>1 DEF SyncWorkers
  <2>3. sync' \in SyncWorkers
    BY <1>3, <2>2 DEF SyncExisting
  <2> QED BY <1>3, <2>3, SyncReadKeepsTypes DEF SyncExisting
<1>4. CASE SyncAbsent
  <2>1. sync' \in SyncWorkers
    BY <1>0, <1>4 DEF SyncAbsent, SyncWorkers
  <2> QED BY <1>4, <2>1, SyncReadKeepsTypes DEF SyncAbsent
<1>5. CASE SyncReadsSource
  <2>1. PICK pc \in {"op", "instance", "idle"} : sync' = [sync EXCEPT !.pc = pc]
    BY <1>5 DEF SyncReadsSource, SyncAfter
  <2>2. sync' \in SyncWorkers
    BY <1>0, <2>1 DEF SyncWorkers
  <2> QED BY <1>5, <2>2, SyncReadKeepsTypes DEF SyncReadsSource
<1>6. CASE SyncReadsOp
  <2>1. PICK pc \in {"instance", "idle"} : sync' = [sync EXCEPT !.pc = pc]
    BY <1>6 DEF SyncReadsOp, SyncAfter
  <2>2. sync' \in SyncWorkers
    BY <1>0, <2>1 DEF SyncWorkers
  <2> QED BY <1>6, <2>2, SyncReadKeepsTypes DEF SyncReadsOp
<1>7. CASE SyncReadsInstance
  <2>1. PICK pc \in {"apply", "storage", "idle"} : sync' = [sync EXCEPT !.pc = pc]
    BY <1>7 DEF SyncReadsInstance
  <2>2. sync' \in SyncWorkers
    BY <1>0, <2>1 DEF SyncWorkers
  <2> QED BY <1>7, <2>2, SyncReadKeepsTypes DEF SyncReadsInstance
<1>8. CASE SyncReadsStorage
  <2> DEFINE on == [sync EXCEPT !.pc = "apply"]
  <2>1. on \in SyncWorkers
    BY <1>0 DEF SyncWorkers
  <2>2. [on EXCEPT !.from = source] \in SyncWorkers
    <3> HIDE DEF on
    <3> QED BY <1>0, <2>1 DEF SyncWorkers
  <2>3. SyncIdle \in SyncWorkers
    BY DEF SyncIdle, SyncWorkers, SomeSource
  <2>4. sync' \in SyncWorkers
    BY <1>8, <2>2, <2>3 DEF SyncReadsStorage
  <2> QED BY <1>8, <2>4, SyncReadKeepsTypes DEF SyncReadsStorage
<1>9. CASE SyncApply
  BY <1>9 DEF SyncApply, TypeOK, userVars
<1>10. CASE ReconcileDataSource
  BY <1>10 DEF ReconcileDataSource, SyncIdle, TypeOK, AllRestores, userVars
<1>11. CASE SyncFail
  BY <1>11 DEF SyncFail, SyncIdle, TypeOK, userVars
<1> QED
  BY <1>1, <1>2, <1>3, <1>4, <1>5, <1>6, <1>7, <1>8, <1>9, <1>10, <1>11 DEF SyncStep

LEMMA RestoreTypes ==
  ASSUME TypeOK,
         \/ RestoreStep \/ RestoreFail
         \/ \E r \in AllRestores : RestoreBegin(r) \/ CleanupRestore(r)
  PROVE  TypeOK'
<1> USE DEF userVars, workerVars
<1>0. rs \in RestoreWorkers
  BY WorkerType
<1>1. CASE RestoreReadsSource
  <2>1. rs' \in RestoreWorkers
    BY <1>0, <1>1, OutcomesAreStates, RestoreToTyped DEF RestoreReadsSource, States
  <2> QED BY <1>1, <2>1, ReadKeepsTypes DEF RestoreReadsSource
<1>2. CASE RestoreReadsOp
  <2>1. rs' \in RestoreWorkers
    BY <1>0, <1>2, OutcomesAreStates, RestoreToTyped DEF RestoreReadsOp, States
  <2> QED BY <1>2, <2>1, ReadKeepsTypes DEF RestoreReadsOp
<1>3. CASE RestoreWhose
  <2>1. rs' \in RestoreWorkers
    BY <1>0, <1>3 DEF RestoreWhose, RestoreWorkers
  <2> QED BY <1>3, <2>1, ReadKeepsTypes DEF RestoreWhose
<1>4. CASE RestoreSeeded
  <2>1. rs' \in RestoreWorkers
    BY <1>0, <1>4, OutcomesAreStates, RestoreToTyped DEF RestoreSeeded
  <2> QED BY <1>4, <2>1, ReadKeepsTypes DEF RestoreSeeded
<1>5. CASE RestoreOperates
  <2>1. rs' \in RestoreWorkers
    BY <1>0, <1>5, OutcomesAreStates, RestoreToTyped DEF RestoreOperates
  <2>2. ds \in SomeSource /\ rs.r \in AllRestores
    BY <1>0 DEF TypeOK, ds, RestoreWorkers, SomeSource
  <2> QED
    BY <1>5, <2>1, <2>2 DEF RestoreOperates, TypeOK, RestoreWorkers, States, SomeSource
<1>6. CASE RestoreReport
  BY <1>6 DEF RestoreReport, RestoreIdle, TypeOK, AllRestores
<1>7. CASE RestoreFail
  BY <1>7 DEF RestoreFail, RestoreIdle, TypeOK, AllRestores
<1>8. ASSUME NEW r \in AllRestores, RestoreBegin(r) PROVE TypeOK'
  <2>1. rs' \in RestoreWorkers
    BY <1>8 DEF RestoreBegin, RestoreIdle, RestoreWorkers, TypeOK
  <2> QED BY <1>8, <2>1, ReadKeepsTypes DEF RestoreBegin
<1>9. ASSUME NEW r \in AllRestores, CleanupRestore(r) PROVE TypeOK'
  <2>1. CASE opRestore[r].state = "absent"
    <3>1. restores' \in [AllRestores -> Restores]
      BY <1>9, <2>1, PartTypes DEF CleanupRestore, Restores
    <3> QED BY <1>9, <2>1, <3>1, RestoresKeepTypes DEF CleanupRestore
  <2>2. CASE opRestore[r].state # "absent"
    <3>1. opRestore' \in [AllRestores -> OpRestores]
      <4>1. opRestore' = [opRestore EXCEPT ![r].deleting = TRUE]
        BY <1>9, <2>2 DEF CleanupRestore
      <4> QED BY <4>1, PartTypes DEF OpRestores
    <3> QED BY <1>9, <2>2, <3>1, OpRestoresKeepTypes DEF CleanupRestore
  <2> QED BY <2>1, <2>2
<1> QED
  BY <1>1, <1>2, <1>3, <1>4, <1>5, <1>6, <1>7, <1>8, <1>9 DEF RestoreStep

LEMMA OperatorTypes ==
  ASSUME TypeOK,
         \/ OperatorReady
         \/ \E r \in AllRestores : OperatorStep(r)
         \/ \E b \in Backup : BackupStep(b)
  PROVE  TypeOK'
<1> USE DEF userVars, workerVars, backupRest
<1>1. CASE OperatorReady
  BY <1>1 DEF OperatorReady, TypeOK
<1>2. ASSUME NEW r \in AllRestores, OperatorStep(r) PROVE TypeOK'
  <2>1. CASE OperatorStarts(r)
    <3>1. cluster' \in [state : {"absent", "initializing", "ready"}, archives : BOOLEAN,
                        from : Sources \cup {NoSource}]
      BY <2>1 DEF OperatorStarts, TypeOK
    <3>2. opRestore' \in [AllRestores -> OpRestores]
      BY <2>1, PartTypes DEF OperatorStarts, OpRestores
    <3> QED BY <2>1, <3>1, <3>2 DEF OperatorStarts, TypeOK, OpRestores, SomeSource
  <2>2. CASE OperatorEnds(r)
    <3>1. PICK s \in {"succeeded", "failed"} :
            opRestore' = [opRestore EXCEPT ![r].state = s]
      BY <2>2 DEF OperatorEnds
    <3>2. opRestore' \in [AllRestores -> OpRestores]
      BY <3>1, PartTypes DEF OpRestores
    <3> QED BY <2>2, <3>2, OpRestoresKeepTypes DEF OperatorEnds
  <2>3. CASE OperatorRemoves(r)
    BY <2>3 DEF OperatorRemoves, NoOpRestore, TypeOK
  <2> QED BY <1>2, <2>1, <2>2, <2>3 DEF OperatorStep
<1>3. ASSUME NEW b \in Backup, BackupStep(b) PROVE TypeOK'
  <2>1. CASE BackupStarts(b)
    BY <2>1 DEF BackupStarts, TypeOK
  <2>2. CASE BackupEnds(b)
    BY <2>2 DEF BackupEnds, TypeOK
  <2>3. CASE BackupFails(b)
    BY <2>3 DEF BackupFails, TypeOK
  <2>4. CASE BackupCleanup(b)
    <3>1. CASE op[b] = "absent"
      BY <2>4, <3>1 DEF BackupCleanup, TypeOK
    <3>2. CASE op[b] # "absent"
      <4>1. op' \in [Backup -> {"absent", "running", "succeeded", "failed"}]
        BY <2>4, <3>2 DEF BackupCleanup, TypeOK
      <4> QED BY <2>4, <3>2, <4>1 DEF BackupCleanup, TypeOK
    <3> QED BY <3>1, <3>2
  <2> QED BY <1>3, <2>1, <2>2, <2>3, <2>4 DEF BackupStep
<1> QED BY <1>1, <1>2, <1>3

LEMMA UserTypes == ASSUME TypeOK, UserStep PROVE TypeOK'
<1> USE DEF userVars, workerVars, Edit
<1>1. CASE UserLists
  BY <1>1 DEF UserLists, TypeOK
<1>2. ASSUME NEW r \in Restore, UserDeletesRestore(r) PROVE TypeOK'
  BY <1>2 DEF UserDeletesRestore, TypeOK, AllRestores
<1>3. ASSUME NEW r \in Restore, NEW d \in RestoreSources, UserRestores(r, d) PROVE TypeOK'
  <2>1. d \in SomeSource /\ r \in AllRestores
    BY SourcesAssumption DEF SomeSource, AllRestores
  <2> QED BY <1>3, <2>1 DEF UserRestores, TypeOK, SomeSource
<1>4. ASSUME NEW b \in Backup, UserBacksUp(b) PROVE TypeOK'
  BY <1>4 DEF UserBacksUp, TypeOK
<1>5. ASSUME NEW b \in Backup, UserDeletesBackup(b) PROVE TypeOK'
  BY <1>5 DEF UserDeletesBackup, TypeOK
<1>6. CASE OtherChanges
  <2>1. other' \in {[exists |-> TRUE, archives |-> TRUE], [exists |-> FALSE, archives |-> FALSE]}
    BY <1>6 DEF OtherChanges
  <2>2. [exists |-> TRUE, archives |-> TRUE] \in [exists : BOOLEAN, archives : BOOLEAN]
    OBVIOUS
  <2>3. [exists |-> FALSE, archives |-> FALSE] \in [exists : BOOLEAN, archives : BOOLEAN]
    OBVIOUS
  <2>4. other' \in [exists : BOOLEAN, archives : BOOLEAN]
    BY <2>1, <2>2, <2>3, Zenon
  <2> QED BY <1>6, <2>4 DEF OtherChanges, TypeOK
<1> QED BY <1>1, <1>2, <1>3, <1>4, <1>5, <1>6 DEF UserStep

(* Type correctness of both workers, for all sets of Backups and Restores  *)
(* and all bounds.                                                         *)
THEOREM RestoreTypeCorrect == Spec => []TypeOK
<1>1. TypeOK /\ [Next]_vars => TypeOK'
  <2> SUFFICES ASSUME TypeOK, [Next]_vars PROVE TypeOK'
    OBVIOUS
  <2>1. CASE UNCHANGED vars
    BY <2>1 DEF vars, TypeOK
  <2> QED
    BY <2>1, SyncTypes, RestoreTypes, OperatorTypes, UserTypes DEF Next
<1> QED BY <1>1, InitTypes, PTL DEF Spec

-----------------------------------------------------------------------------
(* Operator restores read own repos only.                                  *)

(* OwnRepoOnly is not inductive: what SyncRestore has found out about the  *)
(* source in hand must still hold when it makes the operator's restore.    *)
OwnInv ==
  /\ TypeOK
  /\ rs.pc # "idle" => restores[rs.r].cr # "none"
  /\ rs.pc = "op" => ds.type = "Backup"
  /\ rs.pc = "whose" /\ ~isSeedingRestore => ~Foreign(ds)
  /\ rs.pc = "operate" => ~Foreign(ds)
  /\ OwnRepoOnly

(* Restores keep their source and do not vanish without a trace.           *)
RestoresStay ==
  \A r \in AllRestores :
    restores[r].cr # "none" => restores'[r].cr # "none" /\ restores'[r].ds = restores[r].ds

NoNewOpRestores ==
  \A r \in AllRestores :
    opRestore'[r].state # "absent" =>
      opRestore[r].state # "absent" /\ opRestore'[r].ds = opRestore[r].ds

(* Everybody but SyncRestore keeps the invariant.                          *)
LEMMA OthersKeepOwn ==
  ASSUME OwnInv, TypeOK', UNCHANGED <<rs, source, origin>>, RestoresStay, NoNewOpRestores
  PROVE  OwnInv'
<1>1. rs.r \in AllRestores
  BY WorkerType DEF OwnInv, RestoreWorkers
<1>2. rs.pc # "idle" => restores'[rs.r].cr # "none" /\ restores'[rs.r].ds = restores[rs.r].ds
  BY <1>1 DEF OwnInv, RestoresStay
<1>3. OwnRepoOnly'
  BY DEF OwnInv, OwnRepoOnly, NoNewOpRestores, Foreign
<1> QED BY <1>2, <1>3 DEF OwnInv, isSeedingRestore, ds, Foreign

(* Nobody changes an existing Restore's source; the Restore of the data    *)
(* source is made when there is none (provider.go:297).                    *)
LEMMA OthersLeaveRestores ==
  ASSUME TypeOK,
         \/ SyncStep \/ SyncFail \/ OperatorReady \/ UserStep
         \/ \E r \in AllRestores : CleanupRestore(r) \/ OperatorStep(r)
         \/ \E b \in Backup : BackupStep(b)
  PROVE  UNCHANGED <<rs, source, origin>> /\ RestoresStay /\ NoNewOpRestores
<1> USE DEF userVars, workerVars, RestoresStay, NoNewOpRestores
<1>0. restores \in [AllRestores -> Restores] /\ opRestore \in [AllRestores -> OpRestores]
  BY PartTypes
<1>1. CASE SyncStep \/ SyncFail
  <2>1. CASE ReconcileDataSource
    BY <1>0, <2>1 DEF ReconcileDataSource, Restores
  <2>2. CASE SyncApply \/ SyncFail
    BY <2>2 DEF SyncApply, SyncFail
  <2>3. CASE SyncOnly
    BY <2>3 DEF SyncOnly
  <2>4. ReconcileDataSource \/ SyncApply \/ SyncFail \/ SyncOnly
    BY <1>1, Zenon DEF SyncStep, SyncBegin, SyncCheck, SyncExisting, SyncAbsent, SyncReadsSource,
       SyncReadsOp, SyncReadsInstance, SyncReadsStorage
  <2> QED BY <2>1, <2>2, <2>3, <2>4
<1>2. CASE OperatorReady
  BY <1>2 DEF OperatorReady
<1>3. CASE UserStep
  <2>1. CASE UserLists \/ OtherChanges
    BY <2>1 DEF UserLists, OtherChanges
  <2>2. ASSUME NEW r \in Restore, UserDeletesRestore(r)
        PROVE  UNCHANGED <<rs, source, origin>> /\ RestoresStay /\ NoNewOpRestores
    BY <1>0, <2>2 DEF UserDeletesRestore, Restores
  <2>3. ASSUME NEW r \in Restore, NEW d \in RestoreSources, UserRestores(r, d)
        PROVE  UNCHANGED <<rs, source, origin>> /\ RestoresStay /\ NoNewOpRestores
    BY <1>0, <2>3 DEF UserRestores, Restores
  <2>4. ASSUME NEW b \in Backup, UserBacksUp(b) \/ UserDeletesBackup(b)
        PROVE  UNCHANGED <<rs, source, origin>> /\ RestoresStay /\ NoNewOpRestores
    BY <2>4 DEF UserBacksUp, UserDeletesBackup
  <2> QED BY <1>3, <2>1, <2>2, <2>3, <2>4 DEF UserStep
<1>4. ASSUME NEW r \in AllRestores, CleanupRestore(r) \/ OperatorStep(r)
      PROVE  UNCHANGED <<rs, source, origin>> /\ RestoresStay /\ NoNewOpRestores
  <2>1. CASE CleanupRestore(r) /\ opRestore[r].state = "absent"
    BY <1>0, <2>1 DEF CleanupRestore, Restores
  <2>2. CASE CleanupRestore(r) /\ opRestore[r].state # "absent"
    <3>1. opRestore' = [opRestore EXCEPT ![r].deleting = TRUE] /\ restores' = restores
      BY <2>2 DEF CleanupRestore
    <3> QED BY <1>0, <2>2, <3>1 DEF CleanupRestore, OpRestores
  <2>3. CASE OperatorStarts(r)
    BY <1>0, <2>3 DEF OperatorStarts, OpRestores
  <2>4. CASE OperatorEnds(r)
    <3>1. PICK s \in {"succeeded", "failed"} : opRestore' = [opRestore EXCEPT ![r].state = s]
      BY <2>4 DEF OperatorEnds
    <3> QED BY <1>0, <2>4, <3>1 DEF OperatorEnds, Operating, OpRestores
  <2>5. CASE OperatorRemoves(r)
    BY <1>0, <2>5 DEF OperatorRemoves, NoOpRestore, OpRestores
  <2> QED BY <1>4, <2>1, <2>2, <2>3, <2>4, <2>5 DEF OperatorStep
<1>5. ASSUME NEW b \in Backup, BackupStep(b)
      PROVE  UNCHANGED <<rs, source, origin>> /\ RestoresStay /\ NoNewOpRestores
  BY <1>5 DEF BackupStep, BackupStarts, BackupEnds, BackupFails, BackupCleanup, backupRest
<1> QED BY <1>1, <1>2, <1>3, <1>4, <1>5

(* A usable source is the Instance's own, unless the Restore seeds it      *)
(* (backup.go:472-483, 514-525).                                           *)
LEMMA UsableIsOwn ==
  /\ \A d, s : d.type = "Backup" /\ OpRead(d, s) = "usable" => s \/ ~Foreign(d)
  /\ \A d, s, l : d.type # "Backup" /\ StreamRead(d, s, l) = "usable" => s \/ ~Foreign(d)
<1>1. ASSUME NEW d, NEW s, d.type = "Backup", OpRead(d, s) = "usable", ~s
      PROVE  ~Foreign(d)
  BY <1>1 DEF OpRead, Foreign
<1>2. ASSUME NEW d, NEW s, NEW l, d.type # "Backup", StreamRead(d, s, l) = "usable", ~s
      PROVE  ~Foreign(d)
  BY <1>2 DEF StreamRead, Foreign
<1> QED BY <1>1, <1>2

(* SyncRestore keeps it: after each read it knows as much as the next step *)
(* relies on.                                                              *)
LEMMA SyncRestoreKeepsOwn ==
  ASSUME OwnInv, TypeOK',
         RestoreStep \/ RestoreFail \/ \E r \in AllRestores : RestoreBegin(r)
  PROVE  OwnInv'
<1> USE DEF userVars, RestoreAt
<1>0. /\ rs \in RestoreWorkers /\ rs.r \in AllRestores
      /\ restores \in [AllRestores -> Restores]
      /\ opRestore \in [AllRestores -> OpRestores]
      /\ ds \in SomeSource
  BY WorkerType, PartTypes DEF OwnInv, RestoreWorkers, Restores, ds
<1>1. CASE RestoreReadsSource
  <2>1. CASE ds.type = "Backup"
    <3>1. RestoreTo(BackupRead(ds), "op")
      BY <1>1, <2>1 DEF RestoreReadsSource
    <3>2. rs'.r = rs.r /\ rs'.pc \in {"op", "report"}
      BY <1>0, <3>1, OutcomesAreStates, RestoreToTyped DEF States
    <3> QED
      BY <1>1, <2>1, <3>2
         DEF RestoreReadsSource, RestoreOnly, OwnInv, OwnRepoOnly, ds, Foreign
  <2>2. CASE ds.type # "Backup"
    <3>1. RestoreTo(StreamRead(ds, isSeedingRestore, rs.listed), "whose")
      BY <1>1, <2>2 DEF RestoreReadsSource
    <3>2. /\ rs'.r = rs.r
          /\ rs'.pc = IF StreamRead(ds, isSeedingRestore, rs.listed) = "usable"
                      THEN "whose" ELSE "report"
      BY <1>0, <3>1, OutcomesAreStates, RestoreToTyped DEF States
    <3>3. rs'.pc = "whose" => isSeedingRestore \/ ~Foreign(ds)
      BY <2>2, <3>2, UsableIsOwn
    <3> QED
      BY <1>1, <3>2, <3>3
         DEF RestoreReadsSource, RestoreOnly, OwnInv, OwnRepoOnly, ds, Foreign, isSeedingRestore
  <2> QED BY <2>1, <2>2
<1>2. CASE RestoreReadsOp
  <2>1. /\ rs'.r = rs.r
        /\ rs'.pc = IF OpRead(ds, isSeedingRestore) = "usable" THEN "whose" ELSE "report"
    BY <1>0, <1>2, OutcomesAreStates, RestoreToTyped DEF RestoreReadsOp, States
  <2>2. ds.type = "Backup"
    BY <1>2 DEF RestoreReadsOp, OwnInv
  <2>3. rs'.pc = "whose" => isSeedingRestore \/ ~Foreign(ds)
    BY <2>1, <2>2, UsableIsOwn
  <2> QED
    BY <1>2, <2>1, <2>3
       DEF RestoreReadsOp, RestoreOnly, OwnInv, OwnRepoOnly, ds, Foreign, isSeedingRestore
<1>3. CASE RestoreWhose
  <2>1. rs'.r = rs.r /\ rs'.pc = IF SeededByBootstrap THEN "seeded" ELSE "operate"
    BY <1>0, <1>3 DEF RestoreWhose, RestoreWorkers
  <2>2. ds.type \in {"none", "Backup", "PointInTime"}
        /\ (ds.type = "none" => ds.instance = "none")
    BY <1>0 DEF SomeSource, Sources, NoSource, BackupSource, StreamSource
  <2>3. dataSourceSourceInstance(ds) = "self" => ~Foreign(ds)
    BY <2>2 DEF dataSourceSourceInstance, Foreign
  <2>4. rs'.pc = "operate" => ~Foreign(ds)
    BY <1>3, <2>1, <2>3 DEF RestoreWhose, SeededByBootstrap, OwnInv
  <2> QED
    BY <1>3, <2>1, <2>4
       DEF RestoreWhose, RestoreOnly, OwnInv, OwnRepoOnly, ds, Foreign
<1>4. CASE RestoreSeeded
  <2>1. rs'.r = rs.r /\ rs'.pc = "report"
    BY <1>0, <1>4, OutcomesAreStates, RestoreToTyped DEF RestoreSeeded, States
  <2> QED
    BY <1>4, <2>1 DEF RestoreSeeded, RestoreOnly, OwnInv, OwnRepoOnly, ds, Foreign
<1>5. CASE RestoreOperates
  <2>1. rs'.r = rs.r /\ rs'.pc = "report"
    BY <1>0, <1>5, OutcomesAreStates, RestoreToTyped DEF RestoreOperates, States
  <2>2. ~Foreign(ds)
    BY <1>5 DEF RestoreOperates, OwnInv
  <2>3. \A r \in AllRestores :
          opRestore'[r] = opRestore[r] \/ (r = rs.r /\ opRestore'[r].ds = ds)
    BY <1>0, <1>5 DEF RestoreOperates
  <2>4. OwnRepoOnly'
    BY <1>5, <2>2, <2>3 DEF RestoreOperates, OwnInv, OwnRepoOnly, Foreign
  <2> QED
    BY <1>5, <2>1, <2>4 DEF RestoreOperates, OwnInv, ds, Foreign
<1>6. CASE RestoreReport \/ RestoreFail \/ \E r \in AllRestores : RestoreBegin(r)
  <2>1. rs'.pc = "idle" \/ (rs'.pc = "source" /\ restores'[rs'.r].cr # "none")
    <3>1. CASE RestoreReport \/ RestoreFail
      BY <3>1 DEF RestoreReport, RestoreFail, RestoreIdle
    <3>2. ASSUME NEW r \in AllRestores, RestoreBegin(r)
          PROVE  rs'.pc = "source" /\ rs'.r = r /\ restores'[r].cr # "none"
      <4>1. rs' = [[RestoreIdle EXCEPT !.pc = "source", !.r = r] EXCEPT !.listed = listed]
        BY <3>2 DEF RestoreBegin
      <4>2. rs'.pc = "source" /\ rs'.r = r
        BY <4>1 DEF RestoreIdle
      <4> QED BY <3>2, <4>2 DEF RestoreBegin, RestoreOnly
    <3> QED BY <1>6, <3>1, <3>2
  <2>2. OwnRepoOnly'
    BY <1>6
       DEF RestoreReport, RestoreFail, RestoreBegin, RestoreOnly, OwnInv, OwnRepoOnly, Foreign
  <2> QED BY <2>1, <2>2 DEF OwnInv
<1> QED BY <1>1, <1>2, <1>3, <1>4, <1>5, <1>6 DEF RestoreStep

LEMMA InitOwn == Init => OwnInv
<1> SUFFICES ASSUME Init PROVE OwnInv
  OBVIOUS
<1>1. TypeOK
  BY InitTypes
<1> QED BY <1>1 DEF Init, OwnInv, OwnRepoOnly, RestoreIdle, NoOpRestore

LEMMA OwnInvStep == ASSUME OwnInv, [Next]_vars PROVE OwnInv'
<1>1. CASE UNCHANGED vars
  BY <1>1 DEF vars, OwnInv, TypeOK, OwnRepoOnly, Foreign, ds, isSeedingRestore
<1>2. CASE Next
  <2>1. TypeOK /\ TypeOK'
    BY <1>2, SyncTypes, RestoreTypes, OperatorTypes, UserTypes DEF Next, OwnInv
  <2>2. CASE RestoreStep \/ RestoreFail \/ \E r \in AllRestores : RestoreBegin(r)
    BY <2>1, <2>2, SyncRestoreKeepsOwn
  <2>3. CASE \/ SyncStep \/ SyncFail \/ OperatorReady \/ UserStep
             \/ \E r \in AllRestores : CleanupRestore(r) \/ OperatorStep(r)
             \/ \E b \in Backup : BackupStep(b)
    BY <2>1, <2>3, OthersLeaveRestores, OthersKeepOwn
  <2> QED BY <1>2, <2>2, <2>3, Zenon DEF Next
<1> QED BY <1>1, <1>2

(* No operator restore ever reads the repo of another Instance, for all    *)
(* Backups, Restores, sources and bounds, careless users included: the     *)
(* guard of resolveBackupSource and resolvePointInTimeSource suffices      *)
(* although its finding is used some reads later (backup.go:291-311).      *)
THEOREM RestoresReadOwnRepos == Spec => []OwnRepoOnly
<1>1. OwnInv => OwnRepoOnly
  BY DEF OwnInv
<1> QED BY InitOwn, OwnInvStep, <1>1, PTL DEF Spec

-----------------------------------------------------------------------------
(* With careful users the outcome of a Restore is real, the restore check  *)
(* of Sync sees every operator restore, and a new cluster has its data.    *)

CarefulUsers == "careless" \notin UserMay

(* An operator backup runs or has succeeded only while its Backup is there *)
(* and was not reported as failed.                                         *)
BackupsLast ==
  \A b \in Backup : op[b] \in {"running", "succeeded"} => cr[b] \in {"live", "deleting"}

(* What a reader of a Backup has learned lasts: once usable it can only be *)
(* deleted, and once failed it never becomes usable.                       *)
Removed(b) == op[b] = "absent" /\ cr[b] \in {"deleting", "gone"}

WasUsable(b) == op[b] = "succeeded" \/ Removed(b)

Hopeless(b) == op[b] = "failed" \/ cr[b] = "failed" \/ Removed(b)

SourceWasUsable(d) == d.type = "Backup" => WasUsable(d.backup)

(* Data that an operator restore can fetch for the Seed.                   *)
OwnSource(d) == ~Foreign(d) /\ d # StreamSource("none")

Underway(r) == opRestore[r].state \in {"new", "running"}

(* The state that is reported, or about to be.                             *)
Outcome(r, s) ==
  restores[r].state = s \/ (rs.pc = "report" /\ rs.r = r /\ rs.result = s)

WorkerKnows ==
  /\ rs.pc # "idle" => Open(rs.r)
  /\ rs.pc \in {"whose", "operate"} => SourceWasUsable(ds)
  /\ rs.pc = "operate" /\ rs.r = Seed => OwnSource(ds)
  /\ rs.pc = "seeded" => rs.r = Seed /\ source # NoSource /\ ~OwnSource(source)

OperatorKnows ==
  \A r \in AllRestores :
    opRestore[r].state # "absent" =>
      /\ restores[r].cr # "none" /\ opRestore[r].ds = restores[r].ds
      /\ SourceWasUsable(restores[r].ds)
      /\ r = Seed => OwnSource(source)
      /\ opRestore[r].deleting => restores[r].cr \in {"deleting", "gone"}

OutcomesAreReal ==
  \A r \in AllRestores :
    /\ Underway(r) => Open(r) /\ ~Outcome(r, "Succeeded") /\ ~Outcome(r, "Failed")
    /\ restores[r].cr = "live" /\ Outcome(r, "Succeeded") =>
         \/ opRestore[r].state = "succeeded"
         \/ r = Seed /\ Foreign(source) /\ cluster.state # "absent"

(* The Seed is what spec.dataSource asks for; its Backup is in use until   *)
(* the Seed ends, and it fails for a hopeless source only.                 *)
SeedStands ==
  /\ restores[Seed].cr # "none" =>
       restores[Seed].cr = "live" /\ restores[Seed].ds = source /\ source # NoSource
  /\ restores[Seed].cr = "none" => restores[Seed].state = "none"
  /\ source.type = "Backup" /\ (restores[Seed].cr = "none" \/ Open(Seed)) =>
       cr[source.backup] \notin {"deleting", "gone"}
  /\ source.type = "Backup" /\ Foreign(source) /\ Outcome(Seed, "Failed") =>
       Hopeless(source.backup)

(* What Sync knows about the data source at each of its places.            *)
SyncKnows ==
  /\ sync.pc \in {"source", "op", "instance", "storage"} =>
       cluster.state = "absent" /\ source # NoSource
  /\ sync.pc = "op" => source.type = "Backup"
  /\ sync.pc \in {"instance", "storage"} /\ Foreign(source) /\ source.type = "Backup" =>
       op[source.backup] = "succeeded" /\ cr[source.backup] = "live"
  /\ sync.pc = "apply" /\ cluster.state # "absent" => sync.from = cluster.from
  /\ sync.pc = "apply" /\ Foreign(source) => sync.from = source
  /\ source = StreamSource("none") =>
       cluster.state = "absent" /\ sync.pc \notin {"instance", "storage", "apply"}

CarefulInv ==
  /\ OwnInv /\ BackupsLast
  /\ WorkerKnows /\ OperatorKnows /\ OutcomesAreReal
  /\ SeedStands /\ SyncKnows /\ SeededFromSource

-----------------------------------------------------------------------------
(* Effects.                                                                *)

(* What a reader has learned about a Backup lasts, whoever acts.           *)
LEMMA BackupsMove ==
  ASSUME TypeOK, BackupsLast, [Next]_vars
  PROVE  /\ BackupsLast'
         /\ \A b \in Backup : /\ WasUsable(b) => WasUsable(b)'
                              /\ Hopeless(b) => Hopeless(b)'
<1> DEFINE Moves(b) == /\ op'[b] \in {"running", "succeeded"} => cr'[b] \in {"live", "deleting"}
                       /\ WasUsable(b) => WasUsable(b)'
                       /\ Hopeless(b) => Hopeless(b)'
<1> USE DEF WasUsable, Hopeless, Removed, BackupsLast
<1>0. cr \in [Backup -> {"none", "live", "failed", "deleting", "gone"}]
      /\ op \in [Backup -> {"absent", "running", "succeeded", "failed"}]
  BY DEF TypeOK
<1>1. ASSUME NEW b \in Backup, BackupStep(b) PROVE \A c \in Backup : Moves(c)
  BY <1>0, <1>1 DEF BackupStep, BackupStarts, BackupEnds, BackupFails, BackupCleanup
<1>2. ASSUME NEW b \in Backup, UserBacksUp(b) \/ UserDeletesBackup(b)
      PROVE  \A c \in Backup : Moves(c)
  BY <1>0, <1>2 DEF UserBacksUp, UserDeletesBackup
<1>3. CASE UNCHANGED <<cr, op>>
  BY <1>3
<1>4. \/ UNCHANGED <<cr, op>>
      \/ \E b \in Backup : BackupStep(b) \/ UserBacksUp(b) \/ UserDeletesBackup(b)
  BY DEF Next, SyncStep, SyncBegin, SyncCheck, SyncExisting, SyncAbsent, SyncReadsSource,
     SyncReadsOp, SyncReadsInstance, SyncReadsStorage, SyncApply, ReconcileDataSource, SyncFail,
     SyncOnly, RestoreStep, RestoreFail, RestoreReadsSource, RestoreReadsOp, RestoreWhose,
     RestoreSeeded, RestoreOperates, RestoreReport, RestoreBegin, CleanupRestore, RestoreOnly,
     OperatorStep, OperatorStarts, OperatorEnds, OperatorRemoves, OperatorReady, UserStep,
     UserLists, UserRestores, UserDeletesRestore, OtherChanges, userVars, vars
<1>5. \A b \in Backup : Moves(b)
  BY <1>1, <1>2, <1>3, <1>4
<1> QED BY <1>5

(* What nobody changes: the data source, whose a Backup is, and that there *)
(* is a cluster.                                                           *)
Settled ==
  /\ UNCHANGED <<source, origin>>
  /\ cluster.state # "absent" => cluster'.state # "absent"
  /\ \A b \in Backup : WasUsable(b) => WasUsable(b)'

LEMMA AllSettle ==
  ASSUME TypeOK, BackupsLast, [Next]_vars
  PROVE  Settled
<1>0. cluster \in [state : {"absent", "initializing", "ready"}, archives : BOOLEAN,
                   from : Sources \cup {NoSource}]
  BY DEF TypeOK
<1>1. cluster' = cluster \/ SyncApply \/ OperatorReady
        \/ \E r \in AllRestores : OperatorStarts(r)
  BY DEF Next, SyncStep, SyncBegin, SyncCheck, SyncExisting, SyncAbsent, SyncReadsSource,
     SyncReadsOp, SyncReadsInstance, SyncReadsStorage, ReconcileDataSource, SyncFail,
     SyncOnly, RestoreStep, RestoreFail, RestoreReadsSource, RestoreReadsOp, RestoreWhose,
     RestoreSeeded, RestoreOperates, RestoreReport, RestoreBegin, CleanupRestore, RestoreOnly,
     OperatorStep, OperatorEnds, OperatorRemoves, UserStep, BackupStep, BackupStarts, BackupEnds,
     BackupFails, BackupCleanup, backupRest, UserLists, UserRestores, UserDeletesRestore,
     UserBacksUp, UserDeletesBackup, OtherChanges, vars
<1>2. cluster.state # "absent" => cluster'.state # "absent"
  BY <1>0, <1>1 DEF SyncApply, OperatorReady, OperatorStarts
<1>3. UNCHANGED <<source, origin>>
  BY DEF Next, SyncStep, SyncBegin, SyncCheck, SyncExisting, SyncAbsent, SyncReadsSource,
     SyncReadsOp, SyncReadsInstance, SyncReadsStorage, SyncApply, ReconcileDataSource, SyncFail,
     SyncOnly, RestoreStep, RestoreFail, RestoreReadsSource, RestoreReadsOp, RestoreWhose,
     RestoreSeeded, RestoreOperates, RestoreReport, RestoreBegin, CleanupRestore, RestoreOnly,
     OperatorReady, OperatorStep, OperatorStarts, OperatorEnds, OperatorRemoves, UserStep,
     BackupStep, BackupStarts, BackupEnds, BackupFails, BackupCleanup, backupRest, UserLists,
     UserRestores, UserDeletesRestore, UserBacksUp, UserDeletesBackup, OtherChanges, userVars, vars
<1> QED BY <1>2, <1>3, BackupsMove DEF Settled

(* Restores and what is known about them.                                  *)
OutcomeInv == TypeOK /\ OwnInv /\ WorkerKnows /\ OperatorKnows /\ OutcomesAreReal

LEMMA SourcesStayUsable ==
  ASSUME Settled, NEW d \in SomeSource, SourceWasUsable(d)
  PROVE  SourceWasUsable(d)'
<1>1. d.type = "Backup" => d.backup \in Backup
  BY DEF SomeSource, Sources, NoSource, BackupSource, StreamSource
<1> QED BY <1>1 DEF Settled, SourceWasUsable

(* A Restore as others than SyncRestore's worker may change it.            *)
Fresh(r) ==
  restores[r].cr = "none" /\ restores'[r].cr = "live" /\ restores'[r].state = "none"

Leaves(r) ==
  /\ restores'[r].ds = restores[r].ds /\ restores'[r].state = restores[r].state
  /\ \/ restores[r].cr = "live" /\ restores'[r].cr = "deleting"
     \/ /\ restores[r].cr = "deleting" /\ restores'[r].cr = "gone"
        /\ opRestore[r].state = "absent" /\ rs.pc = "idle"

LEMMA RestoresChange ==
  ASSUME OutcomeInv, Settled, UNCHANGED <<opRestore, rs>>,
         \A r \in AllRestores : restores'[r] = restores[r] \/ Fresh(r) \/ Leaves(r)
  PROVE  (WorkerKnows /\ OperatorKnows /\ OutcomesAreReal)'
<1>0. rs.r \in AllRestores /\ \A r \in AllRestores : restores[r].ds \in SomeSource
  BY PartTypes, WorkerType DEF OutcomeInv, RestoreWorkers, Restores
<1>1. rs.pc # "idle" => Open(rs.r)' /\ ds' = ds
  BY <1>0 DEF OutcomeInv, WorkerKnows, Open, Fresh, Leaves, ds
<1>2. WorkerKnows'
  <2>1. rs.pc \in {"whose", "operate"} => SourceWasUsable(ds)'
    BY <1>0, <1>1, SourcesStayUsable DEF OutcomeInv, WorkerKnows, SourceWasUsable, ds
  <2> QED
    BY <1>1, <2>1 DEF OutcomeInv, WorkerKnows, Settled, OwnSource, Foreign
<1>3. OperatorKnows'
  <2> SUFFICES ASSUME NEW r \in AllRestores, opRestore[r].state # "absent"
               PROVE  /\ restores'[r].cr # "none" /\ opRestore[r].ds = restores'[r].ds
                      /\ SourceWasUsable(restores[r].ds)' /\ restores'[r].ds = restores[r].ds
                      /\ r = Seed => OwnSource(source)
                      /\ opRestore[r].deleting => restores'[r].cr \in {"deleting", "gone"}
    BY DEF OperatorKnows, SourceWasUsable, Settled, OwnSource, Foreign
  <2>1. /\ restores[r].cr # "none" /\ opRestore[r].ds = restores[r].ds
        /\ SourceWasUsable(restores[r].ds)
        /\ r = Seed => OwnSource(source)
        /\ opRestore[r].deleting => restores[r].cr \in {"deleting", "gone"}
    BY DEF OutcomeInv, OperatorKnows
  <2>2. restores'[r] = restores[r] \/ Leaves(r)
    BY <2>1 DEF Fresh
  <2>3. SourceWasUsable(restores[r].ds)'
    <3>1. restores'[r].ds = restores[r].ds
      BY <2>2 DEF Leaves
    <3> QED BY <1>0, <2>1, <3>1, SourcesStayUsable DEF SourceWasUsable
  <2> QED BY <2>1, <2>2, <2>3 DEF Leaves
<1>4. OutcomesAreReal'
  <2> SUFFICES ASSUME NEW r \in AllRestores
               PROVE  /\ Underway(r) => /\ Open(r)' /\ ~Outcome(r, "Succeeded")'
                                        /\ ~Outcome(r, "Failed")'
                      /\ restores'[r].cr = "live" /\ Outcome(r, "Succeeded")' =>
                           \/ opRestore[r].state = "succeeded"
                           \/ r = Seed /\ Foreign(source) /\ cluster.state # "absent"
    BY DEF OutcomesAreReal, Underway, Settled, Foreign
  <2> USE DEF OutcomeInv, OutcomesAreReal, Underway, Outcome, Open
  <2>1. CASE restores'[r] = restores[r]
    BY <2>1
  <2>2. CASE Fresh(r)
    BY <1>0, <2>2 DEF Fresh, WorkerKnows, OperatorKnows
  <2>3. CASE Leaves(r)
    BY <2>3 DEF Leaves
  <2> QED BY <2>1, <2>2, <2>3
<1> QED BY <1>2, <1>3, <1>4

(* An operator restore as others than SyncRestore may change it.           *)
Proceeds(r) ==
  /\ opRestore'[r].ds = opRestore[r].ds /\ opRestore'[r].deleting = opRestore[r].deleting
  /\ \/ opRestore[r].state = "new" /\ opRestore'[r].state = "running"
     \/ opRestore[r].state = "running" /\ opRestore'[r].state \in {"succeeded", "failed"}

Discards(r) ==
  \/ /\ opRestore'[r].ds = opRestore[r].ds /\ opRestore'[r].state = opRestore[r].state
     /\ restores[r].cr = "deleting"
  \/ opRestore[r].deleting /\ opRestore'[r] = NoOpRestore

LEMMA OpRestoresChange ==
  ASSUME OutcomeInv, Settled, UNCHANGED <<restores, rs>>,
         \A r \in AllRestores : opRestore'[r] = opRestore[r] \/ Proceeds(r) \/ Discards(r)
  PROVE  (WorkerKnows /\ OperatorKnows /\ OutcomesAreReal)'
<1>0. rs.r \in AllRestores /\ \A r \in AllRestores : restores[r].ds \in SomeSource
  BY PartTypes, WorkerType DEF OutcomeInv, RestoreWorkers, Restores
<1>1. WorkerKnows'
  <2>1. rs.pc \in {"whose", "operate"} => SourceWasUsable(ds)'
    BY <1>0, SourcesStayUsable DEF OutcomeInv, WorkerKnows, SourceWasUsable, ds
  <2> QED
    BY <2>1 DEF OutcomeInv, WorkerKnows, Settled, OwnSource, Foreign, Open, ds
<1>2. OperatorKnows'
  <2> SUFFICES ASSUME NEW r \in AllRestores, opRestore'[r].state # "absent"
               PROVE  /\ restores[r].cr # "none" /\ opRestore'[r].ds = restores[r].ds
                      /\ SourceWasUsable(restores[r].ds)'
                      /\ r = Seed => OwnSource(source)
                      /\ opRestore'[r].deleting => restores[r].cr \in {"deleting", "gone"}
    BY DEF OperatorKnows, SourceWasUsable, Settled, OwnSource, Foreign
  <2>1. opRestore'[r].ds = opRestore[r].ds /\ opRestore[r].state # "absent"
        /\ (opRestore'[r].deleting => opRestore[r].deleting \/ restores[r].cr = "deleting")
    BY DEF Proceeds, Discards, NoOpRestore
  <2>2. SourceWasUsable(restores[r].ds)'
    BY <1>0, <2>1, SourcesStayUsable DEF OutcomeInv, OperatorKnows, SourceWasUsable
  <2> QED BY <2>1, <2>2 DEF OutcomeInv, OperatorKnows
<1>3. OutcomesAreReal'
  <2> SUFFICES ASSUME NEW r \in AllRestores
               PROVE  /\ Underway(r)' => /\ Open(r) /\ ~Outcome(r, "Succeeded")
                                         /\ ~Outcome(r, "Failed")
                      /\ restores[r].cr = "live" /\ Outcome(r, "Succeeded") =>
                           \/ opRestore'[r].state = "succeeded"
                           \/ r = Seed /\ Foreign(source) /\ cluster.state # "absent"
    BY DEF OutcomesAreReal, Open, Outcome, Settled, Foreign
  <2>1. Underway(r)' => Underway(r)
    BY DEF Underway, Proceeds, Discards, NoOpRestore
  <2>2. opRestore[r].state = "succeeded" /\ restores[r].cr = "live"
          => opRestore'[r].state = "succeeded"
    BY DEF OutcomeInv, OperatorKnows, Proceeds, Discards
  <2> QED BY <2>1, <2>2 DEF OutcomeInv, OutcomesAreReal
<1> QED BY <1>1, <1>2, <1>3

(* Steps of others than SyncRestore's worker.                              *)
LEMMA OthersKeepOutcomes ==
  ASSUME OutcomeInv, Settled,
         \/ SyncStep \/ SyncFail \/ OperatorReady \/ UserStep
         \/ \E r \in AllRestores : CleanupRestore(r) \/ OperatorStep(r)
         \/ \E b \in Backup : BackupStep(b)
  PROVE  (WorkerKnows /\ OperatorKnows /\ OutcomesAreReal)'
<1> USE DEF userVars, workerVars
<1>0. restores \in [AllRestores -> Restores] /\ opRestore \in [AllRestores -> OpRestores]
      /\ Seed \in AllRestores
  BY PartTypes DEF OutcomeInv, AllRestores
<1>1. CASE UNCHANGED <<restores, opRestore, rs>>
  BY <1>1, RestoresChange
<1>2. CASE ReconcileDataSource
  <2>1. \A r \in AllRestores : restores'[r] = restores[r] \/ Fresh(r)
    BY <1>0, <1>2 DEF ReconcileDataSource, Fresh
  <2> QED BY <1>2, <2>1, RestoresChange DEF ReconcileDataSource
<1>3. ASSUME NEW r \in Restore, NEW d \in RestoreSources, UserRestores(r, d)
      PROVE  (WorkerKnows /\ OperatorKnows /\ OutcomesAreReal)'
  <2>1. \A q \in AllRestores : restores'[q] = restores[q] \/ Fresh(q)
    BY <1>0, <1>3 DEF UserRestores, Fresh
  <2> QED BY <1>3, <2>1, RestoresChange DEF UserRestores
<1>4. ASSUME NEW r \in Restore, UserDeletesRestore(r)
      PROVE  (WorkerKnows /\ OperatorKnows /\ OutcomesAreReal)'
  <2>1. \A q \in AllRestores : restores'[q] = restores[q] \/ Leaves(q)
    BY <1>0, <1>4 DEF UserDeletesRestore, Leaves, Restores
  <2> QED BY <1>4, <2>1, RestoresChange DEF UserDeletesRestore
<1>5. ASSUME NEW r \in AllRestores, CleanupRestore(r)
      PROVE  (WorkerKnows /\ OperatorKnows /\ OutcomesAreReal)'
  <2>1. CASE opRestore[r].state = "absent"
    <3>1. \A q \in AllRestores : restores'[q] = restores[q] \/ Leaves(q)
      BY <1>0, <1>5, <2>1 DEF CleanupRestore, RestoreAt, Leaves, Restores
    <3> QED BY <1>5, <2>1, <3>1, RestoresChange DEF CleanupRestore
  <2>2. CASE opRestore[r].state # "absent"
    <3>1. opRestore' = [opRestore EXCEPT ![r] = [opRestore[r] EXCEPT !.deleting = TRUE]]
      BY <1>5, <2>2 DEF CleanupRestore
    <3>2. \A q \in AllRestores : opRestore'[q] = opRestore[q] \/ Discards(q)
      BY <1>0, <1>5, <3>1 DEF CleanupRestore, Discards, OpRestores
    <3> QED BY <1>5, <2>2, <3>2, OpRestoresChange DEF CleanupRestore
  <2> QED BY <2>1, <2>2
<1>6. ASSUME NEW r \in AllRestores, OperatorStep(r)
      PROVE  (WorkerKnows /\ OperatorKnows /\ OutcomesAreReal)'
  <2>1. \A q \in AllRestores : opRestore'[q] = opRestore[q] \/ Proceeds(q) \/ Discards(q)
    <3>1. CASE OperatorStarts(r)
      BY <1>0, <3>1 DEF OperatorStarts, Proceeds, OpRestores
    <3>2. CASE OperatorEnds(r)
      <4>1. PICK s \in {"succeeded", "failed"} : opRestore' = [opRestore EXCEPT ![r].state = s]
        BY <3>2 DEF OperatorEnds
      <4> QED BY <1>0, <3>2, <4>1 DEF OperatorEnds, Operating, Proceeds, OpRestores
    <3>3. CASE OperatorRemoves(r)
      BY <1>0, <3>3 DEF OperatorRemoves, Discards
    <3> QED BY <1>6, <3>1, <3>2, <3>3 DEF OperatorStep
  <2>2. UNCHANGED <<restores, rs>>
    BY <1>6 DEF OperatorStep, OperatorStarts, OperatorEnds, OperatorRemoves
  <2> QED BY <2>1, <2>2, OpRestoresChange
<1>7. \/ UNCHANGED <<restores, opRestore, rs>> \/ ReconcileDataSource
      \/ \E r \in Restore : UserDeletesRestore(r) \/ \E d \in RestoreSources : UserRestores(r, d)
      \/ \E r \in AllRestores : CleanupRestore(r) \/ OperatorStep(r)
  BY DEF SyncStep, SyncBegin, SyncCheck, SyncExisting, SyncAbsent, SyncReadsSource,
     SyncReadsOp, SyncReadsInstance, SyncReadsStorage, SyncApply, SyncFail, SyncOnly,
     OperatorReady, UserStep, BackupStep, BackupStarts, BackupEnds, BackupFails, BackupCleanup,
     backupRest, UserLists, UserBacksUp, UserDeletesBackup, OtherChanges
<1> QED BY <1>1, <1>2, <1>3, <1>4, <1>5, <1>6, <1>7

(* A source of the Instance's own that was usable once is never reported   *)
(* as failed.                                                              *)
LEMMA UsableNeverFails ==
  ASSUME TypeOK, BackupsLast, NEW d \in SomeSource, ~Foreign(d), SourceWasUsable(d),
         NEW s, NEW l
  PROVE  /\ d.type = "Backup" => BackupRead(d) # "Failed" /\ OpRead(d, s) # "Failed"
         /\ d.type # "Backup" => StreamRead(d, s, l) # "Failed"
<1>1. d.type = "Backup" => d.backup \in Backup
  BY DEF SomeSource, Sources, NoSource, BackupSource, StreamSource
<1>2. CASE d.type = "Backup"
  <2>1. BackupRead(d) # "Failed"
    BY <1>1, <1>2 DEF BackupsLast, SourceWasUsable, WasUsable, Removed, BackupRead
  <2>2. op[d.backup] \in {"succeeded", "absent"}
    BY <1>2 DEF SourceWasUsable, WasUsable, Removed
  <2>3. origin[d.backup] = "self"
    BY <1>1, <1>2 DEF Foreign, TypeOK, Instances
  <2>4. OpRead(d, s) # "Failed"
    BY <2>2, <2>3 DEF OpRead
  <2> QED BY <1>2, <2>1, <2>4
<1>3. CASE d.type # "Backup"
  BY <1>3 DEF StreamRead, Foreign
<1> QED BY <1>2, <1>3

(* A read of SyncRestore: what it has to establish.                        *)
LEMMA WorkerMoves ==
  ASSUME OutcomeInv, RestoreOnly, rs.pc # "idle", rs'.r = rs.r,
         rs'.pc \in {"whose", "operate"} => SourceWasUsable(ds),
         rs'.pc = "operate" /\ rs.r = Seed => OwnSource(ds),
         rs'.pc = "seeded" => rs.r = Seed /\ source # NoSource /\ ~OwnSource(source),
         rs'.pc = "report" =>
           /\ Underway(rs.r) => rs'.result \notin {"Succeeded", "Failed"}
           /\ restores[rs.r].cr = "live" /\ rs'.result = "Succeeded" =>
                \/ opRestore[rs.r].state = "succeeded"
                \/ rs.r = Seed /\ Foreign(source) /\ cluster.state # "absent"
  PROVE  (WorkerKnows /\ OperatorKnows /\ OutcomesAreReal)'
<1> USE DEF OutcomeInv, RestoreOnly, userVars
<1>0. UNCHANGED <<source, origin, cr, op, cluster, restores, opRestore>>
  OBVIOUS
<1>1. Open(rs.r)
  BY DEF WorkerKnows
<1>2. WorkerKnows'
  BY <1>0, <1>1 DEF WorkerKnows, SourceWasUsable, WasUsable, Removed, OwnSource, Foreign, Open, ds
<1>3. OperatorKnows'
  BY <1>0 DEF OperatorKnows, SourceWasUsable, WasUsable, Removed, OwnSource, Foreign
<1>4. OutcomesAreReal'
  BY <1>0 DEF OutcomesAreReal, Underway, Outcome, Open, Foreign
<1> QED BY <1>2, <1>3, <1>4

(* SyncRestore's worker: a failed or succeeded state is only reported when *)
(* no operator restore is under way, and success only if there was one or  *)
(* the bootstrap has seeded a cluster from the other Instance's data.      *)
LEMMA SyncRestoreKeepsOutcomes ==
  ASSUME OutcomeInv, BackupsLast, SeedStands, SyncKnows, Settled,
         RestoreStep \/ RestoreFail \/ \E r \in AllRestores : RestoreBegin(r)
  PROVE  (WorkerKnows /\ OperatorKnows /\ OutcomesAreReal)'
<1> USE DEF RestoreAt
<1>0. /\ TypeOK /\ rs \in RestoreWorkers /\ rs.r \in AllRestores /\ Seed \in AllRestores
      /\ restores \in [AllRestores -> Restores]
      /\ opRestore \in [AllRestores -> OpRestores]
      /\ ds \in SomeSource /\ ds = restores[rs.r].ds
  BY WorkerType, PartTypes DEF OutcomeInv, RestoreWorkers, Restores, ds, AllRestores
<1>1. opRestore[rs.r].state # "absent" => SourceWasUsable(ds) /\ ~Foreign(ds)
  BY <1>0 DEF OutcomeInv, OwnInv, OwnRepoOnly, OperatorKnows
<1>2. CASE RestoreReadsSource \/ RestoreReadsOp
  <2> DEFINE Reads(outcome, pc) ==
        /\ outcome \in {"usable", "Pending", "Failed"} /\ pc \in {"op", "whose"}
        /\ RestoreTo(outcome, pc)
        /\ outcome = "usable" /\ pc = "whose" => SourceWasUsable(ds)
        /\ opRestore[rs.r].state # "absent" => outcome # "Failed"
  <2>1. \E outcome, pc : Reads(outcome, pc)
    <3>1. CASE RestoreReadsSource /\ ds.type = "Backup"
      <4>1. Reads(BackupRead(ds), "op")
        BY <1>0, <1>1, <3>1, OutcomesAreStates, UsableNeverFails DEF RestoreReadsSource
      <4> QED BY <4>1
    <3>2. CASE RestoreReadsSource /\ ds.type # "Backup"
      <4>1. Reads(StreamRead(ds, isSeedingRestore, rs.listed), "whose")
        BY <1>0, <1>1, <3>2, OutcomesAreStates, UsableNeverFails
           DEF RestoreReadsSource, SourceWasUsable
      <4> QED BY <4>1
    <3>3. CASE RestoreReadsOp
      <4>1. ds.type = "Backup"
        BY <3>3 DEF RestoreReadsOp, OutcomeInv, OwnInv
      <4>2. OpRead(ds, isSeedingRestore) = "usable" => SourceWasUsable(ds)
        BY DEF OpRead, SourceWasUsable, WasUsable
      <4>3. Reads(OpRead(ds, isSeedingRestore), "whose")
        BY <1>0, <1>1, <3>3, <4>1, <4>2, OutcomesAreStates, UsableNeverFails DEF RestoreReadsOp
      <4> QED BY <4>3
    <3> QED BY <1>2, <3>1, <3>2, <3>3
  <2>2. PICK outcome, pc : Reads(outcome, pc)
    BY <2>1
  <2>3. rs'.r = rs.r /\ rs'.pc = (IF outcome = "usable" THEN pc ELSE "report")
    BY <1>0, <2>2, RestoreToTyped DEF States
  <2>4. outcome # "usable" => rs'.result = outcome
    BY <1>0, <2>2 DEF RestoreTo, RestoreWorkers
  <2>5. Underway(rs.r) => opRestore[rs.r].state # "absent"
    BY DEF Underway
  <2>6. rs.pc # "idle" /\ RestoreOnly
    BY <1>2 DEF RestoreReadsSource, RestoreReadsOp
  <2> QED BY <2>2, <2>3, <2>4, <2>5, <2>6, WorkerMoves
<1>3. CASE RestoreWhose
  <2>1. rs'.r = rs.r /\ rs'.pc = IF SeededByBootstrap THEN "seeded" ELSE "operate"
    BY <1>0, <1>3 DEF RestoreWhose, RestoreWorkers
  <2>2. SourceWasUsable(ds) /\ rs.pc # "idle" /\ RestoreOnly /\ Open(rs.r)
    BY <1>3 DEF RestoreWhose, OutcomeInv, WorkerKnows
  <2>3. rs.r = Seed => ds = source /\ source # NoSource
    BY <1>0, <2>2 DEF SeedStands, Open
  <2>4. rs.r = Seed => (OwnSource(ds) <=> dataSourceSourceInstance(ds) = "self")
    <3> SUFFICES ASSUME rs.r = Seed
                 PROVE  OwnSource(ds) <=> dataSourceSourceInstance(ds) = "self"
      OBVIOUS
    <3>1. CASE ds.type = "Backup"
      <4>1. PICK b \in Backup : ds = BackupSource(b)
        BY <1>0, <3>1 DEF SomeSource, Sources, NoSource, StreamSource
      <4>2. cr[b] \notin {"deleting", "gone"}
        BY <2>2, <2>3, <4>1 DEF SeedStands, BackupSource
      <4>3. cr[b] = "live"
        BY <2>2, <4>1, <4>2 DEF SourceWasUsable, WasUsable, Removed, BackupsLast, BackupSource
      <4>4. dataSourceSourceInstance(ds) = origin[b]
        BY <4>1, <4>3 DEF dataSourceSourceInstance, BackupSource
      <4>5. ds # StreamSource("none") /\ (Foreign(ds) <=> origin[b] = "other")
        BY <4>1 DEF StreamSource, BackupSource, Foreign
      <4> QED BY <1>0, <4>1, <4>4, <4>5 DEF OwnSource, TypeOK, Instances
    <3>2. CASE ds.type # "Backup"
      <4>1. PICK i \in Instances \cup {"none"} : ds = StreamSource(i)
        BY <1>0, <2>3, <3>2 DEF SomeSource, Sources, BackupSource
      <4> QED
        BY <4>1 DEF StreamSource, OwnSource, Foreign, dataSourceSourceInstance, Instances
    <3> QED BY <3>1, <3>2
  <2>5. rs'.pc = "seeded" => rs.r = Seed /\ source # NoSource /\ ~OwnSource(source)
    BY <2>1, <2>3, <2>4 DEF SeededByBootstrap, isSeedingRestore
  <2>6. rs'.pc = "operate" /\ rs.r = Seed => OwnSource(ds)
    BY <2>1, <2>3, <2>4 DEF SeededByBootstrap, isSeedingRestore
  <2> QED BY <2>1, <2>2, <2>5, <2>6, WorkerMoves
<1>4. CASE RestoreSeeded
  <2>1. rs.r = Seed /\ source # NoSource /\ ~OwnSource(source) /\ rs.pc # "idle"
    BY <1>4 DEF RestoreSeeded, OutcomeInv, WorkerKnows
  <2>2. ~Underway(rs.r)
    BY <1>0, <2>1 DEF OutcomeInv, OperatorKnows, Underway
  <2>3. rs'.r = rs.r /\ rs'.pc = "report" /\ rs'.result = seedingRestoreStatus
    BY <1>0, <1>4, OutcomesAreStates DEF RestoreSeeded, RestoreTo, RestoreWorkers, States
  <2>4. rs'.result = "Succeeded" => cluster.state # "absent"
    BY <2>3 DEF seedingRestoreStatus
  <2>5. cluster.state # "absent" => Foreign(source)
    BY <2>1 DEF OwnSource, SyncKnows
  <2> QED BY <1>4, <2>1, <2>2, <2>3, <2>4, <2>5, WorkerMoves DEF RestoreSeeded
<1>5. CASE RestoreOperates
  <2>1. /\ rs'.r = rs.r /\ rs'.pc = "report"
        /\ rs'.result = ReportedState(opRestore'[rs.r].state)
    BY <1>0, <1>5, OutcomesAreStates DEF RestoreOperates, RestoreTo, RestoreWorkers, States
  <2>2. Open(rs.r) /\ SourceWasUsable(ds) /\ (rs.r = Seed => OwnSource(ds))
    BY <1>5 DEF RestoreOperates, OutcomeInv, WorkerKnows
  <2>3. rs.r = Seed => ds = source
    BY <1>0, <2>2 DEF SeedStands, Open
  <2>4. UNCHANGED <<source, origin, cr, op, cluster, restores>>
    BY <1>5 DEF RestoreOperates, userVars
  <2>5. \A r \in AllRestores :
          \/ opRestore'[r] = opRestore[r]
          \/ r = rs.r /\ opRestore'[r] = [state |-> "new", ds |-> ds, deleting |-> FALSE]
    BY <1>0, <1>5 DEF RestoreOperates
  <2>6. opRestore'[rs.r].state # "absent"
    BY <1>0, <1>5 DEF RestoreOperates
  <2>7. WorkerKnows'
    BY <2>1, <2>2, <2>4 DEF WorkerKnows, Open
  <2>8. OperatorKnows'
    BY <1>0, <2>2, <2>3, <2>4, <2>5
       DEF OutcomeInv, OperatorKnows, SourceWasUsable, WasUsable, Removed, OwnSource, Foreign, Open
  <2>9. OutcomesAreReal'
    <3> SUFFICES ASSUME NEW r \in AllRestores
                 PROVE  /\ Underway(r)' => /\ Open(r) /\ ~Outcome(r, "Succeeded")'
                                           /\ ~Outcome(r, "Failed")'
                        /\ restores[r].cr = "live" /\ Outcome(r, "Succeeded")' =>
                             \/ opRestore'[r].state = "succeeded"
                             \/ r = Seed /\ Foreign(source) /\ cluster.state # "absent"
      BY <2>4 DEF OutcomesAreReal, Open, Foreign
    <3>1. CASE r = rs.r
      <4>1. restores[r].state \notin {"Succeeded", "Failed"}
        BY <2>2, <3>1 DEF Open
      <4>2. Underway(r)' => rs'.result \in {"Pending", "Running"}
        BY <2>1, <3>1 DEF Underway, ReportedState
      <4>3. rs'.result = "Succeeded" => opRestore'[r].state = "succeeded"
        BY <2>1, <3>1 DEF ReportedState
      <4> QED BY <2>2, <2>4, <3>1, <4>1, <4>2, <4>3 DEF Outcome
    <3>2. CASE r # rs.r
      <4>1. opRestore'[r] = opRestore[r]
        BY <2>5, <3>2
      <4> QED BY <2>1, <2>4, <3>2, <4>1 DEF OutcomeInv, OutcomesAreReal, Underway, Outcome
    <3> QED BY <3>1, <3>2
  <2> QED BY <2>7, <2>8, <2>9
<1>6. CASE RestoreReport
  <2>1. /\ rs.pc = "report" /\ rs'.pc = "idle"
        /\ UNCHANGED <<source, origin, cr, op, cluster, opRestore>>
    BY <1>6 DEF RestoreReport, RestoreIdle, userVars
  <2>2. \A r \in AllRestores :
          /\ restores'[r].cr = restores[r].cr /\ restores'[r].ds = restores[r].ds
          /\ restores'[r].state = IF r = rs.r THEN rs.result ELSE restores[r].state
    BY <1>0, <1>6 DEF RestoreReport, Restores
  <2>3. OperatorKnows'
    BY <2>1, <2>2 DEF OutcomeInv, OperatorKnows, SourceWasUsable, WasUsable, Removed, OwnSource,
      Foreign
  <2>4. OutcomesAreReal'
    <3> SUFFICES ASSUME NEW r \in AllRestores
                 PROVE  /\ Underway(r) => /\ Open(r)' /\ ~Outcome(r, "Succeeded")'
                                          /\ ~Outcome(r, "Failed")'
                        /\ restores'[r].cr = "live" /\ Outcome(r, "Succeeded")' =>
                             \/ opRestore[r].state = "succeeded"
                             \/ r = Seed /\ Foreign(source) /\ cluster.state # "absent"
      BY <2>1 DEF OutcomesAreReal, Underway, Foreign
    <3>1. \A s : Outcome(r, s)' => Outcome(r, s)
      BY <2>1, <2>2 DEF Outcome
    <3>2. Underway(r) => Open(r)'
      <4>1. rs.result \in {"none", "Pending", "Running", "Succeeded", "Failed"}
        BY <1>0 DEF RestoreWorkers, States
      <4>2. Underway(r) => Open(r) /\ ~Outcome(r, "Succeeded") /\ ~Outcome(r, "Failed")
        BY DEF OutcomeInv, OutcomesAreReal
      <4> QED BY <2>1, <2>2, <4>1, <4>2 DEF Open, Outcome
    <3> QED BY <2>2, <3>1, <3>2 DEF OutcomeInv, OutcomesAreReal
  <2> QED BY <2>1, <2>3, <2>4 DEF WorkerKnows
<1>7. CASE RestoreFail \/ \E r \in AllRestores : RestoreBegin(r)
  <2>1. UNCHANGED <<source, origin, cr, op, cluster, restores, opRestore>>
    BY <1>7 DEF RestoreFail, RestoreBegin, RestoreOnly, userVars
  <2>2. rs'.pc = "idle" \/ (rs'.pc = "source" /\ Open(rs'.r))
    <3>1. CASE RestoreFail
      BY <3>1 DEF RestoreFail, RestoreIdle
    <3>2. ASSUME NEW r \in AllRestores, RestoreBegin(r)
          PROVE  rs'.pc = "source" /\ Open(rs'.r)
      <4>1. rs' = [[RestoreIdle EXCEPT !.pc = "source", !.r = r] EXCEPT !.listed = listed]
        BY <3>2 DEF RestoreBegin
      <4>2. rs'.pc = "source" /\ rs'.r = r
        BY <4>1 DEF RestoreIdle
      <4> QED BY <3>2, <4>2 DEF RestoreBegin
    <3> QED BY <1>7, <3>1, <3>2
  <2>3. WorkerKnows'
    BY <2>1, <2>2 DEF WorkerKnows, Open
  <2>4. OperatorKnows'
    BY <2>1 DEF OutcomeInv, OperatorKnows, SourceWasUsable, WasUsable, Removed, OwnSource, Foreign
  <2>5. OutcomesAreReal'
    BY <2>1, <2>2 DEF OutcomeInv, OutcomesAreReal, Outcome, Underway, Open, Foreign
  <2> QED BY <2>3, <2>4, <2>5
<1> QED BY <1>2, <1>3, <1>4, <1>5, <1>6, <1>7 DEF RestoreStep

-----------------------------------------------------------------------------
(* The Seed, and what Sync has read.                                       *)

LEMMA SourceTyped ==
  ASSUME TypeOK
  PROVE  /\ source \in SomeSource
         /\ source.type = "Backup" => source.backup \in Backup
BY DEF TypeOK, SomeSource, Sources, NoSource, BackupSource, StreamSource

(* How the Seed may change: it is made for spec.dataSource, and reported   *)
(* on.  Nobody deletes it.                                                 *)
LEMMA SeedMoves ==
  ASSUME CarefulInv, [Next]_vars
  PROVE  \/ restores'[Seed] = restores[Seed]
         \/ Fresh(Seed) /\ restores'[Seed].ds = source /\ source # NoSource
         \/ /\ rs.pc = "report" /\ rs.r = Seed /\ Open(Seed)
            /\ restores'[Seed].cr = restores[Seed].cr /\ restores'[Seed].ds = restores[Seed].ds
            /\ restores'[Seed].state = rs.result /\ rs'.pc = "idle"
<1>0. restores \in [AllRestores -> Restores] /\ Seed \in AllRestores /\ Seed \notin Restore
  BY PartTypes, NamesAssumption DEF CarefulInv, OwnInv, AllRestores
<1>1. CASE ReconcileDataSource
  BY <1>0, <1>1 DEF ReconcileDataSource, Fresh
<1>2. CASE RestoreReport
  BY <1>0, <1>2 DEF RestoreReport, RestoreAt, RestoreIdle, Restores, CarefulInv, WorkerKnows
<1>3. ASSUME NEW r \in Restore, UserDeletesRestore(r) \/ \E d \in RestoreSources : UserRestores(r, d)
      PROVE  restores'[Seed] = restores[Seed]
  BY <1>0, <1>3 DEF UserDeletesRestore, UserRestores
<1>4. ASSUME NEW r \in AllRestores, CleanupRestore(r)
      PROVE  restores'[Seed] = restores[Seed]
  <2>1. r # Seed
    BY <1>4 DEF CleanupRestore, CarefulInv, SeedStands
  <2> QED BY <1>0, <1>4, <2>1 DEF CleanupRestore
<1>5. \/ UNCHANGED restores \/ ReconcileDataSource \/ RestoreReport
      \/ \E r \in Restore : UserDeletesRestore(r) \/ \E d \in RestoreSources : UserRestores(r, d)
      \/ \E r \in AllRestores : CleanupRestore(r)
  BY DEF Next, SyncStep, SyncBegin, SyncCheck, SyncExisting, SyncAbsent, SyncReadsSource,
     SyncReadsOp, SyncReadsInstance, SyncReadsStorage, SyncApply, SyncFail, SyncOnly,
     RestoreStep, RestoreFail, RestoreReadsSource, RestoreReadsOp, RestoreWhose,
     RestoreSeeded, RestoreOperates, RestoreBegin, RestoreOnly, OperatorReady, OperatorStep,
     OperatorStarts, OperatorEnds, OperatorRemoves, UserStep, BackupStep, BackupStarts,
     BackupEnds, BackupFails, BackupCleanup, backupRest, UserLists, UserBacksUp,
     UserDeletesBackup, OtherChanges, vars
<1> QED BY <1>1, <1>2, <1>3, <1>4, <1>5

(* How the Backup of the data source may be deleted: not while it is in    *)
(* use.                                                                    *)
LEMMA BackupsInUseStay ==
  ASSUME CarefulUsers, TypeOK, [Next]_vars, NEW b \in Backup,
         cr'[b] \in {"deleting", "gone"}, cr[b] \notin {"deleting", "gone"}
  PROVE  ~InUse(b) /\ UNCHANGED <<restores, rs, sync, cluster, op>>
<1>0. cr \in [Backup -> {"none", "live", "failed", "deleting", "gone"}]
  BY DEF TypeOK
<1>1. \E c \in Backup : BackupStep(c) \/ UserBacksUp(c) \/ UserDeletesBackup(c)
  BY DEF Next, SyncStep, SyncBegin, SyncCheck, SyncExisting, SyncAbsent, SyncReadsSource,
     SyncReadsOp, SyncReadsInstance, SyncReadsStorage, SyncApply, ReconcileDataSource, SyncFail,
     SyncOnly, RestoreStep, RestoreFail, RestoreReadsSource, RestoreReadsOp, RestoreWhose,
     RestoreSeeded, RestoreOperates, RestoreReport, RestoreBegin, CleanupRestore, RestoreOnly,
     OperatorStep, OperatorStarts, OperatorEnds, OperatorRemoves, OperatorReady, UserStep,
     UserLists, UserRestores, UserDeletesRestore, OtherChanges, userVars, vars
<1>2. PICK c \in Backup : BackupStep(c) \/ UserBacksUp(c) \/ UserDeletesBackup(c)
  BY <1>1
<1>3. c = b /\ UserDeletesBackup(b)
  BY <1>0, <1>2
     DEF BackupStep, BackupStarts, BackupEnds, BackupFails, BackupCleanup, UserBacksUp,
         UserDeletesBackup
<1> QED BY <1>3 DEF UserDeletesBackup, CarefulUsers, workerVars

(* The Seed is reported as failed for a hopeless source only.              *)
LEMMA SeedFailsHopeless ==
  ASSUME CarefulInv, [Next]_vars, source.type = "Backup", Foreign(source),
         Outcome(Seed, "Failed")'
  PROVE  Outcome(Seed, "Failed") \/ Hopeless(source.backup)
<1>0. /\ TypeOK /\ rs \in RestoreWorkers /\ rs.r \in AllRestores
      /\ source \in SomeSource /\ source.backup \in Backup /\ source # NoSource
      /\ restores \in [AllRestores -> Restores]
  BY WorkerType, PartTypes, SourceTyped DEF CarefulInv, OwnInv, RestoreWorkers, NoSource
<1>1. CASE restores'[Seed].state = "Failed"
  BY <1>1, SeedMoves DEF Fresh, Outcome
<1>2. CASE rs'.pc = "report" /\ rs'.r = Seed /\ rs'.result = "Failed" /\ rs' # rs
  <2>1. RestoreReadsSource \/ RestoreReadsOp \/ RestoreSeeded \/ RestoreOperates
    <3>1. ~(RestoreReport \/ RestoreFail \/ \E r \in AllRestores : RestoreBegin(r))
      <4>1. ASSUME NEW r \in AllRestores, RestoreBegin(r)
            PROVE  rs'.pc = "source"
        <5>1. rs' = [[RestoreIdle EXCEPT !.pc = "source", !.r = r] EXCEPT !.listed = listed]
          BY <4>1 DEF RestoreBegin
        <5> QED BY <5>1 DEF RestoreIdle
      <4>2. RestoreReport \/ RestoreFail => rs'.pc = "idle"
        BY DEF RestoreReport, RestoreFail, RestoreIdle
      <4> QED BY <1>2, <4>1, <4>2
    <3>2. ~RestoreWhose
      BY <1>0, <1>2 DEF RestoreWhose, RestoreWorkers
    <3> QED
      BY <1>2, <3>1, <3>2
      DEF Next, SyncStep, SyncBegin, SyncCheck, SyncExisting, SyncAbsent, SyncReadsSource,
       SyncReadsOp, SyncReadsInstance, SyncReadsStorage, SyncApply, ReconcileDataSource, SyncFail,
       SyncOnly, RestoreStep, CleanupRestore, OperatorStep, OperatorStarts, OperatorEnds,
       OperatorRemoves, OperatorReady, UserStep, UserLists, UserRestores, UserDeletesRestore,
       UserBacksUp, UserDeletesBackup, OtherChanges, BackupStep, BackupStarts, BackupEnds,
       BackupFails, BackupCleanup, backupRest, workerVars, vars
  <2>2. rs.r = Seed /\ Open(Seed) /\ ds = source
    <3>1. rs'.r = rs.r /\ rs.pc # "idle"
      BY <1>0, <2>1 DEF RestoreReadsSource, RestoreReadsOp, RestoreSeeded, RestoreOperates,
        RestoreTo, RestoreAt, RestoreWorkers
    <3> QED BY <1>2, <3>1 DEF CarefulInv, WorkerKnows, SeedStands, Open, ds
  <2>3. CASE RestoreReadsSource
    <3>1. RestoreTo(BackupRead(source), "op")
      BY <2>2, <2>3 DEF RestoreReadsSource
    <3>2. BackupRead(source) = "Failed"
      BY <1>0, <1>2, <3>1 DEF RestoreTo, RestoreWorkers, BackupRead
    <3> QED BY <3>2 DEF BackupRead, Hopeless
  <2>4. CASE RestoreReadsOp
    <3>1. RestoreTo(OpRead(source, TRUE), "whose")
      BY <1>0, <2>2, <2>4 DEF RestoreReadsOp, isSeedingRestore
    <3>2. OpRead(source, TRUE) = "Failed"
      BY <1>0, <1>2, <3>1 DEF RestoreTo, RestoreWorkers, OpRead
    <3> QED BY <3>2 DEF OpRead, Hopeless
  <2>5. CASE RestoreSeeded
    BY <1>0, <1>2, <2>5 DEF RestoreSeeded, RestoreTo, seedingRestoreStatus, RestoreWorkers
  <2>6. CASE RestoreOperates
    BY <2>2, <2>6 DEF RestoreOperates, RestoreAt, CarefulInv, WorkerKnows, OwnSource
  <2> QED BY <2>1, <2>3, <2>4, <2>5, <2>6
<1>3. CASE rs' = rs
  BY <1>1, <1>3 DEF Outcome
<1> QED BY <1>1, <1>2, <1>3 DEF Outcome

LEMMA SeedStandsStep ==
  ASSUME CarefulUsers, CarefulInv, [Next]_vars
  PROVE  SeedStands'
<1> DEFINE b == source.backup
<1>0. TypeOK /\ UNCHANGED <<source, origin>>
      /\ (source.type = "Backup" => b \in Backup /\ (Hopeless(b) => Hopeless(b)'))
  BY AllSettle, BackupsMove, SourceTyped DEF CarefulInv, OwnInv, Settled
<1>1. /\ restores'[Seed].cr # "none" =>
           restores'[Seed].cr = "live" /\ restores'[Seed].ds = source /\ source # NoSource
      /\ restores'[Seed].cr = "none" => restores'[Seed].state = "none"
  BY SeedMoves DEF CarefulInv, SeedStands, Fresh, Open
<1>2. (restores'[Seed].cr = "none" \/ Open(Seed)') => restores[Seed].cr = "none" \/ Open(Seed)
  BY SeedMoves DEF Fresh, Open
<1>3. ASSUME source.type = "Backup", restores'[Seed].cr = "none" \/ Open(Seed)'
      PROVE  cr'[b] \notin {"deleting", "gone"}
  <2>1. cr[b] \notin {"deleting", "gone"} /\ InUse(b)
    BY <1>2, <1>3 DEF CarefulInv, SeedStands, InUse
  <2> QED BY <1>0, <1>3, <2>1, BackupsInUseStay
<1>4. source.type = "Backup" /\ Foreign(source) /\ Outcome(Seed, "Failed")' => Hopeless(b)'
  BY <1>0, SeedFailsHopeless DEF CarefulInv, SeedStands
<1> QED BY <1>0, <1>1, <1>3, <1>4 DEF SeedStands, Foreign, Hopeless, Removed

(* A usable Backup of another Instance stays as long as there is no cluster *)
(* yet: the Seed has neither succeeded nor failed, so it is in use.        *)
LEMMA ForeignBackupStays ==
  ASSUME CarefulUsers, CarefulInv, [Next]_vars, source.type = "Backup", Foreign(source),
         cluster.state = "absent", op[source.backup] = "succeeded", cr[source.backup] = "live"
  PROVE  op'[source.backup] = "succeeded" /\ cr'[source.backup] = "live"
<1> DEFINE b == source.backup
<1>0. /\ b \in Backup /\ Seed \in AllRestores /\ restores[Seed] \in Restores
      /\ cr \in [Backup -> {"none", "live", "failed", "deleting", "gone"}]
      /\ op \in [Backup -> {"absent", "running", "succeeded", "failed"}]
  BY SourceTyped, PartTypes DEF CarefulInv, OwnInv, TypeOK, AllRestores
<1>1. InUse(b)
  <2>1. restores[Seed].cr # "none" /\ ~Open(Seed) =>
          restores[Seed].cr = "live" /\ restores[Seed].state \in {"Succeeded", "Failed"}
    BY <1>0 DEF CarefulInv, SeedStands, Open, Restores, States
  <2>2. ~Outcome(Seed, "Failed")
    BY DEF CarefulInv, SeedStands, Hopeless, Removed
  <2>3. opRestore[Seed].state = "absent"
    BY <1>0 DEF CarefulInv, OperatorKnows, OwnSource
  <2>4. restores[Seed].cr = "live" => restores[Seed].state # "Succeeded"
    BY <1>0, <2>3 DEF CarefulInv, OutcomesAreReal, Outcome
  <2> QED BY <2>1, <2>2, <2>4 DEF InUse, Outcome
<1>2. cr'[b] \notin {"deleting", "gone"}
  BY <1>0, <1>1, BackupsInUseStay DEF CarefulInv, OwnInv
<1>3. CASE UNCHANGED <<cr, op>>
  BY <1>3
<1>4. ASSUME NEW c \in Backup, BackupStep(c) \/ UserBacksUp(c) \/ UserDeletesBackup(c)
      PROVE  op'[b] = "succeeded" /\ cr'[b] = "live"
  BY <1>0, <1>2, <1>4
     DEF BackupStep, BackupStarts, BackupEnds, BackupFails, BackupCleanup, UserBacksUp,
         UserDeletesBackup
<1>5. \/ UNCHANGED <<cr, op>>
      \/ \E c \in Backup : BackupStep(c) \/ UserBacksUp(c) \/ UserDeletesBackup(c)
  BY DEF Next, SyncStep, SyncBegin, SyncCheck, SyncExisting, SyncAbsent, SyncReadsSource,
     SyncReadsOp, SyncReadsInstance, SyncReadsStorage, SyncApply, ReconcileDataSource, SyncFail,
     SyncOnly, RestoreStep, RestoreFail, RestoreReadsSource, RestoreReadsOp, RestoreWhose,
     RestoreSeeded, RestoreOperates, RestoreReport, RestoreBegin, CleanupRestore, RestoreOnly,
     OperatorStep, OperatorStarts, OperatorEnds, OperatorRemoves, OperatorReady, UserStep,
     UserLists, UserRestores, UserDeletesRestore, OtherChanges, userVars, vars
<1> QED BY <1>3, <1>4, <1>5

(* What Sync has read stays true while others act.                         *)
LEMMA OthersLeaveSync ==
  ASSUME CarefulUsers, CarefulInv, [Next]_vars, UNCHANGED sync
  PROVE  (SyncKnows /\ SeededFromSource)'
<1>0. UNCHANGED <<source, origin>> /\ TypeOK
  BY AllSettle DEF CarefulInv, OwnInv, Settled
<1>1. cluster'.from = cluster.from /\ (cluster'.state = "absent" <=> cluster.state = "absent")
  <2>0. cluster \in [state : {"absent", "initializing", "ready"}, archives : BOOLEAN,
                     from : Sources \cup {NoSource}]
        /\ sync \in SyncWorkers
    BY <1>0 DEF TypeOK, SyncWorkers, SomeSource
  <2>1. ~SyncApply
    BY <2>0 DEF SyncApply, SyncAt, SyncTo, SyncWorkers
  <2>2. cluster' = cluster \/ OperatorReady \/ \E r \in AllRestores : OperatorStarts(r)
    BY <2>1
       DEF Next, SyncStep, SyncBegin, SyncCheck, SyncExisting, SyncAbsent, SyncReadsSource,
       SyncReadsOp, SyncReadsInstance, SyncReadsStorage, ReconcileDataSource, SyncFail,
       SyncOnly, RestoreStep, RestoreFail, RestoreReadsSource, RestoreReadsOp, RestoreWhose,
       RestoreSeeded, RestoreOperates, RestoreReport, RestoreBegin, CleanupRestore, RestoreOnly,
       OperatorStep, OperatorEnds, OperatorRemoves, UserStep, BackupStep, BackupStarts, BackupEnds,
       BackupFails, BackupCleanup, backupRest, UserLists, UserRestores, UserDeletesRestore,
       UserBacksUp, UserDeletesBackup, OtherChanges, vars
  <2> QED BY <2>0, <2>2 DEF OperatorReady, OperatorStarts
<1>2. sync.pc \in {"instance", "storage"} /\ Foreign(source) /\ source.type = "Backup" =>
        op'[source.backup] = "succeeded" /\ cr'[source.backup] = "live"
  BY ForeignBackupStays DEF CarefulInv, SyncKnows
<1>3. SeededFromSource'
  BY <1>0, <1>1 DEF CarefulInv, SeededFromSource, Foreign
<1> QED BY <1>0, <1>1, <1>2, <1>3 DEF CarefulInv, SyncKnows, Foreign

(* Sync itself goes on with what is true.                                  *)
LEMMA SyncKeepsKnowing ==
  ASSUME CarefulInv, SyncStep \/ SyncFail
  PROVE  (SyncKnows /\ SeededFromSource)'
<1>0. /\ TypeOK /\ sync \in SyncWorkers /\ source \in SomeSource
      /\ (source.type = "Backup" => source.backup \in Backup)
      /\ cluster.from \in SomeSource
  BY PartTypes, SourceTyped DEF CarefulInv, OwnInv, TypeOK, SyncWorkers, SomeSource
<1>1. ~Foreign(NoSource) /\ NoSource # StreamSource("none")
  BY DEF Foreign, NoSource, StreamSource
<1>2. SyncKnows /\ SeededFromSource
  BY DEF CarefulInv
<1>3. CASE SyncBegin \/ SyncFail \/ ReconcileDataSource
  <2>1. sync'.pc \in {"idle", "check"} /\ UNCHANGED <<source, origin, cr, op, cluster>>
    BY <1>3 DEF SyncBegin, SyncFail, ReconcileDataSource, SyncOnly, SyncIdle, userVars
  <2> QED BY <1>2, <2>1 DEF SyncKnows, SeededFromSource, Foreign
<1>4. CASE SyncCheck \/ SyncAbsent
  <2>1. /\ UNCHANGED <<source, origin, cr, op, cluster>>
        /\ \/ sync'.pc \in {"datasource", "existing"}
           \/ sync'.pc = "source" /\ cluster.state = "absent" /\ source # NoSource
    BY <1>0, <1>4 DEF SyncCheck, SyncAbsent, SyncOnly, SyncTo, SyncWorkers, userVars
  <2> QED BY <1>2, <2>1 DEF SyncKnows, SeededFromSource, Foreign
<1>5. CASE SyncExisting
  <2>1. /\ UNCHANGED <<source, origin, cr, op, cluster>>
        /\ sync'.pc = "apply" /\ sync'.from = cluster.from
        /\ cluster.state # "absent" \/ source = NoSource
    BY <1>0, <1>5 DEF SyncExisting, SyncOnly, SyncWorkers, userVars
  <2> QED BY <1>1, <1>2, <2>1 DEF SyncKnows, SeededFromSource, Foreign
<1>6. CASE SyncReadsSource
  <2>1. /\ UNCHANGED <<source, origin, cr, op, cluster>>
        /\ cluster.state = "absent" /\ source # NoSource
    BY <1>2, <1>6 DEF SyncReadsSource, SyncAt, SyncOnly, SyncKnows, userVars
  <2>2. \/ sync'.pc = "idle"
        \/ sync'.pc = "op" /\ source.type = "Backup"
        \/ /\ sync'.pc = "instance" /\ source.type # "Backup"
           /\ StreamRead(source, TRUE, sync.listed) = "usable"
    BY <1>0, <1>6 DEF SyncReadsSource, SyncTo, SyncAfter, SyncWorkers
  <2>3. StreamRead(StreamSource("none"), TRUE, sync.listed) # "usable"
    BY <2>1 DEF StreamRead, StreamSource
  <2> QED BY <1>2, <2>1, <2>2, <2>3 DEF SyncKnows, SeededFromSource, Foreign, StreamSource
<1>7. CASE SyncReadsOp
  <2>1. /\ UNCHANGED <<source, origin, cr, op, cluster>>
        /\ cluster.state = "absent" /\ source # NoSource /\ source.type = "Backup"
    BY <1>2, <1>7 DEF SyncReadsOp, SyncAt, SyncOnly, SyncKnows, userVars
  <2>2. \/ sync'.pc = "idle"
        \/ sync'.pc = "instance" /\ OpRead(source, TRUE) = "usable"
    BY <1>0, <1>7 DEF SyncReadsOp, SyncTo, SyncAfter, SyncWorkers
  <2>3. OpRead(source, TRUE) = "usable" => op[source.backup] = "succeeded"
    BY DEF OpRead
  <2>4. ASSUME Foreign(source), op[source.backup] = "succeeded"
        PROVE  cr[source.backup] = "live"
    <3>1. cr[source.backup] \in {"live", "deleting"}
      BY <1>0, <2>1, <2>4 DEF CarefulInv, BackupsLast
    <3>2. ~Outcome(Seed, "Failed")
      BY <2>1, <2>4, <3>1 DEF CarefulInv, SeedStands, Hopeless, Removed
    <3>3. Seed \in AllRestores /\ restores[Seed] \in Restores
      BY <1>0, PartTypes DEF AllRestores
    <3>4. opRestore[Seed].state = "absent"
      BY <2>4, <3>3 DEF CarefulInv, OperatorKnows, OwnSource
    <3>5. restores[Seed].cr = "live" => restores[Seed].state # "Succeeded"
      BY <2>1, <3>3, <3>4 DEF CarefulInv, OutcomesAreReal, Outcome
    <3>6. restores[Seed].cr = "none" \/ Open(Seed)
      BY <3>2, <3>3, <3>5 DEF CarefulInv, SeedStands, Outcome, Open, Restores, States
    <3> QED BY <2>1, <3>1, <3>6 DEF CarefulInv, SeedStands
  <2>5. sync'.pc = "instance" /\ Foreign(source) =>
          op'[source.backup] = "succeeded" /\ cr'[source.backup] = "live"
    BY <2>1, <2>2, <2>3, <2>4
  <2>6. source # StreamSource("none")
    BY <2>1 DEF StreamSource
  <2> QED BY <1>2, <2>1, <2>2, <2>5, <2>6 DEF SyncKnows, SeededFromSource, Foreign
<1>8. CASE SyncReadsInstance
  <2>1. /\ UNCHANGED <<source, origin, cr, op, cluster>> /\ sync.pc = "instance"
        /\ cluster.state = "absent" /\ source # NoSource /\ source # StreamSource("none")
    BY <1>2, <1>8 DEF SyncReadsInstance, SyncAt, SyncOnly, SyncKnows, userVars
  <2>2. \/ sync'.pc \in {"idle", "storage"}
        \/ sync'.pc = "apply" /\ dataSourceSourceInstance(source) # "other"
    BY <1>0, <1>8 DEF SyncReadsInstance, SyncTo, SyncWorkers
  <2>3. Foreign(source) => dataSourceSourceInstance(source) = "other"
    <3>1. CASE source.type = "Backup"
      BY <1>2, <2>1, <3>1 DEF SyncKnows, Foreign, dataSourceSourceInstance
    <3>2. CASE source.type # "Backup"
      BY <1>0, <1>1, <2>1, <3>2
         DEF Foreign, dataSourceSourceInstance, SomeSource, Sources, BackupSource, StreamSource
    <3> QED BY <3>1, <3>2
  <2> QED BY <1>2, <2>1, <2>2, <2>3 DEF SyncKnows, SeededFromSource, Foreign
<1>9. CASE SyncReadsStorage
  <2>1. /\ UNCHANGED <<source, origin, cr, op, cluster>>
        /\ cluster.state = "absent" /\ source # NoSource /\ source # StreamSource("none")
    BY <1>2, <1>9 DEF SyncReadsStorage, SyncAt, SyncOnly, SyncKnows, userVars
  <2>2. sync'.pc = "idle" \/ (sync'.pc = "apply" /\ sync'.from = source)
    BY <1>0, <1>9 DEF SyncReadsStorage, SyncIdle, SyncWorkers
  <2> QED BY <1>2, <2>1, <2>2 DEF SyncKnows, SeededFromSource, Foreign
<1>10. CASE SyncApply
  <2>1. /\ UNCHANGED <<source, origin, cr, op>> /\ sync.pc = "apply"
        /\ sync'.pc = "datasource" /\ cluster'.from = sync.from
    BY <1>0, <1>10 DEF SyncApply, SyncAt, SyncTo, SyncWorkers, userVars
  <2> QED BY <1>2, <2>1 DEF SyncKnows, SeededFromSource, Foreign
<1> QED
  BY <1>3, <1>4, <1>5, <1>6, <1>7, <1>8, <1>9, <1>10 DEF SyncStep

-----------------------------------------------------------------------------

LEMMA InitCareful == Init => CarefulInv
<1> SUFFICES ASSUME Init PROVE CarefulInv
  OBVIOUS
<1>0. Seed \in AllRestores
  BY DEF AllRestores
<1>1. OwnInv /\ TypeOK
  BY InitOwn, InitTypes
<1>2. BackupsLast
  BY DEF Init, BackupsLast
<1>3. WorkerKnows /\ OperatorKnows /\ OutcomesAreReal
  BY DEF Init, RestoreIdle, NoOpRestore, NoRestore, WorkerKnows, OperatorKnows, OutcomesAreReal,
    Underway, Outcome
<1>4. SeedStands
  <2>1. source.type = "Backup" => cr[source.backup] \in {"none", "live"}
    BY <1>1, SourceTyped DEF Init
  <2> QED
    BY <1>0, <2>1 DEF Init, NoRestore, RestoreIdle, SeedStands, Outcome
<1>5. SyncKnows /\ SeededFromSource
  BY DEF Init, NoCluster, SyncIdle, SyncKnows, SeededFromSource
<1> QED BY <1>1, <1>2, <1>3, <1>4, <1>5 DEF CarefulInv

LEMMA CarefulInvStep ==
  ASSUME CarefulUsers, CarefulInv, [Next]_vars
  PROVE  CarefulInv'
<1>0. OwnInv' /\ BackupsLast' /\ Settled /\ OutcomeInv
  BY OwnInvStep, BackupsMove, AllSettle DEF CarefulInv, OwnInv, OutcomeInv
<1>1. (WorkerKnows /\ OperatorKnows /\ OutcomesAreReal)'
  <2>1. CASE UNCHANGED vars
    <3>1. UNCHANGED <<source, origin, cr, op, cluster, restores, opRestore, rs>>
      BY <2>1 DEF vars
    <3> QED
      BY <1>0, <3>1 DEF OutcomeInv, WorkerKnows, OperatorKnows, OutcomesAreReal, SourceWasUsable,
        WasUsable, Removed, OwnSource, Foreign, Open, Underway, Outcome, ds
  <2>2. CASE RestoreStep \/ RestoreFail \/ \E r \in AllRestores : RestoreBegin(r)
    BY <1>0, <2>2, SyncRestoreKeepsOutcomes DEF CarefulInv
  <2>3. CASE \/ SyncStep \/ SyncFail \/ OperatorReady \/ UserStep
             \/ \E r \in AllRestores : CleanupRestore(r) \/ OperatorStep(r)
             \/ \E b \in Backup : BackupStep(b)
    BY <1>0, <2>3, OthersKeepOutcomes
  <2> QED BY <2>1, <2>2, <2>3, Zenon DEF Next
<1>2. SeedStands'
  BY SeedStandsStep
<1>3. (SyncKnows /\ SeededFromSource)'
  <2>1. CASE SyncStep \/ SyncFail
    BY <2>1, SyncKeepsKnowing
  <2>2. CASE ~(SyncStep \/ SyncFail)
    <3>1. UNCHANGED sync
      BY <2>2
      DEF Next, RestoreStep, RestoreFail, RestoreReadsSource, RestoreReadsOp, RestoreWhose,
       RestoreSeeded, RestoreOperates, RestoreReport, RestoreBegin, CleanupRestore, RestoreOnly,
       OperatorStep, OperatorStarts, OperatorEnds, OperatorRemoves, OperatorReady, UserStep,
       UserLists, UserRestores, UserDeletesRestore, UserBacksUp, UserDeletesBackup, OtherChanges,
       BackupStep, BackupStarts, BackupEnds, BackupFails, BackupCleanup, backupRest, workerVars,
       vars
    <3> QED BY <3>1, OthersLeaveSync
  <2> QED BY <2>1, <2>2
<1> QED BY <1>0, <1>1, <1>2, <1>3 DEF CarefulInv

LEMMA CarefulInvHolds ==
  ASSUME CarefulUsers
  PROVE  Spec => []CarefulInv
<1>1. CarefulInv /\ [Next]_vars => CarefulInv'
  BY CarefulInvStep
<1> QED BY InitCareful, <1>1, PTL DEF Spec

(* While the operator restores, the restore check of Sync sees the Restore *)
(* (provider.go:434): however the reads of SyncRestore and everybody else's *)
(* steps mix, it is neither reported as ended nor gone.                    *)
THEOREM OperatorRestoresAreSeen ==
  ASSUME CarefulUsers
  PROVE  Spec => []RestoreIsSeen
<1>1. CarefulInv => RestoreIsSeen
  BY DEF CarefulInv, OutcomesAreReal, Underway, RestoreIsSeen, Operating
<1> QED BY CarefulInvHolds, <1>1, PTL

(* A cluster whose Instance names another Instance's data has started from *)
(* that data (datasource.go:199-202), although Sync reads the source in    *)
(* four steps and Backups come, fail and go between them.                  *)
THEOREM ClustersStartFromTheirSource ==
  ASSUME CarefulUsers
  PROVE  Spec => []SeededFromSource
<1>1. CarefulInv => SeededFromSource
  BY DEF CarefulInv
<1> QED BY CarefulInvHolds, <1>1, PTL

(* A Restore reported as Succeeded has put its source's data in place: the *)
(* operator's restore of that very source has succeeded, or the cluster    *)
(* was bootstrapped from it (backup.go:281-289, 332-334).                  *)
THEOREM SuccessesAreReal ==
  ASSUME CarefulUsers
  PROVE  Spec => []SuccessIsReal
<1>1. CarefulInv => SuccessIsReal
  <2> SUFFICES ASSUME CarefulInv, NEW r \in AllRestores, restores[r].cr = "live",
                      restores[r].state = "Succeeded"
               PROVE  \/ opRestore[r].state = "succeeded" /\ opRestore[r].ds = restores[r].ds
                      \/ cluster.state # "absent" /\ cluster.from = restores[r].ds
    BY DEF SuccessIsReal
  <2>1. \/ opRestore[r].state = "succeeded"
        \/ r = Seed /\ Foreign(source) /\ cluster.state # "absent"
    BY DEF CarefulInv, OutcomesAreReal, Outcome
  <2>2. opRestore[r].state = "succeeded" => opRestore[r].ds = restores[r].ds
    BY DEF CarefulInv, OperatorKnows
  <2>3. r = Seed /\ Foreign(source) /\ cluster.state # "absent" =>
          cluster.from = restores[r].ds
    BY DEF CarefulInv, SeedStands, SeededFromSource
  <2> QED BY <2>1, <2>2, <2>3
<1> QED BY CarefulInvHolds, <1>1, PTL

-----------------------------------------------------------------------------
(* The refinement: RestoreLifecycle implements RestoreContract.            *)

(* CarefulInv does not say enough about Restores that are deleted: the     *)
(* operator's restore of one is deleted only while no SyncRestore is at    *)
(* it, which would make it again, and is gone before the Restore goes.     *)
DeletedSettle ==
  \A r \in AllRestores :
    /\ restores[r].cr = "none" => restores[r] = NoRestore
    /\ restores[r].cr = "gone" => opRestore[r].state = "absent"
    /\ opRestore[r].deleting => opRestore[r].state # "absent" /\ ~Serves(r)

ContractInv == CarefulInv /\ DeletedSettle

(* A step concerns one Restore at most.                                    *)
OnlyFor(r) ==
  \A q \in AllRestores \ {r} :
    /\ restores'[q] = restores[q] /\ opRestore'[q] = opRestore[q]
    /\ Serves(q)' = Serves(q)

LEMMA ContractTypes ==
  ASSUME ContractInv
  PROVE  /\ TypeOK /\ rs \in RestoreWorkers /\ rs.r \in AllRestores /\ Seed \in AllRestores
         /\ restores \in [AllRestores -> Restores]
         /\ opRestore \in [AllRestores -> OpRestores]
BY WorkerType, PartTypes DEF ContractInv, CarefulInv, OwnInv, RestoreWorkers, AllRestores

(* What a step that concerns r is to the user of r.                        *)
LEMMA OneChanges ==
  ASSUME NEW r \in AllRestores, OnlyFor(r)
  PROVE  /\ Lives' = [Lives EXCEPT ![r] = restores'[r].cr]
         /\ Asked' = [Asked EXCEPT ![r] = restores'[r].ds]
         /\ Told' = [Told EXCEPT ![r] = restores'[r].state]
         /\ Effects' = [Effects EXCEPT ![r] = Effect(r)']
         /\ restores'[r].cr = restores[r].cr => Lives' = Lives
         /\ restores'[r].ds = restores[r].ds => Asked' = Asked
         /\ restores'[r].state = restores[r].state => Told' = Told
         /\ Effect(r)' = Effect(r) => Effects' = Effects
<1>1. \A q \in AllRestores \ {r} :
        restores'[q] = restores[q] /\ Effect(q)' = Effect(q)
  BY DEF OnlyFor, Effect
<1> QED BY <1>1 DEF Lives, Asked, Told, Effects

LEMMA ContractValues ==
  \A r \in AllRestores :
    /\ Lives[r] = restores[r].cr /\ Asked[r] = restores[r].ds /\ Told[r] = restores[r].state
    /\ Effects[r] = Effect(r)
BY DEF Lives, Asked, Told, Effects

(* Steps that are nothing to users of Restores.                            *)
LEMMA NothingForUsers ==
  ASSUME UNCHANGED <<restores, opRestore, rs>>, Bootstrap' = Bootstrap
  PROVE  UNCHANGED Contract!cvars
BY DEF Contract!cvars, Lives, Asked, Told, Effects, Effect, Serves

(* The cluster keeps what it was created from.                             *)
LEMMA ClusterStays ==
  ASSUME UNCHANGED cluster
  PROVE  Bootstrap' = Bootstrap
BY DEF Bootstrap

LEMMA ContractSync ==
  ASSUME ContractInv, SyncStep \/ SyncFail
  PROVE  [Contract!Next]_Contract!cvars
<1> USE DEF userVars
<1>0. Seed \in AllRestores /\ restores \in [AllRestores -> Restores]
  BY ContractTypes
<1>1. CASE SyncOnly \/ SyncFail
  <2>1. UNCHANGED <<restores, opRestore, rs, cluster>>
    BY <1>1 DEF SyncOnly, SyncFail
  <2> QED BY <2>1, ClusterStays, NothingForUsers
<1>2. CASE SyncApply
  <2>1. UNCHANGED <<restores, opRestore, rs>> /\ sync.pc = "apply"
    BY <1>2 DEF SyncApply, SyncAt
  <2>2. Lives' = Lives /\ Asked' = Asked /\ Told' = Told /\ Effects' = Effects
    BY <2>1 DEF Lives, Asked, Told, Effects, Effect, Serves
  <2>3. Bootstrap' = {sync.from}
    BY <1>2 DEF SyncApply, Bootstrap
  <2>4. CASE cluster.state = "absent"
    <3>1. sync.from \in Sources \cup {NoSource}
      BY DEF ContractInv, CarefulInv, OwnInv, TypeOK
    <3>2. Contract!Create(sync.from)
      BY <2>2, <2>3, <2>4 DEF Contract!Create, Bootstrap
    <3> QED BY <3>1, <3>2 DEF Contract!Next
  <2>5. CASE cluster.state # "absent"
    <3>1. Bootstrap' = Bootstrap
      BY <2>1, <2>3, <2>5 DEF ContractInv, CarefulInv, SyncKnows, Bootstrap
    <3> QED BY <2>1, <3>1, NothingForUsers
  <2> QED BY <2>4, <2>5
<1>3. CASE ReconcileDataSource
  <2>1. UNCHANGED <<opRestore, rs, cluster>> /\ Bootstrap' = Bootstrap
    BY <1>3, ClusterStays DEF ReconcileDataSource
  <2>2. CASE restores' = restores
    BY <2>1, <2>2, NothingForUsers
  <2>3. CASE restores' # restores
    <3>1. /\ source # NoSource /\ restores[Seed].cr = "none"
          /\ restores' = [restores EXCEPT ![Seed] = [cr |-> "live", ds |-> source, state |-> "none"]]
      BY <1>3, <2>3 DEF ReconcileDataSource
    <3>2. OnlyFor(Seed)
      BY <1>0, <2>1, <3>1 DEF OnlyFor, Serves
    <3>3. restores'[Seed] = [cr |-> "live", ds |-> source, state |-> "none"]
          /\ restores[Seed].state = "none" /\ opRestore[Seed].state = "absent"
      BY <1>0, <3>1 DEF ContractInv, CarefulInv, OperatorKnows, DeletedSettle, NoRestore
    <3>4. Effect(Seed)' = Effect(Seed)
      BY <2>1, <3>1, <3>3 DEF Effect
    <3>5. Contract!Ask(Seed, source)
      BY <1>0, <2>1, <3>1, <3>2, <3>3, <3>4, OneChanges, ContractValues DEF Contract!Ask
    <3>6. source \in Sources
      BY <3>1 DEF ContractInv, CarefulInv, OwnInv, TypeOK
    <3> QED BY <1>0, <3>5, <3>6 DEF Contract!Next
  <2> QED BY <2>2, <2>3
<1>4. SyncOnly \/ SyncFail \/ SyncApply \/ ReconcileDataSource
  BY Zenon DEF SyncStep, SyncBegin, SyncCheck, SyncExisting, SyncAbsent, SyncReadsSource,
     SyncReadsOp, SyncReadsInstance, SyncReadsStorage
<1> QED BY <1>1, <1>2, <1>3, <1>4

(* SyncRestore: reads are nothing to users, a report is final and true.    *)
LEMMA ContractWorker ==
  ASSUME ContractInv, RestoreStep \/ RestoreFail \/ \E r \in AllRestores : RestoreBegin(r)
  PROVE  [Contract!Next]_Contract!cvars
<1> USE DEF userVars, RestoreAt
<1>0. /\ rs \in RestoreWorkers /\ rs.r \in AllRestores
      /\ restores \in [AllRestores -> Restores] /\ opRestore \in [AllRestores -> OpRestores]
  BY ContractTypes
<1>1. UNCHANGED cluster /\ Bootstrap' = Bootstrap
  <2>1. UNCHANGED cluster
    BY DEF RestoreStep, RestoreFail, RestoreReadsSource, RestoreReadsOp, RestoreWhose,
       RestoreSeeded, RestoreOperates, RestoreReport, RestoreBegin, RestoreOnly
  <2> QED BY <2>1, ClusterStays
<1>2. ASSUME NEW r \in AllRestores, RestoreBegin(r)
      PROVE  UNCHANGED Contract!cvars
  <2>1. /\ rs.pc = "idle" /\ rs'.r = r /\ restores[r].cr = "live"
        /\ UNCHANGED <<restores, opRestore>>
    BY <1>2 DEF RestoreBegin, RestoreOnly, RestoreIdle
  <2>2. OnlyFor(r)
    BY <2>1 DEF OnlyFor, Serves
  <2>3. Effect(r)' = Effect(r)
    BY <2>1 DEF Effect
  <2> QED BY <1>1, <2>1, <2>2, <2>3, OneChanges DEF Contract!cvars
<1>3. CASE RestoreReadsSource \/ RestoreReadsOp \/ RestoreWhose \/ RestoreSeeded
  <2>1. UNCHANGED <<restores, opRestore>> /\ rs.pc # "idle" /\ rs'.pc # "idle" /\ rs'.r = rs.r
    BY <1>0, <1>3 DEF RestoreReadsSource, RestoreReadsOp, RestoreWhose, RestoreSeeded, RestoreTo,
       RestoreOnly, RestoreWorkers
  <2>2. \A q \in AllRestores : Serves(q)' = Serves(q)
    BY <2>1 DEF Serves
  <2>3. Effects' = Effects /\ Lives' = Lives /\ Asked' = Asked /\ Told' = Told
    BY <2>1, <2>2 DEF Effects, Effect, Lives, Asked, Told
  <2> QED BY <1>1, <2>3 DEF Contract!cvars
<1>4. CASE RestoreOperates
  <2>0. PICK r \in AllRestores : r = rs.r
    BY <1>0
  <2>1. UNCHANGED restores /\ rs.pc # "idle" /\ rs'.pc # "idle" /\ rs'.r = rs.r
    BY <1>0, <1>4 DEF RestoreOperates, RestoreTo, RestoreWorkers
  <2>2. \A q \in AllRestores : Serves(q)' = Serves(q)
    BY <2>1 DEF Serves
  <2>3. Effect(r)' = Effect(r) /\ OnlyFor(r)
    <3>1. \/ opRestore' = opRestore
          \/ /\ opRestore[r].state = "absent"
             /\ opRestore' = [opRestore EXCEPT ![r] =
                                [state |-> "new", ds |-> ds, deleting |-> FALSE]]
      BY <1>4, <2>0 DEF RestoreOperates
    <3>2. Serves(r) /\ Serves(r)'
      BY <2>0, <2>1 DEF Serves
    <3>3. opRestore'[r].state = opRestore[r].state
          \/ (opRestore[r].state = "absent" /\ opRestore'[r].state = "new")
      BY <1>0, <3>1
    <3>4. Effect(r)' = Effect(r)
      BY <2>1, <3>2, <3>3 DEF Effect, Serves
    <3>5. OnlyFor(r)
      BY <1>0, <2>1, <2>2, <3>1 DEF OnlyFor
    <3> QED BY <3>4, <3>5
  <2> QED BY <1>0, <1>1, <2>1, <2>3, OneChanges DEF Contract!cvars
<1>5. CASE RestoreReport \/ RestoreFail
  <2>0. PICK r \in AllRestores, s \in {rs.result} : r = rs.r /\ s = rs.result
    BY <1>0
  <2>1. /\ UNCHANGED opRestore /\ rs' = RestoreIdle /\ rs.pc # "idle"
        /\ \/ RestoreFail /\ UNCHANGED restores
           \/ /\ RestoreReport /\ rs.pc = "report"
              /\ restores' = [restores EXCEPT ![r].state = s]
    BY <1>5, <2>0 DEF RestoreReport, RestoreFail
  <2>2. OnlyFor(r) /\ Serves(r) /\ ~Serves(r)'
    <3>1. \A q \in AllRestores \ {r} : restores'[q] = restores[q]
      BY <1>0, <2>1
    <3> QED BY <2>0, <2>1, <3>1 DEF OnlyFor, Serves, RestoreIdle
  <2>3. /\ restores'[r].cr = restores[r].cr /\ restores'[r].ds = restores[r].ds
        /\ RestoreReport => restores'[r].state = s
        /\ RestoreFail => UNCHANGED restores
    <3>1. RestoreFail => UNCHANGED restores
      BY DEF RestoreFail
    <3>2. RestoreReport => restores' = [restores EXCEPT ![r].state = s]
      BY <2>0 DEF RestoreReport
    <3>3. restores[r] \in Restores
      BY <1>0
    <3> QED BY <1>0, <1>5, <3>1, <3>2, <3>3 DEF Restores
  <2>4. Open(r)
    BY <2>0, <2>1 DEF ContractInv, CarefulInv, WorkerKnows
  <2>5. Effects' = Effects
        \/ (Effects' = [Effects EXCEPT ![r] = "over"] /\ Lives'[r] = "deleting")
    <3>1. Effect(r)' = Effect(r) \/ (Effect(r)' = "over" /\ restores[r].cr = "deleting")
      <4>1. opRestore'[r].state = opRestore[r].state
        BY <2>1
      <4> QED BY <2>2, <2>3, <2>4, <4>1 DEF Effect, Open
    <3>2. Lives'[r] = restores'[r].cr
      BY <1>0 DEF Lives
    <3> QED BY <1>0, <2>2, <2>3, <3>1, <3>2, OneChanges
  <2>6. Lives' = Lives /\ Asked' = Asked /\ (RestoreReport => Told' = [Told EXCEPT ![r] = s])
        /\ (RestoreFail => Told' = Told)
    BY <1>0, <2>2, <2>3, OneChanges
  <2>7. CASE RestoreFail
    <3>1. Contract!Settle(r) \/ UNCHANGED Contract!cvars
      BY <1>1, <2>5, <2>6, <2>7 DEF Contract!Settle, Contract!Settled, Contract!cvars
    <3> QED BY <1>0, <3>1 DEF Contract!Next
  <2>8. CASE RestoreReport
    <3>1. rs.pc = "report" /\ Outcome(r, s)
      BY <2>0, <2>8 DEF RestoreReport, Outcome
    <3>2. Told[r] \notin Contract!Ends
      BY <1>0, <2>4, ContractValues DEF Open, Contract!Ends
    <3>3. s = "Succeeded" /\ Lives[r] = "live" => Effects[r] = "done" \/ Bootstrap = {Asked[r]}
      <4> SUFFICES ASSUME s = "Succeeded", restores[r].cr = "live"
                   PROVE  Effect(r) = "done" \/ Bootstrap = {restores[r].ds}
        BY <1>0, ContractValues
      <4>1. \/ opRestore[r].state = "succeeded"
            \/ r = Seed /\ Foreign(source) /\ cluster.state # "absent"
        BY <1>0, <3>1 DEF ContractInv, CarefulInv, OutcomesAreReal
      <4>2. CASE opRestore[r].state = "succeeded"
        BY <4>2 DEF Effect
      <4>3. CASE r = Seed /\ Foreign(source) /\ cluster.state # "absent"
        BY <4>3 DEF ContractInv, CarefulInv, SeedStands, SeededFromSource, Bootstrap
      <4> QED BY <4>1, <4>2, <4>3
    <3>4. s = "Failed" => Effects[r] # "running"
      <4>1. s = "Failed" => opRestore[r].state # "running"
        BY <1>0, <3>1 DEF ContractInv, CarefulInv, OutcomesAreReal, Underway
      <4> QED BY <1>0, <4>1, ContractValues DEF Effect
    <3>5. Contract!Tell(r, s)
      BY <1>1, <2>5, <2>6, <2>8, <3>2, <3>3, <3>4 DEF Contract!Tell, Contract!Settled
    <3>6. s \in {"none", "Pending", "Running"} \cup Contract!Ends
      BY <1>0, <2>0 DEF RestoreWorkers, States, Contract!Ends
    <3> QED BY <1>0, <3>5, <3>6 DEF Contract!Next
  <2> QED BY <1>5, <2>7, <2>8
<1> QED BY <1>2, <1>3, <1>4, <1>5 DEF RestoreStep


(* The operator and CleanupRestore.                                        *)
LEMMA ContractOperator ==
  ASSUME ContractInv, NEW r \in AllRestores, OperatorStep(r) \/ CleanupRestore(r)
  PROVE  [Contract!Next]_Contract!cvars
<1> USE DEF userVars, workerVars
<1>0. /\ restores \in [AllRestores -> Restores] /\ opRestore \in [AllRestores -> OpRestores]
      /\ restores[r] \in Restores /\ opRestore[r] \in OpRestores
  BY ContractTypes
<1>1. UNCHANGED rs /\ \A q \in AllRestores : Serves(q)' = Serves(q)
  BY DEF OperatorStep, OperatorStarts, OperatorEnds, OperatorRemoves, CleanupRestore, Serves
<1>2. Bootstrap' = Bootstrap
  <2>1. CASE OperatorStarts(r)
    <3>1. cluster' = [cluster EXCEPT !.state = "initializing"] /\ cluster.state = "ready"
      BY <2>1 DEF OperatorStarts
    <3>2. cluster'.from = cluster.from /\ cluster'.state = "initializing"
      BY <3>1, ContractTypes DEF TypeOK
    <3> QED BY <3>1, <3>2 DEF Bootstrap
  <2>2. CASE ~OperatorStarts(r)
    <3>1. UNCHANGED cluster
      BY <2>2 DEF OperatorStep, OperatorEnds, OperatorRemoves, CleanupRestore
    <3> QED BY <3>1, ClusterStays
  <2> QED BY <2>1, <2>2
<1>3. CASE OperatorStarts(r) \/ OperatorEnds(r)
  <2>1. \/ opRestore[r].state = "new" /\ opRestore' = [opRestore EXCEPT ![r].state = "running"]
        \/ /\ opRestore[r].state = "running"
           /\ \E s \in {"succeeded", "failed"} : opRestore' = [opRestore EXCEPT ![r].state = s]
    BY <1>3 DEF OperatorStarts, OperatorEnds, Operating
  <2>2. UNCHANGED restores
    BY <1>3 DEF OperatorStarts, OperatorEnds
  <2>3. OnlyFor(r)
    BY <1>0, <1>1, <2>1, <2>2 DEF OnlyFor
  <2>4. /\ Lives' = Lives /\ Asked' = Asked /\ Told' = Told
        /\ Effects' = [Effects EXCEPT ![r] = Effect(r)']
    BY <2>2, <2>3, OneChanges
  <2>5. CASE opRestore[r].state = "new" /\ opRestore' = [opRestore EXCEPT ![r].state = "running"]
    <3>1. opRestore'[r].state = "running"
      BY <1>0, <2>5 DEF OpRestores
    <3>2. Effect(r) = "none" /\ Effect(r)' = "running"
      BY <2>5, <3>1 DEF Effect
    <3>3. Open(r)
      BY <2>5 DEF ContractInv, CarefulInv, OutcomesAreReal, Underway
    <3>4. Lives[r] \in {"live", "deleting"} /\ Told[r] \notin Contract!Ends /\ Effects[r] = "none"
      BY <3>2, <3>3, ContractValues DEF Open, Contract!Ends
    <3>5. Contract!Begin(r)
      BY <1>2, <2>4, <3>2, <3>4 DEF Contract!Begin
    <3> QED BY <3>5 DEF Contract!Next
  <2>6. ASSUME opRestore[r].state = "running", NEW s \in {"succeeded", "failed"},
               opRestore' = [opRestore EXCEPT ![r].state = s]
        PROVE  [Contract!Next]_Contract!cvars
    <3>1. opRestore'[r].state = s
      BY <1>0, <2>6 DEF OpRestores
    <3>2. Effect(r) = "running" /\ Effect(r)' \in {"done", "failed"}
      BY <2>6, <3>1 DEF Effect
    <3>3. Contract!End(r)
      BY <1>2, <2>4, <3>2, ContractValues DEF Contract!End
    <3> QED BY <3>3 DEF Contract!Next
  <2> QED BY <2>1, <2>5, <2>6
<1>4. CASE OperatorRemoves(r)
  <2>1. /\ opRestore' = [opRestore EXCEPT ![r] = NoOpRestore]
        /\ UNCHANGED restores /\ opRestore[r].deleting
    BY <1>4 DEF OperatorRemoves
  <2>2. opRestore[r].state # "absent" /\ ~Serves(r) /\ restores[r].cr = "deleting"
    BY <2>1 DEF ContractInv, DeletedSettle, CarefulInv, OperatorKnows
  <2>3. OnlyFor(r) /\ opRestore'[r].state = "absent"
    BY <1>0, <1>1, <2>1 DEF OnlyFor, NoOpRestore
  <2>4. Effect(r)' = "over"
    BY <1>1, <2>1, <2>2, <2>3 DEF Effect
  <2>5. /\ Lives' = Lives /\ Asked' = Asked /\ Told' = Told
        /\ Effects' = [Effects EXCEPT ![r] = "over"]
    BY <2>1, <2>3, <2>4, OneChanges
  <2>6. Contract!Settle(r)
    BY <1>2, <2>2, <2>5, ContractValues DEF Contract!Settle, Contract!Settled
  <2> QED BY <2>6 DEF Contract!Next
<1>5. CASE CleanupRestore(r)
  <2>1. rs.pc = "idle" /\ ~Serves(r) /\ restores[r].cr = "deleting"
    BY <1>5 DEF CleanupRestore, RestoreAt, Serves
  <2>2. CASE opRestore[r].state = "absent"
    <3>1. restores' = [restores EXCEPT ![r].cr = "gone"] /\ UNCHANGED opRestore
      BY <1>5, <2>2 DEF CleanupRestore
    <3>2. /\ OnlyFor(r)
          /\ restores'[r].cr = "gone" /\ restores'[r].ds = restores[r].ds
          /\ restores'[r].state = restores[r].state
      BY <1>0, <1>1, <3>1 DEF OnlyFor, Restores
    <3>3. Effect(r) = "over" /\ Effect(r)' = "over"
      BY <1>1, <2>1, <2>2, <3>1, <3>2 DEF Effect
    <3>4. /\ Lives' = [Lives EXCEPT ![r] = "gone"] /\ Asked' = Asked /\ Told' = Told
          /\ Effects' = Effects
      BY <3>2, <3>3, OneChanges
    <3>5. Contract!Vanish(r)
      BY <1>2, <2>1, <3>3, <3>4, ContractValues DEF Contract!Vanish
    <3> QED BY <3>5 DEF Contract!Next
  <2>3. CASE opRestore[r].state # "absent"
    <3>1. opRestore' = [opRestore EXCEPT ![r].deleting = TRUE] /\ UNCHANGED restores
      BY <1>5, <2>3 DEF CleanupRestore
    <3>2. OnlyFor(r) /\ opRestore'[r].state = opRestore[r].state
      BY <1>0, <1>1, <3>1 DEF OnlyFor, OpRestores
    <3>3. Effect(r)' = Effect(r)
      BY <1>1, <3>1, <3>2 DEF Effect
    <3>4. UNCHANGED Contract!cvars
      BY <1>2, <3>1, <3>2, <3>3, OneChanges DEF Contract!cvars
    <3> QED BY <3>4
  <2> QED BY <2>2, <2>3
<1> QED BY <1>3, <1>4, <1>5 DEF OperatorStep

(* Users, and everybody around Backups.                                    *)
LEMMA ContractUsers ==
  ASSUME ContractInv, UserStep \/ OperatorReady \/ \E b \in Backup : BackupStep(b)
  PROVE  [Contract!Next]_Contract!cvars
<1> USE DEF userVars, workerVars
<1>0. restores \in [AllRestores -> Restores]
  BY ContractTypes
<1>1. ASSUME NEW r \in Restore, NEW d \in RestoreSources, UserRestores(r, d)
      PROVE  Contract!Next
  <2>1. /\ restores' = [restores EXCEPT ![r] = [cr |-> "live", ds |-> d, state |-> "none"]]
        /\ UNCHANGED <<opRestore, rs, cluster>> /\ restores[r].cr = "none"
    BY <1>1 DEF UserRestores
  <2>2. r \in AllRestores /\ d \in Sources
    BY SourcesAssumption DEF AllRestores
  <2>3. OnlyFor(r) /\ restores'[r] = [cr |-> "live", ds |-> d, state |-> "none"]
    BY <1>0, <2>1, <2>2 DEF OnlyFor, Serves
  <2>4. restores[r].state = "none"
    BY <2>1, <2>2 DEF ContractInv, DeletedSettle, NoRestore
  <2>5. Effect(r)' = Effect(r)
    BY <2>1, <2>3 DEF Effect
  <2>6. Contract!Ask(r, d)
    BY <2>1, <2>2, <2>3, <2>4, <2>5, OneChanges, ContractValues, ClusterStays DEF Contract!Ask
  <2> QED BY <2>2, <2>6 DEF Contract!Next
<1>2. ASSUME NEW r \in Restore, UserDeletesRestore(r)
      PROVE  Contract!Next
  <2>1. /\ restores' = [restores EXCEPT ![r].cr = "deleting"] /\ restores[r].cr = "live"
        /\ UNCHANGED <<opRestore, rs, cluster>>
    BY <1>2 DEF UserDeletesRestore
  <2>2. r \in AllRestores
    BY DEF AllRestores
  <2>3. /\ OnlyFor(r) /\ restores'[r].cr = "deleting" /\ restores'[r].ds = restores[r].ds
        /\ restores'[r].state = restores[r].state
    BY <1>0, <2>1, <2>2 DEF OnlyFor, Serves, Restores
  <2>4. Effect(r)' \in {Effect(r), "over"}
    <3>1. opRestore'[r].state = opRestore[r].state /\ Serves(r)' = Serves(r)
      BY <2>1 DEF Serves
    <3> QED BY <2>1, <2>3, <3>1 DEF Effect
  <2>5. /\ Lives' = [Lives EXCEPT ![r] = "deleting"] /\ Asked' = Asked /\ Told' = Told
        /\ Effects' = Effects \/ Effects' = [Effects EXCEPT ![r] = "over"]
    BY <2>2, <2>3, <2>4, OneChanges
  <2>6. Lives[r] = "live" /\ Lives'[r] = "deleting"
    BY <2>1, <2>2, <2>3 DEF Lives
  <2>7. Contract!Withdraw(r)
    BY <2>1, <2>5, <2>6, ClusterStays DEF Contract!Withdraw, Contract!Settled
  <2> QED BY <2>2, <2>7 DEF Contract!Next
<1>3. CASE OperatorReady
  <2>1. cluster' = [cluster EXCEPT !.state = "ready"] /\ cluster.state = "initializing"
    BY <1>3 DEF OperatorReady
  <2>2. cluster'.from = cluster.from /\ cluster'.state = "ready"
    BY <2>1, ContractTypes DEF TypeOK
  <2> QED BY <1>3, <2>1, <2>2, NothingForUsers DEF OperatorReady, Bootstrap
<1>4. CASE UNCHANGED <<restores, opRestore, rs, cluster>>
  BY <1>4, NothingForUsers, ClusterStays
<1>5. \/ UNCHANGED <<restores, opRestore, rs, cluster>> \/ OperatorReady
      \/ \E r \in Restore : UserDeletesRestore(r) \/ \E d \in RestoreSources : UserRestores(r, d)
  BY DEF UserStep, BackupStep, BackupStarts, BackupEnds, BackupFails, BackupCleanup,
     backupRest, UserLists, UserBacksUp, UserDeletesBackup, OtherChanges
<1> QED BY <1>1, <1>2, <1>3, <1>4, <1>5

LEMMA ContractStep == ContractInv /\ [Next]_vars => [Contract!Next]_Contract!cvars
<1> SUFFICES ASSUME ContractInv, [Next]_vars PROVE [Contract!Next]_Contract!cvars
  OBVIOUS
<1>1. CASE UNCHANGED vars
  <2>1. UNCHANGED <<restores, opRestore, rs, cluster>>
    BY <1>1 DEF vars
  <2> QED BY <2>1, NothingForUsers, ClusterStays
<1>2. CASE SyncStep \/ SyncFail
  BY <1>2, ContractSync
<1>3. CASE RestoreStep \/ RestoreFail \/ \E r \in AllRestores : RestoreBegin(r)
  BY <1>3, ContractWorker
<1>4. CASE \E r \in AllRestores : OperatorStep(r) \/ CleanupRestore(r)
  BY <1>4, ContractOperator
<1>5. CASE UserStep \/ OperatorReady \/ \E b \in Backup : BackupStep(b)
  BY <1>5, ContractUsers
<1> QED BY <1>1, <1>2, <1>3, <1>4, <1>5, Zenon DEF Next


(* A deleted Restore settles: nothing brings its operator restore back.    *)
LEMMA DeletedSettleStep ==
  ASSUME ContractInv, [Next]_vars
  PROVE  DeletedSettle'
<1> USE DEF userVars, workerVars, RestoreAt
<1>0. /\ rs \in RestoreWorkers /\ rs.r \in AllRestores /\ Seed \in AllRestores
      /\ restores \in [AllRestores -> Restores] /\ opRestore \in [AllRestores -> OpRestores]
  BY ContractTypes
<1> DEFINE Good(r) == /\ restores'[r].cr = "none" => restores'[r] = NoRestore
                      /\ restores'[r].cr = "gone" => opRestore'[r].state = "absent"
                      /\ opRestore'[r].deleting => opRestore'[r].state # "absent" /\ ~Serves(r)'
<1> SUFFICES ASSUME NEW r \in AllRestores PROVE Good(r)
  BY DEF DeletedSettle
<1>1. /\ restores[r].cr = "none" => restores[r] = NoRestore
      /\ restores[r].cr = "gone" => opRestore[r].state = "absent"
      /\ opRestore[r].deleting => opRestore[r].state # "absent" /\ ~Serves(r)
  BY DEF ContractInv, DeletedSettle
<1>2. CASE restores'[r] = restores[r] /\ opRestore'[r] = opRestore[r] /\ (Serves(r)' => Serves(r))
  BY <1>1, <1>2
<1>3. ASSUME NEW q \in AllRestores, RestoreBegin(q)
      PROVE  Good(r)
  <2>1. /\ UNCHANGED <<restores, opRestore>> /\ rs'.r = q /\ restores[q].cr = "live"
        /\ rs.pc = "idle"
    BY <1>3 DEF RestoreBegin, RestoreOnly, RestoreIdle
  <2>2. CASE q = r
    <3>1. ~opRestore[r].deleting
      BY <1>1, <2>1, <2>2 DEF ContractInv, CarefulInv, OperatorKnows
    <3> QED BY <1>1, <2>1, <2>2, <3>1
  <2>3. CASE q # r
    BY <1>1, <2>1, <2>3 DEF Serves
  <2> QED BY <2>2, <2>3
<1>4. CASE RestoreOperates
  <2>1. UNCHANGED restores /\ rs.pc # "idle" /\ rs'.r = rs.r
    BY <1>0, <1>4 DEF RestoreOperates, RestoreTo, RestoreWorkers
  <2>2. CASE opRestore'[r] = opRestore[r]
    BY <1>2, <2>1, <2>2 DEF Serves
  <2>3. CASE opRestore'[r] # opRestore[r]
    <3>1. r = rs.r /\ opRestore'[r] = [state |-> "new", ds |-> ds, deleting |-> FALSE]
      BY <1>0, <1>4, <2>3 DEF RestoreOperates
    <3>2. restores[r].cr \in {"live", "deleting"}
      BY <2>1, <3>1 DEF ContractInv, CarefulInv, WorkerKnows, Open
    <3> QED BY <2>1, <3>1, <3>2
  <2> QED BY <2>2, <2>3
<1>5. CASE RestoreReadsSource \/ RestoreReadsOp \/ RestoreWhose \/ RestoreSeeded
  <2>1. UNCHANGED <<restores, opRestore>> /\ rs.pc # "idle" /\ rs'.r = rs.r
    BY <1>0, <1>5 DEF RestoreReadsSource, RestoreReadsOp, RestoreWhose, RestoreSeeded, RestoreTo,
       RestoreOnly, RestoreWorkers
  <2> QED BY <1>2, <2>1 DEF Serves
<1>6. CASE RestoreReport \/ RestoreFail
  <2>1. ~Serves(r)' /\ UNCHANGED opRestore
    BY <1>6 DEF RestoreReport, RestoreFail, RestoreIdle, Serves
  <2>2. CASE restores'[r] = restores[r]
    BY <1>2, <2>1, <2>2
  <2>3. CASE restores'[r] # restores[r]
    <3>1. /\ r = rs.r /\ rs.pc = "report"
          /\ restores'[r] = [restores[r] EXCEPT !.state = rs.result]
      BY <1>0, <1>6, <2>3 DEF RestoreReport, RestoreFail
    <3>2. restores[r].cr \in {"live", "deleting"} /\ restores'[r].cr = restores[r].cr
      BY <1>0, <3>1 DEF ContractInv, CarefulInv, WorkerKnows, Open, Restores
    <3> QED BY <1>1, <2>1, <3>2
  <2> QED BY <2>2, <2>3
<1>7. ASSUME NEW q \in AllRestores, OperatorStep(q) \/ CleanupRestore(q)
      PROVE  Good(r)
  <2>1. UNCHANGED rs
    BY <1>7 DEF OperatorStep, OperatorStarts, OperatorEnds, OperatorRemoves, CleanupRestore
  <2>2. CASE q # r
    <3>1. restores'[r] = restores[r] /\ opRestore'[r] = opRestore[r]
      BY <1>0, <1>7, <2>2
         DEF OperatorStep, OperatorStarts, OperatorEnds, OperatorRemoves, CleanupRestore
    <3> QED BY <1>2, <2>1, <3>1 DEF Serves
  <2>3. CASE OperatorStarts(r) \/ OperatorEnds(r)
    <3>1. UNCHANGED restores /\ \E s \in {"running", "succeeded", "failed"} :
                                  opRestore' = [opRestore EXCEPT ![r].state = s]
      BY <2>3 DEF OperatorStarts, OperatorEnds
    <3>2. opRestore'[r].state # "absent" /\ opRestore'[r].deleting = opRestore[r].deleting
          /\ opRestore[r].state # "absent"
      BY <1>0, <2>3, <3>1 DEF OperatorStarts, OperatorEnds, Operating, OpRestores
    <3> QED BY <1>1, <2>1, <3>1, <3>2 DEF Serves
  <2>4. CASE OperatorRemoves(r)
    BY <1>0, <1>1, <2>1, <2>4 DEF OperatorRemoves, NoOpRestore
  <2>5. CASE CleanupRestore(r) /\ opRestore[r].state = "absent"
    <3>1. restores'[r].cr = "gone" /\ UNCHANGED opRestore
      BY <1>0, <2>5 DEF CleanupRestore, Restores
    <3> QED BY <1>1, <2>1, <2>5, <3>1
  <2>6. CASE CleanupRestore(r) /\ opRestore[r].state # "absent"
    <3>1. opRestore' = [opRestore EXCEPT ![r].deleting = TRUE] /\ UNCHANGED restores
      BY <2>6 DEF CleanupRestore
    <3>2. opRestore'[r].state = opRestore[r].state /\ rs.pc = "idle" /\ restores[r].cr = "deleting"
      BY <1>0, <2>6, <3>1 DEF CleanupRestore, OpRestores
    <3> QED BY <1>1, <2>1, <2>6, <3>1, <3>2 DEF Serves
  <2> QED BY <1>7, <2>2, <2>3, <2>4, <2>5, <2>6 DEF OperatorStep
<1>8. CASE SyncStep \/ SyncFail \/ UserStep \/ OperatorReady \/ \E b \in Backup : BackupStep(b)
  <2>1. UNCHANGED <<opRestore, rs>>
    BY <1>8 DEF SyncStep, SyncBegin, SyncCheck, SyncExisting, SyncAbsent, SyncReadsSource,
       SyncReadsOp, SyncReadsInstance, SyncReadsStorage, SyncApply, ReconcileDataSource, SyncFail,
       SyncOnly, OperatorReady, UserStep, UserRestores, UserDeletesRestore, UserLists,
       UserBacksUp, UserDeletesBackup, OtherChanges,
       BackupStep, BackupStarts, BackupEnds, BackupFails, BackupCleanup, backupRest
  <2>2. \/ restores'[r] = restores[r]
        \/ restores'[r].cr \in {"live", "deleting"}
    <3>1. CASE UNCHANGED restores
      BY <3>1
    <3>2. CASE ReconcileDataSource
      BY <1>0, <3>2 DEF ReconcileDataSource
    <3>3. ASSUME NEW q \in Restore, NEW d \in RestoreSources, UserRestores(q, d)
          PROVE  restores'[r] = restores[r] \/ restores'[r].cr \in {"live", "deleting"}
      BY <1>0, <3>3 DEF UserRestores
    <3>4. ASSUME NEW q \in Restore, UserDeletesRestore(q)
          PROVE  restores'[r] = restores[r] \/ restores'[r].cr \in {"live", "deleting"}
      BY <1>0, <3>4 DEF UserDeletesRestore, Restores
    <3>5. \/ UNCHANGED restores \/ ReconcileDataSource
          \/ \E q \in Restore : UserDeletesRestore(q) \/ \E d \in RestoreSources : UserRestores(q, d)
      BY <1>8 DEF SyncStep, SyncBegin, SyncCheck, SyncExisting, SyncAbsent, SyncReadsSource,
         SyncReadsOp, SyncReadsInstance, SyncReadsStorage, SyncApply, SyncFail, SyncOnly,
         OperatorReady, UserStep, UserLists, UserBacksUp, UserDeletesBackup, OtherChanges,
         BackupStep, BackupStarts, BackupEnds, BackupFails, BackupCleanup, backupRest
    <3> QED BY <3>1, <3>2, <3>3, <3>4, <3>5
  <2> QED BY <1>1, <2>1, <2>2 DEF Serves
<1>9. CASE UNCHANGED vars
  BY <1>2, <1>9 DEF vars, Serves
<1> HIDE DEF Good
<1>10. CASE RestoreStep
  BY <1>4, <1>5, <1>6, <1>10 DEF RestoreStep
<1> QED BY <1>3, <1>6, <1>7, <1>8, <1>9, <1>10, Zenon DEF Next

LEMMA ContractInit == Init => Contract!Init /\ DeletedSettle
<1> SUFFICES ASSUME Init PROVE Contract!Init /\ DeletedSettle
  OBVIOUS
<1>1. \A r \in AllRestores : /\ restores[r] = NoRestore /\ opRestore[r] = NoOpRestore
                             /\ ~Serves(r)
  BY DEF Init, RestoreIdle, Serves
<1>2. \A r \in AllRestores : Effect(r) = "none"
  BY <1>1 DEF Effect, NoRestore, NoOpRestore
<1>3. Bootstrap = {}
  BY DEF Init, NoCluster, Bootstrap
<1>4. Contract!Init
  BY <1>1, <1>2, <1>3 DEF Contract!Init, Lives, Asked, Told, Effects, NoRestore
<1> QED BY <1>1, <1>4 DEF DeletedSettle, NoRestore, NoOpRestore

(* RestoreLifecycle implements RestoreContract: however SyncRestore,       *)
(* CleanupRestore, Sync, failures and deletions interleave, the cluster is *)
(* overwritten for a Restore at most once and never after its end, and an  *)
(* end is reported once and truly (backup.go:247-345, 622-644).            *)
THEOREM RestoresKeepTheirContract ==
  ASSUME CarefulUsers
  PROVE  Spec => KeepsContract
<1>1. ContractInv /\ [Next]_vars => ContractInv'
  <2> SUFFICES ASSUME ContractInv, [Next]_vars PROVE ContractInv'
    OBVIOUS
  <2>1. CarefulInv'
    BY CarefulInvStep DEF ContractInv
  <2> QED BY <2>1, DeletedSettleStep DEF ContractInv
<1>2. Init => ContractInv
  BY InitCareful, ContractInit DEF ContractInv
<1> QED BY <1>1, <1>2, ContractStep, ContractInit, PTL DEF Spec, KeepsContract, Contract!Spec


=============================================================================
