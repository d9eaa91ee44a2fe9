---------------------------- MODULE MCRepoSlots ----------------------------
(***************************************************************************)
(* reconcileRepoSlotMap over every bounded input: any annotation (with     *)
(* slots out of range and shared slots, which a hand-edited annotation can *)
(* hold) and any storage list (with repeated names).  One step stores the  *)
(* result, as a Sync does.  The other inputs are the schedules of a        *)
(* storage: any two of them, which nothing else depends on.                *)
(***************************************************************************)
EXTENDS RepoSlots, TLC

Repo == INSTANCE BackupSchedules

VARIABLES slotMap, storages, schedules

vars == <<slotMap, storages, schedules>>

Annotations == UNION {[D -> 0 .. MaxRepos] : D \in SUBSET Storage}

Lists == UNION {[1 .. n -> Storage] : n \in 0 .. Cardinality(Storage)}

Retentions ==
  {{}, {[type |-> "count", n |-> 1, unit |-> "d"]}}
  \cup {{[type |-> "time", n |-> n, unit |-> u]} : n \in {1, 12}, u \in {"w", "m"}}

Schedules ==
  [name : Repo!Kinds \cup {"Full", "nightly"}, enabled : BOOLEAN,
   cron : {"hourly", "daily"}, retention : Retentions]

ScheduleLists == UNION {[1 .. n -> Schedules] : n \in 0 .. 2}

Init ==
  \/ slotMap \in Annotations /\ storages \in Lists /\ schedules = <<>>
  \/ slotMap = NoSlotMap /\ storages = <<>> /\ schedules \in ScheduleLists

Reconcile ==
  /\ slotMap' = reconcileRepoSlotMap(slotMap, storages)
  /\ UNCHANGED <<storages, schedules>>

Spec == Init /\ [][Reconcile]_vars

Symmetry == Permutations(Storage)

-----------------------------------------------------------------------------
(* The two loops of the Go function, as a reference.                       *)

PlaceNext(m, s) ==
  LET free == Slots \ {m[t] : t \in DOMAIN m}
  IN  IF s \in DOMAIN m \/ free = {} THEN m
      ELSE [t \in DOMAIN m \cup {s} |-> IF t = s THEN Min(free) ELSE m[t]]

LoopSlotMap(existing, list) ==
  LET after[n \in 0 .. Len(list)] ==
        IF n = 0 THEN Restrict(existing, Kept(existing, list))
        ELSE PlaceNext(after[n - 1], list[n])
  IN  after[Len(list)]

(* The closed form computes what the loops compute.                        *)
SameAsLoop ==
  reconcileRepoSlotMap(slotMap, storages) = LoopSlotMap(slotMap, storages)

(* A storage is left without a slot only when every slot is taken (the     *)
(* code then reports SlotAssignmentFailed), and a map without shared slots *)
(* stays so: two storages never write to one pgBackRest repository.        *)
LeftOutOnlyWhenFull ==
  LET m == reconcileRepoSlotMap(slotMap, storages)
  IN  /\ ToSet(storages) # DOMAIN m => {m[s] : s \in DOMAIN m} = Slots
      /\ IsInjective(slotMap) => IsInjective(m)

(* Once stored, an assignment depends on the set of listed names only:     *)
(* reordering the Instance's storages moves nothing.                       *)
ReorderingMovesNothing ==
  [][\A list \in Lists :
       ToSet(list) = ToSet(storages)
         => reconcileRepoSlotMap(slotMap', list) = slotMap']_vars

-----------------------------------------------------------------------------
(* The schedules.                                                          *)

Enabled == {schedules[i] : i \in {j \in DOMAIN schedules : schedules[j].enabled}}

(* Every kind is wanted by one schedule at most, under its plain name.     *)
Plain ==
  \A i, j \in DOMAIN schedules :
    /\ schedules[i].enabled => schedules[i].name \in Repo!Kinds
    /\ schedules[i].enabled /\ schedules[j].enabled /\ i # j
         => Repo!KindOf(schedules[i]) # Repo!KindOf(schedules[j])

(* The name that the backups of a kind's job are mirrored under.           *)
MirroredName(kind) ==
  Repo!deriveScheduleName(Repo!GeneratedName("db", "repo1", kind), "db", "repo1")

(* The backups a schedule asks for are made at its times, and are mirrored *)
(* under its name: buildPGBackRestSchedules and deriveScheduleName, with   *)
(* the operator's jobs in between, lose and swap nothing.                  *)
MirroredUnderItsSchedule ==
  Plain =>
    UNION {{<<MirroredName(kind), cron>> :
              cron \in Repo!buildPGBackRestSchedules(schedules, kind)} :
           kind \in Repo!Kinds}
      = {<<<<s.name>>, s.cron>> : s \in Enabled}

(* The days from the start of a leap year to that of each month, and of    *)
(* any month of any year.                                                  *)
FirstDays == <<0, 31, 60, 91, 121, 152, 182, 213, 244, 274, 305, 335>>

DaysBefore(month) == 366 * (month \div 12) + FirstDays[1 + (month % 12)]

(* The days of a period; of n months in a row, from some month on.         *)
DaysOf(r, month) ==
  IF r.unit = "m" THEN DaysBefore(month + r.n) - DaysBefore(month)
  ELSE r.n * (IF r.unit = "w" THEN 7 ELSE 1)

(* A backup is kept as long as its schedule says, whatever months that     *)
(* takes in: "a time window is never shorter than requested", as long as   *)
(* one schedule speaks for the repository's key (backup_mirror.go:657).    *)
RetentionIsLongEnough ==
  LET Speaking == Repo!Governing(schedules, {"full", "incr"})
  IN  Cardinality(Speaking) = 1 /\ ~Repo!RetentionRejected(schedules) =>
        \A i \in Speaking : \A r \in schedules[i].retention :
          r.type = "time" =>
            \E kept \in Repo!RetentionFull(schedules) :
              /\ kept.type = "time"
              /\ \A month \in 0 .. 11 : kept.value >= DaysOf(r, month)

=============================================================================
