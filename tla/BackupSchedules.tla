--------------------------- MODULE BackupSchedules ---------------------------
(***************************************************************************)
(* The schedules of a backup storage on their way through the system.      *)
(* Sync turns them into at most one job per kind of backup and into the    *)
(* repository's retention; the operator's jobs make backups with generated *)
(* names, and Mirror derives the schedule's name from them.  Pure          *)
(* functions; MCRepoSlots checks them over bounded lists of schedules.     *)
(***************************************************************************)
EXTENDS Integers, Sequences, FiniteSetsExt

Kinds == {"full", "diff", "incr"}

(* strings.ToLower, on the names that occur.                               *)
ToLower(name) == IF name = "Full" THEN "full" ELSE name

(* An unknown name stands for full backups.                                *)
KindOf(schedule) ==
  IF ToLower(schedule.name) \in Kinds THEN ToLower(schedule.name) ELSE "full"

(* The loops run over the enabled schedules in order and each one that has *)
(* its say overwrites what an earlier one said: {} or the last of them.    *)
Last(schedules, Places) ==
  IF Places = {} THEN {} ELSE {schedules[Max(Places)]}

(* The job of a kind.  (In the faulty variant all jobs point to the one    *)
(* loop variable.)                                                         *)
jobOfLoopVariable(schedules, kind) ==
  LET Enabled == {i \in DOMAIN schedules : schedules[i].enabled}
  IN  IF \E i \in Enabled : KindOf(schedules[i]) = kind
      THEN {s.cron : s \in Last(schedules, Enabled)} ELSE {}

buildPGBackRestSchedules(schedules, kind) ==
  LET Places == {i \in DOMAIN schedules :
                   schedules[i].enabled /\ KindOf(schedules[i]) = kind}
  IN  {s.cron : s \in Last(schedules, Places)}

-----------------------------------------------------------------------------
(* Retention: {}, or a number of backups or of days, weeks or months.      *)

(* The faulty variant has months of 30 days.                               *)
daysOfShortMonths(unit) == IF unit = "d" THEN 1 ELSE IF unit = "w" THEN 7 ELSE 30

daysPerRetentionUnit(unit) ==
  IF unit = "d" THEN 1 ELSE IF unit = "w" THEN 7 ELSE 31

pgBackRestRetention(r) ==
  [type |-> r.type,
   value |-> IF r.type = "count" THEN r.n ELSE r.n * daysPerRetentionUnit(r.unit)]

Governing(schedules, kinds) ==
  {i \in DOMAIN schedules : /\ schedules[i].enabled
                            /\ schedules[i].retention # {}
                            /\ KindOf(schedules[i]) \in kinds}

(* Differential backups can only be counted.                               *)
RetentionRejected(schedules) ==
  \E i \in Governing(schedules, {"diff"}) :
    \E r \in schedules[i].retention : r.type = "time"

(* The values of the keys retention-full, which incremental backups share, *)
(* and retention-diff.                                                     *)
RetentionFull(schedules) ==
  {pgBackRestRetention(r) :
     r \in UNION {s.retention : s \in Last(schedules, Governing(schedules, {"full", "incr"}))}}

RetentionDiff(schedules) ==
  {pgBackRestRetention(r) :
     r \in UNION {s.retention : s \in Last(schedules, Governing(schedules, {"diff"}))}}

-----------------------------------------------------------------------------
(* The names: <cluster>-<repo>-<kind>-<random>, as a sequence of parts.    *)

GeneratedName(cluster, repo, kind) == <<cluster, repo, kind, "random">>

(* A name of another make stands for itself.                               *)
deriveScheduleName(name, cluster, repo) ==
  IF Len(name) > 2 /\ SubSeq(name, 1, 2) = <<cluster, repo>>
  THEN <<name[3]>> ELSE name

=============================================================================
