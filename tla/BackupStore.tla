----------------------------- MODULE BackupStore -----------------------------
(***************************************************************************)
(* What a user is promised about the data of backups, whatever happens to  *)
(* the resources that stand for them: data that was asked to be retained   *)
(* stays, data that was asked to be deleted is gone when the deletion is   *)
(* over.  BackupLifecycle implements this specification.                   *)
(***************************************************************************)
CONSTANT Name   \* names of backups

VARIABLES
  data,     \* the backups whose data lies in the backup storage
  wish,     \* what the deletion of a Backup that is under way asks for
  expired   \* backups that somebody else is removing: a user, the retention

svars == <<data, wish, expired>>

Init ==
  /\ data = {}
  /\ wish = [b \in Name |-> "none"]
  /\ expired = {}

Take(b) ==
  /\ b \notin data
  /\ data' = data \cup {b}
  /\ UNCHANGED <<wish, expired>>

Ask(b) ==
  /\ wish[b] = "none"
  /\ \E policy \in {"Retain", "Delete"} : wish' = [wish EXCEPT ![b] = policy]
  /\ UNCHANGED <<data, expired>>

Expire(b) ==
  /\ expired' = expired \cup {b}
  /\ UNCHANGED <<data, wish>>

(* Data goes only if its deletion was asked for, or somebody else does it. *)
Purge(b) ==
  /\ wish[b] = "Delete" \/ b \in expired
  /\ data' = data \ {b}
  /\ UNCHANGED <<wish, expired>>

(* A deletion is over: with policy Delete nothing may be left.             *)
Finish(b) ==
  /\ wish[b] = "Delete" => b \notin data
  /\ wish' = [wish EXCEPT ![b] = "none"]
  /\ expired' = expired \ {b}
  /\ UNCHANGED data

Next ==
  \E b \in Name : Take(b) \/ Ask(b) \/ Expire(b) \/ Purge(b) \/ Finish(b)

Spec == Init /\ [][Next]_svars

=============================================================================
