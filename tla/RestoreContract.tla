--------------------------- MODULE RestoreContract ---------------------------
(***************************************************************************)
(* What the user of a Restore is promised, whichever resources stand for   *)
(* it: the cluster is overwritten for it at most once, and never after its *)
(* end is reported or it is gone; an end that is reported is final and     *)
(* true.  RestoreLifecycle implements this specification.                  *)
(***************************************************************************)
CONSTANTS Restores, Sources, NoSource

VARIABLES
  life,      \* each Restore: "none", "live", "deleting", "gone"
  asked,     \* the source it names
  report,    \* what its user is told
  effect,    \* what was done to the cluster for it; "over": and nothing more will be
  bootstrap  \* what the cluster was created from: {} before that

cvars == <<life, asked, report, effect, bootstrap>>

Ends == {"Succeeded", "Failed"}

Init ==
  /\ life = [r \in Restores |-> "none"]
  /\ asked = [r \in Restores |-> NoSource]
  /\ report = [r \in Restores |-> "none"]
  /\ effect = [r \in Restores |-> "none"]
  /\ bootstrap = {}

Ask(r, d) ==
  /\ life[r] = "none"
  /\ life' = [life EXCEPT ![r] = "live"]
  /\ asked' = [asked EXCEPT ![r] = d]
  /\ UNCHANGED <<report, effect, bootstrap>>

(* The cluster is created once.                                            *)
Create(d) ==
  /\ bootstrap = {}
  /\ bootstrap' = {d}
  /\ UNCHANGED <<life, asked, report, effect>>

(* The cluster is overwritten for a Restore.                               *)
Begin(r) ==
  /\ life[r] \in {"live", "deleting"} /\ report[r] \notin Ends /\ effect[r] = "none"
  /\ effect' = [effect EXCEPT ![r] = "running"]
  /\ UNCHANGED <<life, asked, report, bootstrap>>

End(r) ==
  /\ effect[r] = "running"
  /\ \E outcome \in {"done", "failed"} : effect' = [effect EXCEPT ![r] = outcome]
  /\ UNCHANGED <<life, asked, report, bootstrap>>

(* Nothing is or will be done any more for a Restore that is deleted.      *)
Settled(r) == life'[r] = "deleting" /\ effect' = [effect EXCEPT ![r] = "over"]

Settle(r) == Settled(r) /\ UNCHANGED <<life, asked, report, bootstrap>>

(* An end that is reported is final, and true while somebody waits for it. *)
Tell(r, s) ==
  /\ report[r] \notin Ends
  /\ s = "Succeeded" /\ life[r] = "live" => effect[r] = "done" \/ bootstrap = {asked[r]}
  /\ s = "Failed" => effect[r] # "running"
  /\ report' = [report EXCEPT ![r] = s]
  /\ UNCHANGED effect \/ Settled(r)
  /\ UNCHANGED <<life, asked, bootstrap>>

Withdraw(r) ==
  /\ life[r] = "live"
  /\ life' = [life EXCEPT ![r] = "deleting"]
  /\ UNCHANGED effect \/ Settled(r)
  /\ UNCHANGED <<asked, report, bootstrap>>

Vanish(r) ==
  /\ life[r] = "deleting" /\ effect[r] = "over"
  /\ life' = [life EXCEPT ![r] = "gone"]
  /\ UNCHANGED <<asked, report, effect, bootstrap>>

Next ==
  \/ \E r \in Restores :
       \/ \E s \in {"none", "Pending", "Running"} \cup Ends : Tell(r, s)
       \/ Begin(r) \/ End(r) \/ Settle(r) \/ Withdraw(r) \/ Vanish(r)
       \/ \E d \in Sources : Ask(r, d)
  \/ \E d \in Sources \cup {NoSource} : Create(d)

Spec == Init /\ [][Next]_cvars

=============================================================================
