-------------------------- MODULE InstanceLifecycle --------------------------
(***************************************************************************)
(* The life of an Instance around its cluster: monitoring, which Sync      *)
(* switches on and off (applyPMM), and the end of it all (Cleanup).        *)
(*                                                                         *)
(* Both work on a cluster and on Secrets that depend on each other but are *)
(* written by separate calls.  The PMM token is copied into a Secret that  *)
(* the operator's agents read; Sync may be kept from writing the cluster   *)
(* by a running restore, or fail anywhere in between.  When the Instance   *)
(* is deleted the operator removes its own Secrets, but brings some back   *)
(* while it is at it.  One worker does all of it: the runtime never works  *)
(* twice on the same Instance at a time.  But it reads the cluster from    *)
(* the client's cache, which may not show yet what it has written itself.  *)
(***************************************************************************)
EXTENDS Integers, FiniteSets

CONSTANTS
  Token,        \* tokens of the monitoring destination
  NoToken,
  Secret,       \* Secrets the operator makes for the cluster, by name
  UserMay,      \* what users do besides monitoring and restores
  MaxEdits,     \* bound: edits by users
  MaxFaults     \* bound: failed API calls and restarts of the provider

ASSUME NoTokenAssumption == NoToken \notin Token

ASSUME BoundsAssumption == MaxEdits \in Nat /\ MaxFaults \in Nat

VARIABLES
  instance,  \* the Instance: live, deleting or gone
  need,      \* RequiredSources: is PMM required, not required, or not known?
  token,     \* the token of the destination, NoToken if it cannot be rendered
  cluster,   \* the PerconaPGCluster: its state, whether PMM is on
  seen,      \* the cluster in the provider's cache
  pmmSecret, \* the Secret the agents read their token from
  secrets,   \* the operator's Secrets that exist
  restoring, \* a Restore is open
  work,      \* the worker: its place and what it has read
  misled,    \* history: the token was deleted, or the end was declared, by a
             \* worker to which the cache did not show the cluster as it was
  edits, faults

vars == <<instance, need, token, cluster, seen, pmmSecret, secrets, restoring, work,
          misled, edits, faults>>

(* What the worker and the operator do not write.                          *)
outerVars == <<seen, need, token, restoring, edits>>

Needs == {"required", "notRequired", "unknown"}

Clusters == [state : {"absent", "live", "deleting"}, pmm : BOOLEAN]

NoCluster == [state |-> "absent", pmm |-> FALSE]

(* desired: whether PMM is on in the cluster that Sync is about to apply.  *)
(* overlooks (history): the cache did not show PMM that was on, or not     *)
(* even the cluster.                                                       *)
Idle == [pc |-> "idle", need |-> "unknown", token |-> NoToken,
         desired |-> FALSE, found |-> {}, overlooks |-> FALSE]

Init ==
  /\ instance = "live"
  /\ need \in Needs
  /\ token \in Token \cup {NoToken}
  /\ cluster = NoCluster
  /\ seen = NoCluster
  /\ pmmSecret = NoToken
  /\ secrets = {}
  /\ restoring = FALSE
  /\ work = Idle
  /\ misled = FALSE
  /\ edits = 0
  /\ faults = 0

At(pc) == work.pc = pc

Goes(pc) == work' = [work EXCEPT !.pc = pc]

(* The cluster as the worker reads it: from the cache.                     *)
Live == seen

OverlooksPMM == cluster.pmm /\ ~Live.pmm

OverlooksCluster == cluster.state # "absent" /\ Live.state = "absent"

-----------------------------------------------------------------------------
(* Sync: applyPMM.                                                         *)

SyncBegin ==
  /\ At("idle") /\ instance = "live"
  /\ work' = [Idle EXCEPT !.pc = "live", !.need = need]
  /\ UNCHANGED <<instance, cluster, pmmSecret, secrets, faults, misled, outerVars>>

(* What is not known leaves PMM as it runs (Else; the faulty variant takes *)
(* it for not required).                                                   *)
WantsIfRequired == work.need = "required"

Wants == work.need = "required" \/ (work.need = "unknown" /\ Live.pmm)

(* The token Secret may go once PMM is off in the live cluster too (the    *)
(* faulty variant does not look there).                                    *)
ForgetsAtOnce == work.need = "notRequired"

Forgets == work.need = "notRequired" /\ ~Live.pmm

SyncReadsLive ==
  /\ At("live")
  /\ work' = [work EXCEPT
       !.desired = Wants /\ Live.pmm,
       !.overlooks = OverlooksPMM,
       !.pc = IF Wants /\ work.need = "required" THEN "render"
              ELSE IF ~Wants /\ Forgets THEN "forget"
              ELSE "restores"]
  /\ UNCHANGED <<instance, cluster, pmmSecret, secrets, faults, misled, outerVars>>

(* deletePMMSecret.                                                        *)
SyncForgets ==
  /\ At("forget")
  /\ pmmSecret' = NoToken
  /\ misled' = work.overlooks
  /\ Goes("restores")
  /\ UNCHANGED <<instance, cluster, secrets, faults, outerVars>>

(* renderPMM reads the binding and its destination: what cannot be         *)
(* rendered is reported, and PMM stays as it runs (the faulty variant      *)
(* accepts an empty token).                                                *)
AlwaysRenderable == TRUE

Renderable == token # NoToken

SyncRenders ==
  /\ At("render")
  /\ work' = IF Renderable THEN [work EXCEPT !.pc = "mirror", !.token = token]
             ELSE [work EXCEPT !.pc = "restores"]
  /\ UNCHANGED <<instance, cluster, pmmSecret, secrets, faults, misled, outerVars>>

(* mirrorPMMToken, then the rendered spec (the faulty variant leaves a     *)
(* Secret alone that exists).                                              *)
CopiedOnce(t) == IF pmmSecret = NoToken THEN t ELSE pmmSecret

Copied(t) == t

SyncMirrors ==
  /\ At("mirror")
  /\ pmmSecret' = Copied(work.token)
  /\ misled' = FALSE
  /\ work' = [work EXCEPT !.pc = "restores", !.desired = TRUE]
  /\ UNCHANGED <<instance, cluster, secrets, faults, outerVars>>

(* No apply while a Restore is open.                                       *)
SyncChecksRestores ==
  /\ At("restores")
  /\ work' = IF restoring THEN Idle ELSE [work EXCEPT !.pc = "apply"]
  /\ UNCHANGED <<instance, cluster, pmmSecret, secrets, faults, misled, outerVars>>

SyncApplies ==
  /\ At("apply")
  /\ cluster' = [cluster EXCEPT !.pmm = work.desired,
                   !.state = IF @ = "absent" THEN "live" ELSE @]
  /\ work' = Idle
  /\ UNCHANGED <<instance, pmmSecret, secrets, faults, misled, outerVars>>

-----------------------------------------------------------------------------
(* Cleanup, while the Instance is being deleted.                           *)

(* The cluster is deleted first and waited for (the faulty variant goes on *)
(* once the deletion has been issued; the other one has the test of the    *)
(* deletion timestamp the wrong way round).                                *)
MayListEarly == Live.state # "live"

MayList == Live.state = "absent"

DeletesDeleted == Live.state = "deleting"

Deletes == Live.state = "live"

CleanupBegin ==
  /\ At("idle") /\ instance = "deleting"
  /\ \/ MayList /\ work' = [Idle EXCEPT !.pc = "list", !.overlooks = OverlooksCluster]
     \/ Deletes /\ work' = [Idle EXCEPT !.pc = "delete"]
  /\ UNCHANGED <<instance, cluster, pmmSecret, secrets, faults, misled, outerVars>>

CleanupDeletes ==
  /\ At("delete")
  /\ cluster' = IF cluster.state = "absent" THEN cluster
                ELSE [cluster EXCEPT !.state = "deleting"]
  /\ work' = Idle
  /\ UNCHANGED <<instance, pmmSecret, secrets, faults, misled, outerVars>>

(* deleteLeftoverSecrets: list them, then delete one after the other.      *)
CleanupLists ==
  /\ At("list")
  /\ work' = [work EXCEPT !.pc = "remove", !.found = secrets]
  /\ UNCHANGED <<instance, cluster, pmmSecret, secrets, faults, misled, outerVars>>

(* One that somebody else has deleted meanwhile is an error, and Cleanup   *)
(* starts over.                                                            *)
CleanupRemoves ==
  /\ At("remove")
  /\ \E x \in work.found :
       /\ secrets' = secrets \ {x}
       /\ work' = IF x \in secrets THEN [work EXCEPT !.found = @ \ {x}] ELSE Idle
  /\ UNCHANGED <<instance, cluster, pmmSecret, faults, misled, outerVars>>

(* The runtime removes its finalizer; what the Instance owns goes with it, *)
(* the PMM Secret included.                                                *)
CleanupEnds ==
  /\ At("remove") /\ work.found = {}
  /\ instance' = "gone"
  /\ pmmSecret' = NoToken
  /\ misled' = work.overlooks
  /\ work' = Idle
  /\ UNCHANGED <<cluster, secrets, faults, outerVars>>

(* A call fails, or the provider restarts: Sync or Cleanup starts over.    *)
WorkFails ==
  /\ ~At("idle")
  /\ faults < MaxFaults
  /\ faults' = faults + 1
  /\ work' = Idle
  /\ UNCHANGED <<instance, cluster, pmmSecret, secrets, misled, outerVars>>

-----------------------------------------------------------------------------
(* The operator makes the Secrets of its cluster.  While the cluster is    *)
(* being deleted its finalizers remove them and another of its controllers *)
(* makes them again, so that some may be left when the cluster is gone.    *)

OperatorMakes(x) ==
  /\ cluster.state = "live"
  /\ x \notin secrets
  /\ secrets' = secrets \cup {x}
  /\ UNCHANGED <<instance, cluster, pmmSecret, work, faults, misled, outerVars>>

OperatorFinalizes ==
  /\ cluster.state = "deleting"
  /\ \E left \in SUBSET secrets : secrets' = left
  /\ cluster' = NoCluster
  /\ UNCHANGED <<instance, pmmSecret, work, faults, misled, outerVars>>

(* The watch of the cluster fills the cache.                               *)
Deliver ==
  /\ seen # cluster
  /\ seen' = cluster
  /\ UNCHANGED <<instance, need, token, cluster, pmmSecret, secrets, restoring, work,
                 misled, edits, faults>>

-----------------------------------------------------------------------------
(* Users, and what they have bound the Instance to.                        *)

Edit ==
  /\ edits < MaxEdits
  /\ edits' = edits + 1
  /\ UNCHANGED <<cluster, seen, work, misled, faults>>

UserChangesNeed ==
  /\ Edit
  /\ need' \in Needs
  /\ UNCHANGED <<instance, token, pmmSecret, secrets, restoring>>

UserChangesToken ==
  /\ Edit
  /\ token' \in Token \cup {NoToken}
  /\ UNCHANGED <<instance, need, pmmSecret, secrets, restoring>>

UserDeletesSecret(x) ==
  /\ "secret" \in UserMay
  /\ Edit
  /\ x \in secrets /\ secrets' = secrets \ {x}
  /\ UNCHANGED <<instance, need, token, pmmSecret, restoring>>

UserDeletesInstance ==
  /\ "delete" \in UserMay
  /\ instance = "live"
  /\ instance' = "deleting"
  /\ UNCHANGED <<cluster, pmmSecret, secrets, work, faults, misled, outerVars>>

UserRestores ==
  /\ Edit
  /\ cluster.state = "live" /\ ~restoring
  /\ restoring' = TRUE
  /\ UNCHANGED <<instance, need, token, pmmSecret, secrets>>

RestoreEnds ==
  /\ restoring
  /\ restoring' = FALSE
  /\ UNCHANGED <<instance, need, token, cluster, seen, pmmSecret, secrets, work,
                 misled, edits, faults>>

-----------------------------------------------------------------------------

SyncStep ==
  \/ SyncBegin \/ SyncReadsLive \/ SyncForgets \/ SyncRenders \/ SyncMirrors
  \/ SyncChecksRestores \/ SyncApplies

CleanupStep ==
  \/ CleanupBegin \/ CleanupDeletes \/ CleanupLists \/ CleanupRemoves \/ CleanupEnds

UserStep ==
  \/ UserChangesNeed \/ UserChangesToken \/ UserRestores \/ UserDeletesInstance
  \/ \E x \in Secret : UserDeletesSecret(x)

Next ==
  \/ SyncStep \/ CleanupStep \/ WorkFails
  \/ OperatorFinalizes \/ Deliver \/ RestoreEnds \/ UserStep
  \/ \E x \in Secret : OperatorMakes(x)

Spec == Init /\ [][Next]_vars

(* The runtime calls Sync again after every change it watches and after    *)
(* errors, and Cleanup until it succeeds; the operator finishes what it    *)
(* was asked for, the watch delivers, and restores end.  Nothing is        *)
(* assumed of users.                                                       *)
Fairness ==
  /\ WF_vars(SyncStep)
  /\ WF_vars(CleanupStep)
  /\ WF_vars(OperatorFinalizes)
  /\ WF_vars(Deliver)
  /\ WF_vars(RestoreEnds)

FairSpec == Spec /\ Fairness

-----------------------------------------------------------------------------
(* Safety.                                                                 *)

TypeOK ==
  /\ instance \in {"live", "deleting", "gone"}
  /\ need \in Needs
  /\ token \in Token \cup {NoToken}
  /\ cluster \in Clusters /\ seen \in Clusters
  /\ pmmSecret \in Token \cup {NoToken}
  /\ secrets \subseteq Secret
  /\ restoring \in BOOLEAN
  /\ work \in [pc : {"idle", "live", "forget", "render", "mirror", "restores", "apply",
                     "delete", "list", "remove"},
               need : Needs, token : Token \cup {NoToken}, desired : BOOLEAN,
               found : SUBSET Secret, overlooks : BOOLEAN]
  /\ misled \in BOOLEAN
  /\ At("mirror") => work.token \in Token
  /\ edits \in 0 .. MaxEdits
  /\ faults \in 0 .. MaxFaults

(* As long as PMM is on in the cluster the agents find a token, whichever  *)
(* of the calls fail, however often monitoring is switched while a restore *)
(* keeps Sync from writing the cluster, and however old the cluster is     *)
(* that Sync reads, with one exception: a Sync to which the cache did not  *)
(* show PMM that was on may have deleted the token, and until it is copied *)
(* again nothing is promised (deletePMMSecret, monitoring.go:71-75).       *)
AgentsHaveToken == cluster.pmm => pmmSecret # NoToken \/ misled

(* An Instance that is gone leaves no cluster and no Secret behind,        *)
(* although the operator brings Secrets back while it removes the cluster, *)
(* unless the cache did not even show the cluster to the Cleanup that      *)
(* ended it (provider.go:581-588).                                         *)
NothingIsLeft ==
  instance = "gone" =>
    \/ cluster = NoCluster /\ secrets = {} /\ pmmSecret = NoToken
    \/ misled

(* PMM is switched off only for a reader of "not required": what is not    *)
(* known, what cannot be rendered and what fails leave it on, and so does  *)
(* a cache that lags behind in any other way than by not showing that PMM  *)
(* is on to the very Sync that then writes the cluster (applyPMM,          *)
(* monitoring.go:61-108).                                                  *)
StaysMonitored ==
  [][(cluster.pmm /\ cluster.state = "live" /\ ~cluster'.pmm) =>
       work.need = "notRequired" \/ work.overlooks]_vars

-----------------------------------------------------------------------------
(* Liveness.                                                               *)

(* When users come to rest, so does monitoring, in the state they want:    *)
(* on with the destination's token, or off with no token left behind.      *)
MonitoringFollows ==
  /\ <>[](instance = "live" /\ need = "required" /\ token # NoToken)
       => <>[](cluster.pmm /\ pmmSecret = token)
  /\ <>[](instance = "live" /\ need = "notRequired")
       => <>[](~cluster.pmm /\ pmmSecret = NoToken)

(* The deletion of an Instance comes to its end.                           *)
DeletionEnds == instance = "deleting" ~> instance = "gone"

=============================================================================
