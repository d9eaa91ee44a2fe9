--------------------------- MODULE InstanceStatus ---------------------------
(***************************************************************************)
(* From an Instance's settings to the connection details it reports.       *)
(*                                                                         *)
(* Reconciles are triggered by events only: a change of the Instance, of   *)
(* the cluster or of a Restore puts the Instance in the queue, and the     *)
(* worker then validates, syncs and computes the status.  Sync writes the  *)
(* cluster; Status reads it back from a cache that the watch fills later,  *)
(* then the Restores, then the user Secret.  In between, the operator      *)
(* works on the cluster at its own pace, and its status may still be about *)
(* an earlier generation of the spec.                                      *)
(***************************************************************************)
EXTENDS InstanceSettings

CONSTANTS
  Catalogs,   \* catalogs of the provider's releases
  Choices,    \* settings that users choose from
  First,      \* settings that an Instance is created with
  UserMay,    \* what users do besides changing settings
  MaxEdits,   \* bound: changes of settings and upgrades
  MaxFaults   \* bound: failed calls and restarts, and what befalls the cluster

ASSUME ScopeAssumption ==
  /\ Catalogs \subseteq Catalog
  /\ Choices \subseteq Instance /\ First \subseteq Choices
  /\ MaxEdits \in Nat /\ MaxFaults \in Nat

(* The catalogs are generated from one file (definition/versions.yaml).    *)
ASSUME CatalogAssumption == \A c \in Catalogs : Sound(c)

VARIABLES
  instance,  \* the Instance's settings
  catalog,   \* the catalog of the release that runs
  restoring, \* a Restore is open
  secret,    \* the user Secret exists
  cluster,   \* the PerconaPGCluster
  from,      \* the settings and the catalog it was translated from
  seen,      \* the cluster in the provider's cache
  queued,    \* the Instance is in the queue
  work,      \* the worker: its place and what it has read
  report,    \* the status of the Instance
  edits, faults

vars == <<instance, catalog, restoring, secret, cluster, from, seen, queued,
          work, report, edits, faults>>

(* What the operator's status tells: where the cluster is (init stands for *)
(* every state that is reported before the generation is looked at, a pod  *)
(* is missing in starting), the host, and the generation it is about.      *)
Stage == {"init", "starting", "up"}

Host == {"none", "primary", "bouncer", "external"}

NoSpec == [image |-> NoVersion, bouncer |-> NoVersion, major |-> 16,
           bouncers |-> 0, expose |-> "none",
           spread |-> [c \in Constraint |-> 0]]

(* gen 0: there is no cluster.                                             *)
NoCluster == [spec |-> NoSpec, gen |-> 0, observed |-> 0, stage |-> "init",
              host |-> "none"]

(* spec: the one that the report is about, for the properties.             *)
NoReport == [phase |-> "none", host |-> "none", uri |-> "none", spec |-> NoSpec]

(* desired: what Sync is about to apply; cluster: what Status has read.    *)
Idle == [pc |-> "idle", desired |-> NoSpec, cluster |-> NoCluster,
         from |-> {}]

Init ==
  /\ instance \in First
  /\ catalog \in Catalogs
  /\ restoring = FALSE
  /\ secret = FALSE
  /\ cluster = NoCluster
  /\ from = {}
  /\ seen = NoCluster
  /\ queued = TRUE
  /\ work = Idle
  /\ report = NoReport
  /\ edits = 0
  /\ faults = 0

At(pc) == work.pc = pc

worldVars == <<instance, catalog, restoring, secret, edits>>

clusterVars == <<cluster, from, seen>>

-----------------------------------------------------------------------------
(* Sync, after the runtime's checks and Validate.                          *)

(* What they reject waits for a change; an error of Sync is retried.       *)
SyncRejects ==
  /\ At("idle") /\ queued
  /\ ~(Accepted(catalog, instance) /\ ~SyncFails(catalog, instance))
  /\ queued' = Accepted(catalog, instance)
  /\ report' = [NoReport EXCEPT !.phase =
                  IF Accepted(catalog, instance) THEN "failed" ELSE "invalid"]
  /\ UNCHANGED <<work, faults, worldVars, clusterVars>>

SyncTranslates ==
  /\ At("idle") /\ queued
  /\ Accepted(catalog, instance) /\ ~SyncFails(catalog, instance)
  /\ queued' = FALSE
  /\ work' = [Idle EXCEPT !.pc = "restores",
                !.desired = Translate(catalog, instance),
                !.from = {[instance |-> instance, catalog |-> catalog]}]
  /\ UNCHANGED <<report, faults, worldVars, clusterVars>>

(* While a restore runs the cluster is left alone.                         *)
SyncChecksRestores ==
  /\ At("restores")
  /\ work' = [work EXCEPT !.pc = IF restoring THEN "status" ELSE "apply"]
  /\ UNCHANGED <<queued, report, faults, worldVars, clusterVars>>

(* A spec that is as it was makes no new generation.                       *)
SyncApplies ==
  /\ At("apply")
  /\ cluster' = IF cluster.gen # 0 /\ cluster.spec = work.desired THEN cluster
                ELSE [cluster EXCEPT !.spec = work.desired, !.gen = @ + 1]
  /\ from' = work.from
  /\ work' = [work EXCEPT !.pc = "status"]
  /\ UNCHANGED <<seen, queued, report, faults, worldVars>>

-----------------------------------------------------------------------------
(* Status.                                                                 *)

(* pgBouncerEnabled, pgBouncerLoadBalancerExposed.                         *)
BouncerOn(spec) == spec.bouncers # 0

LoadBalanced(spec) == BouncerOn(spec) /\ spec.expose = "LoadBalancer"

(* The switch over what the operator says: its status counts only when it  *)
(* is about the current generation.  (The faulty variant takes it as it    *)
(* comes.)                                                                 *)
PhaseOfAnyGeneration(c, isRestoring) ==
  IF c.gen = 0 THEN "provisioning"
  ELSE IF isRestoring THEN "restoring"
  ELSE IF c.stage = "init" THEN "busy"
  ELSE IF c.stage = "starting" THEN "provisioning"
  ELSE IF LoadBalanced(c.spec) /\ c.host = "none" THEN "provisioning"
  ELSE "ready"

Phase(c, isRestoring) ==
  IF c.gen = 0 THEN "provisioning"
  ELSE IF isRestoring THEN "restoring"
  ELSE IF c.stage = "init" THEN "busy"
  ELSE IF c.observed < c.gen THEN "updating"
  ELSE IF c.stage = "starting" THEN "provisioning"
  ELSE IF LoadBalanced(c.spec) /\ c.host = "none" THEN "provisioning"
  ELSE "ready"

(* The Secret only knows the Services inside; a load balancer's address is *)
(* taken from the operator's status, as is everything without the Secret.  *)
(* (The faulty variant prefers the Secret.)                                *)
InsideHost(c, hasSecret) ==
  IF ~hasSecret THEN c.host
  ELSE IF BouncerOn(c.spec) THEN "bouncer" ELSE "primary"

ReportedHost(c, hasSecret) ==
  IF LoadBalanced(c.spec) THEN c.host ELSE InsideHost(c, hasSecret)

(* Without the Secret there is no URI, and no credentials.                 *)
ReportedURI(c, hasSecret) ==
  IF ~hasSecret THEN "none" ELSE ReportedHost(c, hasSecret)

StatusReadsCluster ==
  /\ At("status")
  /\ work' = [Idle EXCEPT !.pc = "report", !.cluster = seen]
  /\ UNCHANGED <<queued, report, faults, worldVars, clusterVars>>

StatusReports ==
  /\ At("report")
  /\ report' =
       IF Phase(work.cluster, restoring) = "ready"
       THEN [phase |-> "ready", spec |-> work.cluster.spec,
             host |-> ReportedHost(work.cluster, secret),
             uri |-> ReportedURI(work.cluster, secret)]
       ELSE [NoReport EXCEPT !.phase = Phase(work.cluster, restoring)]
  /\ work' = Idle
  /\ UNCHANGED <<queued, faults, worldVars, clusterVars>>

(* A failed call, or a restart: everything is queued again.                *)
WorkFails ==
  /\ ~At("idle")
  /\ faults < MaxFaults /\ faults' = faults + 1
  /\ work' = Idle
  /\ queued' = TRUE
  /\ UNCHANGED <<report, worldVars, clusterVars>>

-----------------------------------------------------------------------------
(* Events.                                                                 *)

(* The watch of the cluster.                                               *)
Deliver ==
  /\ seen # cluster
  /\ seen' = cluster
  /\ queued' = TRUE
  /\ UNCHANGED <<cluster, from, work, report, faults, worldVars>>

(* The watch of the Restores: what becomes of the queue when one ends.     *)
RestoreGoesUnseen == queued

RestoreEnqueues == TRUE

UserRestores ==
  /\ "restore" \in UserMay
  /\ faults < MaxFaults /\ faults' = faults + 1
  /\ cluster.gen # 0 /\ ~restoring
  /\ restoring' = TRUE
  /\ queued' = RestoreEnqueues
  /\ UNCHANGED <<instance, catalog, secret, work, report, edits, clusterVars>>

RestoreEnds ==
  /\ restoring
  /\ restoring' = FALSE
  /\ queued' = RestoreEnqueues
  /\ UNCHANGED <<instance, catalog, secret, work, report, edits, faults, clusterVars>>

(* Any settings can be written: while the provider is down, writes are     *)
(* admitted unchecked.                                                     *)
UserChanges ==
  /\ edits < MaxEdits /\ edits' = edits + 1
  /\ instance' \in Choices \ {instance}
  /\ queued' = TRUE
  /\ UNCHANGED <<catalog, restoring, secret, work, report, faults, clusterVars>>

UserDeletesSecret ==
  /\ "secret" \in UserMay
  /\ faults < MaxFaults /\ faults' = faults + 1
  /\ secret /\ secret' = FALSE
  /\ UNCHANGED <<instance, catalog, restoring, queued, work, report, edits, clusterVars>>

(* A new release of the provider starts with another catalog, an empty     *)
(* cache that it fills, and every Instance in its queue.                   *)
Upgrade ==
  /\ edits < MaxEdits /\ edits' = edits + 1
  /\ catalog' \in Catalogs \ {catalog}
  /\ work' = Idle
  /\ seen' = cluster
  /\ queued' = TRUE
  /\ UNCHANGED <<instance, restoring, secret, cluster, from, report, faults>>

-----------------------------------------------------------------------------
(* The operator.                                                           *)

(* status.host is the address of PGBouncer: the load balancer's, once it   *)
(* has one, or the Service's.                                              *)
Hosts(spec) ==
  IF spec.expose = "LoadBalancer" THEN {"none", "external"} ELSE {"bouncer"}

OperatorObserves ==
  /\ cluster.observed < cluster.gen
  /\ \E stage \in Stage, host \in Hosts(cluster.spec) :
       cluster' = [cluster EXCEPT !.observed = cluster.gen, !.stage = stage,
                                  !.host = host]
  /\ secret' = TRUE
  /\ UNCHANGED <<instance, catalog, restoring, from, seen, queued, work, report,
                 edits, faults>>

OperatorFinishes ==
  /\ cluster.gen # 0 /\ cluster.observed = cluster.gen
  /\ \E host \in Hosts(cluster.spec) \ {"none"} :
       cluster' = [cluster EXCEPT !.stage = "up", !.host = host]
  /\ secret' = TRUE
  /\ UNCHANGED <<instance, catalog, restoring, from, seen, queued, work, report,
                 edits, faults>>

PodFails ==
  /\ faults < MaxFaults /\ faults' = faults + 1
  /\ cluster.stage = "up"
  /\ \E stage \in Stage \ {"up"} : cluster' = [cluster EXCEPT !.stage = stage]
  /\ UNCHANGED <<instance, catalog, restoring, secret, from, seen, queued, work,
                 report, edits>>

-----------------------------------------------------------------------------

SyncStep ==
  SyncRejects \/ SyncTranslates \/ SyncChecksRestores \/ SyncApplies

StatusStep == StatusReadsCluster \/ StatusReports

UserStep == UserRestores \/ UserChanges \/ UserDeletesSecret \/ Upgrade

OperatorStep == OperatorObserves \/ OperatorFinishes

Next ==
  \/ SyncStep \/ StatusStep \/ WorkFails
  \/ Deliver \/ RestoreEnds \/ UserStep
  \/ OperatorStep \/ PodFails

Spec == Init /\ [][Next]_vars

(* A queued Instance is worked on, the watch delivers, the operator brings *)
(* up what it is given, restores end.  Nothing is assumed of users.        *)
Fairness ==
  /\ WF_vars(SyncStep)
  /\ WF_vars(StatusStep)
  /\ WF_vars(Deliver)
  /\ WF_vars(RestoreEnds)
  /\ WF_vars(OperatorStep)

FairSpec == Spec /\ Fairness

-----------------------------------------------------------------------------
(* Safety.                                                                 *)

Specs == [image : Version \cup {NoVersion, OwnImage},
          bouncer : Version \cup {NoVersion, OwnImage},
          major : Nat, bouncers : 0 .. 2, expose : ServiceType,
          spread : ConstraintList]

Clusters == [spec : Specs, gen : Nat, observed : Nat, stage : Stage, host : Host]

Sources == SUBSET [instance : Choices, catalog : Catalogs]

TypeOK ==
  /\ instance \in Choices
  /\ catalog \in Catalogs
  /\ restoring \in BOOLEAN
  /\ secret \in BOOLEAN
  /\ cluster \in Clusters /\ seen \in Clusters
  /\ from \in Sources
  /\ queued \in BOOLEAN
  /\ work \in [pc : {"idle", "restores", "apply", "status", "report"},
               desired : Specs, cluster : Clusters, from : Sources]
  /\ report \in [phase : {"none", "invalid", "failed", "provisioning",
                          "restoring", "busy", "updating", "ready"},
                 host : Host, uri : Host, spec : Specs]
  /\ edits \in Nat /\ faults \in Nat

(* What Validate accepts, Sync can translate: Sync's own errors (provider  *)
(* .go:127-214: "this should be caught by Validate") are never met,        *)
(* whatever the settings and whatever release of the catalog they meet;    *)
(* the one about the proxy's type rests on the runtime's check alone.      *)
AcceptedSyncs == report.phase # "failed"

(* The cluster runs an image of the major version that the operator is     *)
(* told it runs, unless the user brought the image: the two are looked up  *)
(* separately (provider.go:146-166).                                       *)
RunsItsMajor ==
  \A f \in from :
    ~f.instance.engine.image =>
      /\ cluster.spec.image \in Version
      /\ Major[cluster.spec.image] = cluster.spec.major

(* Kubernetes rejects a pod with two constraints of the same key and the   *)
(* same whenUnsatisfiable.                                                 *)
NoTwoAlike(list) ==
  \A c, d \in Constraint :
    list[c] # 0 /\ list[d] # 0 /\ c.key = d.key /\ c.soft = d.soft
      => c = d /\ list[c] = 1

(* The pods get the constraints that the user stated, no more and no less, *)
(* and never two that Kubernetes would take for the same when the list has *)
(* none: Validate, Sync, which leaves out what the operator adds by        *)
(* itself, and the operator add up to that (scheduling.go:52-99).          *)
SpreadAsStated ==
  \A f \in from : \A list \in f.instance.spread :
    /\ \A c \in Constraint : PodSpread(cluster.spec.spread)[c] # 0 <=> list[c] # 0
    /\ NoTwoAlike(list) => NoTwoAlike(PodSpread(cluster.spec.spread))

(* Where the database of a cluster can be reached.                         *)
Endpoint(spec) ==
  IF ~BouncerOn(spec) THEN "primary"
  ELSE IF spec.expose = "LoadBalancer" THEN "external" ELSE "bouncer"

(* Ready comes with an endpoint that serves: the one of the spec that was  *)
(* read, not what the operator's status or the Secret say of another one,  *)
(* and the URI has the same host (provider.go:345-424).  Without both the  *)
(* Secret and PGBouncer the code falls back to PGBouncer's host.           *)
EndpointServes ==
  report.phase = "ready" =>
    /\ report.uri \in {"none", report.host}
    /\ report.uri # "none" \/ BouncerOn(report.spec)
         => report.host = Endpoint(report.spec)

(* When nothing is queued, being worked on or to be delivered, the report  *)
(* is what Status would say now: no event that matters is without a watch  *)
(* (provider.go:58-75).  The user Secret has none, so its part is left out.*)
NoLostWakeup ==
  At("idle") /\ ~queued /\ seen = cluster /\ report.phase # "invalid" =>
    /\ report.phase = Phase(cluster, restoring)
    /\ report.phase = "ready" => report.spec = cluster.spec

-----------------------------------------------------------------------------
(* Liveness.                                                               *)

(* Once users leave settings alone that are accepted, the Instance ends up *)
(* Ready at the endpoint that these settings ask for, through restores,    *)
(* failures of pods, failed calls and restarts of the provider.            *)
ReportCatchesUp ==
  <>[](Accepted(catalog, instance) =>
        /\ report.phase = "ready"
        /\ report.uri # "none" \/ BouncerOn(Translate(catalog, instance))
             => report.host = Endpoint(Translate(catalog, instance)))

=============================================================================
