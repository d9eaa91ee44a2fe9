------------------------ MODULE InstanceStatusProofs ------------------------
(***************************************************************************)
(* Theorems about InstanceSettings and InstanceStatus: what Validate       *)
(* accepts Sync translates, to a cluster that runs its major version and   *)
(* is spread as stated; a report of Ready names an endpoint that serves;   *)
(* and no wakeup is lost.                                                  *)
(***************************************************************************)
EXTENDS InstanceStatus, TLAPS

-----------------------------------------------------------------------------
(* Settings.                                                               *)

(* The image of an accepted component is the user's, or that of the        *)
(* version in effect, or the default of the catalog (validateImage,        *)
(* resolveImage, provider.go:146-166).                                     *)
LEMMA AcceptedImage ==
  ASSUME NEW c \in Catalog, Sound(c), NEW s \in Settings, NEW comp \in Component,
         validateImage(c, s, comp)
  PROVE  /\ s.image => resolveImage(c, s, comp) = OwnImage
         /\ ~s.image =>
              /\ resolveImage(c, s, comp) = EffectiveVersion(c, s, comp)
              /\ EffectiveVersion(c, s, comp) \in Images(c, comp)
              /\ EffectiveVersion(c, s, comp) \in Version
<1>1. Bundle(c, comp) \in Images(c, comp)
  BY DEF Sound, Bundle, Images, Component
<1>2. Images(c, comp) \subseteq Version
  BY DEF Catalog, Images
<1>3. ~s.image => EffectiveVersion(c, s, comp) \in Images(c, comp)
  BY <1>1 DEF validateImage, EffectiveVersion
<1> QED
  BY <1>2, <1>3 DEF resolveImage

LEMMA ImageTyped ==
  ASSUME NEW c \in Catalog, NEW s \in Settings, NEW comp \in Component
  PROVE  resolveImage(c, s, comp) \in Version \cup {NoVersion, OwnImage}
<1>1. Images(c, comp) \subseteq Version /\ GetDefaultImage(c, comp) \in Version \cup {NoVersion}
  BY DEF Catalog, Images, GetDefaultImage
<1> QED BY <1>1 DEF resolveImage

LEMMA ComponentSettings ==
  ASSUME NEW i \in Instance
  PROVE  \A comp \in Component : Of(i, comp) \in Settings
BY DEF Instance, Of

(* Sync's own errors are Validate's and the runtime's (provider.go:127-214,*)
(* validate.go:30-32).                                                     *)
THEOREM AcceptedTranslates ==
  ASSUME NEW c \in Catalog, Sound(c), NEW i \in Instance, Accepted(c, i)
  PROVE  ~SyncFails(c, i)
<1>1. \A comp \in Component : resolveImage(c, Of(i, comp), comp) # NoVersion
  <2> TAKE comp \in Component
  <2>1. Of(i, comp) \in Settings /\ validateImage(c, Of(i, comp), comp)
    BY ComponentSettings DEF Accepted, Validate
  <2> QED BY <2>1, AcceptedImage, VersionAssumption
<1>2. \A comp \in Component :
        Of(i, comp).replicas # {} /\ Of(i, comp).config # "badText"
  BY DEF Accepted, Validate, validateReplicas, validateConfiguration
<1> QED BY <1>1, <1>2 DEF SyncFails, Accepted, RuntimeAccepts, Validate

(* The operator is told the major version of the image that it runs        *)
(* (provider.go:146-166).                                                  *)
LEMMA TranslationRunsItsMajor ==
  ASSUME NEW c \in Catalog, Sound(c), NEW i \in Instance, Validate(c, i), ~i.engine.image
  PROVE  /\ Translate(c, i).image \in Version
         /\ Major[Translate(c, i).image] = Translate(c, i).major
<1> DEFINE v == EffectiveVersion(c, i.engine, "engine")
<1>1. i.engine \in Settings /\ "engine" \in Component /\ validateImage(c, i.engine, "engine")
  BY DEF Instance, Component, Validate, Of
<1>2. /\ resolveImage(c, i.engine, "engine") = v
      /\ v \in Images(c, "engine") /\ v \in Version
  BY <1>1, AcceptedImage
<1>3. Major[v] # 0
  BY <1>2 DEF Sound, Images
<1>4. v # NoVersion
  BY <1>2, VersionAssumption
<1>5. parseMajorVersion(v) = Major[v]
  BY <1>2, <1>3, <1>4 DEF parseMajorVersion
<1> HIDE DEF v
<1>6. Translate(c, i).image = v /\ Translate(c, i).major = parseMajorVersion(v)
  BY <1>2 DEF Translate, v
<1> QED BY <1>2, <1>5, <1>6

(* The operator's two constraints are on every pod, and Sync hands over    *)
(* the others, as often as they are stated (scheduling.go:52-99).          *)
LEMMA TranslationSpreadsAsStated ==
  ASSUME NEW c, NEW i \in Instance, Validate(c, i), NEW list \in i.spread
  PROVE  /\ \A x \in Constraint :
              PodSpread(Translate(c, i).spread)[x] # 0 <=> list[x] # 0
         /\ NoTwoAlike(list) => NoTwoAlike(PodSpread(Translate(c, i).spread))
<1> DEFINE OfOperator(x) == \E key \in operatorSpreadKeys : x = operatorSpread(key)
           pods == PodSpread(Translate(c, i).spread)
<1>1. i.spread = {list} /\ list \in [Constraint -> Nat]
  BY DEF Instance, ConstraintList
<1>2. Pointee(i.spread) = list /\ i.spread # {}
  BY <1>1 DEF Pointee
<1>3. ASSUME NEW x \in Constraint, OfOperator(x)
      PROVE  pods[x] = 1 /\ list[x] # 0
  <2>1. PICK key \in operatorSpreadKeys : x = operatorSpread(key)
    BY <1>3
  <2>2. x.soft /\ x.key = key
    BY <2>1 DEF operatorSpread
  <2>3. collidesWithOperatorSpread(x)
    BY <2>2 DEF collidesWithOperatorSpread
  <2>4. Translate(c, i).spread[x] = 0
    BY <2>3 DEF Translate, instanceSpreadConstraints
  <2>5. list[x] # 0
    BY <1>1, <2>1 DEF Validate, validateSpreadConstraints
  <2> QED BY <1>3, <2>4, <2>5 DEF PodSpread
<1>4. ASSUME NEW x \in Constraint, ~OfOperator(x)
      PROVE  pods[x] = list[x]
  <2>1. collidesWithOperatorSpread(x) => list[x] = 0
    BY <1>1, <1>4 DEF Validate, validateSpreadConstraints, collidesWithOperatorSpread
  <2>2. Translate(c, i).spread[x] = list[x]
    BY <1>2, <2>1 DEF Translate, instanceSpreadConstraints
  <2> QED BY <1>4, <2>2 DEF PodSpread
<1> HIDE DEF OfOperator, pods
<1>5. \A x \in Constraint : pods[x] # 0 <=> list[x] # 0
  BY <1>3, <1>4
<1>6. ASSUME NoTwoAlike(list) PROVE NoTwoAlike(pods)
  <2> SUFFICES ASSUME NEW x \in Constraint, NEW y \in Constraint,
                      pods[x] # 0, pods[y] # 0, x.key = y.key, x.soft = y.soft
               PROVE  x = y /\ pods[x] = 1
    BY DEF NoTwoAlike
  <2>1. x = y /\ list[x] = 1
    BY <1>5, <1>6 DEF NoTwoAlike
  <2> QED BY <1>3, <1>4, <2>1
<1> QED BY <1>5, <1>6 DEF pods

LEMMA TranslationTyped ==
  ASSUME NEW c \in Catalog, NEW i \in Instance, Validate(c, i)
  PROVE  Translate(c, i) \in Specs
<1>1. /\ i.engine \in Settings /\ i.proxy \in Settings
      /\ "engine" \in Component /\ "proxy" \in Component
  BY DEF Instance, Component
<1>2. /\ resolveImage(c, i.engine, "engine") \in Version \cup {NoVersion, OwnImage}
      /\ resolveImage(c, i.proxy, "proxy") \in Version \cup {NoVersion, OwnImage}
  BY <1>1, ImageTyped
<1>3. parseMajorVersion(EffectiveVersion(c, i.engine, "engine")) \in Nat
  BY VersionAssumption DEF parseMajorVersion
<1>4. Pointee(i.proxy.replicas) \in 0 .. 2
  <2>1. validateReplicas(i.proxy, "proxy")
    BY <1>1 DEF Validate, Of
  <2>2. PICK n \in -1 .. 2 : i.proxy.replicas = {n}
    BY <1>1, <2>1 DEF validateReplicas, Settings
  <2>3. n >= 0
    BY <2>1, <2>2 DEF validateReplicas, MinReplicas
  <2>4. Pointee(i.proxy.replicas) = n
    BY <2>2 DEF Pointee
  <2> QED BY <2>2, <2>3, <2>4
<1>5. ServiceExpose(i) \in ServiceType
  BY DEF Instance, ServiceExpose
<1>6. instanceSpreadConstraints(i.spread) \in ConstraintList
  <2>1. i.spread \subseteq ConstraintList
    BY DEF Instance
  <2>2. i.spread # {} => Pointee(i.spread) \in ConstraintList
    BY <2>1 DEF Pointee
  <2> QED BY <2>2 DEF instanceSpreadConstraints, ConstraintList
<1> QED
  BY <1>2, <1>3, <1>4, <1>5, <1>6 DEF Translate, Specs

-----------------------------------------------------------------------------
(* The inductive invariant.                                                *)

Workers == [pc : {"idle", "restores", "apply", "status", "report"},
            desired : Specs, cluster : Clusters, from : Sources]

Phases == {"none", "invalid", "failed", "provisioning", "restoring", "busy",
           "updating", "ready"}

Reports == [phase : Phases, host : Host, uri : Host, spec : Specs]

(* A spec is the translation of accepted settings.                         *)
TranslatedFrom(spec, sources) ==
  \A f \in sources :
    Validate(f.catalog, f.instance) /\ spec = Translate(f.catalog, f.instance)

(* The cluster is, and so is what Sync is about to apply.                  *)
Translated ==
  TranslatedFrom(cluster.spec, from) /\ TranslatedFrom(work.desired, work.from)

(* The host in the operator's status belongs to the spec of the generation *)
(* that it has observed.                                                   *)
HostIsCurrent(c) ==
  /\ c.observed <= c.gen
  /\ c.gen # 0 /\ c.observed = c.gen => c.host \in Hosts(c.spec)

HostsAreCurrent ==
  HostIsCurrent(cluster) /\ HostIsCurrent(seen) /\ HostIsCurrent(work.cluster)

(* Without an event since, the worker has read what is in the cache, and   *)
(* the report is about it.                                                 *)
ReadIsCurrent == At("report") /\ ~queued => work.cluster = seen

ReportIsCurrent ==
  At("idle") /\ ~queued /\ report.phase # "invalid" =>
    /\ report.phase = Phase(seen, restoring)
    /\ report.phase = "ready" => report.spec = seen.spec

IInv ==
  /\ TypeOK
  /\ Translated
  /\ HostsAreCurrent
  /\ ReadIsCurrent
  /\ ReportIsCurrent
  /\ AcceptedSyncs
  /\ EndpointServes

-----------------------------------------------------------------------------
(* Type correctness.                                                       *)

(* The type invariant with its sets named.                                 *)
LEMMA TypeParts ==
  TypeOK <=> /\ instance \in Choices /\ catalog \in Catalogs
             /\ restoring \in BOOLEAN /\ secret \in BOOLEAN
             /\ cluster \in Clusters /\ seen \in Clusters
             /\ from \in Sources
             /\ queued \in BOOLEAN
             /\ work \in Workers
             /\ report \in Reports
             /\ edits \in Nat /\ faults \in Nat
BY DEF TypeOK, Workers, Reports, Phases

LEMMA Initials ==
  /\ NoSpec \in Specs /\ NoCluster \in Clusters
  /\ Idle \in Workers /\ NoReport \in Reports
<1>1. NoSpec \in Specs
  BY DEF NoSpec, Specs, ServiceType, ConstraintList
<1>2. NoCluster \in Clusters
  BY <1>1 DEF NoCluster, Clusters, Stage, Host
<1>3. Idle \in Workers
  BY <1>1, <1>2 DEF Idle, Workers, Sources
<1>4. NoReport \in Reports
  BY <1>1 DEF NoReport, Reports, Phases, Host
<1> QED BY <1>1, <1>2, <1>3, <1>4

LEMMA InitTypes == Init => TypeOK
<1> SUFFICES ASSUME Init PROVE TypeOK
  OBVIOUS
<1>1. /\ instance \in Choices /\ catalog \in Catalogs
      /\ cluster \in Clusters /\ seen \in Clusters /\ from \in Sources
      /\ work \in Workers /\ report \in Reports /\ edits \in Nat /\ faults \in Nat
  BY Initials, ScopeAssumption DEF Init, Sources
<1>2. restoring \in BOOLEAN /\ secret \in BOOLEAN /\ queued \in BOOLEAN
  BY DEF Init
<1> QED BY <1>1, <1>2, TypeParts

(* Status reports phases and hosts (provider.go:345-424).                  *)
LEMMA ReportTyped ==
  ASSUME NEW c \in Clusters, NEW isRestoring, NEW hasSecret
  PROVE  /\ Phase(c, isRestoring) \in Phases
         /\ ReportedHost(c, hasSecret) \in Host
         /\ ReportedURI(c, hasSecret) \in Host
<1>1. Phase(c, isRestoring) \in Phases
  BY DEF Phase, Phases
<1>2. ReportedHost(c, hasSecret) \in Host
  BY DEF ReportedHost, InsideHost, Clusters, Host
<1>3. ReportedURI(c, hasSecret) \in Host
  BY <1>2 DEF ReportedURI, Host
<1> QED BY <1>1, <1>2, <1>3

(* Sync begins with what it will apply (provider.go:127-174).              *)
LEMMA SyncTranslatesTo ==
  ASSUME TypeOK, SyncTranslates
  PROVE  /\ work' = [pc |-> "restores", desired |-> Translate(catalog, instance),
                     cluster |-> NoCluster,
                     from |-> {[instance |-> instance, catalog |-> catalog]}]
         /\ Validate(catalog, instance)
         /\ Translate(catalog, instance) \in Specs
         /\ work' \in Workers
<1>1. /\ catalog \in Catalog /\ instance \in Instance
      /\ instance \in Choices /\ catalog \in Catalogs
  BY TypeParts, ScopeAssumption
<1>2. Accepted(catalog, instance)
  BY DEF SyncTranslates
<1>3. Translate(catalog, instance) \in Specs
  BY <1>1, <1>2, TranslationTyped DEF Accepted
<1>4. work' = [pc |-> "restores", desired |-> Translate(catalog, instance),
               cluster |-> NoCluster,
               from |-> {[instance |-> instance, catalog |-> catalog]}]
  BY DEF SyncTranslates, Idle
<1>5. {[instance |-> instance, catalog |-> catalog]} \in Sources
  BY <1>1 DEF Sources
<1>6. work' \in Workers
  BY <1>3, <1>4, <1>5, Initials DEF Workers
<1> QED BY <1>2, <1>3, <1>4, <1>6 DEF Accepted

(* A spec that changes makes a new generation, one that does not makes     *)
(* none.                                                                   *)
LEMMA SyncAppliesTo ==
  ASSUME TypeOK, SyncApplies
  PROVE  /\ cluster' \in Clusters /\ cluster'.spec = work.desired
         /\ cluster' = cluster \/ (cluster'.gen = cluster.gen + 1
                                    /\ cluster'.observed = cluster.observed)
         /\ work' = [work EXCEPT !.pc = "status"]
<1>0. cluster \in Clusters /\ work.desired \in Specs
  BY TypeParts DEF Workers
<1>1. CASE cluster.gen # 0 /\ cluster.spec = work.desired
  BY <1>0, <1>1 DEF SyncApplies
<1>2. CASE ~(cluster.gen # 0 /\ cluster.spec = work.desired)
  <2> DEFINE with == [cluster EXCEPT !.spec = work.desired]
  <2>1. with \in Clusters /\ with.spec = work.desired /\ with.gen = cluster.gen
        /\ with.observed = cluster.observed
    BY <1>0 DEF Clusters
  <2>2. cluster' = [with EXCEPT !.gen = cluster.gen + 1]
    BY <1>0, <1>2 DEF SyncApplies, Clusters
  <2> HIDE DEF with
  <2>3. cluster' \in Clusters /\ cluster'.spec = work.desired
        /\ cluster'.gen = cluster.gen + 1 /\ cluster'.observed = cluster.observed
    BY <1>0, <2>1, <2>2 DEF Clusters
  <2> QED BY <2>3 DEF SyncApplies
<1> QED BY <1>1, <1>2

(* What Status reports (provider.go:345-424).                              *)
LEMMA StatusReportsThat ==
  ASSUME TypeOK, StatusReports
  PROVE  /\ report' \in Reports
         /\ report'.phase = Phase(work.cluster, restoring)
         /\ report'.phase = "ready" =>
              /\ report'.spec = work.cluster.spec
              /\ report'.host = ReportedHost(work.cluster, secret)
              /\ report'.uri = ReportedURI(work.cluster, secret)
<1>0. work.cluster \in Clusters /\ work.cluster.spec \in Specs
  BY TypeParts DEF Workers, Clusters
<1>1. Phase(work.cluster, restoring) \in Phases
  BY <1>0, ReportTyped
<1>2. CASE Phase(work.cluster, restoring) = "ready"
  BY <1>0, <1>2, ReportTyped DEF StatusReports, Reports, Phases
<1>3. CASE Phase(work.cluster, restoring) # "ready"
  BY <1>1, <1>3, Initials DEF StatusReports, Reports
<1> QED BY <1>2, <1>3

LEMMA WorkerTypes == ASSUME TypeOK, SyncStep \/ StatusStep \/ WorkFails PROVE TypeOK'
<1>0. /\ work \in Workers /\ report \in Reports /\ cluster \in Clusters /\ from \in Sources
      /\ seen \in Clusters /\ queued \in BOOLEAN
      /\ instance \in Choices /\ catalog \in Catalogs
      /\ restoring \in BOOLEAN /\ secret \in BOOLEAN /\ edits \in Nat /\ faults \in Nat
  BY TypeParts
<1>1. UNCHANGED worldVars
  BY DEF SyncStep, StatusStep, SyncRejects, SyncTranslates, SyncChecksRestores, SyncApplies,
     StatusReadsCluster, StatusReports, WorkFails
<1>2. /\ instance' \in Choices /\ catalog' \in Catalogs
      /\ restoring' \in BOOLEAN /\ secret' \in BOOLEAN /\ edits' \in Nat
  BY <1>0, <1>1 DEF worldVars
<1>3. faults' \in Nat
  BY <1>0 DEF SyncStep, StatusStep, SyncRejects, SyncTranslates, SyncChecksRestores,
     SyncApplies, StatusReadsCluster, StatusReports, WorkFails
<1>4. queued' \in BOOLEAN
  <2>1. CASE SyncRejects
    BY <2>1 DEF SyncRejects, Accepted
  <2>2. CASE SyncTranslates \/ WorkFails
    BY <2>2 DEF SyncTranslates, WorkFails
  <2>3. CASE SyncChecksRestores \/ SyncApplies \/ StatusReadsCluster \/ StatusReports
    BY <1>0, <2>3 DEF SyncChecksRestores, SyncApplies, StatusReadsCluster, StatusReports
  <2> QED BY <2>1, <2>2, <2>3 DEF SyncStep, StatusStep
<1>5. work' \in Workers
  <2>1. CASE SyncRejects
    BY <1>0, <2>1 DEF SyncRejects
  <2>2. CASE SyncTranslates
    BY <2>2, SyncTranslatesTo
  <2>3. CASE SyncChecksRestores
    <3>1. PICK pc \in {"status", "apply"} : work' = [work EXCEPT !.pc = pc]
      BY <2>3 DEF SyncChecksRestores
    <3> QED BY <1>0, <3>1 DEF Workers
  <2>4. CASE SyncApplies
    BY <1>0, <2>4, SyncAppliesTo DEF Workers
  <2>5. CASE StatusReadsCluster
    <3>1. work' = [pc |-> "report", desired |-> NoSpec, cluster |-> seen, from |-> {}]
      BY <2>5 DEF StatusReadsCluster, Idle
    <3>2. NoSpec \in Specs /\ {} \in Sources
      BY Initials DEF Sources
    <3> QED BY <1>0, <3>1, <3>2 DEF Workers
  <2>6. CASE StatusReports \/ WorkFails
    BY <2>6, Initials DEF StatusReports, WorkFails
  <2> QED BY <2>1, <2>2, <2>3, <2>4, <2>5, <2>6 DEF SyncStep, StatusStep
<1>6. report' \in Reports
  <2>1. CASE SyncRejects
    <3>1. PICK ph \in {"failed", "invalid"} : report' = [NoReport EXCEPT !.phase = ph]
      BY <2>1 DEF SyncRejects
    <3> QED BY <3>1, Initials DEF Reports, Phases
  <2>2. CASE StatusReports
    BY <2>2, StatusReportsThat
  <2>3. CASE ~SyncRejects /\ ~StatusReports
    BY <1>0, <2>3 DEF SyncStep, StatusStep, SyncTranslates, SyncChecksRestores, SyncApplies,
       StatusReadsCluster, WorkFails
  <2> QED BY <2>1, <2>2, <2>3
<1>7. cluster' \in Clusters /\ from' \in Sources /\ seen' \in Clusters
  <2>1. CASE SyncApplies
    <3>1. cluster' \in Clusters
      BY <2>1, SyncAppliesTo
    <3> QED BY <1>0, <2>1, <3>1 DEF SyncApplies, Workers
  <2>2. CASE ~SyncApplies
    BY <1>0, <2>2 DEF SyncStep, StatusStep, SyncRejects, SyncTranslates, SyncChecksRestores,
       StatusReadsCluster, StatusReports, WorkFails, clusterVars
  <2> QED BY <2>1, <2>2
<1> QED
  BY <1>2, <1>3, <1>4, <1>5, <1>6, <1>7 DEF TypeOK, Workers, Reports, Phases

(* What the operator does to the cluster (its status only).                *)
LEMMA OperatorWrites ==
  ASSUME TypeOK, OperatorStep \/ PodFails
  PROVE  /\ cluster' \in Clusters
         /\ cluster'.spec = cluster.spec /\ cluster'.gen = cluster.gen
         /\ \/ cluster'.observed = cluster.gen /\ cluster'.host \in Hosts(cluster.spec)
            \/ cluster'.observed = cluster.observed /\ cluster'.host = cluster.host
         /\ secret' \in BOOLEAN /\ faults' \in Nat
         /\ UNCHANGED <<instance, catalog, restoring, from, seen, queued, work, report, edits>>
<1>0. cluster \in Clusters /\ cluster.spec \in Specs /\ secret \in BOOLEAN /\ faults \in Nat
  BY TypeParts DEF Clusters
<1>1. Hosts(cluster.spec) \subseteq Host
  BY DEF Hosts, Host
<1>2. CASE OperatorObserves
  <2>1. PICK stage \in Stage, host \in Hosts(cluster.spec) :
          cluster' = [cluster EXCEPT !.observed = cluster.gen, !.stage = stage, !.host = host]
    BY <1>2 DEF OperatorObserves
  <2>2. cluster' = [spec |-> cluster.spec, gen |-> cluster.gen, observed |-> cluster.gen,
                    stage |-> stage, host |-> host]
    BY <1>0, <2>1 DEF Clusters
  <2>3. cluster' \in Clusters
    BY <1>0, <1>1, <2>2 DEF Clusters
  <2> QED BY <1>0, <1>2, <2>2, <2>3 DEF OperatorObserves
<1>3. CASE OperatorFinishes
  <2>1. PICK host \in Hosts(cluster.spec) :
          cluster' = [cluster EXCEPT !.stage = "up", !.host = host]
    BY <1>3 DEF OperatorFinishes
  <2>2. cluster' = [spec |-> cluster.spec, gen |-> cluster.gen, observed |-> cluster.observed,
                    stage |-> "up", host |-> host]
    BY <1>0, <2>1 DEF Clusters
  <2>3. cluster' \in Clusters
    BY <1>0, <1>1, <2>2 DEF Clusters, Stage
  <2> QED BY <1>0, <1>3, <2>2, <2>3 DEF OperatorFinishes
<1>4. CASE PodFails
  <2>1. PICK stage \in Stage : cluster' = [cluster EXCEPT !.stage = stage]
    BY <1>4 DEF PodFails
  <2>2. cluster' = [spec |-> cluster.spec, gen |-> cluster.gen, observed |-> cluster.observed,
                    stage |-> stage, host |-> cluster.host]
    BY <1>0, <2>1 DEF Clusters
  <2>3. cluster' \in Clusters
    BY <1>0, <2>2 DEF Clusters
  <2> QED BY <1>0, <1>4, <2>2, <2>3 DEF PodFails
<1> QED BY <1>2, <1>3, <1>4 DEF OperatorStep

(* Events and users queue the Instance, except that a deleted Secret does  *)
(* not (provider.go:58-75).                                                *)
LEMMA EventsQueue ==
  ASSUME TypeOK, Deliver \/ RestoreEnds \/ UserStep
  PROVE  /\ TypeOK'
         /\ UNCHANGED <<cluster, from, report>>
         /\ seen' \in {seen, cluster}
         /\ work' \in {work, Idle}
         /\ queued' \/ UNCHANGED <<queued, seen, work, restoring>>
<1>0. /\ work \in Workers /\ report \in Reports /\ cluster \in Clusters /\ from \in Sources
      /\ seen \in Clusters /\ queued \in BOOLEAN
      /\ instance \in Choices /\ catalog \in Catalogs
      /\ restoring \in BOOLEAN /\ secret \in BOOLEAN /\ edits \in Nat /\ faults \in Nat
  BY TypeParts
<1> USE DEF Deliver, RestoreEnds, UserStep, UserRestores, UserChanges, UserDeletesSecret,
            Upgrade, RestoreEnqueues, clusterVars, worldVars
<1>1. /\ UNCHANGED <<cluster, from, report>>
      /\ seen' \in {seen, cluster} /\ work' \in {work, Idle}
  OBVIOUS
<1>2. queued' \/ UNCHANGED <<queued, seen, work, restoring>>
  OBVIOUS
<1>3. instance' \in Choices /\ catalog' \in Catalogs /\ edits' \in Nat /\ faults' \in Nat
  BY <1>0
<1>4. restoring' \in BOOLEAN /\ secret' \in BOOLEAN /\ queued' \in BOOLEAN
  BY <1>0
<1>5. work' \in Workers /\ seen' \in Clusters
  BY <1>0, <1>1, Initials
<1>6. TypeOK'
  BY <1>0, <1>1, <1>3, <1>4, <1>5 DEF TypeOK, Workers, Reports, Phases
<1> QED BY <1>1, <1>2, <1>6

LEMMA NextTypes == ASSUME TypeOK, [Next]_vars PROVE TypeOK'
<1>1. CASE OperatorStep \/ PodFails
  BY <1>1, OperatorWrites DEF TypeOK
<1>2. CASE UNCHANGED vars
  BY <1>2 DEF vars, TypeOK
<1> QED BY <1>1, <1>2, WorkerTypes, EventsQueue DEF Next

(* Every reachable state is well typed.                                    *)
THEOREM TypeCorrect == Spec => []TypeOK
<1>1. TypeOK /\ [Next]_vars => TypeOK'
  BY NextTypes
<1> QED BY <1>1, InitTypes, PTL DEF Spec

-----------------------------------------------------------------------------
(* Induction.                                                              *)

(* A report of Ready about a cluster whose host is current names an        *)
(* endpoint that serves: the status of the operator counts only when it is *)
(* about the current generation (provider.go:345-424).                     *)
LEMMA ReadyServes ==
  ASSUME NEW c \in Clusters, HostIsCurrent(c), NEW isRestoring, NEW hasSecret,
         Phase(c, isRestoring) = "ready"
  PROVE  /\ ReportedURI(c, hasSecret) \in {"none", ReportedHost(c, hasSecret)}
         /\ ReportedURI(c, hasSecret) # "none" \/ BouncerOn(c.spec)
              => ReportedHost(c, hasSecret) = Endpoint(c.spec)
<1>1. c.gen # 0 /\ c.observed \in Nat /\ c.gen \in Nat
  BY DEF Phase, Clusters
<1>2. c.observed = c.gen
  BY <1>1 DEF Phase, HostIsCurrent
<1>3. c.host \in Hosts(c.spec)
  BY <1>1, <1>2 DEF HostIsCurrent
<1>4. CASE LoadBalanced(c.spec)
  <2>1. c.host # "none"
    BY <1>4 DEF Phase
  <2>2. c.host = "external"
    BY <1>3, <1>4, <2>1 DEF LoadBalanced, Hosts
  <2> QED BY <1>4, <2>2 DEF ReportedURI, ReportedHost, LoadBalanced, Endpoint
<1>5. CASE ~LoadBalanced(c.spec) /\ hasSecret
  BY <1>5 DEF ReportedURI, ReportedHost, InsideHost, LoadBalanced, Endpoint
<1>6. CASE ~LoadBalanced(c.spec) /\ ~hasSecret
  <2>1. ReportedURI(c, hasSecret) = "none" /\ ReportedHost(c, hasSecret) = c.host
    BY <1>6 DEF ReportedURI, ReportedHost, InsideHost
  <2>2. BouncerOn(c.spec) => c.host = "bouncer" /\ Endpoint(c.spec) = "bouncer"
    BY <1>3, <1>6 DEF LoadBalanced, Hosts, Endpoint
  <2> QED BY <2>1, <2>2
<1> QED BY <1>4, <1>5, <1>6

LEMMA InitInv == Init => IInv
<1> SUFFICES ASSUME Init PROVE IInv
  OBVIOUS
<1>1. Translated
  BY DEF Init, Translated, TranslatedFrom, Idle
<1>2. HostIsCurrent(NoCluster)
  BY DEF HostIsCurrent, NoCluster
<1>3. HostsAreCurrent
  BY <1>2 DEF Init, HostsAreCurrent, Idle
<1>4. ReadIsCurrent /\ ReportIsCurrent
  BY DEF Init, ReadIsCurrent, ReportIsCurrent
<1>5. AcceptedSyncs /\ EndpointServes
  BY DEF Init, AcceptedSyncs, EndpointServes, NoReport
<1> QED BY <1>1, <1>3, <1>4, <1>5, InitTypes DEF IInv

LEMMA SyncKeepsInv == ASSUME IInv, SyncStep, TypeOK' PROVE IInv'
<1> USE DEF At
<1>0. /\ TypeOK /\ work \in Workers /\ cluster \in Clusters
      /\ NoReport \in Reports /\ NoReport.phase = "none"
  BY TypeParts, Initials DEF IInv, NoReport
<1>1. CASE SyncRejects
  <2>1. catalog \in Catalog /\ Sound(catalog) /\ instance \in Instance
    BY <1>0, TypeParts, ScopeAssumption, CatalogAssumption
  <2>2. ~Accepted(catalog, instance)
    BY <1>1, <2>1, AcceptedTranslates DEF SyncRejects
  <2>3. report' = [NoReport EXCEPT !.phase = "invalid"]
    BY <1>1, <2>2 DEF SyncRejects
  <2>4. report'.phase = "invalid"
    BY <1>0, <2>3 DEF Reports
  <2>5. UNCHANGED <<work, restoring, cluster, from, seen>> /\ work.pc = "idle"
    BY <1>1 DEF SyncRejects, worldVars, clusterVars
  <2>6. Translated' /\ HostsAreCurrent' /\ ReadIsCurrent'
    BY <2>5 DEF IInv, Translated, TranslatedFrom, HostsAreCurrent, HostIsCurrent, ReadIsCurrent
  <2>7. ReportIsCurrent' /\ AcceptedSyncs' /\ EndpointServes'
    BY <2>4 DEF ReportIsCurrent, AcceptedSyncs, EndpointServes
  <2> QED BY <2>6, <2>7 DEF IInv
<1>2. CASE SyncTranslates
  <2>1. /\ work'.pc = "restores" /\ work'.desired = Translate(catalog, instance)
        /\ work'.from = {[instance |-> instance, catalog |-> catalog]}
        /\ work'.cluster = NoCluster
        /\ Validate(catalog, instance)
    BY <1>0, <1>2, SyncTranslatesTo
  <2>2. UNCHANGED <<report, cluster, from, seen>>
    BY <1>2 DEF SyncTranslates, clusterVars
  <2>3. Translated'
    BY <2>1, <2>2 DEF IInv, Translated, TranslatedFrom
  <2>4. HostIsCurrent(NoCluster)
    BY DEF HostIsCurrent, NoCluster
  <2>5. HostsAreCurrent'
    BY <2>1, <2>2, <2>4 DEF IInv, HostsAreCurrent, HostIsCurrent
  <2>6. ReadIsCurrent' /\ ReportIsCurrent' /\ AcceptedSyncs' /\ EndpointServes'
    BY <2>1, <2>2 DEF IInv, ReadIsCurrent, ReportIsCurrent, AcceptedSyncs, EndpointServes
  <2> QED BY <2>3, <2>5, <2>6 DEF IInv
<1>3. CASE SyncChecksRestores
  <2>1. PICK pc \in {"status", "apply"} : work' = [work EXCEPT !.pc = pc]
    BY <1>3 DEF SyncChecksRestores
  <2>2. /\ work'.pc = pc /\ work'.desired = work.desired /\ work'.from = work.from
        /\ work'.cluster = work.cluster
    BY <1>0, <2>1 DEF Workers
  <2>3. UNCHANGED <<report, cluster, from, seen>>
    BY <1>3 DEF SyncChecksRestores, clusterVars
  <2> QED
    BY <2>2, <2>3
       DEF IInv, Translated, TranslatedFrom, HostsAreCurrent, HostIsCurrent, ReadIsCurrent,
           ReportIsCurrent, AcceptedSyncs, EndpointServes
<1>4. CASE SyncApplies
  <2>1. /\ work'.pc = "status" /\ work'.desired = work.desired /\ work'.from = work.from
        /\ work'.cluster = work.cluster
    BY <1>0, <1>4, SyncAppliesTo DEF Workers
  <2>2. from' = work.from /\ UNCHANGED <<report, seen>>
    BY <1>4 DEF SyncApplies
  <2>3. Translated'
    BY <1>0, <1>4, <2>1, <2>2, SyncAppliesTo DEF IInv, Translated, TranslatedFrom
  <2>4. HostIsCurrent(cluster)'
    <3>1. HostIsCurrent(cluster) /\ cluster.observed \in Nat /\ cluster.gen \in Nat
      BY <1>0 DEF IInv, HostsAreCurrent, Clusters
    <3>2. CASE cluster' = cluster
      BY <3>1, <3>2 DEF HostIsCurrent
    <3>3. CASE cluster'.gen = cluster.gen + 1 /\ cluster'.observed = cluster.observed
      BY <3>1, <3>3 DEF HostIsCurrent
    <3> QED BY <1>0, <1>4, <3>2, <3>3, SyncAppliesTo
  <2>5. HostsAreCurrent'
    BY <2>1, <2>2, <2>4 DEF IInv, HostsAreCurrent, HostIsCurrent
  <2>6. ReadIsCurrent' /\ ReportIsCurrent' /\ AcceptedSyncs' /\ EndpointServes'
    BY <2>1, <2>2 DEF IInv, ReadIsCurrent, ReportIsCurrent, AcceptedSyncs, EndpointServes
  <2> QED BY <2>3, <2>5, <2>6 DEF IInv
<1> QED BY <1>1, <1>2, <1>3, <1>4 DEF SyncStep

LEMMA StatusKeepsInv == ASSUME IInv, StatusStep \/ WorkFails, TypeOK' PROVE IInv'
<1> USE DEF At
<1>0. /\ TypeOK /\ work \in Workers /\ Idle \in Workers /\ work.cluster \in Clusters
      /\ Idle.pc = "idle" /\ Idle.from = {} /\ Idle.cluster = NoCluster
  BY TypeParts, Initials DEF IInv, Workers, Idle
<1>1. HostIsCurrent(NoCluster)
  BY DEF HostIsCurrent, NoCluster
<1>2. CASE StatusReadsCluster
  <2>1. work' = [pc |-> "report", desired |-> NoSpec, cluster |-> seen, from |-> {}]
    BY <1>2 DEF StatusReadsCluster, Idle
  <2>2. work'.pc = "report" /\ work'.cluster = seen /\ work'.from = {}
    BY <2>1
  <2>3. UNCHANGED <<report, cluster, from, seen>>
    BY <1>2 DEF StatusReadsCluster, clusterVars
  <2> QED
    BY <2>2, <2>3
       DEF IInv, Translated, TranslatedFrom, HostsAreCurrent, HostIsCurrent, ReadIsCurrent,
           ReportIsCurrent, AcceptedSyncs, EndpointServes
<1>3. CASE StatusReports
  <2>1. work' = Idle /\ UNCHANGED <<queued, restoring, cluster, from, seen>> /\ work.pc = "report"
    BY <1>3 DEF StatusReports, worldVars, clusterVars
  <2>2. Translated'
    BY <1>0, <2>1 DEF IInv, Translated, TranslatedFrom
  <2>3. HostsAreCurrent'
    BY <1>0, <1>1, <2>1 DEF IInv, HostsAreCurrent, HostIsCurrent
  <2>4. ReadIsCurrent'
    BY <1>0, <2>1 DEF ReadIsCurrent
  <2>5. ReportIsCurrent'
    BY <1>0, <1>3, <2>1, StatusReportsThat DEF IInv, ReadIsCurrent, ReportIsCurrent
  <2>6. AcceptedSyncs'
    BY <1>0, <1>3, StatusReportsThat DEF AcceptedSyncs, Phase
  <2>7. EndpointServes'
    <3>1. HostIsCurrent(work.cluster)
      BY DEF IInv, HostsAreCurrent
    <3> QED BY <1>0, <1>3, <3>1, StatusReportsThat, ReadyServes DEF EndpointServes
  <2> QED BY <2>2, <2>3, <2>4, <2>5, <2>6, <2>7 DEF IInv
<1>4. CASE WorkFails
  <2>1. work' = Idle /\ queued' /\ UNCHANGED <<report, restoring, cluster, from, seen>>
    BY <1>4 DEF WorkFails, worldVars, clusterVars
  <2>2. Translated' /\ HostsAreCurrent'
    BY <1>0, <1>1, <2>1
       DEF IInv, Translated, TranslatedFrom, HostsAreCurrent, HostIsCurrent
  <2>3. ReadIsCurrent' /\ ReportIsCurrent' /\ AcceptedSyncs' /\ EndpointServes'
    BY <2>1 DEF IInv, ReadIsCurrent, ReportIsCurrent, AcceptedSyncs, EndpointServes
  <2> QED BY <2>2, <2>3 DEF IInv
<1> QED BY <1>2, <1>3, <1>4 DEF StatusStep

LEMMA WorldKeepsInv ==
  ASSUME IInv, TypeOK', Deliver \/ RestoreEnds \/ UserStep \/ OperatorStep \/ PodFails
  PROVE  IInv'
<1> USE DEF At
<1>0. /\ TypeOK /\ cluster \in Clusters /\ Idle.pc = "idle" /\ Idle.from = {}
      /\ Idle.cluster = NoCluster
  BY TypeParts DEF IInv, Idle
<1>1. HostIsCurrent(NoCluster)
  BY DEF HostIsCurrent, NoCluster
<1>2. CASE Deliver \/ RestoreEnds \/ UserStep
  <2>1. /\ UNCHANGED <<cluster, from, report>>
        /\ seen' \in {seen, cluster} /\ work' \in {work, Idle}
        /\ queued' \/ UNCHANGED <<queued, seen, work, restoring>>
    BY <1>0, <1>2, EventsQueue
  <2>2. Translated'
    BY <1>0, <2>1 DEF IInv, Translated, TranslatedFrom
  <2>3. HostsAreCurrent'
    BY <1>0, <1>1, <2>1 DEF IInv, HostsAreCurrent, HostIsCurrent
  <2>4. ReadIsCurrent' /\ ReportIsCurrent'
    BY <2>1 DEF IInv, ReadIsCurrent, ReportIsCurrent
  <2>5. AcceptedSyncs' /\ EndpointServes'
    BY <2>1 DEF IInv, AcceptedSyncs, EndpointServes
  <2> QED BY <2>2, <2>3, <2>4, <2>5 DEF IInv
<1>3. CASE OperatorStep \/ PodFails
  <2>1. /\ cluster'.spec = cluster.spec /\ cluster'.gen = cluster.gen
        /\ \/ cluster'.observed = cluster.gen /\ cluster'.host \in Hosts(cluster.spec)
           \/ cluster'.observed = cluster.observed /\ cluster'.host = cluster.host
        /\ UNCHANGED <<restoring, from, seen, queued, work, report>>
    BY <1>0, <1>3, OperatorWrites
  <2>2. Translated'
    BY <2>1 DEF IInv, Translated, TranslatedFrom
  <2>3. HostsAreCurrent'
    <3>1. HostIsCurrent(cluster) /\ cluster.gen \in Nat
      BY <1>0 DEF IInv, HostsAreCurrent, Clusters
    <3>2. HostIsCurrent(cluster)'
      BY <2>1, <3>1 DEF HostIsCurrent
    <3> QED BY <2>1, <3>2 DEF IInv, HostsAreCurrent, HostIsCurrent
  <2>4. ReadIsCurrent' /\ ReportIsCurrent' /\ AcceptedSyncs' /\ EndpointServes'
    BY <2>1 DEF IInv, ReadIsCurrent, ReportIsCurrent, AcceptedSyncs, EndpointServes
  <2> QED BY <2>2, <2>3, <2>4 DEF IInv
<1> QED BY <1>2, <1>3

LEMMA NextInv == ASSUME IInv, [Next]_vars PROVE IInv'
<1>0. TypeOK'
  BY NextTypes DEF IInv
<1>1. CASE Next
  BY <1>0, <1>1, SyncKeepsInv, StatusKeepsInv, WorldKeepsInv DEF Next
<1>2. CASE UNCHANGED vars
  BY <1>0, <1>2
     DEF vars, IInv, Translated, TranslatedFrom, HostsAreCurrent, HostIsCurrent,
         ReadIsCurrent, ReportIsCurrent, AcceptedSyncs, EndpointServes, At
<1> QED BY <1>1, <1>2

LEMMA Invariance == Spec => []IInv
<1>1. IInv /\ [Next]_vars => IInv'
  BY NextInv
<1> QED BY <1>1, InitInv, PTL DEF Spec

-----------------------------------------------------------------------------
(* What follows.                                                           *)

(* Sync never meets an error of its own in settings that Validate and the  *)
(* runtime have let through, whichever release's catalog they meet         *)
(* (provider.go:127-214).                                                  *)
THEOREM AcceptedSettingsSync == Spec => []AcceptedSyncs
<1>1. IInv => AcceptedSyncs
  BY DEF IInv
<1> QED BY <1>1, Invariance, PTL

(* The cluster always runs the major version that the operator is told     *)
(* (provider.go:146-166).                                                  *)
THEOREM ClusterRunsItsMajor == Spec => []RunsItsMajor
<1>1. IInv => RunsItsMajor
  <2> SUFFICES ASSUME IInv, NEW f \in from, ~f.instance.engine.image
               PROVE  /\ cluster.spec.image \in Version
                      /\ Major[cluster.spec.image] = cluster.spec.major
    BY DEF RunsItsMajor
  <2>1. f.instance \in Instance /\ f.catalog \in Catalog /\ Sound(f.catalog)
    BY TypeParts, ScopeAssumption, CatalogAssumption DEF IInv, Sources
  <2>2. /\ Validate(f.catalog, f.instance)
        /\ cluster.spec = Translate(f.catalog, f.instance)
    BY DEF IInv, Translated, TranslatedFrom
  <2> QED BY <2>1, <2>2, TranslationRunsItsMajor
<1> QED BY <1>1, Invariance, PTL

(* The pods always get the constraints that the user stated, and no two    *)
(* alike from a list without such (scheduling.go:52-99).                   *)
THEOREM PodsSpreadAsStated == Spec => []SpreadAsStated
<1>1. IInv => SpreadAsStated
  <2> SUFFICES ASSUME IInv, NEW f \in from, NEW list \in f.instance.spread
               PROVE  /\ \A x \in Constraint :
                           PodSpread(cluster.spec.spread)[x] # 0 <=> list[x] # 0
                      /\ NoTwoAlike(list) => NoTwoAlike(PodSpread(cluster.spec.spread))
    BY DEF SpreadAsStated
  <2>1. f.instance \in Instance
    BY TypeParts, ScopeAssumption DEF IInv, Sources
  <2>2. /\ Validate(f.catalog, f.instance)
        /\ cluster.spec = Translate(f.catalog, f.instance)
    BY DEF IInv, Translated, TranslatedFrom
  <2> QED BY <2>1, <2>2, TranslationSpreadsAsStated
<1> QED BY <1>1, Invariance, PTL

(* A report of Ready names the endpoint of the spec that it is about       *)
(* (provider.go:345-424).                                                  *)
THEOREM ReportedEndpointServes == Spec => []EndpointServes
<1>1. IInv => EndpointServes
  BY DEF IInv
<1> QED BY <1>1, Invariance, PTL

(* Once all is quiet the report is what Status would say                   *)
(* (provider.go:58-75).                                                    *)
THEOREM NoWakeupIsLost == Spec => []NoLostWakeup
<1>1. IInv => NoLostWakeup
  BY DEF IInv, ReportIsCurrent, NoLostWakeup
<1> QED BY <1>1, Invariance, PTL

=============================================================================
