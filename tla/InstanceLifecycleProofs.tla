---------------------- MODULE InstanceLifecycleProofs ----------------------
(***************************************************************************)
(* Theorems about InstanceLifecycle: type correctness, that the agents of  *)
(* PMM always find a token, that only "not required" switches PMM off, and *)
(* that a deleted Instance leaves nothing behind, each up to what a single *)
(* old read can do; nothing is assumed of how far the cache lags.          *)
(***************************************************************************)
EXTENDS InstanceLifecycle, TLAPS

Places == {"idle", "live", "forget", "render", "mirror", "restores", "apply",
           "delete", "list", "remove"}

Workers == [pc : Places, need : Needs, token : Token \cup {NoToken},
            desired : BOOLEAN, found : SUBSET Secret, overlooks : BOOLEAN]

(* The part of the type invariant that is about the world.                 *)
WorldOK ==
  /\ instance \in {"live", "deleting", "gone"}
  /\ need \in Needs
  /\ token \in Token \cup {NoToken}
  /\ cluster \in Clusters /\ seen \in Clusters
  /\ pmmSecret \in Token \cup {NoToken}
  /\ secrets \subseteq Secret
  /\ restoring \in BOOLEAN
  /\ misled \in BOOLEAN
  /\ edits \in 0 .. MaxEdits
  /\ faults \in 0 .. MaxFaults

WorkOK ==
  /\ work \in Workers
  /\ At("mirror") => work.token \in Token

(* The type invariant in its two parts.                                    *)
LEMMA Parts == TypeOK <=> WorldOK /\ WorkOK
BY DEF TypeOK, WorldOK, WorkOK, Workers, Places

-----------------------------------------------------------------------------
(* What the worker relies on.                                              *)

(* It only switches PMM on, or leaves it on, with the token in place       *)
(* (monitoring.go:61-108).                                                 *)
DesiredHasToken == work.desired => pmmSecret # NoToken \/ misled

(* It forgets the token only when PMM is off, in the cluster and for later *)
(* reads of it, and is to stay off.                                        *)
ForgetsWhenOff ==
  At("forget") =>
    /\ ~work.desired
    /\ (~cluster.pmm /\ ~seen.pmm) \/ work.overlooks

(* It drops PMM from a cluster that has it only for "not required".        *)
DropsWhenNotRequired ==
  work.pc \in {"forget", "render", "mirror", "restores", "apply"}
      /\ cluster.pmm /\ ~work.desired
    => work.need = "notRequired" \/ work.overlooks

(* Once Cleanup looks for Secrets the cluster is gone for good, and it has *)
(* found all that are left.                                                *)
CleanupAlone ==
  /\ work.pc \in {"list", "remove"} =>
       (cluster = NoCluster /\ seen = NoCluster) \/ work.overlooks
  /\ At("remove") => secrets \subseteq work.found \/ work.overlooks

(* The cache is an earlier cluster: it shows PMM only with the token in    *)
(* place, so that what it shows may be left on.                            *)
CacheKnows ==
  /\ seen.pmm => pmmSecret # NoToken \/ misled
  /\ cluster.state = "absent" => ~cluster.pmm
  /\ seen.state = "absent" => ~seen.pmm

(* An Instance that is gone has no worker, one in Cleanup is not live.     *)
GoneIsIdle ==
  /\ instance = "gone" => At("idle")
  /\ work.pc \in {"delete", "list", "remove"} => instance = "deleting"

IInv ==
  /\ TypeOK
  /\ AgentsHaveToken
  /\ DesiredHasToken
  /\ ForgetsWhenOff
  /\ DropsWhenNotRequired
  /\ CleanupAlone
  /\ CacheKnows
  /\ GoneIsIdle
  /\ NothingIsLeft

-----------------------------------------------------------------------------
(* Type correctness.                                                       *)

LEMMA InitTypes == Init => TypeOK
<1>1. Idle \in Workers /\ Idle.pc = "idle"
  BY DEF Idle, Workers, Places, Needs
<1>2. NoCluster \in Clusters
  BY DEF NoCluster, Clusters
<1>3. Init => WorkOK
  BY <1>1 DEF Init, WorkOK, At
<1>4. Init => restoring \in BOOLEAN /\ misled \in BOOLEAN
  BY DEF Init
<1>5. Init => WorldOK
  BY <1>2, <1>4, BoundsAssumption DEF Init, WorldOK
<1> QED BY <1>3, <1>5, Parts

(* A step of the worker that leaves the world alone (the reads of Sync and *)
(* Cleanup).                                                               *)
LEMMA ReadKeepsTypes ==
  ASSUME TypeOK, WorkOK',
         UNCHANGED <<instance, cluster, pmmSecret, secrets, faults, misled, outerVars>>
  PROVE  TypeOK'
BY Parts DEF TypeOK, WorkOK, Workers, Places, outerVars

(* Two fields of the worker are written together (applyPMM's locals).      *)
LEMMA WorkerTyped ==
  ASSUME WorkOK, NEW pc \in Places, NEW d \in BOOLEAN, NEW t \in Token \cup {NoToken},
         NEW F \in SUBSET Secret
  PROVE  /\ [work EXCEPT !.pc = pc] \in Workers
         /\ [work EXCEPT !.desired = d] \in Workers
         /\ [work EXCEPT !.token = t] \in Workers
         /\ [work EXCEPT !.found = F] \in Workers
         /\ Idle \in Workers
BY DEF WorkOK, Workers, Idle, Needs, Places

LEMMA SyncTypes == ASSUME TypeOK, SyncStep PROVE TypeOK'
<1>0. WorkOK /\ WorldOK /\ work \in Workers
  BY Parts DEF WorkOK
<1>1. CASE SyncBegin
  <2>1. work' \in Workers /\ work'.pc = "live"
    BY <1>0, <1>1 DEF SyncBegin, Workers, WorldOK, Idle, Places, Needs
  <2>2. WorkOK'
    BY <2>1 DEF WorkOK, At, Workers
  <2> QED BY <1>1, <2>2, ReadKeepsTypes DEF SyncBegin
<1>2. CASE SyncReadsLive
  <2>1. PICK pc \in {"render", "forget", "restores"}, d \in BOOLEAN, o \in BOOLEAN :
          work' = [work EXCEPT !.desired = d, !.overlooks = o, !.pc = pc]
    BY <1>0, <1>2 DEF SyncReadsLive, WorldOK, Clusters, Live, OverlooksPMM
  <2>2. work' \in Workers /\ work'.pc = pc
    BY <1>0, <2>1 DEF Workers, Places
  <2>3. WorkOK'
    BY <2>2 DEF WorkOK, At, Workers
  <2> QED BY <1>2, <2>3, ReadKeepsTypes DEF SyncReadsLive
<1>3. CASE SyncForgets
  <2>1. work' \in Workers /\ work'.pc = "restores"
    BY <1>0, <1>3 DEF SyncForgets, Goes, Workers, Places
  <2>2. WorkOK'
    BY <2>1 DEF WorkOK, At, Workers
  <2>4. misled' \in BOOLEAN
    BY <1>0, <1>3 DEF SyncForgets, Workers
  <2>3. WorldOK'
    BY <1>0, <1>3, <2>4 DEF SyncForgets, WorldOK, outerVars
  <2> QED BY <2>2, <2>3, Parts DEF TypeOK, WorkOK, WorldOK, Workers, Places
<1>4. CASE SyncRenders
  <2>1. \/ work' = [work EXCEPT !.pc = "mirror", !.token = token] /\ token \in Token
        \/ work' = [work EXCEPT !.pc = "restores"]
    BY <1>0, <1>4 DEF SyncRenders, Renderable, WorldOK
  <2>2. work' \in Workers /\ (work'.pc = "mirror" => work'.token \in Token)
    BY <1>0, <2>1 DEF Workers, Places
  <2>3. WorkOK'
    BY <2>2 DEF WorkOK, At, Workers
  <2> QED BY <1>4, <2>3, ReadKeepsTypes DEF SyncRenders
<1>5. CASE SyncMirrors
  <2>1. work' \in Workers /\ work'.pc = "restores"
    BY <1>0, <1>5 DEF SyncMirrors, Workers, Places
  <2>2. WorkOK'
    BY <2>1 DEF WorkOK, At, Workers
  <2>3. WorldOK'
    BY <1>0, <1>5 DEF SyncMirrors, Copied, WorldOK, WorkOK, At, outerVars
  <2> QED BY <2>2, <2>3, Parts DEF TypeOK, WorkOK, WorldOK, Workers, Places
<1>6. CASE SyncChecksRestores
  <2>1. work' \in Workers /\ work'.pc \in {"idle", "apply"}
    BY <1>0, <1>6 DEF SyncChecksRestores, Workers, Places, Idle, Needs
  <2>2. WorkOK'
    BY <2>1 DEF WorkOK, At, Workers
  <2> QED BY <1>6, <2>2, ReadKeepsTypes DEF SyncChecksRestores
<1>7. CASE SyncApplies
  <2>1. work' \in Workers /\ work'.pc = "idle"
    BY <1>7 DEF SyncApplies, Workers, Places, Idle, Needs
  <2>2. WorkOK'
    BY <2>1 DEF WorkOK, At, Workers
  <2>3. PICK s \in {"live", "deleting"} :
          cluster' = [cluster EXCEPT !.pmm = work.desired, !.state = s]
    BY <1>0, <1>7 DEF SyncApplies, WorldOK, Clusters
  <2>4. cluster' \in Clusters
    BY <1>0, <2>3 DEF WorldOK, Clusters, Workers
  <2>5. WorldOK'
    BY <1>0, <1>7, <2>4 DEF SyncApplies, WorldOK, outerVars
  <2> QED BY <2>2, <2>5, Parts DEF TypeOK, WorkOK, WorldOK, Workers, Places
<1> QED
  BY <1>1, <1>2, <1>3, <1>4, <1>5, <1>6, <1>7 DEF SyncStep

LEMMA CleanupTypes == ASSUME TypeOK, CleanupStep \/ WorkFails PROVE TypeOK'
<1>0. WorkOK /\ WorldOK /\ work \in Workers /\ Idle \in Workers /\ Idle.pc = "idle"
  BY Parts DEF WorkOK, Idle, Workers, Needs, Places
<1>1. work' \in Workers /\ work'.pc # "mirror"
  <2>1. CASE CleanupBegin
    <3>1. PICK pc \in {"list", "delete"}, o \in BOOLEAN :
            work' = [Idle EXCEPT !.pc = pc, !.overlooks = o]
      BY <2>1 DEF CleanupBegin, OverlooksCluster, Idle
    <3> QED BY <1>0, <3>1 DEF Workers, Places
  <2>2. CASE CleanupLists
    BY <1>0, <2>2 DEF CleanupLists, WorldOK, Workers, Places
  <2>3. CASE CleanupRemoves
    <3>1. PICK x \in work.found :
            work' = [work EXCEPT !.found = work.found \ {x}] \/ work' = Idle
      BY <1>0, <2>3 DEF CleanupRemoves
    <3>2. work.pc = "remove" /\ work.found \ {x} \in SUBSET Secret
      BY <1>0, <2>3 DEF CleanupRemoves, At, Workers
    <3>3. [work EXCEPT !.found = work.found \ {x}] \in Workers
      BY <1>0, <3>2 DEF Workers
    <3>4. [work EXCEPT !.found = work.found \ {x}].pc = "remove"
      BY <1>0, <3>2 DEF Workers
    <3> QED BY <1>0, <3>1, <3>3, <3>4
  <2>4. CASE CleanupDeletes \/ CleanupEnds \/ WorkFails
    BY <1>0, <2>4 DEF CleanupDeletes, CleanupEnds, WorkFails
  <2> QED BY <2>1, <2>2, <2>3, <2>4 DEF CleanupStep
<1>2. WorkOK'
  BY <1>1 DEF WorkOK, At, Workers
<1>3. WorldOK'
  <2>1. CASE CleanupBegin \/ CleanupLists \/ CleanupRemoves
    BY <1>0, <2>1 DEF CleanupBegin, CleanupLists, CleanupRemoves, WorldOK, outerVars
  <2>4. CASE CleanupEnds
    <3>1. misled' \in BOOLEAN
      BY <1>0, <2>4 DEF CleanupEnds, Workers
    <3> QED BY <1>0, <2>4, <3>1 DEF CleanupEnds, WorldOK, outerVars
  <2>2. CASE CleanupDeletes
    BY <1>0, <2>2 DEF CleanupDeletes, WorldOK, Clusters, outerVars
  <2>3. CASE WorkFails
    BY <1>0, <2>3, BoundsAssumption DEF WorkFails, WorldOK, outerVars
  <2> QED BY <2>1, <2>2, <2>3, <2>4 DEF CleanupStep
<1> QED BY <1>2, <1>3, Parts DEF TypeOK, WorkOK, WorldOK, Workers, Places

LEMMA OtherTypes ==
  ASSUME TypeOK,
         \/ OperatorFinalizes \/ Deliver \/ RestoreEnds \/ UserStep
         \/ \E x \in Secret : OperatorMakes(x)
  PROVE  TypeOK'
<1>0. WorkOK /\ WorldOK
  BY Parts
<1>1. WorkOK'
  BY <1>0 DEF WorkOK, At, OperatorFinalizes, Deliver, RestoreEnds, UserStep, UserChangesNeed,
     UserChangesToken, UserRestores, UserDeletesInstance, UserDeletesSecret, OperatorMakes,
     Edit
<1>2. restoring' \in BOOLEAN
  BY <1>0 DEF WorldOK, OperatorFinalizes, Deliver, RestoreEnds, UserStep, UserChangesNeed,
     UserChangesToken, UserRestores, UserDeletesInstance, UserDeletesSecret, OperatorMakes,
     Edit, outerVars
<1>3. WorldOK'
  <2>1. CASE OperatorFinalizes
    BY <1>0, <1>2, <2>1 DEF WorldOK, OperatorFinalizes, NoCluster, Clusters, outerVars
  <2>2. CASE RestoreEnds \/ Deliver
    BY <1>0, <1>2, <2>2 DEF WorldOK, RestoreEnds, Deliver
  <2>3. ASSUME NEW x \in Secret, OperatorMakes(x) PROVE WorldOK'
    BY <1>0, <1>2, <2>3 DEF WorldOK, OperatorMakes, outerVars
  <2>4. CASE UserChangesNeed \/ UserChangesToken \/ UserRestores
    BY <1>0, <1>2, <2>4, BoundsAssumption
       DEF WorldOK, UserChangesNeed, UserChangesToken, UserRestores, Edit
  <2>5. CASE UserDeletesInstance
    BY <1>0, <1>2, <2>5 DEF WorldOK, UserDeletesInstance, outerVars
  <2>6. ASSUME NEW x \in Secret, UserDeletesSecret(x) PROVE WorldOK'
    BY <1>0, <1>2, <2>6, BoundsAssumption DEF WorldOK, UserDeletesSecret, Edit
  <2> QED BY <2>1, <2>2, <2>3, <2>4, <2>5, <2>6 DEF UserStep
<1> QED BY <1>1, <1>3, Parts DEF TypeOK, WorkOK, WorldOK, Workers, Places

LEMMA NextTypes == ASSUME TypeOK, [Next]_vars PROVE TypeOK'
<1>1. CASE Next
  BY <1>1, SyncTypes, CleanupTypes, OtherTypes DEF Next
<1>2. CASE UNCHANGED vars
  BY <1>2 DEF vars, outerVars, TypeOK, At
<1> QED BY <1>1, <1>2

(* Every reachable state is well typed.                                    *)
THEOREM TypeCorrect == Spec => []TypeOK
<1>1. Init => TypeOK
  BY InitTypes
<1>2. TypeOK /\ [Next]_vars => TypeOK'
  BY NextTypes
<1> QED BY <1>1, <1>2, PTL DEF Spec

-----------------------------------------------------------------------------
(* The inductive invariant.                                                *)

LEMMA InitInv == Init => IInv
<1>1. Idle.pc = "idle" /\ ~Idle.desired /\ ~Idle.overlooks
  BY DEF Idle
<1>2. NoCluster.state = "absent" /\ ~NoCluster.pmm
  BY DEF NoCluster
<1> QED
  BY <1>1, <1>2, InitTypes
     DEF Init, IInv, AgentsHaveToken, DesiredHasToken, ForgetsWhenOff,
         DropsWhenNotRequired, CleanupAlone, CacheKnows, GoneIsIdle,
         NothingIsLeft, At

LEMMA SyncKeepsInv == ASSUME IInv, SyncStep, TypeOK' PROVE IInv'
<1> USE DEF At
<1>0. /\ WorkOK /\ WorldOK /\ work \in Workers /\ cluster \in Clusters
      /\ Idle.pc = "idle" /\ ~Idle.desired /\ seen \in Clusters
      /\ work.overlooks \in BOOLEAN /\ misled \in BOOLEAN
  BY Parts DEF IInv, WorkOK, WorldOK, Workers, Idle
<1>1. CASE SyncBegin
  <2>1. work'.pc = "live" /\ ~work'.desired
    BY <1>0, <1>1 DEF SyncBegin, Idle
  <2> QED
    BY <1>0, <1>1, <2>1
       DEF SyncBegin, outerVars, IInv, AgentsHaveToken, DesiredHasToken, ForgetsWhenOff,
           DropsWhenNotRequired, CleanupAlone, CacheKnows,
           GoneIsIdle, NothingIsLeft
<1>2. CASE SyncReadsLive
  <2>1. /\ work'.desired <=> Wants /\ seen.pmm
        /\ work'.overlooks <=> cluster.pmm /\ ~seen.pmm
        /\ work'.need = work.need
    BY <1>0, <1>2 DEF Live, SyncReadsLive, OverlooksPMM, Workers, Clusters
  <2>2. /\ work'.pc \in {"render", "forget", "restores"}
        /\ work'.pc = "forget" => ~Wants /\ ~seen.pmm
    BY <1>0, <1>2 DEF Live, SyncReadsLive, Workers, Forgets
  <2>3. seen.pmm /\ ~Wants => work.need = "notRequired"
    BY <1>0 DEF Live, Wants, Workers, Needs
  <2>4. /\ UNCHANGED <<instance, cluster, seen, pmmSecret, secrets, misled>>
        /\ work.pc = "live"
    BY <1>2 DEF SyncReadsLive, outerVars
  <2> QED
    BY <2>1, <2>2, <2>3, <2>4
       DEF IInv, AgentsHaveToken, DesiredHasToken, ForgetsWhenOff,
           DropsWhenNotRequired, CleanupAlone, CacheKnows,
           GoneIsIdle, NothingIsLeft
<1>3. CASE SyncForgets
  <2>1. /\ work'.pc = "restores" /\ work.pc = "forget"
        /\ work'.desired = work.desired /\ work'.need = work.need
        /\ work'.overlooks = work.overlooks /\ misled' = work.overlooks
        /\ pmmSecret' = NoToken /\ UNCHANGED <<instance, cluster, seen, secrets>>
    BY <1>0, <1>3 DEF SyncForgets, Goes, Workers, outerVars
  <2>2. (~cluster.pmm /\ ~seen.pmm) \/ misled'
    BY <2>1 DEF IInv, ForgetsWhenOff
  <2>3. ~work'.desired
    BY <2>1 DEF IInv, ForgetsWhenOff
  <2>4. instance # "gone"
    BY <2>1 DEF IInv, GoneIsIdle
  <2> QED
    BY <2>1, <2>2, <2>3, <2>4
       DEF IInv, AgentsHaveToken, DesiredHasToken, ForgetsWhenOff,
           DropsWhenNotRequired, CleanupAlone, CacheKnows,
           GoneIsIdle, NothingIsLeft
<1>4. CASE SyncRenders
  <2>1. /\ work'.pc \in {"mirror", "restores"} /\ work.pc = "render"
        /\ work'.desired = work.desired /\ work'.need = work.need
        /\ work'.overlooks = work.overlooks
        /\ UNCHANGED <<instance, cluster, seen, pmmSecret, secrets, misled>>
    BY <1>0, <1>4 DEF SyncRenders, Workers, outerVars
  <2> QED
    BY <2>1
       DEF IInv, AgentsHaveToken, DesiredHasToken, ForgetsWhenOff,
           DropsWhenNotRequired, CleanupAlone, CacheKnows,
           GoneIsIdle, NothingIsLeft
<1>5. CASE SyncMirrors
  <2>1. /\ work'.pc = "restores" /\ work.pc = "mirror" /\ work'.desired
        /\ pmmSecret' = work.token /\ UNCHANGED <<instance, cluster, seen, secrets>>
    BY <1>0, <1>5 DEF SyncMirrors, Copied, Workers, outerVars
  <2>2. pmmSecret' # NoToken
    BY <1>0, <2>1, NoTokenAssumption DEF WorkOK
  <2>3. instance # "gone"
    BY <2>1 DEF IInv, GoneIsIdle
  <2> QED
    BY <2>1, <2>2, <2>3
       DEF IInv, AgentsHaveToken, DesiredHasToken, ForgetsWhenOff,
           DropsWhenNotRequired, CleanupAlone, CacheKnows,
           GoneIsIdle, NothingIsLeft
<1>6. CASE SyncChecksRestores
  <2>1. /\ work.pc = "restores"
        /\ \/ work'.pc = "idle" /\ ~work'.desired
           \/ /\ work'.pc = "apply"
              /\ work'.desired = work.desired /\ work'.need = work.need
              /\ work'.overlooks = work.overlooks
        /\ UNCHANGED <<instance, cluster, seen, pmmSecret, secrets, misled>>
    BY <1>0, <1>6 DEF SyncChecksRestores, Workers, outerVars
  <2> QED
    BY <2>1
       DEF IInv, AgentsHaveToken, DesiredHasToken, ForgetsWhenOff,
           DropsWhenNotRequired, CleanupAlone, CacheKnows,
           GoneIsIdle, NothingIsLeft
<1>7. CASE SyncApplies
  <2>1. /\ work.pc = "apply" /\ work'.pc = "idle" /\ ~work'.desired
        /\ UNCHANGED <<instance, seen, pmmSecret, secrets, misled>>
    BY <1>0, <1>7 DEF SyncApplies, outerVars
  <2>2. PICK s \in {"live", "deleting"} :
          cluster' = [cluster EXCEPT !.pmm = work.desired, !.state = s]
    BY <1>0, <1>7 DEF SyncApplies, Clusters
  <2>3. cluster'.pmm = work.desired /\ cluster'.state # "absent"
    BY <1>0, <2>2 DEF Clusters
  <2> QED
    BY <2>1, <2>3
       DEF IInv, AgentsHaveToken, DesiredHasToken, ForgetsWhenOff,
           DropsWhenNotRequired, CleanupAlone, CacheKnows,
           GoneIsIdle, NothingIsLeft
<1> QED
  BY <1>1, <1>2, <1>3, <1>4, <1>5, <1>6, <1>7 DEF SyncStep

LEMMA CleanupKeepsInv == ASSUME IInv, CleanupStep \/ WorkFails, TypeOK' PROVE IInv'
<1> USE DEF At
<1>0. /\ WorkOK /\ WorldOK /\ work \in Workers /\ cluster \in Clusters
      /\ Idle.pc = "idle" /\ ~Idle.desired /\ seen \in Clusters
      /\ work.overlooks \in BOOLEAN /\ misled \in BOOLEAN
  BY Parts DEF IInv, WorkOK, WorldOK, Workers, Idle
<1>1. CASE CleanupBegin
  <2>1. /\ instance = "deleting"
        /\ UNCHANGED <<instance, cluster, seen, pmmSecret, secrets, misled>>
        /\ work'.pc \in {"list", "delete"} /\ ~work'.desired
        /\ work'.pc = "list" =>
             seen.state = "absent" /\ (cluster.state = "absent" \/ work'.overlooks)
    BY <1>0, <1>1
       DEF Live, CleanupBegin, MayList, Deletes, OverlooksCluster, Idle, outerVars
  <2>2. work'.pc = "list" => (cluster = NoCluster /\ seen = NoCluster) \/ work'.overlooks
    BY <1>0, <2>1 DEF IInv, CacheKnows, Clusters, NoCluster
  <2> QED
    BY <2>1, <2>2
       DEF IInv, AgentsHaveToken, DesiredHasToken, ForgetsWhenOff,
           DropsWhenNotRequired, CleanupAlone, CacheKnows,
           GoneIsIdle, NothingIsLeft
<1>2. CASE CleanupDeletes
  <2>1. /\ work.pc = "delete" /\ work'.pc = "idle" /\ ~work'.desired
        /\ UNCHANGED <<instance, seen, pmmSecret, secrets, misled>>
        /\ cluster'.pmm = cluster.pmm /\ instance = "deleting"
        /\ \/ cluster' = cluster
           \/ cluster.state # "absent" /\ cluster'.state = "deleting"
    BY <1>0, <1>2 DEF CleanupDeletes, Clusters, outerVars, IInv, GoneIsIdle
  <2> QED
    BY <2>1
       DEF IInv, AgentsHaveToken, DesiredHasToken, ForgetsWhenOff,
           DropsWhenNotRequired, CleanupAlone, CacheKnows,
           GoneIsIdle, NothingIsLeft
<1>3. CASE CleanupLists
  <2>1. /\ work.pc = "list" /\ work'.pc = "remove" /\ work'.desired = work.desired
        /\ work'.found = secrets /\ work'.overlooks = work.overlooks
        /\ UNCHANGED <<instance, cluster, seen, pmmSecret, secrets, misled>>
    BY <1>0, <1>3 DEF CleanupLists, Workers, outerVars
  <2> QED
    BY <2>1
       DEF IInv, AgentsHaveToken, DesiredHasToken, ForgetsWhenOff,
           DropsWhenNotRequired, CleanupAlone, CacheKnows,
           GoneIsIdle, NothingIsLeft
<1>4. CASE CleanupRemoves
  <2>1. PICK x \in work.found :
          /\ secrets' = secrets \ {x}
          /\ \/ work' = [work EXCEPT !.found = work.found \ {x}]
             \/ work' = Idle
    BY <1>0, <1>4 DEF CleanupRemoves
  <2>2. /\ work.pc = "remove" /\ UNCHANGED <<instance, cluster, seen, pmmSecret, misled>>
        /\ \/ work'.pc = "idle" /\ ~work'.desired
           \/ /\ work'.pc = "remove" /\ work'.desired = work.desired
              /\ work'.found = work.found \ {x}
              /\ work'.overlooks = work.overlooks
    BY <1>0, <1>4, <2>1 DEF CleanupRemoves, Workers, outerVars
  <2> QED
    BY <2>1, <2>2
       DEF IInv, AgentsHaveToken, DesiredHasToken, ForgetsWhenOff,
           DropsWhenNotRequired, CleanupAlone, CacheKnows,
           GoneIsIdle, NothingIsLeft
<1>5. CASE CleanupEnds
  <2>1. /\ work.pc = "remove" /\ work.found = {} /\ work'.pc = "idle" /\ ~work'.desired
        /\ instance' = "gone" /\ pmmSecret' = NoToken /\ misled' = work.overlooks
        /\ UNCHANGED <<cluster, seen, secrets>>
    BY <1>0, <1>5 DEF CleanupEnds, outerVars
  <2>2. \/ cluster = NoCluster /\ secrets = {} /\ ~cluster.pmm /\ ~seen.pmm
        \/ misled'
    BY <2>1 DEF IInv, CleanupAlone, NoCluster
  <2> QED
    BY <2>1, <2>2
       DEF IInv, AgentsHaveToken, DesiredHasToken, ForgetsWhenOff,
           DropsWhenNotRequired, CleanupAlone, CacheKnows,
           GoneIsIdle, NothingIsLeft
<1>6. CASE WorkFails
  <2>1. /\ work'.pc = "idle" /\ ~work'.desired
        /\ UNCHANGED <<instance, cluster, seen, pmmSecret, secrets, misled>>
    BY <1>0, <1>6 DEF WorkFails, outerVars
  <2> QED
    BY <2>1
       DEF IInv, AgentsHaveToken, DesiredHasToken, ForgetsWhenOff,
           DropsWhenNotRequired, CleanupAlone, CacheKnows,
           GoneIsIdle, NothingIsLeft
<1> QED
  BY <1>1, <1>2, <1>3, <1>4, <1>5, <1>6 DEF CleanupStep

LEMMA OthersKeepInv ==
  ASSUME IInv, TypeOK',
         \/ OperatorFinalizes \/ Deliver \/ RestoreEnds \/ UserStep
         \/ \E x \in Secret : OperatorMakes(x)
  PROVE  IInv'
<1> USE DEF At
<1>0. /\ WorkOK /\ WorldOK /\ cluster \in Clusters
      /\ NoCluster.state = "absent" /\ ~NoCluster.pmm
  BY Parts DEF IInv, WorldOK, NoCluster
<1>1. CASE OperatorFinalizes
  <2>1. /\ cluster.state = "deleting" /\ cluster' = NoCluster /\ secrets' \subseteq secrets
        /\ UNCHANGED <<instance, seen, pmmSecret, work, misled>>
    BY <1>1 DEF OperatorFinalizes, outerVars
  <2> QED
    BY <1>0, <2>1
       DEF IInv, AgentsHaveToken, DesiredHasToken, ForgetsWhenOff,
           DropsWhenNotRequired, CleanupAlone, CacheKnows,
           GoneIsIdle, NothingIsLeft
<1>2. ASSUME NEW x \in Secret, OperatorMakes(x) PROVE IInv'
  <2>1. /\ cluster.state = "live" /\ UNCHANGED <<instance, cluster, seen, pmmSecret, work, misled>>
    BY <1>2 DEF OperatorMakes, outerVars
  <2>2. cluster # NoCluster
    BY <1>0, <2>1
  <2> QED
    BY <1>0, <2>1, <2>2
       DEF IInv, AgentsHaveToken, DesiredHasToken, ForgetsWhenOff,
           DropsWhenNotRequired, CleanupAlone, CacheKnows,
           GoneIsIdle, NothingIsLeft
<1>3. CASE Deliver \/ RestoreEnds \/ UserStep
  <2>1. /\ secrets' \subseteq secrets /\ UNCHANGED <<cluster, pmmSecret, work, misled>>
        /\ seen' \in {seen, cluster}
        /\ instance' = instance \/ (instance = "live" /\ instance' = "deleting")
    BY <1>3 DEF Deliver, RestoreEnds, UserStep, UserChangesNeed, UserChangesToken,
       UserRestores, UserDeletesInstance, UserDeletesSecret, Edit, outerVars
  <2> QED
    BY <1>0, <2>1
       DEF IInv, AgentsHaveToken, DesiredHasToken, ForgetsWhenOff,
           DropsWhenNotRequired, CleanupAlone, CacheKnows,
           GoneIsIdle, NothingIsLeft
<1> QED
  BY <1>1, <1>2, <1>3

LEMMA NextInv == ASSUME IInv, [Next]_vars PROVE IInv'
<1>0. TypeOK'
  BY NextTypes DEF IInv
<1>1. CASE Next
  BY <1>0, <1>1, SyncKeepsInv, CleanupKeepsInv, OthersKeepInv DEF Next
<1>2. CASE UNCHANGED vars
  BY <1>0, <1>2
     DEF vars, outerVars, IInv, AgentsHaveToken, DesiredHasToken, ForgetsWhenOff,
         DropsWhenNotRequired, CleanupAlone, CacheKnows, GoneIsIdle,
         NothingIsLeft, At
<1> QED BY <1>1, <1>2

LEMMA Invariance == Spec => []IInv
<1>1. IInv /\ [Next]_vars => IInv'
  BY NextInv
<1> QED BY <1>1, InitInv, PTL DEF Spec

(* As long as PMM is on in the cluster its agents find a token (applyPMM   *)
(* and deletePMMSecret, monitoring.go:61-211), however far the cache lags,   *)
(* unless a Sync that was not shown PMM has deleted the token.             *)
THEOREM AgentsKeepTheirToken == Spec => []AgentsHaveToken
<1>1. IInv => AgentsHaveToken
  BY DEF IInv
<1> QED BY <1>1, Invariance, PTL

(* A deleted Instance leaves no cluster and no Secret behind (Cleanup,     *)
(* provider.go:577-628), unless that Cleanup was not shown the cluster.    *)
THEOREM DeletionIsComplete == Spec => []NothingIsLeft
<1>1. IInv => NothingIsLeft
  BY DEF IInv
<1> QED BY <1>1, Invariance, PTL

(* Only Sync's apply takes PMM out of a cluster that is live.              *)
LEMMA OnlyApplySwitchesOff ==
  ASSUME IInv, [Next]_vars, cluster.pmm, cluster.state = "live", ~cluster'.pmm
  PROVE  SyncApplies
<1>0. WorldOK /\ work \in Workers /\ cluster \in Clusters
  BY Parts DEF IInv, WorkOK, WorldOK
<1>1. CASE SyncStep
  BY <1>1 DEF SyncStep, SyncBegin, SyncReadsLive, SyncForgets, SyncRenders, SyncMirrors,
     SyncChecksRestores
<1>2. CASE CleanupStep \/ WorkFails
  <2>1. CASE CleanupDeletes
    BY <1>0, <2>1 DEF CleanupDeletes, Clusters
  <2> QED
    BY <1>2, <2>1 DEF CleanupStep, CleanupBegin, CleanupLists, CleanupRemoves, CleanupEnds,
       WorkFails
<1>3. CASE \/ OperatorFinalizes \/ Deliver \/ RestoreEnds
            \/ \E x \in Secret : OperatorMakes(x)
  BY <1>3 DEF OperatorFinalizes, Deliver, RestoreEnds, OperatorMakes
<1>4. CASE UserStep
  BY <1>4 DEF UserStep, UserChangesNeed, UserChangesToken, UserRestores, UserDeletesInstance,
     UserDeletesSecret, Edit
<1>5. CASE UNCHANGED vars
  BY <1>5 DEF vars
<1> QED BY <1>1, <1>2, <1>3, <1>4, <1>5 DEF Next

(* PMM is taken out of a cluster that is live only by a Sync that has read *)
(* "not required", or to which the cache did not show that PMM is on       *)
(* (applyPMM, monitoring.go:61-108); nothing is assumed of the cache.      *)
THEOREM MonitoringIsNotLost == Spec => StaysMonitored
<1>1. IInv /\ [Next]_vars =>
        [(cluster.pmm /\ cluster.state = "live" /\ ~cluster'.pmm) =>
           work.need = "notRequired" \/ work.overlooks]_vars
  <2> SUFFICES ASSUME IInv, [Next]_vars, cluster.pmm, cluster.state = "live", ~cluster'.pmm
               PROVE  work.need = "notRequired" \/ work.overlooks
    OBVIOUS
  <2>0. cluster \in Clusters /\ work \in Workers
    BY Parts DEF IInv, WorkOK, WorldOK
  <2>1. SyncApplies
    BY OnlyApplySwitchesOff
  <2>2. PICK s \in {"live", "deleting"} :
          cluster' = [cluster EXCEPT !.pmm = work.desired, !.state = s]
    BY <2>0, <2>1 DEF SyncApplies, Clusters
  <2>3. ~work.desired /\ work.pc = "apply"
    BY <2>0, <2>1, <2>2 DEF SyncApplies, Clusters, At
  <2> QED BY <2>3 DEF IInv, DropsWhenNotRequired
<1> QED BY <1>1, Invariance, PTL DEF Spec, StaysMonitored

=============================================================================
