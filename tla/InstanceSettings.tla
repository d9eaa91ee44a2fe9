-------------------------- MODULE InstanceSettings --------------------------
(***************************************************************************)
(* What an Instance may say, and the cluster it is translated to.          *)
(*                                                                         *)
(* The same settings are read by three functions that have to agree:       *)
(* Validate, which the runtime runs before every Sync, Sync, which         *)
(* translates them and must not meet what Validate lets through, and the   *)
(* operator, which adds scheduling rules of its own.  Versions are looked  *)
(* up in a catalog that a new release of the provider replaces.            *)
(*                                                                         *)
(* A pointer is a set with at most one element, a list whose order does    *)
(* not matter a bag.  An image is named by the version the catalog lists   *)
(* it under.                                                               *)
(***************************************************************************)
EXTENDS Integers

CONSTANTS
  Version,    \* versions of the components
  NoVersion,
  OwnImage,   \* an image the user gives, known to no catalog
  Major       \* the number a version starts with, 0 if it starts with none

ASSUME VersionAssumption ==
  /\ NoVersion \notin Version
  /\ OwnImage \notin Version \cup {NoVersion}
  /\ Major \in [Version -> Nat]

Component == {"engine", "proxy"}

(* What a component's configuration is: good covers a wal_level that is    *)
(* allowed, badValue one that is not, badText what does not parse.         *)
Configuration == {"none", "good", "badValue", "badText"}

Settings == [replicas : {{}} \cup {{n} : n \in -1 .. 2},
             image    : BOOLEAN,
             version  : Version \cup {NoVersion},
             config   : Configuration]

ServiceType == {"none", "ClusterIP", "LoadBalancer"}

(* A topology spread constraint: plain is maxSkew 1 with no selector, soft *)
(* is ScheduleAnyway.                                                      *)
TopologyKey == {"node", "zone", "rack"}

Constraint == [key : TopologyKey, soft : BOOLEAN, plain : BOOLEAN]

(* How often a list has each constraint.                                   *)
ConstraintList == [Constraint -> Nat]

(* The type of the proxy: not given, the one that is declared, another.    *)
ProxyType == {"none", "declared", "other"}

Instance ==
  {i \in [engine : Settings, proxy : Settings, proxyType : ProxyType,
          engineService : ServiceType, proxyService : ServiceType,
          spread : SUBSET ConstraintList] :
     \A list, other \in i.spread : list = other}

(* A catalog: the versions with an image, the default of each component    *)
(* (NoVersion if it has no image), the versions that the Instance's bundle *)
(* gives, and whether that bundle resolves.                                *)
Catalog == [engineImages  : SUBSET Version,
            proxyImages   : SUBSET Version,
            engineDefault : Version \cup {NoVersion},
            proxyDefault  : Version \cup {NoVersion},
            engineBundle  : Version \cup {NoVersion},
            proxyBundle   : Version \cup {NoVersion},
            resolves      : BOOLEAN,
            backRest      : BOOLEAN]

Images(catalog, comp) ==
  IF comp = "engine" THEN catalog.engineImages ELSE catalog.proxyImages

GetDefaultImage(catalog, comp) ==
  IF comp = "engine" THEN catalog.engineDefault ELSE catalog.proxyDefault

Bundle(catalog, comp) ==
  IF comp = "engine" THEN catalog.engineBundle ELSE catalog.proxyBundle

Pointee(pointer) == CHOOSE x \in pointer : TRUE

Of(instance, comp) == IF comp = "engine" THEN instance.engine ELSE instance.proxy

-----------------------------------------------------------------------------
(* Scheduling.                                                             *)

operatorSpreadKeys == {"node", "zone"}

operatorSpread(key) == [key |-> key, soft |-> TRUE, plain |-> TRUE]

collidesWithOperatorSpread(c) == c.soft /\ c.key \in operatorSpreadKeys

(* A list that is given states the operator's own constraints as they are. *)
validateSpreadConstraints(policy) ==
  \A list \in policy :
    /\ \A c \in Constraint :
         list[c] # 0 /\ collidesWithOperatorSpread(c) => c = operatorSpread(c.key)
    /\ \A key \in operatorSpreadKeys : list[operatorSpread(key)] # 0

(* What is handed to the operator: the user's list without its two (the    *)
(* faulty variant hands over the whole list).                              *)
wholeSpreadConstraints(policy) ==
  [c \in Constraint |-> IF policy = {} THEN 0 ELSE Pointee(policy)[c]]

instanceSpreadConstraints(policy) ==
  [c \in Constraint |->
     IF policy = {} \/ collidesWithOperatorSpread(c) THEN 0 ELSE Pointee(policy)[c]]

(* What the operator puts on the pods: what it is handed, and its two.     *)
PodSpread(own) ==
  [c \in Constraint |->
     IF \E key \in operatorSpreadKeys : c = operatorSpread(key) THEN own[c] + 1
     ELSE own[c]]

-----------------------------------------------------------------------------
(* Validate.                                                               *)

MinReplicas(comp) == IF comp = "engine" THEN 1 ELSE 0

(* The faulty variants forget the range, or the missing number.            *)
replicasGiven(s, comp) == s.replicas # {}

replicasInRange(s, comp) == \A n \in s.replicas : n >= MinReplicas(comp)

validateReplicas(s, comp) ==
  s.replicas # {} /\ \A n \in s.replicas : n >= MinReplicas(comp)

(* The faulty variant lets every version of its own pass.                  *)
validateImageUnversioned(catalog, s, comp) ==
  s.image \/ s.version # NoVersion \/ Bundle(catalog, comp) # NoVersion
    \/ GetDefaultImage(catalog, comp) # NoVersion

validateImage(catalog, s, comp) ==
  \/ s.image
  \/ s.version # NoVersion /\ s.version \in Images(catalog, comp)
  \/ /\ s.version = NoVersion
     /\ \/ Bundle(catalog, comp) # NoVersion
        \/ GetDefaultImage(catalog, comp) # NoVersion

(* wal_level is only looked at in the engine's configuration.              *)
validateConfiguration(s, comp) ==
  /\ s.config # "badText"
  /\ comp = "engine" => s.config # "badValue"

(* What the runtime has checked before it calls Validate: the types of the *)
(* components are those the provider declares (validate.go:30-32).         *)
RuntimeAccepts(instance) == instance.proxyType \in {"none", "declared"}

Validate(catalog, instance) ==
  /\ catalog.resolves
  /\ catalog.backRest
  /\ \A comp \in Component :
       /\ validateReplicas(Of(instance, comp), comp)
       /\ validateImage(catalog, Of(instance, comp), comp)
       /\ validateConfiguration(Of(instance, comp), comp)
  /\ validateSpreadConstraints(instance.spread)

Accepted(catalog, instance) ==
  RuntimeAccepts(instance) /\ Validate(catalog, instance)

-----------------------------------------------------------------------------
(* Sync's translation.                                                     *)

EffectiveVersion(catalog, s, comp) ==
  IF s.version # NoVersion THEN s.version ELSE Bundle(catalog, comp)

(* GetImageForVersion, then the default of the catalog.                    *)
resolveImage(catalog, s, comp) ==
  IF s.image THEN OwnImage
  ELSE IF EffectiveVersion(catalog, s, comp) \in Images(catalog, comp)
  THEN EffectiveVersion(catalog, s, comp)
  ELSE GetDefaultImage(catalog, comp)

(* defaultSpec says 16, which stays when the version has no number.        *)
parseMajorVersion(version) ==
  IF version = NoVersion \/ version \notin Version \/ Major[version] = 0
  THEN 16 ELSE Major[version]

(* The Service of the proxy wins over the engine's (applyServiceExpose).   *)
ServiceExpose(instance) ==
  IF instance.proxyService # "none" THEN instance.proxyService
  ELSE instance.engineService

(* The part of the cluster's spec that the properties speak of.            *)
Translate(catalog, instance) ==
  [image    |-> resolveImage(catalog, instance.engine, "engine"),
   bouncer  |-> resolveImage(catalog, instance.proxy, "proxy"),
   major    |-> parseMajorVersion(EffectiveVersion(catalog, instance.engine, "engine")),
   bouncers |-> Pointee(instance.proxy.replicas),
   expose   |-> ServiceExpose(instance),
   spread   |-> instanceSpreadConstraints(instance.spread)]

(* The errors Sync returns on its way.                                     *)
SyncFails(catalog, instance) ==
  \/ ~catalog.resolves
  \/ ~catalog.backRest
  \/ \E comp \in Component :
       \/ Of(instance, comp).replicas = {}
       \/ resolveImage(catalog, Of(instance, comp), comp) = NoVersion
       \/ Of(instance, comp).config = "badText"
  \/ instance.proxyType \notin {"none", "declared"}

-----------------------------------------------------------------------------
(* Catalogs as the repository generates them: every version that a bundle  *)
(* names has an image, and bundles name a version of the engine with a     *)
(* number (definition/versions.yaml).                                      *)
Sound(catalog) ==
  /\ catalog.engineBundle \in catalog.engineImages
  /\ catalog.proxyBundle \in catalog.proxyImages
  /\ \A v \in catalog.engineImages : Major[v] # 0

=============================================================================
