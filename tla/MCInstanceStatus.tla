-------------------------- MODULE MCInstanceStatus --------------------------
(***************************************************************************)
(* Three majors in three releases of the catalog, and settings around a   *)
(* plain Instance that differ from it in one respect.                      *)
(***************************************************************************)
EXTENDS InstanceStatus, TLC

CONSTANTS v14, v17, v18

MajorOf == v14 :> 14 @@ v17 :> 17 @@ v18 :> 18

(* The second release drops a version and moves the default; the third     *)
(* lost the default of the engine and the bundle that the Instance names.  *)
Release ==
  [engineImages |-> {v14, v17}, proxyImages |-> {v14},
   engineDefault |-> v17, proxyDefault |-> v14,
   engineBundle |-> v14, proxyBundle |-> v14,
   resolves |-> TRUE, backRest |-> TRUE]

Releases ==
  {Release,
   [Release EXCEPT !.engineImages = {v14, v18}, !.engineDefault = v18],
   [Release EXCEPT !.resolves = FALSE, !.engineDefault = NoVersion]}

Plain ==
  [engine |-> [replicas |-> {1}, image |-> FALSE, version |-> NoVersion, config |-> "none"],
   proxy |-> [replicas |-> {1}, image |-> FALSE, version |-> NoVersion, config |-> "none"],
   proxyType |-> "none", engineService |-> "none", proxyService |-> "none", spread |-> {}]

Soft(key) == [key |-> key, soft |-> TRUE, plain |-> TRUE]

Stated == {Soft("node"), Soft("zone")}

OneOf(constraints) == [c \in Constraint |-> IF c \in constraints THEN 1 ELSE 0]

(* The last one has a constraint twice that the operator does not add.     *)
Lists ==
  {OneOf({}), OneOf({Soft("node")}),
   OneOf(Stated \cup {[Soft("rack") EXCEPT !.soft = FALSE]}),
   OneOf({[Soft("node") EXCEPT !.plain = FALSE], Soft("zone")}),
   [OneOf(Stated) EXCEPT ![Soft("rack")] = 2]}

Balanced == [Plain EXCEPT !.proxyService = "LoadBalancer"]

FirstChoices == {Plain, Balanced}

AllChoices ==
  {Plain, Balanced}
  \cup {[Plain EXCEPT !.engine.replicas = r] : r \in {{}, {0}}}
  \cup {[Plain EXCEPT !.proxy.replicas = r] : r \in {{}, {-1}}}
  \cup {[Plain EXCEPT !.engine.image = TRUE], [Plain EXCEPT !.engine.version = v17]}
  \cup {[Plain EXCEPT !.engine.config = c] : c \in {"badValue", "badText"}}
  \cup {[Plain EXCEPT !.proxy.config = "badText"],
        [Balanced EXCEPT !.proxy.replicas = {0}],
        [Plain EXCEPT !.proxyType = "declared"], [Plain EXCEPT !.proxyType = "other"],
        [Plain EXCEPT !.engineService = "LoadBalancer", !.proxyService = "ClusterIP"]}
  \cup {[Plain EXCEPT !.spread = {list}] : list \in Lists}

=============================================================================
