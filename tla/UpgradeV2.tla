------------------------------ MODULE UpgradeV2 ------------------------------
(***************************************************************************)
(* What hack/app-template-upgrade-v2-ruamel.py makes of the values of one   *)
(* HelmRelease: the keys of an application at version 1 move under its      *)
(* controller, its container and its pod options.                           *)
(***************************************************************************)
EXTENDS HelmValues

MainKeys == {"image", "envFrom", "env", "resources", "probes", "command", "securityContext", "args"}
PodKeys == {"podSecurityContext", "topologySpreadConstraints", "nodeSelector", "affinity"}
Claims == "volumeClaimTemplates"  \* moves to the controller, as does all of "controller"

NewContainer(name) == [k |-> name, keys |-> {}, mounts |-> {}, image |-> NoImage]
NewController(name) == [k |-> name, keys |-> {}, inits |-> {}, conts |-> {}]

\* set_key: the value replaces the one under the same key, or becomes the last.
Put(seq, item) ==
  IF item.k \in KeysOf(seq)
  THEN [i \in DOMAIN seq |-> IF seq[i].k = item.k THEN item ELSE seq[i]]
  ELSE Append(seq, item)

\* set_key for each container.
Place(set, items) == {x \in set : x.k \notin NamesOf(items)} \cup items

\* The controllers before anything is put under main.
ControllersV2(values) ==
  IF "controller" \in values.keys THEN <<NewController("main")>> ELSE values.ctrls

\* The controller or the container main, new if there is none.
MainOf(set, default) ==
  IF "main" \in NamesOf(set) THEN CHOOSE x \in set : x.k = "main" ELSE default

\* process_init_container, process_additional_container
ProcessContainer(x) == [k |-> x.k, keys |-> x.keys, mounts |-> x.mounts, image |-> SplitImage(x.image)]
ProcessContainers(set) == {ProcessContainer(x) : x \in set}

\* The keys of the main container; the additional containers are set last and
\* take its place if one has its name.
ContainersV2(values, conts) ==
  LET moved == values.keys \cap MainKeys
      old == MainOf(conts, NewContainer("main"))
      new == [k |-> "main", keys |-> old.keys \cup moved, mounts |-> old.mounts, image |-> old.image]
  IN  Place(IF moved = {} THEN conts ELSE Place(conts, {new}), ProcessContainers(values.extra))

MainController(values) ==
  LET old == MainOf(ToSet(ControllersV2(values)), NewController("main"))
  IN  [k |-> "main",
       keys |-> old.keys \cup (values.keys \cap {Claims, "controller"}),
       inits |-> Place(old.inits, ProcessContainers(values.inits)),
       conts |-> ContainersV2(values, old.conts)]

\* Some key moves under the controller.
Moves(values) ==
  \/ values.keys \cap (MainKeys \cup {Claims, "controller"}) # {}
  \/ values.extra # {}
  \/ values.inits # {}

\* The main ingress leads to the first service.
IngressV2(values) ==
  IF values.ing \in NoPath THEN values.ing ELSE values.svcs[1].k

\* process_persistence
PersistenceV2(m) ==
  IF Has(m, "mountPath")
  THEN With(Without(m, {"mountPath"}), "globalMounts", {m["mountPath"]})
  ELSE m

\* An ingress without main, without a host or a path, or without a first service and its first
\* port to lead to raises an exception.
FailsV2(values) ==
  \/ values.ing = "bare"
  \/ values.ing \notin NoPath /\ ~(values.svcs # <<>> /\ values.svcs[1].ports)

\* process
ProcessV2(values) ==
  [values EXCEPT
     !.keys = @ \ (MainKeys \cup PodKeys \cup {Claims, "controller"}),
     !.pod = @ \cup (values.keys \cap PodKeys),
     !.extra = {},
     !.inits = {},
     !.ctrls = IF Moves(values) THEN Put(ControllersV2(values), MainController(values)) ELSE @,
     !.pers = [i \in DOMAIN @ |-> [k |-> @[i].k, v |-> PersistenceV2(@[i].v)]],
     !.ing = IngressV2(values)]
=============================================================================
