------------------------------ MODULE UpgradeV3 ------------------------------
(***************************************************************************)
(* What hack/app-template-upgrade-v3.py makes of the values of one          *)
(* HelmRelease: process and the functions it calls.                         *)
(***************************************************************************)
EXTENDS HelmValues, FiniteSets

-----------------------------------------------------------------------------
(* process_persistence *)

Common == {"enabled", "type", "advancedMounts", "globalMounts"}

AllowedKeys ==
  [persistentVolumeClaim |-> Common \cup {"accessMode", "size", "existingClaim"},
   configMap |-> Common \cup {"name", "identifier"},
   secret |-> Common \cup {"name", "identifier"},
   nfs |-> Common \cup {"path", "server"},
   emptyDir |-> Common,
   hostPath |-> Common \cup {"hostPath"},
   custom |-> Common \cup {"volumeSpec"}]

RequiredKeys ==
  [persistentVolumeClaim |-> {"accessMode", "size"}, configMap |-> {}, secret |-> {},
   nfs |-> {"server", "path"}, emptyDir |-> {}, hostPath |-> {}, custom |-> {"volumeSpec"}]

Enabled(entry) == Has(entry.v, "enabled") => entry.v["enabled"]
Claimed(entry) == Enabled(entry) /\ Has(entry.v, "existingClaim")

TypeOf(m) ==
  IF Has(m, "existingClaim") THEN "persistentVolumeClaim"
  ELSE IF Has(m, "type") THEN m["type"] ELSE "custom"

\* Fault injection: the required keys are discarded for every claim.
RequiredOfNone(pers, i) ==
  LET type == TypeOf(pers[i].v)
  IN  IF type \notin DOMAIN RequiredKeys \ {"persistentVolumeClaim"} THEN {} ELSE RequiredKeys[type]

\* The sets of required keys are made once per call: an existing claim discards
\* those of the type for its own entry and for all that follow.
Required(pers, i) ==
  LET type == TypeOf(pers[i].v)
  IN  IF type \notin DOMAIN RequiredKeys THEN {}
      ELSE IF type = "persistentVolumeClaim" /\ (\E j \in 1 .. i : Claimed(pers[j])) THEN {}
      ELSE RequiredKeys[type]

\* The keys that an entry of this type may have, and those it must, with no value.
Conform(pers, i) ==
  LET m == pers[i].v
      type == TypeOf(m)
      own == IF ~Has(m, "existingClaim") THEN m
             ELSE With(Without(m, {"accessMode", "size"}), "type", type)
      kept == Without(own, DOMAIN own \ (IF type \in DOMAIN AllowedKeys THEN AllowedKeys[type] ELSE {}))
  IN  [key \in DOMAIN kept \cup Required(pers, i) |-> IF Has(kept, key) THEN kept[key] ELSE None]

Names == {"name", "identifier"}

\* Takes its part in the set of names of its type.
Shares(entry) == Enabled(entry) /\ TypeOf(entry.v) \in {"configMap", "secret"}

Lacks(entry, names) == names \cap DOMAIN entry.v = {}

\* The entries of a type share one set of names, and one that has none of the names still in it
\* pops one.  What the entries before i leave of it: the first of them that has neither name pops
\* `first', which depends on the hash seed of the process, and the next that lacks the other
\* one, whatever else it has, pops that.
NamesLeft(pers, i, first) ==
  LET before == {j \in 1 .. (i - 1) : Shares(pers[j]) /\ TypeOf(pers[j].v) = TypeOf(pers[i].v)}
      bare == {j \in before : Lacks(pers[j], Names)}
      next == {j \in before : Lacks(pers[j], Names \ {first}) /\ \E k \in bare : k < j}
  IN  IF bare = {} THEN Names ELSE IF next = {} THEN Names \ {first} ELSE {}

\* The name an entry pops.
Popped(names, first) == IF first \in names THEN first ELSE CHOOSE name \in names : TRUE

\* Once the set is empty, no entry has any of its names, and pop() raises KeyError for each.
OutOfNames(pers, first) ==
  \E i \in DOMAIN pers : Shares(pers[i]) /\ NamesLeft(pers, i, first) = {}

\* Fault injection: the entry's advancedMounts are assigned instead of extended.
MountedAfresh(ctrls, name, m) ==
  LET mounts == VolumeMounts(ctrls, name)
  IN  IF mounts = {} THEN Without(m, {"advancedMounts"})
      ELSE With(m, "advancedMounts", mounts)

\* The mounts of the containers extend the advancedMounts; if there are none, the
\* advancedMounts are removed, those the entry had included.
Mounted(ctrls, name, m) ==
  LET mounts == VolumeMounts(ctrls, name)
  IN  IF mounts = {} THEN Without(m, {"advancedMounts"})
      ELSE With(m, "advancedMounts", mounts \cup Under(m, "advancedMounts"))

\* One iteration of the loop.
ProcessEntry(pers, i, ctrls, first) ==
  IF ~Enabled(pers[i]) THEN pers[i]
  ELSE LET m == Conform(pers, i)
           names == NamesLeft(pers, i, first)
           named == IF Shares(pers[i]) /\ Lacks(pers[i], names)
                    THEN With(m, Popped(names, first), None)
                    ELSE m
       IN  [k |-> pers[i].k, v |-> Mounted(ctrls, pers[i].k, named)]

ProcessPersistence(pers, ctrls, first) ==
  [i \in DOMAIN pers |-> ProcessEntry(pers, i, ctrls, first)]

-----------------------------------------------------------------------------
(* process_service, process_ingress, process_controllers *)

\* The controller of a service: the one of its name, else main, app or the first.
ControllerOf(ctrls, name) ==
  LET names == KeysOf(ctrls)
  IN  IF name \in names THEN name
      ELSE IF "main" \in names THEN "main"
      ELSE IF "app" \in names THEN "app"
      ELSE IF ctrls # <<>> THEN ctrls[1].k ELSE None

\* What the service says of its controller is overwritten.
Routed(ctrls, svc, primary) ==
  [k |-> svc.k, primary |-> primary, ports |-> svc.ports, ctrl |-> ControllerOf(ctrls, svc.k)]

\* The service that becomes primary if none is.
DefaultPrimary(svcs) ==
  LET names == KeysOf(svcs)
  IN  IF "main" \in names THEN "main" ELSE IF "app" \in names THEN "app" ELSE svcs[1].k

\* Fault injection: the flag holds what the last service says.
ProcessServiceLast(svcs, ctrls) ==
  LET none == svcs # <<>> /\ ~svcs[Len(svcs)].primary
  IN  [i \in DOMAIN svcs |->
         Routed(ctrls, svcs[i], svcs[i].primary \/ (none /\ svcs[i].k = DefaultPrimary(svcs)))]

ProcessService(svcs, ctrls) ==
  LET none == \A i \in DOMAIN svcs : ~svcs[i].primary
  IN  [i \in DOMAIN svcs |->
         Routed(ctrls, svcs[i], svcs[i].primary \/ (none /\ svcs[i].k = DefaultPrimary(svcs)))]

\* The services are looked up at the top of the document, where there are none:
\* every path is given to "main".
ProcessIngress(ing) == IF ing \in NoPath THEN ing ELSE "main"

\* The persistence entries are looked up there too: no mount of an init container
\* counts as missing, and all of them are removed.
ProcessInitContainer(x) == [k |-> x.k, keys |-> x.keys, mounts |-> {}, image |-> SplitImage(x.image)]

ProcessControllers(ctrls) ==
  [i \in DOMAIN ctrls |->
     [k |-> ctrls[i].k, keys |-> ctrls[i].keys, conts |-> ctrls[i].conts,
      inits |-> {ProcessInitContainer(x) : x \in ctrls[i].inits}]]

-----------------------------------------------------------------------------
\* process: the parts are computed from the values as they were read.
\* A map of services that is empty has no first one to become primary: StopIteration.
FailsV3(values, first) ==
  \/ OutOfNames(values.pers, first)
  \/ "service" \in values.keys /\ values.svcs = <<>>

ProcessV3(values, first) ==
  [values EXCEPT
     !.ing = ProcessIngress(@),
     !.svcs = ProcessService(@, values.ctrls),
     !.pers = ProcessPersistence(@, values.ctrls, first),
     !.ctrls = ProcessControllers(@)]
=============================================================================
