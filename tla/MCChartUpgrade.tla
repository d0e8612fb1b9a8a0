--------------------------- MODULE MCChartUpgrade ---------------------------
(* Directories of two documents, one of which varies. *)
EXTENDS ChartUpgrade

Here == "globalMounts" :> {"/data"}
Typed(type) == ("type" :> type) @@ Here
Pvc == "persistentVolumeClaim"

Claim == ("existingClaim" :> "set") @@ Here
Sized == Typed(Pvc) @@ ("accessMode" :> "set") @@ ("size" :> "set")
Bare == Typed(Pvc)
Nameless == Typed("configMap")
Named == Typed("configMap") @@ ("name" :> "set")
Identified == Typed("configMap") @@ ("identifier" :> "set")
Off == Typed(Pvc) @@ ("enabled" :> FALSE)
Both == Here @@ ("mountPath" :> "/old")
Advanced == Typed("emptyDir") @@ ("advancedMounts" :> {<<"main", "main", "/own">>})
OldType == Typed("pvc")
Kinds == {Claim, Sized, Bare, Nameless, Named, Off, Advanced, OldType, Here, Both}

Entries(kinds) == [i \in DOMAIN kinds |-> [k |-> <<"a", "b", "c">>[i], v |-> kinds[i]]]

Container(name, mounts) == [NewContainer(name) EXCEPT !.keys = {"image"}, !.mounts = mounts]
Imaged(container, name) == [container EXCEPT !.keys = {}, !.image = [form |-> "text", name |-> name, tag |-> <<>>]]
Mount(path) == [vol |-> "a", path |-> path]
Controller(name, inits, conts) == [NewController(name) EXCEPT !.inits = inits, !.conts = conts]

\* One controller whose containers may mount the first volume.
Mounting(init, main) ==
  <<Controller("main", {Container("init", init)}, {Container("main", main)})>>

Release(version, pers, ctrls) ==
  Document(FALSE, version, [EmptyValues EXCEPT !.pers = Entries(pers), !.ctrls = ctrls])

Volumes ==
  {Release(260, <<kind>>, Mounting(init, main)) :
     kind \in Kinds, init \in {{}, {Mount("/init")}}, main \in {{}, {Mount("/main")}}}
  \cup {Release(260, kinds, Mounting({Mount("/init")}, {})) :
          kinds \in [1 .. 2 -> {Claim, Bare, Off}] \cup [1 .. 3 -> {Claim, Bare, Nameless}]
                     \cup [1 .. 3 -> {Nameless, Named, Identified}]}

Service(name, primary) == [k |-> name, primary |-> primary, ports |-> TRUE, ctrl |-> "worker"]
Portless(service) == [service EXCEPT !.ports = FALSE]
Named1(name) == Controller(name, {}, {Container("main", {})})

Services ==
  {Document(FALSE, 260, [EmptyValues EXCEPT
      !.svcs = <<Service(names[1], p), Service(names[2], q)>>,
      !.ctrls = [i \in DOMAIN ctrls |-> Named1(ctrls[i])],
      !.ing = ing]) :
     names \in {<<"main", "web">>, <<"web", "app">>, <<"web", "dav">>},
     p \in BOOLEAN, q \in BOOLEAN, ing \in {"absent", "web"},
     ctrls \in {<<>>, <<"worker", "web">>, <<"worker", "app", "main">>}}

\* Applications at version 1, in part in the format of version 2, and a patch of one.
Version1(patch, version) ==
  {Document(patch, version, [EmptyValues EXCEPT
      !.keys = keys,
      !.inits = inits,
      !.extra = extra,
      !.ctrls = ctrls,
      !.svcs = svcs,
      !.pers = Entries(<<kind>>),
      !.ing = ing]) :
     keys \in {{}, {"controller", "image", "affinity", "ingressClassName"}},
     inits \in {{}, {Imaged(Container("init", {Mount("/init")}), <<"registry", "5000/app", "1.0">>)}},
     extra \in {{}, {Imaged(Container("main", {}), <<"app">>)}},
     ctrls \in {<<>>, Mounting({Mount("/first")}, {Mount("/main")})},
     kind \in {"mountPath" :> "/data", Both},
     svcs \in {<<>>, <<Service("web", FALSE)>>},
     ing \in {"absent", "off", "unset"}}

Others ==
  {[NoDocument EXCEPT !.state = "broken"], [NoDocument EXCEPT !.state = "other"],
   Release(NoVersion, <<Bare>>, <<>>), Release(331, <<Bare>>, <<>>),
   Release(260, <<Sized>>, Mounting({}, {}))}

\* Releases that one of the scripts fails at.
Unfit ==
  {Document(FALSE, 260, [EmptyValues EXCEPT !.keys = {"service"}]),
   Document(FALSE, 151, [EmptyValues EXCEPT !.ing = "bare", !.svcs = <<Service("web", FALSE)>>]),
   Document(FALSE, 151, [EmptyValues EXCEPT !.ing = "unset", !.svcs = <<Portless(Service("web", FALSE))>>])}

Varying == Unfit \cup Volumes \cup Services \cup Version1(FALSE, 151) \cup Version1(TRUE, NoVersion)

TwoFiles == {<<d, o>> : d \in Varying, o \in Others} \cup {<<o, d>> : d \in Varying, o \in Others}
=============================================================================
