-------------------------- MODULE ChartUpgradeProofs --------------------------
(***************************************************************************)
(* The upgrade scripts over any directory, with values of any size: the     *)
(* types of a run, the mounts it keeps, the sizes it requires and where it  *)
(* routes.                                                                  *)
(***************************************************************************)
EXTENDS ChartUpgrade, FiniteSetTheorems, TLAPS

-----------------------------------------------------------------------------
(* YAML maps as sequences *)

Map(seq) == seq \in Seq(ToSet(seq)) /\ DistinctKeys(seq)

\* What is computed for each element of a sequence is a sequence of that length.
LEMMA SameLength ==
  ASSUME NEW s, s \in Seq(ToSet(s)), NEW t, DOMAIN t = DOMAIN s, t = [i \in DOMAIN t |-> t[i]]
  PROVE  t \in Seq(ToSet(t)) /\ Len(t) = Len(s)
<1>1. Len(s) \in Nat /\ DOMAIN s = 1 .. Len(s)
  OBVIOUS
<1>2. t \in [1 .. Len(s) -> ToSet(t)]
  BY <1>1 DEF ToSet
<1>3. t \in Seq(ToSet(t))
  BY <1>1, <1>2
<1> QED BY <1>1, <1>2, <1>3

\* A map keeps its keys when the values under them change.
LEMMA MapKept ==
  ASSUME NEW s, Map(s), NEW t, DOMAIN t = DOMAIN s, t = [i \in DOMAIN t |-> t[i]],
         \A i \in DOMAIN s : t[i].k = s[i].k
  PROVE  Map(t) /\ KeysOf(t) = KeysOf(s)
<1>1. t \in Seq(ToSet(t))
  BY SameLength DEF Map
<1>2. DistinctKeys(t) /\ KeysOf(t) = KeysOf(s)
  BY DEF Map, DistinctKeys, KeysOf
<1> QED BY <1>1, <1>2 DEF Map

\* set_key replaces the value under a key, or adds one.
LEMMA PutKeeps ==
  ASSUME NEW s, Map(s), NEW item
  PROVE  /\ Map(Put(s, item))
         /\ \A i \in DOMAIN Put(s, item) : Put(s, item)[i] = item \/ Put(s, item)[i] \in ToSet(s)
         /\ item \in ToSet(Put(s, item))
         /\ \A x \in ToSet(s) : x.k # item.k => x \in ToSet(Put(s, item))
<1> DEFINE t == Put(s, item)
<1>0. Len(s) \in Nat /\ DOMAIN s = 1 .. Len(s)
  BY DEF Map
<1>1. CASE item.k \in KeysOf(s)
  <2>1. t = [i \in DOMAIN s |-> IF s[i].k = item.k THEN item ELSE s[i]]
    BY <1>1 DEF Put
  <2>2. DOMAIN t = DOMAIN s /\ t = [i \in DOMAIN t |-> t[i]] /\ \A i \in DOMAIN s : t[i].k = s[i].k
    BY <2>1
  <2>3. Map(t)
    BY <2>2, MapKept
  <2>4. PICK j \in DOMAIN s : s[j].k = item.k
    BY <1>1 DEF KeysOf
  <2> QED BY <2>1, <2>3, <2>4 DEF ToSet
<1>2. CASE item.k \notin KeysOf(s)
  <2> DEFINE S == ToSet(s) \cup {item}
  <2>1. t = Append(s, item)
    BY <1>2 DEF Put
  <2>2. s \in Seq(S) /\ item \in S
    <3>1. s \in [1 .. Len(s) -> S]
      BY <1>0 DEF ToSet, Map
    <3> QED BY <1>0, <3>1
  <2>3. /\ t \in Seq(S) /\ Len(t) = Len(s) + 1 /\ DOMAIN t = 1 .. (Len(s) + 1)
        /\ \A i \in DOMAIN s : t[i] = s[i]
        /\ t[Len(s) + 1] = item
    BY <2>1, <2>2, <1>0
  <2>4. \A i \in DOMAIN t : t[i] = item \/ (i \in DOMAIN s /\ t[i] = s[i])
    BY <2>3, <1>0
  <2>5. t \in Seq(ToSet(t))
    <3>1. t \in [1 .. Len(t) -> ToSet(t)]
      BY <2>3, <1>0 DEF ToSet
    <3> QED BY <2>3, <1>0, <3>1
  <2>6. DistinctKeys(t)
    <3> SUFFICES ASSUME NEW i \in DOMAIN t, NEW j \in DOMAIN t, t[i].k = t[j].k
                 PROVE  i = j
      BY DEF DistinctKeys
    <3>1. CASE i \in DOMAIN s /\ j \in DOMAIN s
      BY <3>1, <2>3 DEF Map, DistinctKeys
    <3>2. CASE i \notin DOMAIN s /\ j \notin DOMAIN s
      BY <3>2, <2>3, <1>0
    <3>3. \A n \in DOMAIN s : t[n].k # item.k
      BY <1>2, <2>3 DEF KeysOf
    <3>4. CASE i \in DOMAIN s /\ j \notin DOMAIN s
      <4>1. t[j] = item
        BY <3>4, <2>4
      <4> QED BY <3>3, <3>4, <4>1
    <3>5. CASE i \notin DOMAIN s /\ j \in DOMAIN s
      <4>1. t[i] = item
        BY <3>5, <2>4
      <4> QED BY <3>3, <3>5, <4>1
    <3> QED BY <3>1, <3>2, <3>4, <3>5
  <2>7. item \in ToSet(t) /\ \A x \in ToSet(s) : x \in ToSet(t)
    BY <2>3, <1>0 DEF ToSet
  <2> QED BY <2>4, <2>5, <2>6, <2>7 DEF Map, ToSet
<1> QED BY <1>1, <1>2

\* Containers with distinct names keep them when others are placed among them.
LEMMA PlaceDistinct ==
  ASSUME NEW set, DistinctNames(set), NEW items, DistinctNames(items)
  PROVE  DistinctNames(Place(set, items))
BY DEF DistinctNames, Place, NamesOf

\* What becomes of a set of containers keeps their names.
LEMMA ProcessedContainers ==
  ASSUME NEW set
  PROVE  /\ NamesOf(ProcessContainers(set)) = NamesOf(set)
         /\ DistinctNames(set) => DistinctNames(ProcessContainers(set))
<1>1. \A x : ProcessContainer(x).k = x.k
  BY DEF ProcessContainer
<1> QED BY <1>1 DEF ProcessContainers, NamesOf, DistinctNames

-----------------------------------------------------------------------------
(* Values stay well formed *)

Fields == {"keys", "pod", "extra", "inits", "ctrls", "svcs", "pers", "ing"}

\* The fields of the values of a release.
LEMMA FieldsOfValues == DOMAIN EmptyValues = Fields
BY DEF EmptyValues, Fields

\* What is taken for main has that name, and is one of the set or the default.
LEMMA MainOfFacts ==
  ASSUME NEW set, NEW default, default.k = "main"
  PROVE  LET x == MainOf(set, default)
         IN  x.k = "main" /\ (x = default \/ x \in set)
<1>1. CASE "main" \in NamesOf(set)
  <2>1. \E x \in set : x.k = "main"
    BY <1>1 DEF NamesOf
  <2>2. MainOf(set, default) = CHOOSE x \in set : x.k = "main"
    BY <1>1 DEF MainOf
  <2> QED BY <2>1, <2>2
<1>2. CASE "main" \notin NamesOf(set)
  BY <1>2 DEF MainOf
<1> QED BY <1>1, <1>2

\* A map of controllers, whose containers have names of their own.
ControllerMap(ctrls) ==
  /\ Map(ctrls)
  /\ \A i \in DOMAIN ctrls : DistinctNames(ctrls[i].inits) /\ DistinctNames(ctrls[i].conts)

\* The controllers before anything is put under main are well formed.
LEMMA ControllersV2Facts ==
  ASSUME NEW values, WellFormed(values)
  PROVE  ControllerMap(ControllersV2(values))
<1>1. CASE "controller" \in values.keys
  <2> DEFINE s == ControllersV2(values)
  <2>1. s = <<NewController("main")>>
    BY <1>1 DEF ControllersV2
  <2>2. DOMAIN s = 1 .. 1 /\ s[1] = NewController("main")
    BY <2>1
  <2>3. s \in Seq(ToSet(s))
    BY <2>1, <2>2 DEF ToSet
  <2>4. DistinctKeys(s)
    BY <2>2 DEF DistinctKeys
  <2>5. DistinctNames(s[1].inits) /\ DistinctNames(s[1].conts)
    BY <2>2 DEF DistinctNames, NewController
  <2> QED BY <2>2, <2>3, <2>4, <2>5 DEF Map, ControllerMap
<1>2. CASE "controller" \notin values.keys
  BY <1>2 DEF ControllersV2, WellFormed, Map, ControllerMap
<1> QED BY <1>1, <1>2

\* The controller main is the old one, if there is one, with what moves into it.
LEMMA MainControllerFacts ==
  ASSUME NEW values, WellFormed(values)
  PROVE  LET old == MainOf(ToSet(ControllersV2(values)), NewController("main"))
             main == MainController(values)
         IN  /\ main.k = "main" /\ old.k = "main"
             /\ main.inits = Place(old.inits, ProcessContainers(values.inits))
             /\ main.conts = ContainersV2(values, old.conts)
             /\ old = NewController("main") \/ old \in ToSet(ControllersV2(values))
             /\ DistinctNames(old.inits) /\ DistinctNames(old.conts)
<1> DEFINE old == MainOf(ToSet(ControllersV2(values)), NewController("main"))
<1>1. old.k = "main" /\ (old = NewController("main") \/ old \in ToSet(ControllersV2(values)))
  <2>1. NewController("main").k = "main"
    BY DEF NewController
  <2> QED BY <2>1, MainOfFacts
<1>2. DistinctNames(old.inits) /\ DistinctNames(old.conts)
  <2>1. DistinctNames(NewController("main").inits) /\ DistinctNames(NewController("main").conts)
    BY DEF NewController, DistinctNames
  <2>2. \A x \in ToSet(ControllersV2(values)) : DistinctNames(x.inits) /\ DistinctNames(x.conts)
    BY ControllersV2Facts DEF ToSet, ControllerMap
  <2> QED BY <1>1, <2>1, <2>2
<1> QED BY <1>1, <1>2 DEF MainController

\* What the first script makes of each field.
LEMMA V2Fields ==
  ASSUME NEW values, WellFormed(values)
  PROVE  LET v2 == ProcessV2(values)
         IN  /\ DOMAIN v2 = Fields
             /\ v2.extra = {} /\ v2.inits = {}
             /\ v2.svcs = values.svcs
             /\ v2.ctrls = IF Moves(values) THEN Put(ControllersV2(values), MainController(values))
                           ELSE values.ctrls
             /\ v2.pers = [i \in DOMAIN values.pers |->
                             [k |-> values.pers[i].k, v |-> PersistenceV2(values.pers[i].v)]]
BY FieldsOfValues DEF WellFormed, ProcessV2, Fields

\* The first script writes well-formed values.
LEMMA V2WellFormed ==
  ASSUME NEW values, WellFormed(values)
  PROVE  WellFormed(ProcessV2(values))
<1> DEFINE v2 == ProcessV2(values)
<1>1. ControllerMap(v2.ctrls)
  <2>1. CASE Moves(values)
    <3> DEFINE s == ControllersV2(values)
               main == MainController(values)
    <3>1. v2.ctrls = Put(s, main)
      BY <2>1, V2Fields
    <3>2. ControllerMap(s)
      BY ControllersV2Facts
    <3>3. DistinctNames(main.inits)
      BY MainControllerFacts, PlaceDistinct, ProcessedContainers DEF WellFormed
    <3>4. DistinctNames(main.conts)
      <4> DEFINE old == MainOf(ToSet(s), NewController("main"))
                 item == MainOf(old.conts, NewContainer("main"))
                 moved == values.keys \cap MainKeys
                 x == [k |-> "main", keys |-> item.keys \cup moved, mounts |-> item.mounts, image |-> item.image]
                 placed == IF moved = {} THEN old.conts ELSE Place(old.conts, {x})
      <4>1. DistinctNames(old.conts) /\ main.conts = ContainersV2(values, old.conts)
        BY MainControllerFacts
      <4>2. DistinctNames({x})
        BY DEF DistinctNames
      <4>3. DistinctNames(placed)
        BY <4>1, <4>2, PlaceDistinct
      <4>4. main.conts = Place(placed, ProcessContainers(values.extra))
        BY <4>1 DEF ContainersV2
      <4> QED BY <4>3, <4>4, PlaceDistinct, ProcessedContainers DEF WellFormed
    <3>5. Map(v2.ctrls) /\ \A i \in DOMAIN v2.ctrls : v2.ctrls[i] = main \/ v2.ctrls[i] \in ToSet(s)
      BY <3>1, <3>2, PutKeeps DEF ControllerMap
    <3>6. \A c \in ToSet(s) : DistinctNames(c.inits) /\ DistinctNames(c.conts)
      BY <3>2 DEF ControllerMap, ToSet
    <3> QED BY <3>3, <3>4, <3>5, <3>6 DEF ControllerMap
  <2>2. CASE ~Moves(values)
    BY <2>2, V2Fields DEF WellFormed, ControllerMap, Map
  <2> QED BY <2>1, <2>2
<1>2. Map(v2.pers)
  <2> DEFINE t == [i \in DOMAIN values.pers |-> [k |-> values.pers[i].k, v |-> PersistenceV2(values.pers[i].v)]]
  <2>1. DOMAIN t = DOMAIN values.pers /\ t = [i \in DOMAIN t |-> t[i]]
    OBVIOUS
  <2>2. \A i \in DOMAIN values.pers : t[i].k = values.pers[i].k
    OBVIOUS
  <2>3. Map(values.pers)
    BY DEF WellFormed, Map
  <2> HIDE DEF t
  <2>4. Map(t)
    BY <2>1, <2>2, <2>3, MapKept
  <2> QED BY <2>4, V2Fields DEF t
<1>3. v2.svcs = values.svcs /\ DOMAIN v2 = Fields
  BY V2Fields
<1>4. DistinctNames(v2.inits) /\ DistinctNames(v2.extra) /\ v2.inits \cup v2.extra = {}
  BY V2Fields DEF DistinctNames
<1> QED BY <1>1, <1>2, <1>3, <1>4, FieldsOfValues DEF WellFormed, ControllerMap, Map

\* What the second script makes of each field.
LEMMA V3Fields ==
  ASSUME NEW values, WellFormed(values), NEW first
  PROVE  LET v3 == ProcessV3(values, first)
         IN  /\ DOMAIN v3 = Fields
             /\ v3.extra = values.extra /\ v3.inits = values.inits
             /\ v3.ing = ProcessIngress(values.ing)
             /\ v3.svcs = ProcessService(values.svcs, values.ctrls)
             /\ v3.pers = ProcessPersistence(values.pers, values.ctrls, first)
             /\ v3.ctrls = ProcessControllers(values.ctrls)
BY FieldsOfValues DEF WellFormed, ProcessV3, Fields

\* The second script writes well-formed values, with the keys of the controllers and services.
LEMMA V3WellFormed ==
  ASSUME NEW values, WellFormed(values), NEW first
  PROVE  /\ WellFormed(ProcessV3(values, first))
         /\ KeysOf(ProcessV3(values, first).ctrls) = KeysOf(values.ctrls)
         /\ KeysOf(ProcessV3(values, first).svcs) = KeysOf(values.svcs)
<1> DEFINE v3 == ProcessV3(values, first)
<1>0. Map(values.ctrls) /\ Map(values.svcs) /\ Map(values.pers)
  BY DEF WellFormed, Map
<1>1. ControllerMap(v3.ctrls) /\ KeysOf(v3.ctrls) = KeysOf(values.ctrls)
  <2> DEFINE s == values.ctrls
             t == ProcessControllers(s)
  <2>1. v3.ctrls = t
    BY V3Fields
  <2>2. DOMAIN t = DOMAIN s /\ t = [i \in DOMAIN t |-> t[i]]
    BY DEF ProcessControllers
  <2>3. \A i \in DOMAIN s : t[i].k = s[i].k /\ t[i].conts = s[i].conts
    BY DEF ProcessControllers
  <2>4. \A i \in DOMAIN s : DistinctNames(t[i].inits)
    <3>1. \A i \in DOMAIN s : t[i].inits = {ProcessInitContainer(x) : x \in s[i].inits}
      BY DEF ProcessControllers
    <3>2. \A x : ProcessInitContainer(x).k = x.k
      BY DEF ProcessInitContainer
    <3> QED BY <3>1, <3>2 DEF WellFormed, DistinctNames
  <2> HIDE DEF t
  <2>5. Map(t) /\ KeysOf(t) = KeysOf(s)
    BY <2>2, <2>3, MapKept, <1>0
  <2> QED BY <2>1, <2>2, <2>3, <2>4, <2>5 DEF WellFormed, ControllerMap
<1>2. /\ Map(v3.svcs) /\ KeysOf(v3.svcs) = KeysOf(values.svcs)
      /\ \A i \in DOMAIN v3.svcs : v3.svcs[i].primary \in BOOLEAN /\ v3.svcs[i].ports \in BOOLEAN
  <2> DEFINE s == values.svcs
             t == ProcessService(s, values.ctrls)
  <2>1. DOMAIN t = DOMAIN s /\ t = [i \in DOMAIN t |-> t[i]]
    BY DEF ProcessService
  <2>2. \A i \in DOMAIN s : t[i].k = s[i].k /\ t[i].primary \in BOOLEAN
    BY DEF ProcessService, Routed
  <2>3. \A i \in DOMAIN s : t[i].ports \in BOOLEAN
    BY DEF ProcessService, Routed, WellFormed
  <2> HIDE DEF t
  <2>4. Map(t) /\ KeysOf(t) = KeysOf(s)
    BY <2>1, <2>2, MapKept, <1>0
  <2> QED BY <2>1, <2>2, <2>3, <2>4, V3Fields DEF t
<1>3. Map(v3.pers)
  <2> DEFINE s == values.pers
             t == ProcessPersistence(s, values.ctrls, first)
  <2>1. DOMAIN t = DOMAIN s /\ t = [i \in DOMAIN t |-> t[i]]
    BY DEF ProcessPersistence
  <2>2. \A i \in DOMAIN s : t[i].k = s[i].k
    BY DEF ProcessPersistence, ProcessEntry
  <2> HIDE DEF t
  <2>3. Map(t)
    BY <2>1, <2>2, MapKept, <1>0
  <2> QED BY <2>3, V3Fields DEF t
<1>4. DOMAIN v3 = Fields /\ v3.inits = values.inits /\ v3.extra = values.extra
  BY V3Fields
<1> QED BY <1>1, <1>2, <1>3, <1>4, FieldsOfValues DEF WellFormed, ControllerMap, Map

-----------------------------------------------------------------------------
(* A run *)

\* A file that is empty has well-formed values, none.
LEMMA EmptyWellFormed == WellFormed(EmptyValues)
<1> DEFINE e == EmptyValues
<1>1. e.ctrls = <<>> /\ e.svcs = <<>> /\ e.pers = <<>> /\ e.inits = {} /\ e.extra = {}
  BY DEF EmptyValues
<1>2. <<>> \in Seq(ToSet(<<>>)) /\ DistinctKeys(<<>>)
  BY DEF DistinctKeys
<1> QED BY <1>1, <1>2 DEF WellFormed, DistinctNames

\* A file that is opened for writing is an empty document.
LEMMA EmptiedFacts ==
  ASSUME NEW doc, doc.patch \in BOOLEAN
  PROVE  /\ IsDocument(Emptied(doc))
         /\ \A other : other.patch = doc.patch => Emptied(other) = Emptied(doc)
<1>1. Emptied(doc) = [state |-> "empty", patch |-> doc.patch, version |-> NoVersion, values |-> EmptyValues]
  BY DEF Emptied
<1>2. IsDocument(Emptied(doc))
  BY <1>1, EmptyWellFormed DEF IsDocument, NoVersion
<1>3. \A other : other.patch = doc.patch => Emptied(other) = Emptied(doc)
  BY DEF Emptied
<1> QED BY <1>2, <1>3

\* What a script makes of a document is one.
LEMMA ProcessedFacts ==
  ASSUME NEW doc, IsDocument(doc), doc.state = "ok", NEW first
  PROVE  /\ IsDocument(Processed(doc, first))
         /\ Processed(doc, first) # NoDocument
         /\ Processed(doc, first).patch = doc.patch
         /\ Processed(doc, first).values =
              IF script = "v2" THEN ProcessV2(doc.values) ELSE ProcessV3(doc.values, first)
<1> DEFINE p == Processed(doc, first)
<1>1. /\ DOMAIN p = {"state", "patch", "version", "values"}
      /\ p.state = "ok" /\ p.patch = doc.patch /\ p.version \in {doc.version, Version2, Version3}
      /\ p.values = IF script = "v2" THEN ProcessV2(doc.values) ELSE ProcessV3(doc.values, first)
  BY DEF Processed, IsDocument
<1>2. WellFormed(p.values)
  BY <1>1, V2WellFormed, V3WellFormed DEF IsDocument
<1>3. IsDocument(p)
  BY <1>1, <1>2 DEF IsDocument, Version2, Version3
<1>4. NoDocument.state = "none"
  BY DEF NoDocument
<1> QED BY <1>1, <1>3, <1>4

\* What is about to be written was made, by the script that runs, of the document that
\* was loaded, and the file is empty.
Writing ==
  /\ at \in DOMAIN files
  /\ IsDocument(data) /\ data.state = "ok"
  /\ \E first \in Names : ~Fails(data, first) /\ new = Processed(data, first)
  /\ files[at] = Emptied(new)

RunInv ==
  /\ files \in Seq(ToSet(files))
  /\ TypeOK
  /\ new # NoDocument => Writing

\* A document replaces another in its file.
LEMMA FileReplaced ==
  ASSUME files \in Seq(ToSet(files)), \A i \in DOMAIN files : IsDocument(files[i]),
         at \in DOMAIN files, NEW doc, IsDocument(doc), files' = [files EXCEPT ![at] = doc]
  PROVE  /\ files' \in Seq(ToSet(files')) /\ Len(files') = Len(files)
         /\ DOMAIN files' = DOMAIN files /\ files'[at] = doc
         /\ \A i \in DOMAIN files' : IsDocument(files'[i])
<1>1. DOMAIN files' = DOMAIN files /\ files' = [i \in DOMAIN files' |-> files'[i]]
  OBVIOUS
<1>2. files'[at] = doc /\ \A i \in DOMAIN files : i # at => files'[i] = files[i]
  OBVIOUS
<1> QED BY <1>1, <1>2, SameLength

\* The invariant holds of every directory to begin with.
LEMMA RunInvInit == Init => RunInv
<1> SUFFICES ASSUME Init PROVE RunInv
  OBVIOUS
<1>1. files \in Seq(ToSet(files)) /\ \A i \in DOMAIN files : IsDocument(files[i])
  BY TreesAssumption DEF Init
<1>2. Len(files) \in Nat
  BY <1>1
<1> QED BY <1>1, <1>2, MaxKillsAssumption DEF Init, RunInv, TypeOK

\* Every step keeps the invariant.
LEMMA RunInvStep == RunInv /\ [Next]_vars => RunInv'
<1> SUFFICES ASSUME RunInv, [Next]_vars PROVE RunInv'
  OBVIOUS
<1> USE DEF RunInv
<1>0. Len(files) \in Nat /\ DOMAIN files = 1 .. Len(files)
  OBVIOUS
<1>1. CASE Start
  BY <1>0, <1>1 DEF Start, TypeOK, Writing
<1>2. CASE GoOver
  BY <1>0, <1>2 DEF GoOver, TypeOK, Writing
<1>3. CASE PassOver
  BY <1>0, <1>3 DEF PassOver, Reading, TypeOK, Writing
<1>4. CASE Crash
  BY <1>0, <1>4 DEF Crash, Reading, TypeOK
<1>5. ASSUME NEW first \in Names, Process(first)
      PROVE  RunInv'
  <2> DEFINE doc == files[at]
  <2>1. at \in DOMAIN files /\ IsDocument(doc) /\ doc.state = "ok" /\ ~Fails(doc, first)
    BY <1>5 DEF Process, Reading, TypeOK, ShouldProcess
  <2>2. data' = doc /\ new' = Processed(doc, first) /\ files' = [files EXCEPT ![at] = Emptied(doc)]
    BY <1>5 DEF Process
  <2>3. IsDocument(Emptied(doc))
    BY <2>1, EmptiedFacts DEF IsDocument
  <2>4. /\ files' \in Seq(ToSet(files')) /\ Len(files') = Len(files)
        /\ DOMAIN files' = DOMAIN files /\ files'[at] = Emptied(doc)
        /\ \A i \in DOMAIN files' : IsDocument(files'[i])
    BY <2>1, <2>2, <2>3, FileReplaced DEF TypeOK
  <2>5. new' # NoDocument /\ new'.patch = doc.patch
    BY <2>1, <2>2, ProcessedFacts
  <2>6. Emptied(new') = Emptied(doc)
    BY <2>1, <2>5, EmptiedFacts DEF IsDocument
  <2>7. UNCHANGED <<script, yeet, skip, at, kills>>
    BY <1>5 DEF Process
  <2>8. data' # NoDocument
    BY <2>1, <2>2 DEF NoDocument
  <2>9. new' = Processed(data, first)' /\ ~Fails(data, first)'
    BY <2>1, <2>2, <2>7 DEF Processed, Fails
  <2>10. TypeOK'
    BY <2>4, <2>5, <2>6, <2>7, <2>8, <2>1 DEF TypeOK
  <2>11. Writing'
    BY <2>1, <2>2, <2>4, <2>6, <2>7, <2>9 DEF Writing
  <2> QED BY <2>4, <2>10, <2>11
<1>6. CASE Save
  <2>1. Writing /\ files' = [files EXCEPT ![at] = new] /\ data' = NoDocument /\ new' = NoDocument
    BY <1>6 DEF Save
  <2>2. IsDocument(new)
    BY <2>1, ProcessedFacts DEF Writing
  <2>3. /\ files' \in Seq(ToSet(files')) /\ Len(files') = Len(files)
        /\ \A i \in DOMAIN files' : IsDocument(files'[i])
    BY <2>1, <2>2, FileReplaced DEF TypeOK, Writing
  <2>4. at' \in 0 .. Len(files) + 1 /\ UNCHANGED <<script, yeet, skip, kills>>
    BY <1>6, <2>1, <1>0 DEF Save, Writing
  <2> QED BY <2>1, <2>3, <2>4 DEF TypeOK
<1>7. CASE End
  BY <1>0, <1>7 DEF End, TypeOK, Writing
<1>8. CASE Kill
  BY <1>0, <1>8, MaxKillsAssumption DEF Kill, TypeOK
<1>9. CASE UNCHANGED vars
  BY <1>9 DEF vars, TypeOK, Writing, Processed, Fails
<1> QED BY <1>1, <1>2, <1>3, <1>4, <1>5, <1>6, <1>7, <1>8, <1>9 DEF Next, Run

\* A run is at a file or past the last, every file is empty, as it was or as a script made
\* it, and while one is written it is empty.
THEOREM TypeCorrect == Spec => []TypeOK
<1>1. RunInv => TypeOK
  BY DEF RunInv
<1> QED BY RunInvInit, RunInvStep, <1>1, PTL DEF Spec

-----------------------------------------------------------------------------
(* Mounts *)

\* The mounts of an entry, case by case.
LEMMA EntryFacts ==
  ASSUME NEW e, NEW mount
  PROVE  mount \in EntryMounts(e) <=>
           \/ \E p \in Under(e.v, "globalMounts") : mount = <<e.k, "*", p>>
           \/ Has(e.v, "mountPath") /\ mount = <<e.k, "*", e.v["mountPath"]>>
           \/ \E m \in Under(e.v, "advancedMounts") : mount = <<e.k, m[2], m[3]>>
BY DEF EntryMounts, Has

\* A mount is provided by an entry.
LEMMA ProvidedFacts ==
  ASSUME NEW values, NEW mount
  PROVE  mount \in Provided(values) <=> \E e \in ToSet(values.pers) : mount \in EntryMounts(e)
BY Zenon DEF Provided

\* A mount is asked for by an entry, or a container.
LEMMA AskedForFacts ==
  ASSUME NEW values, NEW mount
  PROVE  mount \in AskedFor(values) <=>
           \/ mount \in Provided(values)
           \/ \E c \in ToSet(values.ctrls) : \E x \in Containers(c) : mount \in ContainerMounts(x)
           \/ \E x \in values.inits \cup values.extra : mount \in ContainerMounts(x)
<1> DEFINE containers == UNION {Containers(c) : c \in ToSet(values.ctrls)}
           S == containers \cup values.inits \cup values.extra
<1>1. \A x : x \in containers <=> \E c \in ToSet(values.ctrls) : x \in Containers(c)
  BY Zenon
<1>2. mount \in AskedFor(values) <=>
        mount \in Provided(values) \/ (\E x \in S : mount \in ContainerMounts(x))
  <2>1. mount \in UNION {ContainerMounts(x) : x \in S} <=> \E x \in S : mount \in ContainerMounts(x)
    BY Zenon
  <2>2. AskedFor(values) = Provided(values) \cup UNION {ContainerMounts(x) : x \in S}
    BY DEF AskedFor
  <2> QED BY <2>1, <2>2
<1>3. \A x : x \in S <=> x \in containers \/ x \in values.inits \cup values.extra
  OBVIOUS
<1> HIDE DEF S, containers
<1> QED BY <1>1, <1>2, <1>3, Zenon

\* Keys removed from a map.
LEMMA WithoutFacts ==
  ASSUME NEW m, NEW keys
  PROVE  /\ DOMAIN Without(m, keys) = DOMAIN m \ keys
         /\ \A x \in DOMAIN m \ keys : Without(m, keys)[x] = m[x]
BY DEF Without, Restrict

\* A key set in a map.
LEMMA WithFacts ==
  ASSUME NEW m, NEW key, NEW value
  PROVE  /\ DOMAIN With(m, key, value) = DOMAIN m \cup {key}
         /\ With(m, key, value)[key] = value
         /\ \A x \in DOMAIN m : x # key => With(m, key, value)[x] = m[x]
BY DEF With

\* process_persistence loses the globalMounts of an entry with a mountPath.
LEMMA EntryKeptByV2 ==
  ASSUME NEW e, NEW mount, mount \in EntryMounts(e),
         ~(Has(e.v, "mountPath") /\ \E p \in Under(e.v, "globalMounts") : mount = <<e.k, "*", p>>)
  PROVE  mount \in EntryMounts([k |-> e.k, v |-> PersistenceV2(e.v)])
<1> DEFINE m == PersistenceV2(e.v)
           kept == Without(e.v, {"mountPath"})
<1>1. CASE ~Has(e.v, "mountPath")
  <2>1. m = e.v
    BY <1>1 DEF PersistenceV2
  <2> QED BY <2>1, EntryFacts
<1>2. CASE Has(e.v, "mountPath")
  <2>1. m = With(kept, "globalMounts", {e.v["mountPath"]})
    BY <1>2 DEF PersistenceV2
  <2>2. /\ DOMAIN kept = DOMAIN e.v \ {"mountPath"}
        /\ \A x \in DOMAIN e.v \ {"mountPath"} : kept[x] = e.v[x]
    BY Zenon, WithoutFacts
  <2> HIDE DEF m, kept
  <2>3. /\ DOMAIN m = DOMAIN kept \cup {"globalMounts"}
        /\ m["globalMounts"] = {e.v["mountPath"]}
        /\ \A x \in DOMAIN kept : x # "globalMounts" => m[x] = kept[x]
    BY <2>1 DEF With
  <2>4. /\ Under(m, "globalMounts") = {e.v["mountPath"]}
        /\ Under(m, "advancedMounts") = Under(e.v, "advancedMounts")
    BY <2>2, <2>3 DEF Under, Has
  <2>5. \/ mount = <<e.k, "*", e.v["mountPath"]>>
        \/ \E a \in Under(e.v, "advancedMounts") : mount = <<e.k, a[2], a[3]>>
    BY <1>2, EntryFacts
  <2>6. mount \in EntryMounts([k |-> e.k, v |-> m])
    <3> DEFINE entry == [k |-> e.k, v |-> m]
    <3>1. entry.k = e.k /\ entry.v = m
      OBVIOUS
    <3> HIDE DEF entry
    <3> QED BY <2>4, <2>5, <3>1, EntryFacts
  <2> QED BY <2>6 DEF m
<1> QED BY <1>1, <1>2

\* The containers of main, with what moves into the one named main.
LEMMA ContainersKeptByV2 ==
  ASSUME NEW values, NEW conts, DistinctNames(conts), NEW mount
  PROVE  /\ \A x \in conts : x.k \notin NamesOf(values.extra) /\ mount \in ContainerMounts(x)
              => \E y \in ContainersV2(values, conts) : mount \in ContainerMounts(y)
         /\ ProcessContainers(values.extra) \subseteq ContainersV2(values, conts)
<1> DEFINE moved == values.keys \cap MainKeys
           old == MainOf(conts, NewContainer("main"))
           item == [k |-> "main", keys |-> old.keys \cup moved, mounts |-> old.mounts, image |-> old.image]
           placed == IF moved = {} THEN conts ELSE Place(conts, {item})
<1>1. ContainersV2(values, conts) = Place(placed, ProcessContainers(values.extra))
  BY DEF ContainersV2
<1>0. NamesOf(ProcessContainers(values.extra)) = NamesOf(values.extra)
  BY ProcessedContainers
<1>2. ASSUME NEW x \in conts, x.k \notin NamesOf(values.extra), mount \in ContainerMounts(x)
      PROVE  \E y \in ContainersV2(values, conts) : mount \in ContainerMounts(y)
  <2>1. CASE moved = {}
    BY <1>0, <1>1, <1>2, <2>1 DEF Place
  <2>2. CASE moved # {} /\ x.k # "main"
    <3>1. x \in placed
      BY <2>2 DEF Place, NamesOf
    <3> QED BY <1>0, <1>1, <1>2, <3>1 DEF Place
  <2>3. CASE moved # {} /\ x.k = "main"
    <3>1. old = x
      <4>1. "main" \in NamesOf(conts)
        BY <2>3 DEF NamesOf
      <4>2. old = CHOOSE z \in conts : z.k = "main"
        BY <4>1 DEF MainOf
      <4>3. old \in conts /\ old.k = "main"
        BY <2>3, <4>2
      <4> QED BY <2>3, <4>3 DEF DistinctNames
    <3>2. item \in placed /\ item.k = "main" /\ item.mounts = x.mounts
      BY <2>3, <3>1 DEF Place
    <3>3. item \in ContainersV2(values, conts)
      BY <1>0, <1>1, <1>2, <2>3, <3>2 DEF Place
    <3>4. ContainerMounts(item) = ContainerMounts(x)
      BY <2>3, <3>2 DEF ContainerMounts
    <3> QED BY <1>2, <3>3, <3>4
  <2> QED BY <2>1, <2>2, <2>3
<1>3. ProcessContainers(values.extra) \subseteq ContainersV2(values, conts)
  BY <1>1 DEF Place
<1> QED BY <1>2, <1>3

\* The first script loses no other mounts than those named.
LEMMA KeptByV2 ==
  ASSUME NEW values, WellFormed(values), NEW mount, mount \in AskedFor(values), ~LostByV2(values, mount)
  PROVE  mount \in AskedFor(ProcessV2(values))
<1> DEFINE v2 == ProcessV2(values)
           ctrls == ControllersV2(values)
           old == MainOf(ToSet(ctrls), NewController("main"))
           main == MainController(values)
<1>1. ASSUME NEW e \in ToSet(values.pers), mount \in EntryMounts(e)
      PROVE  mount \in AskedFor(v2)
  <2>1. PICK i \in DOMAIN values.pers : e = values.pers[i]
    BY DEF ToSet
  <2>2. [k |-> e.k, v |-> PersistenceV2(e.v)] \in ToSet(v2.pers)
    <3>1. /\ DOMAIN v2.pers = DOMAIN values.pers
          /\ v2.pers[i] = [k |-> values.pers[i].k, v |-> PersistenceV2(values.pers[i].v)]
      <4>1. v2.pers = [n \in DOMAIN values.pers |->
                         [k |-> values.pers[n].k, v |-> PersistenceV2(values.pers[n].v)]]
        BY V2Fields
      <4> HIDE DEF v2
      <4> QED BY <2>1, <4>1
    <3> HIDE DEF v2
    <3> QED BY <2>1, <3>1 DEF ToSet
  <2>3. mount \in EntryMounts([k |-> e.k, v |-> PersistenceV2(e.v)])
    BY <1>1, EntryKeptByV2 DEF LostByV2
  <2> HIDE DEF v2
  <2> QED BY <2>2, <2>3, ProvidedFacts, AskedForFacts
<1>2. Moves(values) => main \in ToSet(v2.ctrls)
  <2>1. Map(ctrls)
    BY ControllersV2Facts DEF ControllerMap
  <2>2. main \in ToSet(Put(ctrls, main))
    BY <2>1, PutKeeps
  <2>3. Moves(values) => v2.ctrls = Put(ctrls, main)
    BY V2Fields
  <2> QED BY <2>2, <2>3
<1>3. /\ main.k = "main" /\ main.inits = Place(old.inits, ProcessContainers(values.inits))
      /\ main.conts = ContainersV2(values, old.conts)
      /\ DistinctNames(old.conts)
  BY MainControllerFacts
<1>4. ASSUME NEW x \in values.inits \cup values.extra, mount \in ContainerMounts(x)
      PROVE  mount \in AskedFor(v2)
  <2>1. Moves(values)
    BY <1>4 DEF Moves
  <2>2. ProcessContainer(x) \in Containers(main)
    <3>1. x \in values.inits => ProcessContainer(x) \in main.inits
      BY <1>3 DEF Place, ProcessContainers
    <3>2. x \in values.extra => ProcessContainer(x) \in main.conts
      BY <1>3, ContainersKeptByV2 DEF ProcessContainers
    <3> QED BY <3>1, <3>2 DEF Containers
  <2>3. ContainerMounts(ProcessContainer(x)) = ContainerMounts(x)
    BY DEF ContainerMounts, ProcessContainer
  <2> HIDE DEF v2, main
  <2> QED BY <1>2, <1>4, <2>1, <2>2, <2>3, AskedForFacts
<1>5. ASSUME NEW c \in ToSet(values.ctrls), NEW x \in Containers(c), mount \in ContainerMounts(x)
      PROVE  mount \in AskedFor(v2)
  <2>1. ctrls = values.ctrls
    BY <1>5 DEF LostByV2, ControllersV2
  <2>2. CASE ~Moves(values)
    <3>1. v2.ctrls = values.ctrls
      BY <2>2, V2Fields
    <3> HIDE DEF v2
    <3> QED BY <1>5, <3>1, AskedForFacts
  <2>3. CASE Moves(values) /\ c.k # "main"
    <3>1. c \in ToSet(v2.ctrls)
      <4>1. Map(ctrls) /\ main.k = "main"
        BY <1>3, ControllersV2Facts DEF ControllerMap
      <4>2. c \in ToSet(Put(ctrls, main))
        BY <2>1, <2>3, <4>1, PutKeeps
      <4>3. v2.ctrls = Put(ctrls, main)
        BY <2>3, V2Fields
      <4> QED BY <4>2, <4>3
    <3> HIDE DEF v2
    <3> QED BY <1>5, <3>1, AskedForFacts
  <2>4. CASE Moves(values) /\ c.k = "main"
    <3>1. old = c
      <4>1. "main" \in NamesOf(ToSet(ctrls))
        BY <2>1, <2>4 DEF NamesOf
      <4>2. old = CHOOSE z \in ToSet(ctrls) : z.k = "main"
        BY <4>1 DEF MainOf
      <4>3. old \in ToSet(ctrls) /\ old.k = "main"
        BY <2>1, <2>4, <4>2
      <4>4. PICK i \in DOMAIN ctrls, j \in DOMAIN ctrls : old = ctrls[i] /\ c = ctrls[j]
        BY <2>1, <4>3 DEF ToSet
      <4>5. i = j
        BY <2>1, <2>4, <4>3, <4>4 DEF WellFormed, DistinctKeys
      <4> QED BY <4>4, <4>5
    <3>2. \E y \in Containers(main) : mount \in ContainerMounts(y)
      <4>1. CASE x \in c.inits
        <5>1. x.k \notin NamesOf(values.inits)
          BY <1>5, <2>4, <4>1 DEF LostByV2
        <5>2. x \in main.inits
          BY <1>3, <3>1, <4>1, <5>1, ProcessedContainers DEF Place
        <5> QED BY <1>5, <5>2 DEF Containers
      <4>2. CASE x \in c.conts
        <5>1. x.k \notin NamesOf(values.extra)
          BY <1>5, <2>4, <4>2 DEF LostByV2
        <5>2. \E y \in main.conts : mount \in ContainerMounts(y)
          BY <1>3, <1>5, <3>1, <4>2, <5>1, ContainersKeptByV2
        <5> QED BY <5>2 DEF Containers
      <4> QED BY <4>1, <4>2 DEF Containers
    <3> HIDE DEF v2, main
    <3> QED BY <1>2, <2>4, <3>2, AskedForFacts
  <2> QED BY <2>2, <2>3, <2>4
<1> QED BY <1>1, <1>4, <1>5, AskedForFacts, ProvidedFacts

\* Every type allows mounts, and requires none.
LEMMA AllowedFacts == \A type \in DOMAIN AllowedKeys : Common \subseteq AllowedKeys[type]
BY DEF AllowedKeys

\* What an entry must have is none of what all may have.
LEMMA RequiredFacts ==
  ASSUME NEW pers, NEW i
  PROVE  Required(pers, i) \cap Common = {}
<1>1. \A type \in DOMAIN RequiredKeys : RequiredKeys[type] \cap Common = {}
  BY DEF RequiredKeys, Common
<1> QED BY <1>1 DEF Required

\* The mounts of an entry of a known type are allowed keys.
LEMMA ConformFacts ==
  ASSUME NEW pers, NEW i, TypeOf(pers[i].v) \in DOMAIN AllowedKeys,
         NEW key \in {"globalMounts", "advancedMounts"}
  PROVE  Under(Conform(pers, i), key) = Under(pers[i].v, key)
<1> DEFINE m == pers[i].v
           type == TypeOf(m)
           own == IF ~Has(m, "existingClaim") THEN m
                  ELSE With(Without(m, {"accessMode", "size"}), "type", type)
           kept == Without(own, DOMAIN own \ (IF type \in DOMAIN AllowedKeys THEN AllowedKeys[type] ELSE {}))
<1>1. Has(own, key) <=> Has(m, key)
  BY DEF Has, With, Without, Restrict
<1>2. Has(m, key) => own[key] = m[key]
  BY DEF Has, With, Without, Restrict
<1>3. key \in AllowedKeys[type] /\ key \notin Required(pers, i)
  BY AllowedFacts, RequiredFacts DEF Common
<1> HIDE DEF own
<1>4. Has(kept, key) <=> Has(own, key)
  BY <1>3 DEF Has, Without, Restrict
<1>5. Has(own, key) => kept[key] = own[key]
  BY <1>3 DEF Has, Without, Restrict
<1>6. Conform(pers, i) = [x \in DOMAIN kept \cup Required(pers, i) |-> IF Has(kept, x) THEN kept[x] ELSE None]
  BY DEF Conform, own
<1> HIDE DEF kept
<1>7. Has(Conform(pers, i), key) <=> Has(kept, key)
  BY <1>3, <1>6 DEF Has
<1>8. Has(kept, key) => Conform(pers, i)[key] = kept[key]
  BY <1>6 DEF Has
<1> QED BY <1>1, <1>2, <1>4, <1>5, <1>7, <1>8 DEF Under

\* Unless the names of its type are used up, an entry takes one of them.
LEMMA NamesLeftFacts ==
  ASSUME NEW pers, NEW first \in Names, ~OutOfNames(pers, first), NEW i \in DOMAIN pers, Shares(pers[i])
  PROVE  Popped(NamesLeft(pers, i, first), first) \in Names
<1> DEFINE names == NamesLeft(pers, i, first)
<1>1. names # {}
  BY DEF OutOfNames
<1>2. names \subseteq Names
  BY DEF NamesLeft
<1> HIDE DEF names
<1>3. (CHOOSE name \in names : TRUE) \in names
  BY <1>1
<1> QED BY <1>2, <1>3 DEF Popped, names

\* What the second script makes of the mounts of an entry.
LEMMA EntryKeptByV3 ==
  ASSUME NEW pers, NEW first \in Names, ~OutOfNames(pers, first), NEW i \in DOMAIN pers, NEW ctrls,
         Enabled(pers[i]), TypeOf(pers[i].v) \in DOMAIN AllowedKeys
  PROVE  LET e == ProcessEntry(pers, i, ctrls, first)
             mounts == VolumeMounts(ctrls, pers[i].k)
         IN  /\ e.k = pers[i].k
             /\ Under(e.v, "globalMounts") = Under(pers[i].v, "globalMounts")
             /\ mounts # {} => Under(e.v, "advancedMounts") = mounts \cup Under(pers[i].v, "advancedMounts")
<1> DEFINE m == Conform(pers, i)
           names == NamesLeft(pers, i, first)
           pops == Shares(pers[i]) /\ Lacks(pers[i], names)
           name == Popped(names, first)
           named == IF pops THEN With(m, name, None) ELSE m
           mounts == VolumeMounts(ctrls, pers[i].k)
           e == ProcessEntry(pers, i, ctrls, first)
<1>1. e = [k |-> pers[i].k, v |-> Mounted(ctrls, pers[i].k, named)]
  BY DEF ProcessEntry
<1>2. \A key \in {"globalMounts", "advancedMounts"} : Under(m, key) = Under(pers[i].v, key)
  BY ConformFacts
<1>3. pops => name \in {"name", "identifier"}
  BY NamesLeftFacts DEF Names
<1> HIDE DEF m, name, pops, e, mounts
<1>4. ASSUME NEW key \in {"globalMounts", "advancedMounts"}
      PROVE  Under(named, key) = Under(m, key)
  <2>1. CASE ~pops
    BY <2>1
  <2>2. CASE pops
    <3>1. DOMAIN named = DOMAIN m \cup {name} /\ \A x \in DOMAIN m : x # name => named[x] = m[x]
      BY <2>2 DEF With
    <3>2. key # name
      BY <1>3, <2>2
    <3> HIDE DEF named
    <3> QED BY <3>1, <3>2 DEF Under, Has
  <2> QED BY <2>1, <2>2
<1> HIDE DEF named
<1> DEFINE v == Mounted(ctrls, pers[i].k, named)
<1>5. Under(v, "globalMounts") = Under(named, "globalMounts")
  BY DEF Mounted, Under, Has, With, Without, Restrict
<1>6. mounts # {} => Under(v, "advancedMounts") = mounts \cup Under(named, "advancedMounts")
  <2>1. ASSUME mounts # {}
        PROVE  v = With(named, "advancedMounts", mounts \cup Under(named, "advancedMounts"))
    BY <2>1 DEF Mounted, mounts
  <2> HIDE DEF v
  <2>2. ASSUME mounts # {}
        PROVE  Under(v, "advancedMounts") = mounts \cup Under(named, "advancedMounts")
    <3> DEFINE u == mounts \cup Under(named, "advancedMounts")
    <3>1. v = With(named, "advancedMounts", u)
      BY <2>1, <2>2
    <3> HIDE DEF u
    <3>2. Under(v, "advancedMounts") = u
      BY <3>1 DEF Under, Has, With
    <3> QED BY <3>2 DEF u
  <2> QED BY <2>2
<1> HIDE DEF v
<1> QED BY <1>1, <1>2, <1>4, <1>5, <1>6 DEF v, e, mounts

\* A volumeMount is found.
LEMMA VolumeMountsFacts ==
  ASSUME NEW ctrls, NEW c \in ToSet(ctrls), NEW x \in Containers(c), NEW m \in x.mounts
  PROVE  <<c.k, x.k, m.path>> \in VolumeMounts(ctrls, m.vol)
<1> DEFINE Of(d, y) == {<<d.k, y.k, n.path>> : n \in {n \in y.mounts : n.vol = m.vol}}
           All(d) == UNION {Of(d, y) : y \in Containers(d)}
<1>1. <<c.k, x.k, m.path>> \in Of(c, x)
  OBVIOUS
<1>2. VolumeMounts(ctrls, m.vol) = UNION {All(d) : d \in ToSet(ctrls)}
  BY Zenon DEF VolumeMounts
<1> HIDE DEF Of
<1>3. <<c.k, x.k, m.path>> \in All(c)
  BY <1>1, Zenon
<1> HIDE DEF All
<1> QED BY <1>2, <1>3, Zenon

\* The second script loses no other mounts than those named.
LEMMA KeptByV3 ==
  ASSUME NEW values, WellFormed(values), NEW first \in Names, ~FailsV3(values, first),
         NEW mount, mount \in AskedFor(values), ~LostByV3(values, mount)
  PROVE  mount \in Provided(ProcessV3(values, first))
<1> DEFINE v3 == ProcessV3(values, first)
           pers == values.pers
           After(i) == ProcessEntry(pers, i, values.ctrls, first)
<1>1. ASSUME NEW vol, Given(values, vol)
      PROVE  \E i \in DOMAIN pers :
               /\ pers[i].k = vol /\ After(i) \in ToSet(v3.pers) /\ After(i).k = vol
               /\ \A j \in DOMAIN pers : pers[j].k = vol => j = i
               /\ Under(After(i).v, "globalMounts") = Under(pers[i].v, "globalMounts")
               /\ VolumeMounts(values.ctrls, vol) # {} =>
                    Under(After(i).v, "advancedMounts") =
                      VolumeMounts(values.ctrls, vol) \cup Under(pers[i].v, "advancedMounts")
  <2>1. PICK i \in DOMAIN pers :
          pers[i].k = vol /\ Enabled(pers[i]) /\ TypeOf(pers[i].v) \in DOMAIN AllowedKeys
    BY <1>1 DEF Given, ToSet
  <2>2. ~OutOfNames(pers, first)
    BY DEF FailsV3
  <2>3. /\ After(i).k = vol
        /\ Under(After(i).v, "globalMounts") = Under(pers[i].v, "globalMounts")
        /\ VolumeMounts(values.ctrls, vol) # {} =>
             Under(After(i).v, "advancedMounts") =
               VolumeMounts(values.ctrls, vol) \cup Under(pers[i].v, "advancedMounts")
    <3>1. i \in DOMAIN pers /\ Enabled(pers[i]) /\ TypeOf(pers[i].v) \in DOMAIN AllowedKeys
      BY <2>1
    <3> HIDE DEF pers, After
    <3>2. LET e == ProcessEntry(pers, i, values.ctrls, first)
              mounts == VolumeMounts(values.ctrls, pers[i].k)
          IN  /\ e.k = pers[i].k
              /\ Under(e.v, "globalMounts") = Under(pers[i].v, "globalMounts")
              /\ mounts # {} => Under(e.v, "advancedMounts") = mounts \cup Under(pers[i].v, "advancedMounts")
      BY <2>2, <3>1, EntryKeptByV3
    <3> QED BY <2>1, <3>2 DEF After
  <2>4. After(i) \in ToSet(v3.pers)
    <3>1. v3.pers = ProcessPersistence(pers, values.ctrls, first)
      BY V3Fields
    <3>2. DOMAIN v3.pers = DOMAIN pers /\ v3.pers[i] = After(i)
      BY <3>1 DEF ProcessPersistence
    <3> HIDE DEF v3, After
    <3> QED BY <3>2 DEF ToSet
  <2>5. \A j \in DOMAIN pers : pers[j].k = vol => j = i
    BY <2>1 DEF WellFormed, DistinctKeys
  <2> QED BY <2>1, <2>3, <2>4, <2>5
<1> HIDE DEF v3, After
<1>2. Given(values, mount[1])
  BY DEF LostByV3
<1>3. PICK i \in DOMAIN pers :
        /\ pers[i].k = mount[1] /\ After(i) \in ToSet(v3.pers) /\ After(i).k = mount[1]
        /\ \A j \in DOMAIN pers : pers[j].k = mount[1] => j = i
        /\ Under(After(i).v, "globalMounts") = Under(pers[i].v, "globalMounts")
        /\ VolumeMounts(values.ctrls, mount[1]) # {} =>
             Under(After(i).v, "advancedMounts") =
               VolumeMounts(values.ctrls, mount[1]) \cup Under(pers[i].v, "advancedMounts")
  BY <1>1, <1>2
<1>4. SUFFICES mount \in EntryMounts(After(i))
  BY <1>3, ProvidedFacts DEF v3
<1>5. CASE mount \in Provided(values)
  <2>1. PICK e \in ToSet(pers) : mount \in EntryMounts(e)
    BY <1>5, ProvidedFacts
  <2>2. mount[1] = e.k
    BY <2>1, EntryFacts
  <2>3. e = pers[i]
    BY <1>3, <2>2 DEF ToSet
  <2>4. ~(Has(e.v, "mountPath") /\ mount = <<e.k, "*", e.v["mountPath"]>>)
    BY DEF LostByV3
  <2>5. CASE \E p \in Under(e.v, "globalMounts") : mount = <<e.k, "*", p>>
    BY <1>3, <2>2, <2>3, <2>5, EntryFacts
  <2>6. CASE \E m \in Under(e.v, "advancedMounts") : mount = <<e.k, m[2], m[3]>>
    <3>1. VolumeMounts(values.ctrls, mount[1]) # {}
      BY <2>2, <2>6 DEF LostByV3
    <3> QED BY <1>3, <2>2, <2>3, <2>6, <3>1, EntryFacts
  <2> QED BY <2>1, <2>4, <2>5, <2>6, EntryFacts
<1>6. ASSUME NEW c \in ToSet(values.ctrls), NEW x \in Containers(c), mount \in ContainerMounts(x)
      PROVE  mount \in EntryMounts(After(i))
  <2>1. PICK m \in x.mounts : mount = <<m.vol, x.k, m.path>>
    BY <1>6 DEF ContainerMounts
  <2>2. <<c.k, x.k, m.path>> \in VolumeMounts(values.ctrls, mount[1])
    BY <2>1, VolumeMountsFacts
  <2>3. <<c.k, x.k, m.path>> \in Under(After(i).v, "advancedMounts")
    BY <1>3, <2>2
  <2>4. mount = <<After(i).k, <<c.k, x.k, m.path>>[2], <<c.k, x.k, m.path>>[3]>>
    BY <1>3, <2>1
  <2> QED BY <2>3, <2>4, EntryFacts
<1>7. ~ \E x \in values.inits \cup values.extra : mount \in ContainerMounts(x)
  BY DEF LostByV3
<1> QED BY <1>5, <1>6, <1>7, AskedForFacts

\* While a document is written, what it will be written with is the work of the script.
LEMMA WritingFacts ==
  ASSUME RunInv, new # NoDocument
  PROVE  \E first \in Names :
           /\ WellFormed(data.values)
           /\ script = "v2" => new.values = ProcessV2(data.values)
           /\ script = "v3" => new.values = ProcessV3(data.values, first) /\ ~FailsV3(data.values, first)
<1>1. Writing
  BY DEF RunInv
<1>2. PICK first \in Names : ~Fails(data, first) /\ new = Processed(data, first)
  BY <1>1 DEF Writing
<1>3. new.values = IF script = "v2" THEN ProcessV2(data.values) ELSE ProcessV3(data.values, first)
  BY <1>1, <1>2, ProcessedFacts DEF Writing
<1>4. script = "v3" => ~FailsV3(data.values, first)
  BY <1>2 DEF Fails
<1>5. WellFormed(data.values)
  BY <1>1 DEF Writing, IsDocument
<1> QED BY <1>3, <1>4, <1>5

\* However many controllers, containers and entries the values have, the first script
\* loses no mount but those that LostByV2 names, the second none but those of LostByV3.
THEOREM MountsCorrect == Spec => MountsKept
<1>1. ASSUME RunInv, Saved
      PROVE  IF script = "v2"
             THEN \A mount \in AskedFor(data.values) \ AskedFor(new.values) : LostByV2(data.values, mount)
             ELSE \A mount \in AskedFor(data.values) \ Provided(new.values) : LostByV3(data.values, mount)
  <2>1. PICK first \in Names :
          /\ WellFormed(data.values)
          /\ script = "v2" => new.values = ProcessV2(data.values)
          /\ script = "v3" => new.values = ProcessV3(data.values, first) /\ ~FailsV3(data.values, first)
    BY <1>1, WritingFacts DEF Saved
  <2>2. CASE script = "v2"
    BY <2>1, <2>2, KeptByV2
  <2>3. CASE script = "v3"
    BY <2>1, <2>3, KeptByV3
  <2> QED BY <1>1, <2>2, <2>3 DEF RunInv, TypeOK
<1> QED BY <1>1, RunInvInit, RunInvStep, PTL DEF Spec, MountsKept

-----------------------------------------------------------------------------
(* Images *)

\* A text that is split at its first colon, and joined there again, is the same.
LEMMA SplitKeeps ==
  ASSUME NEW image, IsImage(image)
  PROVE  /\ Reference(SplitImage(image)) = Reference(image)
         /\ SplitImage(image).form = "text" => Len(image.name) = 1
<1>1. CASE image.form = "text" /\ Len(image.name) > 1
  <2>1. SplitImage(image) = [form |-> "map", name |-> <<image.name[1]>>, tag |-> Tail(image.name)]
    BY <1>1 DEF SplitImage
  <2>2. image.name \in Seq(STRING) /\ image.tag = <<>>
    BY <1>1 DEF IsImage
  <2>3. <<image.name[1]>> \o Tail(image.name) = image.name
    BY <1>1, <2>2
  <2>4. image.name \o <<>> = image.name
    BY <2>2
  <2> QED BY <2>1, <2>2, <2>3, <2>4 DEF Reference
<1>2. CASE ~(image.form = "text" /\ Len(image.name) > 1)
  <2>1. SplitImage(image) = image
    BY <1>2 DEF SplitImage
  <2>2. image.form = "text" => image.name \in Seq(STRING) /\ image.name # <<>>
    BY DEF IsImage
  <2>3. ASSUME image.form = "text" PROVE Len(image.name) = 1
    <3> DEFINE n == Len(image.name)
    <3>1. image.name \in Seq(STRING) /\ image.name # <<>>
      BY <2>2, <2>3
    <3>2. n \in Nat /\ n # 0 /\ ~(n > 1)
      BY <1>2, <2>3, <3>1
    <3> HIDE DEF n
    <3>3. n = 1
      BY <3>2
    <3> QED BY <3>3 DEF n
  <2> QED BY <2>1, <2>3
<1> QED BY <1>1, <1>2

\* Whatever containers there are under main already, those of the top level are placed
\* among them with the images they had.
THEOREM ImagesCorrect == Spec => ImagesKept
<1>1. ASSUME RunInv, Saved, script = "v2", Moves(data.values)
      PROVE  \E c \in ToSet(new.values.ctrls) :
               /\ c.k = "main"
               /\ \A x \in data.values.inits : MovedInto(c.inits, x)
               /\ \A x \in data.values.extra : MovedInto(c.conts, x)
  <2> DEFINE values == data.values
             ctrls == ControllersV2(values)
             old == MainOf(ToSet(ctrls), NewController("main"))
             main == MainController(values)
  <2>1. WellFormed(values) /\ new.values = ProcessV2(values)
    BY <1>1, WritingFacts DEF Saved
  <2>2. main \in ToSet(new.values.ctrls)
    <3>1. Map(ctrls)
      BY <2>1, ControllersV2Facts DEF ControllerMap
    <3>2. main \in ToSet(Put(ctrls, main))
      BY <3>1, PutKeeps
    <3>3. new.values.ctrls = Put(ctrls, main)
      BY <1>1, <2>1, V2Fields
    <3> QED BY <3>2, <3>3
  <2>3. /\ main.k = "main" /\ main.inits = Place(old.inits, ProcessContainers(values.inits))
        /\ main.conts = ContainersV2(values, old.conts)
        /\ DistinctNames(old.conts)
    BY <2>1, MainControllerFacts
  <2> HIDE DEF main, old
  <2>4. /\ ProcessContainers(values.inits) \subseteq main.inits
        /\ ProcessContainers(values.extra) \subseteq main.conts
    BY <2>3, ContainersKeptByV2 DEF Place
  <2>5. ASSUME NEW x \in values.inits \cup values.extra, NEW set, ProcessContainer(x) \in set
        PROVE  MovedInto(set, x)
    <3>1. ProcessContainer(x).k = x.k /\ ProcessContainer(x).image = SplitImage(x.image)
      BY DEF ProcessContainer
    <3>2. IsImage(x.image)
      BY <2>1 DEF WellFormed
    <3> QED BY <2>5, <3>1, <3>2, SplitKeeps DEF MovedInto
  <2> QED BY <2>2, <2>3, <2>4, <2>5 DEF ProcessContainers
<1> QED BY <1>1, RunInvInit, RunInvStep, PTL DEF Spec, ImagesKept

-----------------------------------------------------------------------------
(* Sizes *)

Pvc == "persistentVolumeClaim"

\* An entry that is a claim after the second script was one before, enabled as it is.
LEMMA TypeAfter ==
  ASSUME NEW pers, NEW first \in Names, ~OutOfNames(pers, first), NEW i \in DOMAIN pers, NEW ctrls,
         Enabled(pers[i]), ~Has(pers[i].v, "existingClaim"),
         Has(ProcessEntry(pers, i, ctrls, first).v, "type"),
         ProcessEntry(pers, i, ctrls, first).v["type"] = Pvc
  PROVE  /\ TypeOf(pers[i].v) = Pvc
         /\ Required(pers, i) \subseteq DOMAIN ProcessEntry(pers, i, ctrls, first).v
<1> DEFINE m == pers[i].v
           type == TypeOf(m)
           kept == Without(m, DOMAIN m \ (IF type \in DOMAIN AllowedKeys THEN AllowedKeys[type] ELSE {}))
           c == Conform(pers, i)
           names == NamesLeft(pers, i, first)
           pops == Shares(pers[i]) /\ Lacks(pers[i], names)
           name == Popped(names, first)
           named == IF pops THEN With(c, name, None) ELSE c
           v == Mounted(ctrls, pers[i].k, named)
<1>1. ProcessEntry(pers, i, ctrls, first).v = v
  BY DEF ProcessEntry
<1>2. c = [x \in DOMAIN kept \cup Required(pers, i) |-> IF Has(kept, x) THEN kept[x] ELSE None]
  BY DEF Conform
<1>3. pops => name \in {"name", "identifier"}
  BY NamesLeftFacts DEF Names
<1>4. DOMAIN kept \subseteq DOMAIN m /\ \A x \in DOMAIN kept : kept[x] = m[x]
  BY DEF Without, Restrict
<1>5. "type" \notin Required(pers, i) /\ "advancedMounts" \notin Required(pers, i)
  BY RequiredFacts DEF Common
<1> HIDE DEF kept, name, pops, c
<1>6. /\ DOMAIN v \ {"advancedMounts"} = DOMAIN named \ {"advancedMounts"}
      /\ "type" \in DOMAIN named => v["type"] = named["type"]
  BY DEF Mounted, With, Without, Restrict
<1> HIDE DEF v
<1>7. /\ DOMAIN c \subseteq DOMAIN named
      /\ "type" \in DOMAIN named => "type" \in DOMAIN c /\ named["type"] = c["type"]
  BY <1>3 DEF With
<1> HIDE DEF named
<1>8. "type" \in DOMAIN c /\ c["type"] = Pvc
  BY <1>1, <1>6, <1>7 DEF Has
<1>9. "type" \in DOMAIN m /\ m["type"] = Pvc
  BY <1>2, <1>4, <1>5, <1>8 DEF Has
<1>10. type = Pvc
  BY <1>9 DEF TypeOf, Has
<1>11. Required(pers, i) \subseteq DOMAIN v
  BY <1>2, <1>5, <1>6, <1>7
<1> QED BY <1>1, <1>10, <1>11

\* However many entries stand before it, an enabled claim names its size unless a claim
\* that exists is among them.
THEOREM SizeCorrect == Spec => SizeRequired
<1>1. ASSUME RunInv, Saved, script = "v3", NEW i \in DOMAIN new.values.pers,
             Enabled(new.values.pers[i]), Has(new.values.pers[i].v, "type"),
             new.values.pers[i].v["type"] = Pvc,
             \A j \in 1 .. i : ~Claimed(data.values.pers[j])
      PROVE  {"accessMode", "size"} \subseteq DOMAIN new.values.pers[i].v
  <2> DEFINE pers == data.values.pers
  <2>1. PICK first \in Names :
          /\ WellFormed(data.values)
          /\ new.values = ProcessV3(data.values, first) /\ ~FailsV3(data.values, first)
    BY <1>1, WritingFacts DEF Saved
  <2>2. new.values.pers = ProcessPersistence(pers, data.values.ctrls, first)
    BY <2>1, V3Fields
  <2>3. i \in DOMAIN pers /\ new.values.pers[i] = ProcessEntry(pers, i, data.values.ctrls, first)
    BY <1>1, <2>2 DEF ProcessPersistence
  <2>4. i \in 1 .. i
    <3>1. pers \in Seq(ToSet(pers))
      BY <2>1 DEF WellFormed
    <3> QED BY <2>3, <3>1
  <2>5. Enabled(pers[i])
    BY <1>1, <2>3 DEF ProcessEntry
  <2>6. ~Has(pers[i].v, "existingClaim")
    BY <1>1, <2>4, <2>5 DEF Claimed
  <2>7. TypeOf(pers[i].v) = Pvc /\ Required(pers, i) \subseteq DOMAIN new.values.pers[i].v
    BY <1>1, <2>1, <2>3, <2>5, <2>6, TypeAfter DEF FailsV3
  <2>8. Required(pers, i) = RequiredKeys[Pvc]
    BY <1>1, <2>7 DEF Required, RequiredKeys, Pvc
  <2> QED BY <2>7, <2>8 DEF RequiredKeys, Pvc
<1>2. ASSUME RunInv, Saved, script = "v3"
      PROVE  \A i \in DOMAIN new.values.pers :
               LET entry == new.values.pers[i]
               IN  Enabled(entry) /\ Has(entry.v, "type") /\ entry.v["type"] = "persistentVolumeClaim"
                     => \/ {"accessMode", "size"} \subseteq DOMAIN entry.v
                        \/ \E j \in 1 .. i : Claimed(data.values.pers[j])
  BY <1>1, <1>2 DEF Pvc
<1> QED BY <1>2, RunInvInit, RunInvStep, PTL DEF Spec, SizeRequired

-----------------------------------------------------------------------------
(* Services *)

Primaries(svcs) == {i \in DOMAIN svcs : svcs[i].primary}

\* If no service is primary the one named main becomes it, or app, or the first: one alone.
LEMMA OnePrimary ==
  ASSUME NEW svcs, Map(svcs), svcs # <<>>, \A i \in DOMAIN svcs : svcs[i].primary \in BOOLEAN, NEW ctrls
  PROVE  /\ Primaries(svcs) \subseteq Primaries(ProcessService(svcs, ctrls))
         /\ Cardinality(Primaries(svcs)) <= 1 => Cardinality(Primaries(ProcessService(svcs, ctrls))) = 1
<1> DEFINE t == ProcessService(svcs, ctrls)
           none == \A i \in DOMAIN svcs : ~svcs[i].primary
<1>1. /\ DOMAIN t = DOMAIN svcs
      /\ \A i \in DOMAIN svcs : t[i].primary = (svcs[i].primary \/ (none /\ svcs[i].k = DefaultPrimary(svcs)))
  BY DEF ProcessService, Routed
<1> HIDE DEF t
<1>2. CASE ~none
  <2>1. Primaries(t) = Primaries(svcs) /\ Primaries(svcs) # {}
    BY <1>1, <1>2 DEF Primaries
  <2>2. IsFiniteSet(Primaries(svcs))
    <3>1. Len(svcs) \in Nat /\ DOMAIN svcs = 1 .. Len(svcs)
      BY DEF Map
    <3>2. Primaries(svcs) \in SUBSET (1 .. Len(svcs))
      BY <3>1 DEF Primaries
    <3>3. IsFiniteSet(1 .. Len(svcs))
      BY <3>1, FS_Interval
    <3> QED BY <3>2, <3>3, FS_Subset
  <2>3. Cardinality(Primaries(svcs)) \in Nat /\ Cardinality(Primaries(svcs)) # 0
    BY <2>1, <2>2, FS_CardinalityType, FS_EmptySet
  <2> QED BY <2>1, <2>3 DEF t
<1>3. CASE none
  <2>1. DefaultPrimary(svcs) \in KeysOf(svcs)
    <3>1. 1 \in DOMAIN svcs
      BY DEF Map
    <3> QED BY <3>1 DEF DefaultPrimary, KeysOf
  <2>2. PICK j \in DOMAIN svcs : svcs[j].k = DefaultPrimary(svcs)
    BY <2>1 DEF KeysOf
  <2>3. \A i \in DOMAIN svcs : svcs[i].k = DefaultPrimary(svcs) <=> i = j
    BY <2>2 DEF Map, DistinctKeys
  <2>4. Primaries(t) = {j}
    BY <1>1, <1>3, <2>2, <2>3 DEF Primaries
  <2>5. Primaries(svcs) = {}
    BY <1>3 DEF Primaries
  <2> QED BY <2>4, <2>5, FS_Singleton DEF t
<1> QED BY <1>2, <1>3

\* Whatever services and controllers there are, each service gets a controller that exists.
LEMMA ControllerExists ==
  ASSUME NEW ctrls, Map(ctrls), ctrls # <<>>, NEW name
  PROVE  ControllerOf(ctrls, name) \in KeysOf(ctrls)
<1>1. 1 \in DOMAIN ctrls
  BY DEF Map
<1> QED BY <1>1 DEF ControllerOf, KeysOf

\* However many services and controllers there are, the second script leaves one primary
\* service, unless several were, a controller for each service and a service for the ingress.
THEOREM RoutedCorrect == Spec => ServicesRouted
<1>1. ASSUME RunInv, Saved, script = "v3", new.values.svcs # <<>>
      PROVE  LET P(values) == {i \in DOMAIN values.svcs : values.svcs[i].primary}
             IN  /\ Cardinality(P(data.values)) <= 1 => Cardinality(P(new.values)) = 1
                 /\ P(data.values) \subseteq P(new.values)
                 /\ new.values.ctrls # <<>> =>
                      \A i \in DOMAIN new.values.svcs : new.values.svcs[i].ctrl \in KeysOf(new.values.ctrls)
                 /\ \/ new.values.ing \in NoPath \cup KeysOf(new.values.svcs)
                    \/ "main" \notin KeysOf(new.values.svcs)
  <2> DEFINE svcs == data.values.svcs
             ctrls == data.values.ctrls
  <2>1. PICK first \in Names :
          /\ WellFormed(data.values)
          /\ new.values = ProcessV3(data.values, first) /\ ~FailsV3(data.values, first)
    BY <1>1, WritingFacts DEF Saved
  <2>2. /\ new.values.svcs = ProcessService(svcs, ctrls)
        /\ new.values.ctrls = ProcessControllers(ctrls)
        /\ new.values.ing = ProcessIngress(data.values.ing)
    BY <2>1, V3Fields
  <2>3. KeysOf(new.values.ctrls) = KeysOf(ctrls) /\ Map(svcs) /\ Map(ctrls)
    BY <2>1, V3WellFormed DEF WellFormed, Map
  <2>4. svcs # <<>>
    BY <1>1, <2>2 DEF ProcessService
  <2>5. /\ Primaries(svcs) \subseteq Primaries(new.values.svcs)
        /\ Cardinality(Primaries(svcs)) <= 1 => Cardinality(Primaries(new.values.svcs)) = 1
    BY <2>1, <2>2, <2>3, <2>4, OnePrimary DEF WellFormed
  <2>6. ASSUME new.values.ctrls # <<>>, NEW i \in DOMAIN new.values.svcs
        PROVE  new.values.svcs[i].ctrl \in KeysOf(new.values.ctrls)
    <3>1. ctrls # <<>>
      BY <2>2, <2>6 DEF ProcessControllers
    <3>2. new.values.svcs[i].ctrl = ControllerOf(ctrls, svcs[i].k)
      BY <2>2, <2>6 DEF ProcessService, Routed
    <3> QED BY <2>3, <3>1, <3>2, ControllerExists
  <2>7. new.values.ing \in NoPath \cup {"main"}
    BY <2>2 DEF ProcessIngress
  <2> QED BY <2>5, <2>6, <2>7 DEF Primaries
<1> QED BY <1>1, RunInvInit, RunInvStep, PTL DEF Spec, ServicesRouted
-----------------------------------------------------------------------------
(* The end of a run *)

\* How many steps a run has left at most: two for each file, and the last.
StepsLeft ==
  IF at = 0 THEN 0
  ELSE 2 * (Len(files) + 1 - at) + (IF new = NoDocument THEN 2 ELSE 1)

\* Every step of a run brings it nearer to its end, whatever is in the files: no file is
\* visited twice by one run, and every run ends by itself, which is what UpgradesSettle needs
\* besides fairness.
THEOREM RunShortens == Spec => [][at # 0 => StepsLeft' \in 0 .. StepsLeft - 1]_vars
<1>1. ASSUME RunInv, RunInv', Next, at # 0
      PROVE  StepsLeft' \in 0 .. StepsLeft - 1
  <2>1. /\ Len(files) \in Nat /\ DOMAIN files = 1 .. Len(files)
        /\ at \in 1 .. Len(files) + 1 /\ at' \in 0 .. Len(files') + 1
    BY <1>1 DEF RunInv, TypeOK
  <2>2. new # NoDocument => at <= Len(files)
    BY <1>1, <2>1 DEF RunInv, TypeOK
  <2>3. StepsLeft \in Nat \ {0}
    BY <1>1, <2>1, <2>2 DEF StepsLeft
  <2>4. CASE at' = 0
    <3>1. StepsLeft' = 0
      BY <2>4 DEF StepsLeft
    <3> QED BY <2>3, <3>1
  <2>5. CASE PassOver
    <3>1. at' = at + 1 /\ files' = files /\ new = NoDocument /\ new' = NoDocument
      BY <2>5 DEF PassOver, Reading
    <3> QED BY <1>1, <2>1, <3>1 DEF StepsLeft
  <2>6. ASSUME NEW first \in Names, Process(first)
        PROVE  StepsLeft' \in 0 .. StepsLeft - 1
    <3>1. at' = at /\ Len(files') = Len(files) /\ new = NoDocument
      BY <2>6 DEF Process, Reading
    <3>2. new' # NoDocument
      <4>1. IsDocument(files[at]) /\ files[at].state = "ok"
        BY <1>1, <2>6 DEF Process, Reading, ShouldProcess, RunInv, TypeOK
      <4> QED BY <2>6, <4>1, ProcessedFacts DEF Process
    <3> QED BY <1>1, <2>1, <3>1, <3>2 DEF StepsLeft
  <2>7. CASE Save /\ at' # 0
    <3>1. at' = at + 1 /\ Len(files') = Len(files) /\ new # NoDocument /\ new' = NoDocument
      BY <2>7 DEF Save
    <3> QED BY <1>1, <2>1, <2>2, <3>1 DEF StepsLeft
  <2>8. Crash \/ End \/ Kill => at' = 0
    BY DEF Crash, End, Kill
  <2> QED BY <1>1, <2>4, <2>5, <2>6, <2>7, <2>8 DEF Next, Run, Start, GoOver
<1>2. RunInv /\ RunInv' /\ [Next]_vars => [at # 0 => StepsLeft' \in 0 .. StepsLeft - 1]_vars
  BY <1>1
<1> QED BY <1>2, RunInvInit, RunInvStep, PTL DEF Spec
-----------------------------------------------------------------------------
(* What the runs leave behind *)

\* A file is in the new format, or one that the script fails at, with some hash seed.
Settled(doc) == Pending(doc) => MayFail(doc)

\* What a script writes is in its new format: a patch has nothing left that moves, any other
\* file the version that the script is for.
LEMMA ProcessedSettled ==
  ASSUME NEW doc, IsDocument(doc), script \in {"v2", "v3"}, NEW first
  PROVE  ~Pending(Processed(doc, first))
<1> DEFINE p == Processed(doc, first)
<1>1. CASE script = "v2"
  <2>1. /\ p.patch = doc.patch /\ p.values = ProcessV2(doc.values)
        /\ ~p.patch => p.version = Version2
    BY <1>1 DEF Processed, IsDocument
  <2>2. CASE ~p.patch
    BY <1>1, <2>1, <2>2 DEF Pending, ShouldProcessV2, Version2
  <2>3. CASE p.patch
    <3>1. p.values.extra = {} /\ p.values.inits = {}
      BY <2>1, V2Fields DEF IsDocument
    <3>2. p.values.keys = doc.values.keys \ (MainKeys \cup PodKeys \cup {Claims, "controller"})
      BY <2>1, FieldsOfValues DEF ProcessV2, IsDocument, WellFormed, Fields
    <3>3. ~Moves(p.values)
      BY <3>1, <3>2 DEF Moves
    <3> QED BY <1>1, <2>3, <3>3 DEF Pending
  <2> QED BY <2>2, <2>3
<1>2. CASE script = "v3"
  <2>1. p.version = Version3
    BY <1>2 DEF Processed, IsDocument
  <2> QED BY <1>2, <2>1 DEF Pending, Version3
<1> QED BY <1>1, <1>2

\* A step of a script leaves a file as it was or settles it; saving settles it.
LEMMA SettledStep ==
  ASSUME RunInv, Next, script' = script
  PROVE  /\ DOMAIN files' = DOMAIN files
         /\ \A doc : Settled(doc)' <=> Settled(doc)
         /\ \A i \in DOMAIN files : files'[i] = files[i] \/ Settled(files'[i])
         /\ Save => Settled(files'[at])
<1> USE DEF RunInv
<1>1. \A doc : Settled(doc)' <=> Settled(doc)
  <2>1. skip' = skip
    BY DEF Next, Start, GoOver, Run, PassOver, Crash, Process, Save, End, Kill
  <2> QED BY <2>1 DEF Settled, Pending, Crashes, ShouldProcessV2, MayFail, Fails
<1>2. ASSUME NEW first \in Names, Process(first)
      PROVE  DOMAIN files' = DOMAIN files /\ \A i \in DOMAIN files : files'[i] = files[i] \/ Settled(files'[i])
  <2>1. files' = [files EXCEPT ![at] = Emptied(files[at])]
    BY <1>2 DEF Process
  <2>2. Settled(Emptied(files[at]))
    BY DEF Emptied, Settled, Pending
  <2> QED BY <2>1, <2>2
<1>3. ASSUME Save
      PROVE  /\ DOMAIN files' = DOMAIN files /\ Settled(files'[at])
             /\ \A i \in DOMAIN files : files'[i] = files[i] \/ Settled(files'[i])
  <2>1. Writing /\ files' = [files EXCEPT ![at] = new]
    BY <1>3 DEF Save
  <2>2. PICK first \in Names : new = Processed(data, first)
    BY <2>1 DEF Writing
  <2>3. Settled(new)
    BY <2>1, <2>2, ProcessedSettled DEF Writing, TypeOK, Settled
  <2>4. at \in DOMAIN files
    BY <2>1 DEF Writing
  <2> QED BY <2>1, <2>3, <2>4
<1>4. ASSUME UNCHANGED files
      PROVE  DOMAIN files' = DOMAIN files /\ \A i \in DOMAIN files : files'[i] = files[i] \/ Settled(files'[i])
  BY <1>4
<1>5. UNCHANGED files \/ Save \/ \E first \in Names : Process(first)
  BY DEF Next, Run, Start, GoOver, PassOver, Crash, End, Kill
<1> QED BY <1>1, <1>2, <1>3, <1>4, <1>5

\* A file that a script is done with stays so for as long as the operator runs that script,
\* whatever later runs do to it and wherever they are interrupted.
THEOREM SettledStays ==
  Spec => [][script' = script =>
               \A i \in DOMAIN files : Settled(files[i]) => Settled(files[i])']_vars
<1>1. ASSUME RunInv, Next, script' = script, NEW i \in DOMAIN files, Settled(files[i])
      PROVE  Settled(files[i])'
  <2>1. Settled(files'[i])
    BY <1>1, SettledStep
  <2> QED BY <1>1, <2>1, SettledStep
<1>2. RunInv /\ [Next]_vars =>
        [script' = script =>
           \A i \in DOMAIN files : Settled(files[i]) => Settled(files[i])']_vars
  BY <1>1
<1> QED BY <1>2, RunInvInit, RunInvStep, PTL DEF Spec

\* The files behind a run are settled.
Passed == \A i \in 1 .. (at - 1) : Settled(files[i])

\* A run leaves no file behind in the old format but one that the script fails at, with some
\* hash seed: what is pending after a run has gone through to the end is such a file, and what
\* a run that ended early has left is in front of it.
THEOREM PassedCorrect == Spec => []Passed
<1>1. Init => Passed
  BY DEF Init, Passed
<1>2. ASSUME RunInv, Passed, Next PROVE Passed'
  <2>1. /\ Len(files) \in Nat /\ DOMAIN files = 1 .. Len(files)
        /\ at \in 0 .. Len(files) + 1
    BY <1>2 DEF RunInv, TypeOK
  <2>2. CASE at' \in {0, 1}
    <3>1. 1 .. (0 - 1) = {} /\ 1 .. (1 - 1) = {}
      OBVIOUS
    <3>2. 1 .. (at' - 1) = {}
      BY <2>2, <3>1
    <3> QED BY <3>2 DEF Passed
  <2>3. CASE at' \notin {0, 1}
    <3>1. at' \in {at, at + 1} /\ script' = script /\ at # 0
      BY <2>1, <2>3, <1>2 DEF Next, Run, Start, GoOver, PassOver, Crash, Process, Save, End, Kill
    <3>2. at' = at + 1 => at \in DOMAIN files /\ Settled(files'[at])
      <4>1. ASSUME PassOver PROVE at \in DOMAIN files /\ Settled(files'[at])
        <5>1. files' = files /\ at \in DOMAIN files /\ (ShouldProcess(files[at]) => MayFail(files[at]))
          BY <4>1 DEF PassOver, Reading
        <5>2. Pending(files[at]) => ShouldProcess(files[at])
          <6>1. files[at].version \in Nat
            BY <1>2, <5>1 DEF RunInv, TypeOK, IsDocument
          <6> QED BY <6>1 DEF Pending, ShouldProcess, ShouldProcessV3, Version3, Before3
        <5> QED BY <5>1, <5>2 DEF Settled
      <4>2. ASSUME Save PROVE at \in DOMAIN files /\ Settled(files'[at])
        <5>1. at \in DOMAIN files
          BY <1>2, <4>2 DEF RunInv, Writing, Save
        <5> QED BY <1>2, <3>1, <4>2, <5>1, SettledStep
      <4>3. at' = at + 1 => PassOver \/ Save
        BY <1>2, <2>1, <3>1 DEF Next, Run, Start, GoOver, Crash, Process, End, Kill
      <4> QED BY <4>1, <4>2, <4>3
    <3>3. ASSUME NEW i \in 1 .. (at' - 1) PROVE Settled(files[i])'
      <4>1. i \in DOMAIN files /\ (i \in 1 .. (at - 1) \/ (i = at /\ at' = at + 1))
        <5>1. CASE at' = at
          BY <2>1, <3>3, <5>1
        <5>2. CASE at' = at + 1
          BY <2>1, <3>2, <3>3, <5>2
        <5> QED BY <3>1, <5>1, <5>2
      <4>2. Settled(files'[i])
        BY <1>2, <3>1, <3>2, <4>1, SettledStep DEF Passed
      <4> QED BY <1>2, <3>1, <4>2, SettledStep
    <3> QED BY <3>3 DEF Passed
  <2> QED BY <2>2, <2>3
<1>3. RunInv /\ Passed /\ [Next]_vars => Passed'
  <2>1. UNCHANGED vars => (Passed' <=> Passed)
    BY DEF vars, Passed, Settled, Pending, Crashes, ShouldProcessV2, MayFail, Fails
  <2> QED BY <1>2, <2>1
<1> QED BY <1>1, <1>3, RunInvInit, RunInvStep, PTL DEF Spec
=============================================================================
