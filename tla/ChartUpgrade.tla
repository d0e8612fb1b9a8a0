---------------------------- MODULE ChartUpgrade ----------------------------
(***************************************************************************)
(* The two scripts hack/app-template-upgrade-v2-ruamel.py and               *)
(* hack/app-template-upgrade-v3.py, which an operator runs over the same    *)
(* directory, the first until he goes over to the second, with or without   *)
(* --yeet and --skip-version-check.  A run walks over the files; it may be  *)
(* interrupted, also between the opening of a file for writing, which       *)
(* empties it, and the writing.                                             *)
(***************************************************************************)
EXTENDS UpgradeV2, UpgradeV3

CONSTANTS
  Trees,    \* the directories to begin with: sequences of documents
  MaxKills  \* bound on interrupted runs

VARIABLES
  files,   \* the documents in the order of os.walk
  script,  \* the one the operator runs, "v2" or "v3"
  yeet,    \* with --yeet
  skip,    \* with --skip-version-check
  at,      \* the file a run is at, 0 if none runs
  data,    \* the document it has loaded
  new,     \* what it is writing
  kills

vars == <<files, script, yeet, skip, at, data, new, kills>>

\* Versions are ordered as their strings are.
NoVersion == 0
Version2 == 202  \* 2.0.2
Version3 == 310  \* 3.1.0, what the second script sets
Before3 == 320   \* 3.2.0, what it compares with

\* state: "ok"; "broken" (loading raises an exception); "other" (not a HelmRelease
\* of the chart); "empty" (loads as None).  patch: under a directory "patches".
Document(patch, version, values) ==
  [state |-> "ok", patch |-> patch, version |-> version, values |-> values]
Emptied(doc) == [state |-> "empty", patch |-> doc.patch, version |-> NoVersion, values |-> EmptyValues]
NoDocument == [state |-> "none", patch |-> FALSE, version |-> NoVersion, values |-> EmptyValues]

\* A YAML file names no key of a map twice.
DistinctKeys(seq) == \A i, j \in DOMAIN seq : seq[i].k = seq[j].k => i = j
DistinctNames(set) == \A x, y \in set : x.k = y.k => x = y

WellFormed(values) ==
  /\ DOMAIN values = DOMAIN EmptyValues
  /\ \A map \in {values.ctrls, values.svcs, values.pers} : map \in Seq(ToSet(map)) /\ DistinctKeys(map)
  /\ \A i \in DOMAIN values.svcs : values.svcs[i].primary \in BOOLEAN /\ values.svcs[i].ports \in BOOLEAN
  /\ DistinctNames(values.inits) /\ DistinctNames(values.extra)
  /\ \A x \in values.inits \cup values.extra : IsImage(x.image)
  /\ \A i \in DOMAIN values.ctrls :
       DistinctNames(values.ctrls[i].inits) /\ DistinctNames(values.ctrls[i].conts)

IsDocument(doc) ==
  /\ DOMAIN doc = {"state", "patch", "version", "values"}
  /\ doc.state \in {"ok", "broken", "other", "empty"}
  /\ doc.patch \in BOOLEAN
  /\ doc.version \in Nat
  /\ WellFormed(doc.values)

ASSUME TreesAssumption ==
  \A tree \in Trees : tree \in Seq(ToSet(tree)) /\ (\A i \in DOMAIN tree : IsDocument(tree[i]))
ASSUME MaxKillsAssumption == MaxKills \in Nat

Init ==
  /\ files \in Trees
  /\ script \in {"v2", "v3"}
  /\ yeet \in BOOLEAN
  /\ skip \in BOOLEAN
  /\ at = 0
  /\ data = NoDocument
  /\ new = NoDocument
  /\ kills = 0

-----------------------------------------------------------------------------
(* What a run does with a document *)

\* Reading kind, or comparing the version, raises an exception nothing catches.
\* The second script parses --skip-version-check and does not use it, and reads no patches.
Crashes(doc) ==
  \/ doc.state = "empty" /\ (script = "v3" => ~doc.patch)
  \/ /\ doc.state = "ok" /\ ~doc.patch
     /\ doc.version = NoVersion
     /\ ~(script = "v2" /\ skip /\ doc.values.ctrls # <<>>)

ShouldProcessV2(doc) ==
  /\ ~(skip /\ doc.values.ctrls # <<>>)
  /\ IF doc.patch THEN doc.values.ctrls = <<>> ELSE doc.version < Version2

ShouldProcessV3(doc) == ~doc.patch /\ doc.version < Before3

ShouldProcess(doc) ==
  /\ doc.state = "ok"
  /\ IF script = "v2" THEN ShouldProcessV2(doc) ELSE ShouldProcessV3(doc)

\* first: the name that the sets of the run pop first.
Fails(doc, first) == IF script = "v2" THEN FailsV2(doc.values) ELSE FailsV3(doc.values, first)

\* With the hash seed of some run.
MayFail(doc) == \E first \in Names : Fails(doc, first)

\* A document under patches names no version of the chart.
Processed(doc, first) ==
  IF script = "v2"
  THEN [doc EXCEPT !.version = IF doc.patch THEN @ ELSE Version2, !.values = ProcessV2(@)]
  ELSE [doc EXCEPT !.version = Version3, !.values = ProcessV3(@, first)]

-----------------------------------------------------------------------------
(* A run *)

Start ==
  /\ at = 0
  /\ at' = 1
  /\ UNCHANGED <<files, script, yeet, skip, data, new, kills>>

GoOver ==
  /\ at = 0
  /\ script = "v2"
  /\ script' = "v3"
  /\ UNCHANGED <<files, yeet, skip, at, data, new, kills>>

Reading == at \in DOMAIN files /\ new = NoDocument

\* Fault injection: the file after one that is passed over is passed over, too.
PassOverTwo ==
  /\ Reading
  /\ ~Crashes(files[at])
  /\ ShouldProcess(files[at]) => MayFail(files[at])
  /\ at' = at + 2
  /\ UNCHANGED <<files, script, yeet, skip, data, new, kills>>

\* Documents that are not to be processed, that cannot be read, or whose processing
\* raises an exception: on to the next.
PassOver ==
  /\ Reading
  /\ ~Crashes(files[at])
  /\ ShouldProcess(files[at]) => MayFail(files[at])
  /\ at' = at + 1
  /\ UNCHANGED <<files, script, yeet, skip, data, new, kills>>

Crash ==
  /\ Reading
  /\ Crashes(files[at])
  /\ at' = 0
  /\ UNCHANGED <<files, script, yeet, skip, data, new, kills>>

\* The file is opened for writing once its new contents are complete.
Process(first) ==
  /\ Reading
  /\ ~Crashes(files[at])
  /\ ShouldProcess(files[at])
  /\ ~Fails(files[at], first)
  /\ data' = files[at]
  /\ new' = Processed(files[at], first)
  /\ files' = [files EXCEPT ![at] = Emptied(@)]
  /\ UNCHANGED <<script, yeet, skip, at, kills>>

\* Fault injection: a run ends with the first file that it processed even with --yeet.
SaveAndReturn ==
  /\ new # NoDocument
  /\ files' = [files EXCEPT ![at] = new]
  /\ data' = NoDocument
  /\ new' = NoDocument
  /\ at' = 0
  /\ UNCHANGED <<script, yeet, skip, kills>>

\* Without --yeet a run ends with the first file that it processed.
Save ==
  /\ new # NoDocument
  /\ files' = [files EXCEPT ![at] = new]
  /\ data' = NoDocument
  /\ new' = NoDocument
  /\ at' = IF yeet THEN at + 1 ELSE 0
  /\ UNCHANGED <<script, yeet, skip, kills>>

End ==
  /\ at = Len(files) + 1
  /\ at' = 0
  /\ UNCHANGED <<files, script, yeet, skip, data, new, kills>>

Kill ==
  /\ at # 0
  /\ kills < MaxKills
  /\ kills' = kills + 1
  /\ at' = 0
  /\ data' = NoDocument
  /\ new' = NoDocument
  /\ UNCHANGED <<files, script, yeet, skip>>

Run == PassOver \/ Crash \/ (\E first \in Names : Process(first)) \/ Save \/ End

Next == Start \/ GoOver \/ Run \/ Kill

Spec == Init /\ [][Next]_vars

\* The operator runs the script again and again, and a run goes on.
FairSpec == Spec /\ WF_vars(Start) /\ WF_vars(Run)

-----------------------------------------------------------------------------
(* Properties *)

\* The mounts of an entry and those that a container names: <<volume, container, path>>.
EntryMounts(e) ==
  {<<e.k, "*", p>> : p \in Under(e.v, "globalMounts")}
    \cup {<<e.k, "*", e.v[key]>> : key \in {"mountPath"} \cap DOMAIN e.v}
    \cup {<<e.k, m[2], m[3]>> : m \in Under(e.v, "advancedMounts")}

ContainerMounts(x) == {<<m.vol, x.k, m.path>> : m \in x.mounts}

\* Those that the values provide, and all that they ask for.
Provided(values) == UNION {EntryMounts(e) : e \in ToSet(values.pers)}

AskedFor(values) ==
  LET containers == UNION {Containers(c) : c \in ToSet(values.ctrls)}
  IN  Provided(values) \cup UNION {ContainerMounts(x) : x \in containers \cup values.inits \cup values.extra}

\* The mounts that the first script loses: the globalMounts of an entry that has a
\* mountPath as well, those of the controllers that "controller" takes the place of, and
\* those of a container of main that one from the top level takes the place of.
LostByV2(values, mount) ==
  \/ \E e \in ToSet(values.pers) :
       Has(e.v, "mountPath") /\ \E p \in Under(e.v, "globalMounts") : mount = <<e.k, "*", p>>
  \/ \E c \in ToSet(values.ctrls) : \E x \in Containers(c) :
       /\ mount \in ContainerMounts(x)
       /\ \/ "controller" \in values.keys
          \/ c.k = "main" /\ x \in c.inits /\ x.k \in NamesOf(values.inits)
          \/ c.k = "main" /\ x \in c.conts /\ x.k \in NamesOf(values.extra)

\* The mounts that the second script loses: those of a volume without an enabled entry
\* of a known type, those that are in the format of version 1, and the advancedMounts of an
\* entry that no volumeMount names.
Given(values, vol) ==
  \E e \in ToSet(values.pers) :
    /\ e.k = vol
    /\ Enabled(e)
    /\ TypeOf(e.v) \in DOMAIN AllowedKeys

LostByV3(values, mount) ==
  \/ ~Given(values, mount[1])
  \/ \E e \in ToSet(values.pers) : Has(e.v, "mountPath") /\ mount = <<e.k, "*", e.v["mountPath"]>>
  \/ \E x \in values.inits \cup values.extra : mount \in ContainerMounts(x)
  \/ \E e \in ToSet(values.pers) :
       /\ VolumeMounts(values.ctrls, e.k) = {}
       /\ \E m \in Under(e.v, "advancedMounts") : mount = <<e.k, m[2], m[3]>>

Saved == new # NoDocument /\ files'[at] = new

\* A file is saved with every mount it asked for, but for those named above.
MountsKept ==
  [][Saved => IF script = "v2"
              THEN \A mount \in AskedFor(data.values) \ AskedFor(new.values) : LostByV2(data.values, mount)
              ELSE \A mount \in AskedFor(data.values) \ Provided(new.values) : LostByV3(data.values, mount)]_vars

\* The image of a container: the chart joins repository and tag with a colon again.
Reference(image) == image.name \o image.tag

\* x is in the set as well, with the same image; without a tag that stays a text, which is
\* a form that the chart does not know.
MovedInto(set, x) ==
  \E y \in set : /\ y.k = x.k
                 /\ Reference(y.image) = Reference(x.image)
                 /\ y.image.form = "text" => Len(x.image.name) = 1

\* A container of the top level moves under main, with the image it had, the port of its registry
\* and its digest included.
ImagesKept ==
  [][Saved /\ script = "v2" /\ Moves(data.values) =>
       \E c \in ToSet(new.values.ctrls) :
         /\ c.k = "main"
         /\ \A x \in data.values.inits : MovedInto(c.inits, x)
         /\ \A x \in data.values.extra : MovedInto(c.conts, x)]_vars

\* An entry for a claim of its own names its size, unless it or an enabled entry
\* before it has an existing claim: the set of required keys is shared.
SizeRequired ==
  [][Saved /\ script = "v3" =>
       \A i \in DOMAIN new.values.pers :
         LET entry == new.values.pers[i]
         IN  Enabled(entry) /\ Has(entry.v, "type") /\ entry.v["type"] = "persistentVolumeClaim"
               => \/ {"accessMode", "size"} \subseteq DOMAIN entry.v
                  \/ \E j \in 1 .. i : Claimed(data.values.pers[j])]_vars

\* After the second script one service is primary, unless several were, every service
\* has a controller that exists, and the ingress a service, if there is one named main.
ServicesRouted ==
  [][Saved /\ script = "v3" /\ new.values.svcs # <<>> =>
       LET Primaries(values) == {i \in DOMAIN values.svcs : values.svcs[i].primary}
       IN  /\ Cardinality(Primaries(data.values)) <= 1 => Cardinality(Primaries(new.values)) = 1
           /\ Primaries(data.values) \subseteq Primaries(new.values)
           /\ new.values.ctrls # <<>> =>
                \A i \in DOMAIN new.values.svcs : new.values.svcs[i].ctrl \in KeysOf(new.values.ctrls)
           /\ new.values.ing \in NoPath \cup KeysOf(new.values.svcs)
                \/ "main" \notin KeysOf(new.values.svcs)]_vars

\* In the old format, of a version that can be read.
Pending(doc) ==
  /\ doc.state = "ok"
  /\ ~Crashes(doc)
  /\ IF script = "v2" THEN ShouldProcessV2(doc) /\ (doc.patch => Moves(doc.values))
     ELSE ~doc.patch /\ doc.version < Version3

\* A run never gets past the file.
Blocks(doc) == Crashes(doc) \/ (~yeet /\ ShouldProcess(doc) /\ ~MayFail(doc))

\* A file that stays in the old format is one whose processing fails, with one hash seed at
\* least, or stands behind a file that blocks.
UpgradesSettle ==
  <>[](\A i \in DOMAIN files :
         Pending(files[i]) => MayFail(files[i]) \/ (\E j \in 1 .. (i - 1) : Blocks(files[j])))

TypeOK ==
  /\ at \in 0 .. Len(files) + 1
  /\ \A i \in DOMAIN files : IsDocument(files[i])
  /\ script \in {"v2", "v3"} /\ yeet \in BOOLEAN /\ skip \in BOOLEAN
  /\ kills \in 0 .. MaxKills
  /\ new = NoDocument <=> data = NoDocument
  /\ new # NoDocument => at \in DOMAIN files /\ files[at] = Emptied(new)
=============================================================================
