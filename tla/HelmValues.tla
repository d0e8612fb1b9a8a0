----------------------------- MODULE HelmValues -----------------------------
(***************************************************************************)
(* The values of a HelmRelease, as far as the upgrade scripts in hack/ tell *)
(* them apart.  A YAML map is a set of records with their key in "k", or a  *)
(* sequence of them where the order matters; an entry under persistence     *)
(* holds its own map in "v", a function from keys to values.                *)
(***************************************************************************)
EXTENDS Naturals, SequencesExt

None == "None"

KeysOf(seq) == {seq[i].k : i \in DOMAIN seq}
NamesOf(set) == {x.k : x \in set}
Has(m, key) == key \in DOMAIN m
Under(m, key) == IF Has(m, key) THEN m[key] ELSE {}
Without(m, keys) == Restrict(m, DOMAIN m \ keys)
With(m, key, value) == [x \in DOMAIN m \cup {key} |-> IF x = key THEN value ELSE m[x]]

\* The values of a release.  keys: the top-level keys of an application at
\* version 1 that have a value, and "service" if that is an empty map; pod: those under
\* defaultPodOptions; extra, inits: additional and init containers at the top level; svcs: with
\* whether they have a port; ing: the service of the main ingress, "off" if that is disabled,
\* "bare" if there is none, or one without a host or a path.
EmptyValues ==
  [keys |-> {}, pod |-> {}, extra |-> {}, inits |-> {}, ctrls |-> <<>>,
   svcs |-> <<>>, pers |-> <<>>, ing |-> "absent"]

NoPath == {"absent", "off", "bare"}

\* The image of a container of the application's own: a text, here split at its colons, or a
\* map of a repository and a tag.
NoImage == [form |-> "none", name |-> <<>>, tag |-> <<>>]
IsImage(image) ==
  /\ image \in [form : {"none", "text", "map"}, name : Seq(STRING), tag : Seq(STRING)]
  /\ image.form = "text" => image.name # <<>> /\ image.tag = <<>>

\* Fault injection: the text is split at every colon, and what is behind the second is lost.
SplitEverywhere(image) ==
  IF image.form = "text" /\ Len(image.name) > 1
  THEN [form |-> "map", name |-> <<image.name[1]>>, tag |-> <<image.name[2]>>]
  ELSE image

\* Both scripts split a text at its first colon into a repository and a tag.  One without a
\* colon, as anything that is not a text, stays as it is.
SplitImage(image) ==
  IF image.form = "text" /\ Len(image.name) > 1
  THEN [form |-> "map", name |-> <<image.name[1]>>, tag |-> Tail(image.name)]
  ELSE image

Containers(ctrl) == ctrl.inits \cup ctrl.conts

\* <<controller, container, path>> of every volumeMount that names a volume.
VolumeMounts(ctrls, vol) ==
  UNION {UNION {{<<c.k, x.k, m.path>> : m \in {n \in x.mounts : n.vol = vol}}
                  : x \in Containers(c)} : c \in ToSet(ctrls)}
=============================================================================
