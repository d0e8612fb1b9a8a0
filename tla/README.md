# Verification of home-ops-prod

TLA+ models of the code in this repository that decides something: the backup and restore of
application volumes, the Paperless document classifier, the load balancers' failover, the dynamic
DNS updater, the scripts that upgrade HelmReleases, the LDAP login, MemGPT's overrides and the
training notebook for wake words. TLC checks each model on a small instance; TLAPS proves the
properties that matter most for every value of the constants.

The repository is a Flux-managed home Kubernetes cluster. Most of its files are manifests of
third-party applications, which are data. Its own logic is in shell scripts inside policies and
Jobs, in go-task commands, in Python scripts that applications or an operator run, and in the
Jinja templates of the load balancers. That logic is short, runs concurrently with controllers and
users that the repository does not own, and is hardly testable: there are no tests.

## 1. The system

### Volume backup and recovery

Kyverno generates, for every PersistentVolumeClaim labelled `snapshot.home.arpa/enabled`, a
CronJob (`cluster/apps/kyverno/policies/snapshot-cronjob-controller.yaml`) that mounts the same
volume, freezes it with `fsfreeze`, copies it into a Kopia repository on a NAS and thaws it. An
operator restores with `task snapshot:restore` (`.taskfiles/SnapshotTasks.yml`), which suspends
the HelmRelease, scales the workload to 0, applies a Job (`hack/restore-job.yaml`) that removes
the volume's files and copies a snapshot back, and resumes the release.

- State: the volume and whether it is frozen; the pod and its replica count; the HelmRelease
  (suspended, an upgrade in flight); the repository and its snapshots; each Job with the line its
  script is at; the command the operator's task is at.
- Interaction: both Jobs, the application and the reboot of a node act on one volume; both Jobs
  on one repository; the task and helm-controller on one replica count.
- Hard: kills between freeze and thaw; scripts without `set -e`, where the last line decides the
  Job; an upgrade that began before the suspend; a task interrupted and run again.
- Correct means: a snapshot is of one instant, no freeze is left behind, no application runs
  while its files are being replaced, and a release is resumed on the snapshot asked for.

### Paperless document classifier

Paperless runs `openai.py` after it has consumed a document. The script reads the lists of tags,
correspondents and types, downloads the document, sends its text to a language model, extracts
JSON from the answer and patches the document. As deployed (`ENABLE_VISION = False`) only the text
path runs.

- State: the lists and the text as read at the start, the answer; in Paperless, the document and
  the lists, which users change meanwhile.
- Hard: everything is read in separate requests, any of which may fail, and written back after a
  request that may take minutes; the answer is free text; the prompt has a maximum size.
- Correct means: an edit is undone only in the window that remains, no invented name is sent, no
  field is emptied, the request fits the context, and an object in an answer is found.

### Load balancers

Several nodes share virtual IPs by VRRP. keepalived's priorities and check weights come from
`ansible/loadbalancers/templates/keepalived.conf.j2`, the checks from the inventory, the health
frontends from `haproxy.cfg.j2`.

- State: what works on each node, failures in a row of each check, the addresses each node owns.
- Hard: nodes act on priorities of different moments; weights 6, 2, -4 and -2 add up with base
  priorities that are one apart; two of the checks have only one outcome.
- Correct means: each address ends up with one owner, one that is remotely manageable if there is
  a choice; the addresses spread again after repairs. That the owner forwards is what one would add,
  and the code does not give it (section 5).

### Dynamic DNS

`cloudflare-ddns.sh`, hourly: asks for the site's address, the zone and the record, compares, and
replaces the record.

- Hard: `curl` without `--fail`, so error pages and empty bodies are taken for answers; the address
  may change between the reading and the update; the update may take effect and its answer be lost.
- Correct means: success means the record is what was read, with one exception, the record never
  goes back, and it follows an address that stays.

### app-template upgraders

`hack/app-template-upgrade-v2-ruamel.py` and `-v3.py` rewrite every HelmRelease of the app-template
chart under a directory, in place. An operator runs the one and then the other, again and again,
because without `--yeet` a run ends with the first file it has changed.

- State: the documents; in a run, the file it is at and the document it has loaded.
- Hard: a file is emptied when it is opened for writing; sets that are shared between persistence
  entries; the parts of a document are computed from copies of different moments; an exception in
  one file may end the run or only pass the file over; versions are compared as strings.
- Correct means: no mount is lost, what the new format requires is there, services and ingress
  lead to something that exists, and every file is upgraded in the end.

### LDAP login

`ldap-auth.py`, of which Home Assistant and Monica have the same copy, runs once per login: bind
with a helper account, search for the name, read the groups, bind as the person found.

- State: the directory, which an administrator changes; what the run keeps of the entry it found.
- Hard: group and password are read at different moments; the search covers everything under the
  base and takes the first of several entries; any request may fail.
- Correct means: a role is granted only on what the directory has held since the login began, and
  somebody entitled is turned away only for a reason that can be named.

### MemGPT overrides (archived)

The repository overrides two files of MemGPT. `utils.py` annotates the messages of an agent with
ids of tool calls, in place, whenever the agent is loaded; `llm_api_tools.py` sends a request with
up to 20 retries, recognises an overflow of the context, and the agent then drops its oldest
messages and annotates the rest.

- Hard: one buffer carries the id from a call to its response, over two styles of messages and
  lists that were cut anywhere; credentials are read again by each attempt; the backoff doubles.
- Correct means: a response has the id of its call, annotating again changes nothing that matters,
  and a call of `create` ends.

### Wake word training notebook

`automatic_model_training_simple.ipynb` has three cells that a user runs in any order: speak the
word, download the data, train and convert. The files survive the kernel.

- Hard: `!` commands whose failures no cell notices; directories that are made before they are
  filled, and then count as present; names that only an earlier cell defines.
- Correct means: what is known of each data set stays true, and what a run converts is what it has
  trained.

### Parts not modelled

| part | why |
|---|---|
| RAG API (`home/localai/app/config/rag-api.go`) | does not compile as committed (`req` is used before it is declared, `redisEnabled` is declared twice), so that it has no behaviour to hold a model against |
| game server database initialisation (`rathena`, `hercules`) | an init container runs SQL files again after every restart; what a second execution does is in those files, which are not in this repository |
| `hr-rollback.sh` and the restart helpers | loops over `kubectl`, `helm` and `flux` commands that keep nothing between two of them |
| Flux `dependsOn` and remediation | declarative: the graph is data, its order is kustomize-controller's |
| kured, system-upgrade-controller | their locks are third-party; a reboot is an action of `Backup` |
| Ansible playbooks | sequential provisioning, I/O only |
| application manifests | data of third-party charts |
| download scripts and small tools | straight-line I/O |
| vision branches of `openai.py` | never reached: `ENABLE_VISION = False` is a constant of the file |
| the rest of MemGPT's `utils.py` | helpers without state: a generator of names, conversions of dates and JSON, terminal input |

## 2. Modules

| module | models | state |
|---|---|---|
| `AppVolume` | application, workload controller, Flux, volume | `vol`, `frozen`, `pod`, `replicas`, `suspended`, `upgrading`, ... |
| `SnapshotJob` | CronJob, Job and script of the policy | `sstatus`, `spc`, `sconn`, `sread`, `snaps`, `repo` |
| `RestoreTask` | `snapshot:restore` and its Job | `tpc`, `chosen`, `rstatus`, `rpc`, `rconn`, ... |
| `Backup` | the composition, reboots, fairness, properties | all of the above |
| `VolumeHistory` | abstract: snapshots are copies of one instant | `vol`, `snaps` |
| `DocumentClassifier` | one run of `openai.py` against users | `known`, `doc`; `at`, `options`, `text`, `reply`, `outcome` |
| `PromptBudget` | the length of the request | lengths only |
| `JsonExtract` | `find_potential_json_strings` and `extract_json_from_text` | the scanner's `stack`, `start`, candidates |
| `VipFailover` | checks, priorities, VRRP, faults | `ok`, `fails`, `master` |
| `CloudflareDdns` | the script, line by line | `address`, `record`, `pc`, `seen`, `zone`, `old`, `exit` |
| `HelmValues` | what both upgraders read of a document's values | operators only |
| `UpgradeV2`, `UpgradeV3` | what each script makes of the values of one document | operators only |
| `ChartUpgrade` | the runs over a directory, options, interruptions, properties | `files`, `script`, `yeet`, `skip`, `at`, `data`, `new` |
| `LdapAuth` | logins against a directory | `directory`, `pc`, `login`, `entry`, `exit` |
| `ToolCallIds` | `annotate_message_json_list_with_tool_calls` | `messages`, `at`, `callId`, `callIndex`, `raised` |
| `LlmRequest` | `create` within its retries, `is_context_overflow_error` | `credentials`, `request`, `step`, `retries`, `outcome` |
| `MemGptAgent` | their composition by MemGPT's loop | both |
| `WakeWord` | the notebook | `disk`, `target`, `pc`, `at`, `onnx`, `tflite` |
| `TrainingData` | abstract: the life of a data set | `data`, `left` |
| `MCBackup`, `MCVipFailover`, `MCModelText`, `MCChartUpgrade`, `MCMemGptAgent` | constants of the runs that are not literals | |
| `BackupProofs`, `PaperlessProofs`, `VipFailoverProofs`, `CloudflareDdnsProofs`, `ChartUpgradeProofs`, `LdapAuthProofs`, `MemGptAgentProofs`, `WakeWordProofs` | theorems | |

Composition: `RestoreTask` extends `SnapshotJob`, which extends `AppVolume`, and `Backup` puts them
together; `ChartUpgrade` extends `UpgradeV2` and `UpgradeV3`; `MemGptAgent` extends `ToolCallIds`
and `LlmRequest`. Each action belongs to one of them and leaves the state of the others alone.
`MCModelText` runs `PromptBudget` and `JsonExtract`, two sequential algorithms of `openai.py`
that share no state, in one run, each while the other stands at its beginning.

Refinement: `Backup` implements `VolumeHistory` (`AtomicSnapshots`; the mapping is the identity on
`vol` and `snaps`). `WakeWord` implements `TrainingData` (`DataOnce`), with `data` mapped to the part
of `disk` that holds data sets, and `left` to those that are partial while no command is filling
them: the abstract `left` is nowhere in the notebook, which is why it takes them for present.

Operators introduced as *Fault injection* are not part of any specification. Each is a plausible
mistake in the code it sits above, and is there to see that a property notices it.

### How the modules read

- *Backup*: one action per line of a script (`Connect`, `Freeze`, `SnapBegin`, ...), one per
  command of the task, one per step of a controller. A volume's contents are the set of the
  versions whose data it holds: `{v}` is the state `v`, `{0}` a wiped volume, a set of several a
  mixture. A copy that takes time reads at its beginning and at its end, and holds the union.
- *Classifier*: one action per request and one per outcome of it. A text is a number, its age. A
  name stands for its id. `Patched` is the document after the PATCH, with the keys that the script
  drops left as they were. A title or a date is what the document has, what the model suggests, or
  `"unfit"`: a null, or a title over the limit of Paperless, which the script sends all the same.
- *Prompt*: lengths only. `SliceLength` is Python's slicing, negative bounds included.
- *JSON*: characters are brackets, a quote and one for all others. One action per iteration of the
  loop, which counts every bracket; `IsJson`, in place of `json.loads`, counts those outside quoted
  strings.
- *Failover*: `Effect` and `Priority` compute what the template configures: a positive weight
  counts while a check is up, a negative one while it is down. `Succeeds` is what each check finds
  where it is installed, its own script included (`FindsItself`). `Takeover` and `Yield` are VRRP.
- *DDNS*: one action per command. Addresses are numbered in the order the provider assigned them;
  `Garbage` is anything else a request may print, `Null` what `jq` prints for a missing field,
  `Empty` what is printed of an answer without a body.
- *Upgraders*: a document is its state, its version and its values; the values are sequences of
  named entries, because the order of services, controllers and persistence entries decides. An
  entry is a function from the keys it has; an image is split at its colons, and both scripts split
  it at the first. `first` is the name that the sets of a run pop first, which its hash seed
  decides: a document may fail in one run and not in another (`MayFail`). `ProcessV2` and
  `ProcessV3` are `process` with all it calls; sets that a loop shares between entries are written
  as what the entries before have done (`Required`, `NamesLeft`). One action is one file: passed
  over, crashed on, emptied, written.
- *LDAP*: one action per request. `seen` is what the directory has held since the login began.
- *MemGPT*: one action per message of the loop, one per step of an attempt. An id says where it
  is from, so that a new one equals no other.
- *Notebook*: one action per command of a cell that may fail by itself; a data set is absent,
  partial or whole, and a model is named by the run of the cell that made it.

### What is assumed of software outside the repository

- `kopia repo disconnect` fails exactly when the container is not connected. Retention tiers
  (daily, weekly, ...) are reduced to `keep-latest`, and setting them succeeds in a container that
  is connected. The restore's `rm` may be killed halfway, but does not go wrong over single files.
- `fsfreeze -f` fails on a frozen filesystem and changes nothing; it fails on filesystems that
  cannot freeze (NFS). A reboot ends a freeze, the end of a container does not.
- helm-controller reads `spec.suspend` when it begins an upgrade; the upgrade sets the replicas.
  A task resumes with an upgrade pending.
- A required podAffinity keeps the snapshot pod waiting until a pod of the application exists.
- Paperless refuses a PATCH naming an id it no longer has, or a title or date it cannot store, and
  takes a deleted name off documents. (A title of white space only it trims; that is not modelled.)
- `pkill` looks for its pattern anywhere in the name of a process, itself excepted, and a script that
  is started by its `#!` line is a process of the script's name.
- keepalived counts a check as down until it first succeeds (`rise 1`), breaks ties by address and
  preempts.
- The CronJob of the DNS script never overlaps itself (`concurrencyPolicy: Forbid`), and a
  successful PUT took effect.
- An LDAP server answers each search from one state of its directory; a bind succeeds exactly with
  the password that the entry has then. A name is unique within one container only.
- MemGPT annotates a list when it loads an agent, drops messages from the old end after an overflow,
  and does neither while a request is on its way.
- `wget` and `git clone` create their target before they are done. `train.py --train_model` writes
  the model only if it succeeds. IPython stops a cell at an exception and not at a failed `!` command.

## 3. The runs

| run | asks | shows |
|---|---|---|
| `backup_faults` | every interleaving of application, upgrade, snapshots and two invocations of the restore task, each interrupted anywhere, with every fault but a failed freeze | a snapshot is of one instant; no freeze outlives a Job that reports success; no application runs beside a restore, unless an upgrade began before the suspend; a restore that succeeded is what is resumed on, and a Job left by the first invocation misleads the second in neither way |
| `backup_thaw` | kills only, with fairness | a frozen volume is thawed; the detailed model implements `VolumeHistory` |
| `backup_thaw_restore` | the same with a restore | **violated**: see findings |
| `backup_empty_restore` | a restore without a snapshot | **violated**: see findings |
| `classifier` | one run against edits and deletions, each request may fail | which edits may be undone, why a patch may be refused, what is never emptied |
| `model_text` | every document length, names added meanwhile; every answer of up to six characters | the request is within the context while the names leave room, and cut no more than needed; candidates are disjoint and outermost, an object in prose is found, if the brackets in its strings match |
| `vip_failover` | two nodes, two addresses, two faults, any repairs | one owner, and one that is manageable; addresses spread again; a master that sees its sshd up loses no address to a node that does not |
| `ddns` | errors and kills anywhere, three changes of the address | success is truthful unless two answers had no body; the record never goes back, and follows |
| `chart_upgrade` | both scripts with every combination of options over two files, an interruption anywhere | which mounts an upgrade loses, that images stay what they were, when a required size is missing, where services and ingress lead, and which files stay in the old format however often the script is run |
| `ldap_auth` | logins of two persons who may have one name, in a directory that changes twice | a role is granted on what the directory has held; somebody entitled is turned away only after a failed request or for a namesake |
| `memgpt` | lists of up to three messages, annotated, cut and annotated again; every configuration, credentials that change | responses have the ids of their calls, a second pass changes only responses without a call, every call ends |
| `wake_word` | five cells in any order, stopped anywhere, any command failing, one directory removed | data sets live as `TrainingData` says; a conversion is of the run's own model unless a command failed |

`CHECK_DEADLOCK FALSE` is stated only where the system really may stop: the classifier's run and
the scanner's loop end; retries, kills, invocations, calls and cells run out.

### Bounds, and why they are enough

- *Backup*: two writes distinguish before from after; one or two kills and one retry reach every
  line with and without a replacement container; two restores are the least for a stale Job; the
  resume of the first leaves the upgrade in flight that the second one's suspend may miss. One
  volume: nothing is shared between volumes but the NAS.
- *Classifier*: three tags, one of them a mark, one correspondent and type. A tag that is offered
  and one that is not, an answer with both, a page that is missing and a name that is deleted all
  occur. Two edits are one before the download and one after. `MaxRetries` is 2 for 8: the loop
  body returns in its first iteration.
- *Prompt*: contexts of 40 characters with names of three reach every relation of the prompt, the
  margin of 10 and the context. *JSON*: six characters hold two objects, nesting, wrong brackets,
  a bracket in a quoted string and prose on both sides.
- *Failover*: two nodes are the deployed template's smallest group with a peer; the two virtual
  IPs differ in the preferred node. With three faults the same properties held (longer run), and so
  did `OneOwner` with three nodes, where backups tie.
- *DDNS*: three changes exceed the values a run holds at once (an address and a record).
- *Upgraders*: files meet only in that a run does or does not get past one, so that two suffice, one
  of which varies, in either place. It varies over single entries of every kind with every place of
  a mount; over pairs and triples of the kinds that share sets, with either name or none (the third
  entry is the first that may find no name left, whether or not it has one); over pairs of services
  with the names that matter (`main`, `app`, another); and over the keys of version 1. One kill hits
  every step.
- *LDAP*: two persons are one with a namesake; two changes are one before and one after the search.
- *MemGPT*: three messages are a call, something in between, and a response; two passes are one and
  another. `MaxRetries` is 2 for 20: the counter decides only whether it is at its end. All lists go
  with one configuration, and all configurations with one list, because annotations and requests
  share no variable.
- *Notebook*: five cells are the download twice, the word, and training twice, or a removal in
  between; two words are one and another.

### Fairness

- `Backup!FairSpec`: weak fairness of the controllers, of the schedule, of a running script. The
  operator, git and the application owe nothing. Kills are bounded; a kill at every freeze for ever
  would indeed leave it frozen.
- `VipFailover!FairSpec`: keepalived repeats every check and advertisement at its interval. Faults
  are bounded, repairs owe nothing.
- `CloudflareDdns!FairSpec`: the CronJob and its script go on, and for ever again there is a run
  whose requests all succeed. Strong fairness, because failures may come in between; each fairness
  condition is on an action that the provider's success makes possible.
- `ChartUpgrade!FairSpec`: the operator runs the script again, and a run goes on. Going over to the
  second script is left to him. Kills are bounded.
- `MemGptAgent!Fairness`: an attempt that was sent ends, because the server answers or the
  connection breaks; nothing is assumed of what it answers, or of the user.
- `Backup!Spec`, the classifier, the prompt, the scanner, the login and the notebook: none.

## 4. The proofs

Every theorem is of `Spec`, for all values of the constants that satisfy the named assumptions of
the module. `TypeCorrect` (`Spec => []TypeOK`) is proved in each of the eight modules,
for `PromptBudget` as `PromptTypeCorrect`.

| module | theorem | statement |
|---|---|---|
| `BackupProofs` | `FreezeCorrect` | a freeze belongs to an active or failed Job (`FreezeOwned`) |
| | `SnapshotCorrect` | where freezing works, what Kopia has read is what the volume holds (`PointInTime`) |
| | `RestoreCorrect` | no application beside a restore Job (`RestoreExclusive`) |
| | `ResumeCorrect` | a restore that succeeded is what the release is resumed on (`ResumeRestored`) |
| | `HistoryCorrect` | where freezing works, `Spec` implements `VolumeHistory` |
| `PaperlessProofs` | `StaleTextCorrect` | only edits after the download are undone |
| | `RejectedCorrect` | a patch is refused only for a deleted name, or the model's title or date |
| | `NeverEmptiedCorrect` | no step empties title, date or text |
| | `FitsCorrect` | with room for the margin a request fits, and is cut no more than needed |
| | `CandidatesCorrect` | the scanner's candidates are apart and in order (`CandidatesApart`) |
| | `OutermostCorrect` | the scanner, with its stack, finds what `Outermost` defines without one |
| | `ObjectCorrect` | an object in prose without braces is extracted, if the brackets in its quoted strings match (`ObjectInProseFound`) |
| `VipFailoverProofs` | `ManageableMasterCorrect` | `ManageableMasterKept` if sshd's weight exceeds the one point of the round robin |
| | `HandoverCovered` | no handover leaves a virtual IP without an owner, for any weights |
| | `PlacedStays` | a virtual IP alone where the priority is greatest stays there until a fault, a repair or a check changes that |
| `CloudflareDdnsProofs` | `NeverOlderCorrect`, `SuccessCorrect` | the two action properties of the run `ddns` |
| `ChartUpgradeProofs` | `MountsCorrect` | no mount is lost but those that `LostByV2` and `LostByV3` name |
| | `ImagesCorrect` | containers of the top level keep their images |
| | `SizeCorrect` | a claim names its size unless an existing claim stands before it |
| | `RoutedCorrect` | one primary service, controllers that exist, an ingress that leads somewhere |
| | `RunShortens` | every step of a run brings it nearer to its end |
| | `PassedCorrect` | what a run has behind it is in the new format, or what the script fails at with some hash seed |
| | `SettledStays` | what a script is done with stays so while that script is run |
| `LdapAuthProofs` | `GrantedCorrect`, `EntitledCorrect` | both properties of the run `ldap_auth` |
| `MemGptAgentProofs` | `ResponsesCorrect`, `SecondPassCorrect` | both properties of an annotation, for lists of any length |
| | `CallShortens` | every step of a call brings it nearer to its end, nothing else takes it farther away |
| `WakeWordProofs` | `DataOnceCorrect` | the notebook implements `TrainingData` |
| | `ConvertedCorrect` | `ConvertedIsTrained` |

- *Freeze and snapshot.* `FreezeOwned` and `PointInTime` are not inductive: from a state with
  `spc = "snapping"` and the volume thawed, the application writes. `FreezeBracketsSnapshot` adds
  that the lines from [05] to [06] are passed frozen by an active Job, and that line [10] is passed
  thawed. A writer then needs a thaw, and only the script's own next line thaws, or a reboot, which
  takes the script with it. The proof goes over the actions, one step each.
- *Restore.* `TaskOrder` says what each command leaves for the later ones: from `scale` on, the
  release is suspended; from `waitGone`, replicas are 0; at `apply` the pod is gone; and while the
  Job is active all of that still holds, because `resume` is reached only past a Job that is no
  longer active. The exception, an upgrade begun before the suspend, is the history variable
  `staleApply`.
- *Resume.* `RestoredKept` carries the volume from the end of the copy to the resume. A Job that was
  killed wipes the volume again, with `rok` still true from the attempt before: so the
  invariant speaks only of the line after the copy, and of a wait that has seen the Job complete. What
  keeps the application away (suspended, no replicas, no pod) has to outlive the Job, which may
  expire before the resume.
- *Refinement.* A step that completes a snapshot is `Take`, because `sread \cup vol = vol` by
  `PointInTime`; every other step is `Change` or a stutter.
- *Classifier.* What was read is related to what there was: a fetched name was once in Paperless, and
  is there still unless it was deleted since; the text of a run is that of the document when it was
  downloaded. `TypeInv` adds what each step of the run has already read. What is not related to
  anything is the title and the date, which the script never checks: `RejectedOnlyIfStaleOrUnfit`
  excepts them.
- *Prompt.* `SliceBound` is about Python's slices; `TruncationShortens` puts it together with the
  margin: with room, the slice bound is not negative and the cut is exact.
- *Scanner.* The proof needs no induction over the text, because the loop is one: each iteration keeps
  an invariant that compares the stack with `Depth`, which counts brackets and knows no stack.
  `ScanInv` holds for every text: the candidates are apart and end before `index`, and `start` is 0
  exactly while the stack is empty. `MatchedInv` holds as long as the
  isolated text is `Balanced`: the height of the stack is the depth so far, the bracket at height d
  is the last opening one that reached d (so that a closing bracket always matches, `TopMatches`),
  and the candidates are the outermost values that are closed so far. `ClosedAt` is the minimum of a
  set, whose existence is the well-foundedness of the naturals (`MinProperty`). The object in prose
  is then the one outermost value, `IsolatedProperty` finds its ends, and `Choose` can take no other.
  `ObjectCorrect` is about objects that are values twice, for `json.loads`, which skips what is
  quoted, and for the scanner, which does not: `IsJson` and `IsValue` differ in just that.
- *Failover.* Two facts of the checks as they are installed: the one of the API servers has never
  counted (`ApiCheckInvariant`), and the one of HAProxy, once up, stays up for as long as its node
  lives (`HaproxyUnnoticed`). Between two connected nodes only sshd's is left, and under `SshdDecides`
  (its weight exceeds the one point of the round robin; the configured -4 does), `SshdBreaksTie`
  compares any two priorities. Were the other two checks to work, their weights would be part of the
  comparison, and HAProxy's 6 would rank before manageability.
- *DDNS.* `CopiesInv` says what the copies a run holds may be: the address it saw lies between the
  record and the site's address, and what it read of the record, if anything, is still the record,
  because the record has no other writer. Success at the comparison then means that an address and
  the record are equal, or that both are empty (`NothingRead`).
- *Upgraders.* `TreesAssumption` is what YAML guarantees of a document that was loaded: no key
  occurs twice in one map. From it `WellFormed` is kept by both scripts (`V2WellFormed`,
  `V3WellFormed`), also where containers of the top level are placed among others. The invariant of
  a run, `RunInv`, adds what a run holds between the emptying of a file and the writing: what it
  will write is what the script makes of a document that was whole, was to be processed and did not
  fail (`Writing`). The action properties of `Save` are then about `ProcessV2` and `ProcessV3`
  alone. `LostByV2` and `LostByV3` name the conditions without which the proof of `MountsKept`
  fails, one for each way in which a script drops a mount. Which name an entry takes matters to none
  of them, only that there is one left (`NamesLeftFacts`). `SplitKeeps` is the whole of what
  `ImagesKept` says of one image: a text split at its first colon and joined there is the same text.
  `SizeCorrect` needs that a claim which is one after the script was one before (`TypeAfter`),
  `RoutedCorrect` that only one name can be the default.
- *LDAP.* Both theorems follow what the run keeps of an entry back to `seen`: the groups are those of
  a state of the directory since the login began, and the password is that of the state of the
  rebind.
- *Annotation.* `AnnotationInv` says that the buffer is the call that waits (`Outstanding`), that
  messages before `at` are `Numbered` (a new id occurs once, but for a call and its response) and
  `Settled` (nothing in them raises an exception, a response has the id of its call), and that from
  the second pass on all of them are settled. `GiveKeeps` does the work for one iteration;
  `ReloadKeeps` carries `Settled` over to any end of the list, where a response may have lost its
  call and never gains one.
- *Ends.* `CallShortens` and `RunShortens` each give a variant (`StepsLeft`): three steps for each
  attempt of a call that is left, two for each file of a run that is left. `CallEnds` follows from
  the first and the fairness of the call's steps, and that a run ends, which `UpgradesSettle` needs,
  from the second. `Passed` is inductive with `RunInv`: a run goes on to the next file only past one
  it leaves `Settled`, and no later run unsettles it (`SettledStays`), because what a script writes
  is in its own new format (`ProcessedSettled`) and an emptied file is no release. Together they are
  the safety half of `UpgradesSettle`; the liveness is not proved from there, for want of fairness
  in the prover.
- *Handovers.* A master yields only to a connected master that outranks it, which is another one
  (`OutranksAnother`), so that `Owners(v)` never gets empty by a handover. A backup defers to equal
  priority, a master does not yield to it unless the address is higher: a virtual IP that is `Placed` has
  nobody to yield to and nobody to be taken by, as long as no check changes a priority. That is the
  `[]` of `OneOwner` once the checks have seen every fault; that it gets there is with TLC.
- *Notebook.* A step is a step of `TrainingData` by what it does to one data set; `Leaving` is about a
  cell that ends while a data set is being filled, where only `left` changes.

Model-checked only: liveness (`FreezeEnds`, `OneOwner`, `OwnerManageable`,
`SpreadAgain`, `RecordFollows`, `UpgradesSettle`, `CallEnds`), because fairness is out of the
prover's reach. Every invariant and every action property of a passing run is stated by a theorem.

## 5. Findings

Two are shown by runs; each quotes its line of the repository in `PROJECT.json`.

1. *A restore can wait for ever on a frozen volume* (`backup_thaw_restore`). A snapshot pod lost
   between freeze and thaw is replaced only where a pod of the application runs. If the restore
   task has scaled it to 0 by then, nothing thaws the volume and the restore's `rm` blocks.
2. *A restore without a snapshot empties the volume and resumes* (`backup_empty_restore`).

Others show in the definitions, or in what a property has to except, and need no run.

- *Backup.* A volume that cannot be frozen (several labelled volumes are on NFS) is copied while it
  is written, because the script goes on after a failed `fsfreeze`: `PointInTime` is checked and
  proved without that fault. `snapshot:create` asks for a CronJob named `-snapshot`, while the
  policy generates `-snap` (`SnapshotTasks.yml:44`).
- *Classifier.* The retry loop of `classify_document` never retries: every path of its body
  returns (`openai.py:193`, 268). Once the names outgrow the context the slice bound is negative and
  the request too long (225-229), which is the condition of `FitsWithRoom`. The title is sent as
  the language model wrote it (396, 408): a null, or one over the limit of Paperless, has the whole
  patch refused, and the document stays unclassified (`RejectedOnlyIfStaleOrUnfit`). The scanner counts the
  brackets inside quoted strings (313-327): the object `{"title": "Re: [EXT"}`, with prose around it,
  is not extracted, although `json.loads` would read it (`ObjectInProseFound`). Every patch
  replaces the tags of the document, also those Paperless gave it from the directory it was
  consumed from.
- *Failover.* The check of the API servers never succeeds: it asks 127.0.0.1
  (`loadbalancers.yml:43`), while the frontend listens at the virtual IPs (`haproxy.cfg.j2:35`). A
  node that reaches no API server keeps its address (`ApiCheckInvariant`). The check of HAProxy,
  installed as `haproxy.sh` (`enable_keepalived.yml:26-31`), runs `pkill -0 haproxy`
  (`loadbalancers.yml:37`), which matches the shell it runs in: it never fails, the six points stay, and a
  node whose HAProxy has died keeps its address and forwards nothing (`HaproxyUnnoticed`). That the
  owner of an address forwards is therefore no property here.
- *Dynamic DNS.* `curl` has no `--fail`, and `jq` ends well on an empty input: if both the address
  service and Cloudflare answer without a body, the script compares two empty texts, takes the address
  for unchanged and reports success (`cloudflare-ddns.sh:47`), which `SuccessMeansWritten` excepts.
- *Upgraders.* The second script looks for persistence entries at the wrong level of the document
  (363-390), so that it always reports mounts of init containers as transferred and removes
  them, and gives every ingress path to `main` (154, 181). It deletes the `advancedMounts` of an
  entry that no container names (331), overwrites the controller a service names (217-230), and reads
  `--skip-version-check` without using it (64-74). It sets 3.1.0 and compares with 3.2.0, so that
  without `--yeet` every run ends with the same first file. An emptied file, or one without a
  version, ends every later run; `UpgradesSettle` says which files that leaves behind. The names of
  `configMap` and `secret` entries are popped from a set that all entries of the type share and are
  tested against (306-309): after two pops every further entry raises `KeyError`, one with a name of its
  own included, and the file stays in the old format.
- *LDAP.* `TIMEOUT` (line 63) is not used. A person with a namesake elsewhere under the base may be
  taken for that person, and turned away.
- *MemGPT.* An error that is a text and not an object makes `is_context_overflow_error` raise an
  `AttributeError`. A list in the style of functions cannot be annotated twice. Twenty doublings of
  the delay are at least 2^21 seconds. `get_human_text` is defined a second time (1001) without the
  check of its length (975).
- *Notebook.* `os.makedirs` without `exist_ok` stops the second cell when it is run again; a
  data set that was left in part counts as whole; after a failed training an older model of the same
  name is converted; `generate_samples` is imported only where the generator is absent, so that after
  a restart of the kernel the first cell fails with a `NameError`.

## 6. Plan

Done: the backup with its restore, the classifier, the failover, the DNS updater, the upgraders, the
login, MemGPT's overrides and the notebook, each with its proofs as far as section 4 says.

What is left, in order:

1. The progress of a handover: with two nodes that hear each other and both own an address, only the
   one that is outranked can give it up.
2. The helpers of MemGPT's `utils.py` that refuse an answer (`verify_first_message_correctness`) or
   shorten it (`validate_function_response`).
3. The RAG API, once it compiles: store, find and cache handlers against concurrent requests, with a
   map from embedding to item as the abstract specification.
