------------------------------ MODULE WakeWord ------------------------------
(***************************************************************************)
(* The notebook automatic_model_training_simple.ipynb, of three cells that  *)
(* a user runs in any order and any number of times: one speaks the wake    *)
(* word, one downloads what training needs, one trains the model.  Commands *)
(* of the shell may fail without the cell noticing, an exception or the     *)
(* user may stop a cell anywhere, and the kernel may be restarted.  The     *)
(* files stay, in whatever state they are; the names of the kernel do not.   *)
(***************************************************************************)
EXTENDS Naturals, Sequences

CONSTANTS
  Words,     \* wake words that the user tries, as model_name has them: without spaces
  MaxCells,  \* bound on the cells that are run
  MaxRemoved \* bound on the directories that the user removes

NoWord == "no word"

ASSUME WakeWordAssumption == NoWord \notin Words /\ MaxCells \in Nat /\ MaxRemoved \in Nat

\* The data sets in the order of the second cell.
Order == <<"mit_rirs", "audioset", "fma", "features", "validation">>
Datasets == {Order[i] : i \in DOMAIN Order}

\* Each of the last two is a file of its own, without a directory.
Files == {"features", "validation"}

\* What else is on the disk: the generator of samples with its voice, the checkout
\* of openWakeWord, and its resources/models.
Things == Datasets \cup {"generator", "openwakeword", "models"}
Amounts == {"absent", "partial", "whole"}

VARIABLES
  disk,    \* how much there is of each thing
  target,  \* target_word, which is lost with the kernel
  cells,   \* cells run so far
  removed,
  pc,      \* the step of the cell that runs, "idle" if none does
  at,      \* the data set that the second cell is at
  onnx,    \* for each word, the cell whose training made its model, 0 if none
  tflite,  \* the same of the converted model
  failed   \* history: a command of this cell has failed

vars == <<disk, target, cells, removed, pc, at, onnx, tflite, failed>>
trained == <<onnx, tflite>>

Steps ==
  {"idle", "generator", "voice", "import", "speak", "checkout", "mkdir", "models", "path",
   "dataset", "fetch", "config", "generate", "augment", "train", "convert"}

TypeOK ==
  /\ disk \in [Things -> Amounts]
  /\ target \in Words \cup {NoWord}
  /\ cells \in 0 .. MaxCells
  /\ removed \in 0 .. MaxRemoved
  /\ pc \in Steps
  /\ at \in DOMAIN Order
  /\ onnx \in [Words -> 0 .. cells]
  /\ tflite \in [Words -> 0 .. cells]
  /\ failed \in BOOLEAN

Init ==
  /\ disk = [t \in Things |-> "absent"]
  /\ target = NoWord
  /\ cells = 0
  /\ removed = 0
  /\ pc = "idle"
  /\ at = 1
  /\ onnx = [w \in Words |-> 0]
  /\ tflite = [w \in Words |-> 0]
  /\ failed = FALSE

-----------------------------------------------------------------------------
(* Steps in general *)

Put(thing, amount) == disk' = [disk EXCEPT ![thing] = amount]
Absent(thing) == disk[thing] = "absent"

Run(first) ==
  /\ pc = "idle"
  /\ cells < MaxCells
  /\ cells' = cells + 1
  /\ pc' = first
  /\ at' = 1
  /\ failed' = FALSE
  /\ UNCHANGED <<disk, removed, trained>>

\* A command of the shell fails: the cell goes on.
CommandFails(next) == pc' = next /\ failed' = TRUE

\* The user interrupts the cell, or an exception ends it.
Stop ==
  /\ pc # "idle"
  /\ pc' = "idle"
  /\ UNCHANGED <<disk, target, cells, removed, at, trained, failed>>

Restart ==
  /\ target # NoWord
  /\ pc' = "idle"
  /\ target' = NoWord
  /\ UNCHANGED <<disk, cells, removed, at, trained, failed>>

\* The user removes a directory or a file; resources/models is in the checkout.
Remove(thing) ==
  /\ pc = "idle"
  /\ ~Absent(thing)
  /\ removed < MaxRemoved
  /\ removed' = removed + 1
  /\ disk' = [t \in Things |->
                IF t = thing \/ (thing = "openwakeword" /\ t = "models") THEN "absent"
                ELSE disk[t]]
  /\ UNCHANGED <<target, cells, pc, at, trained, failed>>

-----------------------------------------------------------------------------
(* 1. Test Example Training Clip Generation *)

\* A generator that is there in part is taken for a whole one.
TestClip ==
  /\ Run(IF Absent("generator") THEN "generator" ELSE "speak")
  /\ UNCHANGED target

CloneGenerator ==
  /\ pc = "generator"
  /\ \/ Put("generator", "partial") /\ pc' = "voice" /\ UNCHANGED failed
     \/ CommandFails("voice") /\ UNCHANGED disk
  /\ UNCHANGED <<target, cells, removed, at, trained>>

FetchVoice ==
  /\ pc = "voice"
  /\ \/ ~Absent("generator") /\ Put("generator", "whole") /\ pc' = "import" /\ UNCHANGED failed
     \/ CommandFails("import") /\ UNCHANGED disk
  /\ UNCHANGED <<target, cells, removed, at, trained>>

ImportGenerator ==
  /\ pc = "import"
  /\ pc' = IF Absent("generator") THEN "idle" ELSE "speak"
  /\ UNCHANGED <<disk, target, cells, removed, at, trained, failed>>

\* The word is known to the kernel, also if it then cannot be spoken.
Speak(word) ==
  /\ pc = "speak"
  /\ target' = word
  /\ pc' = "idle"
  /\ UNCHANGED <<disk, cells, removed, at, trained, failed>>

-----------------------------------------------------------------------------
(* 2. Download Data *)

Download == Run("checkout") /\ UNCHANGED target

CloneOpenWakeWord ==
  /\ pc = "checkout"
  /\ \/ Absent("openwakeword") /\ Put("openwakeword", "whole") /\ pc' = "mkdir" /\ UNCHANGED failed
     \/ CommandFails("mkdir") /\ UNCHANGED disk
  /\ UNCHANGED <<target, cells, removed, at, trained>>

\* os.makedirs without exist_ok: the cell gets past it once for each checkout.
MakeModels ==
  /\ pc = "mkdir"
  /\ IF Absent("models")
     THEN /\ disk' = [disk EXCEPT !["models"] = "partial",
                                  !["openwakeword"] = IF @ = "absent" THEN "partial" ELSE @]
          /\ pc' = "models"
     ELSE pc' = "idle" /\ UNCHANGED disk
  /\ UNCHANGED <<target, cells, removed, at, trained, failed>>

FetchModels ==
  /\ pc = "models"
  /\ \/ Put("models", "whole") /\ pc' = "path" /\ UNCHANGED failed
     \/ CommandFails("path") /\ UNCHANGED disk
  /\ UNCHANGED <<target, cells, removed, at, trained>>

ImportAll ==
  /\ pc = "path"
  /\ pc' = IF Absent("generator") THEN "idle" ELSE "dataset"
  /\ UNCHANGED <<disk, target, cells, removed, at, trained, failed>>

\* Where the cell goes on after a data set.
NextDataset ==
  IF at = Len(Order) THEN pc' = "idle" /\ UNCHANGED at ELSE pc' = "dataset" /\ at' = at + 1

\* Fault injection: a data set that is there is begun again.
CheckNothing ==
  /\ pc = "dataset"
  /\ Put(Order[at], "partial")
  /\ pc' = "fetch"
  /\ UNCHANGED <<target, cells, removed, at, trained, failed>>

\* A data set that is there, in part or whole, is passed over.  Of any other the
\* directory is made first.
Check ==
  /\ pc = "dataset"
  /\ IF Absent(Order[at])
     THEN pc' = "fetch" /\ UNCHANGED at
          /\ IF Order[at] \in Files THEN UNCHANGED disk ELSE Put(Order[at], "partial")
     ELSE NextDataset /\ UNCHANGED disk
  /\ UNCHANGED <<target, cells, removed, trained, failed>>

\* wget has created a file.
BeginFile ==
  /\ pc = "fetch"
  /\ Absent(Order[at])
  /\ Put(Order[at], "partial")
  /\ UNCHANGED <<target, cells, removed, pc, at, trained, failed>>

Fetched ==
  /\ pc = "fetch"
  /\ disk[Order[at]] = "partial"
  /\ Put(Order[at], "whole")
  /\ NextDataset
  /\ UNCHANGED <<target, cells, removed, trained, failed>>

\* The Free Music Archive is read by Python, where a failure is an exception.
FetchFails ==
  /\ pc = "fetch"
  /\ Order[at] # "fma"
  /\ failed' = TRUE
  /\ NextDataset
  /\ UNCHANGED <<disk, target, cells, removed, trained>>

-----------------------------------------------------------------------------
(* 3. Train the Model *)

Train == Run("config") /\ UNCHANGED target

\* Fault injection: a model that is there is not trained again.
ConfigureTrained ==
  /\ pc = "config"
  /\ pc' = IF disk["openwakeword"] # "whole" \/ target = NoWord THEN "idle"
           ELSE IF onnx[target] # 0 THEN "convert" ELSE "generate"
  /\ UNCHANGED <<disk, target, cells, removed, at, trained, failed>>

\* The configuration needs the checkout, and target_word in the kernel.
Configure ==
  /\ pc = "config"
  /\ pc' = IF disk["openwakeword"] # "whole" \/ target = NoWord THEN "idle" ELSE "generate"
  /\ UNCHANGED <<disk, target, cells, removed, at, trained, failed>>

\* The clips are generated, then augmented.
Prepare(step, next) ==
  /\ pc = step
  /\ \/ pc' = next /\ UNCHANGED failed
     \/ CommandFails(next)
  /\ UNCHANGED <<disk, target, cells, removed, at, trained>>

\* Training writes the model only if it succeeds.
TrainModel ==
  /\ pc = "train"
  /\ \/ onnx' = [onnx EXCEPT ![target] = cells] /\ pc' = "convert" /\ UNCHANGED failed
     \/ CommandFails("convert") /\ UNCHANGED onnx
  /\ UNCHANGED <<disk, target, cells, removed, at, tflite>>

\* What has the name of the word is converted, whichever training made it.
Convert ==
  /\ pc = "convert"
  /\ tflite' = IF onnx[target] = 0 THEN tflite ELSE [tflite EXCEPT ![target] = onnx[target]]
  /\ pc' = "idle"
  /\ UNCHANGED <<disk, target, cells, removed, at, onnx, failed>>

Next ==
  \/ TestClip \/ CloneGenerator \/ FetchVoice \/ ImportGenerator
  \/ \E word \in Words : Speak(word)
  \/ Download \/ CloneOpenWakeWord \/ MakeModels \/ FetchModels \/ ImportAll
  \/ Check \/ BeginFile \/ Fetched \/ FetchFails
  \/ Train \/ Configure \/ Prepare("generate", "augment") \/ Prepare("augment", "train")
  \/ TrainModel \/ Convert
  \/ Stop \/ Restart \/ (\E thing \in Things : Remove(thing))

Spec == Init /\ [][Next]_vars

-----------------------------------------------------------------------------
(* Properties *)

\* The data sets that a stopped cell or a failed command has left in part.
Left ==
  {d \in Datasets : disk[d] = "partial" /\ ~(pc = "fetch" /\ Order[at] = d)}

Amount == [d \in Datasets |-> disk[d]]

Data == INSTANCE TrainingData WITH Datasets <- Datasets, data <- Amount, left <- Left

\* However the cells are run, stopped and run again, a data set that is whole stays so, and
\* one that was left in part is never made whole, for it counts as present.
DataOnce == Data!Spec

\* The model that a run of the third cell converts is the one that this run has trained, unless
\* one of its commands failed: then an older model of the same name goes for the new one.
ConvertedIsTrained ==
  [][\A w \in Words : tflite'[w] # tflite[w] => tflite'[w] = cells \/ failed]_vars
=============================================================================
