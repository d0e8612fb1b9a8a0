--------------------------- MODULE WakeWordProofs ---------------------------
(***************************************************************************)
(* The notebook for any number of words, runs of cells and removals: its    *)
(* types, the data sets as TrainingData describes them, and the model that  *)
(* is converted.                                                            *)
(***************************************************************************)
EXTENDS WakeWord, TLAPS

\* The data sets, and what else is on the disk.
LEMMA Five ==
  /\ DOMAIN Order = 1 .. 5 /\ Len(Order) = 5
  /\ Datasets = {"mit_rirs", "audioset", "fma", "features", "validation"}
<1>1. DOMAIN Order = 1 .. 5 /\ Len(Order) = 5
  BY DEF Order
<1>2. /\ Order[1] = "mit_rirs" /\ Order[2] = "audioset" /\ Order[3] = "fma"
      /\ Order[4] = "features" /\ Order[5] = "validation"
  BY DEF Order
<1>3. 1 .. 5 = {1, 2, 3, 4, 5}
  OBVIOUS
<1> HIDE DEF Order
<1> QED BY <1>1, <1>2, <1>3 DEF Datasets

LEMMA Apart ==
  /\ Datasets \subseteq Things
  /\ {"generator", "openwakeword", "models"} \subseteq Things
  /\ {"generator", "openwakeword", "models"} \cap Datasets = {}
BY Five DEF Things

LEMMA Following ==
  ASSUME at \in DOMAIN Order, NextDataset
  PROVE  at' \in DOMAIN Order /\ pc' \in {"idle", "dataset"}
BY Five DEF NextDataset

-----------------------------------------------------------------------------

\* What a cell leaves alone, whichever step it takes.
LEMMA Counters ==
  /\ 0 \in 0 .. MaxCells /\ 0 \in 0 .. MaxRemoved
  /\ \A n \in 0 .. MaxCells : n < MaxCells => n + 1 \in 0 .. MaxCells
  /\ \A n \in 0 .. MaxRemoved : n < MaxRemoved => n + 1 \in 0 .. MaxRemoved
  /\ \A n \in 0 .. MaxCells : 0 \in 0 .. n /\ n \in 0 .. n /\ 0 .. n \subseteq 0 .. n + 1
BY WakeWordAssumption DEF WakeWordAssumption

LEMMA RunType ==
  ASSUME TypeOK, NEW first \in Steps, Run(first), target' \in Words \cup {NoWord}
  PROVE  TypeOK'
<1>1. cells' \in 0 .. MaxCells
  BY Counters DEF Run, TypeOK
<1>2. 0 .. cells \subseteq 0 .. cells'
  BY Counters DEF Run, TypeOK
<1>3. onnx' \in [Words -> 0 .. cells'] /\ tflite' \in [Words -> 0 .. cells']
  BY <1>2 DEF Run, TypeOK, trained
<1>4. at' \in DOMAIN Order
  BY Five DEF Run
<1> QED BY <1>1, <1>3, <1>4 DEF Run, TypeOK

LEMMA PutType ==
  ASSUME TypeOK, NEW thing, NEW amount \in Amounts, Put(thing, amount)
  PROVE  disk' \in [Things -> Amounts]
BY DEF Put, TypeOK

\* The notebook keeps its types.
THEOREM TypeCorrect == Spec => []TypeOK
<1>1. Init => TypeOK
  <2> SUFFICES ASSUME Init PROVE TypeOK
    OBVIOUS
  <2>1. onnx \in [Words -> 0 .. cells] /\ tflite \in [Words -> 0 .. cells]
    BY Counters DEF Init
  <2>2. at \in DOMAIN Order
    BY Five DEF Init
  <2> QED BY <2>1, <2>2, Counters DEF Init, TypeOK, Amounts, Steps
<1>2. TypeOK /\ [Next]_vars => TypeOK'
  <2> SUFFICES ASSUME TypeOK, [Next]_vars PROVE TypeOK'
    OBVIOUS
  <2> USE DEF Amounts, Steps
  <2>1. CASE TestClip \/ Download \/ Train
    BY <2>1, RunType DEF TestClip, Download, Train, TypeOK
  <2>2. CASE CloneGenerator \/ FetchVoice
    <3>1. disk' \in [Things -> Amounts]
      BY <2>2, PutType DEF CloneGenerator, FetchVoice, TypeOK
    <3> QED BY <2>2, <3>1 DEF CloneGenerator, FetchVoice, CommandFails, trained, TypeOK
  <2>3. CASE CloneOpenWakeWord \/ FetchModels
    <3>1. disk' \in [Things -> Amounts]
      BY <2>3, PutType DEF CloneOpenWakeWord, FetchModels, TypeOK
    <3> QED BY <2>3, <3>1 DEF CloneOpenWakeWord, FetchModels, CommandFails, trained, TypeOK
  <2>4. CASE ImportGenerator \/ ImportAll
    BY <2>4 DEF ImportGenerator, ImportAll, trained, TypeOK
  <2>5. ASSUME NEW word \in Words, Speak(word) PROVE TypeOK'
    BY <2>5 DEF Speak, trained, TypeOK
  <2>6. CASE MakeModels
    <3>1. disk' \in [Things -> Amounts]
      BY <2>6 DEF MakeModels, TypeOK
    <3> QED BY <2>6, <3>1 DEF MakeModels, trained, TypeOK
  <2>7. CASE Check
    <3>1. disk' \in [Things -> Amounts]
      BY <2>7, PutType DEF Check, TypeOK
    <3>2. at' \in DOMAIN Order /\ pc' \in {"idle", "dataset", "fetch"}
      BY <2>7, Following DEF Check, TypeOK
    <3> QED BY <2>7, <3>1, <3>2 DEF Check, trained, TypeOK
  <2>8. CASE BeginFile
    <3>1. disk' \in [Things -> Amounts]
      BY <2>8, PutType DEF BeginFile
    <3> QED BY <2>8, <3>1 DEF BeginFile, trained, TypeOK
  <2>9. CASE Fetched \/ FetchFails
    <3>1. disk' \in [Things -> Amounts]
      BY <2>9, PutType DEF Fetched, FetchFails, TypeOK
    <3>2. at' \in DOMAIN Order /\ pc' \in {"idle", "dataset"}
      BY <2>9, Following DEF Fetched, FetchFails, TypeOK
    <3> QED BY <2>9, <3>1, <3>2 DEF Fetched, FetchFails, trained, TypeOK
  <2>10. CASE Configure \/ Prepare("generate", "augment") \/ Prepare("augment", "train")
    BY <2>10 DEF Configure, Prepare, CommandFails, trained, TypeOK
  <2>11. CASE TrainModel
    <3>1. onnx' \in [Words -> 0 .. cells]
      BY <2>11, Counters DEF TrainModel, TypeOK
    <3> QED BY <2>11, <3>1 DEF TrainModel, CommandFails, TypeOK
  <2>12. CASE Convert
    <3>1. target \in Words => onnx[target] \in 0 .. cells
      BY DEF TypeOK
    <3>2. tflite' \in [Words -> 0 .. cells]
      BY <2>12, <3>1 DEF Convert, TypeOK
    <3> QED BY <2>12, <3>2 DEF Convert, TypeOK
  <2>13. CASE Stop \/ Restart
    BY <2>13 DEF Stop, Restart, trained, TypeOK
  <2>14. ASSUME NEW thing \in Things, Remove(thing) PROVE TypeOK'
    <3>1. removed' \in 0 .. MaxRemoved
      BY <2>14, Counters DEF Remove, TypeOK
    <3>2. disk' \in [Things -> Amounts]
      BY <2>14 DEF Remove, TypeOK
    <3> QED BY <2>14, <3>1, <3>2 DEF Remove, trained, TypeOK
  <2>15. CASE UNCHANGED vars
    BY <2>15 DEF vars, TypeOK
  <2> QED BY <2>1, <2>2, <2>3, <2>4, <2>5, <2>6, <2>7, <2>8, <2>9, <2>10, <2>11, <2>12,
             <2>13, <2>14, <2>15 DEF Next
<1> QED BY <1>1, <1>2, PTL DEF Spec

-----------------------------------------------------------------------------
(* The data sets *)

\* A step that neither begins nor ends a fetch, and touches no data set, is none of TrainingData.
LEMMA Quiet ==
  ASSUME \A d \in Datasets : disk'[d] = disk[d], pc # "fetch", pc' # "fetch"
  PROVE  UNCHANGED <<Amount, Left>>
BY DEF Amount, Left

\* A step that ends the fetch of a data set and leaves the disk alone leaves it.
LEMMA Leaving ==
  ASSUME TypeOK, UNCHANGED disk, pc = "fetch", pc' # "fetch"
  PROVE  Data!Leave(Order[at]) \/ UNCHANGED <<Amount, Left>>
<1>1. Order[at] \in Datasets
  BY DEF TypeOK, Datasets
<1>2. UNCHANGED Amount
  BY DEF Amount
<1>3. CASE disk[Order[at]] = "partial"
  <2>1. Left' = Left \cup {Order[at]}
    BY <1>1, <1>3 DEF Left
  <2>2. Amount[Order[at]] = "partial"
    BY <1>1, <1>3 DEF Amount
  <2> QED BY <1>2, <2>1, <2>2 DEF Data!Leave
<1>4. CASE disk[Order[at]] # "partial"
  BY <1>2, <1>4 DEF Left
<1> QED BY <1>3, <1>4

\* A data set comes into being as the fetch of it begins.
LEMMA Beginning ==
  ASSUME TypeOK, Put(Order[at], "partial"), Absent(Order[at]), pc' = "fetch", at' = at,
         pc \in {"dataset", "fetch"}
  PROVE  Data!Begin(Order[at])
<1> DEFINE d == Order[at]
<1>1. d \in Datasets /\ d \in Things /\ Datasets \subseteq Things
  BY Apart DEF TypeOK, Datasets
<1>2. /\ disk[d] = "absent" /\ disk'[d] = "partial"
      /\ \A e \in Datasets : e # d => disk'[e] = disk[e]
  BY <1>1 DEF Put, Absent, TypeOK
<1> HIDE DEF d
<1>3. Amount' = [Amount EXCEPT ![d] = "partial"]
  BY <1>1, <1>2 DEF Amount
<1>4. Left' = Left
  BY <1>2 DEF Left, d
<1>5. Amount[d] = "absent"
  BY <1>1, <1>2 DEF Amount
<1> QED BY <1>3, <1>4, <1>5 DEF Data!Begin, d

\* The notebook's data sets are those of TrainingData: what is whole stays so, and what was left
\* in part is never finished (the guards os.path.exists of the second cell).
THEOREM DataOnceCorrect == Spec => DataOnce
<1>1. Init => Data!Init
  BY Apart DEF Init, Data!Init, Amount, Left
<1>2. TypeOK /\ [Next]_vars => [Data!Next]_<<Amount, Left>>
  <2> SUFFICES ASSUME TypeOK, [Next]_vars
               PROVE  (\E d \in Datasets : \/ Data!Begin(d) \/ Data!Finish(d)
                                           \/ Data!Leave(d) \/ Data!Remove(d))
                      \/ UNCHANGED <<Amount, Left>>
    BY DEF Data!Next
  <2> DEFINE d == Order[at]
  <2>a. d \in Datasets /\ Datasets \subseteq Things
    BY Apart DEF TypeOK, Datasets
  <2> HIDE DEF d
  <2>1. CASE TestClip \/ Download \/ Train
    BY <2>1, Quiet DEF TestClip, Download, Train, Run
  <2>2. CASE CloneGenerator \/ FetchVoice \/ CloneOpenWakeWord \/ FetchModels
    <3>1. \A e \in Datasets : disk'[e] = disk[e]
      BY <2>2, Apart DEF CloneGenerator, FetchVoice, CloneOpenWakeWord, FetchModels, Put,
         TypeOK
    <3> QED BY <2>2, <3>1, Quiet
         DEF CloneGenerator, FetchVoice, CloneOpenWakeWord, FetchModels, CommandFails
  <2>3. CASE MakeModels
    <3>1. \A e \in Datasets : disk'[e] = disk[e]
      BY <2>3, Apart DEF MakeModels, TypeOK
    <3> QED BY <2>3, <3>1, Quiet DEF MakeModels
  <2>4. CASE ImportGenerator \/ ImportAll
    BY <2>4, Quiet DEF ImportGenerator, ImportAll
  <2>5. ASSUME NEW word \in Words, Speak(word)
        PROVE  UNCHANGED <<Amount, Left>>
    BY <2>5, Quiet DEF Speak
  <2>6. CASE Check
    <3>1. CASE Absent(d)
      <4>1. pc = "dataset" /\ pc' = "fetch" /\ UNCHANGED at
        BY <2>6, <3>1 DEF Check, d
      <4>2. CASE d \in Files
        <5>1. UNCHANGED disk
          BY <2>6, <3>1, <4>2 DEF Check, d
        <5>2. disk[d] # "partial"
          BY <3>1 DEF Absent
        <5> QED BY <4>1, <5>1, <5>2 DEF Amount, Left, d
      <4>3. CASE d \notin Files
        <5>1. Put(d, "partial")
          BY <2>6, <3>1, <4>3 DEF Check, d
        <5> QED BY <2>a, <3>1, <4>1, <5>1, Beginning DEF d
      <4> QED BY <4>2, <4>3
    <3>2. CASE ~Absent(d)
      <4>1. NextDataset /\ UNCHANGED disk /\ pc = "dataset"
        BY <2>6, <3>2 DEF Check, d
      <4>2. pc' # "fetch"
        BY <4>1, Following DEF TypeOK
      <4> QED BY <4>1, <4>2, Quiet
    <3> QED BY <3>1, <3>2
  <2>7. CASE BeginFile
    BY <2>7, <2>a, Beginning DEF BeginFile, d
  <2>8. CASE Fetched
    <3>1. /\ pc = "fetch" /\ disk[d] = "partial" /\ disk'[d] = "whole"
          /\ \A e \in Datasets : e # d => disk'[e] = disk[e]
      BY <2>8, <2>a DEF Fetched, Put, TypeOK, d
    <3>2. pc' # "fetch"
      BY <2>8, Following DEF Fetched, TypeOK
    <3>3. Amount' = [Amount EXCEPT ![d] = "whole"]
      BY <2>a, <3>1 DEF Amount
    <3>4. Left' = Left /\ d \notin Left
      BY <3>1, <3>2 DEF Left, d
    <3>5. Amount[d] = "partial"
      BY <2>a, <3>1 DEF Amount
    <3>6. Data!Finish(d)
      BY <3>3, <3>4, <3>5 DEF Data!Finish
    <3> QED BY <2>a, <3>6
  <2>9. CASE FetchFails \/ Stop \/ Restart
    <3>1. UNCHANGED disk /\ pc' # "fetch"
      BY <2>9, Following DEF FetchFails, Stop, Restart, TypeOK
    <3>2. CASE pc = "fetch"
      BY <2>a, <3>1, <3>2, Leaving DEF d
    <3>3. CASE pc # "fetch"
      BY <3>1, <3>3, Quiet
    <3> QED BY <3>2, <3>3
  <2>10. CASE Configure \/ Prepare("generate", "augment") \/ Prepare("augment", "train")
    BY <2>10, Quiet DEF Configure, Prepare, CommandFails
  <2>11. CASE TrainModel \/ Convert
    BY <2>11, Quiet DEF TrainModel, Convert, CommandFails
  <2>12. ASSUME NEW thing \in Things, Remove(thing)
         PROVE  (\E e \in Datasets : Data!Remove(e)) \/ UNCHANGED <<Amount, Left>>
    <3>1. pc = "idle" /\ UNCHANGED pc /\ disk[thing] # "absent"
      BY <2>12 DEF Remove, Absent
    <3>2. CASE thing \in Datasets
      <4>1. /\ disk'[thing] = "absent"
            /\ \A e \in Datasets : e # thing => disk'[e] = disk[e]
        BY <2>12, <3>2, Apart DEF Remove
      <4>2. Amount' = [Amount EXCEPT ![thing] = "absent"]
        BY <3>2, <4>1 DEF Amount
      <4>3. Left' = Left \ {thing}
        BY <3>1, <3>2, <4>1 DEF Left
      <4>4. Amount[thing] # "absent"
        BY <3>1, <3>2 DEF Amount
      <4> QED BY <3>2, <4>2, <4>3, <4>4 DEF Data!Remove
    <3>3. CASE thing \notin Datasets
      <4>1. \A e \in Datasets : disk'[e] = disk[e]
        BY <2>12, <3>3, Apart DEF Remove
      <4> QED BY <3>1, <4>1, Quiet
    <3> QED BY <3>2, <3>3
  <2>13. CASE UNCHANGED vars
    BY <2>13 DEF vars, Amount, Left
  <2> QED BY <2>1, <2>2, <2>3, <2>4, <2>5, <2>6, <2>7, <2>8, <2>9, <2>10, <2>11, <2>12,
             <2>13 DEF Next
<1> QED BY <1>1, <1>2, TypeCorrect, PTL DEF Spec, DataOnce, Data!Spec

-----------------------------------------------------------------------------
(* The model *)

\* At the conversion the model of the word is of this training, unless a command has failed.
TrainedInv == pc = "convert" /\ target \in Words => onnx[target] = cells \/ failed

\* The model that is converted is the one just trained, unless a command failed.
THEOREM ConvertedCorrect == Spec => ConvertedIsTrained
<1>1. Init => TrainedInv
  BY DEF Init, TrainedInv
<1>2. TypeOK /\ TrainedInv /\ [Next]_vars => TrainedInv'
  <2> SUFFICES ASSUME TypeOK, TrainedInv, [Next]_vars, pc' = "convert", target' \in Words
               PROVE  onnx'[target'] = cells' \/ failed'
    BY DEF TrainedInv
  <2>1. pc' # "convert" \/ TrainModel \/ UNCHANGED vars
    BY Following
       DEF Next, TestClip, CloneGenerator, FetchVoice, ImportGenerator, Speak, Download,
           CloneOpenWakeWord, MakeModels, FetchModels, ImportAll, Check, BeginFile, Fetched,
           FetchFails, Train, Configure, Prepare, Convert, Stop, Restart, Remove, Run,
           CommandFails, TypeOK
  <2>2. CASE TrainModel
    BY <2>2 DEF TrainModel, CommandFails, TypeOK
  <2>3. CASE UNCHANGED vars
    BY <2>3 DEF vars, TrainedInv
  <2> QED BY <2>1, <2>2, <2>3
<1>3. TypeOK /\ TrainedInv /\ [Next]_vars
        => [\A w \in Words : tflite'[w] # tflite[w] => tflite'[w] = cells \/ failed]_vars
  <2> SUFFICES ASSUME TypeOK, TrainedInv, [Next]_vars, ~ UNCHANGED vars,
                      NEW w \in Words, tflite'[w] # tflite[w]
               PROVE  tflite'[w] = cells \/ failed
    OBVIOUS
  <2>1. UNCHANGED tflite \/ Convert
    BY DEF Next, TestClip, CloneGenerator, FetchVoice, ImportGenerator, Speak, Download,
           CloneOpenWakeWord, MakeModels, FetchModels, ImportAll, Check, BeginFile, Fetched,
           FetchFails, Train, Configure, Prepare, TrainModel, Stop, Restart, Remove, Run,
           trained
  <2>2. Convert /\ pc = "convert"
    BY <2>1 DEF Convert
  <2>3. target = w /\ tflite'[w] = onnx[target]
    BY <2>2 DEF Convert, TypeOK
  <2> QED BY <2>2, <2>3 DEF TrainedInv
<1> QED BY <1>1, <1>2, <1>3, TypeCorrect, PTL DEF Spec, ConvertedIsTrained
=============================================================================
