---------------------------- MODULE MCModelText ----------------------------
(* What openai.py does with text on the way to the language model, and on the way back: *)
(* two algorithms that share no state, each of which moves while the other stands at its *)
(* beginning.                                                                            *)
EXTENDS PromptBudget, JsonExtract

NothingAsked == prompt = BasePrompt /\ sent = 0
NothingRead == answer = <<>> /\ pc = "isolate"

MCInit == PromptInit /\ ScanInit
MCNext ==
  \/ NothingRead /\ PromptNext /\ UNCHANGED scanVars
  \/ NothingAsked /\ ScanNext /\ UNCHANGED promptVars
=============================================================================
