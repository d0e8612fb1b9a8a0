---------------------------- MODULE PromptBudget ----------------------------
(***************************************************************************)
(* How classify_document keeps its request within the context of the        *)
(* model: lengths only, in characters, which is what the code measures.     *)
(* The prompt quotes every name Paperless knows, so it grows over the years *)
(* while the context of the model does not.                                 *)
(***************************************************************************)
EXTENDS Integers

CONSTANTS
  MaxContext,  \* max_context_tokens
  BasePrompt,  \* length of the prompt without any name
  NameLength,  \* most that a new name adds to the prompt
  MaxPrompt,   \* bound on the length of the prompt
  MaxText      \* bound on the length of a document

ASSUME BudgetAssumption ==
  /\ {MaxContext, BasePrompt, MaxPrompt, MaxText} \subseteq Nat
  /\ NameLength \in Nat \ {0}
  /\ BasePrompt <= MaxPrompt

VARIABLES
  prompt,  \* length of prompt_text
  document,\* length of the document of the last request
  sent     \* length of the text of the last request, 0 before the first

promptVars == <<prompt, document, sent>>

Least(a, b) == IF a <= b THEN a ELSE b

\* Length of the slice s[:k] of a string of length n, for a negative k too.
SliceLength(n, k) ==
  IF k >= 0 THEN Least(n, k)
  ELSE IF n + k >= 0 THEN n + k ELSE 0

Separator == 2  \* two newlines
Safety == 10    \* "Extra space for safety"

\* Fault injection: the separator and the prompt are forgotten in the comparison.
TextOnlyCompared(length) ==
  IF length > MaxContext THEN SliceLength(length, MaxContext - prompt - Safety) ELSE length

TruncatedLength(length) ==
  IF length + Separator + prompt > MaxContext
  THEN SliceLength(length, MaxContext - prompt - Safety)
  ELSE length

PromptTypeOK ==
  /\ prompt \in BasePrompt .. MaxPrompt
  /\ document \in 0 .. MaxText
  /\ sent \in 0 .. MaxText + Separator + MaxPrompt

PromptInit == prompt = BasePrompt /\ document = 0 /\ sent = 0

\* A user adds a tag, a correspondent or a document type.
AddName ==
  /\ prompt' \in prompt + 1 .. prompt + NameLength
  /\ prompt' <= MaxPrompt
  /\ UNCHANGED <<document, sent>>

\* classify_document builds its request for a document that has some text.
Request ==
  /\ document' \in 1 .. MaxText
  /\ sent' = TruncatedLength(document') + Separator + prompt
  /\ UNCHANGED prompt

PromptNext == AddName \/ Request

PromptSpec == PromptInit /\ [][PromptNext]_promptVars

-----------------------------------------------------------------------------

\* "Ensure the total prompt does not exceed the max context tokens": as long as the names leave
\* room for the safety margin, no request is too long; and a document is cut only if it does not
\* fit, in which case the request uses the context up to the safety margin.
FitsWithRoom ==
  [][Request /\ prompt + Safety <= MaxContext =>
       /\ sent' <= MaxContext
       /\ sent' < document' + Separator + prompt =>
            /\ document' + Separator + prompt > MaxContext
            /\ sent' >= MaxContext - Safety]_promptVars
=============================================================================
