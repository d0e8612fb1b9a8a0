----------------------------- MODULE LlmRequest -----------------------------
(***************************************************************************)
(* create of MemGPT's llm_api_tools.py, one request to a language model,    *)
(* within retry_with_exponential_backoff.  The credentials are read again   *)
(* by every attempt, so that the user may change them between two.          *)
(***************************************************************************)
EXTENDS Naturals, Sequences

CONSTANTS
  Requests,    \* the configurations there are: a subset of RequestKinds
  MaxRetries,  \* max_retries
  MaxCalls,    \* bound on calls of create
  MaxEdits     \* bound on changes of the credentials

ASSUME BoundsAssumption == MaxRetries \in Nat /\ MaxCalls \in Nat /\ MaxEdits \in Nat

VARIABLES
  credentials, \* what the credentials file has of the keys
  edits,
  calls,
  request,     \* the configuration of the model, and how create is called
  step,        \* "idle", "create", "sent" or "sleep"
  retries,     \* num_retries
  outcome      \* what create returned or raised

requesting == <<credentials, edits, calls, request, step, retries, outcome>>

Providers == {"openai", "azure", "google_ai", "anthropic", "cohere", "local"}

RequestKinds ==
  [provider : Providers,
   official : BOOLEAN,      \* the endpoint is OpenAI's own
   knownModel : BOOLEAN,    \* MODEL_TO_AZURE_ENGINE has the model
   tools : BOOLEAN,         \* use_tool_naming
   stream : BOOLEAN,
   interface : BOOLEAN]     \* stream_inferface is of a class that can stream

\* How the exception that ends a call looks to is_context_overflow_error: the text of the
\* exception, or the JSON that the server sent.
Errors ==
  {"text names the maximum", "code", "message names the maximum", "other message",
   "no error field", "error is a text", "not JSON", "no JSON announced"}

Outcomes ==
  {"none", "response", "ValueError", "NotImplementedError", "AssertionError", "KeyError",
   "retries exceeded", "connection"} \cup Errors

RequestTypeOK ==
  /\ credentials \in [openai : BOOLEAN, deployment : BOOLEAN]
  /\ edits \in 0 .. MaxEdits
  /\ calls \in 0 .. MaxCalls
  /\ request \in Requests
  /\ step \in {"idle", "create", "sent", "sleep"}
  /\ retries \in 0 .. MaxRetries
  /\ outcome \in Outcomes
  /\ step # "idle" => outcome = "none"

RequestInit ==
  /\ credentials \in [openai : BOOLEAN, deployment : BOOLEAN]
  /\ edits = 0
  /\ calls = 0
  /\ request \in Requests
  /\ step = "idle"
  /\ retries = 0
  /\ outcome = "none"

EditCredentials ==
  /\ edits < MaxEdits
  /\ edits' = edits + 1
  /\ credentials' \in [openai : BOOLEAN, deployment : BOOLEAN] \ {credentials}
  /\ UNCHANGED <<calls, request, step, retries, outcome>>

-----------------------------------------------------------------------------
End(how) == step' = "idle" /\ outcome' = how

Ask ==
  /\ step = "idle"
  /\ calls < MaxCalls
  /\ calls' = calls + 1
  /\ step' = "create"
  /\ retries' = 0
  /\ outcome' = "none"
  /\ UNCHANGED <<credentials, edits, request>>

Missing(key) == ~credentials[key]

\* What create raises before it sends anything: for each group of providers the exceptions
\* there are, in the order of the code.
OpenAiRefusals ==
  (IF request.official /\ Missing("openai") THEN <<"ValueError">> ELSE <<>>)
    \o (IF request.stream /\ ~request.interface THEN <<"AssertionError">> ELSE <<>>)

AzureRefusals == IF Missing("deployment") /\ ~request.knownModel THEN <<"KeyError">> ELSE <<>>

ToolsOnlyRefusals == IF request.tools THEN <<>> ELSE <<"NotImplementedError">>

Refusals ==
  CASE request.provider = "openai" -> OpenAiRefusals
    [] request.provider = "azure" -> AzureRefusals
    [] request.provider = "local" -> <<>>
    [] OTHER -> ToolsOnlyRefusals

Create ==
  /\ step = "create"
  /\ IF Refusals = <<>> THEN step' = "sent" /\ UNCHANGED outcome ELSE End(Refusals[1])
  /\ UNCHANGED <<credentials, edits, calls, request, retries>>

Answered ==
  /\ step = "sent"
  /\ \E how \in Errors \cup {"response", "connection"} : End(how)
  /\ UNCHANGED <<credentials, edits, calls, request, retries>>

\* Fault injection: the retries are counted anew by every attempt.
RateLimitedAnew ==
  /\ step = "sent"
  /\ retries' = IF MaxRetries = 0 THEN 0 ELSE 1
  /\ step' = "sleep"
  /\ UNCHANGED <<credentials, edits, calls, request, outcome>>

\* Fault injection: the number of retries is not looked at.
RateLimitedForever ==
  /\ step = "sent"
  /\ retries' = retries + 1
  /\ step' = "sleep"
  /\ UNCHANGED <<credentials, edits, calls, request, outcome>>

\* Status 429, which alone is tried again, at most MaxRetries times.
RateLimited ==
  /\ step = "sent"
  /\ IF retries = MaxRetries THEN UNCHANGED retries /\ End("retries exceeded")
     ELSE retries' = retries + 1 /\ step' = "sleep" /\ UNCHANGED outcome
  /\ UNCHANGED <<credentials, edits, calls, request>>

\* The delay, which at least doubles every time, is over.
Wake ==
  /\ step = "sleep"
  /\ step' = "create"
  /\ UNCHANGED <<credentials, edits, calls, request, retries, outcome>>

RequestStep == Create \/ Answered \/ RateLimited \/ Wake

\* is_context_overflow_error of the exception.  An error that is a text instead of an
\* object raises an AttributeError of its own, and counts as no overflow.
Overflow == outcome \in {"text names the maximum", "code", "message names the maximum"}

=============================================================================
