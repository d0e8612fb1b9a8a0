---------------------------- MODULE MemGptAgent ----------------------------
(***************************************************************************)
(* An agent of MemGPT, as far as the two files that this repository         *)
(* overrides decide what happens to it: its messages are annotated when it  *)
(* is loaded, they are sent to a language model, and if they are too long   *)
(* for it the oldest are dropped and the rest is loaded again.  The loop    *)
(* itself is MemGPT's, and external.                                        *)
(***************************************************************************)
EXTENDS ToolCallIds, LlmRequest

vars == <<annotation, requesting>>

TypeOK == AnnotationTypeOK /\ RequestTypeOK

Init == AnnotationInit /\ RequestInit

Ready == Annotated /\ ~raised

Load == Ready /\ step = "idle" /\ Reload(messages) /\ UNCHANGED requesting

\* The agent drops its oldest messages, which may be a call whose response it keeps.
Shorten ==
  /\ Ready
  /\ step = "idle"
  /\ Overflow
  /\ \E n \in 2 .. Len(messages) : Reload(SubSeq(messages, n, Len(messages)))
  /\ outcome' = "none"
  /\ UNCHANGED <<credentials, edits, calls, request, step, retries>>

Next ==
  \/ Annotate /\ UNCHANGED requesting
  \/ Load
  \/ Shorten
  \/ Ready /\ Ask /\ UNCHANGED annotation
  \/ RequestStep /\ UNCHANGED annotation
  \/ EditCredentials /\ UNCHANGED annotation

Spec == Init /\ [][Next]_vars

\* The attempts of a call follow each other: servers answer, or the connection breaks.
Fairness == WF_vars(RequestStep /\ UNCHANGED annotation)

-----------------------------------------------------------------------------

\* Every call of create ends, even if the server answers 429 for ever and the user keeps
\* changing the credentials.
CallEnds == step # "idle" ~> step = "idle"
=============================================================================
