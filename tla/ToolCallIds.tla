----------------------------- MODULE ToolCallIds -----------------------------
(***************************************************************************)
(* annotate_message_json_list_with_tool_calls of MemGPT's utils.py: one     *)
(* pass over a list of messages gives every call of a function an id, and   *)
(* the response to it the same one.  The messages are changed in place, and *)
(* the list is annotated again whenever the agent is loaded.                *)
(***************************************************************************)
EXTENDS Integers, Sequences

CONSTANTS
  MessageLists,   \* what an agent may have stored
  MaxPasses       \* bound on annotations

\* An id says where it is from: it was stored with message i, or pass p gave it to
\* message i.  None: the key is absent, or the buffer None.  Null: the key is there and
\* None.
None == <<"none", 0, 0>>
Null == <<"null", 0, 0>>
Stored(i) == <<"stored", 0, i>>
Fresh(p, i) == <<"fresh", p, i>>
StoredIds == {None, Null} \cup ({"stored"} \X Nat \X Nat)
Ids == StoredIds \cup ({"fresh"} \X Nat \X Nat)

\* role: "call" is an assistant's message with function_call, "calls" one with
\* tool_calls, of which there are n; "missing" has no role.
Roles == {"missing", "user", "call", "function", "calls", "tool"}
Message(role, id, n) == [role |-> role, id |-> id, n |-> n]

ASSUME ListsAssumption ==
  /\ MessageLists \subseteq Seq([role : Roles, id : StoredIds, n : Nat])
  /\ MaxPasses \in Nat \ {0}

VARIABLES
  messages,
  allow,      \* allow_tool_roles
  pass,       \* which annotation of the list this is
  at,         \* i, the message the loop is at
  callId,     \* tool_call_id, the buffer
  callIndex,  \* tool_call_index
  raised      \* an exception ended the pass

annotation == <<messages, allow, pass, at, callId, callIndex, raised>>

AnnotationTypeOK ==
  /\ messages \in Seq([role : Roles, id : Ids, n : Nat])
  /\ allow \in BOOLEAN
  /\ pass \in 1 .. MaxPasses
  /\ at \in 1 .. Len(messages) + 1
  /\ callIndex \in 0 .. at - 1
  /\ callId # None => callIndex # 0 /\ callId = messages[callIndex].id
  /\ raised \in BOOLEAN

AnnotationInit ==
  /\ messages \in MessageLists
  /\ allow \in BOOLEAN
  /\ pass = 1
  /\ at = 1
  /\ callId = None
  /\ callIndex = 0
  /\ raised = FALSE

-----------------------------------------------------------------------------
Annotating == at \in DOMAIN messages /\ ~raised
Annotated == at = Len(messages) + 1
Set(id) == id \notin {None, Null}

Raise ==
  /\ raised' = TRUE
  /\ UNCHANGED <<messages, allow, pass, at, callId, callIndex>>

\* The message has this id, and the loop goes on.
Give(id) ==
  /\ messages' = [messages EXCEPT ![at].id = id]
  /\ at' = at + 1
  /\ UNCHANGED <<allow, pass, raised>>

\* Fault injection: a call gets a new id whether it has one or not.
CallAfresh ==
  /\ Annotating
  /\ messages[at].role \in {"call", "calls"}
  /\ Give(Fresh(pass, at))
  /\ callId' = Fresh(pass, at)
  /\ callIndex' = at

\* A call: its id, or a new one, is kept for the response.
Call ==
  LET m == messages[at]
      id == IF Set(m.id) THEN m.id ELSE Fresh(pass, at)
  IN  /\ Annotating
      /\ m.role \in {"call", "calls"}
      /\ IF m.role = "calls" /\ (~allow \/ m.n # 1) THEN Raise
         ELSE Give(id) /\ callId' = id /\ callIndex' = at

\* The response gets the id of the call, and the buffer is wiped.
Matched ==
  Give(callId) /\ callId' = None /\ UNCHANGED callIndex

\* A response without a call gets an id of its own.
Unmatched ==
  Give(Fresh(pass, at)) /\ UNCHANGED <<callId, callIndex>>

\* A response in the style of functions: annotated already, or not next to its call, it
\* is refused.
FunctionResponse ==
  /\ Annotating
  /\ messages[at].role = "function"
  /\ IF callId = None THEN Unmatched
     ELSE IF messages[at].id # None \/ at # callIndex + 1 THEN Raise
     ELSE Matched

\* Fault injection: an id that a tool's response has is taken for the right one.
ToolResponseTrusted ==
  /\ Annotating
  /\ messages[at].role = "tool"
  /\ IF ~allow THEN Raise
     ELSE IF Set(messages[at].id) THEN Give(messages[at].id) /\ callId' = None /\ UNCHANGED callIndex
     ELSE IF callId = None THEN Unmatched
     ELSE IF at # callIndex + 1 THEN Raise
     ELSE Matched

\* A response in the style of tools: an id that it has already is replaced, wherever
\* the call was.
ToolResponse ==
  /\ Annotating
  /\ messages[at].role = "tool"
  /\ IF ~allow THEN Raise
     ELSE IF callId = None THEN Unmatched
     ELSE IF Set(messages[at].id) THEN Matched
     ELSE IF at # callIndex + 1 THEN Raise
     ELSE Matched

Other ==
  /\ Annotating
  /\ messages[at].role \in {"user", "missing"}
  /\ IF messages[at].role = "missing" THEN Raise
     ELSE Give(messages[at].id) /\ UNCHANGED <<callId, callIndex>>

\* These messages, some of the agent's, are annotated again.
Reload(some) ==
  /\ Annotated
  /\ pass < MaxPasses
  /\ messages' = some
  /\ pass' = pass + 1
  /\ at' = 1
  /\ callId' = None
  /\ callIndex' = 0
  /\ UNCHANGED <<allow, raised>>

Annotate == Call \/ FunctionResponse \/ ToolResponse \/ Other

-----------------------------------------------------------------------------
(* Properties *)

IsCall(i) == messages[i].role \in {"call", "calls"}
IsResponse(i) == messages[i].role \in {"function", "tool"}

\* The call that message i responds to: the last before it, unless that has a response.
Outstanding(i) ==
  {c \in 1 .. (i - 1) : IsCall(c) /\ \A k \in c + 1 .. i - 1 : ~IsCall(k) /\ ~IsResponse(k)}

\* At the end of a pass every response has the id of its call, one without a call an id
\* that nothing else has, and a function's response stands next to its call.
ResponsesMatched ==
  Annotated =>
    \A i \in DOMAIN messages : IsResponse(i) =>
      /\ \A c \in Outstanding(i) :
           /\ messages[i].id = messages[c].id
           /\ messages[i].role = "function" => c = i - 1
      /\ Outstanding(i) = {} =>
           \A k \in DOMAIN messages \ {i} : messages[k].id # messages[i].id

\* Annotated once more, a list changes only in the ids of responses without a call, and
\* is refused only at a function's response: annotation can be repeated for tools only.
SecondPassStable ==
  [][pass > 1 /\ pass' = pass =>
       /\ messages' # messages => IsResponse(at) /\ Outstanding(at) = {}
       /\ raised' # raised => messages[at].role = "function" /\ Outstanding(at) # {}]_annotation

-----------------------------------------------------------------------------
(* The inductive strengthening of ResponsesMatched and SecondPassStable *)

New(id) == id[1] = "fresh" /\ id[2] = pass

\* What a pass leaves message k in, and what the next one finds: no exception is due to
\* it, and a response has the id of its call.
Settled(k) ==
  /\ messages[k].role # "missing"
  /\ IsCall(k) => Set(messages[k].id)
  /\ messages[k].role = "calls" => allow /\ messages[k].n = 1
  /\ messages[k].role = "tool" => allow
  /\ IsResponse(k) => \A c \in Outstanding(k) : messages[k].id = messages[c].id

\* What this pass makes of message k: a new id is given once, but for a call and its
\* response.
Numbered(k) ==
  /\ ~IsResponse(k) /\ New(messages[k].id) => messages[k].id = Fresh(pass, k)
  /\ IsResponse(k) /\ Outstanding(k) = {} => messages[k].id = Fresh(pass, k)
  /\ messages[k].role = "function" => \A c \in Outstanding(k) : c = k - 1

\* The buffer has the call that is waiting for a response, if there is one.
AnnotationInv ==
  /\ callId = None => Outstanding(at) = {}
  /\ callId # None => Outstanding(at) = {callIndex}
  /\ \A k \in DOMAIN messages :
       /\ messages[k].id[1] = "fresh" => messages[k].id[2] <= pass
       /\ k >= at => ~New(messages[k].id)
       /\ k < at => Numbered(k)
       /\ k < at \/ pass > 1 => Settled(k)
=============================================================================
