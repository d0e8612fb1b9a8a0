-------------------------- MODULE MemGptAgentProofs --------------------------
(***************************************************************************)
(* The agent for lists of any length, any number of annotations and of      *)
(* calls: its types, and what an annotation makes of a list.                *)
(***************************************************************************)
EXTENDS MemGptAgent, TLAPS

Messages == [role : Roles, id : Ids, n : Nat]

\* Ids that differ in where they are from are different.
LEMMA IdsApart ==
  /\ None \in Ids /\ Null \in Ids /\ StoredIds \subseteq Ids
  /\ None[1] # "fresh" /\ Null[1] # "fresh"
  /\ \A id \in StoredIds : id[1] # "fresh"
  /\ \A p, i \in Nat : /\ Fresh(p, i) \in Ids /\ Set(Fresh(p, i))
                       /\ Fresh(p, i)[1] = "fresh" /\ Fresh(p, i)[2] = p
                       /\ \A j \in Nat : Fresh(p, i) = Fresh(p, j) => i = j
BY DEF None, Null, StoredIds, Ids, Fresh, Set

\* Lists of messages with stored ids are lists of messages.
LEMMA SeqOfSubset ==
  ASSUME NEW S, NEW T, S \subseteq T, NEW s \in Seq(S)
  PROVE  s \in Seq(T)
<1>1. \A k \in 1 .. Len(s) : s[k] \in T
  OBVIOUS
<1>2. s = [k \in 1 .. Len(s) |-> s[k]] /\ Len(s) \in Nat
  OBVIOUS
<1> QED BY <1>1, <1>2

\* What one iteration of the loop leaves alone.
LEMMA GiveFacts ==
  ASSUME AnnotationTypeOK, Annotating, NEW id \in Ids, Give(id)
  PROVE  /\ messages' \in Seq(Messages)
         /\ Len(messages') = Len(messages) /\ DOMAIN messages' = DOMAIN messages
         /\ \A k \in DOMAIN messages : /\ messages'[k].role = messages[k].role
                                       /\ messages'[k].n = messages[k].n
                                       /\ k # at => messages'[k] = messages[k]
         /\ messages'[at].id = id
         /\ at \in DOMAIN messages /\ DOMAIN messages = 1 .. Len(messages)
         /\ at' = at + 1 /\ allow' = allow /\ pass' = pass /\ raised' = raised
<1>1. messages \in Seq(Messages) /\ at \in DOMAIN messages
  BY DEF AnnotationTypeOK, Annotating, Messages
<1>2. messages[at] \in Messages
  BY <1>1
<1>3. [messages[at] EXCEPT !.id = id] \in Messages
  BY <1>2 DEF Messages
<1>4. messages' = [messages EXCEPT ![at] = [messages[at] EXCEPT !.id = id]]
  BY DEF Give
<1>5. messages' \in Seq(Messages) /\ Len(messages') = Len(messages)
  BY <1>1, <1>3, <1>4
<1>6. messages'[at] = [messages[at] EXCEPT !.id = id]
  BY <1>1, <1>4
<1>7. /\ messages'[at].role = messages[at].role /\ messages'[at].n = messages[at].n
      /\ messages'[at].id = id
  BY <1>2, <1>6 DEF Messages
<1> QED BY <1>1, <1>4, <1>5, <1>7 DEF Give

\* A message that is given the id it has stays as it is.
LEMMA GiveSame ==
  ASSUME AnnotationTypeOK, Annotating, Give(messages[at].id)
  PROVE  messages' = messages
<1>1. messages \in Seq(Messages) /\ at \in DOMAIN messages
  BY DEF AnnotationTypeOK, Annotating, Messages
<1>2. messages[at] \in Messages
  BY <1>1
<1>3. [messages[at] EXCEPT !.id = messages[at].id] = messages[at]
  BY <1>2 DEF Messages
<1>4. messages' = [messages EXCEPT ![at] = messages[at]]
  BY <1>3 DEF Give
<1> QED BY <1>1, <1>4

\* The type of the buffer is that of an id.
LEMMA BufferType ==
  ASSUME AnnotationTypeOK
  PROVE  /\ callId \in Ids /\ at \in Nat \ {0} /\ pass \in Nat \ {0} /\ callIndex \in Nat
         /\ callIndex < at
         /\ callId # None => callIndex \in DOMAIN messages
<1>1. messages \in Seq(Messages) /\ at \in 1 .. Len(messages) + 1 /\ callIndex \in 0 .. at - 1
  BY DEF AnnotationTypeOK, Messages
<1>2. callId # None => callIndex \in 1 .. Len(messages)
  BY <1>1 DEF AnnotationTypeOK
<1>3. callId # None => callId \in Ids
  <2> SUFFICES ASSUME callId # None PROVE callId \in Ids
    OBVIOUS
  <2>1. messages[callIndex] \in Messages
    BY <1>1, <1>2
  <2> QED BY <2>1 DEF AnnotationTypeOK, Messages
<1> QED BY <1>1, <1>2, <1>3, IdsApart, ListsAssumption DEF AnnotationTypeOK, ListsAssumption

\* Which call a message responds to is a matter of roles, which no iteration changes.
LEMMA SameRoles ==
  ASSUME AnnotationTypeOK, Annotating, NEW id \in Ids, Give(id)
  PROVE  \A k \in 1 .. Len(messages) + 1 :
           /\ Outstanding(k)' = Outstanding(k)
           /\ k \in DOMAIN messages => IsCall(k)' = IsCall(k) /\ IsResponse(k)' = IsResponse(k)
<1>1. messages \in Seq(Messages) /\ DOMAIN messages = 1 .. Len(messages)
  BY DEF AnnotationTypeOK, Messages
<1>2. \A k \in DOMAIN messages : messages'[k].role = messages[k].role
  BY GiveFacts
<1>3. \A k \in DOMAIN messages : (IsCall(k)' <=> IsCall(k)) /\ (IsResponse(k)' <=> IsResponse(k))
  BY <1>2 DEF IsCall, IsResponse
<1>4. ASSUME NEW k \in 1 .. Len(messages) + 1 PROVE Outstanding(k)' = Outstanding(k)
  <2>1. \A c \in 1 .. k - 1 : \A j \in c + 1 .. k - 1 : c \in DOMAIN messages /\ j \in DOMAIN messages
    BY <1>1
  <2>2. \A c \in 1 .. k - 1 : c \in DOMAIN messages
    BY <1>1
  <2>3. ASSUME NEW c
        PROVE  c \in Outstanding(k)' <=> c \in Outstanding(k)
    BY <2>1, <2>2, <1>3 DEF Outstanding
  <2> QED BY <2>3 DEF Outstanding
<1> QED BY <1>2, <1>4 DEF IsCall, IsResponse

\* Which call is waiting for a response after message k.
LEMMA NextOutstanding ==
  ASSUME AnnotationTypeOK, NEW k \in DOMAIN messages
  PROVE  /\ IsCall(k) => Outstanding(k + 1) = {k}
         /\ IsResponse(k) => Outstanding(k + 1) = {}
         /\ ~IsCall(k) /\ ~IsResponse(k) => Outstanding(k + 1) = Outstanding(k)
<1>1. k \in Nat \ {0}
  BY DEF AnnotationTypeOK
<1>2. ~(IsCall(k) /\ IsResponse(k))
  BY DEF IsCall, IsResponse
<1>3. ASSUME NEW c \in 1 .. k - 1
      PROVE  /\ k \in c + 1 .. k + 1 - 1
             /\ c + 1 .. k + 1 - 1 = (c + 1 .. k - 1) \cup {k}
  BY <1>1
<1>4. ASSUME NEW c
      PROVE  c \in Outstanding(k + 1) <=>
               \/ c = k /\ IsCall(k)
               \/ c \in Outstanding(k) /\ ~IsCall(k) /\ ~IsResponse(k)
  <2>1. CASE c \in 1 .. k - 1
    BY <2>1, <1>1, <1>3 DEF Outstanding
  <2>2. CASE c = k
    BY <2>2, <1>1 DEF Outstanding
  <2>3. CASE c \notin 1 .. k
    BY <2>3, <1>1 DEF Outstanding
  <2> QED BY <1>1, <2>1, <2>2, <2>3
<1>5. \A c \in Outstanding(k) : c < k
  BY <1>1 DEF Outstanding
<1> QED BY <1>2, <1>4, <1>5

\* A message that is waiting for a response is a call before it.
LEMMA OutstandingIsCall ==
  ASSUME AnnotationTypeOK, NEW k \in 1 .. Len(messages) + 1, NEW c \in Outstanding(k)
  PROVE  c \in DOMAIN messages /\ c < k /\ IsCall(c) /\ ~IsResponse(c)
<1>1. c \in 1 .. k - 1 /\ IsCall(c)
  BY DEF Outstanding
<1>2. Len(messages) \in Nat /\ DOMAIN messages = 1 .. Len(messages)
  BY DEF AnnotationTypeOK
<1> QED BY <1>1, <1>2 DEF IsCall, IsResponse
-----------------------------------------------------------------------------
(* Types *)

\* An iteration keeps the types, if the buffer that it leaves is the id of a message.
LEMMA GiveType ==
  ASSUME AnnotationTypeOK, Annotating, NEW id \in Ids, Give(id),
         callIndex' \in 0 .. at,
         callId' # None => callIndex' # 0 /\ callId' = messages'[callIndex'].id
  PROVE  AnnotationTypeOK'
<1>1. /\ messages' \in Seq([role : Roles, id : Ids, n : Nat])
      /\ Len(messages') = Len(messages) /\ at \in 1 .. Len(messages)
      /\ at' = at + 1 /\ allow' = allow /\ pass' = pass /\ raised' = raised
  BY GiveFacts DEF Messages
<1>2. at' \in 1 .. Len(messages') + 1 /\ callIndex' \in 0 .. at' - 1
  BY <1>1 DEF AnnotationTypeOK
<1> QED BY <1>1, <1>2 DEF AnnotationTypeOK

\* The buffer, if it is left alone, still is the id of its message.
LEMMA BufferKept ==
  ASSUME AnnotationTypeOK, Annotating, NEW id \in Ids, Give(id),
         UNCHANGED <<callId, callIndex>>
  PROVE  /\ callIndex' \in 0 .. at
         /\ callId' # None => callIndex' # 0 /\ callId' = messages'[callIndex'].id
<1>1. callIndex \in 0 .. at - 1 /\ at \in Nat /\ callIndex # at
  BY BufferType DEF AnnotationTypeOK
<1>2. callId # None => messages'[callIndex] = messages[callIndex]
  BY <1>1, BufferType, GiveFacts
<1> QED BY <1>1, <1>2 DEF AnnotationTypeOK

\* Raising an exception changes nothing else.
LEMMA RaiseType ==
  ASSUME AnnotationTypeOK, Raise
  PROVE  AnnotationTypeOK'
BY DEF Raise, AnnotationTypeOK

\* Every iteration of the loop keeps the types.
LEMMA AnnotateType ==
  ASSUME AnnotationTypeOK, Annotate
  PROVE  AnnotationTypeOK'
<1>1. messages \in Seq(Messages) /\ callId \in Ids /\ pass \in Nat /\ at \in Nat
  BY BufferType DEF AnnotationTypeOK, Messages
<1>2. Fresh(pass, at) \in Ids
  BY <1>1, IdsApart
<1>3. Annotating
  BY DEF Annotate, Call, FunctionResponse, ToolResponse, Other
<1>4. messages[at].id \in Ids
  <2>1. messages[at] \in Messages
    BY <1>1, <1>3 DEF Annotating
  <2> QED BY <2>1 DEF Messages
<1>5. ASSUME Unmatched PROVE AnnotationTypeOK'
  BY <1>2, <1>3, <1>5, BufferKept, GiveType DEF Unmatched
<1>6. ASSUME Matched PROVE AnnotationTypeOK'
  <2>1. callIndex' \in 0 .. at
    BY <1>1, <1>6 DEF Matched, AnnotationTypeOK
  <2> QED BY <1>1, <1>3, <1>6, <2>1, GiveType DEF Matched
<1>7. CASE Call
  <2>1. CASE Raise
    BY <2>1, RaiseType
  <2>2. CASE ~Raise
    <3> DEFINE id == IF Set(messages[at].id) THEN messages[at].id ELSE Fresh(pass, at)
    <3>1. Give(id) /\ callId' = id /\ callIndex' = at /\ id \in Ids
      BY <1>2, <1>4, <1>7, <2>2 DEF Call
    <3>2. messages'[at].id = id /\ at \in Nat \ {0}
      BY <1>3, <3>1, GiveFacts, BufferType
    <3> HIDE DEF id
    <3> QED BY <1>3, <3>1, <3>2, GiveType
  <2> QED BY <2>1, <2>2
<1>8. CASE FunctionResponse
  BY <1>5, <1>6, <1>8, RaiseType DEF FunctionResponse
<1>9. CASE ToolResponse
  BY <1>5, <1>6, <1>9, RaiseType DEF ToolResponse
<1>10. CASE Other
  <2>1. CASE Raise
    BY <2>1, RaiseType
  <2>2. CASE ~Raise
    BY <1>3, <1>4, <1>10, <2>2, BufferKept, GiveType DEF Other
  <2> QED BY <2>1, <2>2
<1> QED BY <1>7, <1>8, <1>9, <1>10 DEF Annotate

\* A list is loaded: the old one, or an end of it.
LEMMA ReloadType ==
  ASSUME AnnotationTypeOK, NEW some \in Seq(Messages), Reload(some)
  PROVE  AnnotationTypeOK'
<1>1. pass' \in 1 .. MaxPasses
  BY ListsAssumption DEF Reload, AnnotationTypeOK, ListsAssumption
<1>2. at' \in 1 .. Len(messages') + 1 /\ callIndex' \in 0 .. at' - 1
  <2>1. Len(some) \in Nat
    OBVIOUS
  <2> QED BY <2>1 DEF Reload
<1> QED BY <1>1, <1>2 DEF Reload, AnnotationTypeOK, Messages

LEMMA EndType ==
  ASSUME AnnotationTypeOK, NEW n \in 2 .. Len(messages)
  PROVE  /\ SubSeq(messages, n, Len(messages)) \in Seq(Messages)
         /\ Len(SubSeq(messages, n, Len(messages))) = Len(messages) - (n - 1)
         /\ \A k \in 1 .. Len(messages) - (n - 1) :
              SubSeq(messages, n, Len(messages))[k] = messages[k + (n - 1)]
<1>1. messages \in Seq(Messages)
  BY DEF AnnotationTypeOK, Messages
<1> QED BY <1>1
-----------------------------------------------------------------------------
(* The annotation *)

\* An iteration that gives message `at` an id keeps the invariant, if the message is as
\* it has to be, and if it changes at most a response without a call when annotated again.
LEMMA GiveKeeps ==
  ASSUME AnnotationTypeOK, AnnotationInv, Annotating, NEW id \in Ids, Give(id),
         NEW i \in Nat, i = at,
         id[1] = "fresh" => id[2] <= pass,
         Settled(i)', Numbered(i)',
         pass > 1 /\ IsCall(at) => id = messages[at].id,
         callId' = None => Outstanding(i + 1) = {},
         callId' # None => Outstanding(i + 1) = {callIndex'}
  PROVE  AnnotationInv'
<1>1. /\ DOMAIN messages' = DOMAIN messages /\ messages'[at].id = id
      /\ \A k \in DOMAIN messages : k # at => messages'[k] = messages[k]
      /\ at \in DOMAIN messages /\ DOMAIN messages = 1 .. Len(messages)
      /\ at' = at + 1 /\ allow' = allow /\ pass' = pass
  BY GiveFacts
<1>2. Len(messages) \in Nat /\ at \in Nat
  BY BufferType DEF AnnotationTypeOK
<1>3. \A k \in 1 .. Len(messages) + 1 : Outstanding(k)' = Outstanding(k)
  BY SameRoles
<1>4. \A k \in DOMAIN messages : IsCall(k)' = IsCall(k) /\ IsResponse(k)' = IsResponse(k)
  BY <1>1, SameRoles
<1>5. Outstanding(at)' = Outstanding(i + 1)
  <2>1. at' = i + 1 /\ i + 1 \in 1 .. Len(messages) + 1
    BY <1>1, <1>2
  <2>2. Outstanding(at)' = Outstanding(i + 1)'
    BY <2>1 DEF Outstanding
  <2> QED BY <1>3, <2>1, <2>2
<1>6. ASSUME NEW k \in DOMAIN messages', k # at
      PROVE  /\ messages'[k].id[1] = "fresh" => messages'[k].id[2] <= pass'
             /\ k >= at' => ~New(messages[k].id)'
             /\ k < at' => Numbered(k)'
             /\ k < at' \/ pass' > 1 => Settled(k)'
  <2>1. k \in DOMAIN messages /\ messages'[k] = messages[k] /\ k \in 1 .. Len(messages)
    BY <1>1, <1>6
  <2>2. /\ messages[k].id[1] = "fresh" => messages[k].id[2] <= pass
        /\ k >= at => ~New(messages[k].id)
        /\ k < at => Numbered(k)
        /\ k < at \/ pass > 1 => Settled(k)
    BY <2>1 DEF AnnotationInv
  <2>3. Outstanding(k)' = Outstanding(k) /\ IsCall(k)' = IsCall(k) /\ IsResponse(k)' = IsResponse(k)
    BY <1>2, <1>3, <1>4, <2>1
  <2>4. Numbered(k) => Numbered(k)'
    BY <1>1, <2>1, <2>3 DEF Numbered, New, Fresh
  <2>5. ASSUME Settled(k), k < at \/ pass > 1 PROVE Settled(k)'
    <3>1. \A c \in Outstanding(k) : messages'[c].id = messages[c].id
      <4> SUFFICES ASSUME NEW c \in Outstanding(k) PROVE messages'[c].id = messages[c].id
        OBVIOUS
      <4>1. c \in DOMAIN messages /\ c < k /\ IsCall(c)
        BY <1>2, <2>1, OutstandingIsCall
      <4>2. CASE c = at
        BY <1>1, <1>2, <2>1, <2>5, <4>1, <4>2
      <4>3. CASE c # at
        BY <1>1, <4>1, <4>3
      <4> QED BY <4>2, <4>3
    <3> QED BY <1>1, <2>1, <2>3, <2>5, <3>1 DEF Settled, Set
  <2>6. k < at' <=> k < at
    BY <1>1, <1>2, <1>6, <2>1
  <2>7. k >= at' => k >= at
    BY <1>1, <1>2, <2>1
  <2> QED BY <1>1, <2>1, <2>2, <2>4, <2>5, <2>6, <2>7 DEF New
<1>7. ASSUME NEW k \in DOMAIN messages', k = at
      PROVE  /\ messages'[k].id[1] = "fresh" => messages'[k].id[2] <= pass'
             /\ k >= at' => ~New(messages[k].id)'
             /\ k < at' => Numbered(k)'
             /\ k < at' \/ pass' > 1 => Settled(k)'
  BY <1>1, <1>2, <1>7
<1>8. callId' = None => Outstanding(at)' = {}
  BY <1>5
<1>9. callId' # None => Outstanding(at)' = {callIndex'}
  BY <1>5
<1> QED BY <1>6, <1>7, <1>8, <1>9 DEF AnnotationInv

\* A call is the one that waits from here on.
LEMMA CallKeeps ==
  ASSUME AnnotationTypeOK, AnnotationInv, Call, ~Raise
  PROVE  AnnotationInv'
<1> DEFINE id == IF Set(messages[at].id) THEN messages[at].id ELSE Fresh(pass, at)
<1>1. /\ Annotating /\ Give(id) /\ callId' = id /\ callIndex' = at
      /\ messages[at].role \in {"call", "calls"}
      /\ messages[at].role = "calls" => allow /\ messages[at].n = 1
  BY DEF Call
<1>2. /\ at \in Nat /\ pass \in Nat /\ messages \in Seq(Messages) /\ at \in DOMAIN messages
      /\ messages[at] \in Messages
  <2>1. /\ at \in Nat /\ pass \in Nat /\ messages \in Seq(Messages) /\ at \in DOMAIN messages
    BY <1>1, BufferType DEF AnnotationTypeOK, Messages, Annotating
  <2> QED BY <2>1
<1>3. id \in Ids /\ Set(id)
  BY <1>2, IdsApart DEF Messages
<1>4. /\ messages[at].id[1] = "fresh" => messages[at].id[2] <= pass
      /\ ~New(messages[at].id)
      /\ pass > 1 => Settled(at)
  BY <1>2 DEF AnnotationInv
<1>5. id[1] = "fresh" => id[2] <= pass
  <2>1. Fresh(pass, at)[2] = pass
    BY DEF Fresh
  <2>2. pass <= pass
    BY <1>2
  <2> QED BY <1>4, <2>1, <2>2
<1>6. New(id) => id = Fresh(pass, at)
  BY <1>4
<1>7. pass > 1 /\ IsCall(at) => id = messages[at].id
  BY <1>4 DEF Settled
<1> HIDE DEF id
<1>8. PICK i \in Nat : i = at
  BY <1>2
<1>9. /\ messages'[i].role = messages[i].role /\ messages'[i].n = messages[i].n
      /\ messages'[i].id = id /\ allow' = allow /\ pass' = pass
  BY <1>1, <1>2, <1>3, <1>8, GiveFacts
<1>10. Settled(i)'
  BY <1>1, <1>3, <1>8, <1>9 DEF Settled, IsCall, IsResponse, Set
<1>11. Numbered(i)'
  BY <1>1, <1>6, <1>8, <1>9 DEF Numbered, IsResponse, New, Fresh
<1>12. Outstanding(i + 1) = {i}
  BY <1>1, <1>2, <1>8, NextOutstanding DEF IsCall
<1>13. callId' # None /\ callIndex' = i
  BY <1>1, <1>3, <1>8 DEF Set
<1> QED BY <1>1, <1>3, <1>5, <1>7, <1>8, <1>10, <1>11, <1>12, <1>13, GiveKeeps

\* A response that no call waits for.
LEMMA UnmatchedKeeps ==
  ASSUME AnnotationTypeOK, AnnotationInv, Annotating, IsResponse(at), callId = None,
         messages[at].role = "tool" => allow, Unmatched
  PROVE  AnnotationInv'
<1>1. at \in Nat /\ pass \in Nat /\ at \in DOMAIN messages /\ at \in 1 .. Len(messages) + 1
  BY BufferType DEF AnnotationTypeOK, Annotating
<1> DEFINE id == Fresh(pass, at)
<1>2. id \in Ids /\ id[1] = "fresh" /\ id[2] = pass /\ Give(id)
  BY <1>1, IdsApart DEF Unmatched
<1>3. Outstanding(at) = {} /\ ~IsCall(at)
  BY DEF AnnotationInv, IsCall, IsResponse
<1>4. PICK i \in Nat : i = at
  BY <1>1
<1>5. /\ messages'[i].role = messages[i].role /\ messages'[i].id = id
      /\ allow' = allow /\ pass' = pass /\ Outstanding(i)' = {} /\ IsResponse(i)' /\ ~IsCall(i)'
  BY <1>1, <1>2, <1>3, <1>4, GiveFacts, SameRoles DEF IsCall, IsResponse
<1>6. Settled(i)'
  BY <1>4, <1>5 DEF Settled, IsResponse
<1>7. Numbered(i)'
  BY <1>4, <1>5 DEF Numbered, Fresh
<1>8. Outstanding(i + 1) = {} /\ callId' = None
  BY <1>1, <1>4, NextOutstanding DEF Unmatched
<1>9. id[1] = "fresh" => id[2] <= pass
  BY <1>1, <1>2
<1> QED BY <1>2, <1>3, <1>4, <1>6, <1>7, <1>8, <1>9, GiveKeeps

\* A response to the call in the buffer.
LEMMA MatchedKeeps ==
  ASSUME AnnotationTypeOK, AnnotationInv, Annotating, IsResponse(at), callId # None,
         messages[at].role = "tool" => allow,
         messages[at].role = "function" => at = callIndex + 1, Matched
  PROVE  AnnotationInv'
<1>1. /\ at \in Nat /\ at \in DOMAIN messages /\ at \in 1 .. Len(messages) + 1
      /\ callIndex \in DOMAIN messages /\ callIndex \in Nat /\ callIndex < at /\ callId \in Ids
      /\ callId = messages[callIndex].id
  BY BufferType DEF AnnotationTypeOK, Annotating
<1>2. Outstanding(at) = {callIndex} /\ ~IsCall(at)
  BY DEF AnnotationInv, IsCall, IsResponse
<1>3. callId[1] = "fresh" => callId[2] <= pass
  BY <1>1 DEF AnnotationInv
<1>4. PICK i \in Nat, c \in Nat : i = at /\ c = callIndex
  BY <1>1
<1>5. Give(callId)
  BY DEF Matched
<1>6. /\ messages'[i].role = messages[i].role /\ messages'[i].id = callId
      /\ messages'[c] = messages[c] /\ allow' = allow /\ pass' = pass
      /\ Outstanding(i)' = {c} /\ IsResponse(i)' /\ ~IsCall(i)'
  BY <1>1, <1>2, <1>4, <1>5, GiveFacts, SameRoles DEF IsCall, IsResponse
<1>7. Settled(i)'
  BY <1>1, <1>4, <1>6 DEF Settled, IsResponse
<1>8. Numbered(i)'
  BY <1>1, <1>4, <1>6 DEF Numbered
<1>9. Outstanding(i + 1) = {} /\ callId' = None
  BY <1>1, <1>4, NextOutstanding DEF Matched
<1> QED BY <1>1, <1>2, <1>3, <1>4, <1>5, <1>7, <1>8, <1>9, GiveKeeps

\* A message that is neither.
LEMMA OtherKeeps ==
  ASSUME AnnotationTypeOK, AnnotationInv, Other, ~Raise
  PROVE  AnnotationInv'
<1> DEFINE id == messages[at].id
<1>1. Annotating /\ Give(id) /\ messages[at].role = "user" /\ UNCHANGED <<callId, callIndex>>
  BY DEF Other
<1>2. /\ at \in Nat /\ at \in DOMAIN messages /\ at \in 1 .. Len(messages) + 1
      /\ messages[at] \in Messages
  <2>1. messages \in Seq(Messages) /\ at \in DOMAIN messages
    BY <1>1 DEF AnnotationTypeOK, Messages, Annotating
  <2> QED BY <2>1, BufferType DEF AnnotationTypeOK
<1>3. id \in Ids /\ ~IsCall(at) /\ ~IsResponse(at)
  BY <1>1, <1>2 DEF Messages, IsCall, IsResponse
<1>4. (id[1] = "fresh" => id[2] <= pass) /\ ~New(id)
  BY <1>2 DEF AnnotationInv
<1>5. PICK i \in Nat : i = at
  BY <1>2
<1> HIDE DEF id
<1>6. /\ messages'[i].role = "user" /\ messages'[i].id = id
      /\ allow' = allow /\ pass' = pass
  BY <1>1, <1>2, <1>3, <1>5, GiveFacts
<1>7. Settled(i)'
  BY <1>6 DEF Settled, IsCall, IsResponse
<1>8. Numbered(i)'
  BY <1>4, <1>6 DEF Numbered, IsResponse, New
<1>9. Outstanding(i + 1) = Outstanding(at)
  BY <1>2, <1>3, <1>5, NextOutstanding
<1>10. (callId' = None => Outstanding(i + 1) = {}) /\ (callId' # None => Outstanding(i + 1) = {callIndex'})
  BY <1>1, <1>9 DEF AnnotationInv
<1> QED BY <1>1, <1>3, <1>4, <1>5, <1>7, <1>8, <1>10, GiveKeeps

LEMMA RaiseKeeps ==
  ASSUME AnnotationInv, Raise
  PROVE  AnnotationInv'
<1>1. UNCHANGED <<messages, allow, pass, at, callId, callIndex>>
  BY DEF Raise
<1> QED BY <1>1 DEF AnnotationInv, Settled, Numbered, New, Set, IsCall, IsResponse, Outstanding, Fresh

LEMMA AnnotateKeeps ==
  ASSUME AnnotationTypeOK, AnnotationInv, Annotate
  PROVE  AnnotationInv'
<1>1. CASE Raise
  BY <1>1, RaiseKeeps
<1>2. CASE ~Raise
  <2>1. CASE Call
    BY <1>2, <2>1, CallKeeps
  <2>2. CASE FunctionResponse
    BY <1>2, <2>2, UnmatchedKeeps, MatchedKeeps DEF FunctionResponse, IsResponse
  <2>3. CASE ToolResponse
    <3>1. /\ Annotating /\ IsResponse(at) /\ messages[at].role = "tool" /\ allow
          /\ messages[at].role # "function"
          /\ IF callId = None THEN Unmatched ELSE Matched
      BY <1>2, <2>3 DEF ToolResponse, IsResponse
    <3> QED BY <3>1, UnmatchedKeeps, MatchedKeeps
  <2>4. CASE Other
    BY <1>2, <2>4, OtherKeeps
  <2> QED BY <2>1, <2>2, <2>3, <2>4 DEF Annotate
<1> QED BY <1>1, <1>2

\* A list, or what is left of it after its oldest d messages, is what its annotation has
\* made of it when the next one begins.
LEMMA ReloadKeeps ==
  ASSUME AnnotationTypeOK, AnnotationInv, NEW some \in Seq(Messages), Reload(some),
         NEW d \in Nat,
         \A k \in DOMAIN some : k + d \in DOMAIN messages /\ some[k] = messages[k + d]
  PROVE  AnnotationInv'
<1>1. /\ messages' = some /\ at' = 1 /\ pass' = pass + 1 /\ callId' = None /\ allow' = allow
      /\ at = Len(messages) + 1
  BY DEF Reload, Annotated
<1>2. /\ Len(messages) \in Nat /\ Len(some) \in Nat /\ DOMAIN some = 1 .. Len(some)
      /\ DOMAIN messages = 1 .. Len(messages) /\ pass \in Nat /\ messages \in Seq(Messages)
  BY BufferType DEF AnnotationTypeOK, Messages
<1>3. Outstanding(at)' = {}
  BY <1>1 DEF Outstanding
<1>4. ASSUME NEW k \in DOMAIN some
      PROVE  /\ some[k].id[1] = "fresh" => some[k].id[2] <= pass + 1
             /\ ~New(messages[k].id)'
             /\ Settled(k)'
  <2>1. k + d \in DOMAIN messages /\ some[k] = messages[k + d] /\ k + d < at
    BY <1>1, <1>2
  <2>2. some[k].id[1] = "fresh" => some[k].id[2] <= pass
    BY <2>1 DEF AnnotationInv
  <2>3. some[k].id[1] = "fresh" => some[k].id[2] \in Nat
    <3>1. some[k] \in Messages
      OBVIOUS
    <3>2. some[k].id \in Ids
      BY <3>1 DEF Messages
    <3> QED BY <3>2 DEF Ids, StoredIds, None, Null
  <2>4. Settled(k + d)
    BY <2>1 DEF AnnotationInv
  <2>5. ASSUME NEW c \in Outstanding(k)'
        PROVE  c \in DOMAIN some /\ c + d \in Outstanding(k + d)
    <3>1. /\ c \in 1 .. k - 1 /\ IsCall(c)'
          /\ \A j \in c + 1 .. k - 1 : ~IsCall(j)' /\ ~IsResponse(j)'
      BY DEF Outstanding
    <3>2. c \in DOMAIN some /\ c + d \in 1 .. k + d - 1
      BY <1>2, <3>1
    <3>3. IsCall(c + d)
      BY <1>1, <3>1, <3>2 DEF IsCall
    <3>4. ASSUME NEW j \in c + d + 1 .. k + d - 1 PROVE ~IsCall(j) /\ ~IsResponse(j)
      <4>1. j - d \in c + 1 .. k - 1 /\ j - d \in DOMAIN some /\ j - d + d = j
        BY <1>2, <3>1
      <4>2. ~IsCall(j - d)' /\ ~IsResponse(j - d)' /\ some[j - d] = messages[j]
        BY <3>1, <4>1
      <4> QED BY <1>1, <4>2 DEF IsCall, IsResponse
    <3> QED BY <3>2, <3>3, <3>4 DEF Outstanding
  <2>6. Settled(k)'
    <3>1. ASSUME NEW c \in Outstanding(k)', IsResponse(k + d) PROVE some[k].id = some[c].id
      BY <2>1, <2>4, <2>5, <3>1 DEF Settled
    <3> QED BY <1>1, <2>1, <2>4, <3>1 DEF Settled, IsCall, IsResponse, Set
  <2> QED BY <1>1, <1>2, <2>2, <2>3, <2>6 DEF New
<1>5. ASSUME NEW k \in DOMAIN some PROVE ~(k < 1)
  BY <1>2
<1> QED BY <1>1, <1>3, <1>4, <1>5 DEF AnnotationInv
-----------------------------------------------------------------------------
(* The agent *)

\* What a request leaves in its variables.
LEMMA RequestType ==
  ASSUME RequestTypeOK, Ask \/ RequestStep \/ EditCredentials
  PROVE  RequestTypeOK'
<1>1. CASE Ask
  <2>1. calls' \in 0 .. MaxCalls /\ 0 \in 0 .. MaxRetries
    BY <1>1, BoundsAssumption DEF Ask, RequestTypeOK, BoundsAssumption
  <2> QED BY <1>1, <2>1 DEF Ask, RequestTypeOK, Outcomes
<1>2. CASE EditCredentials
  <2>1. edits' \in 0 .. MaxEdits
    BY <1>2, BoundsAssumption DEF EditCredentials, RequestTypeOK, BoundsAssumption
  <2> QED BY <1>2, <2>1 DEF EditCredentials, RequestTypeOK
<1>3. CASE Create
  <2>1. Refusals # <<>> => Refusals[1] \in Outcomes
    <3>1. OpenAiRefusals # <<>> => OpenAiRefusals[1] \in {"ValueError", "AssertionError"}
      <4>1. CASE request.official /\ Missing("openai")
        <5>1. OpenAiRefusals \in {<<"ValueError">> \o <<"AssertionError">>, <<"ValueError">> \o <<>>}
          BY <4>1 DEF OpenAiRefusals
        <5> QED BY <5>1
      <4>2. CASE ~(request.official /\ Missing("openai"))
        <5>1. OpenAiRefusals \in {<<>> \o <<"AssertionError">>, <<>> \o <<>>}
          BY <4>2 DEF OpenAiRefusals
        <5> QED BY <5>1
      <4> QED BY <4>1, <4>2
    <3>2. AzureRefusals # <<>> => AzureRefusals[1] = "KeyError"
      BY DEF AzureRefusals
    <3>3. ToolsOnlyRefusals # <<>> => ToolsOnlyRefusals[1] = "NotImplementedError"
      BY DEF ToolsOnlyRefusals
    <3>4. Refusals \in {OpenAiRefusals, AzureRefusals, ToolsOnlyRefusals, <<>>}
      BY DEF Refusals
    <3>5. {"ValueError", "AssertionError", "KeyError", "NotImplementedError"} \subseteq Outcomes
      BY DEF Outcomes
    <3> QED BY <3>1, <3>2, <3>3, <3>4, <3>5
  <2> QED BY <1>3, <2>1 DEF Create, End, RequestTypeOK
<1>4. CASE Answered
  BY <1>4 DEF Answered, End, Outcomes, RequestTypeOK
<1>5. CASE RateLimited
  <2>1. retries' \in 0 .. MaxRetries
    <3>1. retries \in 0 .. MaxRetries /\ MaxRetries \in Nat
      BY BoundsAssumption DEF RequestTypeOK, BoundsAssumption
    <3>2. retries' \in {retries, retries + 1} /\ (retries = MaxRetries => retries' = retries)
      BY <1>5 DEF RateLimited
    <3> QED BY <3>1, <3>2
  <2> QED BY <1>5, <2>1 DEF RateLimited, End, Outcomes, RequestTypeOK
<1>6. CASE Wake
  BY <1>6 DEF Wake, RequestTypeOK
<1> QED BY <1>1, <1>2, <1>3, <1>4, <1>5, <1>6 DEF RequestStep

\* The variables keep their types, for lists of any length.
THEOREM TypeCorrect == Spec => []TypeOK
<1>1. Init => TypeOK
  <2> SUFFICES ASSUME Init PROVE TypeOK
    OBVIOUS
  <2>1. AnnotationTypeOK
    <3>1. messages \in Seq([role : Roles, id : StoredIds, n : Nat])
      BY ListsAssumption DEF Init, AnnotationInit, ListsAssumption
    <3>2. messages \in Seq([role : Roles, id : Ids, n : Nat])
      <4>1. [role : Roles, id : StoredIds, n : Nat] \subseteq [role : Roles, id : Ids, n : Nat]
        BY IdsApart
      <4> QED BY <3>1, <4>1, SeqOfSubset
    <3>3. 1 \in 1 .. MaxPasses /\ Len(messages) \in Nat
      BY <3>2, ListsAssumption DEF ListsAssumption
    <3>4. at \in 1 .. Len(messages) + 1 /\ callIndex \in 0 .. at - 1 /\ pass \in 1 .. MaxPasses
      BY <3>3 DEF Init, AnnotationInit
    <3> QED BY <3>2, <3>4 DEF Init, AnnotationInit, AnnotationTypeOK
  <2>2. RequestTypeOK
    BY BoundsAssumption DEF Init, RequestInit, RequestTypeOK, Outcomes, BoundsAssumption
  <2> QED BY <2>1, <2>2 DEF TypeOK
<1>2. TypeOK /\ [Next]_vars => TypeOK'
  <2> SUFFICES ASSUME AnnotationTypeOK, RequestTypeOK, [Next]_vars
               PROVE  AnnotationTypeOK' /\ RequestTypeOK'
    BY DEF TypeOK
  <2>R. UNCHANGED requesting => RequestTypeOK'
    BY DEF requesting, RequestTypeOK
  <2>A. UNCHANGED annotation => AnnotationTypeOK'
    BY DEF annotation, AnnotationTypeOK
  <2>1. CASE Annotate /\ UNCHANGED requesting
    BY <2>1, <2>R, AnnotateType
  <2>2. CASE Load
    BY <2>2, <2>R, ReloadType DEF Load, AnnotationTypeOK, Messages
  <2>3. CASE Shorten
    <3>1. AnnotationTypeOK'
      BY <2>3, EndType, ReloadType DEF Shorten
    <3> QED BY <2>3, <3>1 DEF Shorten, RequestTypeOK, Outcomes
  <2>4. CASE ((Ready /\ Ask) \/ RequestStep \/ EditCredentials) /\ UNCHANGED annotation
    BY <2>4, <2>A, RequestType
  <2>5. CASE UNCHANGED vars
    BY <2>5, <2>A, <2>R DEF vars
  <2> QED BY <2>1, <2>2, <2>3, <2>4, <2>5 DEF Next
<1> QED BY <1>1, <1>2, PTL DEF Spec

LEMMA AnnotationInvariant == Spec => []AnnotationInv
<1>1. Init => AnnotationInv
  <2> SUFFICES ASSUME Init PROVE AnnotationInv
    OBVIOUS
  <2>1. /\ messages \in Seq([role : Roles, id : StoredIds, n : Nat])
        /\ pass = 1 /\ at = 1 /\ callId = None
    BY ListsAssumption DEF Init, AnnotationInit, ListsAssumption
  <2>2. Outstanding(at) = {}
    BY <2>1 DEF Outstanding
  <2>3. ASSUME NEW k \in DOMAIN messages PROVE messages[k].id[1] # "fresh" /\ ~(k < 1)
    <3>1. messages[k] \in [role : Roles, id : StoredIds, n : Nat] /\ k \in 1 .. Len(messages)
      <4> DEFINE Kept == [role : Roles, id : StoredIds, n : Nat]
      <4>1. messages \in Seq(Kept)
        BY <2>1
      <4> HIDE DEF Kept
      <4>2. messages[k] \in Kept /\ k \in 1 .. Len(messages)
        BY <4>1
      <4> QED BY <4>2 DEF Kept
    <3>2. messages[k].id \in StoredIds
      BY <3>1
    <3> QED BY <3>1, <3>2, IdsApart
  <2> QED BY <2>1, <2>2, <2>3 DEF AnnotationInv, New
<1>2. TypeOK /\ AnnotationInv /\ [Next]_vars => AnnotationInv'
  <2> SUFFICES ASSUME AnnotationTypeOK, AnnotationInv, [Next]_vars PROVE AnnotationInv'
    BY DEF TypeOK
  <2>1. CASE Annotate
    BY <2>1, AnnotateKeeps
  <2>2. CASE Load
    <3>1. messages \in Seq(Messages) /\ DOMAIN messages = 1 .. Len(messages)
      BY DEF AnnotationTypeOK, Messages
    <3>2. \A k \in DOMAIN messages : k + 0 = k
      BY <3>1
    <3> QED BY <2>2, <3>1, <3>2, ReloadKeeps DEF Load
  <2>3. CASE Shorten
    <3>1. PICK n \in 2 .. Len(messages) : Reload(SubSeq(messages, n, Len(messages)))
      BY <2>3 DEF Shorten
    <3> DEFINE some == SubSeq(messages, n, Len(messages))
               d == n - 1
    <3>2. /\ some \in Seq(Messages) /\ Len(some) = Len(messages) - d
          /\ \A k \in 1 .. Len(messages) - d : some[k] = messages[k + d]
      BY EndType
    <3>3. d \in Nat /\ Len(messages) \in Nat /\ DOMAIN messages = 1 .. Len(messages)
      BY DEF AnnotationTypeOK
    <3>4. Reload(some)
      BY <3>1
    <3> HIDE DEF some, d
    <3>5. \A k \in DOMAIN some : k + d \in DOMAIN messages /\ some[k] = messages[k + d]
      BY <3>2, <3>3
    <3> QED BY <3>2, <3>3, <3>4, <3>5, ReloadKeeps
  <2>4. CASE UNCHANGED annotation
    BY <2>4 DEF annotation, AnnotationInv, Settled, Numbered, New, Set, IsCall, IsResponse,
         Outstanding, Fresh
  <2> QED BY <2>1, <2>2, <2>3, <2>4 DEF Next, vars
<1> QED BY <1>1, <1>2, TypeCorrect, PTL DEF Spec

\* A pass that ends leaves every response with the id of its call, and one without a call
\* with an id of its own, in lists of any length, however often they were cut.
THEOREM ResponsesCorrect == Spec => []ResponsesMatched
<1>1. TypeOK /\ AnnotationInv => ResponsesMatched
  <2> SUFFICES ASSUME AnnotationTypeOK, AnnotationInv, Annotated,
                      NEW i \in DOMAIN messages, IsResponse(i)
               PROVE  /\ \A c \in Outstanding(i) :
                           /\ messages[i].id = messages[c].id
                           /\ messages[i].role = "function" => c = i - 1
                      /\ Outstanding(i) = {} =>
                           \A k \in DOMAIN messages \ {i} : messages[k].id # messages[i].id
    BY DEF TypeOK, ResponsesMatched
  <2>1. at = Len(messages) + 1 /\ DOMAIN messages = 1 .. Len(messages) /\ Len(messages) \in Nat /\ pass \in Nat
    BY BufferType DEF AnnotationTypeOK, Annotated
  <2>2. \A k \in DOMAIN messages : k < at /\ Numbered(k) /\ Settled(k)
    BY <2>1 DEF AnnotationInv
  <2>3. ASSUME Outstanding(i) = {}, NEW k \in DOMAIN messages, k # i
        PROVE  messages[k].id # messages[i].id
    <3>1. messages[i].id = Fresh(pass, i) /\ New(messages[i].id)
      BY <2>1, <2>2, <2>3, IdsApart DEF Numbered, New
    <3>2. \A j \in DOMAIN messages : Fresh(pass, j) = Fresh(pass, i) => j = i
      <4>1. \A j \in DOMAIN messages : j \in Nat
        BY <2>1
      <4> QED BY <2>1, <4>1, IdsApart
    <3>3. CASE ~IsResponse(k) \/ Outstanding(k) = {}
      BY <2>2, <2>3, <3>1, <3>2, <3>3 DEF Numbered
    <3>4. CASE IsResponse(k) /\ Outstanding(k) # {}
      <4>1. PICK c \in Outstanding(k) : messages[k].id = messages[c].id
        BY <2>2, <3>4 DEF Settled
      <4>2. c \in DOMAIN messages /\ ~IsResponse(c)
        BY <2>1, OutstandingIsCall
      <4>3. c # i
        BY <4>2
      <4> QED BY <2>2, <3>1, <3>2, <4>1, <4>2, <4>3 DEF Numbered
    <3> QED BY <3>3, <3>4
  <2> QED BY <2>2, <2>3 DEF Settled, Numbered
<1> QED BY <1>1, TypeCorrect, AnnotationInvariant, PTL

\* An annotated list that is annotated again changes only in responses without a call, and
\* is refused only at the response to a function's call.
THEOREM SecondPassCorrect == Spec => SecondPassStable
<1>1. TypeOK /\ AnnotationInv /\ [Next]_vars
        => [pass > 1 /\ pass' = pass =>
              /\ messages' # messages => IsResponse(at) /\ Outstanding(at) = {}
              /\ raised' # raised => messages[at].role = "function" /\ Outstanding(at) # {}]_annotation
  <2> SUFFICES ASSUME AnnotationTypeOK, AnnotationInv, Next, pass > 1, pass' = pass,
                      ~UNCHANGED annotation
               PROVE  /\ messages' # messages => IsResponse(at) /\ Outstanding(at) = {}
                      /\ raised' # raised => messages[at].role = "function" /\ Outstanding(at) # {}
    BY DEF TypeOK, vars
  <2>1. Annotate
    <3>1. ~Load /\ ~Shorten
      BY BufferType DEF Load, Shorten, Reload
    <3> QED BY <3>1 DEF Next
  <2>2. Annotating /\ Settled(at)
    BY <2>1 DEF Annotate, Call, FunctionResponse, ToolResponse, Other, Annotating, AnnotationInv
  <2>3. callId = None => Outstanding(at) = {}
    BY DEF AnnotationInv
  <2>4. callId # None => Outstanding(at) = {callIndex} /\ callId = messages[callIndex].id
    BY DEF AnnotationInv, AnnotationTypeOK
  <2>5. callId # None => Set(callId)
    <3> SUFFICES ASSUME callId # None PROVE Set(callId)
      OBVIOUS
    <3>1. at \in 1 .. Len(messages) + 1 /\ callIndex \in Outstanding(at)
      BY <2>4 DEF AnnotationTypeOK
    <3>2. callIndex \in DOMAIN messages /\ IsCall(callIndex)
      BY <3>1, OutstandingIsCall
    <3> QED BY <2>4, <3>2 DEF AnnotationInv, Settled
  <2>6. IsResponse(at) /\ callId # None => messages[at].id = callId
    BY <2>2, <2>4 DEF Settled
  <2>7. CASE Call
    <3>1. Give(messages[at].id) /\ raised' = raised
      BY <2>2, <2>7 DEF Call, Settled, IsCall, Give
    <3> QED BY <2>2, <3>1, GiveSame
  <2>8. CASE FunctionResponse
    <3>1. CASE callId = None
      BY <2>3, <2>8, <3>1 DEF FunctionResponse, Unmatched, Give, IsResponse
    <3>2. CASE callId # None
      <4>1. IsResponse(at) /\ messages[at].id # None
        BY <2>5, <2>6, <2>8, <3>2 DEF FunctionResponse, IsResponse, Set
      <4>2. Raise /\ messages[at].role = "function"
        BY <2>8, <3>2, <4>1 DEF FunctionResponse
      <4> QED BY <2>4, <3>2, <4>2 DEF Raise
    <3> QED BY <3>1, <3>2
  <2>9. CASE ToolResponse
    <3>1. allow /\ IsResponse(at)
      BY <2>2, <2>9 DEF ToolResponse, Settled, IsResponse
    <3>2. CASE callId = None
      BY <2>3, <2>9, <3>1, <3>2 DEF ToolResponse, Unmatched, Give
    <3>3. CASE callId # None
      <4>1. Set(messages[at].id) /\ messages[at].id = callId
        BY <2>5, <2>6, <3>1, <3>3
      <4>2. Matched
        BY <2>9, <3>1, <3>3, <4>1 DEF ToolResponse
      <4>3. Give(messages[at].id) /\ raised' = raised
        BY <4>1, <4>2 DEF Matched, Give
      <4> QED BY <2>2, <4>3, GiveSame
    <3> QED BY <3>2, <3>3
  <2>10. CASE Other
    <3>1. Give(messages[at].id) /\ raised' = raised
      BY <2>2, <2>10 DEF Other, Settled, Give
    <3> QED BY <2>2, <3>1, GiveSame
  <2> QED BY <2>1, <2>7, <2>8, <2>9, <2>10 DEF Annotate
<1> QED BY <1>1, TypeCorrect, AnnotationInvariant, PTL DEF Spec, SecondPassStable
-----------------------------------------------------------------------------
(* The end of a call *)

\* How many steps a call has left at most: three for each attempt.
StepsLeft ==
  IF step = "idle" THEN 0
  ELSE 3 * (MaxRetries - retries)
         + (IF step = "sent" THEN 1 ELSE IF step = "create" THEN 2 ELSE 3)

\* What is left of the retries, three steps each.
LEMMA RetriesLeft ==
  ASSUME NEW m \in Nat, NEW r \in 0 .. m
  PROVE  /\ 3 * (m - r) \in Nat
         /\ r + 1 \in 0 .. m => 3 * (m - (r + 1)) = 3 * (m - r) - 3
<1> DEFINE d == m - r
<1>1. d \in Nat /\ m - (r + 1) = d - 1
  OBVIOUS
<1> HIDE DEF d
<1>2. 3 * d \in Nat /\ 3 * (d - 1) = 3 * d - 3
  BY <1>1
<1> QED BY <1>1, <1>2 DEF d

\* Every step of a call of create brings it nearer to its end, and nothing that the user or
\* the agent does meanwhile takes it farther away, for any number of retries and any order of
\* answers: what CallEnds needs besides fairness.
THEOREM CallShortens ==
  Spec => [][/\ RequestStep => StepsLeft' < StepsLeft
             /\ step # "idle" => StepsLeft' \in 0 .. StepsLeft]_vars
<1>1. ASSUME RequestTypeOK, RequestTypeOK', Next
      PROVE  /\ RequestStep => StepsLeft' < StepsLeft
             /\ step # "idle" => StepsLeft' \in 0 .. StepsLeft
  <2>1. /\ MaxRetries \in Nat /\ retries \in 0 .. MaxRetries /\ retries' \in 0 .. MaxRetries
        /\ step \in {"idle", "create", "sent", "sleep"} /\ step' \in {"idle", "create", "sent", "sleep"}
    BY <1>1, BoundsAssumption DEF RequestTypeOK, BoundsAssumption
  <2>2. StepsLeft \in Nat /\ StepsLeft' \in Nat /\ (step # "idle" => StepsLeft > 0)
    <3> DEFINE before == 3 * (MaxRetries - retries)
               after == 3 * (MaxRetries - retries')
    <3>1. before \in Nat /\ after \in Nat
      BY <2>1, RetriesLeft
    <3>2. /\ StepsLeft = IF step = "idle" THEN 0
                         ELSE before + (IF step = "sent" THEN 1 ELSE IF step = "create" THEN 2 ELSE 3)
          /\ StepsLeft' = IF step' = "idle" THEN 0
                          ELSE after + (IF step' = "sent" THEN 1 ELSE IF step' = "create" THEN 2 ELSE 3)
      BY DEF StepsLeft
    <3> HIDE DEF before, after
    <3>3. StepsLeft \in Nat /\ (step # "idle" => StepsLeft > 0)
      BY <3>1, <3>2
    <3>4. StepsLeft' \in Nat
      BY <3>1, <3>2
    <3> QED BY <3>3, <3>4
  <2>3. ASSUME RequestStep PROVE StepsLeft' < StepsLeft
    <3>1. step' = "idle" /\ step # "idle" => StepsLeft' < StepsLeft
      BY <2>2 DEF StepsLeft
    <3>2. CASE Create
      <4>1. step = "create" /\ step' \in {"sent", "idle"} /\ retries' = retries
        BY <3>2 DEF Create, End
      <4> QED BY <2>1, <3>1, <4>1 DEF StepsLeft
    <3>3. CASE Answered
      <4>1. step = "sent" /\ step' = "idle"
        BY <3>3 DEF Answered, End
      <4> QED BY <3>1, <4>1
    <3>4. CASE RateLimited
      <4>1. step = "sent" /\ (step' = "idle" \/ (step' = "sleep" /\ retries' = retries + 1))
        BY <3>4 DEF RateLimited, End
      <4>2. CASE step' = "idle"
        BY <3>1, <4>1, <4>2
      <4>3. CASE step' # "idle"
        <5> DEFINE left == 3 * (MaxRetries - retries)
        <5>1. left \in Nat /\ 3 * (MaxRetries - retries') = left - 3
          BY <2>1, <4>1, <4>3, RetriesLeft
        <5>2. StepsLeft = left + 1 /\ StepsLeft' = left - 3 + 3
          BY <4>1, <4>3, <5>1 DEF StepsLeft
        <5> HIDE DEF left
        <5> QED BY <5>1, <5>2
      <4> QED BY <4>2, <4>3
    <3>5. CASE Wake
      <4>1. step = "sleep" /\ step' = "create" /\ retries' = retries
        BY <3>5 DEF Wake
      <4> QED BY <2>1, <4>1 DEF StepsLeft
    <3> QED BY <2>3, <3>2, <3>3, <3>4, <3>5 DEF RequestStep
  <2>4. CASE ~RequestStep /\ step # "idle"
    <3>1. UNCHANGED <<step, retries>>
      BY <1>1, <2>4 DEF Next, Load, Shorten, Ask, EditCredentials, requesting
    <3>2. StepsLeft' = StepsLeft
      BY <3>1 DEF StepsLeft
    <3> QED BY <2>2, <2>4, <3>2
  <2> QED BY <2>2, <2>3, <2>4
<1>2. TypeOK /\ TypeOK' /\ [Next]_vars
        => [/\ RequestStep => StepsLeft' < StepsLeft
            /\ step # "idle" => StepsLeft' \in 0 .. StepsLeft]_vars
  BY <1>1 DEF TypeOK
<1> QED BY <1>2, TypeCorrect, PTL DEF Spec
=============================================================================
