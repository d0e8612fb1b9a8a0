--------------------------- MODULE MCMemGptAgent ---------------------------
(* Every short list of messages with one configuration, and every configuration with one *)
(* list.                                                                                  *)
EXTENDS MemGptAgent

CONSTANT MaxLength

\* Stored(0) stands for the id that is stored with the message, wherever it is.
Kinds ==
  {Message("user", None, 0), Message("missing", None, 0), Message("calls", None, 2)}
  \cup {Message(role, id, 1) : role \in {"call", "function", "calls", "tool"},
                               id \in {None, Null, Stored(0)}}

Lists ==
  UNION {{[i \in 1 .. n |-> IF kinds[i].id = Stored(0) THEN [kinds[i] EXCEPT !.id = Stored(i)]
                            ELSE kinds[i]] : kinds \in [1 .. n -> Kinds]} : n \in 1 .. MaxLength}

AnyRequest == RequestKinds

OneRequest ==
  [provider |-> "openai", official |-> FALSE, knownModel |-> TRUE, tools |-> TRUE,
   stream |-> FALSE, interface |-> FALSE]
OneList == <<Message("calls", None, 1), Message("tool", None, 1)>>

AllKeys == [openai |-> TRUE, deployment |-> TRUE]

MCInit ==
  /\ Init
  /\ messages = OneList \/ (request = OneRequest /\ credentials = AllKeys)

MCSpec == MCInit /\ [][Next]_vars /\ Fairness
=============================================================================
