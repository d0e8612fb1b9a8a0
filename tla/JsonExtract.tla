----------------------------- MODULE JsonExtract -----------------------------
(***************************************************************************)
(* How openai.py finds a JSON value in the text a language model wrote:    *)
(* preprocess_text_to_isolate_json, the bracket scanner                     *)
(* find_potential_json_strings, and the choice extract_json_from_text makes *)
(* among the candidates.  A text is a sequence of brackets, quotes and      *)
(* other characters, an escaped quote being one of the others.  The scanner *)
(* counts every bracket; json.loads, of which the model tells apart only    *)
(* whether the brackets match, those outside quoted strings.                *)
(***************************************************************************)
EXTENDS Integers, Sequences, FiniteSetsExt, Functions

CONSTANT MaxLen  \* bound on the length of a text

ASSUME LengthAssumption == MaxLen \in Nat

Opening == {"{", "["}
Closing == {"}", "]"}
OpenerOf(c) == IF c = "}" THEN "{" ELSE "["

Quote == "q"  \* a double quote that is not escaped

Characters == Opening \cup Closing \cup {Quote, "x"}
Writings == UNION {[1 .. n -> Characters] : n \in 0 .. MaxLen}

VARIABLES
  answer, \* what the model wrote
  pc,     \* "isolate", "scan", "choose" or "done"
  last,   \* the last character of the isolated text
  index,  \* the next character to scan
  stack,  \* the brackets that are open
  start,  \* where the current candidate starts, 0 for None
  found,  \* the candidates, each a first and a last index, as found
  result  \* the candidate that parsed, empty for None

scanVars == <<answer, pc, last, index, stack, start, found, result>>

Positions(c) == {i \in DOMAIN answer : answer[i] = c}

Part(span) == SubSeq(answer, span[1], span[2])

-----------------------------------------------------------------------------
(* What a well-formed value is, without a stack *)

\* Brackets open after the first i characters of s.
Depth(s, i) == Quantify(1 .. i, LAMBDA k : s[k] \in Opening)
                 - Quantify(1 .. i, LAMBDA k : s[k] \in Closing)

\* Where the bracket at i is closed, the end of s if it is not.
ClosedAt(s, i) == Min({Len(s)} \cup {j \in i .. Len(s) : Depth(s, j) < Depth(s, i)})

\* Every bracket of s is closed by one of its kind.
Balanced(s) ==
  /\ \A i \in 1 .. Len(s) : Depth(s, i) >= 0
  /\ Depth(s, Len(s)) = 0
  /\ \A i \in 1 .. Len(s) : s[i] \in Opening => OpenerOf(s[ClosedAt(s, i)]) = s[i]

\* s is one object or array, as far as its brackets go, the ones inside quoted strings included.
IsValue(s) ==
  /\ s # <<>>
  /\ s[1] \in Opening
  /\ ClosedAt(s, 1) = Len(s)
  /\ Balanced(s)

\* Position i of s lies in a quoted string.
Quoted(s, i) == Quantify(1 .. i - 1, LAMBDA k : s[k] = Quote) % 2 = 1

\* s without what its quoted strings say.
Unquoted(s) == [i \in 1 .. Len(s) |-> IF Quoted(s, i) THEN "x" ELSE s[i]]

\* json.loads accepts s: an object or an array; a string that is not closed hides its last bracket.
IsJson(s) == IsValue(Unquoted(s))

-----------------------------------------------------------------------------
(* The algorithm *)

ScanInit ==
  /\ answer \in Writings
  /\ pc = "isolate"
  /\ last = Len(answer)
  /\ index = 1
  /\ stack = <<>>
  /\ start = 0
  /\ found = <<>>
  /\ result = <<>>

\* preprocess_text_to_isolate_json: from the first '{' to the last '}', if they are in this order.
Isolated ==
  IF \E i \in Positions("{"), j \in Positions("}") : i < j
  THEN <<Min(Positions("{")), Max(Positions("}"))>>
  ELSE <<1, Len(answer)>>

\* Fault injection: the text is scanned as it is.
NotIsolated ==
  /\ pc = "isolate"
  /\ pc' = "scan"
  /\ UNCHANGED <<answer, index, last, stack, start, found, result>>

Isolate ==
  /\ pc = "isolate"
  /\ pc' = "scan"
  /\ index' = Isolated[1]
  /\ last' = Isolated[2]
  /\ UNCHANGED <<answer, stack, start, found, result>>

Scanning == pc = "scan" /\ index <= last

\* Fault injection: start_index is set at every opening bracket.
OpenMovesStart ==
  /\ Scanning
  /\ answer[index] \in Opening
  /\ start' = index
  /\ stack' = Append(stack, answer[index])
  /\ index' = index + 1
  /\ UNCHANGED <<answer, pc, last, found, result>>

Open ==
  /\ Scanning
  /\ answer[index] \in Opening
  /\ start' = IF start = 0 THEN index ELSE start
  /\ stack' = Append(stack, answer[index])
  /\ index' = index + 1
  /\ UNCHANGED <<answer, pc, last, found, result>>

Matches == answer[index] \in Closing /\ stack # <<>> /\ stack[Len(stack)] = OpenerOf(answer[index])

\* Fault injection: start_index is not reset.
CloseKeepsStart ==
  /\ Scanning
  /\ Matches
  /\ stack' = SubSeq(stack, 1, Len(stack) - 1)
  /\ found' = IF stack' = <<>> THEN Append(found, <<start, index>>) ELSE found
  /\ index' = index + 1
  /\ UNCHANGED <<answer, pc, last, start, result>>

Close ==
  /\ Scanning
  /\ Matches
  /\ stack' = SubSeq(stack, 1, Len(stack) - 1)
  /\ IF stack' = <<>>
     THEN found' = Append(found, <<start, index>>) /\ start' = 0
     ELSE UNCHANGED <<found, start>>
  /\ index' = index + 1
  /\ UNCHANGED <<answer, pc, last, result>>

\* Any other character, a closing bracket that does not match included.
Skip ==
  /\ Scanning
  /\ answer[index] \notin Opening
  /\ ~Matches
  /\ index' = index + 1
  /\ UNCHANGED <<answer, pc, last, stack, start, found, result>>

Scanned ==
  /\ pc = "scan"
  /\ index > last
  /\ pc' = "choose"
  /\ UNCHANGED <<answer, last, index, stack, start, found, result>>

Size(span) == span[2] - span[1] + 1

\* extract_json_from_text: the candidates by falling size (the sort is stable), the first that
\* parses.
Choose ==
  /\ pc = "choose"
  /\ pc' = "done"
  /\ LET parsed == {k \in DOMAIN found : IsJson(Part(found[k]))}
         before(k, n) == \/ Size(found[k]) > Size(found[n])
                         \/ Size(found[k]) = Size(found[n]) /\ k <= n
     IN IF parsed = {} THEN UNCHANGED result
        ELSE \E k \in parsed : (\A n \in parsed : before(k, n)) /\ result' = found[k]
  /\ UNCHANGED <<answer, last, index, stack, start, found>>

ScanNext == Isolate \/ Open \/ Close \/ Skip \/ Scanned \/ Choose

ScanSpec == ScanInit /\ [][ScanNext]_scanVars

-----------------------------------------------------------------------------
(* Properties *)

\* The candidates are apart from each other and in the order of the text, and the one that is
\* still open lies behind them.
CandidatesApart ==
  /\ \A m, n \in DOMAIN found : m < n => found[m][2] < found[n][1]
  /\ \A n \in DOMAIN found : found[n][1] < found[n][2] /\ found[n][2] < index
  /\ start # 0 => \A n \in DOMAIN found : found[n][2] < start

\* Where the brackets of s all match, its outermost values, found without a stack.
Outermost(s) ==
  {<<i, ClosedAt(s, i)>> : i \in {i \in DOMAIN s : s[i] \in Opening /\ Depth(s, i) = 1}}

\* In a text whose brackets all match, the candidates are exactly its outermost values.
OutermostFound ==
  LET offset == Isolated[1] - 1
  IN pc = "done" /\ Balanced(Part(Isolated)) =>
       Range(found) = {<<v[1] + offset, v[2] + offset>> : v \in Outermost(Part(Isolated))}

\* An object in prose without braces is extracted, whatever square brackets the prose has, if also
\* the brackets inside its quoted strings match those of the object: the scanner counts them.
ObjectInProseFound ==
  pc = "done" =>
    \A i \in Positions("{"), j \in Positions("}") :
      /\ i < j
      /\ i = Min(Positions("{")) /\ j = Max(Positions("}"))
      /\ IsJson(Part(<<i, j>>)) /\ IsValue(Part(<<i, j>>))
      => result = <<i, j>>
=============================================================================
