------------------------------ MODULE PaperlessProofs ------------------------------
(***************************************************************************)
(* The Paperless classifier for any names, texts and answers: what a run of *)
(* openai.py writes back, how long its requests are, and what it finds in    *)
(* the text of the language model.                                          *)
(***************************************************************************)
EXTENDS DocumentClassifier, PromptBudget, JsonExtract,
        FiniteSetTheorems, WellFoundedInduction, TLAPS

-----------------------------------------------------------------------------
(* DocumentClassifier: the run against the users *)

\* The bounds, and what lies within them.
LEMMA Constants ==
  /\ MaxRetries \in Nat \ {0} /\ MaxEdits \in Nat /\ MaxDeletes \in Nat
  /\ 0 \in Texts /\ 1 \in Texts
  /\ \A t \in Texts : t < MaxEdits + 1 => t + 1 \in Texts
  /\ 0 \in 0 .. MaxRetries /\ 0 + 1 \in 0 .. MaxRetries
  /\ 0 \in 0 .. MaxDeletes
  /\ \A n \in 0 .. MaxDeletes : n < MaxDeletes => n + 1 \in 0 .. MaxDeletes
  /\ Marks \subseteq Tags
BY ClassifierAssumption DEF ClassifierAssumption, Texts

\* A text that a user writes is not the empty one.
LEMMA TextsPositive == \A t \in Texts : t + 1 # 0
BY ClassifierAssumption DEF ClassifierAssumption, Texts

\* The order of the lists ends at the download.
LEMMA AfterType == \A l \in Lists : After[l] \in Lists \cup {"download"}
BY DEF Lists, After

\* The three lists, and the names of each.
LEMMA NamesType ==
  /\ {"tags", "correspondents", "document_types"} = Lists
  /\ Names["tags"] = Tags
  /\ Names["correspondents"] = Correspondents
  /\ Names["document_types"] = DocumentTypes
BY DEF Lists, Names

\* What Paperless accepts is a document.
LEMMA PatchedType ==
  ASSUME TypeOK, NEW apology \in BOOLEAN, Accepted(Patched(apology))
  PROVE  Patched(apology) \in Documents
<1> DEFINE d == Patched(apology)
<1>1. /\ known["tags"] \subseteq Tags
      /\ known["correspondents"] \subseteq Correspondents
      /\ known["document_types"] \subseteq DocumentTypes
  BY NamesType DEF TypeOK
<1>2. /\ d.tags \in SUBSET Tags
      /\ d.correspondent \in Correspondents \cup {NoName}
      /\ d.document_type \in DocumentTypes \cup {NoName}
  BY <1>1 DEF Accepted
<1>3. /\ Suggested(reply.title, doc.title) \in {"given", "suggested", ""}
      /\ Suggested(reply.creation_date, doc.created) \in {"given", "suggested", ""}
  <2>1. "unfit" \notin {d.title, d.created}
    BY DEF Accepted
  <2>2. /\ Suggested(reply.title, doc.title) # "unfit"
        /\ Suggested(reply.creation_date, doc.created) # "unfit"
    BY <2>1 DEF Patched
  <2> QED BY <2>2 DEF Suggested, TypeOK, Documents, Answers
<1>4. (IF apology THEN doc.content ELSE text) \in Texts
  BY DEF TypeOK, Documents
<1> QED BY <1>2, <1>3, <1>4 DEF Patched, Documents

\* Before the request there has been none, so that the one there is fits the bound.
TypeInv ==
  /\ TypeOK
  /\ at \in Lists \cup {"download", "classify"} => posts = 0

\* The run and the document keep their types.
LEMMA TypeInvariant == Spec => []TypeInv
<1> USE DEF Ended, Outcomes
<1>1. Init => TypeInv
  <2> SUFFICES ASSUME Init PROVE TypeInv
    OBVIOUS
  <2>1. /\ known \in [Lists -> SUBSET (Tags \cup Correspondents \cup DocumentTypes)]
        /\ \A l \in Lists : known[l] \subseteq Names[l]
    BY NamesType DEF Init, Names, Lists
  <2>2. doc \in Documents /\ latest \in Texts
    BY Constants DEF Init, Documents
  <2>3. NoAnswer \in Answers
    BY DEF NoAnswer, Answers
  <2>4. at \in Lists
    BY DEF Init, Lists
  <2> QED BY <2>1, <2>2, <2>3, <2>4, Constants DEF Init, TypeInv, TypeOK
<1>2. TypeInv /\ [Next]_vars => TypeInv'
  <2> SUFFICES ASSUME TypeInv, [Next]_vars PROVE TypeInv'
    OBVIOUS
  <2> USE DEF TypeInv, userVars, runVars, End
  <2>1. ASSUME NEW l \in Lists, FetchPage(l) PROVE TypeInv'
    <3>1. PICK page \in SUBSET known[l] : options' = [options EXCEPT ![l] = @ \cup page]
      BY <2>1 DEF FetchPage
    <3>2. /\ options' \in [Lists -> SUBSET (Tags \cup Correspondents \cup DocumentTypes)]
          /\ \A k \in Lists : options'[k] \subseteq Names[k]
      BY <3>1 DEF TypeOK
    <3>3. at' \in Lists \cup {"download"} /\ at \in Lists
      BY <2>1, AfterType DEF FetchPage
    <3> QED BY <2>1, <3>2, <3>3 DEF FetchPage, TypeOK
  <2>2. ASSUME NEW l \in Lists, FetchError(l) PROVE TypeInv'
    <3>1. at' \in Lists \cup {"download"} /\ at \in Lists
      BY <2>2, AfterType DEF FetchError
    <3> QED BY <2>2, <3>1 DEF FetchError, TypeOK
  <2>3. CASE Exception \/ Download \/ DownloadError \/ NothingToClassify \/ UpdateUnusable
             \/ UpdateError
    BY <2>3, NamesType
       DEF Exception, Download, DownloadError, NothingToClassify, UpdateUnusable, UpdateError,
           TypeOK, Documents
  <2>4. CASE Classify \/ ClassifyError
    <3>1. posts' \in 0 .. MaxRetries
      BY <2>4, Constants DEF Classify, ClassifyError
    <3>2. reply' \in Answers
      <4>1. NoAnswer \in Answers
        BY DEF NoAnswer, Answers
      <4>2. reply' \in Answers \/ reply' = NoAnswer \/ reply' = reply
        BY <2>4 DEF Classify, ClassifyError
      <4> QED BY <4>1, <4>2 DEF TypeOK
    <3>3. at' \in {"update", "unusable", "done"}
      BY <2>4 DEF Classify, ClassifyError
    <3> QED BY <2>4, <3>1, <3>2, <3>3, NamesType DEF Classify, ClassifyError, TypeOK
  <2>5. CASE Update
    <3>1. doc' \in Documents
      BY <2>5, PatchedType DEF Update, TypeOK
    <3>2. at' = "done" /\ outcome' \in Outcomes
      BY <2>5 DEF Update
    <3> QED BY <2>5, <3>1, <3>2, NamesType DEF Update, TypeOK
  <2>6. CASE EditText
    <3>1. latest' \in Texts /\ doc' \in Documents
      BY <2>6, Constants DEF EditText, TypeOK, Documents
    <3>2. raced' \in BOOLEAN
      BY <2>6 DEF EditText, TypeOK
    <3> QED BY <2>6, <3>1, <3>2 DEF EditText, TypeOK
  <2>7. ASSUME NEW l \in Lists, DeleteName(l) PROVE TypeInv'
    <3>1. PICK n \in known[l] :
            /\ known' = [known EXCEPT ![l] = @ \ {n}]
            /\ doc' = [doc EXCEPT !.tags = @ \ {n},
                                  !.correspondent = IF @ = n THEN NoName ELSE @,
                                  !.document_type = IF @ = n THEN NoName ELSE @]
      BY <2>7 DEF DeleteName
    <3>2. doc' \in Documents
      BY <3>1 DEF TypeOK, Documents
    <3>3. /\ known' \in [Lists -> SUBSET (Tags \cup Correspondents \cup DocumentTypes)]
          /\ \A k \in Lists : known'[k] \subseteq Names[k]
      BY <3>1 DEF TypeOK
    <3>4. deletes' \in 0 .. MaxDeletes
      BY <2>7, Constants DEF DeleteName, TypeOK
    <3> QED BY <2>7, <3>2, <3>3, <3>4 DEF DeleteName, TypeOK
  <2>8. CASE UNCHANGED vars
    BY <2>8 DEF vars, TypeOK
  <2> QED BY <2>1, <2>2, <2>3, <2>4, <2>5, <2>6, <2>7, <2>8 DEF Next, Run, Users
<1> QED BY <1>1, <1>2, PTL DEF Spec

\* The types without the strengthening.
THEOREM TypeCorrect == Spec => []TypeOK
<1>1. TypeInv => TypeOK
  BY DEF TypeInv
<1> QED BY <1>1, TypeInvariant, PTL

-----------------------------------------------------------------------------

\* Unless the user raced the run, the document has its latest text, and so has the run.
TextInv ==
  ~raced => /\ doc.content = latest
            /\ at \in {"classify", "update", "unusable"} => text = latest

\* The script undoes an edit only if that was made between its download and its patch
\* (download_document, update_document_content).
THEOREM StaleTextCorrect == Spec => []StaleTextOnlyIfRaced
<1>1. Init => TextInv
  BY DEF Init, TextInv
<1>2. TypeInv /\ TextInv /\ [Next]_vars => TextInv'
  <2> SUFFICES ASSUME TypeInv, TextInv, [Next]_vars PROVE TextInv'
    OBVIOUS
  <2> USE DEF userVars, runVars, End, TextInv
  <2>1. ASSUME NEW l \in Lists, FetchPage(l) \/ FetchError(l) PROVE TextInv'
    <3>1. at' \notin {"classify", "update", "unusable"}
      BY <2>1, AfterType, NamesType DEF FetchPage, FetchError
    <3> QED BY <2>1, <3>1 DEF FetchPage, FetchError
  <2>2. CASE Exception \/ DownloadError \/ NothingToClassify \/ UpdateUnusable \/ UpdateError
    BY <2>2 DEF Exception, DownloadError, NothingToClassify, UpdateUnusable, UpdateError
  <2>3. CASE Download
    BY <2>3 DEF Download
  <2>4. CASE Classify \/ ClassifyError
    BY <2>4 DEF Classify, ClassifyError
  <2>5. CASE Update
    <3>1. UNCHANGED <<latest, raced>> /\ at = "update" /\ at' = "done"
      BY <2>5 DEF Update
    <3>2. doc'.content = doc.content \/ doc'.content = text
      BY <2>5 DEF Update, Patched
    <3> QED BY <3>1, <3>2
  <2>6. CASE EditText
    <3>1. doc'.content = latest'
      BY <2>6 DEF EditText, TypeInv, TypeOK, Documents
    <3> QED BY <2>6, <3>1 DEF EditText
  <2>7. ASSUME NEW l \in Lists, DeleteName(l) PROVE TextInv'
    <3>1. doc'.content = doc.content
      BY <2>7 DEF DeleteName, TypeInv, TypeOK, Documents
    <3> QED BY <2>7, <3>1 DEF DeleteName
  <2>8. CASE UNCHANGED vars
    BY <2>8 DEF vars
  <2> QED BY <2>1, <2>2, <2>3, <2>4, <2>5, <2>6, <2>7, <2>8 DEF Next, Run, Users
<1>3. TypeInv /\ TextInv => StaleTextOnlyIfRaced
  BY DEF TypeInv, TypeOK, TextInv, Texts, StaleTextOnlyIfRaced
<1> QED BY <1>1, <1>2, <1>3, TypeInvariant, PTL DEF Spec

-----------------------------------------------------------------------------

\* A run whose patch was refused has ended, and keeps its lists.
RejectedInv == RejectedOnlyIfStaleOrUnfit /\ (outcome = "rejected" => at = "done")

\* Paperless refuses a patch only for a name deleted since it was fetched, a mark deleted, or a
\* title or a date it cannot store: update_document_content looks every name up in the fetched
\* lists, and sends the title as it is.
THEOREM RejectedCorrect == Spec => []RejectedOnlyIfStaleOrUnfit
<1>1. Init => RejectedInv
  BY DEF Init, RejectedInv, RejectedOnlyIfStaleOrUnfit
<1>2. TypeInv /\ RejectedInv /\ [Next]_vars => RejectedInv'
  <2> SUFFICES ASSUME TypeInv, RejectedInv, [Next]_vars PROVE RejectedInv'
    OBVIOUS
  <2> USE DEF userVars, runVars, End, RejectedInv
  <2>1. ASSUME NEW l \in Lists, FetchPage(l) \/ FetchError(l) PROVE RejectedInv'
    <3>1. outcome' # "rejected"
      BY <2>1, NamesType DEF FetchPage, FetchError
    <3> QED BY <3>1 DEF RejectedOnlyIfStaleOrUnfit
  <2>2. CASE Exception \/ Download \/ DownloadError \/ NothingToClassify \/ Classify
             \/ ClassifyError \/ UpdateUnusable \/ UpdateError
    <3>1. outcome' # "rejected"
      BY <2>2, NamesType DEF Exception, Download, DownloadError, NothingToClassify, Classify,
         ClassifyError, UpdateUnusable, UpdateError
    <3> QED BY <3>1 DEF RejectedOnlyIfStaleOrUnfit
  <2>3. CASE Update
    <3>1. UNCHANGED <<known, options, reply>> /\ at' = "done"
      BY <2>3 DEF Update
    <3>2. SUFFICES ASSUME outcome' = "rejected"
                   PROVE  \/ ~ Marks \subseteq known["tags"]
                          \/ \E l \in Lists : ~ options[l] \subseteq known[l]
                          \/ "unfit" \in {reply.title, reply.creation_date}
      BY <3>1 DEF RejectedOnlyIfStaleOrUnfit
    <3>3. PICK apology \in BOOLEAN : ~Accepted(Patched(apology))
      BY <2>3, <3>2 DEF Update
    <3>4. CASE ~ Patched(apology).tags \subseteq known["tags"]
      BY <3>4, NamesType DEF Patched
    <3>5. CASE Patched(apology).correspondent \notin known["correspondents"] \cup {NoName}
      BY <3>5, NamesType DEF Patched, Lookup
    <3>6. CASE Patched(apology).document_type \notin known["document_types"] \cup {NoName}
      BY <3>6, NamesType DEF Patched, Lookup
    <3>7. CASE "unfit" \in {Patched(apology).title, Patched(apology).created}
      BY <3>7 DEF Patched, Suggested, TypeInv, TypeOK, Documents
    <3> QED BY <3>3, <3>4, <3>5, <3>6, <3>7 DEF Accepted
  <2>4. CASE EditText
    BY <2>4 DEF EditText, RejectedOnlyIfStaleOrUnfit
  <2>5. ASSUME NEW l \in Lists, DeleteName(l) PROVE RejectedInv'
    <3>1. \A k \in Lists : known'[k] \subseteq known[k]
      BY <2>5 DEF DeleteName, TypeInv, TypeOK
    <3>2. UNCHANGED <<options, outcome, at, reply>>
      BY <2>5 DEF DeleteName
    <3> QED BY <3>1, <3>2, NamesType DEF RejectedOnlyIfStaleOrUnfit
  <2>6. CASE UNCHANGED vars
    BY <2>6 DEF vars, RejectedOnlyIfStaleOrUnfit
  <2> QED BY <2>1, <2>2, <2>3, <2>4, <2>5, <2>6 DEF Next, Run, Users
<1>3. RejectedInv => RejectedOnlyIfStaleOrUnfit
  BY DEF RejectedInv
<1> QED BY <1>1, <1>2, <1>3, TypeInvariant, PTL DEF Spec

-----------------------------------------------------------------------------

\* What is sent back was not empty when it was read.
FilledInv ==
  /\ doc.title # "" /\ doc.created # ""
  /\ at \in {"update", "unusable"} => text # 0

\* No step empties the text, the title or the date of a document (update_document_content leaves
\* empty answers out of its payload).
THEOREM NeverEmptiedCorrect == Spec => NeverEmptied
<1>1. Init => FilledInv
  BY NamesType DEF Init, FilledInv
<1>2. TypeInv /\ FilledInv /\ [Next]_vars
        => FilledInv' /\ (doc.content # 0 => doc'.content # 0)
  <2> SUFFICES ASSUME TypeInv, FilledInv, [Next]_vars
               PROVE  FilledInv' /\ (doc.content # 0 => doc'.content # 0)
    OBVIOUS
  <2> USE DEF userVars, runVars, End, FilledInv
  <2>1. ASSUME NEW l \in Lists, FetchPage(l) \/ FetchError(l)
        PROVE  UNCHANGED doc /\ at' \notin {"update", "unusable"}
    BY <2>1, AfterType, NamesType DEF FetchPage, FetchError
  <2>2. CASE Exception \/ Download \/ DownloadError \/ NothingToClassify \/ ClassifyError
             \/ UpdateUnusable \/ UpdateError
    BY <2>2 DEF Exception, Download, DownloadError, NothingToClassify, ClassifyError,
       UpdateUnusable, UpdateError
  <2>3. CASE Classify
    BY <2>3 DEF Classify, Complete
  <2>4. CASE Update
    <3>1. at = "update" /\ at' = "done"
      BY <2>4 DEF Update
    <3>2. ASSUME NEW apology \in BOOLEAN, doc' = Patched(apology)
          PROVE  /\ doc'.title # "" /\ doc'.created # ""
                 /\ doc.content # 0 => doc'.content # 0
      BY <3>1, <3>2 DEF Patched, Suggested
    <3>3. UNCHANGED doc \/ \E apology \in BOOLEAN : doc' = Patched(apology)
      BY <2>4 DEF Update
    <3> QED BY <3>1, <3>2, <3>3
  <2>5. CASE EditText
    <3>1. doc' = [doc EXCEPT !.content = latest + 1] /\ UNCHANGED <<at, text>>
      BY <2>5 DEF EditText
    <3>2. latest + 1 # 0
      BY TextsPositive DEF TypeInv, TypeOK
    <3> QED BY <3>1, <3>2 DEF TypeInv, TypeOK, Documents
  <2>6. ASSUME NEW l \in Lists, DeleteName(l)
        PROVE  /\ UNCHANGED <<at, text>>
               /\ doc'.title = doc.title /\ doc'.created = doc.created
               /\ doc'.content = doc.content
    BY <2>6 DEF DeleteName, TypeInv, TypeOK, Documents
  <2>7. CASE UNCHANGED vars
    BY <2>7 DEF vars
  <2> QED BY <2>1, <2>2, <2>3, <2>4, <2>5, <2>6, <2>7 DEF Next, Run, Users
<1>3. FilledInv' /\ (doc.content # 0 => doc'.content # 0)
        => [/\ doc.content # 0 => doc'.content # 0
            /\ doc'.title # ""
            /\ doc'.created # ""]_vars
  BY DEF FilledInv
<1> QED BY <1>1, <1>2, <1>3, TypeInvariant, PTL DEF Spec, NeverEmptied

-----------------------------------------------------------------------------
(* PromptBudget: the length of a request *)

\* A slice is no longer than its string.
LEMMA SliceBound ==
  ASSUME NEW n \in Nat, NEW k \in Int
  PROVE  SliceLength(n, k) \in 0 .. n
BY DEF SliceLength, Least

\* Truncation only ever shortens the text of a document (ocr_text[:truncate_length]).
LEMMA TruncationShortens ==
  ASSUME NEW length \in Nat, prompt \in Nat
  PROVE  TruncatedLength(length) \in 0 .. length
<1>1. MaxContext - prompt - Safety \in Int
  BY BudgetAssumption DEF BudgetAssumption, Safety
<1>2. SliceLength(length, MaxContext - prompt - Safety) \in 0 .. length
  BY <1>1, SliceBound
<1> QED
  BY <1>2 DEF TruncatedLength

\* The lengths stay within their bounds: no request is longer than a document and a prompt.
THEOREM PromptTypeCorrect == PromptSpec => []PromptTypeOK
<1>1. PromptInit => PromptTypeOK
  BY BudgetAssumption DEF BudgetAssumption, PromptInit, PromptTypeOK, Separator
<1>2. PromptTypeOK /\ [PromptNext]_promptVars => PromptTypeOK'
  <2> SUFFICES ASSUME PromptTypeOK, [PromptNext]_promptVars PROVE PromptTypeOK'
    OBVIOUS
  <2> USE BudgetAssumption DEF BudgetAssumption, PromptTypeOK
  <2>1. CASE AddName
    BY <2>1 DEF AddName
  <2>2. CASE Request
    <3>1. document' \in 1 .. MaxText /\ document' \in Nat /\ prompt \in Nat
      BY <2>2 DEF Request
    <3>2. TruncatedLength(document') \in 0 .. document'
      BY <3>1, TruncationShortens
    <3> QED
      BY <2>2, <3>1, <3>2 DEF Request, Separator
  <2>3. CASE UNCHANGED promptVars
    BY <2>3 DEF promptVars
  <2> QED
    BY <2>1, <2>2, <2>3 DEF PromptNext
<1> QED
  BY <1>1, <1>2, PTL DEF PromptSpec

\* With room for the safety margin no request exceeds the context, and a document is cut only if it
\* does not fit, in which case the request uses the context up to the margin (classify_document).
THEOREM FitsCorrect == PromptSpec => FitsWithRoom
<1>1. PromptTypeOK /\ [PromptNext]_promptVars =>
        (Request /\ prompt + Safety <= MaxContext =>
           /\ sent' <= MaxContext
           /\ sent' < document' + Separator + prompt =>
                /\ document' + Separator + prompt > MaxContext
                /\ sent' >= MaxContext - Safety)
  BY BudgetAssumption
     DEF BudgetAssumption, PromptTypeOK, Request, TruncatedLength, SliceLength, Least, Safety,
         Separator
<1> QED
  BY <1>1, PromptTypeCorrect, PTL DEF PromptSpec, FitsWithRoom

-----------------------------------------------------------------------------
(* JsonExtract: the object in the answer.  Sets of numbers and the depth of brackets come first. *)

\* A set of naturals has a least element, and Min is that.
LEMMA MinProperty ==
  ASSUME NEW S \in SUBSET Nat, S # {}
  PROVE  Min(S) \in S /\ \A y \in S : Min(S) <= y
<1> DEFINE Less == OpToRel(<, Nat)
<1>1. PICK x \in S : \A y \in S : ~ (<<y, x>> \in Less)
  BY NatLessThanWellFounded, WFMin
<1>2. \A y \in Nat, z \in Nat : y < z => <<y, z>> \in Less
  BY DEF OpToRel
<1> HIDE DEF Less
<1>3. ASSUME NEW y \in S PROVE x <= y
  <2>1. x \in Nat /\ y \in Nat /\ ~ (y < x)
    BY <1>1, <1>2
  <2> QED BY <2>1
<1> QED BY <1>3 DEF Min

\* A bounded set of naturals has a greatest element, and Max is that.
LEMMA MaxProperty ==
  ASSUME NEW n \in Nat, NEW S \in SUBSET (0 .. n), S # {}
  PROVE  Max(S) \in S /\ \A y \in S : Max(S) >= y
<1> DEFINE R == {n - x : x \in S}
<1>1. R \in SUBSET Nat /\ R # {}
  <2>1. \A x \in 0 .. n : n - x \in Nat
    OBVIOUS
  <2>2. \A x \in S : n - x \in Nat
    BY <2>1
  <2> QED BY <2>2
<1>2. PICK x \in S : \A y \in S : n - x <= n - y
  <2>1. Min(R) \in R /\ \A z \in R : Min(R) <= z
    BY <1>1, MinProperty
  <2> QED BY <2>1
<1>3. \A y \in S : x >= y
  BY <1>2
<1> QED BY <1>3 DEF Max

\* A character moves the depth by one, or not at all.
LEMMA DepthStep ==
  ASSUME NEW s \in Seq(Characters)
  PROVE  /\ Depth(s, 0) = 0
         /\ \A i \in Nat : Depth(s, i) \in Int
         /\ \A i \in 0 .. Len(s) - 1 :
              /\ s[i + 1] \in Opening => Depth(s, i + 1) = Depth(s, i) + 1
              /\ s[i + 1] \in Closing => Depth(s, i + 1) = Depth(s, i) - 1
              /\ s[i + 1] \notin Opening \cup Closing => Depth(s, i + 1) = Depth(s, i)
<1> DEFINE Os(i) == {k \in 1 .. i : s[k] \in Opening}
           Cs(i) == {k \in 1 .. i : s[k] \in Closing}
<1>1. \A i : Depth(s, i) = Cardinality(Os(i)) - Cardinality(Cs(i))
  BY DEF Depth, Quantify
<1>2. Os(0) = {} /\ Cs(0) = {}
  OBVIOUS
<1>3. \A i \in Nat : IsFiniteSet(Os(i)) /\ IsFiniteSet(Cs(i))
  <2> TAKE i \in Nat
  <2>1. IsFiniteSet(1 .. i)
    BY FS_Interval
  <2> QED BY <2>1, FS_Subset
<1>4. \A i \in Nat : Cardinality(Os(i)) \in Nat /\ Cardinality(Cs(i)) \in Nat
  BY <1>3, FS_CardinalityType
<1>5. \A i \in 0 .. Len(s) - 1 :
        /\ s[i + 1] \in Opening => Depth(s, i + 1) = Depth(s, i) + 1
        /\ s[i + 1] \in Closing => Depth(s, i + 1) = Depth(s, i) - 1
        /\ s[i + 1] \notin Opening \cup Closing => Depth(s, i + 1) = Depth(s, i)
  <2> TAKE i \in 0 .. Len(s) - 1
  <2> DEFINE O == Os(i)
             C == Cs(i)
             P == Os(i + 1)
             D == Cs(i + 1)
             j == i + 1
  <2>1. 1 .. j = 1 .. i \cup {j} /\ j \notin 1 .. i
    OBVIOUS
  <2>2. j \notin O /\ j \notin C
    BY <2>1
  <2>3. s[j] \in Opening => P = O \cup {j} /\ D = C
    BY <2>1 DEF Opening, Closing
  <2>4. s[j] \in Closing => D = C \cup {j} /\ P = O
    BY <2>1 DEF Opening, Closing
  <2>5. s[j] \notin Opening \cup Closing => D = C /\ P = O
    BY <2>1 DEF Opening, Closing
  <2>6. /\ IsFiniteSet(O) /\ Cardinality(O) \in Nat
        /\ IsFiniteSet(C) /\ Cardinality(C) \in Nat
    <3> HIDE DEF Os, Cs
    <3>1. i \in Nat
      OBVIOUS
    <3> QED BY <3>1, <1>3, <1>4
  <2>7. /\ Depth(s, i) = Cardinality(O) - Cardinality(C)
        /\ Depth(s, j) = Cardinality(P) - Cardinality(D)
    BY <1>1
  <2> HIDE DEF O, C, P, D, j
  <2>8. Cardinality(O \cup {j}) = Cardinality(O) + 1 /\ Cardinality(C \cup {j}) = Cardinality(C) + 1
    BY <2>2, <2>6, FS_AddElement
  <2>9. ASSUME s[j] \in Opening PROVE Depth(s, j) = Depth(s, i) + 1
    <3>1. Cardinality(P) = Cardinality(O) + 1 /\ D = C
      BY <2>3, <2>8, <2>9
    <3> QED BY <3>1, <2>6, <2>7
  <2>10. ASSUME s[j] \in Closing PROVE Depth(s, j) = Depth(s, i) - 1
    <3>1. Cardinality(D) = Cardinality(C) + 1 /\ P = O
      BY <2>4, <2>8, <2>10
    <3> QED BY <3>1, <2>6, <2>7
  <2>11. ASSUME s[j] \notin Opening \cup Closing PROVE Depth(s, j) = Depth(s, i)
    BY <2>5, <2>7, <2>11
  <2> QED BY <2>9, <2>10, <2>11 DEF j
<1>6. Depth(s, 0) = 0
  BY <1>1, <1>2, FS_EmptySet
<1>7. \A i \in Nat : Depth(s, i) \in Int
  <2> HIDE DEF Os, Cs
  <2> QED BY <1>1, <1>4
<1> HIDE DEF Os, Cs
<1> QED BY <1>5, <1>6, <1>7

\* Where brackets all match, an opening bracket is closed behind it, by one of its kind.
LEMMA ClosedAtProperty ==
  ASSUME NEW s \in Seq(Characters), Balanced(s), NEW i \in 1 .. Len(s), s[i] \in Opening
  PROVE  /\ ClosedAt(s, i) \in i + 1 .. Len(s)
         /\ Depth(s, i) >= 1
         /\ Depth(s, ClosedAt(s, i)) < Depth(s, i)
         /\ \A r \in i .. ClosedAt(s, i) - 1 : Depth(s, r) >= Depth(s, i)
         /\ OpenerOf(s[ClosedAt(s, i)]) = s[i]
<1> DEFINE D(r) == Depth(s, r)
           L == {j \in i .. Len(s) : D(j) < D(i)}
           c == ClosedAt(s, i)
<1>1. \A r \in 0 .. Len(s) : D(r) \in Nat
  <2>1. \A r \in 0 .. Len(s) : D(r) \in Int /\ D(0) = 0
    BY DepthStep
  <2>2. \A r \in 1 .. Len(s) : D(r) >= 0
    BY DEF Balanced
  <2> HIDE DEF D
  <2> QED BY <2>1, <2>2
<1>2. D(i) >= 1
  <2>1. i - 1 \in 0 .. Len(s) - 1 /\ (i - 1) + 1 = i
    OBVIOUS
  <2>2. D(i) = D(i - 1) + 1
    BY <2>1, DepthStep
  <2>3. D(i - 1) \in Nat
    BY <1>1, <2>1
  <2> HIDE DEF D
  <2> QED BY <2>2, <2>3
<1>3. D(Len(s)) = 0
  BY DEF Balanced
<1>4. Len(s) \in L /\ L \in SUBSET Nat
  <2>1. D(i) \in Nat
    BY <1>1
  <2> HIDE DEF D
  <2> QED BY <1>2, <1>3, <2>1
<1>5. c = Min(L)
  <2>1. {Len(s)} \cup L = L
    BY <1>4
  <2> QED BY <2>1 DEF ClosedAt
<1>6. c \in L /\ \A y \in L : c <= y
  <2> HIDE DEF L, c
  <2> QED BY <1>4, <1>5, MinProperty
<1>7. OpenerOf(s[c]) = s[i]
  BY DEF Balanced
<1> HIDE DEF c, D
<1>8. c \in i + 1 .. Len(s) /\ D(c) < D(i)
  <2>1. D(i) \in Nat
    BY <1>1
  <2> QED BY <1>6, <2>1
<1>9. \A r \in i .. c - 1 : D(r) >= D(i)
  <2> TAKE r \in i .. c - 1
  <2>1. D(i) \in Nat /\ D(r) \in Nat /\ r \in i .. Len(s) /\ r < c
    BY <1>1, <1>8
  <2>2. r \notin L
    BY <1>6, <2>1
  <2> QED BY <2>1, <2>2
<1> QED BY <1>2, <1>7, <1>8, <1>9 DEF c, D

\* The first such place is the only one.
LEMMA ClosedAtUnique ==
  ASSUME NEW s \in Seq(Characters), Balanced(s), NEW i \in 1 .. Len(s), s[i] \in Opening,
         NEW e \in i .. Len(s), Depth(s, e) < Depth(s, i),
         \A r \in i .. e - 1 : Depth(s, r) >= Depth(s, i)
  PROVE  ClosedAt(s, i) = e
<1> DEFINE c == ClosedAt(s, i)
<1>1. /\ c \in i + 1 .. Len(s)
      /\ Depth(s, c) < Depth(s, i)
      /\ \A r \in i .. c - 1 : Depth(s, r) >= Depth(s, i)
  BY ClosedAtProperty
<1> HIDE DEF c
<1>2. Depth(s, i) \in Int /\ Depth(s, c) \in Int /\ Depth(s, e) \in Int
  <2>1. i \in Nat /\ c \in Nat /\ e \in Nat
    BY <1>1
  <2> QED BY <2>1, DepthStep
<1>3. ~ (c < e)
  <2>1. c < e => c \in i .. e - 1
    BY <1>1
  <2> QED BY <1>1, <1>2, <2>1
<1>4. ~ (e < c)
  <2>1. e < c => e \in i .. c - 1
    BY <1>1
  <2> QED BY <1>1, <1>2, <2>1
<1> QED BY <1>1, <1>3, <1>4 DEF c

\* What opens at q is still open after p characters.
StillOpen(s, q, p) ==
  /\ q \in 1 .. p
  /\ s[q] \in Opening
  /\ \A r \in q .. p : Depth(s, r) >= Depth(s, q)

ClosedBy(s, p) == {v \in Outermost(s) : v[2] <= p}

\* Where brackets all match, the depth is never negative.
LEMMA DepthType ==
  ASSUME NEW s \in Seq(Characters), Balanced(s), NEW r \in 0 .. Len(s)
  PROVE  Depth(s, r) \in Nat
<1>1. Depth(s, 0) = 0 /\ Depth(s, r) \in Int
  BY DepthStep
<1>2. r # 0 => Depth(s, r) >= 0
  BY DEF Balanced
<1> QED BY <1>1, <1>2

\* An outermost value opens at depth 0, closes at depth 0, and is open in between.
LEMMA OutermostProperty ==
  ASSUME NEW s \in Seq(Characters), Balanced(s), NEW v \in Outermost(s)
  PROVE  /\ v = <<v[1], v[2]>>
         /\ v[1] \in 1 .. Len(s) /\ v[2] \in v[1] + 1 .. Len(s)
         /\ s[v[1]] \in Opening /\ Depth(s, v[1]) = 1
         /\ Depth(s, v[1] - 1) = 0
         /\ Depth(s, v[2]) = 0
         /\ \A r \in v[1] .. v[2] - 1 : Depth(s, r) >= 1
<1>1. PICK i \in DOMAIN s : /\ s[i] \in Opening /\ Depth(s, i) = 1
                            /\ v = <<i, ClosedAt(s, i)>>
  BY DEF Outermost
<1>2. i \in 1 .. Len(s) /\ v[1] = i /\ v[2] = ClosedAt(s, i) /\ v = <<v[1], v[2]>>
  BY <1>1
<1>3. /\ v[2] \in i + 1 .. Len(s)
      /\ Depth(s, v[2]) < 1
      /\ \A r \in i .. v[2] - 1 : Depth(s, r) >= 1
  BY <1>1, <1>2, ClosedAtProperty
<1>4. Depth(s, v[2]) = 0
  <2>1. v[2] \in 0 .. Len(s)
    BY <1>2, <1>3
  <2>2. Depth(s, v[2]) \in Nat
    BY <2>1, DepthType
  <2> QED BY <1>3, <2>2
<1>5. Depth(s, i - 1) = 0
  <2>1. i - 1 \in 0 .. Len(s) - 1 /\ i - 1 \in 0 .. Len(s) /\ (i - 1) + 1 = i
    BY <1>2
  <2>2. Depth(s, i) = Depth(s, i - 1) + 1
    BY <1>1, <2>1, DepthStep
  <2>3. Depth(s, i - 1) \in Nat
    BY <2>1, DepthType
  <2> QED BY <1>1, <2>2, <2>3
<1> QED BY <1>1, <1>2, <1>3, <1>4, <1>5

\* One more character closes an outermost value only where the depth falls to 0.
LEMMA ClosedByKept ==
  ASSUME NEW s \in Seq(Characters), Balanced(s), NEW p \in 0 .. Len(s) - 1,
         Depth(s, p) = 0 \/ Depth(s, p + 1) # 0
  PROVE  ClosedBy(s, p + 1) = ClosedBy(s, p)
<1>1. ASSUME NEW v \in Outermost(s), v[2] <= p + 1
      PROVE  v[2] <= p
  <2>1. /\ v[1] \in 1 .. Len(s) /\ v[2] \in v[1] + 1 .. Len(s)
        /\ Depth(s, v[2]) = 0
        /\ \A r \in v[1] .. v[2] - 1 : Depth(s, r) >= 1
    BY OutermostProperty
  <2>2. CASE v[2] = p + 1
    <3>1. p \in v[1] .. v[2] - 1
      BY <2>1, <2>2
    <3>2. Depth(s, p) >= 1
      BY <2>1, <3>1
    <3> QED BY <2>1, <2>2, <3>2
  <2> QED BY <1>1, <2>1, <2>2
<1>2. ASSUME NEW v \in Outermost(s), v[2] <= p
      PROVE  v[2] <= p + 1
  BY <1>2, OutermostProperty
<1> QED BY <1>1, <1>2 DEF ClosedBy

\* There it closes the one that is open.
LEMMA ClosedByGrows ==
  ASSUME NEW s \in Seq(Characters), Balanced(s), NEW p \in 0 .. Len(s) - 1,
         NEW q, StillOpen(s, q, p), Depth(s, q) = 1, Depth(s, p + 1) = 0
  PROVE  ClosedBy(s, p + 1) = ClosedBy(s, p) \cup {<<q, p + 1>>}
<1>1. /\ q \in 1 .. Len(s) /\ q <= p /\ s[q] \in Opening
      /\ \A r \in q .. p : Depth(s, r) >= 1
  BY DEF StillOpen
<1>2. ClosedAt(s, q) = p + 1
  <2>1. /\ p + 1 \in q .. Len(s)
        /\ Depth(s, p + 1) < Depth(s, q)
        /\ \A r \in q .. (p + 1) - 1 : Depth(s, r) >= Depth(s, q)
    BY <1>1
  <2> QED BY <1>1, <2>1, ClosedAtUnique
<1>3. <<q, p + 1>> \in ClosedBy(s, p + 1)
  BY <1>1, <1>2 DEF ClosedBy, Outermost
<1>4. ASSUME NEW v \in Outermost(s), v[2] <= p + 1
      PROVE  v[2] <= p \/ v = <<q, p + 1>>
  <2>1. /\ v = <<v[1], v[2]>>
        /\ v[1] \in 1 .. Len(s) /\ v[2] \in v[1] + 1 .. Len(s)
        /\ Depth(s, v[1] - 1) = 0
        /\ \A r \in v[1] .. v[2] - 1 : Depth(s, r) >= 1
    BY OutermostProperty
  <2>2. CASE v[2] = p + 1
    <3>1. ~ (v[1] > q)
      <4>1. v[1] > q => v[1] - 1 \in q .. p
        BY <1>1, <2>1, <2>2
      <4> QED BY <1>1, <2>1, <4>1
    <3>2. ~ (v[1] < q)
      <4>1. q - 1 \in 0 .. Len(s) - 1 /\ q - 1 \in 0 .. Len(s) /\ (q - 1) + 1 = q
        BY <1>1
      <4>2. Depth(s, q) = Depth(s, q - 1) + 1 /\ Depth(s, q - 1) \in Nat
        BY <1>1, <4>1, DepthStep, DepthType
      <4>3. Depth(s, q - 1) = 0
        BY <4>2
      <4>4. v[1] < q => q - 1 \in v[1] .. v[2] - 1
        BY <1>1, <2>1, <2>2
      <4> QED BY <2>1, <4>3, <4>4
    <3> QED BY <1>1, <2>1, <2>2, <3>1, <3>2
  <2> QED BY <1>4, <2>1, <2>2
<1>5. ASSUME NEW v \in Outermost(s), v[2] <= p
      PROVE  v[2] <= p + 1
  BY <1>5, OutermostProperty
<1> QED BY <1>3, <1>4, <1>5 DEF ClosedBy

\* What is scanned, and how far.
Body == Part(Isolated)
Offset == Isolated[1] - 1
Read == index - 1 - Offset

\* The isolated text lies within the answer.
LEMMA IsolatedProperty ==
  ASSUME answer \in Seq(Characters)
  PROVE  /\ Isolated[1] \in Nat \ {0} /\ Isolated[2] \in Nat
         /\ Isolated[1] <= Isolated[2] + 1 /\ Isolated[2] <= Len(answer)
         /\ Offset \in Nat
         /\ Body \in Seq(Characters) /\ Len(Body) = Isolated[2] - Offset
         /\ \A k \in 1 .. Len(Body) : Body[k] = answer[k + Offset]
<1> DEFINE n == Len(answer)
           P == Positions("{")
           Q == Positions("}")
<1>1. n \in Nat /\ DOMAIN answer = 1 .. n /\ \A k \in 1 .. n : answer[k] \in Characters
  OBVIOUS
<1>2. /\ Isolated[1] \in Nat \ {0} /\ Isolated[2] \in Nat
      /\ Isolated[1] <= Isolated[2] + 1 /\ Isolated[2] <= n
  <2>1. CASE \E i \in P, j \in Q : i < j
    <3>1. P \subseteq 1 .. n /\ Q \subseteq 1 .. n
      BY <1>1 DEF Positions
    <3>2. Isolated = <<Min(P), Max(Q)>>
      BY <2>1 DEF Isolated
    <3> HIDE DEF P, Q, n
    <3>3. PICK i \in P, j \in Q : i < j
      BY <2>1
    <3>4. P \in SUBSET Nat /\ P # {} /\ Q \in SUBSET (0 .. n) /\ Q # {}
      BY <1>1, <3>1
    <3>5. Min(P) \in P /\ Min(P) <= i
      BY <3>4, MinProperty
    <3>6. Max(Q) \in Q /\ Max(Q) >= j
      BY <1>1, <3>4, MaxProperty
    <3>7. Min(P) \in 1 .. n /\ Max(Q) \in 1 .. n /\ i \in 1 .. n /\ j \in 1 .. n
      BY <3>1, <3>5, <3>6
    <3> QED BY <1>1, <3>2, <3>3, <3>5, <3>6, <3>7
  <2>2. CASE ~ \E i \in P, j \in Q : i < j
    <3>1. Isolated = <<1, n>>
      BY <2>2 DEF Isolated
    <3> HIDE DEF n
    <3> QED BY <1>1, <3>1
  <2> QED BY <2>1, <2>2
<1>3. Body = [k \in 1 .. Isolated[2] - Offset |-> answer[k + Offset]]
  <2>1. Body = SubSeq(answer, Isolated[1], Isolated[2])
    BY DEF Body, Part
  <2>2. SubSeq(answer, Isolated[1], Isolated[2])
          = [k \in 1 .. (Isolated[2] - Isolated[1] + 1) |-> answer[k + Isolated[1] - 1]]
    BY <1>2
  <2> QED BY <1>2, <2>1, <2>2 DEF Offset
<1>4. \A k \in 1 .. Isolated[2] - Offset : answer[k + Offset] \in Characters
  BY <1>1, <1>2 DEF Offset
<1>5. Isolated[2] - Offset \in Nat /\ Offset \in Nat
  BY <1>2 DEF Offset
<1>6. Body \in Seq(Characters) /\ Len(Body) = Isolated[2] - Offset
  <2> HIDE DEF n
  <2> QED BY <1>3, <1>4, <1>5
<1>7. \A k \in 1 .. Len(Body) : Body[k] = answer[k + Offset]
  BY <1>3, <1>6
<1> QED BY <1>2, <1>5, <1>6, <1>7

\* The scanner between the beginning and the end of the isolated text: its stack, its candidates,
\* and where they lie.
ScanInv ==
  /\ answer \in Seq(Characters)
  /\ pc \in {"isolate", "scan", "choose", "done"}
  /\ pc = "isolate" => stack = <<>> /\ start = 0 /\ found = <<>> /\ index = 1
  /\ pc # "isolate" => last = Isolated[2] /\ index \in Isolated[1] .. last + 1
  /\ pc \in {"choose", "done"} => index = last + 1
  /\ index \in Nat
  /\ stack \in Seq(Opening)
  /\ start \in Nat
  /\ start = 0 <=> stack = <<>>
  /\ start < index
  /\ found \in Seq(Nat \X Nat)
  /\ CandidatesApart

\* What is isolated depends on the answer alone.
LEMMA IsolatedFixed == UNCHANGED answer => UNCHANGED <<Isolated, Body, Offset>>
BY DEF Isolated, Positions, Body, Part, Offset

\* Every step of the scanner keeps its stack, its candidates and their places in order.
LEMMA ScanInvStep == ScanInv /\ [ScanNext]_scanVars => ScanInv'
<1> SUFFICES ASSUME ScanInv, [ScanNext]_scanVars PROVE ScanInv'
  OBVIOUS
<1>1. UNCHANGED <<answer, Isolated>>
  <2>1. UNCHANGED answer
    BY DEF ScanNext, scanVars, Isolate, Open, Close, Skip, Scanned, Choose
  <2> QED BY <2>1, IsolatedFixed
<1>2. /\ Isolated[1] \in Nat \ {0} /\ Isolated[2] \in Nat
      /\ Isolated[1] <= Isolated[2] + 1
  BY IsolatedProperty DEF ScanInv
<1> DEFINE N == 1 .. Len(found)
<1>0. /\ DOMAIN found = N /\ Len(found) \in Nat /\ index \in Nat /\ start \in Nat /\ start < index
      /\ \A n \in N : found[n][1] \in Nat /\ found[n][2] \in Nat
      /\ \A m, n \in N : m < n => found[m][2] < found[n][1]
      /\ \A n \in N : found[n][1] < found[n][2] /\ found[n][2] < index
      /\ start # 0 => \A n \in N : found[n][2] < start
  <2>1. found \in Seq(Nat \X Nat)
    BY DEF ScanInv
  <2>2. DOMAIN found = N /\ Len(found) \in Nat /\ \A n \in N : found[n] \in Nat \X Nat
    BY <2>1
  <2>3. \A n \in N : found[n][1] \in Nat /\ found[n][2] \in Nat
    BY <2>2
  <2>4. index \in Nat /\ start \in Nat /\ start < index
    BY DEF ScanInv
  <2> HIDE DEF N
  <2> QED BY <2>2, <2>3, <2>4 DEF ScanInv, CandidatesApart
<1>3. CASE Isolate
  BY <1>1, <1>2, <1>3 DEF Isolate, ScanInv, CandidatesApart
<1>4. CASE Open
  <2>1. /\ pc = "scan" /\ index <= last /\ index' = index + 1 /\ answer[index] \in Opening
        /\ stack' = Append(stack, answer[index])
        /\ start' = IF start = 0 THEN index ELSE start
        /\ UNCHANGED <<pc, last, found>>
    BY <1>4 DEF Open, Scanning
  <2>2. stack' \in Seq(Opening) /\ stack' # <<>>
    BY <2>1 DEF ScanInv
  <2>3. start' \in Nat /\ start' # 0 /\ start' < index'
    BY <1>2, <2>1 DEF ScanInv
  <2>4. CandidatesApart'
    <3>1. \A n \in N : found[n][2] < start'
      <4>1. CASE start = 0
        BY <1>0, <2>1, <4>1
      <4>2. CASE start # 0
        BY <1>0, <2>1, <4>2
      <4> QED BY <4>1, <4>2
    <3>2. \A n \in N : found[n][2] < index'
      BY <1>0, <2>1
    <3> HIDE DEF N
    <3> QED BY <1>0, <2>1, <3>1, <3>2 DEF CandidatesApart
  <2> QED BY <1>1, <1>2, <2>1, <2>2, <2>3, <2>4 DEF ScanInv
<1>5. CASE Close
  <2>1. /\ pc = "scan" /\ index <= last /\ index' = index + 1 /\ stack # <<>>
        /\ stack' = SubSeq(stack, 1, Len(stack) - 1)
        /\ UNCHANGED <<pc, last>>
    BY <1>5 DEF Close, Scanning, Matches
  <2>2. stack' \in Seq(Opening)
    BY <2>1 DEF ScanInv
  <2>3. CASE stack' = <<>>
    <3>1. found' = Append(found, <<start, index>>) /\ start' = 0
      BY <1>5, <2>3 DEF Close
    <3>2. start # 0 /\ start < index /\ start \in Nat /\ index \in Nat /\ found \in Seq(Nat \X Nat)
      BY <2>1 DEF ScanInv
    <3>3. /\ found' \in Seq(Nat \X Nat) /\ Len(found') = Len(found) + 1
          /\ \A n \in 1 .. Len(found) : found'[n] = found[n]
          /\ found'[Len(found) + 1] = <<start, index>>
      BY <3>1, <3>2
    <3>4. CandidatesApart'
      <4> DEFINE l == Len(found) + 1
      <4>1. DOMAIN found' = N \cup {l} /\ l \notin N /\ \A n \in N : n < l
        BY <1>0, <3>3
      <4>2. found'[l][1] = start /\ found'[l][2] = index /\ index' = index + 1
        BY <2>1, <3>3
      <4>3. \A n \in N : found'[n] = found[n]
        BY <3>3
      <4>4. \A n \in DOMAIN found' : found'[n][1] < found'[n][2] /\ found'[n][2] < index'
        BY <1>0, <3>2, <4>1, <4>2, <4>3
      <4>5. ASSUME NEW m \in DOMAIN found', NEW n \in DOMAIN found', m < n
            PROVE  found'[m][2] < found'[n][1]
        <5>1. m \in N
          BY <1>0, <4>1, <4>5
        <5> QED BY <1>0, <3>2, <4>1, <4>2, <4>3, <4>5, <5>1
      <4> HIDE DEF N, l
      <4> QED BY <3>1, <4>4, <4>5 DEF CandidatesApart
    <3> QED BY <1>1, <1>2, <2>1, <2>2, <2>3, <3>1, <3>3, <3>4 DEF ScanInv
  <2>4. CASE stack' # <<>>
    <3>1. UNCHANGED <<found, start>>
      BY <1>5, <2>4 DEF Close
    <3>2. CandidatesApart'
      BY <2>1, <3>1 DEF ScanInv, CandidatesApart
    <3> QED BY <1>1, <1>2, <2>1, <2>2, <2>4, <3>1, <3>2 DEF ScanInv
  <2> QED BY <2>3, <2>4
<1>6. CASE Skip
  <2>1. /\ pc = "scan" /\ index <= last /\ index' = index + 1
        /\ UNCHANGED <<pc, last, stack, start, found>>
    BY <1>6 DEF Skip, Scanning
  <2>2. CandidatesApart'
    BY <2>1 DEF ScanInv, CandidatesApart
  <2> QED BY <1>1, <1>2, <2>1, <2>2 DEF ScanInv
<1>7. CASE Scanned
  BY <1>1, <1>2, <1>7 DEF Scanned, ScanInv, CandidatesApart
<1>8. CASE Choose \/ UNCHANGED scanVars
  <2>1. /\ UNCHANGED <<last, index, stack, start, found>>
        /\ pc' = pc \/ (pc = "choose" /\ pc' = "done")
    BY <1>8 DEF Choose, scanVars
  <2>2. CandidatesApart'
    BY <2>1 DEF ScanInv, CandidatesApart
  <2> QED BY <1>1, <2>1, <2>2 DEF ScanInv
<1> QED BY <1>3, <1>4, <1>5, <1>6, <1>7, <1>8 DEF ScanNext

\* They are in order at the beginning.
LEMMA ScanInvInit == ScanInit => ScanInv
<1> SUFFICES ASSUME ScanInit PROVE ScanInv
  OBVIOUS
<1>1. answer \in Seq(Characters)
  BY LengthAssumption DEF LengthAssumption, ScanInit, Writings
<1> QED BY <1>1 DEF ScanInit, ScanInv, CandidatesApart

\* The candidates are apart.
THEOREM CandidatesCorrect == ScanSpec => []CandidatesApart
<1>1. ScanInv => CandidatesApart
  BY DEF ScanInv
<1> QED BY <1>1, ScanInvInit, ScanInvStep, PTL DEF ScanSpec

\* A sequence of length 0 is the empty one.
LEMMA EmptyHasNoLength ==
  ASSUME NEW S, NEW t \in Seq(S)
  PROVE  t = <<>> <=> Len(t) = 0
OBVIOUS

Shifted(v) == <<v[1] + Offset, v[2] + Offset>>

\* In a text whose brackets all match: the stack holds the brackets that are open, by depth, the
\* candidate is the outermost of them, and the outermost values closed so far have been found.
MatchedInv ==
  pc # "isolate" /\ Balanced(Body) =>
    /\ Len(stack) = Depth(Body, Read)
    /\ \A k \in 1 .. Len(stack) : \E q \in 1 .. Read :
         StillOpen(Body, q, Read) /\ Body[q] = stack[k] /\ Depth(Body, q) = k
    /\ start # 0 => StillOpen(Body, start - Offset, Read) /\ Depth(Body, start - Offset) = 1
    /\ Range(found) = {Shifted(v) : v \in ClosedBy(Body, Read)}

\* What is open stays open as long as the depth does not fall below its own.
LEMMA StaysOpen ==
  ASSUME NEW s, NEW p \in Nat, NEW q, StillOpen(s, q, p), Depth(s, p + 1) >= Depth(s, q)
  PROVE  StillOpen(s, q, p + 1)
<1>1. q \in 1 .. p + 1
  BY DEF StillOpen
<1>2. \A r \in q .. p + 1 : r \in q .. p \/ r = p + 1
  BY DEF StillOpen
<1> QED BY <1>1, <1>2 DEF StillOpen

\* The scanner's next character is the body's.
LEMMA Reading ==
  ASSUME ScanInv, Scanning, index' = index + 1, UNCHANGED answer
  PROVE  /\ Read \in 0 .. Len(Body) - 1 /\ Body \in Seq(Characters)
         /\ Read' = Read + 1 /\ index = Read + 1 + Offset
         /\ Body[Read + 1] = answer[index]
         /\ UNCHANGED <<Isolated, Body, Offset>>
<1>1. /\ Isolated[1] \in Nat \ {0} /\ Isolated[2] \in Nat
      /\ Offset = Isolated[1] - 1 /\ Offset \in Nat
      /\ Body \in Seq(Characters) /\ Len(Body) = Isolated[2] - Offset
      /\ \A k \in 1 .. Len(Body) : Body[k] = answer[k + Offset]
  BY IsolatedProperty DEF ScanInv, Offset
<1>2. last = Isolated[2] /\ index \in Isolated[1] .. last
  BY <1>1 DEF ScanInv, Scanning
<1>3. UNCHANGED <<Isolated, Body, Offset>>
  BY IsolatedFixed
<1>4. Read \in 0 .. Len(Body) - 1 /\ index = Read + 1 + Offset /\ Read' = Read + 1
  <2>1. Offset \in Nat /\ Isolated[2] \in Nat /\ Len(Body) = Isolated[2] - Offset
    BY <1>1
  <2>2. index \in Int /\ Offset <= index - 1 /\ index <= Isolated[2]
    BY <1>1, <1>2
  <2>3. index - 1 - Offset \in 0 .. Len(Body) - 1 /\ index = (index - 1 - Offset) + 1 + Offset
    BY <2>1, <2>2
  <2>4. index' - 1 - Offset = (index - 1 - Offset) + 1
    BY <2>1, <2>2
  <2>5. Read = index - 1 - Offset /\ Read' = index' - 1 - Offset
    BY <1>3 DEF Read
  <2> QED BY <2>3, <2>4, <2>5
<1>5. Read + 1 \in 1 .. Len(Body) /\ (Read + 1) + Offset = index
  BY <1>1, <1>2, <1>4
<1> QED BY <1>1, <1>3, <1>4, <1>5

\* An opening bracket is pushed, at the depth it opens.
LEMMA OpenStep ==
  ASSUME ScanInv, MatchedInv, Open
  PROVE  MatchedInv'
<1>1. /\ Scanning /\ index' = index + 1 /\ answer[index] \in Opening
      /\ stack' = Append(stack, answer[index])
      /\ start' = IF start = 0 THEN index ELSE start
      /\ UNCHANGED <<answer, pc, last, found>>
  BY DEF Open
<1>2. SUFFICES ASSUME Balanced(Body)
      PROVE  /\ Len(stack') = Depth(Body, Read + 1)
             /\ \A k \in 1 .. Len(stack') : \E q \in 1 .. Read + 1 :
                  StillOpen(Body, q, Read + 1) /\ Body[q] = stack'[k] /\ Depth(Body, q) = k
             /\ start' # 0 => /\ StillOpen(Body, start' - Offset, Read + 1)
                              /\ Depth(Body, start' - Offset) = 1
             /\ Range(found) = {Shifted(v) : v \in ClosedBy(Body, Read + 1)}
  BY <1>1, Reading DEF MatchedInv, Shifted
<1> DEFINE s == Body
           p == Read
<1>3. /\ p \in 0 .. Len(s) - 1 /\ s \in Seq(Characters) /\ index = p + 1 + Offset
      /\ s[p + 1] = answer[index] /\ Offset \in Nat
  BY <1>1, Reading, IsolatedProperty DEF ScanInv
<1>4. /\ Len(stack) = Depth(s, p)
      /\ \A k \in 1 .. Len(stack) : \E q \in 1 .. p :
           StillOpen(s, q, p) /\ s[q] = stack[k] /\ Depth(s, q) = k
      /\ start # 0 => StillOpen(s, start - Offset, p) /\ Depth(s, start - Offset) = 1
      /\ Range(found) = {Shifted(v) : v \in ClosedBy(s, p)}
  BY <1>1, <1>2 DEF MatchedInv, Scanning
<1>5. stack \in Seq(Opening) /\ (start = 0 <=> stack = <<>>)
  BY DEF ScanInv
<1> HIDE DEF s, p
<1>6. Depth(s, p + 1) = Depth(s, p) + 1 /\ Depth(s, p) \in Nat
  <2>1. Balanced(s)
    BY <1>2 DEF s
  <2> QED BY <1>1, <1>3, <2>1, DepthStep, DepthType
<1>7. Len(stack') = Depth(s, p + 1)
  BY <1>1, <1>4, <1>5, <1>6
<1>8. StillOpen(s, p + 1, p + 1)
  <2>1. \A r \in p + 1 .. p + 1 : r = p + 1
    BY <1>3
  <2>2. p + 1 \in 1 .. p + 1 /\ Depth(s, p + 1) >= Depth(s, p + 1)
    BY <1>3, <1>6
  <2> QED BY <1>1, <1>3, <2>1, <2>2 DEF StillOpen
<1>9. ASSUME NEW k \in 1 .. Len(stack')
      PROVE  \E q \in 1 .. p + 1 : StillOpen(s, q, p + 1) /\ s[q] = stack'[k] /\ Depth(s, q) = k
  <2>1. CASE k = Len(stack')
    <3>1. stack'[k] = s[p + 1]
      BY <1>1, <1>3, <1>5, <2>1
    <3> QED BY <1>3, <1>7, <1>8, <2>1, <3>1
  <2>2. CASE k # Len(stack')
    <3>1. k \in 1 .. Len(stack) /\ stack'[k] = stack[k]
      BY <1>1, <1>5, <2>2
    <3>2. PICK q \in 1 .. p : StillOpen(s, q, p) /\ s[q] = stack[k] /\ Depth(s, q) = k
      BY <1>4, <3>1
    <3>3. Depth(s, p + 1) >= Depth(s, q)
      BY <1>4, <1>6, <3>1, <3>2
    <3> QED BY <1>3, <3>1, <3>2, <3>3, StaysOpen
  <2> QED BY <2>1, <2>2
<1>10. ASSUME start' # 0
       PROVE  StillOpen(s, start' - Offset, p + 1) /\ Depth(s, start' - Offset) = 1
  <2>1. CASE start = 0
    <3>1. start' - Offset = p + 1
      BY <1>1, <1>3, <2>1
    <3>2. Depth(s, p) = 0
      BY <1>4, <1>5, <2>1
    <3> QED BY <1>6, <1>8, <3>1, <3>2
  <2>2. CASE start # 0
    <3>1. start' = start /\ StillOpen(s, start - Offset, p) /\ Depth(s, start - Offset) = 1
      BY <1>1, <1>4, <2>2
    <3>2. Depth(s, p + 1) >= Depth(s, start - Offset)
      BY <1>6, <3>1
    <3> QED BY <1>3, <3>1, <3>2, StaysOpen
  <2> QED BY <2>1, <2>2
<1>11. ClosedBy(s, p + 1) = ClosedBy(s, p)
  <2>1. Balanced(s) /\ Depth(s, p + 1) # 0
    BY <1>2, <1>6 DEF s
  <2> QED BY <1>3, <2>1, ClosedByKept
<1> QED BY <1>4, <1>7, <1>9, <1>10, <1>11 DEF s, p

\* A closing bracket closes the bracket on top of the stack.
LEMMA TopMatches ==
  ASSUME ScanInv, MatchedInv, Scanning, Balanced(Body), answer[index] \in Closing,
         index' = index + 1, UNCHANGED answer
  PROVE  Matches
<1> DEFINE s == Body
           p == Read
<1>1. /\ p \in 0 .. Len(s) - 1 /\ s \in Seq(Characters) /\ s[p + 1] = answer[index]
  BY Reading
<1>2. /\ Len(stack) = Depth(s, p)
      /\ \A k \in 1 .. Len(stack) : \E q \in 1 .. p :
           StillOpen(s, q, p) /\ s[q] = stack[k] /\ Depth(s, q) = k
  BY DEF MatchedInv, Scanning
<1>3. Balanced(s) /\ stack \in Seq(Opening)
  BY DEF ScanInv
<1> HIDE DEF s, p
<1>4. Depth(s, p + 1) = Depth(s, p) - 1 /\ Depth(s, p) \in Nat /\ Depth(s, p + 1) \in Nat
  <2>1. p + 1 \in 0 .. Len(s) /\ p \in 0 .. Len(s)
    BY <1>1
  <2> QED BY <1>1, <1>3, <2>1, DepthStep, DepthType
<1>5. Len(stack) \in 1 .. Len(stack) /\ stack # <<>>
  BY <1>2, <1>3, <1>4
<1>6. PICK q \in 1 .. p : /\ StillOpen(s, q, p) /\ s[q] = stack[Len(stack)]
                          /\ Depth(s, q) = Len(stack)
  BY <1>2, <1>5
<1>7. ClosedAt(s, q) = p + 1
  <2>1. /\ q \in 1 .. Len(s) /\ s[q] \in Opening /\ p + 1 \in q .. Len(s)
        /\ Depth(s, p + 1) < Depth(s, q)
    BY <1>1, <1>2, <1>4, <1>6 DEF StillOpen
  <2>2. \A r \in q .. (p + 1) - 1 : Depth(s, r) >= Depth(s, q)
    BY <1>1, <1>6 DEF StillOpen
  <2> QED BY <1>1, <1>3, <2>1, <2>2, ClosedAtUnique
<1>8. OpenerOf(s[p + 1]) = s[q]
  <2>1. q \in 1 .. Len(s) /\ s[q] \in Opening
    BY <1>1, <1>6 DEF StillOpen
  <2> QED BY <1>1, <1>3, <1>7, <2>1, ClosedAtProperty
<1> QED BY <1>1, <1>5, <1>6, <1>8 DEF Matches

\* A closing bracket pops the one it closes, and an outermost one yields a candidate.
LEMMA CloseStep ==
  ASSUME ScanInv, MatchedInv, Close
  PROVE  MatchedInv'
<1>1. /\ Scanning /\ index' = index + 1 /\ answer[index] \in Closing /\ stack # <<>>
      /\ stack' = SubSeq(stack, 1, Len(stack) - 1)
      /\ stack' = <<>> => found' = Append(found, <<start, index>>) /\ start' = 0
      /\ stack' # <<>> => UNCHANGED <<found, start>>
      /\ UNCHANGED <<answer, pc, last>>
  BY DEF Close, Matches
<1>2. SUFFICES ASSUME Balanced(Body)
      PROVE  /\ Len(stack') = Depth(Body, Read + 1)
             /\ \A k \in 1 .. Len(stack') : \E q \in 1 .. Read + 1 :
                  StillOpen(Body, q, Read + 1) /\ Body[q] = stack'[k] /\ Depth(Body, q) = k
             /\ start' # 0 => /\ StillOpen(Body, start' - Offset, Read + 1)
                              /\ Depth(Body, start' - Offset) = 1
             /\ Range(found') = {Shifted(v) : v \in ClosedBy(Body, Read + 1)}
  BY <1>1, Reading DEF MatchedInv, Shifted
<1> DEFINE s == Body
           p == Read
<1>3. /\ p \in 0 .. Len(s) - 1 /\ s \in Seq(Characters) /\ index = p + 1 + Offset
      /\ s[p + 1] = answer[index] /\ Offset \in Nat
  BY <1>1, Reading, IsolatedProperty DEF ScanInv
<1>4. /\ Len(stack) = Depth(s, p)
      /\ \A k \in 1 .. Len(stack) : \E q \in 1 .. p :
           StillOpen(s, q, p) /\ s[q] = stack[k] /\ Depth(s, q) = k
      /\ start # 0 => StillOpen(s, start - Offset, p) /\ Depth(s, start - Offset) = 1
      /\ Range(found) = {Shifted(v) : v \in ClosedBy(s, p)}
  BY <1>1, <1>2 DEF MatchedInv, Scanning
<1>5. /\ stack \in Seq(Opening) /\ start # 0 /\ start \in Nat /\ found \in Seq(Nat \X Nat)
      /\ Balanced(s)
  BY <1>1, <1>2 DEF ScanInv
<1> HIDE DEF s, p
<1>6. Depth(s, p + 1) = Depth(s, p) - 1 /\ Depth(s, p) \in Nat
  <2>1. p \in 0 .. Len(s) /\ s[p + 1] \in Closing
    BY <1>1, <1>3
  <2> QED BY <1>3, <1>5, <2>1, DepthStep, DepthType
<1>7. /\ Len(stack') = Len(stack) - 1 /\ Len(stack) \in Nat \ {0}
      /\ \A k \in 1 .. Len(stack') : k \in 1 .. Len(stack) /\ stack'[k] = stack[k]
      /\ stack' = <<>> <=> Len(stack') = 0
  <2>1. Len(stack) \in Nat \ {0}
    BY <1>1, <1>5
  <2>2. stack' = [k \in 1 .. Len(stack) - 1 |-> stack[k]]
    BY <1>1, <1>5, <2>1
  <2>3. stack' \in Seq(Opening) /\ Len(stack') = Len(stack) - 1
    BY <1>5, <2>1, <2>2
  <2>4. \A k \in 1 .. Len(stack) - 1 : k \in 1 .. Len(stack) /\ stack'[k] = stack[k]
    BY <2>1, <2>2
  <2>5. stack' = <<>> <=> Len(stack') = 0
    BY <2>3, EmptyHasNoLength
  <2> QED BY <2>1, <2>3, <2>4, <2>5
<1>8. Len(stack') = Depth(s, p + 1)
  BY <1>4, <1>6, <1>7
<1>9. ASSUME NEW k \in 1 .. Len(stack')
      PROVE  \E q \in 1 .. p + 1 : StillOpen(s, q, p + 1) /\ s[q] = stack'[k] /\ Depth(s, q) = k
  <2>1. PICK q \in 1 .. p : StillOpen(s, q, p) /\ s[q] = stack[k] /\ Depth(s, q) = k
    BY <1>4, <1>7
  <2>2. Depth(s, p + 1) >= Depth(s, q)
    BY <1>7, <1>8, <2>1
  <2>3. StillOpen(s, q, p + 1) /\ q \in 1 .. p + 1
    BY <1>3, <2>1, <2>2, StaysOpen DEF StillOpen
  <2> QED BY <1>7, <2>1, <2>3
<1>10. CASE stack' = <<>>
  <2> DEFINE q == start - Offset
  <2>1. StillOpen(s, q, p) /\ Depth(s, q) = 1 /\ Depth(s, p + 1) = 0
    BY <1>4, <1>5, <1>7, <1>8, <1>10
  <2>2. ClosedBy(s, p + 1) = ClosedBy(s, p) \cup {<<q, p + 1>>}
    BY <1>3, <1>5, <2>1, ClosedByGrows
  <2>3. Shifted(<<q, p + 1>>) = <<start, index>>
    BY <1>3, <1>5 DEF Shifted
  <2>4. Range(found') = Range(found) \cup {<<start, index>>}
    <3>1. /\ DOMAIN found' = DOMAIN found \cup {Len(found) + 1}
          /\ found'[Len(found) + 1] = <<start, index>>
          /\ \A n \in DOMAIN found : found'[n] = found[n]
      <4>1. found' = Append(found, <<start, index>>)
        BY <1>1, <1>10
      <4>2. Len(found) \in Nat /\ DOMAIN found = 1 .. Len(found)
        BY <1>5
      <4> QED BY <1>5, <4>1, <4>2
    <3> QED BY <3>1 DEF Range
  <2>5. Range(found') = {Shifted(v) : v \in ClosedBy(s, p + 1)}
    <3> HIDE DEF q
    <3> QED BY <1>4, <2>2, <2>3, <2>4
  <2> QED BY <1>1, <1>8, <1>9, <1>10, <2>5 DEF s, p
<1>11. CASE stack' # <<>>
  <2>1. Depth(s, p + 1) # 0 /\ Depth(s, p + 1) >= 1
    BY <1>7, <1>8, <1>11
  <2>2. ClosedBy(s, p + 1) = ClosedBy(s, p)
    BY <1>3, <1>5, <2>1, ClosedByKept
  <2>3. StillOpen(s, start - Offset, p + 1) /\ Depth(s, start - Offset) = 1
    BY <1>3, <1>4, <1>5, <2>1, StaysOpen
  <2> QED BY <1>1, <1>4, <1>8, <1>9, <1>11, <2>2, <2>3 DEF s, p
<1> QED BY <1>10, <1>11

\* Every other character leaves the depth as it is: no closing bracket is skipped.
LEMMA SkipStep ==
  ASSUME ScanInv, MatchedInv, Skip
  PROVE  MatchedInv'
<1>1. /\ Scanning /\ index' = index + 1 /\ answer[index] \notin Opening /\ ~Matches
      /\ UNCHANGED <<answer, pc, last, stack, start, found>>
  BY DEF Skip
<1>2. SUFFICES ASSUME Balanced(Body)
      PROVE  /\ Len(stack) = Depth(Body, Read + 1)
             /\ \A k \in 1 .. Len(stack) : \E q \in 1 .. Read + 1 :
                  StillOpen(Body, q, Read + 1) /\ Body[q] = stack[k] /\ Depth(Body, q) = k
             /\ start # 0 => /\ StillOpen(Body, start - Offset, Read + 1)
                             /\ Depth(Body, start - Offset) = 1
             /\ Range(found) = {Shifted(v) : v \in ClosedBy(Body, Read + 1)}
  BY <1>1, Reading DEF MatchedInv, Shifted
<1> DEFINE s == Body
           p == Read
<1>3. /\ p \in 0 .. Len(s) - 1 /\ s \in Seq(Characters) /\ s[p + 1] = answer[index]
  BY <1>1, Reading
<1>4. /\ Len(stack) = Depth(s, p)
      /\ \A k \in 1 .. Len(stack) : \E q \in 1 .. p :
           StillOpen(s, q, p) /\ s[q] = stack[k] /\ Depth(s, q) = k
      /\ start # 0 => StillOpen(s, start - Offset, p) /\ Depth(s, start - Offset) = 1
      /\ Range(found) = {Shifted(v) : v \in ClosedBy(s, p)}
  BY <1>1, <1>2 DEF MatchedInv, Scanning
<1>5. stack \in Seq(Opening) /\ (start = 0 <=> stack = <<>>) /\ Balanced(s)
  BY <1>2 DEF ScanInv
<1>6. s[p + 1] \notin Opening \cup Closing
  <2>1. answer[index] \notin Closing
    BY <1>1, <1>2, TopMatches
  <2> HIDE DEF s, p
  <2> QED BY <1>1, <1>3, <2>1
<1> HIDE DEF s, p
<1>7. Depth(s, p + 1) = Depth(s, p) /\ Depth(s, p) \in Nat
  BY <1>3, <1>5, <1>6, DepthStep, DepthType
<1>8. ASSUME NEW k \in 1 .. Len(stack)
      PROVE  \E q \in 1 .. p + 1 : StillOpen(s, q, p + 1) /\ s[q] = stack[k] /\ Depth(s, q) = k
  <2>1. PICK q \in 1 .. p : StillOpen(s, q, p) /\ s[q] = stack[k] /\ Depth(s, q) = k
    BY <1>4
  <2>2. Depth(s, p + 1) >= Depth(s, q)
    BY <1>4, <1>7, <2>1
  <2> QED BY <1>3, <2>1, <2>2, StaysOpen
<1>9. ASSUME start # 0
      PROVE  StillOpen(s, start - Offset, p + 1) /\ Depth(s, start - Offset) = 1
  <2>1. Depth(s, p + 1) >= Depth(s, start - Offset)
    <3>1. Len(stack) >= 1
      BY <1>5, <1>9
    <3> QED BY <1>4, <1>7, <1>9, <3>1
  <2> QED BY <1>3, <1>4, <1>9, <2>1, StaysOpen
<1>10. ClosedBy(s, p + 1) = ClosedBy(s, p)
  BY <1>3, <1>5, <1>7, ClosedByKept
<1> QED BY <1>4, <1>7, <1>8, <1>9, <1>10 DEF s, p

\* Every step keeps the correspondence of the stack with the depth.
LEMMA MatchedStep == ScanInv /\ MatchedInv /\ [ScanNext]_scanVars => MatchedInv'
<1> SUFFICES ASSUME ScanInv, MatchedInv, [ScanNext]_scanVars PROVE MatchedInv'
  OBVIOUS
<1>1. CASE Isolate
  <2>1. /\ pc' = "scan" /\ index' = Isolated[1]
        /\ UNCHANGED <<answer, stack, start, found>>
        /\ stack = <<>> /\ start = 0 /\ found = <<>>
    BY <1>1 DEF Isolate, ScanInv
  <2>2. Isolated[1] \in Nat /\ UNCHANGED <<Isolated, Body, Offset>> /\ Body \in Seq(Characters)
    BY <2>1, IsolatedFixed, IsolatedProperty DEF ScanInv
  <2>3. Read' = 0
    <3>1. Read' = Isolated[1] - 1 - (Isolated[1] - 1)
      BY <2>1, <2>2 DEF Read, Offset
    <3> QED BY <2>2, <3>1
  <2>4. SUFFICES ASSUME Balanced(Body)
                 PROVE  /\ Len(stack) = Depth(Body, 0)
                        /\ Range(found) = {Shifted(v) : v \in ClosedBy(Body, 0)}
    <3>1. Len(stack) = 0
      BY <2>1
    <3> QED BY <2>1, <2>2, <2>3, <3>1 DEF MatchedInv, Shifted
  <2>5. Len(stack) = Depth(Body, 0)
    BY <2>1, <2>2, DepthStep
  <2>6. ClosedBy(Body, 0) = {}
    BY <2>2, <2>4, OutermostProperty DEF ClosedBy
  <2>7. Range(found) = {}
    BY <2>1 DEF Range
  <2> QED BY <2>5, <2>6, <2>7
<1>2. CASE Open
  BY <1>2, OpenStep
<1>3. CASE Close
  BY <1>3, CloseStep
<1>4. CASE Skip
  BY <1>4, SkipStep
<1>5. CASE Scanned \/ Choose \/ UNCHANGED scanVars
  <2>1. /\ UNCHANGED <<answer, index, stack, start, found>>
        /\ pc' = "isolate" => pc = "isolate"
        /\ pc # "isolate" \/ UNCHANGED pc
    BY <1>5 DEF Scanned, Choose, scanVars
  <2>2. UNCHANGED <<Isolated, Body, Offset, Read>>
    BY <2>1, IsolatedFixed DEF Read
  <2> QED BY <2>1, <2>2 DEF MatchedInv, Shifted
<1> QED BY <1>1, <1>2, <1>3, <1>4, <1>5 DEF ScanNext

\* Both invariants of the scanner.
LEMMA ScanInvariant == ScanSpec => [](ScanInv /\ MatchedInv)
<1>1. ScanInit => ScanInv /\ MatchedInv
  BY ScanInvInit DEF ScanInit, MatchedInv
<1> QED BY <1>1, ScanInvStep, MatchedStep, PTL DEF ScanSpec

\* After the scan the whole text has been read.
LEMMA AllRead ==
  ASSUME ScanInv, pc \in {"choose", "done"}
  PROVE  Read = Len(Body) /\ Body \in Seq(Characters)
<1>1. index = Isolated[2] + 1
  BY DEF ScanInv
<1>2. /\ Isolated[2] \in Nat /\ Offset \in Nat
      /\ Body \in Seq(Characters) /\ Len(Body) = Isolated[2] - Offset
  BY IsolatedProperty DEF ScanInv
<1> QED BY <1>1, <1>2 DEF Read

\* After the scan all outermost values have been found.
LEMMA AllFound ==
  ASSUME ScanInv, MatchedInv, pc \in {"choose", "done"}, Balanced(Body)
  PROVE  Range(found) = {Shifted(v) : v \in Outermost(Body)}
<1>1. ClosedBy(Body, Len(Body)) = Outermost(Body)
  BY AllRead, OutermostProperty DEF ClosedBy
<1> QED BY <1>1, AllRead DEF MatchedInv

\* In a text whose brackets all match, the candidates are its outermost values.
THEOREM OutermostCorrect == ScanSpec => []OutermostFound
<1>1. ScanInv /\ MatchedInv => OutermostFound
  BY AllFound DEF OutermostFound, Body, Offset, Shifted
<1> QED BY <1>1, ScanInvariant, PTL

\* A text that is one value has no other outermost one.
LEMMA ValueAlone ==
  ASSUME NEW s \in Seq(Characters), IsValue(s)
  PROVE  Outermost(s) = {<<1, Len(s)>>}
<1>1. /\ Len(s) \in Nat \ {0} /\ DOMAIN s = 1 .. Len(s) /\ s[1] \in Opening
      /\ ClosedAt(s, 1) = Len(s) /\ Balanced(s)
  BY DEF IsValue
<1>2. Depth(s, 1) = 1 /\ 1 \in 1 .. Len(s)
  <2>1. 0 \in 0 .. Len(s) - 1 /\ 0 + 1 = 1
    BY <1>1
  <2> QED BY <1>1, <2>1, DepthStep
<1>3. <<1, Len(s)>> \in Outermost(s)
  BY <1>1, <1>2 DEF Outermost
<1>4. ASSUME NEW v \in Outermost(s)
      PROVE  v = <<1, Len(s)>>
  <2>1. /\ v[1] \in 1 .. Len(s) /\ v[2] \in v[1] + 1 .. Len(s)
        /\ Depth(s, v[1] - 1) = 0
    BY <1>1, OutermostProperty
  <2>2. \A r \in 1 .. Len(s) - 1 : Depth(s, r) >= 1
    BY <1>1, <1>2, ClosedAtProperty
  <2>3. v[1] = 1
    <3>1. v[1] # 1 => v[1] - 1 \in 1 .. Len(s) - 1
      BY <2>1
    <3> QED BY <2>1, <2>2, <3>1
  <2> QED BY <1>1, <2>3 DEF Outermost
<1> QED BY <1>3, <1>4

\* The first and the last character of the isolated text.
LEMMA WholeText ==
  ASSUME NEW i \in Nat, NEW j \in Nat, Isolated = <<i, j>>, Len(Body) = j - Offset
  PROVE  Shifted(<<1, Len(Body)>>) = <<i, j>>
<1>1. Offset = i - 1
  BY DEF Offset
<1>2. 1 + Offset = i /\ Len(Body) + Offset = j
  BY <1>1
<1> QED BY <1>2 DEF Shifted

\* Where the object is all that is isolated, it is the only candidate, and it is chosen.
LEMMA ChooseObject == ScanInv /\ MatchedInv /\ Choose => ObjectInProseFound'
<1> SUFFICES ASSUME ScanInv, MatchedInv, Choose,
                    NEW i \in Positions("{"), NEW j \in Positions("}"), i < j,
                    i = Min(Positions("{")), j = Max(Positions("}")),
                    IsJson(Part(<<i, j>>)), IsValue(Part(<<i, j>>))
             PROVE  result' = <<i, j>>
  BY DEF ObjectInProseFound, Choose, Positions, Part
<1>1. Isolated = <<i, j>>
  BY DEF Isolated
<1>2. Body = Part(<<i, j>>) /\ Offset = i - 1 /\ Balanced(Body) /\ IsValue(Body)
  BY <1>1 DEF Body, Offset, IsValue
<1>3. Body \in Seq(Characters) /\ Len(Body) = j - Offset /\ i \in Nat /\ j \in Nat
  BY <1>1, IsolatedProperty DEF ScanInv
<1>4. Range(found) = {<<i, j>>}
  <2>1. Range(found) = {Shifted(v) : v \in {<<1, Len(Body)>>}}
    BY <1>2, <1>3, AllFound, ValueAlone DEF Choose
  <2>2. Shifted(<<1, Len(Body)>>) = <<i, j>>
    BY <1>1, <1>3, WholeText
  <2> QED BY <2>1, <2>2
<1>5. \A k \in DOMAIN found : found[k] = <<i, j>>
  BY <1>4 DEF Range
<1>6. DOMAIN found # {} /\ \A k \in DOMAIN found : IsJson(Part(found[k]))
  BY <1>4, <1>5 DEF Range
<1> QED BY <1>5, <1>6 DEF Choose

\* The only object of an answer is what the script reads, whatever prose surrounds it, if the
\* brackets in its quoted strings match those outside.
THEOREM ObjectCorrect == ScanSpec => []ObjectInProseFound
<1>1. ScanInit => ObjectInProseFound
  BY DEF ScanInit, ObjectInProseFound
<1>2. ScanInv /\ MatchedInv /\ ObjectInProseFound /\ [ScanNext]_scanVars => ObjectInProseFound'
  <2> SUFFICES ASSUME ScanInv, MatchedInv, ObjectInProseFound, [ScanNext]_scanVars
               PROVE  ObjectInProseFound'
    OBVIOUS
  <2>1. CASE Choose
    BY <2>1, ChooseObject
  <2>2. CASE Isolate \/ Open \/ Close \/ Skip \/ Scanned
    BY <2>2 DEF Isolate, Open, Close, Skip, Scanned, Scanning, ObjectInProseFound
  <2>3. CASE UNCHANGED scanVars
    <3>1. UNCHANGED <<answer, pc, result>>
      BY <2>3 DEF scanVars
    <3>2. \A c : Positions(c)' = Positions(c)
      BY <3>1 DEF Positions
    <3>3. \A span : Part(span)' = Part(span)
      BY <3>1 DEF Part
    <3> QED BY <3>1, <3>2, <3>3 DEF ObjectInProseFound
  <2> QED BY <2>1, <2>2, <2>3 DEF ScanNext
<1> QED BY <1>1, <1>2, ScanInvariant, PTL DEF ScanSpec
=============================================================================
