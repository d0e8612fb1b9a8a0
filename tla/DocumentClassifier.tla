------------------------ MODULE DocumentClassifier ------------------------
(***************************************************************************)
(* One run of openai.py, the script Paperless starts after it has consumed *)
(* a document (PAPERLESS_POST_CONSUME_SCRIPT), as deployed: ENABLE_VISION   *)
(* is False, so that main always takes its fallback branch.  The run reads *)
(* the names Paperless knows, downloads the document, asks the language     *)
(* model and patches the document, in as many separate requests, while      *)
(* users edit the document and delete names.                                *)
(***************************************************************************)
EXTENDS Naturals, FiniteSets

CONSTANTS
  Tags, Correspondents, DocumentTypes,  \* the names Paperless starts with
  Marks,       \* the tags 111 and 112, which every patch adds
  NoName,      \* a null correspondent or document type
  MaxRetries,  \* max_retries of classify_document
  MaxEdits,    \* bound on edits of the text by a user
  MaxDeletes   \* bound on names deleted by a user

ASSUME ClassifierAssumption ==
  /\ Marks \subseteq Tags
  /\ NoName \notin Correspondents \cup DocumentTypes
  /\ MaxRetries \in Nat \ {0}
  /\ {MaxEdits, MaxDeletes} \subseteq Nat

VARIABLES
  known,    \* per list, the names Paperless has now
  doc,      \* the document in Paperless
  latest,   \* number of the newest text of the document
  deletes,  \* names deleted so far
  at,       \* what the run does next
  options,  \* per list, the names the run has fetched
  text,     \* the text of the document, as downloaded
  posts,    \* requests sent to the language model
  reply,    \* what the language model answered
  outcome,  \* how the run ended
  raced     \* ghost: the text was edited between the download and the patch

vars == <<known, doc, latest, deletes, at, options, text, posts, reply, outcome, raced>>
runVars == <<at, options, text, posts, reply, outcome>>
userVars == <<known, latest, deletes, raced>>

Lists == {"tags", "correspondents", "document_types"}
Names == [tags |-> Tags, correspondents |-> Correspondents, document_types |-> DocumentTypes]
After == [tags |-> "correspondents", correspondents |-> "document_types",
          document_types |-> "download"]

\* Texts are numbered by age; number 0 is the empty text.
Texts == 0 .. MaxEdits + 1

Documents == [content : Texts, tags : SUBSET Tags,
              correspondent : Correspondents \cup {NoName},
              document_type : DocumentTypes \cup {NoName},
              title : {"given", "suggested", ""}, created : {"given", "suggested", ""}]

\* A usable answer: names, offered or not, or an empty string where nothing matches.  An unfit
\* title is null, no text, or longer than Paperless stores; an unfit date has a year that strftime
\* writes with fewer than four digits.
Answers == [tag : SUBSET Tags, correspondent : Correspondents \cup {""},
            document_type : DocumentTypes \cup {""},
            title : {"suggested", "unfit", ""},
            creation_date : {"suggested", "unfit", "malformed", ""}]

NoAnswer == [tag |-> {}, correspondent |-> "", document_type |-> "", title |-> "", creation_date |-> ""]

Ended == {"done", "crashed"}
Outcomes == {"running", "no_document", "no_input", "rate_limited", "refused", "unusable",
             "updated", "rejected", "failed", "exception"}

TypeOK ==
  /\ {known, options} \subseteq [Lists -> SUBSET (Tags \cup Correspondents \cup DocumentTypes)]
  /\ \A l \in Lists : known[l] \subseteq Names[l] /\ options[l] \subseteq Names[l]
  /\ doc \in Documents
  /\ latest \in Texts /\ text \in Texts
  /\ deletes \in 0 .. MaxDeletes
  /\ at \in Lists \cup {"download", "classify", "update", "unusable"} \cup Ended
  /\ posts \in 0 .. MaxRetries
  /\ reply \in Answers
  /\ outcome \in Outcomes
  /\ raced \in BOOLEAN

-----------------------------------------------------------------------------
(* The run *)

Init ==
  /\ known = Names
  /\ \E t \in {0, 1}, tags \in SUBSET (Tags \ Marks), c \in Correspondents \cup {NoName} :
       /\ doc = [content |-> t, tags |-> tags, correspondent |-> c, document_type |-> NoName,
                 title |-> "given", created |-> "given"]
       /\ latest = t
  /\ deletes = 0
  /\ at = "tags"
  /\ options = [l \in Lists |-> {}]
  /\ text = 0
  /\ posts = 0
  /\ reply = NoAnswer
  /\ outcome = "running"
  /\ raced = FALSE

End(place, why) ==
  /\ at' = place
  /\ outcome' = why

\* A request raises an exception that nothing catches, and the script ends.
Exception ==
  /\ at \in Lists \cup {"download", "update"}
  /\ End("crashed", "exception")
  /\ UNCHANGED <<userVars, doc, options, text, posts, reply>>

\* fetch_metadata_list: one page of a list; the last page has no 'next'.
FetchPage(l) ==
  /\ at = l
  /\ \E page \in SUBSET (known[l] \ options[l]) :
       /\ page # {} \/ known[l] \subseteq options[l]
       /\ options' = [options EXCEPT ![l] = @ \cup page]
  /\ at' = IF known[l] \subseteq options'[l] THEN After[l] ELSE l
  /\ UNCHANGED <<userVars, doc, text, posts, reply, outcome>>

\* fetch_metadata_list: after an error the pages read so far are the list.
FetchError(l) ==
  /\ at = l
  /\ at' = After[l]
  /\ UNCHANGED <<userVars, doc, options, text, posts, reply, outcome>>

\* Fault injection: downloads are answered from a response cached before the run.
DownloadCached ==
  /\ at = "download"
  /\ \E t \in 0 .. doc.content : text' = t
  /\ at' = "classify"
  /\ UNCHANGED <<userVars, doc, options, posts, reply, outcome>>

Download ==
  /\ at = "download"
  /\ text' = doc.content
  /\ at' = "classify"
  /\ UNCHANGED <<userVars, doc, options, posts, reply, outcome>>

DownloadError ==
  /\ at = "download"
  /\ End("done", "no_document")
  /\ UNCHANGED <<userVars, doc, options, text, posts, reply>>

\* classify_document asks nothing without a text and three lists.
Complete == text # 0 /\ \A l \in Lists : options[l] # {}

NothingToClassify ==
  /\ at = "classify"
  /\ ~Complete
  /\ End("done", "no_input")
  /\ UNCHANGED <<userVars, doc, options, text, posts, reply>>

\* The model answers; its text may hold no JSON object (extract_json_from_text).
Classify ==
  /\ at = "classify"
  /\ Complete
  /\ posts' = posts + 1
  /\ \/ reply' \in Answers /\ at' = "update"
     \/ reply' = NoAnswer /\ at' = "unusable"
  /\ UNCHANGED <<userVars, doc, options, text, outcome>>

\* Fault injection: a rate limit is retried without a bound.
RetryForever ==
  /\ at = "classify"
  /\ Complete
  /\ posts' = posts + 1
  /\ UNCHANGED <<userVars, doc, at, options, text, reply, outcome>>

\* Every other status, 429 included, and every exception returns from the retry loop.
ClassifyError ==
  /\ at = "classify"
  /\ Complete
  /\ posts' = posts + 1
  /\ \E why \in {"rate_limited", "refused"} : End("done", why)
  /\ UNCHANGED <<userVars, doc, options, text, reply>>

\* Fault injection: names are not checked against the options.
LookupUnchecked(l, name) == name

\* The id of the first option of that name, or None.
Lookup(l, name) == IF name \in options[l] THEN name ELSE NoName

\* extract_classification_data returns {}, and {}['tag'] raises KeyError.
UpdateUnusable ==
  /\ at = "unusable"
  /\ End("crashed", "unusable")
  /\ UNCHANGED <<userVars, doc, options, text, posts, reply>>

\* Fault injection: keys with empty strings are sent.
SentAsIs(new, old) == IF new = "malformed" THEN "" ELSE new

Suggested(new, old) == IF new \in {"", "malformed"} THEN old ELSE new

\* The document a PATCH asks for.  A key with an empty string is left out of the payload, an
\* unparsable date becomes one, and a text with an apology of the model is not sent back; any
\* other title is sent as the model wrote it.
Patched(apology) ==
  [content |-> IF apology THEN doc.content ELSE text,
   tags |-> (reply.tag \cap options["tags"]) \cup Marks,
   correspondent |-> Lookup("correspondents", reply.correspondent),
   document_type |-> Lookup("document_types", reply.document_type),
   title |-> Suggested(reply.title, doc.title),
   created |-> Suggested(reply.creation_date, doc.created)]

\* Paperless refuses a patch that names an id it no longer has, and one with a title or a date it
\* cannot store.
Accepted(d) ==
  /\ "unfit" \notin {d.title, d.created}
  /\ d.tags \subseteq known["tags"]
  /\ d.correspondent \in known["correspondents"] \cup {NoName}
  /\ d.document_type \in known["document_types"] \cup {NoName}

Update ==
  /\ at = "update"
  /\ \E apology \in BOOLEAN :
       IF Accepted(Patched(apology))
       THEN doc' = Patched(apology) /\ End("done", "updated")
       ELSE UNCHANGED doc /\ End("done", "rejected")
  /\ UNCHANGED <<userVars, options, text, posts, reply>>

\* Any other status, that of a document deleted in the meantime or of a server in trouble, is
\* logged like a refusal.
UpdateError ==
  /\ at = "update"
  /\ End("done", "failed")
  /\ UNCHANGED <<userVars, doc, options, text, posts, reply>>

-----------------------------------------------------------------------------
(* Users of Paperless *)

EditText ==
  /\ latest < MaxEdits + 1
  /\ latest' = latest + 1
  /\ doc' = [doc EXCEPT !.content = latest + 1]
  /\ raced' = (raced \/ at \in {"classify", "update", "unusable"})
  /\ UNCHANGED <<runVars, known, deletes>>

\* Deleting a name takes it off the document as well.
DeleteName(l) ==
  /\ deletes < MaxDeletes
  /\ \E n \in known[l] :
       /\ known' = [known EXCEPT ![l] = @ \ {n}]
       /\ doc' = [doc EXCEPT !.tags = @ \ {n},
                             !.correspondent = IF @ = n THEN NoName ELSE @,
                             !.document_type = IF @ = n THEN NoName ELSE @]
  /\ deletes' = deletes + 1
  /\ UNCHANGED <<runVars, latest, raced>>

Run ==
  \/ \E l \in Lists : FetchPage(l) \/ FetchError(l)
  \/ Exception \/ Download \/ DownloadError
  \/ NothingToClassify \/ Classify \/ ClassifyError
  \/ UpdateUnusable \/ Update \/ UpdateError

Users == EditText \/ \E l \in Lists : DeleteName(l)

Next == Run \/ Users

Spec == Init /\ [][Next]_vars

-----------------------------------------------------------------------------
(* Properties *)

\* The script writes back the text it downloaded.  It may undo an edit that was made between
\* its download and its patch, and no other: an edit from before the download survives.
StaleTextOnlyIfRaced == doc.content < latest => raced

\* No step empties what a document has: an answer without a title, with a malformed date, or
\* for a text already apologetic, keeps the title, the date and the text.
NeverEmptied ==
  [][/\ doc.content # 0 => doc'.content # 0
     /\ doc'.title # ""
     /\ doc'.created # ""]_vars

\* Paperless refuses a patch only because a name the script had fetched, or one of the two
\* marks, was deleted in the meantime, or because the model's title or date is one Paperless
\* cannot store, which the script does not check: no name the model invents, or that the script
\* did not fetch, is ever the reason.
RejectedOnlyIfStaleOrUnfit ==
  outcome = "rejected" =>
    \/ ~ Marks \subseteq known["tags"]
    \/ \E l \in Lists : ~ options[l] \subseteq known[l]
    \/ "unfit" \in {reply.title, reply.creation_date}
=============================================================================
