--------------------------- MODULE CloudflareDdns ---------------------------
(***************************************************************************)
(* cloudflare-ddns.sh, started every hour: reads the external address of    *)
(* the site and the DNS record at Cloudflare, and replaces the record when  *)
(* they differ.  Every curl lacks --fail, so that an error page is taken    *)
(* for an answer, and so is an answer without a body; jq prints "null" for  *)
(* a missing field, and nothing at all for no body.                         *)
(***************************************************************************)
EXTENDS Naturals

CONSTANT MaxChanges  \* bound on changes of the external address

ASSUME DdnsAssumption == MaxChanges \in Nat

\* Addresses are numbered by the order in which the provider assigned them.
Addresses == 0 .. MaxChanges
Garbage == MaxChanges + 1  \* an error page in place of an address
Null == MaxChanges + 2     \* what jq prints for a missing field
Empty == MaxChanges + 3    \* an answer without a body, and what jq prints for one

VARIABLES
  address,  \* the external address of the site
  record,   \* the content of the A record
  pc,       \* the next command of the script, "idle" between runs
  seen,     \* current_ipv4
  zone,     \* zone_id is a zone's
  old,      \* old_ipv4
  exit      \* how the last run ended

vars == <<address, record, pc, seen, zone, old, exit>>

TypeOK ==
  /\ address \in Addresses
  /\ record \in Addresses
  /\ pc \in {"idle", "address", "zone", "record", "compare", "put", "notify"}
  /\ seen \in Addresses \cup {Garbage, Empty}
  /\ zone \in BOOLEAN
  /\ old \in Addresses \cup {Null, Empty}
  /\ exit \in {"none", "ok", "error"}

Init ==
  /\ address = 0
  /\ record = 0
  /\ pc = "idle"
  /\ seen = Garbage
  /\ zone = FALSE
  /\ old = Null
  /\ exit = "none"

\* The provider assigns another address, at any time.
AddressChange ==
  /\ address < MaxChanges
  /\ address' = address + 1
  /\ UNCHANGED <<record, pc, seen, zone, old, exit>>

-----------------------------------------------------------------------------
(* The script *)

\* The CronJob starts a run, or its Job the next pod after one that failed.
Start ==
  /\ pc = "idle"
  /\ pc' = "address"
  /\ exit' = "none"
  /\ UNCHANGED <<address, record, seen, zone, old>>

Exit(how) ==
  /\ pc' = "idle"
  /\ exit' = how

\* A curl or a jq that fails ends the script (errexit, error_exit); so does a kill.
Fail ==
  /\ pc # "idle"
  /\ Exit("error")
  /\ UNCHANGED <<address, record, seen, zone, old>>

\* Fault injection: the address is asked of a cache.
FetchAddressCached ==
  /\ pc = "address"
  /\ seen' \in (0 .. address) \cup {Garbage, Empty}
  /\ pc' = "zone"
  /\ UNCHANGED <<address, record, zone, old, exit>>

FetchAddress ==
  /\ pc = "address"
  /\ seen' \in {address, Garbage, Empty}
  /\ pc' = "zone"
  /\ UNCHANGED <<address, record, zone, old, exit>>

\* No body leaves the identifier empty, which is no zone's either.
FetchZone ==
  /\ pc = "zone"
  /\ zone' \in BOOLEAN
  /\ pc' = "record"
  /\ UNCHANGED <<address, record, seen, old, exit>>

\* Fault injection: the answer is used without jq.
FetchRecordRaw ==
  /\ pc = "record"
  /\ old' \in {Garbage, Empty} \cup (IF zone THEN {record} ELSE {})
  /\ pc' = "compare"
  /\ UNCHANGED <<address, record, seen, zone, exit>>

\* The record of no zone is an error object, and .result[0] of it is null; jq prints nothing, and
\* ends well, for an answer without a body.
FetchRecord ==
  /\ pc = "record"
  /\ old' \in {Null, Empty} \cup (IF zone THEN {record} ELSE {})
  /\ pc' = "compare"
  /\ UNCHANGED <<address, record, seen, zone, exit>>

\* Fault injection: a record that differs is kept.
CompareInverted ==
  /\ pc = "compare"
  /\ IF seen # old THEN Exit("ok") ELSE pc' = "put" /\ UNCHANGED exit
  /\ UNCHANGED <<address, record, seen, zone, old>>

Compare ==
  /\ pc = "compare"
  /\ IF seen = old THEN Exit("ok") ELSE pc' = "put" /\ UNCHANGED exit
  /\ UNCHANGED <<address, record, seen, zone, old>>

\* Cloudflare updates a record that exists, and only to an address.
Accepted == zone /\ old \notin {Null, Empty} /\ seen \in Addresses

\* Fault injection: the answer's .success is not read.
PutUnchecked ==
  /\ pc = "put"
  /\ record' = IF Accepted THEN seen ELSE record
  /\ pc' = "notify"
  /\ UNCHANGED <<address, seen, zone, old, exit>>

Put ==
  /\ pc = "put"
  /\ \/ /\ Accepted
        /\ record' = seen
        /\ pc' = "notify"
        /\ UNCHANGED exit
     \/ /\ Exit("error")
        /\ UNCHANGED record
  /\ UNCHANGED <<address, seen, zone, old>>

\* The PUT took effect, and its answer did not arrive.
PutUnanswered ==
  /\ pc = "put"
  /\ Accepted
  /\ record' = seen
  /\ Exit("error")
  /\ UNCHANGED <<address, seen, zone, old>>

Notify ==
  /\ pc = "notify"
  /\ Exit("ok")
  /\ UNCHANGED <<address, record, seen, zone, old>>

Script ==
  Start \/ Fail \/ FetchAddress \/ FetchZone \/ FetchRecord \/ Compare \/ Put \/ PutUnanswered
    \/ Notify

Next == AddressChange \/ Script

Spec == Init /\ [][Next]_vars

\* The schedule never stops and no run hangs; and for ever again there is a run whose requests
\* all succeed, up to the update.
Fairness ==
  /\ WF_vars(Script)
  /\ SF_vars(FetchAddress /\ seen' = address)
  /\ SF_vars(FetchZone /\ zone' /\ seen = address)
  /\ SF_vars(FetchRecord /\ old' = record /\ seen = address)
  /\ SF_vars(Compare /\ old = record /\ seen = address)
  /\ SF_vars(Put /\ record' = seen)

FairSpec == Spec /\ Fairness

-----------------------------------------------------------------------------
(* Properties *)

\* The script compares two answers that had no body.
NothingRead == pc = "compare" /\ seen = Empty /\ old = Empty

\* A run that ends well leaves the record at an address, the one it saw, whatever failed before it
\* and whatever an earlier run that failed had already done; or both the address service and
\* Cloudflare answered it without a body, which the script takes for an address that has not
\* changed: it ends well, having read nothing and written nothing.
SuccessMeansWritten ==
  [][pc # "idle" /\ exit' = "ok" =>
       \/ record' = seen /\ seen \in Addresses
       \/ NothingRead /\ record' = record]_vars

\* The record never goes back to an older address, although every run acts on an address and
\* a record it read some requests ago.
NeverOlder == [][record <= record']_vars

\* Once the address stays, the record follows it, whatever was lost on the way.
RecordFollows == <>[](record = address)
=============================================================================
