------------------------ MODULE CloudflareDdnsProofs ------------------------
(***************************************************************************)
(* The safety of CloudflareDdns for any number of address changes.  The     *)
(* inductive invariant says what the copies a run holds may be: nobody but  *)
(* the run writes the record, so that what it read of it is still right,    *)
(* and the address it saw is no older than the record.                      *)
(***************************************************************************)
EXTENDS CloudflareDdns, TLAPS

CopiesInv ==
  /\ record <= address
  /\ pc \in {"zone", "record", "compare", "put", "notify"} /\ seen \in Addresses =>
       record <= seen /\ seen <= address
  /\ pc \in {"compare", "put"} => old \in {Null, Empty, record}
  /\ pc = "notify" => record = seen /\ seen \in Addresses
  /\ pc # "idle" => exit = "none"

\* The variables of the script and of its site keep their types.
THEOREM TypeCorrect == Spec => []TypeOK
<1>1. Init => TypeOK
  <2>1. 0 \in Addresses
    BY DdnsAssumption DEF DdnsAssumption, Addresses
  <2> QED
    BY <2>1 DEF Init, TypeOK
<1>2. TypeOK /\ [Next]_vars => TypeOK'
  <2> SUFFICES ASSUME TypeOK, [Next]_vars PROVE TypeOK'
    OBVIOUS
  <2> USE DdnsAssumption DEF DdnsAssumption, TypeOK
  <2>1. CASE AddressChange
    BY <2>1 DEF AddressChange, Addresses
  <2>2. CASE Start
    BY <2>2 DEF Start
  <2>3. CASE Fail
    BY <2>3 DEF Fail, Exit
  <2>4. CASE FetchAddress
    BY <2>4 DEF FetchAddress
  <2>5. CASE FetchZone
    BY <2>5 DEF FetchZone
  <2>6. CASE FetchRecord
    BY <2>6 DEF FetchRecord
  <2>7. CASE Compare
    BY <2>7 DEF Compare, Exit
  <2>8. CASE Put
    BY <2>8 DEF Put, Accepted, Exit
  <2>9. CASE PutUnanswered
    BY <2>9 DEF PutUnanswered, Accepted, Exit
  <2>10. CASE Notify
    BY <2>10 DEF Notify, Exit
  <2>11. CASE UNCHANGED vars
    BY <2>11 DEF vars
  <2> QED
    BY <2>1, <2>2, <2>3, <2>4, <2>5, <2>6, <2>7, <2>8, <2>9, <2>10, <2>11 DEF Next, Script
<1> QED
  BY <1>1, <1>2, PTL DEF Spec

LEMMA CopiesInvariant == Spec => []CopiesInv
<1>1. Init => CopiesInv
  BY DEF Init, CopiesInv
<1>2. TypeOK /\ CopiesInv /\ [Next]_vars => CopiesInv'
  <2> SUFFICES ASSUME TypeOK, CopiesInv, [Next]_vars PROVE CopiesInv'
    OBVIOUS
  <2> USE DdnsAssumption DEF DdnsAssumption, TypeOK, CopiesInv, Addresses, Garbage, Null, Empty, Accepted
  <2>1. CASE AddressChange
    BY <2>1 DEF AddressChange
  <2>2. CASE Start
    BY <2>2 DEF Start
  <2>3. CASE Fail
    BY <2>3 DEF Fail, Exit
  <2>4. CASE FetchAddress
    BY <2>4 DEF FetchAddress
  <2>5. CASE FetchZone
    BY <2>5 DEF FetchZone
  <2>6. CASE FetchRecord
    BY <2>6 DEF FetchRecord
  <2>7. CASE Compare
    BY <2>7 DEF Compare, Exit
  <2>8. CASE Put
    BY <2>8 DEF Put, Exit
  <2>9. CASE PutUnanswered
    BY <2>9 DEF PutUnanswered, Exit
  <2>10. CASE Notify
    BY <2>10 DEF Notify, Exit
  <2>11. CASE UNCHANGED vars
    BY <2>11 DEF vars
  <2> QED
    BY <2>1, <2>2, <2>3, <2>4, <2>5, <2>6, <2>7, <2>8, <2>9, <2>10, <2>11 DEF Next, Script
<1> QED
  BY <1>1, <1>2, TypeCorrect, PTL DEF Spec

\* The record never goes back to an older address.
THEOREM NeverOlderCorrect == Spec => NeverOlder
<1>1. TypeOK /\ CopiesInv /\ [Next]_vars => (record <= record')
  BY DdnsAssumption
     DEF DdnsAssumption, TypeOK, CopiesInv, Addresses, Garbage, Null, Empty, Accepted, Next, Script, vars,
         AddressChange, Start, Fail, FetchAddress, FetchZone, FetchRecord, Compare, Put,
         PutUnanswered, Notify, Exit
<1> QED
  BY <1>1, TypeCorrect, CopiesInvariant, PTL DEF Spec, NeverOlder

\* A run that exits with success leaves the record at the address it saw, unless both the
\* address service and Cloudflare answered it without a body.
THEOREM SuccessCorrect == Spec => SuccessMeansWritten
<1>1. TypeOK /\ CopiesInv /\ [Next]_vars =>
        (pc # "idle" /\ exit' = "ok" =>
           \/ record' = seen /\ seen \in Addresses
           \/ NothingRead /\ record' = record)
  BY DdnsAssumption
     DEF DdnsAssumption, TypeOK, CopiesInv, Addresses, Garbage, Null, Empty, Accepted, Next, Script, vars,
         AddressChange, Start, Fail, FetchAddress, FetchZone, FetchRecord, Compare, Put,
         PutUnanswered, Notify, Exit, NothingRead
<1> QED
  BY <1>1, TypeCorrect, CopiesInvariant, PTL DEF Spec, SuccessMeansWritten
=============================================================================
