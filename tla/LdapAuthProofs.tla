--------------------------- MODULE LdapAuthProofs ---------------------------
(***************************************************************************)
(* What a login is granted, for any directory, any number of changes and    *)
(* any order of the requests.                                               *)
(***************************************************************************)
EXTENDS LdapAuth, TLAPS

\* An entry found is a person's.
LEMMA FoundType ==
  ASSUME NEW dn \in Dns
  PROVE  /\ Found(dn) \in [dn : Dns, permitted : BOOLEAN, admin : BOOLEAN]
         /\ Found(dn).dn = dn
         /\ Found(dn) # Nobody
<1>1. "nobody" \notin Dns
  BY LdapAssumption DEF LdapAssumption
<1>2. Found(dn) \in [dn : Dns, permitted : BOOLEAN, admin : BOOLEAN]
  BY DEF Found
<1> QED BY <1>1, <1>2 DEF Found, Nobody

\* The history holds entries of persons.
LEMMA HeldType ==
  ASSUME NEW dir \in [Dns -> Entries \cup {NoEntry}]
  PROVE  Held(dir) \subseteq Dns \X (Entries \cup {NoEntry})
BY DEF Held

\* The script and the directory keep their types, whatever the directory.
THEOREM TypeCorrect == Spec => []TypeOK
<1>1. Init => TypeOK
  <2> SUFFICES ASSUME Init PROVE TypeOK
    OBVIOUS
  <2>1. NoLogin \in Logins
    BY DEF NoLogin, Logins
  <2>2. 0 \in 0 .. MaxChanges
    BY LdapAssumption DEF LdapAssumption
  <2> QED BY <2>1, <2>2 DEF Init, TypeOK
<1>2. TypeOK /\ [Next]_vars => TypeOK'
  <2> SUFFICES ASSUME TypeOK, [Next]_vars PROVE TypeOK'
    OBVIOUS
  <2>1. ASSUME NEW dn \in Dns, NEW new \in Entries \cup {NoEntry}, Change(dn, new)
        PROVE  TypeOK'
    <3>1. directory' \in [Dns -> Entries \cup {NoEntry}]
      BY <2>1 DEF Change, TypeOK
    <3>2. changes' \in 0 .. MaxChanges
      BY <2>1, LdapAssumption DEF Change, TypeOK, LdapAssumption
    <3>3. seen' \subseteq Dns \X (Entries \cup {NoEntry})
      BY <2>1, <3>1, HeldType DEF Change, TypeOK
    <3> QED BY <2>1, <3>1, <3>2, <3>3 DEF Change, TypeOK
  <2>2. ASSUME NEW given \in Logins, NEW application \in {"home-assistant", "monica"},
               Start(application, given)
        PROVE  TypeOK'
    <3>1. seen' \subseteq Dns \X (Entries \cup {NoEntry})
      BY <2>2, HeldType DEF Start, TypeOK
    <3> QED BY <2>2, <3>1 DEF Start, TypeOK
  <2>3. CASE Bind
    BY <2>3 DEF Bind, TypeOK
  <2>4. CASE RequestFails
    BY <2>4 DEF RequestFails, End, TypeOK
  <2>5. CASE Rebind
    <3>1. exit' \in {"error"} \cup Roles
      BY <2>5 DEF Rebind, End, Roles
    <3> QED BY <2>5, <3>1 DEF Rebind, End, TypeOK
  <2>6. CASE Search
    <3>1. CASE Matches = {}
      BY <2>6, <3>1 DEF Search, End, TypeOK
    <3>2. CASE Matches # {}
      <4>1. PICK dn \in Matches :
              /\ entry' = Found(dn)
              /\ IF Found(dn).permitted THEN pc' = "rebind" /\ exit' = exit ELSE End("error")
        BY <2>6, <3>2 DEF Search
      <4>2. dn \in Dns
        BY DEF Matches
      <4> QED BY <2>6, <4>1, <4>2, FoundType DEF Search, End, TypeOK
    <3> QED BY <3>1, <3>2
  <2>7. CASE UNCHANGED vars
    BY <2>7 DEF vars, TypeOK
  <2> QED BY <2>1, <2>2, <2>3, <2>4, <2>5, <2>6, <2>7
       DEF Next, HomeAssistantRun, MonicaRun, Run
<1> QED BY <1>1, <1>2, PTL DEF Spec

-----------------------------------------------------------------------------

\* What the history has of the entry that the script found.
Permits(s) ==
  /\ s[1] = entry.dn
  /\ s[2].uid = login.username
  /\ "users" \in s[2].groups
  /\ ("admins" \in s[2].groups) = entry.admin

\* The inductive strengthening: while a login runs the history has the present directory, and
\* after the search an entry that lets the user in.
LoginInv ==
  /\ pc # "idle" => Held(directory) \subseteq seen
  /\ pc = "rebind" => \E s \in seen : Permits(s)
  /\ GrantedAsHeld

\* A login ends with a role only on an entry and a password that the directory has held since
\* it began (ldap-auth.py, whatever changes between its requests).
THEOREM GrantedCorrect == Spec => []GrantedAsHeld
<1>1. Init => LoginInv
  BY DEF Init, LoginInv, GrantedAsHeld, Roles
<1>2. TypeOK /\ LoginInv /\ [Next]_vars => LoginInv'
  <2> SUFFICES ASSUME TypeOK, LoginInv, [Next]_vars PROVE LoginInv'
    OBVIOUS
  <2>1. ASSUME NEW dn \in Dns, NEW new \in Entries \cup {NoEntry}, Change(dn, new)
        PROVE  LoginInv'
    <3>1. seen \subseteq seen' /\ (pc # "idle" => Held(directory') \subseteq seen')
      BY <2>1 DEF Change
    <3>2. UNCHANGED <<pc, entry, login, exit>>
      BY <2>1 DEF Change
    <3>3. (pc # "idle" => Held(directory) \subseteq seen)'
      BY <3>1, <3>2 DEF Held
    <3>4. (pc = "rebind" => \E s \in seen : Permits(s))'
      BY <3>1, <3>2 DEF LoginInv, Permits
    <3>5. GrantedAsHeld'
      BY <3>1, <3>2 DEF LoginInv, GrantedAsHeld
    <3> QED BY <3>2, <3>3, <3>4, <3>5 DEF LoginInv
  <2>2. ASSUME NEW given \in Logins, NEW application \in {"home-assistant", "monica"},
               Start(application, given)
        PROVE  LoginInv'
    <3>1. exit' \notin Roles /\ pc' # "rebind"
      BY <2>2 DEF Start, Roles
    <3>2. (pc # "idle" => Held(directory) \subseteq seen)'
      BY <2>2 DEF Start, Held
    <3> QED BY <3>1, <3>2 DEF LoginInv, GrantedAsHeld
  <2>3. CASE Bind
    <3>1. UNCHANGED <<directory, seen, exit, login>> /\ pc # "idle" /\ pc' = "search"
      BY <2>3 DEF Bind
    <3> QED BY <3>1 DEF LoginInv, GrantedAsHeld, Held
  <2>4. CASE RequestFails
    <3>1. exit' \notin Roles /\ pc' = "idle"
      BY <2>4 DEF RequestFails, End, Roles
    <3> QED BY <3>1 DEF LoginInv, GrantedAsHeld
  <2>5. CASE Search
    <3>1. UNCHANGED <<directory, seen, login>> /\ pc = "search"
      BY <2>5 DEF Search
    <3>2. CASE pc' = "rebind"
      <4>1. PICK dn \in Matches : entry' = Found(dn) /\ Found(dn).permitted /\ exit' = exit
        BY <2>5, <3>2 DEF Search, End
      <4>2. /\ dn \in Dns /\ directory[dn].uid = login.username
            /\ Found(dn).dn = dn
            /\ "users" \in directory[dn].groups
            /\ Found(dn).admin = ("admins" \in directory[dn].groups)
        BY <4>1 DEF Matches, Found
      <4>3. <<dn, directory[dn]>> \in seen
        BY <3>1, <4>2 DEF LoginInv, Held
      <4>4. Permits(<<dn, directory[dn]>>)'
        BY <3>1, <4>1, <4>2 DEF Permits
      <4>5. (\E s \in seen : Permits(s))'
        BY <3>1, <4>3, <4>4 DEF Permits
      <4>6. GrantedAsHeld'
        BY <3>1, <4>1 DEF LoginInv, GrantedAsHeld
      <4>7. (pc # "idle" => Held(directory) \subseteq seen)'
        BY <3>1 DEF LoginInv, Held
      <4> QED BY <4>5, <4>6, <4>7 DEF LoginInv
    <3>3. CASE pc' # "rebind"
      <4>1. pc' = "idle" /\ exit' = "error"
        BY <2>5, <3>3 DEF Search, End
      <4> QED BY <4>1 DEF LoginInv, GrantedAsHeld, Roles
    <3> QED BY <3>2, <3>3
  <2>6. CASE Rebind
    <3>1. pc = "rebind" /\ pc' = "idle" /\ UNCHANGED <<login, seen>>
      BY <2>6 DEF Rebind, End
    <3>2. ASSUME exit' \in Roles PROVE GrantedAsHeld'
      <4>1. /\ directory[entry.dn].password = login.password
            /\ exit' = IF entry.admin THEN "system-admin" ELSE "system-users"
        BY <2>6, <3>2 DEF Rebind, End, Roles
      <4>2. PICK s \in seen : Permits(s)
        BY <3>1 DEF LoginInv
      <4>3. entry.dn \in Dns
        BY <3>1 DEF TypeOK
      <4> DEFINE t == <<entry.dn, directory[entry.dn]>>
      <4>4. t \in seen
        BY <3>1, <4>3 DEF LoginInv, Held
      <4>5. t[1] = entry.dn /\ t[2].password = login.password
        BY <4>1
      <4> HIDE DEF t
      <4>6. ("admins" \in s[2].groups) = (exit' = "system-admin")
        <5>1. ("admins" \in s[2].groups) = entry.admin
          BY <4>2 DEF Permits
        <5>2. entry.admin \in BOOLEAN
          BY <3>1 DEF TypeOK, Nobody
        <5>3. CASE entry.admin = TRUE
          BY <4>1, <5>1, <5>3
        <5>4. CASE entry.admin = FALSE
          BY <4>1, <5>1, <5>4
        <5> QED BY <5>2, <5>3, <5>4
      <4> QED BY <3>1, <4>2, <4>4, <4>5, <4>6 DEF GrantedAsHeld, Permits
    <3> QED BY <3>1, <3>2 DEF LoginInv, GrantedAsHeld
  <2>7. CASE UNCHANGED vars
    BY <2>7 DEF vars, LoginInv, GrantedAsHeld, Permits, Held
  <2> QED BY <2>1, <2>2, <2>3, <2>4, <2>5, <2>6, <2>7
       DEF Next, HomeAssistantRun, MonicaRun, Run
<1>3. LoginInv => GrantedAsHeld
  BY DEF LoginInv
<1> QED BY <1>1, <1>2, <1>3, TypeCorrect, PTL DEF Spec

-----------------------------------------------------------------------------

\* The inductive strengthening: until a login ends, the history has the present directory, and
\* after the search an entry of the person found with the name that was typed.
NamedInv ==
  /\ pc # "idle" => exit = "none" /\ Held(directory) \subseteq seen
  /\ pc = "rebind" => \E s \in seen : s[1] = entry.dn /\ s[2].uid = login.username
  /\ EntitledGranted

\* Somebody entitled is turned away only if a request failed, or if somebody else under the
\* base has the same name (ldap-auth.py takes the first entry of its search).
THEOREM EntitledCorrect == Spec => []EntitledGranted
<1>1. Init => NamedInv
  BY DEF Init, NamedInv, EntitledGranted
<1>2. TypeOK /\ NamedInv /\ [Next]_vars => NamedInv'
  <2> SUFFICES ASSUME TypeOK, NamedInv, [Next]_vars PROVE NamedInv'
    OBVIOUS
  <2>1. ASSUME NEW dn \in Dns, NEW new \in Entries \cup {NoEntry}, Change(dn, new)
        PROVE  NamedInv'
    <3>1. UNCHANGED <<pc, entry, login, exit, failed>>
      BY <2>1 DEF Change
    <3>2. CASE pc = "idle"
      <4>1. seen' = seen
        BY <2>1, <3>2 DEF Change
      <4> QED BY <3>1, <3>2, <4>1 DEF NamedInv, EntitledGranted, Entitled
    <3>3. CASE pc # "idle"
      <4>1. seen' = seen \cup Held(directory')
        BY <2>1, <3>3 DEF Change
      <4>2. Held(directory)' = Held(directory')
        BY DEF Held
      <4>3. EntitledGranted'
        BY <3>1, <3>3 DEF NamedInv, EntitledGranted
      <4> QED BY <3>1, <3>3, <4>1, <4>2, <4>3 DEF NamedInv
    <3> QED BY <3>2, <3>3
  <2>2. ASSUME NEW given \in Logins, NEW application \in {"home-assistant", "monica"},
               Start(application, given)
        PROVE  NamedInv'
    <3>1. pc' # "rebind" /\ UNCHANGED directory
      BY <2>2 DEF Start
    <3>2. \/ pc' = "idle" /\ seen' = {}
          \/ pc' # "idle" /\ exit' = "none" /\ seen' = Held(directory)
      BY <2>2 DEF Start
    <3> QED BY <3>1, <3>2 DEF NamedInv, EntitledGranted, Entitled, Held
  <2>3. CASE Bind
    <3>1. UNCHANGED <<directory, seen, exit, login, failed>> /\ pc # "idle" /\ pc' = "search"
      BY <2>3 DEF Bind
    <3> QED BY <3>1 DEF NamedInv, EntitledGranted, Held
  <2>4. CASE RequestFails
    <3>1. failed' = TRUE /\ pc' = "idle"
      BY <2>4 DEF RequestFails, End
    <3> QED BY <3>1 DEF NamedInv, EntitledGranted
  <2>5. CASE Search
    <3>1. UNCHANGED <<directory, seen, login, failed>> /\ pc = "search" /\ exit = "none"
      BY <2>5 DEF Search, NamedInv
    <3>2. \A dn \in Dns : <<dn, directory[dn]>> \in seen
      BY <3>1 DEF NamedInv, Held
    <3>3. CASE Matches = {}
      <4>1. \A dn \in Dns : directory[dn].uid # login.username
        BY <3>3 DEF Matches
      <4>2. \A dn \in Dns : ~Entitled(dn)
        BY <3>2, <4>1 DEF Entitled
      <4>3. pc' = "idle"
        BY <2>5, <3>3 DEF Search, End
      <4> QED BY <3>1, <4>2, <4>3 DEF NamedInv, EntitledGranted, Entitled
    <3>4. ASSUME NEW dn \in Matches, entry' = Found(dn),
                 IF Found(dn).permitted THEN pc' = "rebind" /\ exit' = exit ELSE End("error")
          PROVE  NamedInv'
      <4>1. dn \in Dns /\ directory[dn].uid = login.username /\ Found(dn).dn = dn
        BY DEF Matches, Found
      <4>2. <<dn, directory[dn]>> \in seen
        BY <3>2, <4>1
      <4>3. CASE Found(dn).permitted
        <5>1. pc' = "rebind" /\ exit' = "none"
          BY <3>1, <3>4, <4>3
        <5>2. \E s \in seen' : s[1] = entry'.dn /\ s[2].uid = login'.username
          BY <3>1, <3>4, <4>1, <4>2
        <5> QED BY <3>1, <5>1, <5>2 DEF NamedInv, EntitledGranted, Held
      <4>4. CASE ~Found(dn).permitted
        <5>1. pc' = "idle"
          BY <3>4, <4>4 DEF End
        <5>2. "users" \notin directory[dn].groups
          BY <4>4 DEF Found
        <5>3. ~Entitled(dn)
          BY <4>2, <5>2 DEF Entitled
        <5>4. ASSUME NEW d \in Dns, Entitled(d)
              PROVE  \E s \in seen : s[1] # d /\ s[2].uid = login.username
          BY <4>1, <4>2, <5>3, <5>4
        <5> QED BY <3>1, <5>1, <5>4 DEF NamedInv, EntitledGranted, Entitled
      <4> QED BY <4>3, <4>4
    <3> QED BY <2>5, <3>3, <3>4 DEF Search
  <2>6. CASE Rebind
    <3>1. pc = "rebind" /\ pc' = "idle" /\ UNCHANGED <<directory, login, seen, failed, entry>>
      BY <2>6 DEF Rebind, End
    <3>2. entry.dn \in Dns
      BY <3>1 DEF TypeOK
    <3>3. <<entry.dn, directory[entry.dn]>> \in seen
      BY <3>1, <3>2 DEF NamedInv, Held
    <3>4. ASSUME exit' = "error", NEW dn \in Dns, Entitled(dn)
          PROVE  \E s \in seen : s[1] # dn /\ s[2].uid = login.username
      <4>1. directory[entry.dn].password # login.password
        BY <2>6, <3>4 DEF Rebind, End
      <4>2. dn # entry.dn
        BY <3>3, <3>4, <4>1 DEF Entitled
      <4> QED BY <3>1, <4>2 DEF NamedInv
    <3> QED BY <3>1, <3>4 DEF NamedInv, EntitledGranted, Entitled
  <2>7. CASE UNCHANGED vars
    BY <2>7 DEF vars, NamedInv, EntitledGranted, Entitled, Held
  <2> QED BY <2>1, <2>2, <2>3, <2>4, <2>5, <2>6, <2>7
       DEF Next, HomeAssistantRun, MonicaRun, Run
<1>3. NamedInv => EntitledGranted
  BY DEF NamedInv
<1> QED BY <1>1, <1>2, <1>3, TypeCorrect, PTL DEF Spec
=============================================================================
