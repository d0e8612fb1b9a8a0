------------------------------ MODULE LdapAuth ------------------------------
(***************************************************************************)
(* ldap-auth.py, of which Home Assistant and Monica have a copy each and    *)
(* run it for every login: it looks the user up in the directory with a     *)
(* helper account, reads the user's groups, and binds as the user to check  *)
(* the password.  Each of these is a request of its own, any of which may   *)
(* fail; the directory may change between them.                             *)
(***************************************************************************)
EXTENDS Naturals, FiniteSets

CONSTANTS
  Dns,        \* distinguished names of persons
  Uids,       \* what a user may type as a name
  Passwords,
  MaxChanges  \* bound on changes of the directory

ASSUME LdapAssumption ==
  /\ "nobody" \notin Dns /\ "unset" \notin Uids \cup Passwords
  /\ MaxChanges \in Nat

VARIABLES
  directory,  \* the entry of each person, or NoEntry
  changes,
  app,        \* the application that runs its script
  pc,         \* the request the script is at, "idle" between logins
  login,      \* username and password
  entry,      \* what it keeps of the entry that it found
  exit,       \* how it ended
  failed,     \* history: a request of this login has failed
  seen        \* history: the <<dn, directory[dn]>> there have been since it began

vars == <<directory, changes, app, pc, login, entry, exit, failed, seen>>

\* The groups of --ldap-group and --ldap-admin-group.
Groups == {"users", "admins"}

NoEntry == [uid |-> "unset", password |-> "unset", groups |-> {}]
Entries == [uid : Uids, password : Passwords, groups : SUBSET Groups]

\* The environment variables; one that is empty counts as unset.
Logins == [username : Uids \cup {"unset"}, password : Passwords \cup {"unset"}]
NoLogin == [username |-> "unset", password |-> "unset"]

Nobody == [dn |-> "nobody", permitted |-> FALSE, admin |-> FALSE]
Found(dn) ==
  [dn |-> dn,
   permitted |-> "users" \in directory[dn].groups,
   admin |-> "admins" \in directory[dn].groups]

Held(dir) == {<<dn, dir[dn]>> : dn \in Dns}

Roles == {"system-users", "system-admin"}

TypeOK ==
  /\ directory \in [Dns -> Entries \cup {NoEntry}]
  /\ changes \in 0 .. MaxChanges
  /\ app \in {"home-assistant", "monica"}
  /\ pc \in {"idle", "bind", "search", "rebind"}
  /\ login \in Logins
  /\ entry \in [dn : Dns, permitted : BOOLEAN, admin : BOOLEAN] \cup {Nobody}
  /\ pc = "rebind" => entry # Nobody
  /\ exit \in {"none", "error"} \cup Roles
  /\ failed \in BOOLEAN
  /\ seen \subseteq Dns \X (Entries \cup {NoEntry})

Init ==
  /\ directory \in [Dns -> Entries \cup {NoEntry}]
  /\ changes = 0
  /\ app = "home-assistant"
  /\ pc = "idle"
  /\ login = NoLogin
  /\ entry = Nobody
  /\ exit = "none"
  /\ failed = FALSE
  /\ seen = {}

\* An administrator adds, removes or changes an entry.
Change(dn, new) ==
  /\ changes < MaxChanges
  /\ new # directory[dn]
  /\ directory' = [directory EXCEPT ![dn] = new]
  /\ changes' = changes + 1
  /\ seen' = IF pc = "idle" THEN seen ELSE seen \cup Held(directory')
  /\ UNCHANGED <<app, pc, login, entry, exit, failed>>

-----------------------------------------------------------------------------
(* The script *)

\* Without a name or a password it ends at once.
Start(application, given) ==
  /\ pc = "idle"
  /\ app' = application
  /\ login' = given
  /\ entry' = Nobody
  /\ failed' = FALSE
  /\ IF "unset" \in {given.username, given.password}
     THEN pc' = "idle" /\ exit' = "error" /\ seen' = {}
     ELSE pc' = "bind" /\ exit' = "none" /\ seen' = Held(directory)
  /\ UNCHANGED <<directory, changes>>

End(code) == pc' = "idle" /\ exit' = code

\* A request that raises an exception: the server cannot be reached, or refuses it.
RequestFails ==
  /\ pc # "idle"
  /\ End("error")
  /\ failed' = TRUE
  /\ UNCHANGED <<directory, changes, app, login, entry, seen>>

\* The bind of the helper account.
Bind ==
  /\ pc = "bind"
  /\ pc' = "search"
  /\ UNCHANGED <<directory, changes, app, login, entry, exit, failed, seen>>

\* Entries anywhere under the base, not only in the container of the users.
Matches == {dn \in Dns : directory[dn].uid = login.username}

\* Fault injection: the number of entries is not looked at.
SearchUncounted ==
  /\ pc = "search"
  /\ IF Matches = {} THEN entry' = entry /\ pc' = "rebind" /\ exit' = exit
     ELSE \E dn \in Matches :
            /\ entry' = Found(dn)
            /\ IF Found(dn).permitted THEN pc' = "rebind" /\ exit' = exit ELSE End("error")
  /\ UNCHANGED <<directory, changes, app, login, failed, seen>>

\* Fault injection: either group is enough.
SearchEither ==
  /\ pc = "search"
  /\ IF Matches = {} THEN entry' = entry /\ End("error")
     ELSE \E dn \in Matches :
            /\ entry' = Found(dn)
            /\ IF Found(dn).permitted \/ Found(dn).admin THEN pc' = "rebind" /\ exit' = exit
               ELSE End("error")
  /\ UNCHANGED <<directory, changes, app, login, failed, seen>>

\* Fault injection: both groups are needed.
SearchBoth ==
  /\ pc = "search"
  /\ IF Matches = {} THEN entry' = entry /\ End("error")
     ELSE \E dn \in Matches :
            /\ entry' = Found(dn)
            /\ IF Found(dn).permitted /\ Found(dn).admin THEN pc' = "rebind" /\ exit' = exit
               ELSE End("error")
  /\ UNCHANGED <<directory, changes, app, login, failed, seen>>

\* The first entry that the server returns, and its groups.
Search ==
  /\ pc = "search"
  /\ IF Matches = {} THEN entry' = entry /\ End("error")
     ELSE \E dn \in Matches :
            /\ entry' = Found(dn)
            /\ IF Found(dn).permitted THEN pc' = "rebind" /\ exit' = exit ELSE End("error")
  /\ UNCHANGED <<directory, changes, app, login, failed, seen>>

\* The bind as the user; if it succeeds, the name and the role are printed.
Rebind ==
  /\ pc = "rebind"
  /\ IF directory[entry.dn].password = login.password
     THEN End(IF entry.admin THEN "system-admin" ELSE "system-users")
     ELSE End("error")
  /\ UNCHANGED <<directory, changes, app, login, entry, failed, seen>>

Run(application) == app = application /\ (Bind \/ Search \/ Rebind \/ RequestFails)

HomeAssistantRun == Run("home-assistant")
MonicaRun == Run("monica")

Next ==
  \/ \E dn \in Dns, new \in Entries \cup {NoEntry} : Change(dn, new)
  \/ \E given \in Logins, application \in {"home-assistant", "monica"} : Start(application, given)
  \/ HomeAssistantRun
  \/ MonicaRun

Spec == Init /\ [][Next]_vars

-----------------------------------------------------------------------------
(* Properties *)

\* A login ends with a role only if, since it began, the directory has held an entry of
\* that name with the groups of the role, and the password that was typed was that
\* person's.  The two need not have held at one time: a user who has just been taken
\* out of a group and is given another password may still log in.
GrantedAsHeld ==
  exit \in Roles =>
    \E s, t \in seen :
      /\ s[1] = t[1]
      /\ s[2].uid = login.username
      /\ "users" \in s[2].groups
      /\ ("admins" \in s[2].groups) = (exit = "system-admin")
      /\ t[2].password = login.password

\* A person who has had the right to log in ever since the login began.
Entitled(dn) ==
  /\ \E s \in seen : s[1] = dn
  /\ \A s \in seen : s[1] = dn => /\ s[2].uid = login.username
                                  /\ s[2].password = login.password
                                  /\ "users" \in s[2].groups

\* A login of somebody entitled fails only if a request did, or if somebody else has the
\* same name anywhere under the base.
EntitledGranted ==
  exit = "error" /\ ~failed =>
    \A dn \in Dns : Entitled(dn) => \E s \in seen : s[1] # dn /\ s[2].uid = login.username
=============================================================================
