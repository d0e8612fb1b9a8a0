----------------------------- MODULE VipFailover -----------------------------
(***************************************************************************)
(* The load balancers in front of the Kubernetes API: keepalived gives      *)
(* each virtual IP to one of them, by a priority that the health checks of  *)
(* the templates raise and lower, and HAProxy forwards it.  The checks, the *)
(* weights and the priorities are those of the templates; VRRP itself is    *)
(* keepalived's.                                                            *)
(***************************************************************************)
EXTENDS Integers, FiniteSets

CONSTANTS
  LbCount,    \* groups['loadbalancers']|length
  VipCount,   \* virtualIPs|length
  Weight,     \* per check, its weight in the priority
  Fall,       \* per check, failures in a row before it is down
  MaxFaults   \* bound on faults

\* The checks of a virtual IP; "interface" is tracked, not run.
Checks == {"sshd", "haproxy", "k3s_cp"}
Tracked == Checks \cup {"interface"}

ASSUME VipAssumption ==
  /\ LbCount \in Nat \ {0}
  /\ VipCount \in Nat
  /\ Weight \in [Tracked -> Int]
  /\ Fall \in [Checks -> Nat \ {0}]
  /\ MaxFaults \in Nat

Nodes == 0 .. LbCount - 1
Vips == 0 .. VipCount - 1
Parts == {"node", "link", "sshd", "haproxy", "api"}

VARIABLES
  ok,      \* per node, what works: the node, its network, its daemons, its way to the API servers
  fails,   \* per node and check, failures in a row, up to the check's fall
  master,  \* per node, the virtual IPs it is VRRP master of
  faults   \* faults so far

vars == <<ok, fails, master, faults>>

TypeOK ==
  /\ ok \in [Nodes -> SUBSET Parts]
  /\ fails \in [Nodes -> [Checks -> Nat]]
  /\ \A n \in Nodes, c \in Checks : fails[n][c] <= Fall[c]
  /\ master \in [Nodes -> SUBSET Vips]
  /\ faults \in 0 .. MaxFaults

-----------------------------------------------------------------------------
(* Priorities *)

\* Round robin: one node starts as MASTER of the virtual IP, at 101, the others at 100.
Preferred(v) == v % LbCount
\* Fault injection: every load balancer gets the same priority.
EqualPriority(n, v) == 100

BasePriority(n, v) == IF n = Preferred(v) THEN 101 ELSE 100

Down(n, c) == IF c = "interface" THEN "link" \notin ok[n] ELSE fails[n][c] = Fall[c]

\* Fault injection: weights apply the other way round.
InvertedEffect(n, c) == IF Down(n, c) THEN Weight[c] ELSE 0

\* A positive weight is added while the check is up, a negative one while it is down.
Effect(n, c) ==
  IF Weight[c] > 0 THEN (IF Down(n, c) THEN 0 ELSE Weight[c])
  ELSE (IF Down(n, c) THEN Weight[c] ELSE 0)

\* Fault injection: sshd is missing from track_script.
PriorityWithoutSshd(n, v) ==
  BasePriority(n, v) + Effect(n, "haproxy") + Effect(n, "k3s_cp") + Effect(n, "interface")

Priority(n, v) ==
  BasePriority(n, v) + Effect(n, "sshd") + Effect(n, "haproxy") + Effect(n, "k3s_cp")
    + Effect(n, "interface")

\* Fault injection: advertisements carry the configured priority, not the effective one.
OutranksByBase(m, n, v) == BasePriority(m, v) > BasePriority(n, v)

\* Whose advertisement wins: on equal priorities the higher address.
Outranks(m, n, v) ==
  \/ Priority(m, v) > Priority(n, v)
  \/ Priority(m, v) = Priority(n, v) /\ m > n

-----------------------------------------------------------------------------
(* Health checks *)

Alive(n) == "node" \in ok[n]
Connected(n) == {"node", "link"} \subseteq ok[n]

\* HAProxy answers on 6444 at the virtual IPs, where the health frontends are bound, and
\* nowhere else; k3s_cp asks 127.0.0.1.
BoundTo == {"vip"}
AskedAt == "127.0.0.1"
HealthFrontend(n) == {"haproxy", "api"} \subseteq ok[n]

\* A check of group_vars is a shell script named after it.  pkill looks for a pattern anywhere in
\* the name of a process: haproxy.sh finds the shell it runs in.  keepalived runs the pkill of
\* chk_sshd itself, without a script.
FindsItself == {"haproxy"}

Succeeds(n, c) ==
  CASE c = "k3s_cp" -> AskedAt \in BoundTo /\ HealthFrontend(n)
    [] OTHER -> c \in ok[n] \cup FindsItself

\* Fault injection: failures are counted on after the check is down.
RunawayCheck(n, c) ==
  /\ Alive(n)
  /\ fails' = [fails EXCEPT ![n][c] = IF Succeeds(n, c) THEN 0 ELSE @ + 1]
  /\ UNCHANGED <<ok, master, faults>>

\* keepalived runs a check: rise 1, so that one success brings it up.
Check(n, c) ==
  /\ Alive(n)
  /\ fails' = [fails EXCEPT ![n][c] = IF Succeeds(n, c) THEN 0
                                      ELSE IF @ < Fall[c] THEN @ + 1 ELSE @]
  /\ UNCHANGED <<ok, master, faults>>

-----------------------------------------------------------------------------
(* VRRP, as keepalived runs it *)

\* n hears an advertisement it defers to: of another master that does not have less priority.
Defers(n, v) ==
  \E m \in Nodes \ {n} :
    /\ Connected(m) /\ Connected(n)
    /\ v \in master[m]
    /\ Priority(m, v) >= Priority(n, v)

\* A backup that hears none for three intervals takes the virtual IP over.
Takeover(n, v) ==
  /\ Alive(n)
  /\ v \notin master[n]
  /\ ~Defers(n, v)
  /\ master' = [master EXCEPT ![n] = @ \cup {v}]
  /\ UNCHANGED <<ok, fails, faults>>

\* A master that hears one of a higher rank becomes a backup.
Yield(n, m, v) ==
  /\ Connected(n) /\ Connected(m)
  /\ v \in master[n] \cap master[m]
  /\ Outranks(m, n, v)
  /\ master' = [master EXCEPT ![n] = @ \ {v}]
  /\ UNCHANGED <<ok, fails, faults>>

-----------------------------------------------------------------------------
(* Faults and repairs *)

NodeParts == Parts \ {"link", "api"}

Break(n, p) ==
  /\ faults < MaxFaults
  /\ faults' = faults + 1
  /\ p \in ok[n]
  /\ IF p = "node"
     THEN /\ ok' = [ok EXCEPT ![n] = @ \ NodeParts]
          /\ master' = [master EXCEPT ![n] = {}]
          /\ fails' = [fails EXCEPT ![n] = Fall]
     ELSE /\ ok' = [ok EXCEPT ![n] = @ \ {p}]
          /\ UNCHANGED <<master, fails>>

\* A node boots with its daemons; a daemon needs its node.
Repair(n, p) ==
  /\ p \notin ok[n]
  /\ p \in {"node", "link", "api"} \/ Alive(n)
  /\ ok' = [ok EXCEPT ![n] = @ \cup (IF p = "node" THEN NodeParts ELSE {p})]
  /\ UNCHANGED <<fails, master, faults>>

-----------------------------------------------------------------------------

\* A check counts as down until it succeeds for the first time.
Init ==
  /\ ok = [n \in Nodes |-> Parts]
  /\ fails = [n \in Nodes |-> Fall]
  /\ master = [n \in Nodes |-> {}]
  /\ faults = 0

Next ==
  \E n \in Nodes :
    \/ \E c \in Checks : Check(n, c)
    \/ \E v \in Vips : Takeover(n, v) \/ \E m \in Nodes : Yield(n, m, v)
    \/ \E p \in Parts : Break(n, p) \/ Repair(n, p)

Spec == Init /\ [][Next]_vars

\* keepalived runs every check and sends every advertisement at its interval, for ever.
FairSpec ==
  /\ Spec
  /\ \A n \in Nodes :
       /\ \A c \in Checks : WF_vars(Check(n, c))
       /\ \A v \in Vips : WF_vars(Takeover(n, v)) /\ \A m \in Nodes : WF_vars(Yield(n, m, v))

-----------------------------------------------------------------------------
(* Properties *)

\* The nodes that answer for v on the network.
Owners(v) == {n \in Nodes : Connected(n) /\ v \in master[n]}

\* Once faults stop, every virtual IP ends up at exactly one of the nodes that are connected.
OneOwner ==
  <>[](\A v \in Vips : (\E n \in Nodes : Connected(n)) => Cardinality(Owners(v)) = 1)

\* "if SSH dies, we prefer the other node which remains remotely manageable": once faults stop,
\* no virtual IP stays at a node without sshd while another connected node runs it, whatever the
\* round robin says.  Whether the node forwards it does not count: HAProxy's death is not noticed.
OwnerManageable ==
  <>[](\A v \in Vips : \A n \in Owners(v) :
         "sshd" \in ok[n] \/ \A m \in Nodes : Connected(m) => "sshd" \notin ok[m])

\* "each lb will be given MASTER status for a different virtual IP in a round robin fashion":
\* with everything repaired, the virtual IPs go back to their nodes.
SpreadAgain ==
  [](([]\A n \in Nodes : ok[n] = Parts) => <>(\A v \in Vips : Owners(v) = {Preferred(v)}))

\* A node that has seen its sshd down does not take a virtual IP from a connected master that
\* sees its own up, and such a master does not yield to it: at any moment between the checks of
\* the two, once those of the master have run for the first time.
ManageableMasterKept ==
  [][\A v \in Vips, m, n \in Nodes :
       /\ m # n /\ Connected(m) /\ Connected(n) /\ v \in master[m]
       /\ ~Down(m, "sshd") /\ ~Down(m, "haproxy") /\ Down(n, "sshd")
       => /\ v \in master'[n] => v \in master[n]
          /\ v \notin master'[m] => ~Alive(m)' \/ \E k \in Nodes \ {m, n} : v \in master[k]]_vars
=============================================================================
