-------------------------- MODULE VipFailoverProofs --------------------------
(***************************************************************************)
(* Type correctness of VipFailover, and that a master whose sshd runs keeps *)
(* its virtual IPs against a node whose sshd does not: for any number of    *)
(* load balancers and virtual IPs, any falls, and any weights of which      *)
(* sshd's outweighs the round robin.                                        *)
(***************************************************************************)
EXTENDS VipFailover, TLAPS

\* The weight of sshd makes up for the round robin (4 against 1).
SshdDecides == Weight["sshd"] < -1

\* keepalived's checks, nodes and virtual IPs keep their types.
THEOREM TypeCorrect == Spec => []TypeOK
<1>1. Init => TypeOK
  BY VipAssumption DEF VipAssumption, Init, TypeOK, Parts
<1>2. TypeOK /\ [Next]_vars => TypeOK'
  <2> SUFFICES ASSUME TypeOK, [Next]_vars PROVE TypeOK'
    OBVIOUS
  <2> USE VipAssumption DEF VipAssumption, TypeOK
  <2>1. ASSUME NEW n \in Nodes, NEW c \in Checks, Check(n, c) PROVE TypeOK'
    <3>1. fails' \in [Nodes -> [Checks -> Nat]]
      BY <2>1 DEF Check
    <3>2. \A k \in Nodes, d \in Checks : fails'[k][d] <= Fall[d]
      <4> SUFFICES ASSUME NEW k \in Nodes, NEW d \in Checks PROVE fails'[k][d] <= Fall[d]
        OBVIOUS
      <4>0. fails[k][d] \in Nat /\ fails[k][d] <= Fall[d] /\ Fall[d] \in Nat
        OBVIOUS
      <4>1. CASE k = n /\ d = c
        <5>1. fails'[k][d] = IF Succeeds(n, c) THEN 0
                             ELSE IF fails[k][d] < Fall[d] THEN fails[k][d] + 1 ELSE fails[k][d]
          BY <2>1, <4>1 DEF Check
        <5> QED
          BY <4>0, <5>1
      <4>2. CASE ~(k = n /\ d = c)
        <5>1. fails'[k][d] = fails[k][d]
          BY <2>1, <4>2 DEF Check
        <5> QED
          BY <4>0, <5>1
      <4> QED
        BY <4>1, <4>2
    <3> QED
      BY <2>1, <3>1, <3>2 DEF Check
  <2>2. ASSUME NEW n \in Nodes, NEW v \in Vips, Takeover(n, v) PROVE TypeOK'
    BY <2>2 DEF Takeover
  <2>3. ASSUME NEW n \in Nodes, NEW m \in Nodes, NEW v \in Vips, Yield(n, m, v) PROVE TypeOK'
    BY <2>3 DEF Yield
  <2>4. ASSUME NEW n \in Nodes, NEW p \in Parts, Break(n, p) PROVE TypeOK'
    <3>1. faults' \in 0 .. MaxFaults
      BY <2>4 DEF Break
    <3>2. ok' \in [Nodes -> SUBSET Parts]
      BY <2>4 DEF Break
    <3>3. master' \in [Nodes -> SUBSET Vips]
      BY <2>4 DEF Break
    <3>4. fails' \in [Nodes -> [Checks -> Nat]]
      BY <2>4 DEF Break
    <3>5. \A k \in Nodes, d \in Checks : fails'[k][d] <= Fall[d]
      BY <2>4 DEF Break
    <3> QED
      BY <3>1, <3>2, <3>3, <3>4, <3>5
  <2>5. ASSUME NEW n \in Nodes, NEW p \in Parts, Repair(n, p) PROVE TypeOK'
    BY <2>5 DEF Repair, NodeParts, Parts
  <2>6. CASE UNCHANGED vars
    BY <2>6 DEF vars
  <2> QED
    BY <2>1, <2>2, <2>3, <2>4, <2>5, <2>6 DEF Next
<1> QED
  BY <1>1, <1>2, PTL DEF Spec

\* The k3s_cp check asks an address HAProxy is not bound to: it is down for ever.
ApiCheckDown == \A n \in Nodes : fails[n]["k3s_cp"] = Fall["k3s_cp"]

LEMMA ApiCheckInvariant == Spec => []ApiCheckDown
<1>1. Init => ApiCheckDown
  BY DEF Init, ApiCheckDown
<1>2. TypeOK /\ ApiCheckDown /\ [Next]_vars => ApiCheckDown'
  <2> SUFFICES ASSUME TypeOK, ApiCheckDown, [Next]_vars PROVE ApiCheckDown'
    OBVIOUS
  <2> USE VipAssumption DEF VipAssumption, TypeOK, ApiCheckDown
  <2>1. ASSUME NEW n \in Nodes, NEW c \in Checks, Check(n, c) PROVE ApiCheckDown'
    <3>1. c = "k3s_cp" => ~Succeeds(n, c)
      BY DEF Succeeds, AskedAt, BoundTo
    <3>2. "k3s_cp" \in Checks
      BY DEF Checks
    <3>3. ASSUME NEW k \in Nodes PROVE fails'[k]["k3s_cp"] = fails[k]["k3s_cp"]
      BY <2>1, <3>1, <3>2 DEF Check
    <3> QED
      BY <3>3
  <2>2. CASE UNCHANGED fails
    BY <2>2
  <2>3. ASSUME NEW n \in Nodes, NEW p \in Parts, Break(n, p) PROVE ApiCheckDown'
    BY <2>3 DEF Break
  <2> QED
    BY <2>1, <2>2, <2>3 DEF Next, Takeover, Yield, Repair, vars
<1> QED
  BY <1>1, <1>2, TypeCorrect, PTL DEF Spec

\* HAProxy's check, once up, stays up for as long as its node lives: it finds its own script.
\* No death of HAProxy lowers a priority.
LEMMA HaproxyUnnoticed ==
  Spec => [][\A n \in Nodes : ~Down(n, "haproxy") /\ Down(n, "haproxy")' => ~Alive(n)']_vars
<1>1. ASSUME TypeOK, [Next]_vars, NEW n \in Nodes, ~Down(n, "haproxy"), Down(n, "haproxy")'
      PROVE  ~Alive(n)'
  <2> USE VipAssumption, <1>1 DEF VipAssumption, TypeOK
  <2>1. fails[n]["haproxy"] # Fall["haproxy"] /\ fails'[n]["haproxy"] = Fall["haproxy"]
    BY DEF Down
  <2>2. ASSUME NEW k \in Nodes, NEW c \in Checks, Check(k, c) PROVE FALSE
    <3>1. k = n /\ c = "haproxy"
      BY <2>1, <2>2 DEF Check
    <3>2. Succeeds(n, "haproxy")
      BY DEF Succeeds, FindsItself
    <3>3. fails'[n]["haproxy"] = 0
      BY <2>2, <3>1, <3>2 DEF Check
    <3> QED
      BY <2>1, <3>3 DEF Checks
  <2>3. ASSUME NEW k \in Nodes, NEW p \in Parts, Break(k, p) PROVE ~Alive(n)'
    <3>1. k = n /\ p = "node"
      BY <2>1, <2>3 DEF Break
    <3> QED
      BY <2>3, <3>1 DEF Break, Alive, NodeParts, Parts
  <2>4. CASE UNCHANGED fails
    BY <2>1, <2>4
  <2> QED
    BY <2>2, <2>3, <2>4 DEF Next, Takeover, Yield, Repair, vars
<1>2. TypeOK /\ [Next]_vars =>
        \A n \in Nodes : ~Down(n, "haproxy") /\ Down(n, "haproxy")' => ~Alive(n)'
  BY <1>1
<1> QED
  BY <1>2, TypeCorrect, PTL DEF Spec

\* A check that is up never counts for less than the same check down, whatever its weight.
LEMMA UpCountsMore ==
  ASSUME NEW c \in Tracked, NEW m \in Nodes, NEW n \in Nodes, ~Down(m, c)
  PROVE  /\ Effect(m, c) \in Int /\ Effect(n, c) \in Int
         /\ Effect(n, c) <= Effect(m, c)
<1>1. Weight[c] \in Int
  BY VipAssumption DEF VipAssumption
<1> QED
  BY <1>1 DEF Effect

\* Of two connected nodes whose HAProxy checks have the first one up, the one whose sshd is up has
\* the greater priority.
LEMMA SshdBreaksTie ==
  ASSUME SshdDecides, TypeOK, ApiCheckDown,
         NEW v \in Vips, NEW m \in Nodes, NEW n \in Nodes, Connected(m), Connected(n),
         ~Down(m, "sshd"), ~Down(m, "haproxy"), Down(n, "sshd")
  PROVE  /\ Priority(m, v) \in Int
         /\ Priority(n, v) \in Int
         /\ Priority(m, v) > Priority(n, v)
<1> USE VipAssumption DEF VipAssumption
<1>1. /\ Weight["haproxy"] \in Int /\ Weight["sshd"] \in Int
      /\ Weight["k3s_cp"] \in Int /\ Weight["interface"] \in Int
  BY DEF Tracked, Checks
<1>2. Effect(m, "sshd") = 0 /\ Effect(n, "sshd") = Weight["sshd"]
  BY <1>1 DEF SshdDecides, Effect
<1>3. /\ Effect(m, "haproxy") \in Int /\ Effect(n, "haproxy") \in Int
      /\ Effect(n, "haproxy") <= Effect(m, "haproxy")
  BY UpCountsMore DEF Tracked, Checks
<1>4. Effect(m, "k3s_cp") \in Int /\ Effect(m, "k3s_cp") = Effect(n, "k3s_cp")
  <2>1. Down(m, "k3s_cp") /\ Down(n, "k3s_cp")
    BY DEF Down, ApiCheckDown
  <2> QED
    BY <1>1, <2>1 DEF Effect
<1>5. Effect(m, "interface") \in Int /\ Effect(m, "interface") = Effect(n, "interface")
  <2>1. ~Down(m, "interface") /\ ~Down(n, "interface")
    BY DEF Down, Connected
  <2> QED
    BY <1>1, <2>1 DEF Effect
<1>6. BasePriority(m, v) \in {100, 101} /\ BasePriority(n, v) \in {100, 101}
  BY DEF BasePriority
<1> QED
  BY <1>1, <1>2, <1>3, <1>4, <1>5, <1>6 DEF Priority, SshdDecides

\* A master that sees its sshd up neither yields a virtual IP to a node that sees its own down,
\* nor has it taken over by one, whatever else fails on the two, once its checks have run.
THEOREM ManageableMasterCorrect ==
  ASSUME SshdDecides
  PROVE  Spec => ManageableMasterKept
<1>1. ASSUME TypeOK, ApiCheckDown, [Next]_vars,
             NEW v \in Vips, NEW m \in Nodes, NEW n \in Nodes,
             m # n, Connected(m), Connected(n), v \in master[m],
             ~Down(m, "sshd"), ~Down(m, "haproxy"), Down(n, "sshd")
      PROVE  /\ v \in master'[n] => v \in master[n]
             /\ v \notin master'[m] =>
                  ~Alive(m)' \/ \E k \in Nodes \ {m, n} : v \in master[k]
  <2>1. /\ Priority(m, v) \in Int /\ Priority(n, v) \in Int
        /\ Priority(m, v) > Priority(n, v)
    BY <1>1, SshdBreaksTie
  <2>2. Defers(n, v)
    BY <1>1, <2>1 DEF Defers
  <2>3. ~Outranks(n, m, v)
    BY <2>1 DEF Outranks
  <2> USE <1>1 DEF TypeOK
  <2>4. CASE UNCHANGED master
    BY <2>4
  <2>5. ASSUME NEW k \in Nodes, NEW w \in Vips, Takeover(k, w)
        PROVE  (v \in master'[n] => v \in master[n]) /\ v \in master'[m]
    BY <2>2, <2>5 DEF Takeover
  <2>6. ASSUME NEW k \in Nodes, NEW l \in Nodes, NEW w \in Vips, Yield(k, l, w)
        PROVE  /\ v \in master'[n] => v \in master[n]
               /\ v \notin master'[m] => \E j \in Nodes \ {m, n} : v \in master[j]
    <3>1. v \in master'[n] => v \in master[n]
      BY <2>6 DEF Yield
    <3>2. ASSUME v \notin master'[m] PROVE l \in Nodes \ {m, n} /\ v \in master[l]
      <4>1. k = m /\ w = v
        BY <2>6, <3>2 DEF Yield
      <4>2. v \in master[m] \cap master[l] /\ Outranks(l, m, v)
        BY <2>6, <4>1 DEF Yield
      <4>3. l # m
        BY <2>1, <4>2 DEF Outranks, Nodes
      <4>4. l # n
        BY <2>3, <4>2
      <4> QED
        BY <4>2, <4>3, <4>4
    <3> QED
      BY <3>1, <3>2
  <2>7. ASSUME NEW k \in Nodes, NEW p \in Parts, Break(k, p)
        PROVE  /\ v \in master'[n] => v \in master[n]
               /\ v \notin master'[m] => ~Alive(m)'
    <3>1. v \in master'[n] => v \in master[n]
      BY <2>7 DEF Break
    <3>2. ASSUME v \notin master'[m] PROVE ~Alive(m)'
      <4>1. k = m /\ p = "node"
        BY <2>7, <3>2 DEF Break
      <4> QED
        BY <2>7, <4>1 DEF Break, Alive, NodeParts, Parts
    <3> QED
      BY <3>1, <3>2
  <2> QED
    BY <1>1, <2>4, <2>5, <2>6, <2>7 DEF Next, Check, Repair, vars
<1>2. TypeOK /\ ApiCheckDown /\ [Next]_vars =>
        \A v \in Vips, m, n \in Nodes :
          /\ m # n /\ Connected(m) /\ Connected(n) /\ v \in master[m]
          /\ ~Down(m, "sshd") /\ ~Down(m, "haproxy") /\ Down(n, "sshd")
          => /\ v \in master'[n] => v \in master[n]
             /\ v \notin master'[m] =>
                  ~Alive(m)' \/ \E k \in Nodes \ {m, n} : v \in master[k]
  BY <1>1
<1> QED
  BY <1>2, TypeCorrect, ApiCheckInvariant, PTL DEF Spec, ManageableMasterKept

-----------------------------------------------------------------------------
(* Handovers *)

\* Priorities are numbers, of which a node's does not exceed itself.
LEMMA PriorityTyped ==
  ASSUME NEW n \in Nodes, NEW v \in Vips
  PROVE  Priority(n, v) \in Int
<1> USE VipAssumption DEF VipAssumption
<1>1. \A c \in Tracked : Weight[c] \in Int
  OBVIOUS
<1>2. \A c \in Tracked : Effect(n, c) \in Int
  BY <1>1 DEF Effect
<1>3. {"sshd", "haproxy", "k3s_cp", "interface"} \subseteq Tracked
  BY DEF Tracked, Checks
<1>4. BasePriority(n, v) \in Int
  BY DEF BasePriority
<1> QED
  BY <1>2, <1>3, <1>4 DEF Priority

\* No node outranks itself, so that a master yields only to another one.
LEMMA OutranksAnother ==
  ASSUME NEW n \in Nodes, NEW m \in Nodes, NEW v \in Vips, Outranks(m, n, v)
  PROVE  m # n
<1>1. ~(Priority(n, v) > Priority(n, v)) /\ ~(n > n)
  BY PriorityTyped DEF Nodes
<1> QED
  BY <1>1 DEF Outranks

\* What a step does to the nodes that answer for v, if it disconnects none of them.
LEMMA OwnersStep ==
  ASSUME TypeOK, Next, NEW v \in Vips, \A n \in Owners(v) : Connected(n)'
  PROVE  \A n \in Owners(v) \ Owners(v)' :
           \E m \in Nodes : Yield(n, m, v)
<1> SUFFICES ASSUME NEW n \in Owners(v), n \notin Owners(v)'
             PROVE  \E m \in Nodes : Yield(n, m, v)
  OBVIOUS
<1>1. n \in Nodes /\ v \in master[n] /\ v \notin master'[n] /\ Connected(n)'
  BY DEF Owners
<1> USE DEF TypeOK
<1>2. ASSUME NEW k \in Nodes, NEW w \in Vips, Takeover(k, w) PROVE FALSE
  BY <1>1, <1>2 DEF Takeover
<1>3. ASSUME NEW k \in Nodes, NEW p \in Parts, Break(k, p) PROVE FALSE
  <2>1. k = n /\ p = "node"
    BY <1>1, <1>3 DEF Break
  <2>2. "node" \notin ok'[n]
    BY <1>1, <1>3, <2>1 DEF Break, NodeParts, Parts
  <2> QED
    BY <1>1, <2>2 DEF Connected
<1>4. ASSUME NEW k \in Nodes, NEW m \in Nodes, NEW w \in Vips, Yield(k, m, w)
      PROVE  k = n /\ w = v
  BY <1>1, <1>4 DEF Yield
<1> QED
  BY <1>1, <1>2, <1>3, <1>4 DEF Next, Check, Repair

\* A virtual IP that some node answers for goes on being answered for, unless one of these
\* nodes is lost: a handover by priority never leaves an address without an owner, however
\* many nodes hand it over and whatever their checks say.
THEOREM HandoverCovered ==
  Spec => [][\A v \in Vips : Owners(v) # {} =>
               \/ Owners(v)' # {}
               \/ \E n \in Owners(v) : ~Connected(n)']_vars
<1>1. ASSUME TypeOK, Next, NEW v \in Vips,
             Owners(v) # {}, \A n \in Owners(v) : Connected(n)'
      PROVE  Owners(v)' # {}
  <2>1. PICK n \in Owners(v) : TRUE
    BY <1>1
  <2>2. CASE n \in Owners(v)'
    BY <2>2
  <2>3. CASE n \notin Owners(v)'
    <3>1. PICK m \in Nodes : Yield(n, m, v)
      BY <1>1, <2>1, <2>3, OwnersStep
    <3>2. m # n
      BY <2>1, <3>1, OutranksAnother DEF Yield, Owners
    <3>3. Connected(m)' /\ v \in master'[m]
      BY <1>1, <3>1, <3>2 DEF Yield, TypeOK, Connected
    <3> QED
      BY <3>3 DEF Owners
  <2> QED
    BY <2>2, <2>3
<1>2. TypeOK /\ [Next]_vars =>
        [\A v \in Vips : Owners(v) # {} =>
           \/ Owners(v)' # {}
           \/ \E n \in Owners(v) : ~Connected(n)']_vars
  BY <1>1
<1> QED
  BY <1>2, TypeCorrect, PTL DEF Spec

\* v is where it belongs: at one connected node, which no other connected one exceeds.
Placed(v, m) ==
  /\ Owners(v) = {m}
  /\ \A n \in Nodes : Connected(n) => Priority(n, v) <= Priority(m, v)

\* A virtual IP at the connected node of the greatest priority, and at no other, stays there
\* alone until a fault, a repair or the outcome of a check changes that: equal priorities do not
\* make the nodes take it from one another.  It is what keeps OneOwner true once it is reached
\* and the checks have seen every fault.
THEOREM PlacedStays ==
  Spec => [][\A v \in Vips, m \in Nodes :
               Placed(v, m) /\ UNCHANGED ok => Owners(v)' = {m}]_vars
<1>1. ASSUME TypeOK, Next, NEW v \in Vips, NEW m \in Nodes, Placed(v, m), UNCHANGED ok
      PROVE  Owners(v)' = {m}
  <2>1. /\ Owners(v) = {m} /\ Connected(m) /\ v \in master[m]
        /\ \A n \in Nodes : Connected(n)' <=> Connected(n)
    BY <1>1 DEF Placed, Owners, Connected
  <2>2. m \in Owners(v)'
    <3>1. SUFFICES ASSUME m \notin Owners(v)' PROVE FALSE
      OBVIOUS
    <3>2. PICK k \in Nodes : Yield(m, k, v)
      BY <1>1, <2>1, <3>1, OwnersStep
    <3>3. k # m
      BY <3>2, OutranksAnother DEF Yield
    <3> QED
      BY <2>1, <3>2, <3>3 DEF Yield, Owners
  <2>3. ASSUME NEW n \in Owners(v)' PROVE n = m
    <3>1. SUFFICES ASSUME n # m PROVE FALSE
      OBVIOUS
    <3>2. n \in Nodes /\ Connected(n) /\ v \in master'[n] /\ v \notin master[n]
      BY <2>1, <2>3, <3>1 DEF Owners
    <3>3. Takeover(n, v)
      <4> USE DEF TypeOK
      <4>1. ASSUME NEW k \in Nodes, NEW w \in Vips, Takeover(k, w) PROVE k = n /\ w = v
        BY <1>1, <3>2, <4>1 DEF Takeover
      <4>2. ASSUME NEW k \in Nodes, NEW l \in Nodes, NEW w \in Vips, Yield(k, l, w) PROVE FALSE
        BY <1>1, <3>2, <4>2 DEF Yield
      <4>3. ASSUME NEW k \in Nodes, NEW p \in Parts, Break(k, p) PROVE FALSE
        BY <1>1, <3>2, <4>3 DEF Break
      <4> QED
        BY <1>1, <3>2, <4>1, <4>2, <4>3 DEF Next, Check, Repair
    <3>4. Priority(m, v) >= Priority(n, v)
      BY <1>1, <3>2, PriorityTyped DEF Placed
    <3> QED
      BY <2>1, <3>1, <3>2, <3>3, <3>4 DEF Takeover, Defers
  <2> QED
    BY <2>2, <2>3
<1>2. TypeOK /\ [Next]_vars =>
        [\A v \in Vips, m \in Nodes :
           Placed(v, m) /\ UNCHANGED ok => Owners(v)' = {m}]_vars
  BY <1>1
<1> QED
  BY <1>2, TypeCorrect, PTL DEF Spec
=============================================================================
