---------------------------- MODULE MCVipFailover ----------------------------
(* The weights and falls of the load balancers' group_vars and of keepalived.conf.j2. *)
EXTENDS VipFailover

ConfiguredWeight == [sshd |-> -4, haproxy |-> 6, k3s_cp |-> 2, interface |-> -2]
ConfiguredFall == [sshd |-> 2, haproxy |-> 2, k3s_cp |-> 3]
ShortFall == [sshd |-> 1, haproxy |-> 1, k3s_cp |-> 1]
=============================================================================
