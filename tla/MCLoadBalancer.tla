--------------------------- MODULE MCLoadBalancer ---------------------------
(***************************************************************************)
(* Small instances of LoadBalancer for TLC.  The operators whose names end *)
(* in Specs, Nodes and so on are the values the .cfg files give to the     *)
(* constants.                                                              *)
(***************************************************************************)
EXTENDS LoadBalancerProperties

CONSTANTS s1, s2, lb1, lb2, u1

Http == <<"TCP", 80>>
Https == <<"TCP", 443>>
Dns == <<"UDP", 53>>

PortOf(key, nodePort) == [protocol |-> key[1], port |-> key[2], nodePort |-> nodePort]

TcpCheck == [enabled |-> TRUE, protocol |-> "TCP", path |-> "", method |-> "", params |-> 1]

\* A Service with one TCP port and no annotations.
Plain ==
    [valid |-> TRUE, lbID |-> None, creatable |-> TRUE, ports |-> <<PortOf(Http, 30080)>>,
     ranges |-> <<>>, alg |-> "ROUND_ROBIN", affinity |-> "None", timeout |-> Unset, idle |-> 0,
     policy |-> "Cluster", hcNodePort |-> 0, hc |-> TcpCheck,
     eipIDs |-> {}, eipBandwidth |-> FALSE, eipKeep |-> FALSE]

NodeWith(address) == <<[type |-> "InternalIP", address |-> address]>>
NodeA == NodeWith("10.0.0.1")
NodeB == NodeWith("10.0.0.2")
NoAddress == <<[type |-> "Hostname", address |-> "c"]>>

\* A Service edited between source ranges, ports, health checks, affinity, and
\* between an automatic EIP to keep, one to release and none.
LifecycleSpecs ==
    [s \in Services |->
        { [Plain EXCEPT !.ranges = <<"10.0.0.0/8", "">>,
                        !.eipBandwidth = TRUE, !.eipKeep = TRUE],
          [Plain EXCEPT !.ranges = <<"192.168.0.0/16">>, !.alg = "SOURCE_IP",
                        !.hc.enabled = FALSE, !.eipBandwidth = TRUE],
          [Plain EXCEPT !.ports = <<PortOf(Dns, 30053), PortOf(Http, 30080)>>,
                        !.affinity = "ClientIP", !.timeout = 90, !.idle = 60,
                        !.policy = "Local", !.hcNodePort = 32000],
          [Plain EXCEPT !.hc.params = 2],
          [Plain EXCEPT !.valid = FALSE] }]
TwoNodes == {NodeA, NodeB}
OneNode == {NodeA}
OwnKeys == {Http, Dns}
\* Two Services on one load balancer with ports of their own, next to a
\* listener of the user.
OnShared(key, nodePort) == [Plain EXCEPT !.lbID = lb1, !.ports = <<PortOf(key, nodePort)>>]
Whitelisted == [OnShared(Http, 30080) EXCEPT !.ranges = <<"10.0.0.0/8">>]
SharedSpecs ==
    [s \in Services |->
        IF s = s1 THEN {Whitelisted, [OnShared(Dns, 30053) EXCEPT !.hc.enabled = FALSE]}
        ELSE {[OnShared(Https, 30443) EXCEPT !.hc.enabled = FALSE]}]
Ssh == <<"TCP", 22>>
SharedKeys == {Http, Https, Dns, Ssh}
SshOnLb1 == {<<lb1, Ssh>>}
\* A Service moved between its own load balancer, a shared one and another one,
\* which exists in the run `ownership' only.
Retargeted == {Plain, OnShared(Http, 30080), [Plain EXCEPT !.lbID = lb2]}
LivenessSpecs == [s \in Services |-> LifecycleSpecs[s] \cup Retargeted]
RetargetKeys == {Http, Ssh}

\* Services with EIPs: the user's or an automatic one to keep, and an automatic
\* one to release.
EipSpecs ==
    [s \in Services |->
        IF s = s1 THEN {[Plain EXCEPT !.eipIDs = {u1}],
                        [Plain EXCEPT !.eipBandwidth = TRUE, !.eipKeep = TRUE]}
        ELSE {[Plain EXCEPT !.eipBandwidth = TRUE]}]
OneKey == {Http}

\* The user replaces eip-ids by eip-bandwidth.
EipSwitchSpecs ==
    [s \in Services |-> {[Plain EXCEPT !.eipIDs = {u1}], [Plain EXCEPT !.eipBandwidth = TRUE]}]

\* Services that want the same port of a shared load balancer: one of them moves
\* to it, to another one and away again, the other one also wants the port of
\* the user.  On load balancers of their own they have the EIPs of EipSpecs.
OwnershipSpecs ==
    [s \in Services |->
        {[sp EXCEPT !.hc.enabled = FALSE] :
            sp \in EipSpecs[s] \cup
                  (IF s = s1 THEN {OnShared(Http, 30080), [Plain EXCEPT !.lbID = lb2]}
                             ELSE {OnShared(Http, 30081), OnShared(Ssh, 30022)})}]

\* A Service that asks for a port where the user has a listener.
CollisionSpecs == [s \in Services |-> {OnShared(Ssh, 30022)}]
=============================================================================
