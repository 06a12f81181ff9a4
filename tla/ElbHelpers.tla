----------------------------- MODULE ElbHelpers -----------------------------
(***************************************************************************)
(* The pure functions of pkg/elb: what the load balancer controller        *)
(* computes from a Service, a Node or an ELB object without calling the    *)
(* cloud.  LoadBalancer.tla uses them in its actions, HelperCases.tla      *)
(* checks them against reference definitions over bounded inputs.          *)
(*                                                                         *)
(* A Service object, as far as the controller reads it, is a record with   *)
(*   valid       settingsForService accepts its annotations                *)
(*   lbID        the id annotation, or None                                *)
(*   creatable   subnet-id and availability zones are configured           *)
(*   ports       sequence of [protocol, port, nodePort]                    *)
(*   ranges      loadBalancerSourceRanges, trimmed; a blank entry is ""    *)
(*   alg         the effective lb-algorithm                                *)
(*   affinity    sessionAffinity; timeout its seconds, or Unset            *)
(*   idle        idle-timeout, 0 when the annotation is absent             *)
(*   policy      externalTrafficPolicy; hcNodePort its healthCheckNodePort *)
(*   hc          [enabled, protocol, path, method, params], the health     *)
(*               check settings; params stands for delay, timeout and      *)
(*               retries, which are only copied and compared together      *)
(*   eipIDs, eipBandwidth (> 0), eipKeep                                   *)
(***************************************************************************)
EXTENDS Integers, Sequences, FiniteSetsExt

\* A nil pointer where the code distinguishes nil from a number.
Unset == -1

-----------------------------------------------------------------------------
\* The "protocol/port" key that identifies a listener and a Service port.
portKey(port) == <<port.protocol, port.port>>

\* Only TCP and UDP ports can become L4 listeners.
validatePorts(svc) == \A i \in DOMAIN svc.ports : svc.ports[i].protocol \in {"TCP", "UDP"}

nodeAddressMutant(node) ==
    LET Of(type) == {i \in DOMAIN node : node[i].type = type}
    IN  CASE Of("InternalIP") # {} -> node[Min(Of("InternalIP"))].address
          [] Of("InternalIP") = {} /\ Of("ExternalIP") # {} -> node[Min(Of("ExternalIP"))].address
          [] OTHER -> ""

\* A node is the sequence of [type, address] of its status; the first non-empty
\* internal address wins, then the first non-empty external one; "" if neither.
nodeAddress(node) ==
    LET Of(type) == {i \in DOMAIN node : node[i].type = type /\ node[i].address # ""}
    IN  CASE Of("InternalIP") # {} -> node[Min(Of("InternalIP"))].address
          [] Of("InternalIP") = {} /\ Of("ExternalIP") # {} -> node[Min(Of("ExternalIP"))].address
          [] OTHER -> ""

\* The members a pool must have: every addressable node on the NodePort.
wantedMembers(nodes, nodePort) ==
    {<<nodeAddress(n), nodePort>> : n \in {m \in nodes : nodeAddress(m) # ""}}

-----------------------------------------------------------------------------
MinutesMutant(seconds) == seconds \div 60

\* Go's integer division truncates; the minutes are rounded up.
Minutes(seconds) == (seconds + 59) \div 60

\* The SOURCE_IP persistence a pool should have: Unset when the Service has no
\* ClientIP affinity, 0 when it leaves the timeout to the cloud, else minutes.
desiredPersistence(svc) ==
    CASE svc.affinity # "ClientIP" -> Unset
      [] svc.affinity = "ClientIP" /\ svc.timeout = Unset -> 0
      [] OTHER -> Max({1, Min({60, Minutes(svc.timeout)})})

\* The health monitor reconcileMonitor wants for a port (before it looks at
\* hc.enabled).  The branches are the code's, in its order.
desiredMonitor(svc, port) ==
    LET Monitor(type, mport, path, method) ==
            [type |-> type, port |-> mport, path |-> path, method |-> method,
             params |-> svc.hc.params]
        OrElse(value, default) == IF value = "" THEN default ELSE value
    IN  IF port.protocol = "UDP"
          THEN Monitor("UDP_CONNECT", 0, "", "")
        ELSE IF svc.policy = "Local" /\ svc.hcNodePort > 0
          THEN Monitor("HTTP", svc.hcNodePort, "/healthz", "GET")
        ELSE IF svc.hc.protocol \in {"HTTP", "HTTPS"}
          THEN Monitor(svc.hc.protocol, 0, OrElse(svc.hc.path, "/"), OrElse(svc.hc.method, "GET"))
        ELSE Monitor("TCP", 0, "", "")

\* monitors.Update cannot change the type or the port: those need a new monitor.
mustRecreate(have, want) == have.type # want.type \/ have.port # want.port

-----------------------------------------------------------------------------
\* Blank source ranges are dropped.  (The loop, and not SelectSeq, of which the
\* provers know nothing.)
normalizeRanges(ranges) ==
    LET out[i \in 0 .. Len(ranges)] ==
            IF i = 0 THEN <<>>
            ELSE IF ranges[i] = "" THEN out[i - 1] ELSE Append(out[i - 1], ranges[i])
    IN  out[Len(ranges)]

ipListEqualMutant(current, ranges) == Len(current) = Len(ranges)

\* Are the entries of an IP group the wanted ranges?
ipListEqual(current, ranges) ==
    /\ Len(current) = Len(ranges)
    /\ \A i \in DOMAIN ranges : ranges[i] \in Range(current)
=============================================================================
