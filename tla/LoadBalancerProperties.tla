----------------------- MODULE LoadBalancerProperties -----------------------
(***************************************************************************)
(* What the load balancer controller promises: the properties that the     *)
(* runs check and that LoadBalancerProofs.tla, CallProofs.tla,             *)
(* DeletionProofs.tla and ServedProofs.tla prove.                          *)
(***************************************************************************)
EXTENDS LoadBalancer

Monitor == [type : {"TCP", "HTTP", "HTTPS", "UDP_CONNECT"}, port : Int,
            path : {"", "/", "/healthz"} \cup {sp.hc.path : sp \in AllSpecs},
            method : {"", "GET"} \cup {sp.hc.method : sp \in AllSpecs}, params : Int]
Member == {nodeAddress(n) : n \in Nodes} \X Int
ListenerView == [up : BOOLEAN, owner : Services \cup {User}, pool : BOOLEAN,
                 group : {None} \cup GroupIds, enable : BOOLEAN]
Listener == [up : BOOLEAN, owner : Services \cup {User}, idle : Nat,
             group : {None} \cup GroupIds, enable : BOOLEAN, pool : BOOLEAN,
             alg : {None} \cup STRING, persist : Int,
             members : SUBSET Member, monitor : {None} \cup Monitor]
Group == [up : BOOLEAN, name : {None} \cup (Services \X Keys), list : {<<>>} \cup {normalizeRanges(sp.ranges) : sp \in AllSpecs}]
Eip == [up : BOOLEAN, lb : {None} \cup LBs]

\* Where a call is working on the i-th port of its Service.
PortPCs == {"listener", "group", "disableGroup", "updateGroup", "createGroup", "attachGroup",
            "pool", "updatePool", "findPool", "listMembers", "members",
            "monitor", "deleteMonitor", "createMonitor", "updateMonitor"}
\* Where it tears the listener `key' down.
DropPCs == {"drop", "dropMonitor", "dropList", "dropPool", "dropListener", "dropGroup"}
\* Where it has settled on a load balancer.
BalancerPCs == {"createLB", "wait", "list", "sweep", "deleteLB", "releaseEips"}
PCs == PortPCs \cup DropPCs \cup BalancerPCs \cup {"idle", "get", "find", "return"}

Call == [op : {"none", "ensure", "update", "delete"}, pc : PCs, svc : {None} \cup AllSpecs,
         nodes : SUBSET Nodes, lb : {None} \cup LBs, existing : [Keys -> ListenerView],
         i : Nat, key : {None} \cup Keys, mon : BOOLEAN, grp : {None} \cup GroupIds,
         have : SUBSET Member, todo : SUBSET Keys, eips : SUBSET EipIds]

\* The local variables that are set at a program counter.
CallOK(s, c) ==
    /\ c.pc # "idle" => c.svc \in Specs[s]
    /\ c.pc \in PortPCs \cup DropPCs \cup BalancerPCs => c.lb = targetLB(s, c.svc)
    /\ c.pc \in PortPCs => c.i \in DOMAIN c.svc.ports /\ c.key = portKey(c.svc.ports[c.i])
    /\ c.pc \in DropPCs => c.key # None
    /\ c.pc \in {"updateGroup", "attachGroup"} => c.grp # None

CallsOK == call \in [Services -> Call] /\ \A s \in Services : CallOK(s, call[s])

-----------------------------------------------------------------------------
\* Every variable, and every local variable of a call, has the shape the code
\* gives it; in particular a call works on the load balancer its Service object
\* names and on a port that this object has.
TypeOK ==
    /\ balancers \subseteq LBs
    /\ listener \in [Slots -> Listener]
    /\ group \in [GroupIds -> Group]
    /\ eip \in [EipIds -> Eip]
    /\ spec \in [Services -> AllSpecs] /\ \A s \in Services : spec[s] \in Specs[s]
    /\ nodes \subseteq Nodes
    /\ phase \in [Services -> {"live", "deleting", "gone"}]
    /\ queue \in [Services -> SUBSET {"service", "nodes"}]
    /\ CallsOK
    /\ edits \in 0 .. MaxEdits /\ faults \in 0 .. MaxFaults

-----------------------------------------------------------------------------
(* What a Service should look like in the cloud.                           *)

\* The listener of port p carries what the Service object asks for.
PortServed(svc, p, ns, l) ==
    /\ l.up /\ l.pool
    /\ l.alg = svc.alg
    /\ svc.idle > 0 => l.idle = svc.idle
    /\ desiredPersistence(svc) # Unset => l.persist = desiredPersistence(svc)
    /\ l.members = wantedMembers(ns, p.nodePort)
    /\ l.monitor = IF svc.hc.enabled THEN desiredMonitor(svc, p) ELSE None

\* Exactly the given ranges may connect to l.
Whitelists(l, ranges) ==
    /\ l.enable /\ l.group # None
    /\ group[l.group].up
    /\ Range(group[l.group].list) = Range(ranges)

\* The source ranges of the Service object are enforced by its own group;
\* without ranges no group of the Service restricts the listener.
SourcesServed(s, svc, l) ==
    LET ranges == normalizeRanges(svc.ranges)
    IN  IF ranges # <<>> THEN Whitelists(l, ranges)
        ELSE l.enable => group[l.group].name[1] # s

Served(s) ==
    LET svc == spec[s]
        lb == targetLB(s, svc)
    IN  /\ lb \in balancers
        /\ \A i \in DOMAIN svc.ports :
              LET l == listener[<<lb, portKey(svc.ports[i])>>]
              IN  PortServed(svc, svc.ports[i], nodes, l) /\ SourcesServed(s, svc, l)
        /\ \A k \in Keys : listener[<<lb, k>>].up /\ listener[<<lb, k>>].owner = s
                              => k \in wantedKeys(svc)

\* The service controller has nothing left to do for s.
Settled(s) == phase[s] = "live" /\ At(s, "idle") /\ queue[s] = {}

\* When every sync of a live Service has returned without an error, the cloud is
\* what the Service object and the nodes ask for: no edit, node change, failed
\* call, restart or other Service's call in between was lost (reconcile).
SettledMeansServed == \A s \in Services : Settled(s) => Served(s)

\* Backends are attached only behind the whitelist: from the moment
\* reconcileIPGroup returned, the listener of a Service with source ranges lets
\* in exactly those, so that this sync gives no pool a member with the door open.
\* (A node sync that comes between an edit of the ranges and the next service sync
\* adds members behind the ranges of before.)
WhitelistBeforeBackends ==
    \A s \in Services :
        LET c == call[s]
            ranges == normalizeRanges(c.svc.ranges)
        IN  ( /\ c.op = "ensure" /\ c.svc.lbID = None
              /\ c.pc \in {"pool", "updatePool", "listMembers", "members", "monitor",
                           "deleteMonitor", "createMonitor", "updateMonitor"}
              /\ ranges # <<>> )
            => Whitelists(L(s), ranges)

\* reconcileMembers never empties a pool while it moves it to other nodes: a
\* step that takes a member out leaves all wanted members in.
NeverDrained ==
    [][\A s \in Services :
          (At(s, "members") /\ Svc(s).lbID = None)
             => LET after == listener'[Slot(s)].members
                IN  L(s).members \subseteq after \/ Wanted(s) \subseteq after]_vars

-----------------------------------------------------------------------------
(* Ownership.                                                              *)

Owns(s, lb, k) == listener[<<lb, k>>].up /\ listener[<<lb, k>>].owner = s

\* What a call listed as its Service's own, or is about to tear down.
KnowsOwn(s, c) ==
    /\ c.pc \in PortPCs =>
          \A k \in Keys : c.existing[k].up /\ c.existing[k].owner = s => Owns(s, c.lb, k)
    /\ c.pc \in DropPCs \cup {"sweep"} => \A k \in c.todo : Owns(s, c.lb, k)
    /\ c.pc \in DropPCs \ {"dropGroup"} => Owns(s, c.lb, c.key) /\ c.key \notin c.todo

\* A listing does not go stale in what matters for deletion: the listeners a call
\* found to be its Service's own are still there, and still its own, when their
\* turn comes, and every listener on a Service's own load balancer is its own.
\* This is what makes ForeignListenersSurvive inductive.
OwnershipInv ==
    /\ \A s \in Services, k \in Keys : listener[<<s, k>>].up => listener[<<s, k>>].owner = s
    /\ \A s \in Services : KnowsOwn(s, call[s])

\* A listener disappears only through deleteListener of the Service that made
\* it: no Service's cleanup or deletion removes a listener of another Service
\* or of the user, whatever load balancer they share.
ForeignListenersSurvive ==
    [][\A sl \in Slots :
          (listener[sl].up /\ ~listener'[sl].up)
             => \E s \in Services : /\ listener[sl].owner = s
                                    /\ At(s, "dropListener") /\ Slot(s) = sl]_vars

\* A load balancer that Services name by id is never deleted.
SharedBalancersKept == ExistingLBs \subseteq balancers

\* Only the Service that made a listener changes it: its settings, its pool,
\* members, monitor and whitelist (true of Services that share a load balancer
\* as long as they use ports of their own).
OnlyOwnListeners ==
    [][\A sl \in Slots :
          (listener[sl].up /\ listener'[sl] # listener[sl])
             => \E s \in Services : listener[sl].owner = s /\ ~At(s, "idle") /\ Slot(s) = sl]_vars

\* EIPs that the user brought (eip-ids) are never released.
UserEipsKept == \A e \in UserEips : eip[e].up

\* An automatic EIP is released only by the deletion of the Service it was made
\* for, once its load balancer is gone, and only if the object that this deletion
\* was given asks for an automatic EIP and not to keep it, whatever the
\* annotations said when the EIP was made and whichever calls failed since
\* (EnsureLoadBalancerDeleted, releaseEips).
ReleasedOnRequest ==
    [][\A e \in AutoEips :
          (eip[e].up /\ ~eip'[e].up)
             => LET s == e[1]
                IN  /\ phase[s] = "deleting" /\ call[s].op = "delete"
                    /\ s \notin balancers
                    /\ call[s].svc.eipBandwidth /\ ~call[s].svc.eipKeep]_vars

-----------------------------------------------------------------------------
(* Deletion.                                                               *)

\* A deleted Service leaves neither its load balancer nor a listener behind,
\* however often its deletion was interrupted.
GoneLeavesNoListener ==
    \A s \in Services : phase[s] = "gone" =>
        /\ s \notin balancers
        /\ \A sl \in Slots : listener[sl].up => listener[sl].owner # s

\* A deleted Service leaves no whitelist group behind.
GoneLeavesNoGroup ==
    \A s \in Services : phase[s] = "gone" =>
        \A g \in GroupIds : group[g].up => group[g].name[1] # s

\* A deleted Service leaves no EIP without a load balancer behind that was
\* created for it, if every version of the Service that has a load balancer of its
\* own asks for an automatic EIP and not to keep it: the cloud only unbinds EIPs
\* when their load balancer is deleted, and whether they are released then is
\* decided by the version at hand (releaseEips).
GoneLeavesNoEip ==
    \A s \in Services :
        (phase[s] = "gone" /\ \A sp \in Specs[s] : sp.lbID = None => sp.eipBandwidth /\ ~sp.eipKeep) =>
            \A e \in AutoEips : e[1] = s /\ eip[e].up => eip[e].lb # None

\* deleteListener and EnsureLoadBalancerDeleted take resources down in an order
\* that the cloud accepts: nothing is deleted while something still uses it.
TeardownNeverRefused ==
    \A s \in Services : call[s].op = "delete" => ~refused(s)

-----------------------------------------------------------------------------
(* What users may have to respect for a property to hold: hypotheses of    *)
(* theorems, each with the reason why the code needs it.                   *)

\* Some version of s asks for the listener of the slot.
Wants(s, sl) == \E sp \in Specs[s] : sl[1] = targetLB(s, sp) /\ sl[2] \in wantedKeys(sp)

\* Services that share a load balancer use ports of their own: reconcile works on
\* whatever listener it finds at a wanted port and never looks at its name.
PortsDisjoint ==
    \A s, t \in Services, sl \in Slots : Wants(s, sl) /\ Wants(t, sl) => s = t

\* For the same reason none asks for the port of a listener the user made.
UserPortsFree == \A s \in Services, sl \in UserSlots : ~Wants(s, sl)

\* The id annotation of a Service is not edited: a call only looks at the load
\* balancer that the version at hand names (findLoadBalancer).
OneBalancer == \A s \in Services : \A sp, sq \in Specs[s] : sp.lbID = sq.lbID

\* A Service that brings EIPs never asks for an automatic one to be released with
\* its load balancer: releaseEips releases whatever is bound to it.
EipsApart ==
    \A s \in Services :
        (\E sp \in Specs[s] : sp.eipIDs # {}) => \A sp \in Specs[s] : sp.eipBandwidth => sp.eipKeep

\* A Service has no two ports of the same protocol and number (the API server
\* refuses them): a listing is a map from protocol/port to listener.
PortsDistinct ==
    \A sp \in AllSpecs : \A i, j \in DOMAIN sp.ports :
        portKey(sp.ports[i]) = portKey(sp.ports[j]) => i = j

\* No source range is listed twice: ipListEqual compares lengths and looks the
\* wanted ranges up.
RangesDistinct ==
    \A sp \in AllSpecs :
        LET r == normalizeRanges(sp.ranges)
        IN  \A i, j \in DOMAIN r : r[i] = r[j] => i = j

-----------------------------------------------------------------------------
(* Liveness.  The service controller retries a queued key until its sync   *)
(* succeeds, and a started call runs to its end; see README.md.            *)

FairSpec ==
    /\ Spec
    /\ \A s \in Services : /\ WF_vars(Step(s))
                           /\ SF_vars(EnsureLoadBalancer(s))
                           /\ SF_vars(UpdateLoadBalancer(s))
                           /\ SF_vars(EnsureLoadBalancerDeleted(s))

\* The Service object can be realised with the current nodes.
Servable(s) ==
    LET svc == spec[s]
    IN  /\ svc.valid /\ svc.ports # <<>> /\ validatePorts(svc)
        /\ \A i \in DOMAIN svc.ports : /\ svc.ports[i].nodePort # 0
                                       /\ wantedMembers(nodes, svc.ports[i].nodePort) # {}
        /\ IF svc.lbID # None THEN svc.lbID \in ExistingLBs ELSE svc.creatable

\* Once edits, node changes and faults end, every Service that can be realised
\* is realised and stays so, whatever state the failures left it in.
EventuallyServed ==
    \A s \in Services : <>[](phase[s] = "live" /\ Servable(s) => Settled(s) /\ Served(s))

\* Deleting a Service with a readable configuration completes.
DeletionCompletes ==
    \A s \in Services : <>[](phase[s] = "deleting" => ~spec[s].valid)
=============================================================================
