---------------------------- MODULE LoadBalancer ----------------------------
(***************************************************************************)
(* The load balancer controller of pkg/elb (elb.go, ipgroups.go) against   *)
(* the ELBv3 and EIP APIs.                                                 *)
(*                                                                         *)
(* A call of EnsureLoadBalancer, UpdateLoadBalancer or                     *)
(* EnsureLoadBalancerDeleted for a Service is a sequence of API calls.     *)
(* Every action below makes at most one of them, so the calls of two       *)
(* Services interleave at every request and a call can stop after any of   *)
(* them.  call[s] holds the program counter and the local variables of the *)
(* call in progress for Service s: what was read from the cloud earlier in *)
(* the call (`existing', `mon', `have', `eips') is a snapshot and may be   *)
(* stale when it is used.                                                  *)
(*                                                                         *)
(* An API call that the cloud rejects because of its state is Refused; one *)
(* that fails for another reason, takes effect but loses its reply, or is  *)
(* followed by a failing waitForActive, is Abort.  Both return the error,  *)
(* and the service controller calls again.  Deletes that answer 404 are    *)
(* tolerated, as in the code.  Resources are identified by their place: a  *)
(* listener by load balancer and protocol/port, a pool and its monitor by  *)
(* their listener, a member by pool, address and port.                     *)
(***************************************************************************)
EXTENDS ElbHelpers

CONSTANTS
    Services,     \* Services of type LoadBalancer, by namespace/name
    Specs,        \* Specs[s]: the Service objects a user may apply for s
    SharedLBs,    \* load balancers an id annotation may name
    ExistingLBs,  \* those of them that exist
    UserSlots,    \* <<lb, key>> of listeners made by the user on shared LBs
    Keys,         \* <<protocol, port>> pairs
    Nodes,        \* node objects (see ElbHelpers!nodeAddress)
    UserEips,     \* EIPs a user owns
    MaxAutoEips,  \* bound on EIPs alive at once that were created for one Service
    GroupIds,     \* identifiers of IP address groups
    MaxEdits,     \* bound on changes made by users and to the node set
    MaxFaults,    \* bound on failing API calls and crashes
    User,         \* the owner of listeners that no Service named
    None          \* no value

LBs == Services \cup SharedLBs
Slots == LBs \X Keys
AutoEips == Services \X (1 .. MaxAutoEips)
EipIds == UserEips \cup AutoEips
AllSpecs == UNION {Specs[s] : s \in Services}

\* Service objects (see ElbHelpers).  One with eip-bandwidth and eip-ids is
\* rejected before either is looked at, and is written here without eip-ids.
HealthCheck == [enabled : BOOLEAN, protocol : STRING, path : STRING, method : STRING, params : Int]
ServicePort == [protocol : STRING, port : Int, nodePort : Int]
ServiceObject ==
    [valid : BOOLEAN, lbID : SharedLBs \cup {None}, creatable : BOOLEAN, ports : Seq(ServicePort),
     ranges : Seq(STRING), alg : STRING, affinity : STRING, timeout : Int, idle : Nat,
     policy : STRING, hcNodePort : Int, hc : HealthCheck,
     eipIDs : SUBSET UserEips, eipBandwidth : BOOLEAN, eipKeep : BOOLEAN]

ASSUME NamesAssumption ==
    /\ Services \cap SharedLBs = {}
    /\ None \notin Services \cup SharedLBs \cup Keys \cup GroupIds
    /\ User \notin Services
    /\ AutoEips \cap UserEips = {}

ASSUME CloudAssumption ==
    /\ ExistingLBs \subseteq SharedLBs
    /\ UserSlots \subseteq ExistingLBs \X Keys

ASSUME SpecsAssumption ==
    /\ \A s \in Services : Specs[s] # {} /\ Specs[s] \subseteq ServiceObject
    /\ \A sp \in AllSpecs : \A i \in DOMAIN sp.ports : portKey(sp.ports[i]) \in Keys
    /\ \A sp \in AllSpecs : sp.eipBandwidth => sp.eipIDs = {}

ASSUME NodesAssumption == Nodes \subseteq Seq([type : STRING, address : STRING])

ASSUME BoundsAssumption == MaxEdits \in Nat /\ MaxFaults \in Nat /\ MaxAutoEips \in Nat

VARIABLES
    balancers,  \* the load balancers that exist; the LB named for s is s
    listener,   \* listener[slot]: listener with its pool, members, monitor
    group,      \* group[g]: IP address group
    eip,        \* eip[e]: public IP and the load balancer it is bound to
    spec,       \* spec[s]: the Service object in the API server
    nodes,      \* the current nodes
    phase,      \* phase[s]: "live", "deleting" or "gone"
    queue,      \* queue[s]: syncs the service controller owes s
    call,       \* call[s]: the cloud provider call in progress for s
    edits, faults

cloud == <<balancers, listener, group, eip>>
cluster == <<spec, nodes, phase, edits>>
vars == <<cloud, cluster, queue, call, faults>>

-----------------------------------------------------------------------------
(* Cloud objects.                                                          *)

NoListener == [up |-> FALSE, owner |-> User, idle |-> 0, group |-> None, enable |-> FALSE,
               pool |-> FALSE, alg |-> None, persist |-> Unset, members |-> {}, monitor |-> None]

\* listeners.Create names the listener after the Service (its owner).
NewListener(s, idle) == [NoListener EXCEPT !.up = TRUE, !.owner = s, !.idle = idle]

NoGroup == [up |-> FALSE, name |-> None, list |-> <<>>]

\* What listeners.List tells about a listener.
View(l) == [up |-> l.up, owner |-> l.owner, pool |-> l.pool, group |-> l.group, enable |-> l.enable]

NothingListed == [k \in Keys |-> View(NoListener)]

Bound(g) == \E sl \in Slots : listener[sl].up /\ listener[sl].group = g

-----------------------------------------------------------------------------
(* The call in progress.                                                   *)

Idle == [op |-> "none", pc |-> "idle", svc |-> None, nodes |-> {}, lb |-> None,
         existing |-> NothingListed, i |-> 0, key |-> None, mon |-> FALSE, grp |-> None,
         have |-> {}, todo |-> {}, eips |-> {}]

At(s, pc) == call[s].pc = pc
Goto(s, c) == call' = [call EXCEPT ![s] = c]
Jump(s, pc) == Goto(s, [call[s] EXCEPT !.pc = pc])

Svc(s) == call[s].svc
Port(s) == Svc(s).ports[call[s].i]
Slot(s) == <<call[s].lb, call[s].key>>
L(s) == listener[Slot(s)]
Listed(s) == call[s].existing[call[s].key]
Wanted(s) == wantedMembers(call[s].nodes, Port(s).nodePort)

SetL(s, l) == listener' = [listener EXCEPT ![Slot(s)] = l]

FailMutant(s) == Goto(s, Idle) /\ UNCHANGED queue

\* The call returns an error: it goes back to the queue it came from.
Fail(s) ==
    /\ Goto(s, Idle)
    /\ queue' = [queue EXCEPT ![s] = @ \cup {IF call[s].op = "update" THEN "nodes" ELSE "service"}]

wantedKeys(svc) == {portKey(svc.ports[i]) : i \in DOMAIN svc.ports}

ownsListenerMutant(s, l) == TRUE

\* Listeners are recognised as ours by the prefix of their name.
ownsListener(s, l) == l.owner = s

staleListenersMutant(s, c) == {k \in Keys : c.existing[k].up /\ k \notin wantedKeys(c.svc)}

\* Listeners of ours that match no Service port any more.
staleListeners(s, c) ==
    {k \in Keys : /\ c.existing[k].up
                  /\ ownsListener(s, c.existing[k])
                  /\ k \notin wantedKeys(c.svc)}

NextPortMutant(s, c) ==
    IF c.i < Len(c.svc.ports)
    THEN [c EXCEPT !.i = @ + 1, !.pc = IF c.op = "ensure" THEN "listener" ELSE "findPool"]
    ELSE [c EXCEPT !.pc = IF c.op = "ensure" THEN "sweep" ELSE "return"]

\* What follows the i-th port in the loops of reconcile and UpdateLoadBalancer:
\* the next port, then (for reconcile) the removal of stale listeners.
NextPort(s, c) ==
    LET d == [c EXCEPT !.mon = FALSE, !.grp = None, !.have = {}]
    IN  IF c.i < Len(c.svc.ports)
        THEN [d EXCEPT !.i = c.i + 1, !.key = portKey(c.svc.ports[c.i + 1]),
                       !.pc = IF c.op = "ensure" THEN "listener" ELSE "findPool"]
        ELSE IF c.op = "ensure"
        THEN [d EXCEPT !.key = None, !.pc = "sweep", !.todo = staleListeners(s, c)]
        ELSE [d EXCEPT !.key = None, !.pc = "return"]

-----------------------------------------------------------------------------
(* Entry points.  Arguments that fail validation make the call return an   *)
(* error before the first API call.                                        *)

Begin(s, op, pc, ns) ==
    /\ At(s, "idle")
    /\ Goto(s, [Idle EXCEPT !.op = op, !.pc = pc, !.svc = spec[s], !.nodes = ns])
    /\ UNCHANGED <<cloud, cluster, faults>>

ensureAccepts(svc, ns) == svc.ports # <<>> /\ validatePorts(svc) /\ ns # {} /\ svc.valid

EnsureLoadBalancer(s) ==
    /\ phase[s] = "live"
    /\ "service" \in queue[s]
    /\ ensureAccepts(spec[s], nodes)
    /\ queue' = [queue EXCEPT ![s] = @ \ {"service"}]
    /\ Begin(s, "ensure", "find", nodes)

UpdateLoadBalancer(s) ==
    /\ phase[s] = "live"
    /\ "nodes" \in queue[s]
    /\ spec[s].valid
    /\ queue' = [queue EXCEPT ![s] = @ \ {"nodes"}]
    /\ Begin(s, "update", "find", nodes)

EnsureLoadBalancerDeleted(s) ==
    /\ phase[s] = "deleting"
    /\ "service" \in queue[s]
    /\ spec[s].valid
    /\ queue' = [queue EXCEPT ![s] = @ \ {"service"}]
    /\ Begin(s, "delete", "get", {})

\* A call with arguments that fail validation: the key stays queued.
Rejected(s) ==
    /\ At(s, "idle")
    /\ \/ phase[s] = "live" /\ "service" \in queue[s] /\ ~ensureAccepts(spec[s], nodes)
       \/ queue[s] # {} /\ ~spec[s].valid
    /\ UNCHANGED vars

\* The load balancer of a Service: the one its id annotation names, else the
\* one that carries the Service's name.
targetLB(s, svc) == IF svc.lbID # None THEN svc.lbID ELSE s

\* The service controller asks GetLoadBalancer before it deletes.
GetLoadBalancer(s) ==
    /\ At(s, "get")
    /\ Jump(s, IF targetLB(s, Svc(s)) \in balancers THEN "find" ELSE "return")
    /\ UNCHANGED <<cloud, cluster, queue, faults>>

\* findLoadBalancer returned a load balancer.
FoundLoadBalancer(s) ==
    LET lb == targetLB(s, Svc(s))
    IN  /\ At(s, "find")
        /\ lb \in balancers
        /\ Goto(s, [call[s] EXCEPT
                !.lb = lb,
                !.pc = IF call[s].op = "ensure" THEN "wait" ELSE "list",
                !.eips = IF call[s].op = "delete" THEN {e \in EipIds : eip[e].up /\ eip[e].lb = lb}
                         ELSE {}])
        /\ UNCHANGED <<cloud, cluster, queue, faults>>

\* findLoadBalancer returned nil: ensure creates one unless the Service names
\* it by id, update reports an error, delete has nothing left to do.
MissingLoadBalancer(s) ==
    /\ At(s, "find")
    /\ targetLB(s, Svc(s)) \notin balancers
    /\ \/ /\ call[s].op = "ensure" /\ Svc(s).lbID = None
          /\ Goto(s, [call[s] EXCEPT !.lb = s, !.pc = "createLB"])
          /\ UNCHANGED queue
       \/ /\ call[s].op = "update" \/ (call[s].op = "ensure" /\ Svc(s).lbID # None)
          /\ Fail(s)
       \/ /\ call[s].op = "delete"
          /\ Jump(s, "return")
          /\ UNCHANGED queue
    /\ UNCHANGED <<cloud, cluster, faults>>

FreeAutoEips(s) == {e \in AutoEips : e[1] = s /\ ~eip[e].up}

\* The user's EIPs are bound and, with eip-bandwidth, a new one is made.
CreateLoadBalancer(s) ==
    LET bind == Svc(s).eipIDs \cup
                (IF Svc(s).eipBandwidth THEN {CHOOSE e \in FreeAutoEips(s) : TRUE} ELSE {})
    IN  /\ At(s, "createLB")
        /\ Svc(s).creatable
        /\ \A e \in Svc(s).eipIDs : eip[e].up /\ eip[e].lb = None
        /\ Svc(s).eipBandwidth => FreeAutoEips(s) # {}
        /\ balancers' = balancers \cup {s}
        /\ eip' = [e \in EipIds |-> IF e \in bind THEN [up |-> TRUE, lb |-> s] ELSE eip[e]]
        /\ Jump(s, "wait")
        /\ UNCHANGED <<listener, group, cluster, queue, faults>>

waitForActive(s) ==
    /\ At(s, "wait")
    /\ Jump(s, "list")
    /\ UNCHANGED <<cloud, cluster, queue, faults>>

deletableMutant(s, svc, l) == l.up
deletableOwnMutant(s, svc, l) == l.up /\ svc.lbID = None

\* The listeners EnsureLoadBalancerDeleted tears down: on a shared load balancer
\* only those of the Service.
deletable(s, svc, l) == l.up /\ (svc.lbID = None \/ ownsListener(s, l))

ListListeners(s) ==
    LET c == [call[s] EXCEPT !.existing = [k \in Keys |-> View(listener[<<call[s].lb, k>>])]]
    IN  /\ At(s, "list")
        /\ Goto(s, IF c.op = "delete"
                   THEN [c EXCEPT !.pc = "sweep",
                                  !.todo = {k \in Keys : deletable(s, c.svc, c.existing[k])}]
                   ELSE NextPort(s, c))
        /\ UNCHANGED <<cloud, cluster, queue, faults>>

-----------------------------------------------------------------------------
(* reconcile, one port: the listener.                                      *)

CreateListener(s) ==
    /\ At(s, "listener")
    /\ ~Listed(s).up
    /\ ~L(s).up
    /\ SetL(s, NewListener(s, Svc(s).idle))
    /\ Goto(s, [call[s] EXCEPT !.pc = "group",
                               !.existing[call[s].key] = View(NewListener(s, Svc(s).idle))])
    /\ UNCHANGED <<balancers, group, eip, cluster, queue, faults>>

\* The idle timeout of a listed listener is applied unconditionally when set.
UpdateIdleTimeout(s) ==
    /\ At(s, "listener")
    /\ Listed(s).up /\ Svc(s).idle > 0
    /\ L(s).up
    /\ SetL(s, [L(s) EXCEPT !.idle = Svc(s).idle])
    /\ Jump(s, "group")
    /\ UNCHANGED <<balancers, group, eip, cluster, queue, faults>>

KeepListener(s) ==
    /\ At(s, "listener")
    /\ Listed(s).up /\ Svc(s).idle = 0
    /\ Jump(s, "group")
    /\ UNCHANGED <<cloud, cluster, queue, faults>>

-----------------------------------------------------------------------------
(* reconcile, one port: the IP address group that whitelists the source    *)
(* ranges (ipgroups.go).                                                   *)

Ranges(s) == normalizeRanges(Svc(s).ranges)
groupName(s, key) == <<s, key>>

\* The group attached to the listener when it was listed, if it still exists.
Attached(s) == Listed(s).group # None /\ group[Listed(s).group].up
OwnGroup(s) == Attached(s) /\ group[Listed(s).group].name = groupName(s, call[s].key)

ReconcileIPGroup(s) ==
    /\ At(s, "group")
    /\ \/ /\ Ranges(s) = <<>>
          /\ Jump(s, IF OwnGroup(s) /\ Listed(s).enable THEN "disableGroup" ELSE "pool")
          /\ UNCHANGED queue
       \/ /\ Ranges(s) # <<>> /\ Attached(s) /\ ~OwnGroup(s)   \* a foreign group
          /\ Fail(s)
       \/ /\ Ranges(s) # <<>> /\ OwnGroup(s)
          /\ Goto(s, [call[s] EXCEPT
                  !.grp = Listed(s).group,
                  !.pc = IF ~ipListEqual(group[Listed(s).group].list, Ranges(s)) THEN "updateGroup"
                         ELSE IF ~Listed(s).enable THEN "attachGroup" ELSE "pool"])
          /\ UNCHANGED queue
       \/ /\ Ranges(s) # <<>> /\ ~Attached(s)
          /\ Jump(s, "createGroup")
          /\ UNCHANGED queue
    /\ UNCHANGED <<cloud, cluster, faults>>

DisableIPGroup(s) ==
    /\ At(s, "disableGroup")
    /\ L(s).up
    /\ SetL(s, [L(s) EXCEPT !.group = Listed(s).group, !.enable = FALSE])
    /\ Jump(s, "pool")
    /\ UNCHANGED <<balancers, group, eip, cluster, queue, faults>>

UpdateIPGroup(s) ==
    /\ At(s, "updateGroup")
    /\ group[call[s].grp].up
    /\ group' = [group EXCEPT ![call[s].grp].list = Ranges(s)]
    /\ Jump(s, IF Listed(s).enable THEN "pool" ELSE "attachGroup")
    /\ UNCHANGED <<balancers, listener, eip, cluster, queue, faults>>

CreateIPGroup(s) ==
    LET free == {g \in GroupIds : ~group[g].up}
        g == CHOOSE x \in free : TRUE
    IN  /\ At(s, "createGroup")
        /\ free # {}
        /\ group' = [group EXCEPT ![g] = [up |-> TRUE, name |-> groupName(s, call[s].key),
                                          list |-> Ranges(s)]]
        /\ Goto(s, [call[s] EXCEPT !.grp = g, !.pc = "attachGroup"])
        /\ UNCHANGED <<balancers, listener, eip, cluster, queue, faults>>

AttachIPGroup(s) ==
    /\ At(s, "attachGroup")
    /\ L(s).up /\ group[call[s].grp].up
    /\ SetL(s, [L(s) EXCEPT !.group = call[s].grp, !.enable = TRUE])
    /\ Jump(s, "pool")
    /\ UNCHANGED <<balancers, group, eip, cluster, queue, faults>>

-----------------------------------------------------------------------------
(* reconcile, one port: the listener's default pool.                       *)

\* A pool without persistence cannot lose it: nil is not sent.
withPool(l, svc) ==
    [l EXCEPT !.pool = TRUE, !.alg = svc.alg,
              !.persist = IF desiredPersistence(svc) = Unset THEN @ ELSE desiredPersistence(svc)]

poolOutdated(l, svc) ==
    \/ l.alg # svc.alg
    \/ desiredPersistence(svc) # Unset /\ l.persist # desiredPersistence(svc)

GetPool(s) ==
    /\ At(s, "pool")
    /\ Listed(s).pool
    /\ L(s).up /\ L(s).pool
    /\ Goto(s, [call[s] EXCEPT !.pc = IF poolOutdated(L(s), Svc(s)) THEN "updatePool" ELSE "listMembers",
                               !.mon = L(s).monitor # None])
    /\ UNCHANGED <<cloud, cluster, queue, faults>>

UpdatePool(s) ==
    /\ At(s, "updatePool")
    /\ L(s).up /\ L(s).pool
    /\ SetL(s, withPool(L(s), Svc(s)))
    /\ Goto(s, [call[s] EXCEPT !.pc = "listMembers", !.mon = L(s).monitor # None])
    /\ UNCHANGED <<balancers, group, eip, cluster, queue, faults>>

CreatePool(s) ==
    /\ At(s, "pool")
    /\ ~Listed(s).pool
    /\ L(s).up /\ ~L(s).pool
    /\ SetL(s, withPool(L(s), Svc(s)))
    /\ Jump(s, "listMembers")
    /\ UNCHANGED <<balancers, group, eip, cluster, queue, faults>>

\* UpdateLoadBalancer: the listed listener of the port and its pool.
FindPoolOfPort(s) ==
    /\ At(s, "findPool")
    /\ Listed(s).up /\ L(s).up /\ L(s).pool
    /\ Jump(s, "listMembers")
    /\ UNCHANGED <<cloud, cluster, queue, faults>>

-----------------------------------------------------------------------------
(* reconcileMembers: first every missing member is added, then every       *)
(* member that is not wanted is removed, each in map order.                *)

membersReady(s) == Port(s).nodePort # 0 /\ Wanted(s) # {}

ListMembers(s) ==
    /\ At(s, "listMembers")
    /\ membersReady(s)
    /\ L(s).up /\ L(s).pool
    /\ Goto(s, [call[s] EXCEPT !.pc = "members", !.have = L(s).members])
    /\ UNCHANGED <<cloud, cluster, queue, faults>>

AddMember(s, m) ==
    /\ At(s, "members")
    /\ m \in Wanted(s) \ call[s].have
    /\ L(s).up /\ L(s).pool /\ m \notin L(s).members
    /\ SetL(s, [L(s) EXCEPT !.members = @ \cup {m}])
    /\ Goto(s, [call[s] EXCEPT !.have = @ \cup {m}])
    /\ UNCHANGED <<balancers, group, eip, cluster, queue, faults>>

removalAllowedMutant(s) == TRUE

removalAllowed(s) == Wanted(s) \subseteq call[s].have

RemoveMember(s, m) ==
    /\ At(s, "members")
    /\ removalAllowed(s)
    /\ m \in call[s].have \ Wanted(s)
    /\ SetL(s, [L(s) EXCEPT !.members = @ \ {m}])
    /\ Goto(s, [call[s] EXCEPT !.have = @ \ {m}])
    /\ UNCHANGED <<balancers, group, eip, cluster, queue, faults>>

MembersDone(s) ==
    /\ At(s, "members")
    /\ call[s].have = Wanted(s)
    /\ Goto(s, IF call[s].op = "ensure" THEN [call[s] EXCEPT !.pc = "monitor", !.have = {}]
               ELSE NextPort(s, call[s]))
    /\ UNCHANGED <<cloud, cluster, queue, faults>>

-----------------------------------------------------------------------------
(* reconcileMonitor: `mon' is whether the pool object had a monitor.       *)

WantedMonitor(s) == desiredMonitor(Svc(s), Port(s))

ReconcileMonitor(s) ==
    LET enabled == Svc(s).hc.enabled
        have == L(s).monitor
    IN  /\ At(s, "monitor")
        /\ (enabled /\ call[s].mon) => (L(s).up /\ have # None)     \* monitors.Get
        /\ IF enabled = call[s].mon /\ (enabled => have = WantedMonitor(s))
           THEN Goto(s, NextPort(s, call[s]))
           ELSE Jump(s, IF ~enabled THEN "deleteMonitor"
                        ELSE IF ~call[s].mon THEN "createMonitor"
                        ELSE IF mustRecreate(have, WantedMonitor(s)) THEN "deleteMonitor"
                        ELSE "updateMonitor")
        /\ UNCHANGED <<cloud, cluster, queue, faults>>

\* Deleted because health checks are off, or to be created again.
DeleteMonitor(s) ==
    /\ At(s, "deleteMonitor")
    /\ SetL(s, [L(s) EXCEPT !.monitor = None])
    /\ IF Svc(s).hc.enabled THEN Jump(s, "createMonitor") ELSE Goto(s, NextPort(s, call[s]))
    /\ UNCHANGED <<balancers, group, eip, cluster, queue, faults>>

CreateMonitor(s) ==
    /\ At(s, "createMonitor")
    /\ L(s).up /\ L(s).pool /\ L(s).monitor = None
    /\ SetL(s, [L(s) EXCEPT !.monitor = WantedMonitor(s)])
    /\ Goto(s, NextPort(s, call[s]))
    /\ UNCHANGED <<balancers, group, eip, cluster, queue, faults>>

UpdateMonitor(s) ==
    LET want == WantedMonitor(s)
    IN  /\ At(s, "updateMonitor")
        /\ L(s).up /\ L(s).monitor # None
        /\ SetL(s, [L(s) EXCEPT !.monitor = [want EXCEPT !.type = L(s).monitor.type,
                                                         !.port = L(s).monitor.port]])
        /\ Goto(s, NextPort(s, call[s]))
        /\ UNCHANGED <<balancers, group, eip, cluster, queue, faults>>

-----------------------------------------------------------------------------
(* deleteListener for the listeners in `todo': stale ones after reconcile, *)
(* all deletable ones in EnsureLoadBalancerDeleted.                        *)

PickListener(s) ==
    /\ At(s, "sweep")
    /\ \E k \in call[s].todo :
          Goto(s, [call[s] EXCEPT !.pc = "drop", !.key = k, !.todo = @ \ {k}])
    /\ UNCHANGED <<cloud, cluster, queue, faults>>

DropFindPoolMutant(s) ==
    /\ At(s, "drop")
    /\ L(s).up
    /\ Jump(s, IF L(s).pool THEN "dropList" ELSE "dropListener")
    /\ UNCHANGED <<cloud, cluster, queue, faults>>

\* findPoolForListener; the monitor, the members and the pool go first.
DropFindPool(s) ==
    /\ At(s, "drop")
    /\ L(s).up
    /\ Jump(s, IF ~L(s).pool THEN "dropListener"
               ELSE IF L(s).monitor # None THEN "dropMonitor" ELSE "dropList")
    /\ UNCHANGED <<cloud, cluster, queue, faults>>

DropMonitor(s) ==
    /\ At(s, "dropMonitor")
    /\ SetL(s, [L(s) EXCEPT !.monitor = None])
    /\ Jump(s, "dropList")
    /\ UNCHANGED <<balancers, group, eip, cluster, queue, faults>>

DropListMembers(s) ==
    /\ At(s, "dropList")
    /\ L(s).up /\ L(s).pool
    /\ Goto(s, [call[s] EXCEPT !.pc = "dropPool", !.have = L(s).members])
    /\ UNCHANGED <<cloud, cluster, queue, faults>>

DropMember(s, m) ==
    /\ At(s, "dropPool")
    /\ m \in call[s].have
    /\ SetL(s, [L(s) EXCEPT !.members = @ \ {m}])
    /\ Goto(s, [call[s] EXCEPT !.have = @ \ {m}])
    /\ UNCHANGED <<balancers, group, eip, cluster, queue, faults>>

DropPool(s) ==
    /\ At(s, "dropPool")
    /\ call[s].have = {}
    /\ L(s).members = {} /\ L(s).monitor = None
    /\ SetL(s, [L(s) EXCEPT !.pool = FALSE, !.alg = None, !.persist = Unset])
    /\ Jump(s, "dropListener")
    /\ UNCHANGED <<balancers, group, eip, cluster, queue, faults>>

DropListener(s) ==
    /\ At(s, "dropListener")
    /\ ~L(s).pool
    /\ SetL(s, NoListener)
    /\ Jump(s, "dropGroup")
    /\ UNCHANGED <<balancers, group, eip, cluster, queue, faults>>

DropIPGroupMutant(s) ==
    /\ At(s, "dropGroup")
    /\ Goto(s, [call[s] EXCEPT !.pc = "sweep", !.key = None])
    /\ UNCHANGED <<cloud, cluster, queue, faults>>

\* deleteIPGroup: the group the listener had when it was listed, if it is ours.
DropIPGroup(s) ==
    LET g == Listed(s).group
        ours == Attached(s) /\ group[g].name[1] = s
    IN  /\ At(s, "dropGroup")
        /\ ours => ~Bound(g)
        /\ group' = IF ours THEN [group EXCEPT ![g] = NoGroup] ELSE group
        /\ Goto(s, [call[s] EXCEPT !.pc = "sweep", !.key = None])
        /\ UNCHANGED <<balancers, listener, eip, cluster, queue, faults>>

keepsBalancerMutant(svc) == FALSE
keepsBalancerAlwaysMutant(svc) == TRUE

\* A load balancer named by an id annotation is kept.
keepsBalancer(svc) == svc.lbID # None

SweepDone(s) ==
    /\ At(s, "sweep")
    /\ call[s].todo = {}
    /\ Jump(s, IF call[s].op = "delete" /\ ~keepsBalancer(Svc(s)) THEN "deleteLB" ELSE "return")
    /\ UNCHANGED <<cloud, cluster, queue, faults>>

releasesEipsMutant(svc) == ~svc.eipKeep
releasesEipsInvertedMutant(svc) == svc.eipBandwidth /\ svc.eipKeep

\* EIPs are released if the Service asks for an automatic EIP and not to keep it.
releasesEips(svc) == svc.eipBandwidth /\ ~svc.eipKeep

\* The cloud unbinds the EIPs of a deleted load balancer.
DeleteLoadBalancer(s) ==
    LET lb == call[s].lb
    IN  /\ At(s, "deleteLB")
        /\ \A k \in Keys : ~listener[<<lb, k>>].up
        /\ balancers' = balancers \ {lb}
        /\ eip' = [e \in EipIds |-> IF eip[e].lb = lb THEN [eip[e] EXCEPT !.lb = None] ELSE eip[e]]
        /\ Jump(s, IF releasesEips(Svc(s)) /\ call[s].eips # {} THEN "releaseEips" ELSE "return")
        /\ UNCHANGED <<listener, group, cluster, queue, faults>>

\* releaseEips releases the EIPs the load balancer had when it was found.
ReleaseEip(s, e) ==
    /\ At(s, "releaseEips")
    /\ e \in call[s].eips
    /\ eip[e].lb = None
    /\ eip' = [eip EXCEPT ![e].up = FALSE]
    /\ Goto(s, [call[s] EXCEPT !.eips = @ \ {e},
                               !.pc = IF call[s].eips = {e} THEN "return" ELSE "releaseEips"])
    /\ UNCHANGED <<balancers, listener, group, cluster, queue, faults>>

-----------------------------------------------------------------------------
(* The end of a call.                                                      *)

\* The call returns nil.  After a deletion the service controller removes its
\* finalizer and the Service object disappears.
Return(s) ==
    LET gone == call[s].op = "delete"
    IN  /\ At(s, "return")
        /\ Goto(s, Idle)
        /\ phase' = IF gone THEN [phase EXCEPT ![s] = "gone"] ELSE phase
        /\ queue' = IF gone THEN [queue EXCEPT ![s] = {}] ELSE queue
        /\ UNCHANGED <<cloud, spec, nodes, edits, faults>>

\* The steps at which the state of the cloud, or an argument, makes the call
\* return an error.
refused(s) ==
    LET l == L(s)
        noPool == ~l.up \/ ~l.pool
    IN  \/ At(s, "createLB") /\ (~Svc(s).creatable \/ \E e \in Svc(s).eipIDs : ~eip[e].up \/ eip[e].lb # None)
        \/ At(s, "listener") /\ ~Listed(s).up /\ l.up
        \/ At(s, "listener") /\ Listed(s).up /\ Svc(s).idle > 0 /\ ~l.up
        \/ At(s, "disableGroup") /\ ~l.up
        \/ At(s, "updateGroup") /\ ~group[call[s].grp].up
        \/ At(s, "attachGroup") /\ (~l.up \/ ~group[call[s].grp].up)
        \/ At(s, "pool") /\ (~l.up \/ l.pool # Listed(s).pool)
        \/ At(s, "updatePool") /\ noPool
        \/ At(s, "findPool") /\ (~Listed(s).up \/ noPool)
        \/ At(s, "listMembers") /\ (~membersReady(s) \/ noPool)
        \/ At(s, "members") /\ \E m \in Wanted(s) \ call[s].have : noPool \/ m \in l.members
        \/ At(s, "monitor") /\ Svc(s).hc.enabled /\ call[s].mon /\ l.monitor = None
        \/ At(s, "createMonitor") /\ (noPool \/ l.monitor # None)
        \/ At(s, "updateMonitor") /\ l.monitor = None
        \/ At(s, "drop") /\ ~l.up
        \/ At(s, "dropList") /\ noPool
        \/ At(s, "dropPool") /\ call[s].have = {} /\ (l.members # {} \/ l.monitor # None)
        \/ At(s, "dropListener") /\ l.pool
        \/ At(s, "dropGroup") /\ Attached(s) /\ group[Listed(s).group].name[1] = s /\ Bound(Listed(s).group)
        \/ At(s, "deleteLB") /\ \E k \in Keys : listener[<<call[s].lb, k>>].up
        \/ At(s, "releaseEips") /\ \E e \in call[s].eips : eip[e].lb # None

Refused(s) ==
    /\ refused(s)
    /\ Fail(s)
    /\ UNCHANGED <<cloud, cluster, faults>>

\* An API call fails, loses its reply, or waitForActive fails after it.
Abort(s) ==
    /\ ~At(s, "idle")
    /\ faults < MaxFaults
    /\ faults' = faults + 1
    /\ Fail(s)
    /\ UNCHANGED <<cloud, cluster>>

CrashMutant ==
    /\ faults < MaxFaults
    /\ faults' = faults + 1
    /\ call' = [s \in Services |-> Idle]
    /\ queue' = [s \in Services |-> IF phase[s] = "live" THEN {"service", "nodes"} ELSE {}]
    /\ UNCHANGED <<cloud, cluster>>

\* The controller manager restarts: calls are lost, every Service is queued.
Crash ==
    /\ faults < MaxFaults
    /\ faults' = faults + 1
    /\ call' = [s \in Services |-> Idle]
    /\ queue' = [s \in Services |-> IF phase[s] = "gone" THEN {} ELSE {"service", "nodes"}]
    /\ UNCHANGED <<cloud, cluster>>

-----------------------------------------------------------------------------
(* Users and the cluster.                                                  *)

EditService(s) ==
    /\ phase[s] # "gone" /\ edits < MaxEdits
    /\ edits' = edits + 1
    /\ \E sp \in Specs[s] \ {spec[s]} : spec' = [spec EXCEPT ![s] = sp]
    /\ queue' = [queue EXCEPT ![s] = @ \cup {"service"}]
    /\ UNCHANGED <<cloud, nodes, phase, call, faults>>

DeleteService(s) ==
    /\ phase[s] = "live" /\ edits < MaxEdits
    /\ edits' = edits + 1
    /\ phase' = [phase EXCEPT ![s] = "deleting"]
    /\ queue' = [queue EXCEPT ![s] = @ \cup {"service"}]
    /\ UNCHANGED <<cloud, spec, nodes, call, faults>>

RecreateService(s) ==
    /\ phase[s] = "gone" /\ edits < MaxEdits
    /\ edits' = edits + 1
    /\ phase' = [phase EXCEPT ![s] = "live"]
    /\ \E sp \in Specs[s] : spec' = [spec EXCEPT ![s] = sp]
    /\ queue' = [queue EXCEPT ![s] = {"service"}]
    /\ UNCHANGED <<cloud, nodes, call, faults>>

NodesChange ==
    /\ edits < MaxEdits
    /\ edits' = edits + 1
    /\ \E ns \in (SUBSET Nodes) \ {nodes} : nodes' = ns
    /\ queue' = [s \in Services |-> IF phase[s] = "live" THEN queue[s] \cup {"nodes"} ELSE queue[s]]
    /\ UNCHANGED <<cloud, spec, phase, call, faults>>

-----------------------------------------------------------------------------
Init ==
    /\ balancers = ExistingLBs
    /\ listener = [sl \in Slots |-> IF sl \in UserSlots THEN [NoListener EXCEPT !.up = TRUE]
                                    ELSE NoListener]
    /\ group = [g \in GroupIds |-> NoGroup]
    /\ eip = [e \in EipIds |-> [up |-> e \in UserEips, lb |-> None]]
    /\ spec \in [Services -> AllSpecs] /\ \A s \in Services : spec[s] \in Specs[s]
    /\ nodes \in SUBSET Nodes
    /\ phase = [s \in Services |-> "live"]
    /\ queue = [s \in Services |-> {"service"}]
    /\ call = [s \in Services |-> Idle]
    /\ edits = 0 /\ faults = 0

Start(s) == EnsureLoadBalancer(s) \/ UpdateLoadBalancer(s) \/ EnsureLoadBalancerDeleted(s)

Find(s) ==
    \/ GetLoadBalancer(s) \/ FoundLoadBalancer(s) \/ MissingLoadBalancer(s)
    \/ CreateLoadBalancer(s) \/ waitForActive(s) \/ ListListeners(s)

Reconcile(s) ==
    \/ CreateListener(s) \/ UpdateIdleTimeout(s) \/ KeepListener(s)
    \/ ReconcileIPGroup(s) \/ DisableIPGroup(s) \/ UpdateIPGroup(s)
    \/ CreateIPGroup(s) \/ AttachIPGroup(s)
    \/ GetPool(s) \/ UpdatePool(s) \/ CreatePool(s) \/ FindPoolOfPort(s)
    \/ ListMembers(s) \/ MembersDone(s)
    \/ At(s, "members") /\ \E m \in Wanted(s) : AddMember(s, m)
    \/ \E m \in call[s].have : RemoveMember(s, m)
    \/ ReconcileMonitor(s) \/ DeleteMonitor(s) \/ CreateMonitor(s) \/ UpdateMonitor(s)

Teardown(s) ==
    \/ PickListener(s) \/ DropFindPool(s) \/ DropMonitor(s) \/ DropListMembers(s)
    \/ \E m \in call[s].have : DropMember(s, m)
    \/ DropPool(s) \/ DropListener(s) \/ DropIPGroup(s)
    \/ SweepDone(s) \/ DeleteLoadBalancer(s)
    \/ \E e \in call[s].eips : ReleaseEip(s, e)

Step(s) == Find(s) \/ Reconcile(s) \/ Teardown(s) \/ Return(s) \/ Refused(s)

Environment ==
    \/ \E s \in Services : EditService(s) \/ DeleteService(s) \/ RecreateService(s)
    \/ NodesChange

\* Nothing is queued and no call runs.
Quiet ==
    /\ \A s \in Services : At(s, "idle") /\ queue[s] = {}
    /\ UNCHANGED vars

Next ==
    \/ \E s \in Services : Start(s) \/ Rejected(s) \/ Step(s) \/ Abort(s)
    \/ Quiet
    \/ Crash
    \/ Environment

Spec == Init /\ [][Next]_vars
=============================================================================
