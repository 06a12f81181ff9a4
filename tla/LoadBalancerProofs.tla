------------------------ MODULE LoadBalancerProofs ------------------------
(***************************************************************************)
(* Spec => []TypeOK, for every value of the constants, and from the middle *)
(* of the module on what calls delete.                                     *)
(*                                                                         *)
(* TypeOK is inductive as it stands because CallOK says which local        *)
(* variables are set at which program counter.  The lemmas come in three   *)
(* groups: what a well-typed call gives (CallTyped, SlotTyped, ...), when  *)
(* a step of a call keeps CallsOK (MoveCall, MovePC, NextPortTyped, ...),  *)
(* and one lemma per action.  They follow the order of LoadBalancer.tla.   *)
(***************************************************************************)
EXTENDS LoadBalancerProperties, TLAPS

\* No call in progress is a well-typed call.
LEMMA IdleCall == Idle \in Call /\ \A s \in Services : CallOK(s, Idle)
  BY DEF Idle, Call, NothingListed, View, NoListener, ListenerView, PCs, CallOK, PortPCs, DropPCs, BalancerPCs

\* A Service object that may be applied names a load balancer and ports that exist
\* in the model (SpecsAssumption).
LEMMA SpecTyped ==
  ASSUME NEW s \in Services, NEW sp \in Specs[s]
  PROVE  /\ sp \in ServiceObject /\ sp \in AllSpecs
         /\ targetLB(s, sp) \in LBs
         /\ \A i \in DOMAIN sp.ports : portKey(sp.ports[i]) \in Keys
  <1>1. sp \in ServiceObject /\ sp \in AllSpecs
    BY SpecsAssumption DEF AllSpecs
  <1>2. targetLB(s, sp) \in LBs
    BY <1>1 DEF ServiceObject, targetLB, LBs
  <1>3. QED
    BY <1>1, <1>2, SpecsAssumption

\* The types of the local variables of a call.
LEMMA CallFields ==
  ASSUME NEW c \in Call
  PROVE  /\ c.existing \in [Keys -> ListenerView] /\ c.i \in Nat /\ c.lb \in {None} \cup LBs
         /\ c.key \in {None} \cup Keys /\ c.grp \in {None} \cup GroupIds
         /\ c.nodes \in SUBSET Nodes /\ c.have \in SUBSET Member /\ c.todo \in SUBSET Keys
         /\ c.eips \in SUBSET EipIds /\ c.pc \in PCs /\ c.mon \in BOOLEAN
         /\ c.op \in {"none", "ensure", "update", "delete"}
  BY DEF Call

\* Every call in progress is well typed.
LEMMA CallTyped == ASSUME TypeOK, NEW s \in Services PROVE call[s] \in Call /\ CallOK(s, call[s])
  BY DEF TypeOK, CallsOK

\* A step that gives the call of s a well-typed value keeps all calls well typed.
LEMMA CallStep ==
  ASSUME TypeOK, NEW s \in Services, NEW c \in Call, CallOK(s, c), Goto(s, c)
  PROVE  CallsOK'
  BY DEF TypeOK, CallsOK, Goto

\* The next value of a call in progress keeps its Service object and its load
\* balancer, and stays in the same stage or goes back to an earlier one.
LEMMA MoveCall ==
  ASSUME TypeOK, NEW s \in Services, call[s].pc # "idle", NEW c \in Call, Goto(s, c),
         c.svc = call[s].svc, c.lb = call[s].lb,
         c.pc \in PortPCs => call[s].pc \in PortPCs /\ c.i = call[s].i /\ c.key = call[s].key,
         c.pc \in DropPCs => c.key # None,
         c.pc \in DropPCs \cup BalancerPCs => call[s].pc \in PortPCs \cup DropPCs \cup BalancerPCs,
         c.pc \in {"updateGroup", "attachGroup"} => c.grp # None
  PROVE  CallsOK'
  <1>1. CallOK(s, c)
    BY CallTyped DEF CallOK
  <1>2. QED
    BY <1>1, CallStep

\* A step that changes only the program counter.
LEMMA MovePC ==
  ASSUME TypeOK, NEW s \in Services, call[s].pc # "idle", NEW p \in PCs, Jump(s, p),
         p \in PortPCs => call[s].pc \in PortPCs,
         p \in DropPCs => call[s].pc \in DropPCs,
         p \in BalancerPCs => call[s].pc \in PortPCs \cup DropPCs \cup BalancerPCs,
         p \in {"updateGroup", "attachGroup"} => call[s].grp # None
  PROVE  CallsOK'
  <1> DEFINE c == [call[s] EXCEPT !.pc = p]
  <1>1. call[s] \in Call /\ CallOK(s, call[s])
    BY CallTyped
  <1>2. c \in Call
    BY <1>1 DEF Call
  <1>3. /\ c.pc = p /\ c.svc = call[s].svc /\ c.lb = call[s].lb /\ c.i = call[s].i
        /\ c.key = call[s].key /\ c.grp = call[s].grp
    BY <1>1 DEF Call
  <1>4. Goto(s, c)
    BY DEF Jump
  <1> HIDE DEF c
  <1>5. p \in DropPCs => c.key # None
    BY <1>1, <1>3 DEF CallOK
  <1>6. QED
    BY <1>2, <1>3, <1>4, <1>5, MoveCall

\* A step that gives the listener at hand a well-typed value.
LEMMA ListenerStep ==
  ASSUME TypeOK, NEW s \in Services, NEW l \in Listener, SetL(s, l)
  PROVE  listener' \in [Slots -> Listener]
  BY DEF TypeOK, SetL

\* While a call works on a port or tears a listener down, the slot it works on and
\* what it knows of it are well typed.
LEMMA SlotTyped ==
  ASSUME TypeOK, NEW s \in Services, call[s].pc \in PortPCs \cup DropPCs
  PROVE  /\ Slot(s) \in Slots /\ L(s) \in Listener /\ Listed(s) \in ListenerView
         /\ call[s].key \in Keys
  <1>1. call[s].lb \in LBs
    BY CallTyped, SpecTyped DEF CallOK, PortPCs, DropPCs
  <1>2. call[s].key \in Keys
    <2>1. call[s].svc \in Specs[s]
      BY CallTyped DEF CallOK, PortPCs, DropPCs
    <2>2. CASE call[s].pc \in PortPCs
      BY <2>1, <2>2, CallTyped, SpecTyped DEF CallOK
    <2>3. CASE call[s].pc \in DropPCs
      BY <2>3, CallTyped, CallFields DEF CallOK
    <2>4. QED
      BY <2>2, <2>3
  <1>3. Slot(s) \in Slots
    BY <1>1, <1>2 DEF Slot, Slots
  <1>4. call[s].existing \in [Keys -> ListenerView]
    BY CallTyped, CallFields
  <1>5. QED
    BY <1>2, <1>3, <1>4 DEF TypeOK, L, Listed

\* Moving on to the next port, or out of the loop, leaves a well-typed call
\* (the loops of reconcile and UpdateLoadBalancer).
LEMMA NextPortTyped ==
  ASSUME NEW s \in Services, NEW c \in Call, c.svc \in Specs[s], c.lb = targetLB(s, c.svc)
  PROVE  NextPort(s, c) \in Call /\ CallOK(s, NextPort(s, c))
  <1>1. c.svc \in ServiceObject /\ \A i \in DOMAIN c.svc.ports : portKey(c.svc.ports[i]) \in Keys
    BY SpecTyped
  <1> DEFINE d == [c EXCEPT !.mon = FALSE, !.grp = None, !.have = {}]
  <1>2. d \in Call
    BY DEF Call
  <1>3. d.svc = c.svc /\ d.lb = c.lb
    BY DEF Call
  <1>4. c.svc.ports \in Seq(ServicePort)
    BY <1>1 DEF ServiceObject
  <1>5. c.i \in Nat /\ Len(c.svc.ports) \in Nat
    BY <1>4, CallFields
  <1> HIDE DEF d
  <1>6. CASE c.i < Len(c.svc.ports)
    <2> DEFINE key == portKey(c.svc.ports[c.i + 1])
               next(pc) == [d EXCEPT !.i = c.i + 1, !.key = key, !.pc = pc]
    <2>1. c.i + 1 \in DOMAIN c.svc.ports /\ c.i + 1 \in Nat
      BY <1>4, <1>5, <1>6
    <2>2. key \in Keys
      BY <1>1, <2>1
    <2> HIDE DEF key
    <2>3. \A pc \in PCs : next(pc) \in Call
      BY <1>2, <2>1, <2>2 DEF Call
    <2>4. \A pc \in PCs : /\ next(pc).svc = c.svc /\ next(pc).lb = c.lb /\ next(pc).pc = pc
                          /\ next(pc).i = c.i + 1 /\ next(pc).key = key
      BY <1>2, <1>3 DEF Call
    <2>5. NextPort(s, c) = next(IF c.op = "ensure" THEN "listener" ELSE "findPool")
      BY <1>6 DEF NextPort, d, key
    <2> HIDE DEF next
    <2>6. \A pc \in {"listener", "findPool"} : CallOK(s, next(pc))
      BY <2>1, <2>2, <2>4 DEF CallOK, PCs, PortPCs, DropPCs, BalancerPCs, key
    <2>7. QED
      BY <2>3, <2>5, <2>6 DEF PCs, PortPCs
  <1>7. CASE ~(c.i < Len(c.svc.ports))
    <2> DEFINE sweep == [d EXCEPT !.key = None, !.pc = "sweep", !.todo = staleListeners(s, c)]
               end == [d EXCEPT !.key = None, !.pc = "return"]
    <2>1. staleListeners(s, c) \in SUBSET Keys
      BY DEF staleListeners
    <2>2. sweep \in Call /\ end \in Call
      <3>1. \A T \in SUBSET Keys : [d EXCEPT !.key = None, !.pc = "sweep", !.todo = T] \in Call
        BY <1>2 DEF Call, PCs, BalancerPCs
      <3>2. "return" \in PCs
        BY DEF PCs
      <3>3. end \in Call
        BY <1>2, <3>2 DEF Call
      <3>4. QED
        BY <2>1, <3>1, <3>3
    <2>3. /\ sweep.svc = c.svc /\ sweep.lb = c.lb /\ sweep.pc = "sweep"
          /\ end.svc = c.svc /\ end.pc = "return"
      BY <1>2, <1>3 DEF Call
    <2>4. NextPort(s, c) = IF c.op = "ensure" THEN sweep ELSE end
      BY <1>5, <1>7 DEF NextPort, d
    <2> HIDE DEF sweep, end
    <2>5. QED
      BY <2>2, <2>3, <2>4 DEF CallOK, PCs, PortPCs, DropPCs, BalancerPCs
  <1>8. QED
    BY <1>6, <1>7

\* The same as a step of a call in progress.
LEMMA NextPortStep ==
  ASSUME TypeOK, NEW s \in Services, call[s].pc \in PortPCs, Goto(s, NextPort(s, call[s]))
  PROVE  CallsOK'
  <1>1. NextPort(s, call[s]) \in Call /\ CallOK(s, NextPort(s, call[s]))
    BY CallTyped, NextPortTyped DEF CallOK, PortPCs
  <1>2. QED
    BY <1>1, CallStep

\* Returning an error keeps the types.
LEMMA FailStep ==
  ASSUME TypeOK, NEW s \in Services, Fail(s)
  PROVE  CallsOK' /\ queue' \in [Services -> SUBSET {"service", "nodes"}]
  <1>1. CallsOK'
    BY IdleCall, CallStep DEF Fail
  <1>2. queue' \in [Services -> SUBSET {"service", "nodes"}]
    BY DEF TypeOK, Fail
  <1>3. QED
    BY <1>1, <1>2

\* A state that differs from a typed one in the calls and the queue only.
LEMMA OnlyCalls ==
  ASSUME TypeOK, CallsOK', queue' \in [Services -> SUBSET {"service", "nodes"}],
         faults' \in 0 .. MaxFaults, UNCHANGED <<cloud, cluster>>
  PROVE  TypeOK'
  BY DEF TypeOK, cloud, cluster

-----------------------------------------------------------------------------
\* Entry points.
LEMMA StartType ==
  ASSUME TypeOK, NEW s \in Services, Start(s)
  PROVE  TypeOK'
  <1> DEFINE c(op, pc, ns) == [Idle EXCEPT !.op = op, !.pc = pc, !.svc = spec[s], !.nodes = ns]
  <1>1. spec[s] \in Specs[s] /\ spec[s] \in AllSpecs /\ nodes \in SUBSET Nodes
    BY DEF TypeOK
  <1>2. \A op \in {"ensure", "update", "delete"}, pc \in {"find", "get"}, ns \in SUBSET Nodes :
           c(op, pc, ns) \in Call /\ CallOK(s, c(op, pc, ns))
    <2> SUFFICES ASSUME NEW op \in {"ensure", "update", "delete"}, NEW pc \in {"find", "get"},
                        NEW ns \in SUBSET Nodes
                 PROVE  c(op, pc, ns) \in Call /\ CallOK(s, c(op, pc, ns))
      OBVIOUS
    <2>1. c(op, pc, ns) \in Call
      BY <1>1, IdleCall DEF Call, PCs
    <2>2. c(op, pc, ns).pc = pc /\ c(op, pc, ns).svc = spec[s]
      BY DEF Idle
    <2> HIDE DEF c
    <2>3. QED
      BY <1>1, <2>1, <2>2 DEF CallOK, PortPCs, DropPCs, BalancerPCs
  <1>3. \E op \in {"ensure", "update", "delete"}, pc \in {"find", "get"}, ns \in SUBSET Nodes :
           Begin(s, op, pc, ns)
    BY <1>1 DEF Start, EnsureLoadBalancer, UpdateLoadBalancer, EnsureLoadBalancerDeleted
  <1>4. CallsOK' /\ UNCHANGED <<cloud, cluster, faults>>
    BY <1>2, <1>3, CallStep DEF Begin
  <1>5. queue' \in [Services -> SUBSET {"service", "nodes"}]
    BY DEF TypeOK, Start, EnsureLoadBalancer, UpdateLoadBalancer, EnsureLoadBalancerDeleted
  <1>6. QED
    BY <1>4, <1>5, OnlyCalls DEF TypeOK

\* GetLoadBalancer, findLoadBalancer, createLoadBalancer, the listing.
LEMMA FindType ==
  ASSUME TypeOK, NEW s \in Services, Find(s)
  PROVE  TypeOK'
  <1> DEFINE lb == targetLB(s, Svc(s))
  <1>1. call[s] \in Call /\ CallOK(s, call[s])
    BY CallTyped
  <1>2. CASE GetLoadBalancer(s)
    <2>1. CallsOK'
      BY <1>2, MovePC DEF GetLoadBalancer, At, PCs, PortPCs, DropPCs, BalancerPCs
    <2>2. QED
      BY <1>2, <2>1, OnlyCalls DEF GetLoadBalancer, TypeOK
  <1>3. CASE FoundLoadBalancer(s)
    <2> DEFINE pc == IF call[s].op = "ensure" THEN "wait" ELSE "list"
               eips == IF call[s].op = "delete" THEN {e \in EipIds : eip[e].up /\ eip[e].lb = lb} ELSE {}
               c == [call[s] EXCEPT !.lb = lb, !.pc = pc, !.eips = eips]
    <2>1. call[s].svc \in Specs[s] /\ lb \in LBs
      BY <1>1, <1>3, SpecTyped DEF FoundLoadBalancer, At, CallOK, Svc
    <2>2. pc \in BalancerPCs /\ pc \in PCs /\ pc \notin PortPCs /\ pc \notin DropPCs /\ eips \in SUBSET EipIds
      BY DEF PCs, BalancerPCs, PortPCs, DropPCs
    <2>3. Goto(s, c)
      BY <1>3 DEF FoundLoadBalancer
    <2> HIDE DEF lb, pc, eips
    <2>4. c \in Call
      BY <1>1, <2>1, <2>2 DEF Call
    <2>5. c.pc = pc /\ c.lb = lb /\ c.svc = call[s].svc
      BY <1>1 DEF Call
    <2>6. CallOK(s, c)
      BY <2>1, <2>2, <2>5 DEF CallOK, lb, Svc, PortPCs
    <2>7. QED
      BY <1>3, <2>3, <2>4, <2>6, CallStep, OnlyCalls DEF FoundLoadBalancer, TypeOK
  <1>4. CASE MissingLoadBalancer(s)
    <2>1. CASE Fail(s)
      BY <1>4, <2>1, FailStep, OnlyCalls DEF MissingLoadBalancer, TypeOK
    <2>2. CASE call[s].op = "delete" /\ Jump(s, "return") /\ UNCHANGED queue
      <3>1. CallsOK'
        BY <1>4, <2>2, MovePC DEF MissingLoadBalancer, At, PCs, PortPCs, DropPCs, BalancerPCs
      <3>2. QED
        BY <1>4, <2>2, <3>1, OnlyCalls DEF MissingLoadBalancer, TypeOK
    <2>3. CASE Svc(s).lbID = None /\ Goto(s, [call[s] EXCEPT !.lb = s, !.pc = "createLB"]) /\ UNCHANGED queue
      <3> DEFINE c == [call[s] EXCEPT !.lb = s, !.pc = "createLB"]
      <3>1. c \in Call
        BY <1>1 DEF Call, PCs, BalancerPCs, LBs
      <3>2. c.pc = "createLB" /\ c.lb = s /\ c.svc = call[s].svc
        BY <1>1 DEF Call
      <3>3. call[s].svc \in Specs[s]
        BY <1>1, <1>4 DEF MissingLoadBalancer, At, CallOK
      <3> HIDE DEF c
      <3>4. CallOK(s, c)
        BY <2>3, <3>2, <3>3 DEF CallOK, targetLB, Svc, PortPCs, DropPCs
      <3>5. CallsOK'
        BY <2>3, <3>1, <3>4, CallStep DEF c
      <3>6. QED
        BY <1>4, <2>3, <3>5, OnlyCalls DEF MissingLoadBalancer, TypeOK
    <2>4. QED
      BY <1>4, <2>1, <2>2, <2>3 DEF MissingLoadBalancer
  <1>5. CASE CreateLoadBalancer(s)
    <2>1. CallsOK'
      BY <1>5, MovePC DEF CreateLoadBalancer, At, PCs, PortPCs, DropPCs, BalancerPCs
    <2>2. eip' \in [EipIds -> Eip]
      BY <1>5 DEF CreateLoadBalancer, TypeOK, Eip, LBs
    <2>3. balancers' \subseteq LBs
      BY <1>5 DEF CreateLoadBalancer, TypeOK, LBs
    <2>4. QED
      BY <1>5, <2>1, <2>2, <2>3 DEF CreateLoadBalancer, TypeOK, cluster
  <1>6. CASE waitForActive(s)
    <2>1. CallsOK'
      BY <1>6, MovePC DEF waitForActive, At, PCs, PortPCs, DropPCs, BalancerPCs
    <2>2. QED
      BY <1>6, <2>1, OnlyCalls DEF waitForActive, TypeOK
  <1>7. CASE ListListeners(s)
    <2> DEFINE listed == [k \in Keys |-> View(listener[<<call[s].lb, k>>])]
               c == [call[s] EXCEPT !.existing = listed]
               todo == {k \in Keys : deletable(s, c.svc, c.existing[k])}
               d == [c EXCEPT !.pc = "sweep", !.todo = todo]
    <2>1. call[s].svc \in Specs[s] /\ call[s].lb = targetLB(s, call[s].svc)
      BY <1>1, <1>7 DEF ListListeners, At, CallOK, BalancerPCs
    <2>2. \A k \in Keys : listener[<<call[s].lb, k>>] \in Listener
      BY <2>1, SpecTyped DEF TypeOK, Slots
    <2>3. listed \in [Keys -> ListenerView]
      BY <2>2 DEF View, Listener, ListenerView
    <2>4. Goto(s, IF c.op = "delete" THEN d ELSE NextPort(s, c))
      BY <1>7 DEF ListListeners
    <2>5. todo \in SUBSET Keys
      OBVIOUS
    <2> HIDE DEF listed, todo
    <2>6. c \in Call /\ c.svc = call[s].svc /\ c.lb = call[s].lb
      BY <1>1, <2>3 DEF Call
    <2> HIDE DEF c
    <2>7. d \in Call /\ d.svc = c.svc /\ d.lb = c.lb /\ d.pc = "sweep"
      BY <2>5, <2>6 DEF Call, PCs, BalancerPCs
    <2> HIDE DEF d
    <2>8. CallOK(s, d)
      BY <2>1, <2>6, <2>7 DEF CallOK, PortPCs, DropPCs
    <2>9. NextPort(s, c) \in Call /\ CallOK(s, NextPort(s, c))
      BY <2>1, <2>6, NextPortTyped
    <2>10. CallsOK'
      BY <2>4, <2>7, <2>8, <2>9, CallStep
    <2>11. QED
      BY <1>7, <2>10, OnlyCalls DEF ListListeners, TypeOK
  <1>8. QED
    BY <1>2, <1>3, <1>4, <1>5, <1>6, <1>7 DEF Find

-----------------------------------------------------------------------------
\* A step that changes listeners and calls only keeps TypeOK if both are well typed
\* afterwards.
LEMMA ListenerMove ==
  ASSUME TypeOK, NEW s \in Services, CallsOK', listener' \in [Slots -> Listener],
         UNCHANGED <<balancers, group, eip, cluster, queue, faults>>
  PROVE  TypeOK'
  BY DEF TypeOK, cluster

\* The listener of a port (reconcile).
LEMMA ListenerType ==
  ASSUME TypeOK, NEW s \in Services, CreateListener(s) \/ UpdateIdleTimeout(s) \/ KeepListener(s)
  PROVE  TypeOK'
  <1>1. call[s] \in Call /\ CallOK(s, call[s])
    BY CallTyped
  <1>2. call[s].pc \in PortPCs
    BY DEF CreateListener, UpdateIdleTimeout, KeepListener, At, PortPCs
  <1>3. Slot(s) \in Slots /\ L(s) \in Listener /\ call[s].key \in Keys
    BY <1>2, SlotTyped
  <1>4. Svc(s).idle \in Nat
    BY <1>1, <1>2, SpecTyped DEF CallOK, PortPCs, Svc, ServiceObject
  <1>5. CASE CreateListener(s)
    <2> DEFINE l == NewListener(s, Svc(s).idle)
               e == [call[s].existing EXCEPT ![call[s].key] = View(l)]
               c == [call[s] EXCEPT !.pc = "group", !.existing = e]
    <2>1. l \in Listener
      <3>1. NoListener \in Listener
        BY DEF NoListener, Listener, Unset
      <3>2. QED
        BY <1>4, <3>1 DEF NewListener, Listener
    <2>2. View(l) \in ListenerView
      BY <2>1 DEF View, Listener, ListenerView
    <2>3. e \in [Keys -> ListenerView]
      BY <1>1, <2>2, CallFields
    <2>4. Goto(s, [call[s] EXCEPT !.pc = "group", !.existing[call[s].key] = View(l)])
      BY <1>5 DEF CreateListener
    <2>5. [call[s] EXCEPT !.pc = "group", !.existing[call[s].key] = View(l)] = c
      BY <1>1 DEF Call
    <2> HIDE DEF e
    <2>6. c \in Call /\ c.pc = "group" /\ c.svc = call[s].svc /\ c.lb = call[s].lb
          /\ c.i = call[s].i /\ c.key = call[s].key
      BY <1>1, <2>3 DEF Call, PCs, PortPCs
    <2> HIDE DEF c
    <2>7. CallsOK'
      BY <1>2, <2>4, <2>5, <2>6, MoveCall DEF PortPCs, DropPCs, BalancerPCs
    <2>8. listener' \in [Slots -> Listener]
      BY <1>5, <2>1, ListenerStep DEF CreateListener
    <2>9. QED
      BY <1>5, <2>7, <2>8, ListenerMove DEF CreateListener
  <1>6. CASE UpdateIdleTimeout(s)
    <2>1. [L(s) EXCEPT !.idle = Svc(s).idle] \in Listener
      BY <1>3, <1>4 DEF Listener
    <2>2. listener' \in [Slots -> Listener]
      BY <1>6, <2>1, ListenerStep DEF UpdateIdleTimeout
    <2>3. CallsOK'
      BY <1>2, <1>6, MovePC DEF UpdateIdleTimeout, PCs, PortPCs, DropPCs, BalancerPCs
    <2>4. QED
      BY <1>6, <2>2, <2>3, ListenerMove DEF UpdateIdleTimeout
  <1>7. CASE KeepListener(s)
    <2>1. CallsOK'
      BY <1>2, <1>7, MovePC DEF KeepListener, PCs, PortPCs, DropPCs, BalancerPCs
    <2>2. QED
      BY <1>7, <2>1, OnlyCalls DEF KeepListener, TypeOK
  <1>8. QED
    BY <1>5, <1>6, <1>7

\* The IP address group of a port (ipgroups.go).
LEMMA GroupType ==
  ASSUME TypeOK, NEW s \in Services,
         ReconcileIPGroup(s) \/ DisableIPGroup(s) \/ UpdateIPGroup(s) \/ CreateIPGroup(s) \/ AttachIPGroup(s)
  PROVE  TypeOK'
  <1>1. call[s] \in Call /\ CallOK(s, call[s])
    BY CallTyped
  <1>2. call[s].pc \in PortPCs
    BY DEF ReconcileIPGroup, DisableIPGroup, UpdateIPGroup, CreateIPGroup, AttachIPGroup, At, PortPCs
  <1>3. /\ Slot(s) \in Slots /\ L(s) \in Listener /\ Listed(s) \in ListenerView
        /\ call[s].key \in Keys
    BY <1>2, SlotTyped
  <1>4. Listed(s).group \in {None} \cup GroupIds /\ call[s].grp \in {None} \cup GroupIds
    BY <1>1, <1>3, CallFields DEF ListenerView
  <1>5. Ranges(s) \in {normalizeRanges(sp.ranges) : sp \in AllSpecs}
    BY <1>1, <1>2, SpecTyped DEF CallOK, PortPCs, Ranges, Svc
  <1>6. CASE ReconcileIPGroup(s)
    <2>1. CASE Fail(s)
      BY <1>6, <2>1, FailStep, OnlyCalls DEF ReconcileIPGroup, TypeOK
    <2>2. CASE UNCHANGED queue /\ \E p \in {"disableGroup", "pool", "createGroup"} : Jump(s, p)
      <3>1. CallsOK'
        BY <1>2, <2>2, MovePC DEF PCs, PortPCs, DropPCs, BalancerPCs
      <3>2. QED
        BY <1>6, <2>2, <3>1, OnlyCalls DEF ReconcileIPGroup, TypeOK
    <2>3. CASE /\ UNCHANGED queue /\ OwnGroup(s)
               /\ \E p \in {"updateGroup", "attachGroup", "pool"} :
                     Goto(s, [call[s] EXCEPT !.grp = Listed(s).group, !.pc = p])
      <3>1. PICK p \in {"updateGroup", "attachGroup", "pool"} :
                     Goto(s, [call[s] EXCEPT !.grp = Listed(s).group, !.pc = p])
        BY <2>3
      <3> DEFINE c == [call[s] EXCEPT !.grp = Listed(s).group, !.pc = p]
      <3>2. Listed(s).group # None
        BY <2>3 DEF OwnGroup, Attached
      <3>3. \A g \in {None} \cup GroupIds :
               LET d == [call[s] EXCEPT !.grp = g, !.pc = p]
               IN  d \in Call /\ d.pc = p /\ d.grp = g /\ d.svc = call[s].svc
                   /\ d.lb = call[s].lb /\ d.i = call[s].i /\ d.key = call[s].key
        BY <1>1 DEF Call, PCs, PortPCs
      <3> HIDE DEF c
      <3>4. CallsOK'
        BY <1>2, <1>4, <3>1, <3>2, <3>3, MoveCall DEF c, PortPCs, DropPCs, BalancerPCs
      <3>5. QED
        BY <1>6, <2>3, <3>4, OnlyCalls DEF ReconcileIPGroup, TypeOK
    <2>4. QED
      <3>1. CASE Ranges(s) = <<>>
        BY <1>6, <2>1, <2>2, <2>3, <3>1 DEF ReconcileIPGroup
      <3>2. CASE Ranges(s) # <<>> /\ OwnGroup(s)
        BY <1>6, <2>3, <3>2 DEF ReconcileIPGroup, OwnGroup
      <3>3. CASE Ranges(s) # <<>> /\ ~OwnGroup(s)
        BY <1>6, <2>1, <2>2, <3>3 DEF ReconcileIPGroup
      <3>4. QED
        BY <3>1, <3>2, <3>3
  <1>7. CASE DisableIPGroup(s)
    <2>1. [L(s) EXCEPT !.group = Listed(s).group, !.enable = FALSE] \in Listener
      BY <1>3, <1>4 DEF Listener
    <2>2. listener' \in [Slots -> Listener]
      BY <1>7, <2>1, ListenerStep DEF DisableIPGroup
    <2>3. CallsOK'
      BY <1>2, <1>7, MovePC DEF DisableIPGroup, PCs, PortPCs, DropPCs, BalancerPCs
    <2>4. QED
      BY <1>7, <2>2, <2>3, ListenerMove DEF DisableIPGroup
  <1>8. CASE UpdateIPGroup(s)
    <2>1. call[s].grp # None
      BY <1>1, <1>8 DEF UpdateIPGroup, At, CallOK
    <2>2. group' \in [GroupIds -> Group]
      <3>1. group \in [GroupIds -> Group] /\ group[call[s].grp] \in Group
        BY <1>4, <2>1 DEF TypeOK
      <3>2. [group[call[s].grp] EXCEPT !.list = Ranges(s)] \in Group
        BY <1>5, <3>1 DEF Group
      <3>3. group' = [group EXCEPT ![call[s].grp] = [@ EXCEPT !.list = Ranges(s)]]
        BY <1>8 DEF UpdateIPGroup
      <3>4. QED
        BY <3>1, <3>2, <3>3
    <2>3. CallsOK'
      BY <1>2, <1>8, <2>1, MovePC DEF UpdateIPGroup, PCs, PortPCs, DropPCs, BalancerPCs
    <2>4. QED
      BY <1>8, <2>2, <2>3 DEF UpdateIPGroup, TypeOK, cluster
  <1>9. CASE CreateIPGroup(s)
    <2> DEFINE g == CHOOSE x \in {y \in GroupIds : ~group[y].up} : TRUE
               c == [call[s] EXCEPT !.grp = g, !.pc = "attachGroup"]
    <2>1. g \in GroupIds
      BY <1>9 DEF CreateIPGroup
    <2>2. /\ group' = [group EXCEPT ![g] = [up |-> TRUE, name |-> groupName(s, call[s].key), list |-> Ranges(s)]]
          /\ Goto(s, c)
          /\ UNCHANGED <<balancers, listener, eip, cluster, queue, faults>>
      BY <1>9 DEF CreateIPGroup
    <2> HIDE DEF g
    <2>3. group' \in [GroupIds -> Group]
      BY <1>3, <1>5, <2>1, <2>2 DEF TypeOK, Group, groupName
    <2>4. c \in Call /\ c.pc = "attachGroup" /\ c.grp = g /\ c.svc = call[s].svc
          /\ c.lb = call[s].lb /\ c.i = call[s].i /\ c.key = call[s].key
      BY <1>1, <2>1 DEF Call, PCs, PortPCs
    <2>5. g # None
      BY <2>1, NamesAssumption
    <2> HIDE DEF c
    <2>6. CallsOK'
      BY <1>2, <2>2, <2>4, <2>5, MoveCall DEF PortPCs, DropPCs, BalancerPCs
    <2>7. QED
      BY <2>2, <2>3, <2>6 DEF TypeOK, cluster
  <1>10. CASE AttachIPGroup(s)
    <2>1. [L(s) EXCEPT !.group = call[s].grp, !.enable = TRUE] \in Listener
      BY <1>3, <1>4 DEF Listener
    <2>2. listener' \in [Slots -> Listener]
      BY <1>10, <2>1, ListenerStep DEF AttachIPGroup
    <2>3. CallsOK'
      BY <1>2, <1>10, MovePC DEF AttachIPGroup, PCs, PortPCs, DropPCs, BalancerPCs
    <2>4. QED
      BY <1>10, <2>2, <2>3, ListenerMove DEF AttachIPGroup
  <1>11. QED
    BY <1>6, <1>7, <1>8, <1>9, <1>10

-----------------------------------------------------------------------------
\* The extremes of two integers are integers.
LEMMA MaxType == \A a, b \in Int : Max({a, b}) \in Int /\ Min({a, b}) \in Int
  <1> SUFFICES ASSUME NEW a \in Int, NEW b \in Int
               PROVE  Max({a, b}) \in Int /\ Min({a, b}) \in Int
    OBVIOUS
  <1>1. \E x \in {a, b} : \A y \in {a, b} : x >= y
    <2>1. CASE a >= b
      BY <2>1
    <2>2. CASE ~(a >= b)
      BY <2>2
    <2>3. QED
      BY <2>1, <2>2
  <1>2. \E x \in {a, b} : \A y \in {a, b} : x =< y
    <2>1. CASE a =< b
      BY <2>1
    <2>2. CASE ~(a =< b)
      BY <2>2
    <2>3. QED
      BY <2>1, <2>2
  <1>3. QED
    BY <1>1, <1>2 DEF Max, Min

\* desiredPersistence is an integer.
LEMMA PersistenceType ==
  ASSUME NEW sp \in ServiceObject
  PROVE  desiredPersistence(sp) \in Int
  <1>1. sp.timeout \in Int
    BY DEF ServiceObject
  <1>2. Minutes(sp.timeout) \in Int
    BY <1>1 DEF Minutes
  <1>3. Min({60, Minutes(sp.timeout)}) \in Int
    BY <1>2, MaxType
  <1>4. Max({1, Min({60, Minutes(sp.timeout)})}) \in Int
    BY <1>3, MaxType
  <1>5. QED
    BY <1>4 DEF desiredPersistence, Unset

\* The pool of a port (ensurePool, findPoolForListener).
LEMMA PoolType ==
  ASSUME TypeOK, NEW s \in Services, GetPool(s) \/ UpdatePool(s) \/ CreatePool(s) \/ FindPoolOfPort(s)
  PROVE  TypeOK'
  <1>1. call[s] \in Call /\ CallOK(s, call[s])
    BY CallTyped
  <1>2. call[s].pc \in PortPCs
    BY DEF GetPool, UpdatePool, CreatePool, FindPoolOfPort, At, PortPCs
  <1>3. Slot(s) \in Slots /\ L(s) \in Listener
    BY <1>2, SlotTyped
  <1>4. Svc(s) \in ServiceObject
    BY <1>1, <1>2, SpecTyped DEF CallOK, PortPCs, Svc
  <1>5. withPool(L(s), Svc(s)) \in Listener
    <2>1. desiredPersistence(Svc(s)) \in Int /\ Svc(s).alg \in STRING
      BY <1>4, PersistenceType DEF ServiceObject
    <2>2. \A p \in Int : [L(s) EXCEPT !.pool = TRUE, !.alg = Svc(s).alg, !.persist = p] \in Listener
      BY <1>3, <2>1 DEF Listener
    <2>3. L(s).persist \in Int
      BY <1>3 DEF Listener
    <2>4. QED
      BY <2>1, <2>2, <2>3 DEF withPool
  <1>6. \A p \in {"updatePool", "listMembers"}, b \in BOOLEAN :
           LET c == [call[s] EXCEPT !.pc = p, !.mon = b]
           IN  /\ c \in Call /\ c.pc = p /\ c.svc = call[s].svc /\ c.lb = call[s].lb
               /\ c.i = call[s].i /\ c.key = call[s].key
    <2> SUFFICES ASSUME NEW p \in {"updatePool", "listMembers"}, NEW b \in BOOLEAN
                 PROVE  LET c == [call[s] EXCEPT !.pc = p, !.mon = b]
                        IN  /\ c \in Call /\ c.pc = p /\ c.svc = call[s].svc
                            /\ c.lb = call[s].lb /\ c.i = call[s].i /\ c.key = call[s].key
      OBVIOUS
    <2>1. p \in PCs
      BY DEF PCs, PortPCs
    <2>2. QED
      BY <1>1, <2>1 DEF Call
  <1>7. ASSUME NEW p \in {"updatePool", "listMembers"}, NEW b \in BOOLEAN,
               Goto(s, [call[s] EXCEPT !.pc = p, !.mon = b])
        PROVE  CallsOK'
    BY <1>2, <1>6, <1>7, MoveCall DEF PortPCs, DropPCs, BalancerPCs
  <1>8. CASE GetPool(s)
    <2>1. CallsOK'
      BY <1>7, <1>8 DEF GetPool
    <2>2. QED
      BY <1>8, <2>1, OnlyCalls DEF GetPool, TypeOK
  <1>9. CASE UpdatePool(s)
    <2>1. CallsOK'
      BY <1>7, <1>9 DEF UpdatePool
    <2>2. listener' \in [Slots -> Listener]
      BY <1>5, <1>9, ListenerStep DEF UpdatePool
    <2>3. QED
      BY <1>9, <2>1, <2>2, ListenerMove DEF UpdatePool
  <1>10. CASE CreatePool(s)
    <2>1. CallsOK'
      BY <1>2, <1>10, MovePC DEF CreatePool, PCs, PortPCs, DropPCs, BalancerPCs
    <2>2. listener' \in [Slots -> Listener]
      BY <1>5, <1>10, ListenerStep DEF CreatePool
    <2>3. QED
      BY <1>10, <2>1, <2>2, ListenerMove DEF CreatePool
  <1>11. CASE FindPoolOfPort(s)
    <2>1. CallsOK'
      BY <1>2, <1>11, MovePC DEF FindPoolOfPort, PCs, PortPCs, DropPCs, BalancerPCs
    <2>2. QED
      BY <1>11, <2>1, OnlyCalls DEF FindPoolOfPort, TypeOK
  <1>12. QED
    BY <1>8, <1>9, <1>10, <1>11

\* reconcileMembers.
LEMMA MemberType ==
  ASSUME TypeOK, NEW s \in Services,
         \/ ListMembers(s) \/ MembersDone(s)
         \/ At(s, "members") /\ \E m \in Wanted(s) : AddMember(s, m)
         \/ \E m \in call[s].have : RemoveMember(s, m)
  PROVE  TypeOK'
  <1>1. call[s] \in Call /\ CallOK(s, call[s])
    BY CallTyped
  <1>2. call[s].pc \in PortPCs
    BY DEF ListMembers, MembersDone, RemoveMember, At, PortPCs
  <1>3. Slot(s) \in Slots /\ L(s) \in Listener
    BY <1>2, SlotTyped
  <1>4. Wanted(s) \in SUBSET Member
    <2>1. Port(s).nodePort \in Int
      <3>1. Svc(s) \in ServiceObject /\ call[s].i \in DOMAIN Svc(s).ports
        BY <1>1, <1>2, SpecTyped DEF CallOK, PortPCs, Svc
      <3>2. Svc(s).ports \in Seq(ServicePort)
        BY <3>1 DEF ServiceObject
      <3>3. Port(s) \in ServicePort
        BY <3>1, <3>2 DEF Port
      <3>4. QED
        BY <3>3 DEF ServicePort
    <2>2. call[s].nodes \in SUBSET Nodes
      BY <1>1, CallFields
    <2>3. \A ns \in SUBSET Nodes, p \in Int : wantedMembers(ns, p) \in SUBSET Member
      <3> SUFFICES ASSUME NEW ns \in SUBSET Nodes, NEW p \in Int, NEW m \in wantedMembers(ns, p)
                   PROVE  m \in Member
        OBVIOUS
      <3>1. PICK n \in ns : m = <<nodeAddress(n), p>>
        BY DEF wantedMembers
      <3>2. nodeAddress(n) \in {nodeAddress(x) : x \in Nodes}
        OBVIOUS
      <3>3. QED
        BY <3>1, <3>2 DEF Member
    <2>4. QED
      BY <2>1, <2>2, <2>3 DEF Wanted
  <1>5. call[s].have \in SUBSET Member /\ L(s).members \in SUBSET Member
    BY <1>1, <1>3, CallFields DEF Listener
  <1>6. \A h \in SUBSET Member : [L(s) EXCEPT !.members = h] \in Listener
    BY <1>3 DEF Listener
  <1>7. ASSUME NEW h \in SUBSET Member, Goto(s, [call[s] EXCEPT !.have = h])
        PROVE  CallsOK'
    <2> DEFINE c == [call[s] EXCEPT !.have = h]
    <2>1. c \in Call /\ c.pc = call[s].pc /\ c.svc = call[s].svc /\ c.lb = call[s].lb
          /\ c.i = call[s].i /\ c.key = call[s].key /\ c.grp = call[s].grp
      BY <1>1 DEF Call
    <2> HIDE DEF c
    <2>2. QED
      BY <1>1, <1>7, <2>1, CallStep DEF c, CallOK
  <1>8. ASSUME NEW h \in SUBSET Member, NEW p \in {"members", "monitor"},
               Goto(s, [call[s] EXCEPT !.pc = p, !.have = h])
        PROVE  CallsOK'
    <2> DEFINE c == [call[s] EXCEPT !.pc = p, !.have = h]
    <2>1. p \in PCs
      BY DEF PCs, PortPCs
    <2>2. c \in Call
      BY <1>1, <2>1 DEF Call
    <2>3. c.pc = p /\ c.svc = call[s].svc /\ c.lb = call[s].lb
          /\ c.i = call[s].i /\ c.key = call[s].key
      BY <1>1 DEF Call
    <2> HIDE DEF c
    <2>4. QED
      BY <1>2, <1>8, <2>2, <2>3, MoveCall DEF c, PortPCs, DropPCs, BalancerPCs
  <1>9. CASE ListMembers(s)
    <2>1. CallsOK'
      BY <1>5, <1>8, <1>9 DEF ListMembers
    <2>2. QED
      BY <1>9, <2>1, OnlyCalls DEF ListMembers, TypeOK
  <1>10. CASE MembersDone(s)
    <2>1. CallsOK'
      BY <1>2, <1>8, <1>10, NextPortStep DEF MembersDone
    <2>2. QED
      BY <1>10, <2>1, OnlyCalls DEF MembersDone, TypeOK
  <1>11. ASSUME NEW m \in Wanted(s), AddMember(s, m)
         PROVE  TypeOK'
    <2>1. CallsOK'
      BY <1>4, <1>5, <1>7, <1>11 DEF AddMember
    <2>2. listener' \in [Slots -> Listener]
      BY <1>4, <1>5, <1>6, <1>11, ListenerStep DEF AddMember
    <2>3. QED
      BY <1>11, <2>1, <2>2, ListenerMove DEF AddMember
  <1>12. ASSUME NEW m \in call[s].have, RemoveMember(s, m)
         PROVE  TypeOK'
    <2>1. CallsOK'
      BY <1>5, <1>7, <1>12 DEF RemoveMember
    <2>2. listener' \in [Slots -> Listener]
      BY <1>5, <1>6, <1>12, ListenerStep DEF RemoveMember
    <2>3. QED
      BY <1>12, <2>1, <2>2, ListenerMove DEF RemoveMember
  <1>13. QED
    BY <1>9, <1>10, <1>11, <1>12

\* The monitor a port should have.
LEMMA WantedTyped ==
  ASSUME TypeOK, NEW s \in Services, call[s].pc \in PortPCs
  PROVE  WantedMonitor(s) \in Monitor
  <1>1. call[s] \in Call /\ CallOK(s, call[s])
    BY CallTyped
  <1>2. Svc(s) \in ServiceObject /\ Svc(s) \in AllSpecs /\ Svc(s).hc \in HealthCheck /\ Svc(s).hcNodePort \in Int
    BY <1>1, SpecTyped DEF CallOK, PortPCs, Svc, ServiceObject
  <1>3. WantedMonitor(s) \in Monitor
    <2> DEFINE path == IF Svc(s).hc.path = "" THEN "/" ELSE Svc(s).hc.path
               method == IF Svc(s).hc.method = "" THEN "GET" ELSE Svc(s).hc.method
               M(type, port, p, m) == [type |-> type, port |-> port, path |-> p, method |-> m,
                                       params |-> Svc(s).hc.params]
               Paths == {"", "/", "/healthz"} \cup {sp.hc.path : sp \in AllSpecs}
               Methods == {"", "GET"} \cup {sp.hc.method : sp \in AllSpecs}
    <2>1. Svc(s).hc.params \in Int
      BY <1>2 DEF HealthCheck
    <2>2. path \in Paths /\ method \in Methods
      BY <1>2
    <2>3. "" \in Paths /\ "/healthz" \in Paths /\ "" \in Methods /\ "GET" \in Methods
      OBVIOUS
    <2>4. \/ WantedMonitor(s) = M("UDP_CONNECT", 0, "", "")
          \/ WantedMonitor(s) = M("HTTP", Svc(s).hcNodePort, "/healthz", "GET")
          \/ /\ Svc(s).hc.protocol \in {"HTTP", "HTTPS"}
             /\ WantedMonitor(s) = M(Svc(s).hc.protocol, 0, path, method)
          \/ WantedMonitor(s) = M("TCP", 0, "", "")
      BY Zenon DEF WantedMonitor, desiredMonitor
    <2>5. Monitor = [type : {"TCP", "HTTP", "HTTPS", "UDP_CONNECT"}, port : Int, path : Paths,
                     method : Methods, params : Int]
      BY DEF Monitor
    <2> HIDE DEF path, method, Paths, Methods
    <2>6. \A type \in {"TCP", "HTTP", "HTTPS", "UDP_CONNECT"}, port \in Int, p \in Paths, m \in Methods :
             M(type, port, p, m) \in Monitor
      BY <2>1, <2>5
    <2> HIDE DEF M
    <2>7. M("UDP_CONNECT", 0, "", "") \in Monitor /\ M("TCP", 0, "", "") \in Monitor
      <3>1. 0 \in Int
        OBVIOUS
      <3>2. QED
        BY <2>3, <2>6, <3>1, Zenon
    <2>8. M("HTTP", Svc(s).hcNodePort, "/healthz", "GET") \in Monitor
      BY <1>2, <2>3, <2>6
    <2>9. \A type \in {"HTTP", "HTTPS"} : M(type, 0, path, method) \in Monitor
      BY <2>2, <2>6
    <2>10. QED
      BY <2>4, <2>7, <2>8, <2>9, Zenon
  <1>4. QED
    BY <1>3

\* reconcileMonitor.
LEMMA MonitorType ==
  ASSUME TypeOK, NEW s \in Services,
         ReconcileMonitor(s) \/ DeleteMonitor(s) \/ CreateMonitor(s) \/ UpdateMonitor(s)
  PROVE  TypeOK'
  <1>1. call[s] \in Call /\ CallOK(s, call[s])
    BY CallTyped
  <1>2. call[s].pc \in PortPCs
    BY DEF ReconcileMonitor, DeleteMonitor, CreateMonitor, UpdateMonitor, At, PortPCs
  <1>3. Slot(s) \in Slots /\ L(s) \in Listener
    BY <1>2, SlotTyped
  <1>5. WantedMonitor(s) \in Monitor
    BY <1>2, WantedTyped
  <1>6. \A m \in {None} \cup Monitor : [L(s) EXCEPT !.monitor = m] \in Listener
    BY <1>3 DEF Listener
  <1>7. \A p \in {"deleteMonitor", "createMonitor", "updateMonitor"} : Jump(s, p) => CallsOK'
    BY <1>2, MovePC DEF PCs, PortPCs, DropPCs, BalancerPCs
  <1>8. CASE ReconcileMonitor(s)
    <2>1. CallsOK'
      BY <1>2, <1>7, <1>8, NextPortStep DEF ReconcileMonitor
    <2>2. QED
      BY <1>8, <2>1, OnlyCalls DEF ReconcileMonitor, TypeOK
  <1>9. CASE DeleteMonitor(s)
    <2>1. CallsOK'
      BY <1>2, <1>7, <1>9, NextPortStep DEF DeleteMonitor
    <2>2. listener' \in [Slots -> Listener]
      BY <1>6, <1>9, ListenerStep DEF DeleteMonitor
    <2>3. QED
      BY <1>9, <2>1, <2>2, ListenerMove DEF DeleteMonitor
  <1>10. CASE CreateMonitor(s)
    <2>1. CallsOK'
      BY <1>2, <1>10, NextPortStep DEF CreateMonitor
    <2>2. listener' \in [Slots -> Listener]
      BY <1>5, <1>6, <1>10, ListenerStep DEF CreateMonitor
    <2>3. QED
      BY <1>10, <2>1, <2>2, ListenerMove DEF CreateMonitor
  <1>11. CASE UpdateMonitor(s)
    <2> DEFINE m == [WantedMonitor(s) EXCEPT !.type = L(s).monitor.type, !.port = L(s).monitor.port]
    <2>1. CallsOK'
      BY <1>2, <1>11, NextPortStep DEF UpdateMonitor
    <2>2. L(s).monitor \in Monitor
      BY <1>3, <1>11 DEF UpdateMonitor, Listener
    <2>3. m \in Monitor
      BY <1>5, <2>2 DEF Monitor
    <2>4. SetL(s, [L(s) EXCEPT !.monitor = m])
      BY <1>11 DEF UpdateMonitor
    <2> HIDE DEF m
    <2>5. listener' \in [Slots -> Listener]
      BY <1>6, <2>3, <2>4, ListenerStep
    <2>6. QED
      BY <1>11, <2>1, <2>5, ListenerMove DEF UpdateMonitor
  <1>12. QED
    BY <1>8, <1>9, <1>10, <1>11

-----------------------------------------------------------------------------
\* deleteListener, the deletion of the load balancer, releaseEips.
LEMMA TeardownType ==
  ASSUME TypeOK, NEW s \in Services, Teardown(s)
  PROVE  TypeOK'
  <1>1. call[s] \in Call /\ CallOK(s, call[s])
    BY CallTyped
  <1>2. CASE PickListener(s)
    <2>1. PICK k \in call[s].todo :
             Goto(s, [call[s] EXCEPT !.pc = "drop", !.key = k, !.todo = @ \ {k}])
      BY <1>2 DEF PickListener
    <2> DEFINE t == call[s].todo \ {k}
               c == [call[s] EXCEPT !.pc = "drop", !.key = k, !.todo = t]
    <2>2. k \in Keys /\ k # None /\ t \in SUBSET Keys
      BY <1>1, CallFields, NamesAssumption
    <2>3. Goto(s, c)
      BY <1>1, <2>1 DEF Call
    <2> HIDE DEF t
    <2>4. c \in Call /\ c.pc = "drop" /\ c.key = k /\ c.svc = call[s].svc /\ c.lb = call[s].lb
      BY <1>1, <2>2 DEF Call, PCs, DropPCs
    <2> HIDE DEF c
    <2>5. CallsOK'
      BY <1>2, <2>2, <2>3, <2>4, MoveCall DEF PickListener, At, PortPCs, DropPCs, BalancerPCs
    <2>6. QED
      BY <1>2, <2>5, OnlyCalls DEF PickListener, TypeOK
  <1>3. ASSUME call[s].pc \in DropPCs, NEW l \in Listener, SetL(s, l), CallsOK',
               UNCHANGED <<balancers, group, eip, cluster, queue, faults>>
        PROVE  TypeOK'
    BY <1>3, ListenerStep, ListenerMove
  <1>4. ASSUME call[s].pc \in DropPCs, NEW p \in DropPCs \ {"drop"}, Jump(s, p)
        PROVE  CallsOK'
    BY <1>4, MovePC DEF PCs, PortPCs, DropPCs, BalancerPCs
  <1>5. call[s].pc \in DropPCs => L(s) \in Listener
    BY SlotTyped
  <1>6. ASSUME call[s].pc \in DropPCs, NEW p \in {"dropPool"}, NEW h \in SUBSET Member,
               Goto(s, [call[s] EXCEPT !.pc = p, !.have = h])
        PROVE  CallsOK'
    <2> DEFINE c == [call[s] EXCEPT !.pc = p, !.have = h]
    <2>1. c \in Call /\ c.pc = "dropPool" /\ c.svc = call[s].svc /\ c.lb = call[s].lb
          /\ c.key = call[s].key
      BY <1>1 DEF Call, PCs, DropPCs
    <2>2. call[s].key # None
      BY <1>1, <1>6 DEF CallOK
    <2> HIDE DEF c
    <2>3. QED
      BY <1>6, <2>1, <2>2, MoveCall DEF c, PortPCs, DropPCs, BalancerPCs
  <1>7. CASE DropFindPool(s)
    <2>1. CallsOK'
      BY <1>4, <1>7 DEF DropFindPool, At, DropPCs
    <2>2. QED
      BY <1>7, <2>1, OnlyCalls DEF DropFindPool, TypeOK
  <1>8. CASE DropMonitor(s)
    <2>1. call[s].pc \in DropPCs
      BY <1>8 DEF DropMonitor, At, DropPCs
    <2>2. [L(s) EXCEPT !.monitor = None] \in Listener
      BY <1>5, <2>1 DEF Listener
    <2>3. CallsOK'
      BY <1>4, <1>8, <2>1 DEF DropMonitor, DropPCs
    <2>4. QED
      BY <1>3, <1>8, <2>1, <2>2, <2>3 DEF DropMonitor
  <1>9. CASE DropListMembers(s)
    <2>1. call[s].pc \in DropPCs
      BY <1>9 DEF DropListMembers, At, DropPCs
    <2>2. L(s).members \in SUBSET Member
      BY <1>5, <2>1 DEF Listener
    <2>3. CallsOK'
      BY <1>6, <1>9, <2>1, <2>2 DEF DropListMembers
    <2>4. QED
      BY <1>9, <2>3, OnlyCalls DEF DropListMembers, TypeOK
  <1>10. ASSUME NEW m \in call[s].have, DropMember(s, m)
         PROVE  TypeOK'
    <2> DEFINE h == call[s].have \ {m}
    <2>1. call[s].pc \in DropPCs /\ call[s].pc = "dropPool"
      BY <1>10 DEF DropMember, At, DropPCs
    <2>2. h \in SUBSET Member
      BY <1>1, CallFields
    <2>3. Goto(s, [call[s] EXCEPT !.have = h])
      BY <1>10 DEF DropMember
    <2>4. [L(s) EXCEPT !.members = @ \ {m}] \in Listener
      BY <1>5, <2>1 DEF Listener
    <2> HIDE DEF h
    <2>5. [call[s] EXCEPT !.have = h] = [call[s] EXCEPT !.pc = "dropPool", !.have = h]
      BY <1>1, <2>1 DEF Call
    <2>6. CallsOK'
      BY <1>6, <2>1, <2>2, <2>3, <2>5
    <2>7. QED
      BY <1>3, <1>10, <2>1, <2>4, <2>6 DEF DropMember
  <1>11. CASE DropPool(s)
    <2>1. call[s].pc \in DropPCs
      BY <1>11 DEF DropPool, At, DropPCs
    <2>2. [L(s) EXCEPT !.pool = FALSE, !.alg = None, !.persist = Unset] \in Listener
      <3>1. \A p \in Int : [L(s) EXCEPT !.pool = FALSE, !.alg = None, !.persist = p] \in Listener
        BY <1>5, <2>1 DEF Listener
      <3>2. Unset \in Int
        BY DEF Unset
      <3>3. QED
        BY <3>1, <3>2
    <2>3. CallsOK'
      BY <1>4, <1>11, <2>1 DEF DropPool, DropPCs
    <2>4. QED
      BY <1>3, <1>11, <2>1, <2>2, <2>3 DEF DropPool
  <1>12. CASE DropListener(s)
    <2>1. call[s].pc \in DropPCs
      BY <1>12 DEF DropListener, At, DropPCs
    <2>2. NoListener \in Listener
      BY DEF NoListener, Listener, Unset
    <2>3. CallsOK'
      BY <1>4, <1>12, <2>1 DEF DropListener, DropPCs
    <2>4. QED
      BY <1>3, <1>12, <2>1, <2>2, <2>3 DEF DropListener
  <1>13. CASE DropIPGroup(s)
    <2> DEFINE c == [call[s] EXCEPT !.pc = "sweep", !.key = None]
    <2>1. c \in Call /\ c.pc = "sweep" /\ c.svc = call[s].svc /\ c.lb = call[s].lb
      BY <1>1 DEF Call, PCs, BalancerPCs
    <2>2. Goto(s, c)
      BY <1>13 DEF DropIPGroup
    <2> HIDE DEF c
    <2>3. CallsOK'
      BY <1>13, <2>1, <2>2, MoveCall DEF DropIPGroup, At, PortPCs, DropPCs, BalancerPCs
    <2>4. NoGroup \in Group
      BY DEF NoGroup, Group
    <2>5. group' \in [GroupIds -> Group]
      BY <1>13, <2>4 DEF DropIPGroup, TypeOK
    <2>6. QED
      BY <1>13, <2>3, <2>5 DEF DropIPGroup, TypeOK, cluster
  <1>14. CASE SweepDone(s)
    <2>1. CallsOK'
      BY <1>14, MovePC DEF SweepDone, At, PCs, PortPCs, DropPCs, BalancerPCs
    <2>2. QED
      BY <1>14, <2>1, OnlyCalls DEF SweepDone, TypeOK
  <1>15. CASE DeleteLoadBalancer(s)
    <2>1. CallsOK'
      BY <1>15, MovePC DEF DeleteLoadBalancer, At, PCs, PortPCs, DropPCs, BalancerPCs
    <2>2. eip' \in [EipIds -> Eip]
      BY <1>15 DEF DeleteLoadBalancer, TypeOK, Eip
    <2>3. balancers' \subseteq LBs
      BY <1>15 DEF DeleteLoadBalancer, TypeOK
    <2>4. QED
      BY <1>15, <2>1, <2>2, <2>3 DEF DeleteLoadBalancer, TypeOK, cluster
  <1>16. ASSUME NEW e \in call[s].eips, ReleaseEip(s, e)
         PROVE  TypeOK'
    <2> DEFINE es == call[s].eips \ {e}
               p == IF call[s].eips = {e} THEN "return" ELSE "releaseEips"
               c == [call[s] EXCEPT !.eips = es, !.pc = p]
    <2>1. es \in SUBSET EipIds /\ p \in {"return", "releaseEips"}
      BY <1>1, CallFields
    <2>2. Goto(s, c)
      BY <1>16 DEF ReleaseEip
    <2> HIDE DEF es, p
    <2>3. c \in Call /\ c.pc = p /\ c.svc = call[s].svc /\ c.lb = call[s].lb
      <3>1. p \in PCs
        BY <2>1 DEF PCs, BalancerPCs
      <3>2. QED
        BY <1>1, <2>1, <3>1 DEF Call
    <2> HIDE DEF c
    <2>4. CallsOK'
      BY <1>16, <2>1, <2>2, <2>3, MoveCall DEF ReleaseEip, At, PortPCs, DropPCs, BalancerPCs
    <2>5. eip' \in [EipIds -> Eip]
      <3>1. e \in EipIds /\ eip \in [EipIds -> Eip]
        BY <1>1, CallFields DEF TypeOK
      <3>2. [eip[e] EXCEPT !.up = FALSE] \in Eip
        BY <3>1 DEF Eip
      <3>3. eip' = [eip EXCEPT ![e] = [@ EXCEPT !.up = FALSE]]
        BY <1>16 DEF ReleaseEip
      <3>4. QED
        BY <3>1, <3>2, <3>3
    <2>6. QED
      BY <1>16, <2>4, <2>5 DEF ReleaseEip, TypeOK, cluster
  <1>17. QED
    BY <1>2, <1>7, <1>8, <1>9, <1>10, <1>11, <1>12, <1>13, <1>14, <1>15, <1>16 DEF Teardown

\* The ends of a call: returning nil, refused and failing API calls.
LEMMA EndType ==
  ASSUME TypeOK, NEW s \in Services, Return(s) \/ Refused(s) \/ Abort(s)
  PROVE  TypeOK'
  <1>1. CASE Return(s)
    <2>1. CallsOK'
      BY <1>1, IdleCall, CallStep DEF Return
    <2>2. /\ phase' \in [Services -> {"live", "deleting", "gone"}]
          /\ queue' \in [Services -> SUBSET {"service", "nodes"}]
      BY <1>1 DEF Return, TypeOK
    <2>3. QED
      BY <1>1, <2>1, <2>2 DEF Return, TypeOK, cloud
  <1>2. CASE Refused(s)
    BY <1>2, FailStep, OnlyCalls DEF Refused, TypeOK
  <1>3. CASE Abort(s)
    <2>1. faults' \in 0 .. MaxFaults
      BY <1>3, BoundsAssumption DEF Abort, TypeOK
    <2>2. QED
      BY <1>3, <2>1, FailStep, OnlyCalls DEF Abort
  <1>4. QED
    BY <1>1, <1>2, <1>3

\* A restart of the controller manager.
LEMMA CrashType ==
  ASSUME TypeOK, Crash
  PROVE  TypeOK'
  <1>1. CallsOK'
    BY IdleCall DEF Crash, CallsOK
  <1>2. queue' \in [Services -> SUBSET {"service", "nodes"}]
    BY DEF Crash
  <1>3. faults' \in 0 .. MaxFaults
    BY BoundsAssumption DEF Crash, TypeOK
  <1>4. QED
    BY <1>1, <1>2, <1>3, OnlyCalls DEF Crash

\* Changes made by users and to the node set.
LEMMA EnvironmentType ==
  ASSUME TypeOK, Environment
  PROVE  TypeOK'
  <1>1. edits' \in 0 .. MaxEdits /\ UNCHANGED <<cloud, call, faults>>
    BY BoundsAssumption DEF Environment, EditService, DeleteService, RecreateService, NodesChange, TypeOK
  <1>2. queue' \in [Services -> SUBSET {"service", "nodes"}]
    BY DEF Environment, EditService, DeleteService, RecreateService, NodesChange, TypeOK
  <1>3. phase' \in [Services -> {"live", "deleting", "gone"}]
    BY DEF Environment, EditService, DeleteService, RecreateService, NodesChange, TypeOK
  <1>4. spec' \in [Services -> AllSpecs] /\ \A r \in Services : spec'[r] \in Specs[r]
    BY SpecTyped DEF Environment, EditService, DeleteService, RecreateService, NodesChange, TypeOK
  <1>5. nodes' \subseteq Nodes
    BY DEF Environment, EditService, DeleteService, RecreateService, NodesChange, TypeOK
  <1>6. CallsOK'
    BY <1>1 DEF CallsOK, TypeOK
  <1>7. QED
    BY <1>1, <1>2, <1>3, <1>4, <1>5, <1>6 DEF TypeOK, cloud

\* TypeOK holds initially.
LEMMA TypeInit == Init => TypeOK
  <1> SUFFICES ASSUME Init PROVE TypeOK
    OBVIOUS
  <1>1. balancers \subseteq LBs
    BY CloudAssumption DEF Init, LBs
  <1>2. listener \in [Slots -> Listener]
    <2>1. NoListener \in Listener
      BY DEF NoListener, Listener, Unset
    <2>2. [NoListener EXCEPT !.up = TRUE] \in Listener
      BY <2>1 DEF Listener
    <2>3. QED
      BY <2>1, <2>2 DEF Init
  <1>3. group \in [GroupIds -> Group]
    BY DEF Init, NoGroup, Group
  <1>4. eip \in [EipIds -> Eip]
    BY DEF Init, Eip
  <1>5. CallsOK
    BY IdleCall DEF Init, CallsOK
  <1>6. spec \in [Services -> AllSpecs] /\ \A s \in Services : spec[s] \in Specs[s]
    BY DEF Init
  <1>7. /\ nodes \subseteq Nodes /\ phase \in [Services -> {"live", "deleting", "gone"}]
        /\ queue \in [Services -> SUBSET {"service", "nodes"}]
    BY DEF Init
  <1>8. edits \in 0 .. MaxEdits /\ faults \in 0 .. MaxFaults
    BY BoundsAssumption DEF Init
  <1>9. QED
    BY <1>1, <1>2, <1>3, <1>4, <1>5, <1>6, <1>7, <1>8 DEF TypeOK

\* TypeOK is preserved by every step.
LEMMA TypeStep == TypeOK /\ [Next]_vars => TypeOK'
  <1> SUFFICES ASSUME TypeOK, [Next]_vars PROVE TypeOK'
    OBVIOUS
  <1>1. CASE UNCHANGED vars
    BY <1>1 DEF vars, cloud, cluster, TypeOK, CallsOK
  <1>2. ASSUME NEW s \in Services, Start(s) PROVE TypeOK'
    BY <1>2, StartType
  <1>3. ASSUME NEW s \in Services, Step(s) PROVE TypeOK'
    <2>1. Reconcile(s) => TypeOK'
      BY ListenerType, GroupType, PoolType, MemberType, MonitorType DEF Reconcile
    <2>2. QED
      BY <1>3, <2>1, FindType, TeardownType, EndType DEF Step
  <1>4. ASSUME NEW s \in Services, Abort(s) PROVE TypeOK'
    BY <1>4, EndType
  <1>5. QED
    BY <1>1, <1>2, <1>3, <1>4, CrashType, EnvironmentType DEF Next, Rejected, Quiet

\* The type invariant holds in every reachable state of every instance: each
\* step of a call leaves a state on which the steps that can follow are defined
\* (a listener on the call's load balancer, a port the Service object has).
THEOREM TypeCorrect == Spec => []TypeOK
  BY TypeInit, TypeStep, PTL DEF Spec

-----------------------------------------------------------------------------
(***************************************************************************)
(* Whose listeners and load balancers a call may delete, for every value   *)
(* of the constants: Spec => ForeignListenersSurvive and                   *)
(* Spec => []SharedBalancersKept.                                          *)
(*                                                                         *)
(* ForeignListenersSurvive follows from OwnershipInv.  A step of a call of *)
(* s disturbs it only through the slot it works on, so the lemmas first    *)
(* say what such a step leaves alone (OthersKept, OnlyOwnAdded), then what *)
(* is left to show of the call that made it (OwnStep), then settle the     *)
(* steps that stay within a stage of the call (SameStage, SamePC), and at  *)
(* last the few that do not: the listing, the creation of a listener, the  *)
(* end of the loop over the ports, the choice of a listener to tear down   *)
(* and its deletion.                                                       *)
(***************************************************************************)

\* No listener of another owner than s goes away or changes hands.
OthersKept(s) ==
    \A sl \in Slots : listener[sl].up /\ listener[sl].owner # s
                         => listener'[sl].up /\ listener'[sl].owner = listener[sl].owner

\* No listener of s does.
OwnKept(s) ==
    \A sl \in Slots : listener[sl].up /\ listener[sl].owner = s
                         => listener'[sl].up /\ listener'[sl].owner = s

\* A listener that appears belongs to s and is at the slot its call works on.
OnlyOwnAdded(s) ==
    \A sl \in Slots : listener'[sl].up
                         => \/ listener[sl].up /\ listener'[sl].owner = listener[sl].owner
                            \/ sl = Slot(s) /\ listener'[sl].owner = s

\* The stages of a call in which its load balancer is settled.
LEMMA BalancerOfCall ==
  ASSUME TypeOK, NEW s \in Services,
         call[s].pc \in PortPCs \cup DropPCs \cup BalancerPCs
  PROVE  call[s].lb \in LBs /\ (call[s].lb = s \/ call[s].lb \in SharedLBs)
  <1>1. call[s].lb = targetLB(s, call[s].svc) /\ call[s].svc \in Specs[s]
    BY CallTyped DEF CallOK, PortPCs, DropPCs, BalancerPCs
  <1>2. call[s].svc \in ServiceObject /\ targetLB(s, call[s].svc) \in LBs
    BY <1>1, SpecTyped
  <1>3. QED
    BY <1>1, <1>2 DEF targetLB, ServiceObject

\* It is enough to show that a step of s leaves the listeners of others alone,
\* adds none but its own where it works, and that its call still knows its own.
LEMMA OwnStep ==
  ASSUME TypeOK, OwnershipInv, NEW s \in Services, NEW c, Goto(s, c),
         OthersKept(s), OnlyOwnAdded(s),
         UNCHANGED listener \/ call[s].pc \in PortPCs \cup DropPCs,
         c.pc \in PortPCs =>
            \A k \in Keys : c.existing[k].up /\ c.existing[k].owner = s => Owns(s, c.lb, k)',
         c.pc \in DropPCs \cup {"sweep"} => \A k \in c.todo : Owns(s, c.lb, k)',
         c.pc \in DropPCs \ {"dropGroup"} => Owns(s, c.lb, c.key)' /\ c.key \notin c.todo
  PROVE  OwnershipInv'
  <1>1. \A t \in Services, k \in Keys : listener'[<<t, k>>].up => listener'[<<t, k>>].owner = t
    <2> SUFFICES ASSUME NEW t \in Services, NEW k \in Keys, listener'[<<t, k>>].up
                 PROVE  listener'[<<t, k>>].owner = t
      OBVIOUS
    <2>1. <<t, k>> \in Slots
      BY DEF Slots, LBs
    <2>2. CASE listener[<<t, k>>].up /\ listener'[<<t, k>>].owner = listener[<<t, k>>].owner
      BY <2>2 DEF OwnershipInv
    <2>3. CASE UNCHANGED listener
      BY <2>3 DEF OwnershipInv
    <2>4. CASE /\ <<t, k>> = Slot(s) /\ listener'[<<t, k>>].owner = s
               /\ call[s].pc \in PortPCs \cup DropPCs
      <3>1. call[s].lb = t
        BY <2>4 DEF Slot
      <3>2. call[s].lb = s
        BY <2>4, <3>1, BalancerOfCall, NamesAssumption
      <3>3. QED
        BY <2>4, <3>1, <3>2
    <2>5. QED
      BY <2>1, <2>2, <2>3, <2>4 DEF OnlyOwnAdded
  <1>2. ASSUME NEW t \in Services PROVE KnowsOwn(t, call[t])'
    <2>1. CASE t = s
      <3>1. call'[s] = c
        BY DEF Goto, TypeOK, CallsOK
      <3>2. QED
        BY <2>1, <3>1 DEF KnowsOwn
    <2>2. CASE t # s
      <3>1. call'[t] = call[t]
        BY <2>2 DEF Goto, TypeOK, CallsOK
      <3>2. ASSUME NEW k \in Keys, Owns(t, call[t].lb, k), call[t].lb \in LBs
            PROVE  Owns(t, call[t].lb, k)'
        BY <2>2, <3>1, <3>2 DEF Owns, OthersKept, Slots
      <3>3. call[t].todo \subseteq Keys
        BY CallTyped, CallFields
      <3>4. call[t].pc \in PortPCs \cup DropPCs \cup {"sweep"} => call[t].lb \in LBs
        BY BalancerOfCall DEF BalancerPCs
      <3>5. call[t].pc \in DropPCs => call[t].key \in Keys
        BY SlotTyped
      <3>6. KnowsOwn(t, call[t])
        BY DEF OwnershipInv
      <3>7. QED
        BY <3>1, <3>2, <3>3, <3>4, <3>5, <3>6 DEF KnowsOwn
    <2>3. QED
      BY <2>1, <2>2
  <1>3. QED
    BY <1>1, <1>2 DEF OwnershipInv

-----------------------------------------------------------------------------
\* A step that leaves listeners alone keeps all owners.
LEMMA NoListenerTouched ==
  ASSUME UNCHANGED listener, NEW s \in Services
  PROVE  OthersKept(s) /\ OwnKept(s) /\ OnlyOwnAdded(s)
  BY DEF OthersKept, OwnKept, OnlyOwnAdded

\* So does one that changes the listener at hand but not its owner.
LEMMA SameOwner ==
  ASSUME TypeOK, NEW s \in Services, call[s].pc \in PortPCs \cup DropPCs, NEW l, SetL(s, l),
         l.up = L(s).up, l.owner = L(s).owner
  PROVE  OthersKept(s) /\ OwnKept(s) /\ OnlyOwnAdded(s)
  <1>1. Slot(s) \in Slots
    BY SlotTyped
  <1>2. \A sl \in Slots : /\ listener'[sl].up = listener[sl].up
                         /\ listener'[sl].owner = listener[sl].owner
    BY <1>1 DEF SetL, L, TypeOK
  <1>3. QED
    BY <1>2 DEF OthersKept, OwnKept, OnlyOwnAdded

\* A step that keeps owners and stays within a stage of the call (the ports, the
\* teardown), or leaves both, keeps OwnershipInv.
LEMMA SameStage ==
  ASSUME TypeOK, OwnershipInv, NEW s \in Services, NEW c, Goto(s, c),
         OthersKept(s), OwnKept(s), OnlyOwnAdded(s),
         UNCHANGED listener \/ call[s].pc \in PortPCs \cup DropPCs,
         c.pc \in PortPCs =>
            call[s].pc \in PortPCs /\ c.existing = call[s].existing /\ c.lb = call[s].lb,
         c.pc \in DropPCs \cup {"sweep"} =>
            /\ call[s].pc \in DropPCs \cup {"sweep"}
            /\ c.todo = call[s].todo /\ c.lb = call[s].lb,
         c.pc \in DropPCs \ {"dropGroup"} =>
            call[s].pc \in DropPCs \ {"dropGroup"} /\ c.key = call[s].key
  PROVE  OwnershipInv'
  <1>1. ASSUME NEW lb \in LBs, NEW k \in Keys, Owns(s, lb, k)
        PROVE  Owns(s, lb, k)'
    BY <1>1 DEF Owns, OwnKept, Slots
  <1>2. KnowsOwn(s, call[s])
    BY DEF OwnershipInv
  <1>3. call[s].todo \subseteq Keys
    BY CallTyped, CallFields
  <1>4. call[s].pc \in PortPCs \cup DropPCs \cup {"sweep"} => call[s].lb \in LBs
    BY BalancerOfCall DEF BalancerPCs
  <1>5. call[s].pc \in DropPCs => call[s].key \in Keys
    BY SlotTyped
  <1>6. QED
    <2>1. c.pc \in PortPCs =>
            \A k \in Keys : c.existing[k].up /\ c.existing[k].owner = s => Owns(s, c.lb, k)'
      BY <1>1, <1>2, <1>4 DEF KnowsOwn
    <2>2. c.pc \in DropPCs \cup {"sweep"} => \A k \in c.todo : Owns(s, c.lb, k)'
      BY <1>1, <1>2, <1>3, <1>4 DEF KnowsOwn
    <2>3. c.pc \in DropPCs \ {"dropGroup"} => Owns(s, c.lb, c.key)' /\ c.key \notin c.todo
      BY <1>1, <1>2, <1>4, <1>5 DEF KnowsOwn
    <2>4. QED
      BY <2>1, <2>2, <2>3, OwnStep

\* The same for a step that changes only the program counter of the call.
LEMMA SamePC ==
  ASSUME TypeOK, OwnershipInv, NEW s \in Services, NEW p, Jump(s, p),
         OthersKept(s), OwnKept(s), OnlyOwnAdded(s),
         UNCHANGED listener \/ call[s].pc \in PortPCs \cup DropPCs,
         p \in PortPCs => call[s].pc \in PortPCs,
         p \in DropPCs \cup {"sweep"} => call[s].pc \in DropPCs \cup {"sweep"},
         p \in DropPCs \ {"dropGroup"} => call[s].pc \in DropPCs \ {"dropGroup"}
  PROVE  OwnershipInv'
  <1> DEFINE c == [call[s] EXCEPT !.pc = p]
  <1>1. /\ c.pc = p /\ c.existing = call[s].existing /\ c.lb = call[s].lb
        /\ c.todo = call[s].todo /\ c.key = call[s].key
    BY CallTyped DEF Call
  <1>2. Goto(s, c)
    BY DEF Jump
  <1> HIDE DEF c
  <1>3. QED
    BY <1>1, <1>2, SameStage

\* A step that leaves the ports and the teardown, or was in neither.
LEMMA Elsewhere ==
  ASSUME TypeOK, OwnershipInv, NEW s \in Services, NEW c, Goto(s, c), UNCHANGED listener,
         c.pc \notin PortPCs \cup DropPCs \cup {"sweep"}
  PROVE  OwnershipInv'
  BY NoListenerTouched, SameStage

\* Returning an error.
LEMMA FailOwn ==
  ASSUME TypeOK, OwnershipInv, NEW s \in Services, Fail(s), UNCHANGED listener
  PROVE  OwnershipInv'
  BY Elsewhere DEF Fail, Idle, PortPCs, DropPCs

\* The next port, or the stale listeners after the last: what a call knows of a
\* listing is enough to tear down only what is its own (reconcile).
LEMMA NextPortKnows ==
  ASSUME NEW s \in Services, NEW c \in Call,
         \A k \in Keys : c.existing[k].up /\ c.existing[k].owner = s => Owns(s, c.lb, k)',
         NEW d, d = NextPort(s, c)
  PROVE  /\ d.pc \in PortPCs =>
            \A k \in Keys : d.existing[k].up /\ d.existing[k].owner = s => Owns(s, d.lb, k)'
         /\ d.pc \in DropPCs \cup {"sweep"} => \A k \in d.todo : Owns(s, d.lb, k)'
         /\ d.pc \notin DropPCs
  <1>1. /\ d.existing = c.existing /\ d.lb = c.lb
        /\ \/ d.pc \in {"listener", "findPool", "return"}
           \/ d.pc = "sweep" /\ d.todo = staleListeners(s, c)
    BY DEF NextPort, Call
  <1>2. QED
    BY <1>1 DEF staleListeners, ownsListener, PortPCs, DropPCs

\* A step of a port to the next.
LEMMA NextPortOwn ==
  ASSUME TypeOK, OwnershipInv, NEW s \in Services, call[s].pc \in PortPCs,
         Goto(s, NextPort(s, call[s])), OthersKept(s), OwnKept(s), OnlyOwnAdded(s)
  PROVE  OwnershipInv'
  <1>1. SUFFICES ASSUME NEW c \in Call, c = call[s] PROVE OwnershipInv'
    BY CallTyped
  <1>2. c.lb \in LBs /\ c.pc \in PortPCs /\ KnowsOwn(s, c)
    BY <1>1, BalancerOfCall DEF OwnershipInv
  <1>3. \A k \in Keys : c.existing[k].up /\ c.existing[k].owner = s => Owns(s, c.lb, k)'
    BY <1>2 DEF KnowsOwn, Owns, OwnKept, Slots
  <1>4. SUFFICES ASSUME NEW d, d = NextPort(s, c) PROVE OwnershipInv'
    OBVIOUS
  <1>5. Goto(s, d)
    BY <1>1, <1>4
  <1>6. QED
    BY <1>1, <1>2, <1>3, <1>4, <1>5, NextPortKnows, OwnStep

-----------------------------------------------------------------------------
\* Entry points: the call starts outside the ports and the teardown.
LEMMA StartOwn ==
  ASSUME TypeOK, OwnershipInv, NEW s \in Services, Start(s)
  PROVE  OwnershipInv'
  <1>1. ASSUME NEW op, NEW pc \in {"find", "get"}, NEW ns, Begin(s, op, pc, ns)
        PROVE  OwnershipInv'
    <2> DEFINE c == [Idle EXCEPT !.op = op, !.pc = pc, !.svc = spec[s], !.nodes = ns]
    <2>1. c.pc = pc
      BY DEF Idle
    <2>2. Goto(s, c) /\ UNCHANGED listener
      BY <1>1 DEF Begin, cloud
    <2> HIDE DEF c
    <2>3. QED
      BY <2>1, <2>2, Elsewhere DEF PortPCs, DropPCs
  <1>2. QED
    BY <1>1 DEF Start, EnsureLoadBalancer, UpdateLoadBalancer, EnsureLoadBalancerDeleted

\* The listing: what a call knows is what it just read, and what it will tear
\* down on deletion is its own, be it by name or because it owns the load balancer.
LEMMA ListOwn ==
  ASSUME TypeOK, OwnershipInv, NEW s \in Services, ListListeners(s)
  PROVE  OwnershipInv'
  <1>1. call[s] \in Call /\ CallOK(s, call[s]) /\ call[s].lb \in LBs
    BY CallTyped, BalancerOfCall DEF ListListeners, At, BalancerPCs
  <1>2. UNCHANGED listener /\ call[s].pc = "list"
    BY DEF ListListeners, cloud, At
  <1> DEFINE listed == [k \in Keys |-> View(listener[<<call[s].lb, k>>])]
  <1>3. SUFFICES ASSUME NEW c, c = [call[s] EXCEPT !.existing = listed] PROVE OwnershipInv'
    OBVIOUS
  <1>4. listed \in [Keys -> ListenerView]
    <2>1. \A k \in Keys : <<call[s].lb, k>> \in Slots
      BY <1>1 DEF Slots
    <2>2. QED
      BY <2>1 DEF TypeOK, Listener, View, ListenerView
  <1>5. /\ c \in Call /\ c.existing = listed /\ c.lb = call[s].lb /\ c.svc = call[s].svc
        /\ c.op = call[s].op
    BY <1>1, <1>3, <1>4 DEF Call
  <1>6. \A k \in Keys : /\ c.existing[k].up = listener[<<c.lb, k>>].up
                       /\ c.existing[k].owner = listener[<<c.lb, k>>].owner
    BY <1>5 DEF View
  <1>7. \A k \in Keys : c.existing[k].up /\ c.existing[k].owner = s => Owns(s, c.lb, k)'
    BY <1>2, <1>6 DEF Owns
  <1>8. OthersKept(s) /\ OnlyOwnAdded(s)
    BY <1>2, NoListenerTouched
  <1>9. CASE c.op = "delete"
    <2> DEFINE todo == {k \in Keys : deletable(s, c.svc, c.existing[k])}
    <2>1. SUFFICES ASSUME NEW d, d = [c EXCEPT !.pc = "sweep", !.todo = todo] PROVE OwnershipInv'
      OBVIOUS
    <2>2. Goto(s, d)
      BY <1>3, <1>9, <2>1 DEF ListListeners
    <2>3. d.pc = "sweep" /\ d.todo = todo /\ d.lb = c.lb
      BY <1>5, <2>1 DEF Call
    <2>4. c.svc.lbID = None => c.lb = s
      BY <1>1, <1>2, <1>5 DEF CallOK, BalancerPCs, targetLB
    <2>5. ASSUME NEW k \in todo PROVE Owns(s, d.lb, k)'
      <3>1. CASE ownsListener(s, c.existing[k])
        BY <1>7, <2>3, <3>1 DEF ownsListener, deletable
      <3>2. CASE c.svc.lbID = None
        <4>1. listener[<<s, k>>].up /\ c.lb = s
          BY <1>6, <2>4, <3>2 DEF deletable
        <4>2. QED
          BY <1>2, <2>3, <4>1 DEF OwnershipInv, Owns
      <3>3. QED
        BY <3>1, <3>2 DEF deletable
    <2>6. QED
      BY <1>2, <1>8, <2>2, <2>3, <2>5, OwnStep DEF PortPCs, DropPCs
  <1>10. CASE c.op # "delete"
    <2>1. SUFFICES ASSUME NEW d, d = NextPort(s, c) PROVE OwnershipInv'
      OBVIOUS
    <2>2. Goto(s, d)
      BY <1>3, <1>10, <2>1 DEF ListListeners
    <2>3. QED
      BY <1>2, <1>5, <1>7, <1>8, <2>1, <2>2, NextPortKnows, OwnStep
  <1>11. QED
    BY <1>9, <1>10

\* Looking the load balancer up or making it.
LEMMA FindOwn ==
  ASSUME TypeOK, OwnershipInv, NEW s \in Services, Find(s)
  PROVE  OwnershipInv'
  <1>1. CASE GetLoadBalancer(s)
    BY <1>1, NoListenerTouched, SamePC DEF GetLoadBalancer, PortPCs, DropPCs, cloud
  <1>2. CASE FoundLoadBalancer(s)
    <2>1. call[s] \in Call /\ UNCHANGED listener
      BY <1>2, CallTyped DEF FoundLoadBalancer, cloud
    <2>2. SUFFICES ASSUME NEW pc \in {"wait", "list"}, NEW es, NEW c,
                          c = [call[s] EXCEPT !.lb = targetLB(s, Svc(s)), !.pc = pc, !.eips = es],
                          Goto(s, c)
                   PROVE  OwnershipInv'
      BY <1>2 DEF FoundLoadBalancer
    <2>3. c.pc = pc
      BY <2>1, <2>2 DEF Call
    <2>4. QED
      BY <2>1, <2>2, <2>3, Elsewhere DEF PortPCs, DropPCs
  <1>3. CASE MissingLoadBalancer(s)
    <2>1. UNCHANGED listener
      BY <1>3 DEF MissingLoadBalancer, cloud
    <2>2. CASE Fail(s)
      BY <2>1, <2>2, FailOwn
    <2>3. CASE Jump(s, "return")
      BY <2>1, <2>3, NoListenerTouched, SamePC DEF PortPCs, DropPCs
    <2>4. CASE Goto(s, [call[s] EXCEPT !.lb = s, !.pc = "createLB"])
      <3>1. SUFFICES ASSUME NEW c, c = [call[s] EXCEPT !.lb = s, !.pc = "createLB"]
                     PROVE  OwnershipInv'
        OBVIOUS
      <3>2. c.pc = "createLB"
        BY <3>1, CallTyped DEF Call
      <3>3. QED
        BY <2>1, <2>4, <3>1, <3>2, Elsewhere DEF PortPCs, DropPCs
    <2>5. QED
      BY <1>3, <2>2, <2>3, <2>4 DEF MissingLoadBalancer
  <1>4. CASE CreateLoadBalancer(s)
    BY <1>4, NoListenerTouched, SamePC DEF CreateLoadBalancer, PortPCs, DropPCs
  <1>5. CASE waitForActive(s)
    BY <1>5, NoListenerTouched, SamePC DEF waitForActive, PortPCs, DropPCs, cloud
  <1>6. QED
    BY <1>1, <1>2, <1>3, <1>4, <1>5, ListOwn DEF Find

-----------------------------------------------------------------------------
\* A step of a port that keeps owners and stays at the port.
LEMMA PortMove ==
  ASSUME TypeOK, OwnershipInv, NEW s \in Services, call[s].pc \in PortPCs, NEW c, Goto(s, c),
         c.pc \in PortPCs, c.existing = call[s].existing, c.lb = call[s].lb,
         OthersKept(s), OwnKept(s), OnlyOwnAdded(s)
  PROVE  OwnershipInv'
  BY SameStage DEF PortPCs, DropPCs

\* The listener that a sync creates is its own (createListener).
LEMMA CreateOwn ==
  ASSUME TypeOK, OwnershipInv, NEW s \in Services, CreateListener(s)
  PROVE  OwnershipInv'
  <1>1. call[s] \in Call /\ call[s].pc = "listener" /\ call[s].pc \in PortPCs
    BY CallTyped DEF CreateListener, At, PortPCs
  <1>2. Slot(s) \in Slots /\ call[s].key \in Keys /\ call[s].lb \in LBs
    BY <1>1, SlotTyped, BalancerOfCall
  <1>3. ~listener[Slot(s)].up /\ SetL(s, NewListener(s, Svc(s).idle))
    BY DEF CreateListener, L
  <1>4. NewListener(s, Svc(s).idle).up /\ NewListener(s, Svc(s).idle).owner = s
    BY DEF NewListener, NoListener
  <1>5. /\ listener'[Slot(s)].up /\ listener'[Slot(s)].owner = s
        /\ \A sl \in Slots : sl # Slot(s) => listener'[sl] = listener[sl]
    BY <1>2, <1>3, <1>4 DEF SetL, TypeOK
  <1>6. OthersKept(s) /\ OwnKept(s) /\ OnlyOwnAdded(s)
    BY <1>3, <1>5 DEF OthersKept, OwnKept, OnlyOwnAdded
  <1>7. SUFFICES ASSUME NEW c, Goto(s, c),
                        c = [call[s] EXCEPT !.pc = "group",
                               !.existing[call[s].key] = View(NewListener(s, Svc(s).idle))]
                 PROVE  OwnershipInv'
    BY DEF CreateListener
  <1>8. /\ c.pc = "group" /\ c.lb = call[s].lb
        /\ \A k \in Keys : k # call[s].key => c.existing[k] = call[s].existing[k]
    BY <1>1, <1>2, <1>7 DEF Call
  <1>9. ASSUME NEW k \in Keys, c.existing[k].up, c.existing[k].owner = s
        PROVE  Owns(s, c.lb, k)'
    <2>1. PICK lb \in LBs : lb = c.lb
      BY <1>2, <1>8
    <2>2. CASE k = call[s].key
      BY <1>5, <1>8, <2>2 DEF Owns, Slot
    <2>3. CASE k # call[s].key
      <3>1. Owns(s, lb, k)
        BY <1>1, <1>8, <1>9, <2>1, <2>3 DEF OwnershipInv, KnowsOwn
      <3>2. QED
        BY <1>6, <2>1, <3>1 DEF Owns, OwnKept, Slots
    <2>4. QED
      BY <2>2, <2>3
  <1>10. QED
    BY <1>1, <1>6, <1>7, <1>8, <1>9, OwnStep DEF PortPCs, DropPCs

\* The listener and the IP address group of a port.
LEMMA GroupOwn ==
  ASSUME TypeOK, OwnershipInv, NEW s \in Services, call[s].pc \in PortPCs,
         \/ UpdateIdleTimeout(s) \/ KeepListener(s) \/ ReconcileIPGroup(s) \/ DisableIPGroup(s)
         \/ UpdateIPGroup(s) \/ CreateIPGroup(s) \/ AttachIPGroup(s)
  PROVE  OwnershipInv'
  <1>1. call[s] \in Call /\ L(s) \in Listener
    BY CallTyped, SlotTyped
  <1>2. CASE UpdateIdleTimeout(s)
    <2>1. SetL(s, [L(s) EXCEPT !.idle = Svc(s).idle]) /\ Jump(s, "group")
      BY <1>2 DEF UpdateIdleTimeout
    <2>2. OthersKept(s) /\ OwnKept(s) /\ OnlyOwnAdded(s)
      BY <1>1, <2>1, SameOwner DEF Listener
    <2>3. QED
      BY <2>1, <2>2, SamePC DEF PortPCs, DropPCs
  <1>3. CASE KeepListener(s)
    BY <1>3, NoListenerTouched, SamePC DEF KeepListener, PortPCs, DropPCs, cloud
  <1>4. CASE ReconcileIPGroup(s)
    <2>1. UNCHANGED listener
      BY <1>4 DEF ReconcileIPGroup, cloud
    <2>2. CASE Fail(s)
      BY <2>1, <2>2, FailOwn
    <2>3. ASSUME NEW p \in {"disableGroup", "pool", "createGroup"}, Jump(s, p) PROVE OwnershipInv'
      BY <2>1, <2>3, NoListenerTouched, SamePC DEF PortPCs, DropPCs
    <2>4. ASSUME NEW p \in {"updateGroup", "attachGroup", "pool"}, NEW g, NEW c, Goto(s, c),
                 c = [call[s] EXCEPT !.grp = g, !.pc = p]
          PROVE  OwnershipInv'
      <3>1. c.pc = p /\ c.existing = call[s].existing /\ c.lb = call[s].lb
        BY <1>1, <2>4 DEF Call
      <3>2. QED
        BY <2>1, <2>4, <3>1, NoListenerTouched, PortMove DEF PortPCs
    <2>5. QED
      BY <1>4, <2>2, <2>3, <2>4 DEF ReconcileIPGroup
  <1>5. CASE DisableIPGroup(s)
    <2>1. /\ SetL(s, [L(s) EXCEPT !.group = Listed(s).group, !.enable = FALSE])
          /\ Jump(s, "pool")
      BY <1>5 DEF DisableIPGroup
    <2>2. OthersKept(s) /\ OwnKept(s) /\ OnlyOwnAdded(s)
      BY <1>1, <2>1, SameOwner DEF Listener
    <2>3. QED
      BY <2>1, <2>2, SamePC DEF PortPCs, DropPCs
  <1>6. CASE UpdateIPGroup(s)
    BY <1>6, NoListenerTouched, SamePC DEF UpdateIPGroup, PortPCs, DropPCs
  <1>7. CASE CreateIPGroup(s)
    <2>1. SUFFICES ASSUME NEW g, NEW c, Goto(s, c), UNCHANGED listener,
                          c = [call[s] EXCEPT !.grp = g, !.pc = "attachGroup"]
                   PROVE  OwnershipInv'
      BY <1>7 DEF CreateIPGroup
    <2>2. c.pc = "attachGroup" /\ c.existing = call[s].existing /\ c.lb = call[s].lb
      BY <1>1, <2>1 DEF Call
    <2>3. QED
      BY <2>1, <2>2, NoListenerTouched, PortMove DEF PortPCs
  <1>8. CASE AttachIPGroup(s)
    <2>1. /\ SetL(s, [L(s) EXCEPT !.group = call[s].grp, !.enable = TRUE])
          /\ Jump(s, "pool")
      BY <1>8 DEF AttachIPGroup
    <2>2. OthersKept(s) /\ OwnKept(s) /\ OnlyOwnAdded(s)
      BY <1>1, <2>1, SameOwner DEF Listener
    <2>3. QED
      BY <2>1, <2>2, SamePC DEF PortPCs, DropPCs
  <1>9. QED
    BY <1>2, <1>3, <1>4, <1>5, <1>6, <1>7, <1>8

\* The pool and the members of a port.
LEMMA PoolOwn ==
  ASSUME TypeOK, OwnershipInv, NEW s \in Services, call[s].pc \in PortPCs,
         \/ GetPool(s) \/ UpdatePool(s) \/ CreatePool(s) \/ FindPoolOfPort(s)
         \/ ListMembers(s) \/ MembersDone(s)
         \/ \E m \in Wanted(s) : AddMember(s, m)
         \/ \E m \in call[s].have : RemoveMember(s, m)
  PROVE  OwnershipInv'
  <1>1. call[s] \in Call /\ L(s) \in Listener
    BY CallTyped, SlotTyped
  <1>2. withPool(L(s), Svc(s)).up = L(s).up /\ withPool(L(s), Svc(s)).owner = L(s).owner
    BY <1>1 DEF withPool, Listener
  <1>3. CASE GetPool(s)
    <2>1. SUFFICES ASSUME NEW p \in {"updatePool", "listMembers"}, NEW b, NEW c, Goto(s, c),
                          UNCHANGED listener, c = [call[s] EXCEPT !.pc = p, !.mon = b]
                   PROVE  OwnershipInv'
      BY <1>3 DEF GetPool, cloud
    <2>2. c.pc = p /\ c.existing = call[s].existing /\ c.lb = call[s].lb
      BY <1>1, <2>1 DEF Call
    <2>3. QED
      BY <2>1, <2>2, NoListenerTouched, PortMove DEF PortPCs
  <1>4. CASE UpdatePool(s)
    <2>1. SUFFICES ASSUME NEW b, NEW c, Goto(s, c),
                          c = [call[s] EXCEPT !.pc = "listMembers", !.mon = b]
                   PROVE  OwnershipInv'
      BY <1>4 DEF UpdatePool
    <2>2. c.pc = "listMembers" /\ c.existing = call[s].existing /\ c.lb = call[s].lb
      BY <1>1, <2>1 DEF Call
    <2>3. OthersKept(s) /\ OwnKept(s) /\ OnlyOwnAdded(s)
      BY <1>2, <1>4, SameOwner DEF UpdatePool
    <2>4. QED
      BY <2>1, <2>2, <2>3, PortMove DEF PortPCs
  <1>5. CASE CreatePool(s)
    <2>1. OthersKept(s) /\ OwnKept(s) /\ OnlyOwnAdded(s) /\ Jump(s, "listMembers")
      BY <1>2, <1>5, SameOwner DEF CreatePool
    <2>2. QED
      BY <2>1, SamePC DEF PortPCs, DropPCs
  <1>6. CASE FindPoolOfPort(s)
    BY <1>6, NoListenerTouched, SamePC DEF FindPoolOfPort, PortPCs, DropPCs, cloud
  <1>7. ASSUME NEW p \in {"listMembers", "members", "monitor"}, NEW have, NEW c, Goto(s, c),
               c = [call[s] EXCEPT !.pc = p, !.have = have],
               OthersKept(s), OwnKept(s), OnlyOwnAdded(s)
        PROVE  OwnershipInv'
    <2>1. c.pc = p /\ c.existing = call[s].existing /\ c.lb = call[s].lb
      BY <1>1, <1>7 DEF Call
    <2>2. QED
      BY <1>7, <2>1, PortMove DEF PortPCs
  <1>8. CASE ListMembers(s)
    BY <1>7, <1>8, NoListenerTouched DEF ListMembers, cloud
  <1>9. ASSUME NEW members, NEW have, NEW c, Goto(s, c), c = [call[s] EXCEPT !.have = have],
               SetL(s, [L(s) EXCEPT !.members = members])
        PROVE  OwnershipInv'
    <2>1. c.pc = call[s].pc /\ c.existing = call[s].existing /\ c.lb = call[s].lb
      BY <1>1, <1>9 DEF Call
    <2>2. OthersKept(s) /\ OwnKept(s) /\ OnlyOwnAdded(s)
      BY <1>1, <1>9, SameOwner DEF Listener
    <2>3. QED
      BY <1>9, <2>1, <2>2, PortMove
  <1>10. ASSUME NEW m \in Wanted(s), AddMember(s, m) PROVE OwnershipInv'
    BY <1>9, <1>10 DEF AddMember
  <1>11. ASSUME NEW m \in call[s].have, RemoveMember(s, m) PROVE OwnershipInv'
    BY <1>9, <1>11 DEF RemoveMember
  <1>12. CASE MembersDone(s)
    <2>1. OthersKept(s) /\ OwnKept(s) /\ OnlyOwnAdded(s)
      BY <1>12, NoListenerTouched DEF MembersDone, cloud
    <2>2. CASE Goto(s, NextPort(s, call[s]))
      BY <2>1, <2>2, NextPortOwn
    <2>3. CASE Goto(s, [call[s] EXCEPT !.pc = "monitor", !.have = {}])
      BY <1>7, <2>1, <2>3
    <2>4. QED
      BY <1>12, <2>2, <2>3 DEF MembersDone
  <1>13. QED
    BY <1>3, <1>4, <1>5, <1>6, <1>8, <1>10, <1>11, <1>12

\* The monitor of a port.
LEMMA MonitorOwn ==
  ASSUME TypeOK, OwnershipInv, NEW s \in Services, call[s].pc \in PortPCs,
         ReconcileMonitor(s) \/ DeleteMonitor(s) \/ CreateMonitor(s) \/ UpdateMonitor(s)
  PROVE  OwnershipInv'
  <1>1. L(s) \in Listener
    BY SlotTyped
  <1>2. ASSUME NEW mon, SetL(s, [L(s) EXCEPT !.monitor = mon])
        PROVE  OthersKept(s) /\ OwnKept(s) /\ OnlyOwnAdded(s)
    BY <1>1, <1>2, SameOwner DEF Listener
  <1>3. CASE ReconcileMonitor(s)
    <2>1. OthersKept(s) /\ OwnKept(s) /\ OnlyOwnAdded(s) /\ UNCHANGED listener
      BY <1>3, NoListenerTouched DEF ReconcileMonitor, cloud
    <2>2. CASE Goto(s, NextPort(s, call[s]))
      BY <2>1, <2>2, NextPortOwn
    <2>3. ASSUME NEW p \in {"deleteMonitor", "createMonitor", "updateMonitor"}, Jump(s, p)
          PROVE  OwnershipInv'
      BY <2>1, <2>3, SamePC DEF PortPCs, DropPCs
    <2>4. QED
      BY <1>3, <2>2, <2>3 DEF ReconcileMonitor
  <1>4. CASE DeleteMonitor(s)
    <2>1. OthersKept(s) /\ OwnKept(s) /\ OnlyOwnAdded(s)
      BY <1>2, <1>4 DEF DeleteMonitor
    <2>2. CASE Goto(s, NextPort(s, call[s]))
      BY <2>1, <2>2, NextPortOwn
    <2>3. CASE Jump(s, "createMonitor")
      BY <2>1, <2>3, SamePC DEF PortPCs, DropPCs
    <2>4. QED
      BY <1>4, <2>2, <2>3 DEF DeleteMonitor
  <1>5. CASE CreateMonitor(s)
    BY <1>2, <1>5, NextPortOwn DEF CreateMonitor
  <1>6. CASE UpdateMonitor(s)
    BY <1>2, <1>6, NextPortOwn DEF UpdateMonitor
  <1>7. QED
    BY <1>3, <1>4, <1>5, <1>6

\* All steps of the loop over the ports.
LEMMA ReconcileOwn ==
  ASSUME TypeOK, OwnershipInv, NEW s \in Services, Reconcile(s)
  PROVE  OwnershipInv'
  <1>1. call[s].pc \in PortPCs
    BY DEF Reconcile, CreateListener, UpdateIdleTimeout, KeepListener, ReconcileIPGroup,
           DisableIPGroup, UpdateIPGroup, CreateIPGroup, AttachIPGroup, GetPool, UpdatePool,
           CreatePool, FindPoolOfPort, ListMembers, MembersDone, AddMember, RemoveMember,
           ReconcileMonitor, DeleteMonitor, CreateMonitor, UpdateMonitor, At, PortPCs
  <1>2. QED
    BY <1>1, CreateOwn, GroupOwn, PoolOwn, MonitorOwn DEF Reconcile

-----------------------------------------------------------------------------
\* The next listener to tear down is taken out of the list.
LEMMA PickOwn ==
  ASSUME TypeOK, OwnershipInv, NEW s \in Services, PickListener(s)
  PROVE  OwnershipInv'
  <1>1. call[s] \in Call /\ call[s].pc = "sweep" /\ UNCHANGED listener
    BY CallTyped DEF PickListener, At, cloud
  <1>2. PICK k \in call[s].todo :
          Goto(s, [call[s] EXCEPT !.pc = "drop", !.key = k, !.todo = @ \ {k}])
    BY DEF PickListener
  <1>3. SUFFICES ASSUME NEW c, Goto(s, c),
                        c = [call[s] EXCEPT !.pc = "drop", !.key = k, !.todo = call[s].todo \ {k}]
                 PROVE  OwnershipInv'
    BY <1>2
  <1>4. /\ c.pc = "drop" /\ c.key = k /\ c.todo = call[s].todo \ {k} /\ c.lb = call[s].lb
    BY <1>1, <1>3 DEF Call
  <1>5. \A j \in call[s].todo : Owns(s, call[s].lb, j)
    BY <1>1 DEF OwnershipInv, KnowsOwn
  <1>6. Owns(s, c.lb, c.key)' /\ \A j \in c.todo : Owns(s, c.lb, j)'
    BY <1>1, <1>4, <1>5 DEF Owns
  <1>7. QED
    BY <1>1, <1>3, <1>4, <1>6, NoListenerTouched, OwnStep DEF PortPCs

\* A listener is deleted by its owner, and it is none of those still to be torn
\* down (deleteListener).
LEMMA DropOwn ==
  ASSUME TypeOK, OwnershipInv, NEW s \in Services, DropListener(s)
  PROVE  /\ OwnershipInv'
         /\ \A sl \in Slots : listener[sl].up /\ ~listener'[sl].up
                                => listener[sl].owner = s /\ Slot(s) = sl
  <1>1. call[s] \in Call /\ call[s].pc = "dropListener" /\ call[s].pc \in DropPCs
    BY CallTyped DEF DropListener, At, DropPCs
  <1>2. Slot(s) \in Slots /\ call[s].lb \in LBs /\ call[s].todo \subseteq Keys
    BY <1>1, SlotTyped, BalancerOfCall, CallFields
  <1>3. /\ Owns(s, call[s].lb, call[s].key) /\ call[s].key \notin call[s].todo
        /\ \A k \in call[s].todo : Owns(s, call[s].lb, k)
    BY <1>1 DEF OwnershipInv, KnowsOwn, DropPCs
  <1>4. /\ ~listener'[Slot(s)].up
        /\ \A sl \in Slots : sl # Slot(s) => listener'[sl] = listener[sl]
    BY <1>2 DEF DropListener, SetL, NoListener, TypeOK
  <1>5. listener[Slot(s)].owner = s
    BY <1>3 DEF Owns, Slot
  <1>6. OthersKept(s) /\ OnlyOwnAdded(s)
    BY <1>4, <1>5 DEF OthersKept, OnlyOwnAdded
  <1>7. OwnershipInv'
    <2>1. SUFFICES ASSUME NEW c, Goto(s, c), c = [call[s] EXCEPT !.pc = "dropGroup"]
                   PROVE  OwnershipInv'
      BY DEF DropListener, Jump
    <2>2. c.pc = "dropGroup" /\ c.lb = call[s].lb /\ c.todo = call[s].todo
      BY <1>1, <2>1 DEF Call
    <2>3. ASSUME NEW k \in c.todo PROVE Owns(s, c.lb, k)'
      <3>1. <<c.lb, k>> \in Slots /\ <<c.lb, k>> # Slot(s)
        BY <1>2, <1>3, <2>2 DEF Slots, Slot
      <3>2. QED
        BY <1>3, <1>4, <2>2, <3>1 DEF Owns
    <2>4. QED
      BY <1>1, <1>6, <2>1, <2>2, <2>3, OwnStep DEF PortPCs
  <1>8. QED
    BY <1>4, <1>5, <1>7

\* The other steps of the teardown.
LEMMA TeardownOwn ==
  ASSUME TypeOK, OwnershipInv, NEW s \in Services, Teardown(s)
  PROVE  OwnershipInv'
  <1>1. call[s] \in Call
    BY CallTyped
  <1>2. ASSUME NEW p \in {"dropListener", "dropMonitor", "dropList"}, Jump(s, p),
               call[s].pc \in DropPCs \ {"dropGroup"},
               OthersKept(s), OwnKept(s), OnlyOwnAdded(s)
        PROVE  OwnershipInv'
    BY <1>2, SamePC DEF PortPCs, DropPCs
  <1>3. CASE DropFindPool(s)
    <2>1. /\ OthersKept(s) /\ OwnKept(s) /\ OnlyOwnAdded(s)
          /\ call[s].pc \in DropPCs \ {"dropGroup"}
      BY <1>3, NoListenerTouched DEF DropFindPool, cloud, At, DropPCs
    <2>2. QED
      BY <1>2, <1>3, <2>1 DEF DropFindPool
  <1>4. ASSUME NEW l, SetL(s, l), call[s].pc \in DropPCs,
               L(s) \in Listener => l.up = L(s).up /\ l.owner = L(s).owner
        PROVE  OthersKept(s) /\ OwnKept(s) /\ OnlyOwnAdded(s)
    BY <1>4, SlotTyped, SameOwner
  <1>5. CASE DropMonitor(s)
    <2>1. call[s].pc \in DropPCs \ {"dropGroup"}
      BY <1>5 DEF DropMonitor, At, DropPCs
    <2>2. OthersKept(s) /\ OwnKept(s) /\ OnlyOwnAdded(s)
      BY <1>4, <1>5, <2>1 DEF DropMonitor, Listener
    <2>3. QED
      BY <1>2, <1>5, <2>1, <2>2 DEF DropMonitor
  <1>6. CASE DropPool(s)
    <2>1. call[s].pc \in DropPCs \ {"dropGroup"}
      BY <1>6 DEF DropPool, At, DropPCs
    <2>2. OthersKept(s) /\ OwnKept(s) /\ OnlyOwnAdded(s)
      BY <1>4, <1>6, <2>1 DEF DropPool, Listener
    <2>3. QED
      BY <1>2, <1>6, <2>1, <2>2 DEF DropPool
  <1>7. ASSUME NEW have, NEW c, Goto(s, c), c = [call[s] EXCEPT !.pc = "dropPool", !.have = have],
               call[s].pc \in DropPCs \ {"dropGroup"},
               OthersKept(s), OwnKept(s), OnlyOwnAdded(s)
        PROVE  OwnershipInv'
    <2>1. /\ c.pc = "dropPool" /\ c.todo = call[s].todo /\ c.lb = call[s].lb
          /\ c.key = call[s].key
      BY <1>1, <1>7 DEF Call
    <2>2. QED
      BY <1>7, <2>1, SameStage DEF PortPCs, DropPCs
  <1>8. CASE DropListMembers(s)
    <2>1. /\ OthersKept(s) /\ OwnKept(s) /\ OnlyOwnAdded(s)
          /\ call[s].pc \in DropPCs \ {"dropGroup"}
      BY <1>8, NoListenerTouched DEF DropListMembers, cloud, At, DropPCs
    <2>2. QED
      BY <1>7, <1>8, <2>1 DEF DropListMembers
  <1>9. ASSUME NEW m \in call[s].have, DropMember(s, m) PROVE OwnershipInv'
    <2>1. call[s].pc = "dropPool" /\ call[s].pc \in DropPCs \ {"dropGroup"}
      BY <1>9 DEF DropMember, At, DropPCs
    <2>2. OthersKept(s) /\ OwnKept(s) /\ OnlyOwnAdded(s)
      BY <1>4, <1>9, <2>1 DEF DropMember, Listener
    <2>3. [call[s] EXCEPT !.have = @ \ {m}]
            = [call[s] EXCEPT !.pc = "dropPool", !.have = call[s].have \ {m}]
      BY <1>1, <2>1 DEF Call
    <2>4. QED
      BY <1>7, <1>9, <2>1, <2>2, <2>3 DEF DropMember
  <1>10. CASE DropIPGroup(s)
    <2>1. SUFFICES ASSUME NEW c, Goto(s, c), c = [call[s] EXCEPT !.pc = "sweep", !.key = None]
                   PROVE  OwnershipInv'
      BY <1>10 DEF DropIPGroup
    <2>2. /\ c.pc = "sweep" /\ c.todo = call[s].todo /\ c.lb = call[s].lb
          /\ call[s].pc \in DropPCs
      BY <1>1, <1>10, <2>1 DEF Call, DropIPGroup, At, DropPCs
    <2>3. UNCHANGED listener
      BY <1>10 DEF DropIPGroup
    <2>4. QED
      BY <2>1, <2>2, <2>3, NoListenerTouched, SameStage DEF PortPCs, DropPCs
  <1>11. CASE SweepDone(s)
    <2>1. UNCHANGED listener
      BY <1>11 DEF SweepDone, cloud
    <2>2. ASSUME NEW p \in {"deleteLB", "return"}, Jump(s, p) PROVE OwnershipInv'
      BY <2>1, <2>2, NoListenerTouched, SamePC DEF PortPCs, DropPCs
    <2>3. QED
      BY <1>11, <2>2 DEF SweepDone
  <1>12. CASE DeleteLoadBalancer(s)
    <2>1. ASSUME NEW p \in {"releaseEips", "return"}, Jump(s, p), UNCHANGED listener
          PROVE  OwnershipInv'
      BY <2>1, NoListenerTouched, SamePC DEF PortPCs, DropPCs
    <2>2. QED
      BY <1>12, <2>1 DEF DeleteLoadBalancer
  <1>13. ASSUME NEW e \in call[s].eips, ReleaseEip(s, e) PROVE OwnershipInv'
    <2>1. SUFFICES ASSUME NEW p \in {"releaseEips", "return"}, NEW es, NEW c, Goto(s, c),
                          c = [call[s] EXCEPT !.eips = es, !.pc = p], UNCHANGED listener
                   PROVE  OwnershipInv'
      BY <1>13 DEF ReleaseEip
    <2>2. c.pc = p
      BY <1>1, <2>1 DEF Call
    <2>3. QED
      BY <2>1, <2>2, Elsewhere DEF PortPCs, DropPCs
  <1>14. QED
    BY <1>3, <1>5, <1>6, <1>8, <1>9, <1>10, <1>11, <1>12, <1>13, PickOwn, DropOwn DEF Teardown

-----------------------------------------------------------------------------
\* Only the deletion of a listener makes one disappear.
LEMMA OnlyDropRemoves ==
  ASSUME TypeOK, NEW s \in Services, Step(s), ~DropListener(s),
         NEW sl \in Slots, listener[sl].up
  PROVE  listener'[sl].up
  <1>1. ASSUME NEW l, SetL(s, l), L(s) \in Listener /\ L(s).up => l.up
        PROVE  listener'[sl].up
    BY <1>1 DEF SetL, L, TypeOK
  <1>2. CASE UNCHANGED listener
    BY <1>2
  <1>3. CASE CreateListener(s)
    BY <1>1, <1>3 DEF CreateListener, NewListener, NoListener
  <1>4. CASE UpdateIdleTimeout(s) \/ DisableIPGroup(s) \/ AttachIPGroup(s)
    BY <1>1, <1>4 DEF UpdateIdleTimeout, DisableIPGroup, AttachIPGroup, Listener
  <1>5. CASE UpdatePool(s) \/ CreatePool(s) \/ DropPool(s)
    BY <1>1, <1>5 DEF UpdatePool, CreatePool, DropPool, withPool, Listener
  <1>6. CASE \E m : AddMember(s, m) \/ RemoveMember(s, m) \/ DropMember(s, m)
    BY <1>1, <1>6 DEF AddMember, RemoveMember, DropMember, Listener
  <1>7. CASE DeleteMonitor(s) \/ CreateMonitor(s) \/ UpdateMonitor(s) \/ DropMonitor(s)
    BY <1>1, <1>7 DEF DeleteMonitor, CreateMonitor, UpdateMonitor, DropMonitor, Listener
  <1>8. Find(s) \/ Return(s) \/ Refused(s) => UNCHANGED listener
    BY DEF Find, GetLoadBalancer, FoundLoadBalancer, MissingLoadBalancer, CreateLoadBalancer,
           waitForActive, ListListeners, Return, Refused, cloud
  <1>9. /\ KeepListener(s) \/ ReconcileIPGroup(s) \/ GetPool(s) \/ FindPoolOfPort(s)
              \/ ListMembers(s) \/ MembersDone(s) \/ ReconcileMonitor(s) => UNCHANGED listener
        /\ UpdateIPGroup(s) \/ CreateIPGroup(s) => UNCHANGED listener
    BY DEF KeepListener, ReconcileIPGroup, UpdateIPGroup, CreateIPGroup, GetPool, FindPoolOfPort,
           ListMembers, MembersDone, ReconcileMonitor, cloud
  <1>10. /\ PickListener(s) \/ DropFindPool(s) \/ DropListMembers(s) \/ DropIPGroup(s)
               \/ SweepDone(s) \/ DeleteLoadBalancer(s) => UNCHANGED listener
         /\ \A e : ReleaseEip(s, e) => UNCHANGED listener
    BY DEF PickListener, DropFindPool, DropListMembers, DropIPGroup, SweepDone,
           DeleteLoadBalancer, ReleaseEip, cloud
  <1>11. CASE Reconcile(s)
    BY <1>2, <1>3, <1>4, <1>5, <1>6, <1>7, <1>9, <1>11 DEF Reconcile
  <1>12. CASE Teardown(s)
    BY <1>2, <1>5, <1>6, <1>7, <1>10, <1>12 DEF Teardown
  <1>13. QED
    BY <1>2, <1>8, <1>11, <1>12 DEF Step

\* The start: no call runs, and the only listeners are the user's, on load
\* balancers that are not a Service's own.
LEMMA OwnershipInit == Init => OwnershipInv
  <1> SUFFICES ASSUME Init PROVE OwnershipInv
    OBVIOUS
  <1>1. ASSUME NEW s \in Services, NEW k \in Keys PROVE ~listener[<<s, k>>].up
    <2>1. <<s, k>> \in Slots /\ <<s, k>> \notin UserSlots
      BY NamesAssumption, CloudAssumption DEF Slots, LBs
    <2>2. QED
      BY <2>1 DEF Init, NoListener
  <1>2. ASSUME NEW s \in Services PROVE KnowsOwn(s, call[s])
    BY DEF Init, KnowsOwn, Idle, PortPCs, DropPCs
  <1>3. QED
    BY <1>1, <1>2 DEF OwnershipInv

\* Every step preserves OwnershipInv.
LEMMA OwnershipStep == TypeOK /\ OwnershipInv /\ [Next]_vars => OwnershipInv'
  <1> SUFFICES ASSUME TypeOK, OwnershipInv, [Next]_vars PROVE OwnershipInv'
    OBVIOUS
  <1>1. CASE UNCHANGED <<listener, call>>
    BY <1>1 DEF OwnershipInv, KnowsOwn, Owns
  <1>2. ASSUME NEW s \in Services, Step(s) PROVE OwnershipInv'
    <2>1. CASE Return(s)
      BY <2>1, Elsewhere DEF Return, Idle, PortPCs, DropPCs, cloud
    <2>2. CASE Refused(s)
      BY <2>2, FailOwn DEF Refused, cloud
    <2>3. QED
      BY <1>2, <2>1, <2>2, FindOwn, ReconcileOwn, TeardownOwn DEF Step
  <1>3. ASSUME NEW s \in Services, Abort(s) PROVE OwnershipInv'
    BY <1>3, FailOwn DEF Abort, cloud
  <1>4. CASE Crash
    BY <1>4 DEF Crash, cloud, OwnershipInv, KnowsOwn, Idle, PortPCs, DropPCs
  <1>5. Environment => UNCHANGED <<listener, call>>
    BY DEF Environment, EditService, DeleteService, RecreateService, NodesChange, cloud
  <1>6. ASSUME NEW s \in Services, Rejected(s) PROVE UNCHANGED <<listener, call>>
    BY <1>6 DEF Rejected, vars, cloud
  <1>7. Quiet \/ UNCHANGED vars => UNCHANGED <<listener, call>>
    BY DEF Quiet, vars, cloud
  <1>8. QED
    BY <1>1, <1>2, <1>3, <1>4, <1>5, <1>6, <1>7, StartOwn DEF Next

\* What a call listed as its Service's own is still there and still its own when
\* its turn to be torn down comes, and a Service's own load balancer carries only
\* its own listeners (listListeners, deleteListener).
THEOREM OwnershipHolds == Spec => []OwnershipInv
  BY OwnershipInit, OwnershipStep, TypeCorrect, PTL DEF Spec

\* A step that makes a listener disappear is its owner's deleteListener.
LEMMA SurviveStep ==
  ASSUME TypeOK, OwnershipInv, [Next]_vars, NEW sl \in Slots, listener[sl].up, ~listener'[sl].up
  PROVE  \E s \in Services : listener[sl].owner = s /\ At(s, "dropListener") /\ Slot(s) = sl
  <1>1. ASSUME NEW s \in Services, DropListener(s)
        PROVE  listener[sl].owner = s /\ At(s, "dropListener") /\ Slot(s) = sl
    BY <1>1, DropOwn DEF DropListener
  <1>2. ASSUME NEW s \in Services, Step(s) PROVE DropListener(s)
    BY <1>2, OnlyDropRemoves
  <1>3. ASSUME NEW s \in Services, Start(s) \/ Rejected(s) \/ Abort(s) PROVE FALSE
    BY <1>3 DEF Start, EnsureLoadBalancer, UpdateLoadBalancer, EnsureLoadBalancerDeleted, Begin,
                Rejected, Abort, vars, cloud
  <1>4. Quiet \/ Crash \/ Environment \/ UNCHANGED vars => UNCHANGED listener
    BY DEF Quiet, Crash, Environment, EditService, DeleteService, RecreateService, NodesChange,
           vars, cloud
  <1>5. QED
    BY <1>1, <1>2, <1>3, <1>4 DEF Next

\* Whatever Services and users share a load balancer, and however their calls
\* interleave, fail and restart, a listener disappears only when its own Service
\* deletes it (the prefix tests of reconcile and EnsureLoadBalancerDeleted).
THEOREM ForeignSafe == Spec => ForeignListenersSurvive
  <1>1. TypeOK /\ OwnershipInv /\ [Next]_vars
          => [\A sl \in Slots :
                 (listener[sl].up /\ ~listener'[sl].up)
                    => \E s \in Services : /\ listener[sl].owner = s
                                           /\ At(s, "dropListener") /\ Slot(s) = sl]_vars
    BY SurviveStep
  <1>2. QED
    BY <1>1, OwnershipHolds, TypeCorrect, PTL DEF Spec, ForeignListenersSurvive

-----------------------------------------------------------------------------
\* A call that is about to delete its load balancer has no id annotation.  With
\* SharedBalancersKept this is inductive.
KeptInv ==
    /\ SharedBalancersKept
    /\ \A s \in Services : At(s, "deleteLB") => Svc(s).lbID = None

\* Only the end of the teardown leads to the deletion of the load balancer.
LEMMA OnlySweepDeletes ==
  ASSUME TypeOK, NEW s \in Services, Step(s), ~SweepDone(s)
  PROVE  call'[s].pc # "deleteLB"
  <1>1. call[s] \in Call
    BY CallTyped
  <1>2. ASSUME NEW c, Goto(s, c), c.pc # "deleteLB" PROVE call'[s].pc # "deleteLB"
    BY <1>2 DEF Goto, TypeOK, CallsOK
  <1>3. ASSUME NEW p, Jump(s, p), p # "deleteLB" PROVE call'[s].pc # "deleteLB"
    <2>1. [call[s] EXCEPT !.pc = p].pc = p
      BY <1>1 DEF Call
    <2>2. QED
      BY <1>2, <1>3, <2>1 DEF Jump
  <1>4. ASSUME NEW c \in Call PROVE NextPort(s, c).pc # "deleteLB"
    BY DEF NextPort, Call
  <1>5. CASE Fail(s)
    BY <1>2, <1>5 DEF Fail, Idle
  <1>6. CASE Goto(s, NextPort(s, call[s]))
    BY <1>1, <1>2, <1>4, <1>6
  <1>7. CASE Find(s)
    <2>1. CASE ListListeners(s)
      <3> DEFINE listed == [k \in Keys |-> View(listener[<<call[s].lb, k>>])]
                 c == [call[s] EXCEPT !.existing = listed]
      <3>1. listed \in [Keys -> ListenerView]
        <4>1. call[s].lb \in LBs
          BY <2>1, BalancerOfCall DEF ListListeners, At, BalancerPCs
        <4>2. \A k \in Keys : <<call[s].lb, k>> \in Slots
          BY <4>1 DEF Slots
        <4>3. QED
          BY <4>2 DEF TypeOK, Listener, View, ListenerView
      <3>2. c \in Call
        BY <1>1, <3>1 DEF Call
      <3>3. CASE Goto(s, NextPort(s, c))
        BY <1>2, <1>4, <3>2, <3>3
      <3>4. CASE c.op = "delete"
        <4> DEFINE d == [c EXCEPT !.pc = "sweep",
                                  !.todo = {k \in Keys : deletable(s, c.svc, c.existing[k])}]
        <4>1. Goto(s, d)
          BY <2>1, <3>4 DEF ListListeners
        <4>2. d.pc = "sweep"
          BY <3>2 DEF Call
        <4> HIDE DEF d
        <4>3. QED
          BY <1>2, <4>1, <4>2
      <3>5. QED
        BY <2>1, <3>3, <3>4 DEF ListListeners
    <2>2. CASE FoundLoadBalancer(s)
      BY <1>1, <1>2, <2>2 DEF FoundLoadBalancer, Call
    <2>3. CASE MissingLoadBalancer(s)
      BY <1>1, <1>2, <1>3, <1>5, <2>3 DEF MissingLoadBalancer, Call
    <2>4. CASE GetLoadBalancer(s) \/ CreateLoadBalancer(s) \/ waitForActive(s)
      BY <1>3, <2>4 DEF GetLoadBalancer, CreateLoadBalancer, waitForActive
    <2>5. QED
      BY <1>7, <2>1, <2>2, <2>3, <2>4 DEF Find
  <1>8. CASE Reconcile(s)
    <2>1. CASE CreateListener(s) \/ CreateIPGroup(s) \/ GetPool(s) \/ UpdatePool(s) \/ ListMembers(s)
      BY <1>1, <1>2, <2>1 DEF CreateListener, CreateIPGroup, GetPool, UpdatePool, ListMembers, Call
    <2>2. CASE UpdateIdleTimeout(s) \/ KeepListener(s) \/ DisableIPGroup(s) \/ UpdateIPGroup(s)
               \/ AttachIPGroup(s) \/ CreatePool(s) \/ FindPoolOfPort(s)
      BY <1>3, <2>2 DEF UpdateIdleTimeout, KeepListener, DisableIPGroup, UpdateIPGroup,
                        AttachIPGroup, CreatePool, FindPoolOfPort
    <2>3. CASE ReconcileIPGroup(s)
      BY <1>1, <1>2, <1>3, <1>5, <2>3 DEF ReconcileIPGroup, Call
    <2>4. CASE \E m : AddMember(s, m) \/ RemoveMember(s, m)
      BY <1>1, <1>2, <2>4 DEF AddMember, RemoveMember, At, Call
    <2>5. CASE MembersDone(s)
      BY <1>1, <1>2, <1>6, <2>5 DEF MembersDone, Call
    <2>6. CASE ReconcileMonitor(s) \/ DeleteMonitor(s) \/ CreateMonitor(s) \/ UpdateMonitor(s)
      BY <1>3, <1>6, <2>6 DEF ReconcileMonitor, DeleteMonitor, CreateMonitor, UpdateMonitor
    <2>7. QED
      BY <1>8, <2>1, <2>2, <2>3, <2>4, <2>5, <2>6 DEF Reconcile
  <1>9. CASE Teardown(s)
    <2>1. CASE PickListener(s) \/ DropListMembers(s) \/ DropIPGroup(s)
      BY <1>1, <1>2, <2>1 DEF PickListener, DropListMembers, DropIPGroup, Call
    <2>2. CASE DropFindPool(s) \/ DropMonitor(s) \/ DropPool(s) \/ DropListener(s)
               \/ DeleteLoadBalancer(s)
      BY <1>3, <2>2 DEF DropFindPool, DropMonitor, DropPool, DropListener, DeleteLoadBalancer
    <2>3. CASE \E m : DropMember(s, m)
      BY <1>1, <1>2, <2>3 DEF DropMember, At, Call
    <2>4. CASE \E e : ReleaseEip(s, e)
      BY <1>1, <1>2, <2>4 DEF ReleaseEip, Call
    <2>5. QED
      BY <1>9, <2>1, <2>2, <2>3, <2>4 DEF Teardown
  <1>10. CASE Return(s) \/ Refused(s)
    BY <1>2, <1>5, <1>10 DEF Return, Refused, Idle
  <1>11. QED
    BY <1>7, <1>8, <1>9, <1>10 DEF Step

\* Load balancers only disappear through DeleteLoadBalancer.
LEMMA OnlyDeleteRemoves ==
  ASSUME NEW s \in Services, Step(s), ~DeleteLoadBalancer(s)
  PROVE  balancers \subseteq balancers'
  <1>1. Find(s) => balancers \subseteq balancers'
    BY DEF Find, GetLoadBalancer, FoundLoadBalancer, MissingLoadBalancer, CreateLoadBalancer,
           waitForActive, ListListeners, cloud
  <1>2. Reconcile(s) => UNCHANGED balancers
    BY DEF Reconcile, CreateListener, UpdateIdleTimeout, KeepListener, ReconcileIPGroup,
           DisableIPGroup, UpdateIPGroup, CreateIPGroup, AttachIPGroup, GetPool, UpdatePool,
           CreatePool, FindPoolOfPort, ListMembers, MembersDone, AddMember, RemoveMember,
           ReconcileMonitor, DeleteMonitor, CreateMonitor, UpdateMonitor, cloud
  <1>3. Teardown(s) => UNCHANGED balancers
    BY DEF Teardown, PickListener, DropFindPool, DropMonitor, DropListMembers, DropMember,
           DropPool, DropListener, DropIPGroup, SweepDone, ReleaseEip, cloud
  <1>4. Return(s) \/ Refused(s) => UNCHANGED balancers
    BY DEF Return, Refused, cloud
  <1>5. QED
    BY <1>1, <1>2, <1>3, <1>4 DEF Step

\* A step of s leaves the calls of other Services alone.
LEMMA OnlyOwnCall ==
  ASSUME TypeOK, NEW s \in Services, Step(s), NEW t \in Services, t # s
  PROVE  call'[t] = call[t]
  <1>1. ASSUME NEW c, Goto(s, c) PROVE call'[t] = call[t]
    BY <1>1 DEF Goto, TypeOK, CallsOK
  <1>2. Find(s) => call'[t] = call[t]
    BY <1>1 DEF Find, GetLoadBalancer, FoundLoadBalancer, MissingLoadBalancer,
                CreateLoadBalancer, waitForActive, ListListeners, Jump, Fail
  <1>3. Reconcile(s) => call'[t] = call[t]
    BY <1>1 DEF Reconcile, CreateListener, UpdateIdleTimeout, KeepListener, ReconcileIPGroup,
                DisableIPGroup, UpdateIPGroup, CreateIPGroup, AttachIPGroup, GetPool, UpdatePool,
                CreatePool, FindPoolOfPort, ListMembers, MembersDone, AddMember, RemoveMember,
                ReconcileMonitor, DeleteMonitor, CreateMonitor, UpdateMonitor, Jump, Fail
  <1>4. Teardown(s) => call'[t] = call[t]
    BY <1>1 DEF Teardown, PickListener, DropFindPool, DropMonitor, DropListMembers, DropMember,
                DropPool, DropListener, DropIPGroup, SweepDone, DeleteLoadBalancer, ReleaseEip, Jump
  <1>5. Return(s) \/ Refused(s) => call'[t] = call[t]
    BY <1>1 DEF Return, Refused, Fail
  <1>6. QED
    BY <1>2, <1>3, <1>4, <1>5 DEF Step

\* Every step preserves KeptInv.
LEMMA KeptStep == TypeOK /\ KeptInv /\ [Next]_vars => KeptInv'
  <1> SUFFICES ASSUME TypeOK, KeptInv, [Next]_vars PROVE KeptInv'
    OBVIOUS
  <1>1. CASE UNCHANGED <<balancers, call>>
    BY <1>1 DEF KeptInv, SharedBalancersKept, At, Svc
  <1>2. ASSUME NEW s \in Services, balancers' = balancers, NEW c, Goto(s, c), c.pc # "deleteLB"
        PROVE  KeptInv'
    <2>1. \A t \in Services : call'[t] = call[t] \/ call'[t].pc # "deleteLB"
      BY <1>2 DEF Goto, TypeOK, CallsOK
    <2>2. QED
      BY <1>2, <2>1 DEF KeptInv, SharedBalancersKept, At, Svc
  <1>3. ASSUME NEW s \in Services, Start(s) PROVE KeptInv'
    <2>1. ASSUME NEW op, NEW pc \in {"find", "get"}, NEW ns, Begin(s, op, pc, ns)
          PROVE  KeptInv'
      <3> DEFINE c == [Idle EXCEPT !.op = op, !.pc = pc, !.svc = spec[s], !.nodes = ns]
      <3>1. c.pc = pc
        BY DEF Idle
      <3>2. Goto(s, c) /\ balancers' = balancers
        BY <2>1 DEF Begin, cloud
      <3> HIDE DEF c
      <3>3. QED
        BY <1>2, <3>1, <3>2
    <2>2. QED
      BY <1>3, <2>1 DEF Start, EnsureLoadBalancer, UpdateLoadBalancer, EnsureLoadBalancerDeleted
  <1>4. ASSUME NEW s \in Services, Step(s) PROVE KeptInv'
    <2>1. ExistingLBs \subseteq balancers'
      <3>1. CASE DeleteLoadBalancer(s)
        <4>1. call[s].pc = "deleteLB" /\ call[s].svc.lbID = None
          BY <3>1 DEF DeleteLoadBalancer, At, KeptInv, Svc
        <4>2. call[s].lb = s
          BY <4>1, CallTyped DEF CallOK, BalancerPCs, targetLB
        <4>3. s \notin ExistingLBs
          BY NamesAssumption, CloudAssumption
        <4>4. QED
          BY <3>1, <4>2, <4>3 DEF DeleteLoadBalancer, KeptInv, SharedBalancersKept
      <3>2. QED
        BY <1>4, <3>1, OnlyDeleteRemoves DEF KeptInv, SharedBalancersKept
    <2>2. call'[s].pc = "deleteLB" => call'[s].svc.lbID = None
      <3>1. CASE SweepDone(s)
        <4>1. PICK p \in {"deleteLB", "return"} :
                 Jump(s, p) /\ (p = "deleteLB" => ~keepsBalancer(Svc(s)))
          BY <3>1 DEF SweepDone
        <4>2. call'[s] = [call[s] EXCEPT !.pc = p]
          BY <4>1 DEF Jump, Goto, TypeOK, CallsOK
        <4>3. call'[s].pc = p /\ call'[s].svc = call[s].svc
          BY <4>2, CallTyped DEF Call
        <4>4. QED
          BY <4>1, <4>3 DEF keepsBalancer, Svc
      <3>2. QED
        BY <1>4, <3>1, OnlySweepDeletes
    <2>3. QED
      BY <1>4, <2>1, <2>2, OnlyOwnCall DEF KeptInv, SharedBalancersKept, At, Svc
  <1>5. ASSUME NEW s \in Services, Abort(s) PROVE KeptInv'
    BY <1>2, <1>5 DEF Abort, Fail, Idle, cloud
  <1>6. CASE Crash
    BY <1>6 DEF Crash, cloud, KeptInv, SharedBalancersKept, At, Idle
  <1>7. Environment => UNCHANGED <<balancers, call>>
    BY DEF Environment, EditService, DeleteService, RecreateService, NodesChange, cloud
  <1>8. ASSUME NEW s \in Services, Rejected(s) PROVE UNCHANGED <<balancers, call>>
    BY <1>8 DEF Rejected, vars, cloud
  <1>9. Quiet \/ UNCHANGED vars => UNCHANGED <<balancers, call>>
    BY DEF Quiet, vars, cloud
  <1>10. QED
    BY <1>1, <1>3, <1>4, <1>5, <1>6, <1>7, <1>8, <1>9 DEF Next

\* A load balancer that id annotations name is never deleted, at whatever point a
\* Service is moved to it, away from it or deleted (EnsureLoadBalancerDeleted).
THEOREM SharedKept == Spec => []SharedBalancersKept
  <1>1. Init => KeptInv
    BY DEF Init, KeptInv, SharedBalancersKept, At, Idle
  <1>2. KeptInv => SharedBalancersKept
    BY DEF KeptInv
  <1>3. QED
    BY <1>1, <1>2, KeptStep, TypeCorrect, PTL DEF Spec
=============================================================================
