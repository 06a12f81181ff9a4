----------------------------- MODULE CallProofs -----------------------------
(***************************************************************************)
(* What a step does to the call that makes it, to other calls and to the   *)
(* listeners; and the first properties that follow, for every value of the *)
(* constants: Spec => []StageInv (which operation may be where),           *)
(* Spec => []PlaceInv (whose listener may be where), Spec =>               *)
(* OnlyOwnListeners and Spec => NeverDrained.                              *)
(*                                                                         *)
(* The lemmas ...Does give the local variables of a call after an action   *)
(* one by one, so that no later proof looks at the EXCEPTs of the model.   *)
(***************************************************************************)
EXTENDS LoadBalancerProofs

\* The arguments of the call, and the place where it works.
SameService(c, d) == d.op = c.op /\ d.svc = c.svc /\ d.nodes = c.nodes
SamePlace(c, d) == SameService(c, d) /\ d.lb = c.lb /\ d.i = c.i /\ d.key = c.key

\* What it read at the start, and what it read of the port at hand.
SameSeen(c, d) == d.existing = c.existing /\ d.todo = c.todo /\ d.eips = c.eips
SamePort(c, d) == d.mon = c.mon /\ d.grp = c.grp /\ d.have = c.have

-----------------------------------------------------------------------------
\* The new value of the call that steps.
LEMMA GotoDoes ==
  ASSUME TypeOK, NEW s \in Services, NEW c, Goto(s, c)
  PROVE  call'[s] = c /\ \A t \in Services : t # s => call'[t] = call[t]
  BY DEF Goto, TypeOK, CallsOK

\* A jump moves the program counter and nothing else.
LEMMA JumpDoes ==
  ASSUME TypeOK, NEW s \in Services, NEW p, Jump(s, p)
  PROVE  /\ call'[s].pc = p /\ SamePlace(call[s], call'[s]) /\ SameSeen(call[s], call'[s])
         /\ SamePort(call[s], call'[s])
         /\ \A t \in Services : t # s => call'[t] = call[t]
  <1>1. Goto(s, [call[s] EXCEPT !.pc = p])
    BY DEF Jump
  <1>2. call'[s] = [call[s] EXCEPT !.pc = p] /\ \A t \in Services : t # s => call'[t] = call[t]
    BY <1>1, GotoDoes
  <1>3. QED
    BY <1>2, CallTyped DEF Call, SameService, SamePlace, SameSeen, SamePort

\* After an error no call is in progress.
LEMMA FailDoes ==
  ASSUME TypeOK, NEW s \in Services, Fail(s)
  PROVE  /\ call'[s] = Idle
         /\ \A t \in Services : t # s => call'[t] = call[t]
         /\ queue'[s] # {} /\ \A t \in Services : t # s => queue'[t] = queue[t]
  <1>1. call'[s] = Idle /\ \A t \in Services : t # s => call'[t] = call[t]
    BY GotoDoes DEF Fail
  <1>2. queue'[s] # {} /\ \A t \in Services : t # s => queue'[t] = queue[t]
    BY DEF Fail, TypeOK
  <1>3. QED
    BY <1>1, <1>2

\* No call in progress.
LEMMA IdleIs ==
  /\ Idle.op = "none" /\ Idle.pc = "idle" /\ Idle.svc = None /\ Idle.lb = None /\ Idle.key = None
  /\ Idle.have = {} /\ Idle.todo = {} /\ Idle.eips = {}
  BY DEF Idle

\* An entry point.
LEMMA BeginDoes ==
  ASSUME TypeOK, NEW s \in Services, NEW op, NEW pc, NEW ns, Begin(s, op, pc, ns)
  PROVE  /\ call[s].pc = "idle"
         /\ LET d == call'[s]
            IN  /\ d.op = op /\ d.pc = pc /\ d.svc = spec[s] /\ d.nodes = ns
                /\ d.lb = None /\ d.key = None /\ d.have = {} /\ d.todo = {} /\ d.eips = {}
         /\ \A t \in Services : t # s => call'[t] = call[t]
         /\ UNCHANGED <<cloud, cluster, faults>>
  <1>1. /\ call'[s] = [Idle EXCEPT !.op = op, !.pc = pc, !.svc = spec[s], !.nodes = ns]
        /\ \A t \in Services : t # s => call'[t] = call[t]
    BY GotoDoes DEF Begin
  <1>2. QED
    BY <1>1 DEF Begin, At, Idle

\* The load balancer is found.
LEMMA FoundDoes ==
  ASSUME TypeOK, NEW s \in Services, FoundLoadBalancer(s)
  PROVE  LET c == call[s] d == call'[s] IN
         /\ c.pc = "find" /\ SameService(c, d) /\ d.lb = targetLB(s, c.svc) /\ d.lb \in balancers
         /\ d.pc = IF c.op = "ensure" THEN "wait" ELSE "list"
         /\ d.eips = IF c.op = "delete" THEN {e \in EipIds : eip[e].up /\ eip[e].lb = d.lb} ELSE {}
  <1> DEFINE lb == targetLB(s, Svc(s))
             pc == IF call[s].op = "ensure" THEN "wait" ELSE "list"
             eips == IF call[s].op = "delete" THEN {e \in EipIds : eip[e].up /\ eip[e].lb = lb} ELSE {}
  <1>1. call'[s] = [call[s] EXCEPT !.lb = lb, !.pc = pc, !.eips = eips] /\ lb \in balancers
    BY GotoDoes DEF FoundLoadBalancer
  <1>2. /\ call'[s].lb = lb /\ call'[s].pc = pc /\ call'[s].eips = eips
        /\ SameService(call[s], call'[s])
    <2> HIDE DEF lb, pc, eips
    <2>1. QED
      BY <1>1, CallTyped DEF Call, SameService
  <1>3. QED
    BY <1>1, <1>2 DEF FoundLoadBalancer, At, Svc

\* It is not: ensure goes on to create it, delete is done, update fails.
LEMMA MissingDoes ==
  ASSUME TypeOK, NEW s \in Services, MissingLoadBalancer(s)
  PROVE  LET c == call[s] d == call'[s] IN
         /\ c.pc = "find" /\ targetLB(s, c.svc) \notin balancers
         /\ \/ /\ c.op = "ensure" /\ c.svc.lbID = None /\ UNCHANGED queue
               /\ SameService(c, d) /\ d.lb = s /\ d.pc = "createLB" /\ SameSeen(c, d)
            \/ Fail(s)
            \/ c.op = "delete" /\ Jump(s, "return") /\ UNCHANGED queue
  <1>1. CASE Goto(s, [call[s] EXCEPT !.lb = s, !.pc = "createLB"])
    <2>1. call'[s] = [call[s] EXCEPT !.lb = s, !.pc = "createLB"]
      BY <1>1, GotoDoes
    <2>2. /\ SameService(call[s], call'[s]) /\ call'[s].lb = s /\ call'[s].pc = "createLB"
          /\ SameSeen(call[s], call'[s])
      BY <2>1, CallTyped DEF Call, SameService, SameSeen
    <2>3. QED
      BY <2>2 DEF MissingLoadBalancer, At, Svc
  <1>2. QED
    BY <1>1 DEF MissingLoadBalancer, At, Svc

\* Are there ports left?
More(c) == c.i < Len(c.svc.ports)

\* The next port, or what comes after the last one, keeps what is not about the
\* port at hand.
LEMMA NextPortKeeps ==
  ASSUME NEW s \in Services, NEW c \in Call
  PROVE  LET d == NextPort(s, c) IN
         /\ SameService(c, d) /\ d.lb = c.lb /\ d.existing = c.existing /\ d.eips = c.eips
         /\ d.mon = FALSE /\ d.grp = None /\ d.have = {}
  BY DEF NextPort, Call, SameService

\* Where it goes.
LEMMA NextPortGoes ==
  ASSUME NEW s \in Services, NEW c \in Call
  PROVE  LET d == NextPort(s, c) IN
         /\ More(c) => /\ d.pc = (IF c.op = "ensure" THEN "listener" ELSE "findPool")
                       /\ d.todo = c.todo
         /\ ~More(c) => /\ d.pc = (IF c.op = "ensure" THEN "sweep" ELSE "return") /\ d.key = None
                        /\ d.todo = (IF c.op = "ensure" THEN staleListeners(s, c) ELSE c.todo)
  <1> SUFFICES ASSUME NEW d, d = NextPort(s, c)
               PROVE  /\ More(c) => /\ d.pc = (IF c.op = "ensure" THEN "listener" ELSE "findPool")
                                    /\ d.todo = c.todo
                      /\ ~More(c) => /\ d.pc = (IF c.op = "ensure" THEN "sweep" ELSE "return")
                                     /\ d.key = None
                                     /\ d.todo = (IF c.op = "ensure" THEN staleListeners(s, c)
                                                 ELSE c.todo)
    OBVIOUS
  <1> DEFINE e == [c EXCEPT !.mon = FALSE, !.grp = None, !.have = {}]
             key == portKey(c.svc.ports[c.i + 1])
             pc == IF c.op = "ensure" THEN "listener" ELSE "findPool"
             j == c.i + 1
  <1>1. e \in Call /\ e.todo = c.todo
    BY DEF Call
  <1>2. CASE More(c)
    <2>1. d = [e EXCEPT !.i = j, !.key = key, !.pc = pc]
      BY <1>2 DEF NextPort, More
    <2> HIDE DEF e, key, pc, j
    <2>2. d.pc = pc /\ d.todo = e.todo
      BY <1>1, <2>1 DEF Call
    <2>3. QED
      BY <1>1, <1>2, <2>2 DEF pc
  <1>3. CASE ~More(c) /\ c.op = "ensure"
    <2> DEFINE todo == staleListeners(s, c)
    <2>1. d = [e EXCEPT !.key = None, !.pc = "sweep", !.todo = todo]
      BY <1>3 DEF NextPort, More
    <2> HIDE DEF e, todo
    <2>2. d.pc = "sweep" /\ d.todo = todo /\ d.key = None
      BY <1>1, <2>1 DEF Call
    <2>3. QED
      BY <1>3, <2>2 DEF todo
  <1>4. CASE ~More(c) /\ c.op # "ensure"
    <2>1. d = [e EXCEPT !.key = None, !.pc = "return"]
      BY <1>4 DEF NextPort, More
    <2> HIDE DEF e
    <2>2. d.pc = "return" /\ d.todo = e.todo /\ d.key = None
      BY <1>1, <2>1 DEF Call
    <2>3. QED
      BY <1>1, <1>4, <2>2
  <1>5. QED
    BY <1>2, <1>3, <1>4

\* The next port itself.
LEMMA NextPortIs ==
  ASSUME NEW s \in Services, NEW c \in Call, More(c)
  PROVE  LET d == NextPort(s, c) IN d.i = c.i + 1 /\ d.key = portKey(c.svc.ports[c.i + 1])
  <1> DEFINE e == [c EXCEPT !.mon = FALSE, !.grp = None, !.have = {}]
             key == portKey(c.svc.ports[c.i + 1])
             pc == IF c.op = "ensure" THEN "listener" ELSE "findPool"
             j == c.i + 1
  <1>1. e \in Call
    BY DEF Call
  <1>2. PICK d : d = NextPort(s, c)
    OBVIOUS
  <1>3. d = [e EXCEPT !.i = j, !.key = key, !.pc = pc]
    BY <1>2 DEF NextPort, More
  <1> HIDE DEF e, key, pc, j
  <1>4. d.i = j /\ d.key = key
    BY <1>1, <1>3 DEF Call
  <1>5. QED
    BY <1>2, <1>4 DEF j, key

\* The same of a step from one port to the next.
LEMMA NextPortDoes ==
  ASSUME TypeOK, NEW s \in Services, Goto(s, NextPort(s, call[s]))
  PROVE  LET c == call[s] d == call'[s] IN
         /\ SameService(c, d) /\ d.lb = c.lb /\ d.existing = c.existing /\ d.eips = c.eips
         /\ d.mon = FALSE /\ d.grp = None /\ d.have = {}
         /\ More(c) => /\ d.pc = (IF c.op = "ensure" THEN "listener" ELSE "findPool")
                       /\ d.i = c.i + 1 /\ d.key = portKey(c.svc.ports[c.i + 1]) /\ d.todo = c.todo
         /\ ~More(c) => /\ d.pc = (IF c.op = "ensure" THEN "sweep" ELSE "return") /\ d.key = None
                        /\ d.todo = (IF c.op = "ensure" THEN staleListeners(s, c) ELSE c.todo)
  <1>1. PICK c \in Call : c = call[s]
    BY CallTyped
  <1>2. PICK d : d = call'[s]
    OBVIOUS
  <1>3. d = NextPort(s, c)
    BY <1>1, <1>2, GotoDoes
  <1>4. /\ SameService(c, d) /\ d.lb = c.lb /\ d.existing = c.existing /\ d.eips = c.eips
        /\ d.mon = FALSE /\ d.grp = None /\ d.have = {}
    BY <1>3, NextPortKeeps
  <1>5. /\ More(c) => /\ d.pc = (IF c.op = "ensure" THEN "listener" ELSE "findPool")
                      /\ d.todo = c.todo
        /\ ~More(c) => /\ d.pc = (IF c.op = "ensure" THEN "sweep" ELSE "return") /\ d.key = None
                       /\ d.todo = (IF c.op = "ensure" THEN staleListeners(s, c) ELSE c.todo)
    BY <1>3, NextPortGoes
  <1>6. More(c) => d.i = c.i + 1 /\ d.key = portKey(c.svc.ports[c.i + 1])
    BY <1>3, NextPortIs
  <1>7. QED
    BY <1>1, <1>2, <1>4, <1>5, <1>6

\* The listing.
Listing(lb) == [k \in Keys |-> View(listener[<<lb, k>>])]

\* It is kept; deletion goes on to tear down, the others to the first port.
LEMMA ListDoes ==
  ASSUME TypeOK, NEW s \in Services, ListListeners(s)
  PROVE  LET c == call[s] d == call'[s] IN
         /\ c.pc = "list" /\ c.lb \in LBs /\ Listing(c.lb) \in [Keys -> ListenerView]
         /\ SameService(c, d) /\ d.lb = c.lb /\ d.eips = c.eips /\ d.existing = Listing(c.lb)
         /\ \/ /\ c.op = "delete" /\ d.pc = "sweep"
               /\ d.todo = {k \in Keys : deletable(s, c.svc, Listing(c.lb)[k])}
            \/ /\ c.op # "delete"
               /\ \E e \in Call : /\ SamePlace(c, e) /\ e.pc = c.pc /\ e.eips = c.eips
                                  /\ e.existing = Listing(c.lb) /\ d = NextPort(s, e)
  <1>1. call[s].pc = "list" /\ call[s].lb \in LBs /\ call[s] \in Call
    BY CallTyped, BalancerOfCall DEF ListListeners, At, BalancerPCs
  <1>2. Listing(call[s].lb) \in [Keys -> ListenerView]
    <2>1. \A k \in Keys : listener[<<call[s].lb, k>>] \in Listener
      BY <1>1 DEF Slots, TypeOK
    <2>2. QED
      BY <2>1 DEF Listener, View, ListenerView, Listing
  <1>3. PICK e : e = [call[s] EXCEPT !.existing = Listing(call[s].lb)]
    OBVIOUS
  <1>4. /\ e \in Call /\ SamePlace(call[s], e) /\ e.pc = call[s].pc /\ e.eips = call[s].eips
        /\ e.existing = Listing(call[s].lb)
    BY <1>1, <1>2, <1>3 DEF Call, SamePlace, SameService
  <1>5. CASE call[s].op = "delete"
    <2> DEFINE todo == {k \in Keys : deletable(s, e.svc, e.existing[k])}
    <2>1. e.op = "delete"
      BY <1>4, <1>5 DEF SamePlace, SameService
    <2>2. Goto(s, IF e.op = "delete" THEN [e EXCEPT !.pc = "sweep", !.todo = todo]
                  ELSE NextPort(s, e))
      BY <1>3 DEF ListListeners, Listing
    <2>3. call'[s] = [e EXCEPT !.pc = "sweep", !.todo = todo]
      BY <2>1, <2>2, GotoDoes
    <2>4. todo = {k \in Keys : deletable(s, call[s].svc, Listing(call[s].lb)[k])}
      BY <1>4 DEF SamePlace, SameService
    <2> HIDE DEF todo
    <2>5. /\ SameService(e, call'[s]) /\ call'[s].lb = e.lb /\ call'[s].eips = e.eips
          /\ call'[s].existing = e.existing /\ call'[s].pc = "sweep" /\ call'[s].todo = todo
      BY <1>4, <2>3 DEF Call, SameService
    <2>6. QED
      BY <1>1, <1>2, <1>4, <1>5, <2>4, <2>5 DEF SamePlace, SameService
  <1>6. CASE call[s].op # "delete"
    <2>1. e.op # "delete"
      BY <1>4, <1>6 DEF SamePlace, SameService
    <2>2. Goto(s, NextPort(s, e))
      BY <1>3, <2>1 DEF ListListeners, Listing
    <2>3. call'[s] = NextPort(s, e)
      BY <2>2, GotoDoes
    <2>4. /\ SameService(e, call'[s]) /\ call'[s].lb = e.lb /\ call'[s].eips = e.eips
          /\ call'[s].existing = e.existing
      <3>1. PICK d : d = call'[s]
        OBVIOUS
      <3>2. d = NextPort(s, e)
        BY <2>3, <3>1
      <3>3. SameService(e, d) /\ d.lb = e.lb /\ d.eips = e.eips /\ d.existing = e.existing
        BY <1>4, <3>2, NextPortKeeps
      <3>4. QED
        BY <3>1, <3>3
    <2>5. \E f \in Call : /\ SamePlace(call[s], f) /\ f.pc = call[s].pc /\ f.eips = call[s].eips
                          /\ f.existing = Listing(call[s].lb) /\ call'[s] = NextPort(s, f)
      BY <1>4, <2>3, Zenon
    <2>6. /\ SameService(call[s], call'[s]) /\ call'[s].lb = call[s].lb
          /\ call'[s].eips = call[s].eips /\ call'[s].existing = Listing(call[s].lb)
      BY <1>4, <2>4 DEF SamePlace, SameService
    <2>7. QED
      BY <1>1, <1>2, <1>6, <2>5, <2>6
  <1>7. QED
    BY <1>5, <1>6

-----------------------------------------------------------------------------
\* The listener is created, and listed with the others.
LEMMA CreateDoes ==
  ASSUME TypeOK, NEW s \in Services, CreateListener(s)
  PROVE  LET c == call[s] d == call'[s] IN
         /\ c.pc = "listener" /\ d.pc = "group" /\ SamePlace(c, d) /\ SamePort(c, d)
         /\ d.todo = c.todo /\ d.eips = c.eips
         /\ d.existing[c.key] = View(NewListener(s, c.svc.idle))
         /\ \A k \in Keys : k # c.key => d.existing[k] = c.existing[k]
  <1>1. call[s] \in Call /\ call[s].pc = "listener" /\ call[s].key \in Keys
    BY CallTyped, SlotTyped DEF CreateListener, At, PortPCs
  <1>2. PICK v : v = View(NewListener(s, Svc(s).idle))
    OBVIOUS
  <1>3. call'[s] = [call[s] EXCEPT !.pc = "group", !.existing[call[s].key] = v]
    BY <1>2, GotoDoes DEF CreateListener
  <1>4. /\ call'[s].pc = "group" /\ SamePlace(call[s], call'[s]) /\ SamePort(call[s], call'[s])
        /\ call'[s].todo = call[s].todo /\ call'[s].eips = call[s].eips
    BY <1>1, <1>3 DEF Call, SamePlace, SameService, SamePort
  <1>5. /\ call'[s].existing[call[s].key] = v
        /\ \A k \in Keys : k # call[s].key => call'[s].existing[k] = call[s].existing[k]
    BY <1>1, <1>3 DEF Call
  <1>6. QED
    BY <1>1, <1>2, <1>4, <1>5 DEF Svc

\* The group of a port: nothing to do but perhaps switch it off, a foreign group,
\* the call's own group, or none.
LEMMA GroupDoes ==
  ASSUME TypeOK, NEW s \in Services, ReconcileIPGroup(s)
  PROVE  LET c == call[s] d == call'[s] IN
         /\ c.pc = "group"
         /\ \/ /\ Ranges(s) = <<>>
               /\ Jump(s, IF OwnGroup(s) /\ Listed(s).enable THEN "disableGroup" ELSE "pool")
            \/ Fail(s)
            \/ /\ Ranges(s) # <<>> /\ OwnGroup(s)
               /\ SamePlace(c, d) /\ SameSeen(c, d) /\ d.mon = c.mon /\ d.have = c.have
               /\ d.grp = Listed(s).group
               /\ d.pc = IF ~ipListEqual(group[Listed(s).group].list, Ranges(s)) THEN "updateGroup"
                         ELSE IF ~Listed(s).enable THEN "attachGroup" ELSE "pool"
            \/ Ranges(s) # <<>> /\ ~Attached(s) /\ Jump(s, "createGroup")
  <1> DEFINE p == IF ~ipListEqual(group[Listed(s).group].list, Ranges(s)) THEN "updateGroup"
                  ELSE IF ~Listed(s).enable THEN "attachGroup" ELSE "pool"
             g == Listed(s).group
  <1>1. CASE Ranges(s) # <<>> /\ OwnGroup(s) /\ Goto(s, [call[s] EXCEPT !.grp = g, !.pc = p])
    <2>1. call'[s] = [call[s] EXCEPT !.grp = g, !.pc = p]
      BY <1>1, GotoDoes
    <2> HIDE DEF p, g
    <2>2. /\ SamePlace(call[s], call'[s]) /\ SameSeen(call[s], call'[s])
          /\ call'[s].mon = call[s].mon /\ call'[s].have = call[s].have
          /\ call'[s].grp = g /\ call'[s].pc = p
      BY <2>1, CallTyped DEF Call, SamePlace, SameService, SameSeen
    <2>3. QED
      BY <1>1, <2>2 DEF ReconcileIPGroup, At, p, g
  <1>2. QED
    BY <1>1 DEF ReconcileIPGroup, At

\* A new group has an id that no group has; it becomes the group of the call.
LEMMA NewGroupDoes ==
  ASSUME TypeOK, NEW s \in Services, CreateIPGroup(s)
  PROVE  LET c == call[s] d == call'[s] IN
         /\ c.pc = "createGroup" /\ d.pc = "attachGroup"
         /\ SamePlace(c, d) /\ SameSeen(c, d) /\ d.mon = c.mon /\ d.have = c.have
         /\ d.grp \in GroupIds /\ ~group[d.grp].up
         /\ group'[d.grp] = [up |-> TRUE, name |-> groupName(s, c.key), list |-> Ranges(s)]
         /\ \A g \in GroupIds : g # d.grp => group'[g] = group[g]
  <1> DEFINE free == {g \in GroupIds : ~group[g].up}
  <1>1. PICK g : g = CHOOSE x \in free : TRUE
    OBVIOUS
  <1>2. free # {}
    BY DEF CreateIPGroup
  <1>3. g \in free
    BY <1>1, <1>2
  <1>4. call'[s] = [call[s] EXCEPT !.grp = g, !.pc = "attachGroup"]
    BY <1>1, GotoDoes DEF CreateIPGroup
  <1>5. group' = [group EXCEPT ![g] = [up |-> TRUE, name |-> groupName(s, call[s].key), list |-> Ranges(s)]]
    BY <1>1 DEF CreateIPGroup
  <1>6. /\ SamePlace(call[s], call'[s]) /\ SameSeen(call[s], call'[s])
        /\ call'[s].mon = call[s].mon /\ call'[s].have = call[s].have
        /\ call'[s].grp = g /\ call'[s].pc = "attachGroup"
    BY <1>4, CallTyped DEF Call, SamePlace, SameService, SameSeen
  <1>7. QED
    BY <1>3, <1>5, <1>6 DEF CreateIPGroup, At, TypeOK

\* The pool of a port is read, or changed: `mon' is what it says of the monitor.
LEMMA MonDoes ==
  ASSUME TypeOK, NEW s \in Services, GetPool(s) \/ UpdatePool(s)
  PROVE  LET c == call[s] d == call'[s] IN
         /\ SamePlace(c, d) /\ SameSeen(c, d) /\ d.grp = c.grp /\ d.have = c.have
         /\ d.mon = (L(s).monitor # None)
         /\ \/ /\ GetPool(s) /\ c.pc = "pool"
               /\ d.pc = IF poolOutdated(L(s), c.svc) THEN "updatePool" ELSE "listMembers"
            \/ UpdatePool(s) /\ c.pc = "updatePool" /\ d.pc = "listMembers"
  <1>1. ASSUME NEW p, NEW b, Goto(s, [call[s] EXCEPT !.pc = p, !.mon = b])
        PROVE  /\ SamePlace(call[s], call'[s]) /\ SameSeen(call[s], call'[s])
               /\ call'[s].grp = call[s].grp /\ call'[s].have = call[s].have
               /\ call'[s].mon = b /\ call'[s].pc = p
    <2>1. call'[s] = [call[s] EXCEPT !.pc = p, !.mon = b]
      BY <1>1, GotoDoes
    <2>2. QED
      BY <2>1, CallTyped DEF Call, SamePlace, SameService, SameSeen
  <1>2. CASE GetPool(s)
    <2>1. Goto(s, [call[s] EXCEPT !.pc = IF poolOutdated(L(s), call[s].svc) THEN "updatePool" ELSE "listMembers",
                                  !.mon = L(s).monitor # None])
      BY <1>2 DEF GetPool, Svc
    <2>2. QED
      BY <1>1, <1>2, <2>1 DEF GetPool, At
  <1>3. CASE UpdatePool(s)
    <2>1. Goto(s, [call[s] EXCEPT !.pc = "listMembers", !.mon = L(s).monitor # None])
      BY <1>3 DEF UpdatePool
    <2>2. QED
      BY <1>1, <1>3, <2>1 DEF UpdatePool, At
  <1>4. QED
    BY <1>2, <1>3

\* The members a call believes the pool to have.
LEMMA HaveDoes ==
  ASSUME TypeOK, NEW s \in Services, NEW p, NEW h,
         Goto(s, [call[s] EXCEPT !.pc = p, !.have = h])
  PROVE  LET c == call[s] d == call'[s] IN
         /\ SamePlace(c, d) /\ SameSeen(c, d) /\ d.mon = c.mon /\ d.grp = c.grp
         /\ d.pc = p /\ d.have = h
  <1>1. call'[s] = [call[s] EXCEPT !.pc = p, !.have = h]
    BY GotoDoes
  <1>2. QED
    BY <1>1, CallTyped DEF Call, SamePlace, SameService, SameSeen

\* The same where the program counter stays.
LEMMA HaveOnlyDoes ==
  ASSUME TypeOK, NEW s \in Services, NEW h, Goto(s, [call[s] EXCEPT !.have = h])
  PROVE  LET c == call[s] d == call'[s] IN
         /\ SamePlace(c, d) /\ SameSeen(c, d) /\ d.mon = c.mon /\ d.grp = c.grp
         /\ d.pc = c.pc /\ d.have = h
  <1>1. call'[s] = [call[s] EXCEPT !.have = h]
    BY GotoDoes
  <1>2. QED
    BY <1>1, CallTyped DEF Call, SamePlace, SameService, SameSeen

\* reconcileMembers of a port.
LEMMA MembersDoes ==
  ASSUME TypeOK, NEW s \in Services,
         \/ ListMembers(s) \/ MembersDone(s)
         \/ \E m \in Wanted(s) : AddMember(s, m)
         \/ \E m \in call[s].have : RemoveMember(s, m)
  PROVE  LET c == call[s] d == call'[s] IN
         \/ /\ SamePlace(c, d) /\ SameSeen(c, d) /\ d.mon = c.mon /\ d.grp = c.grp
            /\ \/ /\ ListMembers(s) /\ c.pc = "listMembers" /\ d.pc = "members"
                  /\ d.have = L(s).members
               \/ c.pc = "members" /\ d.pc = "members"
               \/ /\ MembersDone(s) /\ c.pc = "members" /\ c.op = "ensure" /\ c.have = Wanted(s)
                  /\ d.pc = "monitor"
         \/ /\ MembersDone(s) /\ c.pc = "members" /\ c.op # "ensure" /\ c.have = Wanted(s)
            /\ Goto(s, NextPort(s, c))
  <1>1. CASE ListMembers(s)
    <2>1. Goto(s, [call[s] EXCEPT !.pc = "members", !.have = L(s).members])
      BY <1>1 DEF ListMembers
    <2>2. PICK h : h = L(s).members
      OBVIOUS
    <2>3. Goto(s, [call[s] EXCEPT !.pc = "members", !.have = h])
      BY <2>1, <2>2
    <2>4. /\ SamePlace(call[s], call'[s]) /\ SameSeen(call[s], call'[s])
          /\ call'[s].mon = call[s].mon /\ call'[s].grp = call[s].grp
          /\ call'[s].pc = "members" /\ call'[s].have = h
      BY <2>3, HaveDoes
    <2>5. QED
      BY <1>1, <2>2, <2>4 DEF ListMembers, At
  <1>2. ASSUME NEW m \in Wanted(s), AddMember(s, m)
        PROVE  LET c == call[s] d == call'[s] IN
               /\ SamePlace(c, d) /\ SameSeen(c, d) /\ d.mon = c.mon /\ d.grp = c.grp
               /\ c.pc = "members" /\ d.pc = "members"
    <2>1. Goto(s, [call[s] EXCEPT !.have = call[s].have \cup {m}])
      BY <1>2 DEF AddMember
    <2>2. QED
      BY <1>2, <2>1, HaveOnlyDoes DEF AddMember, At
  <1>3. ASSUME NEW m \in call[s].have, RemoveMember(s, m)
        PROVE  LET c == call[s] d == call'[s] IN
               /\ SamePlace(c, d) /\ SameSeen(c, d) /\ d.mon = c.mon /\ d.grp = c.grp
               /\ c.pc = "members" /\ d.pc = "members"
    <2>1. Goto(s, [call[s] EXCEPT !.have = call[s].have \ {m}])
      BY <1>3 DEF RemoveMember
    <2>2. QED
      BY <1>3, <2>1, HaveOnlyDoes DEF RemoveMember, At
  <1>4. CASE MembersDone(s)
    <2>1. CASE call[s].op = "ensure"
      <3>1. Goto(s, [call[s] EXCEPT !.pc = "monitor", !.have = {}])
        BY <1>4, <2>1 DEF MembersDone
      <3>2. QED
        BY <1>4, <2>1, <3>1, HaveDoes DEF MembersDone, At
    <2>2. CASE call[s].op # "ensure"
      BY <1>4, <2>2 DEF MembersDone, At
    <2>3. QED
      BY <2>1, <2>2
  <1>5. QED
    BY <1>1, <1>2, <1>3, <1>4

-----------------------------------------------------------------------------
\* The program counters that only a sync of the Service reaches.
EnsurePCs == PortPCs \ {"findPool", "listMembers", "members"}

\* A step of a port returns an error, goes on to the next port or stays at the
\* port; where it stays, it only goes on to what a sync does in a sync.
LEMMA ReconcileDoes ==
  ASSUME TypeOK, NEW s \in Services, Reconcile(s)
  PROVE  LET c == call[s] d == call'[s] IN
         /\ c.pc \in PortPCs /\ UNCHANGED <<balancers, eip, cluster, faults>>
         /\ \/ Fail(s) /\ UNCHANGED <<listener, group>>
            \/ Goto(s, NextPort(s, c)) /\ UNCHANGED <<group, queue>>
            \/ /\ SamePlace(c, d) /\ d.todo = c.todo /\ d.eips = c.eips
               /\ d.pc \in PortPCs \ {"listener", "findPool"} /\ UNCHANGED queue
               /\ d.pc \in EnsurePCs => c.pc \in EnsurePCs \/ c.op = "ensure"
  <1>1. ASSUME NEW p \in PortPCs \ {"listener", "findPool"}, Jump(s, p), call[s].pc \in PortPCs,
               UNCHANGED <<balancers, eip, cluster, queue, faults>>,
               call[s].pc \in EnsurePCs \/ p \notin EnsurePCs
        PROVE  LET c == call[s] d == call'[s] IN
               /\ c.pc \in PortPCs /\ UNCHANGED <<balancers, eip, cluster, faults>>
               /\ SamePlace(c, d) /\ d.todo = c.todo /\ d.eips = c.eips
               /\ d.pc \in PortPCs \ {"listener", "findPool"} /\ UNCHANGED queue
               /\ d.pc \in EnsurePCs => c.pc \in EnsurePCs \/ c.op = "ensure"
    BY <1>1, JumpDoes DEF SameSeen
  <1>2. CASE CreateListener(s)
    BY <1>2, CreateDoes DEF CreateListener, PortPCs, EnsurePCs
  <1>3. CASE UpdateIdleTimeout(s) \/ KeepListener(s) \/ DisableIPGroup(s) \/ UpdateIPGroup(s)
             \/ AttachIPGroup(s)
    BY <1>1, <1>3 DEF UpdateIdleTimeout, KeepListener, DisableIPGroup, UpdateIPGroup,
                      AttachIPGroup, At, PortPCs, EnsurePCs, cloud
  <1>4. CASE ReconcileIPGroup(s)
    <2>1. UNCHANGED <<balancers, listener, group, eip, cluster, faults>> /\ call[s].pc = "group"
      BY <1>4 DEF ReconcileIPGroup, cloud, At
    <2>2. CASE Fail(s)
      BY <2>1, <2>2 DEF PortPCs
    <2>3. CASE ~Fail(s)
      <3>1. UNCHANGED queue
        BY <1>4, <2>3 DEF ReconcileIPGroup
      <3>2. ASSUME NEW p \in {"disableGroup", "pool", "createGroup"}, Jump(s, p)
            PROVE  LET c == call[s] d == call'[s] IN
                   /\ SamePlace(c, d) /\ d.todo = c.todo /\ d.eips = c.eips
                   /\ d.pc \in PortPCs \ {"listener", "findPool"}
        BY <3>2, JumpDoes DEF SameSeen, PortPCs
      <3>3. LET c == call[s] d == call'[s] IN
                   /\ SamePlace(c, d) /\ d.todo = c.todo /\ d.eips = c.eips
                   /\ d.pc \in PortPCs \ {"listener", "findPool"}
        BY <1>4, <2>3, <3>2, GroupDoes DEF SameSeen, PortPCs
      <3>4. QED
        BY <2>1, <3>1, <3>3 DEF PortPCs, EnsurePCs
    <2>4. QED
      BY <2>2, <2>3
  <1>5. CASE CreateIPGroup(s)
    BY <1>5, NewGroupDoes DEF CreateIPGroup, PortPCs, EnsurePCs, SameSeen
  <1>6. CASE GetPool(s) \/ UpdatePool(s)
    <2>1. UNCHANGED <<balancers, eip, cluster, queue, faults>>
      BY <1>6 DEF GetPool, UpdatePool, cloud
    <2>2. QED
      BY <1>6, <2>1, MonDoes DEF PortPCs, EnsurePCs, SameSeen
  <1>7. CASE CreatePool(s) \/ FindPoolOfPort(s)
    BY <1>1, <1>7 DEF CreatePool, FindPoolOfPort, At, PortPCs, EnsurePCs, cloud
  <1>8. CASE \/ ListMembers(s) \/ MembersDone(s)
             \/ \E m \in Wanted(s) : AddMember(s, m)
             \/ \E m \in call[s].have : RemoveMember(s, m)
    <2>1. UNCHANGED <<balancers, group, eip, cluster, queue, faults>>
      BY <1>8 DEF ListMembers, MembersDone, AddMember, RemoveMember, cloud
    <2>2. QED
      BY <1>8, <2>1, MembersDoes DEF PortPCs, EnsurePCs, SameSeen
  <1>9. CASE ReconcileMonitor(s) \/ DeleteMonitor(s) \/ CreateMonitor(s) \/ UpdateMonitor(s)
    <2>1. /\ UNCHANGED <<balancers, group, eip, cluster, queue, faults>>
          /\ call[s].pc \in {"monitor", "deleteMonitor", "createMonitor", "updateMonitor"}
          /\ \/ Goto(s, NextPort(s, call[s]))
             \/ \E p \in {"deleteMonitor", "createMonitor", "updateMonitor"} : Jump(s, p)
      BY <1>9 DEF ReconcileMonitor, DeleteMonitor, CreateMonitor, UpdateMonitor, cloud, At
    <2>2. QED
      BY <1>1, <2>1 DEF PortPCs, EnsurePCs
  <1>10. QED
    BY <1>2, <1>3, <1>4, <1>5, <1>6, <1>7, <1>8, <1>9 DEF Reconcile

\* A listener is chosen to be torn down.
LEMMA PickDoes ==
  ASSUME TypeOK, NEW s \in Services, PickListener(s)
  PROVE  LET c == call[s] d == call'[s] IN
         /\ c.pc = "sweep" /\ SameService(c, d) /\ d.lb = c.lb /\ d.existing = c.existing
         /\ d.eips = c.eips /\ d.have = c.have
         /\ d.pc = "drop" /\ d.key \in c.todo /\ d.todo = c.todo \ {d.key}
  <1>1. PICK k \in call[s].todo :
           Goto(s, [call[s] EXCEPT !.pc = "drop", !.key = k, !.todo = @ \ {k}])
    BY DEF PickListener
  <1>2. PICK t : t = call[s].todo \ {k}
    OBVIOUS
  <1>3. Goto(s, [call[s] EXCEPT !.pc = "drop", !.key = k, !.todo = t])
    BY <1>1, <1>2, CallTyped DEF Call
  <1>4. call'[s] = [call[s] EXCEPT !.pc = "drop", !.key = k, !.todo = t]
    BY <1>3, GotoDoes
  <1>5. /\ SameService(call[s], call'[s]) /\ call'[s].lb = call[s].lb
        /\ call'[s].existing = call[s].existing
        /\ call'[s].eips = call[s].eips /\ call'[s].have = call[s].have
        /\ call'[s].pc = "drop" /\ call'[s].key = k /\ call'[s].todo = t
    BY <1>4, CallTyped DEF Call, SameService
  <1>6. QED
    BY <1>1, <1>2, <1>5 DEF PickListener, At

\* Its group is dealt with, which ends its teardown.
LEMMA DropGroupDoes ==
  ASSUME TypeOK, NEW s \in Services, DropIPGroup(s)
  PROVE  LET c == call[s] d == call'[s] IN
         /\ c.pc = "dropGroup" /\ SameService(c, d) /\ d.lb = c.lb /\ SameSeen(c, d)
         /\ d.pc = "sweep" /\ d.key = None
  <1>1. call'[s] = [call[s] EXCEPT !.pc = "sweep", !.key = None]
    BY GotoDoes DEF DropIPGroup
  <1>2. QED
    BY <1>1, CallTyped DEF Call, SameService, SameSeen, DropIPGroup, At

\* The members of a listener to tear down are listed and deleted.
LEMMA DropMembersDoes ==
  ASSUME TypeOK, NEW s \in Services,
         DropListMembers(s) \/ \E m \in call[s].have : DropMember(s, m)
  PROVE  LET c == call[s] d == call'[s] IN
         /\ SamePlace(c, d) /\ SameSeen(c, d)
         /\ \/ DropListMembers(s) /\ c.pc = "dropList" /\ d.pc = "dropPool" /\ d.have = L(s).members
            \/ /\ c.pc = "dropPool" /\ d.pc = "dropPool"
               /\ \E m \in c.have : DropMember(s, m) /\ d.have = c.have \ {m}
  <1>1. CASE DropListMembers(s)
    <2>1. PICK h : h = L(s).members
      OBVIOUS
    <2>2. Goto(s, [call[s] EXCEPT !.pc = "dropPool", !.have = h])
      BY <1>1, <2>1 DEF DropListMembers
    <2>3. /\ SamePlace(call[s], call'[s]) /\ SameSeen(call[s], call'[s])
          /\ call'[s].pc = "dropPool" /\ call'[s].have = h
      BY <2>2, HaveDoes
    <2>4. QED
      BY <1>1, <2>1, <2>3 DEF DropListMembers, At
  <1>2. ASSUME NEW m \in call[s].have, DropMember(s, m)
        PROVE  LET c == call[s] d == call'[s] IN
               /\ SamePlace(c, d) /\ SameSeen(c, d) /\ c.pc = "dropPool" /\ d.pc = "dropPool"
               /\ d.have = c.have \ {m}
    <2>1. PICK h : h = call[s].have \ {m}
      OBVIOUS
    <2>2. Goto(s, [call[s] EXCEPT !.have = h])
      BY <1>2, <2>1 DEF DropMember
    <2>3. QED
      BY <1>2, <2>1, <2>2, HaveOnlyDoes DEF DropMember, At
  <1>3. QED
    BY <1>1, <1>2

\* An EIP is released; the call returns after the last.
LEMMA ReleaseDoes ==
  ASSUME TypeOK, NEW s \in Services, NEW e \in call[s].eips, ReleaseEip(s, e)
  PROVE  LET c == call[s] d == call'[s] IN
         /\ c.pc = "releaseEips" /\ SamePlace(c, d) /\ d.todo = c.todo /\ d.existing = c.existing
         /\ d.eips = c.eips \ {e}
         /\ d.pc = IF c.eips = {e} THEN "return" ELSE "releaseEips"
  <1>1. PICK es : es = call[s].eips \ {e}
    OBVIOUS
  <1>2. PICK p : p = IF call[s].eips = {e} THEN "return" ELSE "releaseEips"
    OBVIOUS
  <1>3. Goto(s, [call[s] EXCEPT !.eips = es, !.pc = p])
    BY <1>1, <1>2, CallTyped DEF ReleaseEip, Call
  <1>4. call'[s] = [call[s] EXCEPT !.eips = es, !.pc = p]
    BY <1>3, GotoDoes
  <1>5. /\ SamePlace(call[s], call'[s]) /\ call'[s].todo = call[s].todo
        /\ call'[s].existing = call[s].existing /\ call'[s].eips = es /\ call'[s].pc = p
    BY <1>4, CallTyped DEF Call, SamePlace, SameService
  <1>6. QED
    BY <1>1, <1>2, <1>5 DEF ReleaseEip, At

\* The steps of the teardown by stage: choice of a listener, its teardown, the end
\* of it, the deletion of the load balancer, the release of EIPs.
LEMMA TeardownDoes ==
  ASSUME TypeOK, NEW s \in Services, Teardown(s)
  PROVE  LET c == call[s] d == call'[s] IN
         /\ SameService(c, d) /\ d.lb = c.lb /\ d.existing = c.existing
         /\ UNCHANGED <<cluster, queue, faults>>
         /\ \/ /\ PickListener(s) /\ c.pc = "sweep" /\ d.pc = "drop" /\ d.key \in c.todo
               /\ d.todo = c.todo \ {d.key} /\ d.eips = c.eips
            \/ /\ c.pc \in DropPCs \ {"dropGroup"} /\ d.pc \in DropPCs \ {"drop"}
               /\ d.pc = "dropGroup" => DropListener(s)
               /\ d.key = c.key /\ d.todo = c.todo /\ d.eips = c.eips
            \/ /\ DropIPGroup(s) /\ c.pc = "dropGroup" /\ d.pc = "sweep" /\ d.key = None
               /\ d.todo = c.todo /\ d.eips = c.eips
            \/ /\ SweepDone(s) /\ c.pc = "sweep" /\ c.todo = {} /\ d.todo = {} /\ d.eips = c.eips
               /\ d.pc = IF c.op = "delete" /\ c.svc.lbID = None THEN "deleteLB" ELSE "return"
            \/ /\ DeleteLoadBalancer(s) /\ c.pc = "deleteLB" /\ d.todo = c.todo /\ d.eips = c.eips
               /\ d.pc = IF releasesEips(c.svc) /\ c.eips # {} THEN "releaseEips" ELSE "return"
            \/ \E e \in c.eips :
                  /\ ReleaseEip(s, e) /\ c.pc = "releaseEips" /\ d.todo = c.todo
                  /\ d.eips = c.eips \ {e}
                  /\ d.pc = IF c.eips = {e} THEN "return" ELSE "releaseEips"
  <1>1. UNCHANGED <<cluster, queue, faults>>
    BY DEF Teardown, PickListener, DropFindPool, DropMonitor, DropListMembers, DropMember,
           DropPool, DropListener, DropIPGroup, SweepDone, DeleteLoadBalancer, ReleaseEip
  <1>2. CASE PickListener(s)
    BY <1>1, <1>2, PickDoes
  <1>3. CASE DropFindPool(s) \/ DropMonitor(s) \/ DropPool(s) \/ DropListener(s)
    <2>1. PICK p \in DropPCs \ {"drop"} :
             /\ Jump(s, p) /\ call[s].pc \in DropPCs \ {"dropGroup"}
             /\ p = "dropGroup" => DropListener(s)
      BY <1>3 DEF DropFindPool, DropMonitor, DropPool, DropListener, At, DropPCs
    <2>2. QED
      BY <1>1, <2>1, JumpDoes DEF SamePlace, SameSeen
  <1>4. CASE DropListMembers(s) \/ \E m \in call[s].have : DropMember(s, m)
    BY <1>1, <1>4, DropMembersDoes DEF SamePlace, SameSeen, DropPCs
  <1>5. CASE DropIPGroup(s)
    BY <1>1, <1>5, DropGroupDoes DEF SameSeen
  <1>6. CASE SweepDone(s)
    <2>1. PICK p : /\ p = IF call[s].op = "delete" /\ call[s].svc.lbID = None THEN "deleteLB" ELSE "return"
                   /\ Jump(s, p)
      BY <1>6 DEF SweepDone, keepsBalancer, Svc
    <2>2. QED
      BY <1>1, <1>6, <2>1, JumpDoes DEF SweepDone, At, SamePlace, SameSeen
  <1>7. CASE DeleteLoadBalancer(s)
    <2>1. PICK p : /\ p = IF releasesEips(call[s].svc) /\ call[s].eips # {} THEN "releaseEips" ELSE "return"
                   /\ Jump(s, p)
      BY <1>7 DEF DeleteLoadBalancer, Svc
    <2>2. QED
      BY <1>1, <1>7, <2>1, JumpDoes DEF DeleteLoadBalancer, At, SamePlace, SameSeen
  <1>8. ASSUME NEW e \in call[s].eips, ReleaseEip(s, e)
        PROVE  LET c == call[s] d == call'[s] IN
               /\ SameService(c, d) /\ d.lb = c.lb /\ d.existing = c.existing
               /\ c.pc = "releaseEips" /\ d.todo = c.todo /\ d.eips = c.eips \ {e}
               /\ d.pc = IF c.eips = {e} THEN "return" ELSE "releaseEips"
    BY <1>8, ReleaseDoes DEF SamePlace
  <1>9. QED
    BY <1>1, <1>2, <1>3, <1>4, <1>5, <1>6, <1>7, <1>8 DEF Teardown

-----------------------------------------------------------------------------
\* The entry points take their key off the queue and start a call.
LEMMA StartDoes ==
  ASSUME TypeOK, NEW s \in Services, Start(s)
  PROVE  LET d == call'[s] IN
         /\ call[s].pc = "idle" /\ UNCHANGED <<cloud, cluster, faults>>
         /\ d.lb = None /\ d.key = None /\ d.have = {} /\ d.todo = {} /\ d.eips = {}
         /\ d.svc = spec[s] /\ d.svc \in Specs[s]
         /\ \A t \in Services : t # s => call'[t] = call[t] /\ queue'[t] = queue[t]
         /\ \/ /\ d.op = "ensure" /\ d.pc = "find" /\ d.nodes = nodes /\ phase[s] = "live"
               /\ "service" \in queue[s] /\ queue'[s] = queue[s] \ {"service"}
            \/ /\ d.op = "update" /\ d.pc = "find" /\ d.nodes = nodes /\ phase[s] = "live"
               /\ "nodes" \in queue[s] /\ queue'[s] = queue[s] \ {"nodes"}
            \/ /\ d.op = "delete" /\ d.pc = "get" /\ phase[s] = "deleting"
               /\ "service" \in queue[s] /\ queue'[s] = queue[s] \ {"service"}
  <1>1. spec[s] \in Specs[s]
    BY DEF TypeOK
  <1>2. CASE EnsureLoadBalancer(s)
    <2>1. Begin(s, "ensure", "find", nodes)
      BY <1>2 DEF EnsureLoadBalancer
    <2>2. queue' = [queue EXCEPT ![s] = @ \ {"service"}]
      BY <1>2 DEF EnsureLoadBalancer
    <2>3. queue'[s] = queue[s] \ {"service"} /\ \A t \in Services : t # s => queue'[t] = queue[t]
      BY <2>2 DEF TypeOK
    <2>4. QED
      BY <1>1, <1>2, <2>1, <2>3, BeginDoes DEF EnsureLoadBalancer
  <1>3. CASE UpdateLoadBalancer(s)
    <2>1. Begin(s, "update", "find", nodes)
      BY <1>3 DEF UpdateLoadBalancer
    <2>2. queue' = [queue EXCEPT ![s] = @ \ {"nodes"}]
      BY <1>3 DEF UpdateLoadBalancer
    <2>3. queue'[s] = queue[s] \ {"nodes"} /\ \A t \in Services : t # s => queue'[t] = queue[t]
      BY <2>2 DEF TypeOK
    <2>4. QED
      BY <1>1, <1>3, <2>1, <2>3, BeginDoes DEF UpdateLoadBalancer
  <1>4. CASE EnsureLoadBalancerDeleted(s)
    <2>1. Begin(s, "delete", "get", {})
      BY <1>4 DEF EnsureLoadBalancerDeleted
    <2>2. queue' = [queue EXCEPT ![s] = @ \ {"service"}]
      BY <1>4 DEF EnsureLoadBalancerDeleted
    <2>3. queue'[s] = queue[s] \ {"service"} /\ \A t \in Services : t # s => queue'[t] = queue[t]
      BY <2>2 DEF TypeOK
    <2>4. QED
      BY <1>1, <1>4, <2>1, <2>3, BeginDoes DEF EnsureLoadBalancerDeleted
  <1>5. QED
    BY <1>2, <1>3, <1>4 DEF Start

\* Looking the load balancer up, or making it, leaves the listeners alone.
LEMMA FindDoes ==
  ASSUME TypeOK, NEW s \in Services, Find(s)
  PROVE  LET c == call[s] d == call'[s] IN
         /\ UNCHANGED <<listener, group, cluster, faults>>
         /\ \/ /\ GetLoadBalancer(s) /\ c.pc = "get" /\ SamePlace(c, d) /\ SameSeen(c, d)
               /\ UNCHANGED queue
               /\ d.pc = IF targetLB(s, c.svc) \in balancers THEN "find" ELSE "return"
            \/ /\ FoundLoadBalancer(s) /\ c.pc = "find" /\ SameService(c, d) /\ UNCHANGED queue
               /\ d.lb = targetLB(s, c.svc) /\ d.lb \in balancers
               /\ d.pc = IF c.op = "ensure" THEN "wait" ELSE "list"
               /\ d.eips = IF c.op = "delete" THEN {e \in EipIds : eip[e].up /\ eip[e].lb = d.lb}
                           ELSE {}
            \/ /\ MissingLoadBalancer(s) /\ c.pc = "find" /\ targetLB(s, c.svc) \notin balancers
               /\ \/ Fail(s)
                  \/ /\ c.op = "ensure" /\ c.svc.lbID = None /\ SameService(c, d) /\ SameSeen(c, d)
                     /\ d.lb = s /\ d.pc = "createLB" /\ UNCHANGED queue
                  \/ /\ c.op = "delete" /\ SamePlace(c, d) /\ SameSeen(c, d) /\ d.pc = "return"
                     /\ UNCHANGED queue
            \/ /\ CreateLoadBalancer(s) /\ c.pc = "createLB" /\ SamePlace(c, d) /\ SameSeen(c, d)
               /\ d.pc = "wait" /\ UNCHANGED queue
            \/ /\ waitForActive(s) /\ c.pc = "wait" /\ SamePlace(c, d) /\ SameSeen(c, d)
               /\ d.pc = "list" /\ UNCHANGED queue
            \/ /\ ListListeners(s) /\ c.pc = "list" /\ SameService(c, d) /\ d.lb = c.lb
               /\ d.eips = c.eips /\ UNCHANGED queue
  <1>1. UNCHANGED <<listener, group, cluster, faults>>
    BY DEF Find, GetLoadBalancer, FoundLoadBalancer, MissingLoadBalancer, CreateLoadBalancer,
           waitForActive, ListListeners, cloud
  <1>2. CASE GetLoadBalancer(s)
    <2>1. PICK p : /\ p = IF targetLB(s, call[s].svc) \in balancers THEN "find" ELSE "return"
                   /\ Jump(s, p)
      BY <1>2 DEF GetLoadBalancer, Svc
    <2>2. QED
      BY <1>1, <1>2, <2>1, JumpDoes DEF GetLoadBalancer, At
  <1>3. CASE FoundLoadBalancer(s)
    <2>1. UNCHANGED queue
      BY <1>3 DEF FoundLoadBalancer
    <2>2. QED
      BY <1>1, <1>3, <2>1, FoundDoes
  <1>4. CASE MissingLoadBalancer(s)
    <2>1. CASE Jump(s, "return")
      BY <1>1, <1>4, <2>1, MissingDoes, JumpDoes
    <2>2. CASE ~Jump(s, "return")
      BY <1>1, <1>4, <2>2, MissingDoes
    <2>3. QED
      BY <2>1, <2>2
  <1>5. CASE CreateLoadBalancer(s) \/ waitForActive(s)
    BY <1>1, <1>5, JumpDoes DEF CreateLoadBalancer, waitForActive, At
  <1>6. CASE ListListeners(s)
    <2>1. UNCHANGED queue
      BY <1>6 DEF ListListeners
    <2>2. QED
      BY <1>1, <1>6, <2>1, ListDoes
  <1>7. QED
    BY <1>2, <1>3, <1>4, <1>5, <1>6 DEF Find

\* The ends of a call.
LEMMA EndDoes ==
  ASSUME TypeOK, NEW s \in Services, Return(s) \/ Refused(s) \/ Abort(s)
  PROVE  /\ call'[s] = Idle /\ UNCHANGED <<cloud, spec, nodes, edits>>
         /\ \A t \in Services : t # s => call'[t] = call[t] /\ queue'[t] = queue[t]
         /\ Return(s) => UNCHANGED faults
         /\ \/ Fail(s) /\ UNCHANGED phase
            \/ /\ Return(s) /\ call[s].pc = "return" /\ call[s].op # "delete"
               /\ UNCHANGED <<phase, queue>>
            \/ /\ Return(s) /\ call[s].pc = "return" /\ call[s].op = "delete"
               /\ phase' = [phase EXCEPT ![s] = "gone"] /\ queue'[s] = {}
  <1>1. CASE ~Return(s)
    BY <1>1, FailDoes DEF Refused, Abort, cluster, cloud
  <1>2. CASE Return(s)
    <2>1. \A t \in Services : t # s => queue'[t] = queue[t]
      BY <1>2 DEF Return, TypeOK
    <2>2. call[s].op = "delete" => queue'[s] = {}
      BY <1>2 DEF Return, TypeOK
    <2>3. QED
      BY <1>2, <2>1, <2>2, GotoDoes DEF Return, At, cloud
  <1>3. QED
    BY <1>1, <1>2

\* What users and the cluster do leaves the cloud and the calls alone.
LEMMA EnvironmentDoes ==
  ASSUME TypeOK, Environment
  PROVE  /\ UNCHANGED <<cloud, call, faults>>
         /\ \A s \in Services : \/ phase'[s] = phase[s]
                                \/ phase[s] = "live" /\ phase'[s] = "deleting"
                                \/ phase[s] = "gone" /\ phase'[s] = "live"
  <1>1. UNCHANGED <<cloud, call, faults>>
    BY DEF Environment, EditService, DeleteService, RecreateService, NodesChange
  <1>2. ASSUME NEW s \in Services
        PROVE  \/ phase'[s] = phase[s]
               \/ phase[s] = "live" /\ phase'[s] = "deleting"
               \/ phase[s] = "gone" /\ phase'[s] = "live"
    BY DEF Environment, EditService, DeleteService, RecreateService, NodesChange, TypeOK
  <1>3. QED
    BY <1>1, <1>2

\* The steps of the system: a restart, a step of users or the cluster, or a step of
\* one call that leaves the others alone.
LEMMA StepsAre ==
  ASSUME TypeOK, [Next]_vars
  PROVE  \/ \E s \in Services : /\ \A t \in Services : t # s => call'[t] = call[t]
                                /\ \/ Start(s) \/ Find(s) \/ Reconcile(s) \/ Teardown(s)
                                   \/ Return(s) \/ Refused(s) \/ Abort(s)
         \/ Crash
         \/ Environment
         \/ UNCHANGED vars
  <1>1. ASSUME NEW s \in Services, Step(s)
        PROVE  /\ \A t \in Services : t # s => call'[t] = call[t]
               /\ Find(s) \/ Reconcile(s) \/ Teardown(s) \/ Return(s) \/ Refused(s)
    BY <1>1, OnlyOwnCall DEF Step
  <1>2. ASSUME NEW s \in Services, Start(s) \/ Abort(s)
        PROVE  \A t \in Services : t # s => call'[t] = call[t]
    BY <1>2, StartDoes, EndDoes
  <1>3. QED
    BY <1>1, <1>2 DEF Next, Rejected, Quiet

\* After a restart no call is in progress.
LEMMA CrashDoes ==
  ASSUME Crash
  PROVE  UNCHANGED <<cloud, cluster>> /\ \A s \in Services : call'[s] = Idle
  BY DEF Crash

-----------------------------------------------------------------------------
\* Which operation may be at which program counter, and in which phase of the
\* Service: only a sync reconciles listeners, only a deletion deletes.
Stage(s, c) ==
    /\ (c.op = "none") <=> (c.pc = "idle")
    /\ c.pc \in {"createLB", "wait"} \cup EnsurePCs => c.op = "ensure"
    /\ c.pc \in PortPCs => c.op \in {"ensure", "update"}
    /\ c.pc \in DropPCs \cup {"sweep"} => c.op \in {"ensure", "delete"}
    /\ c.pc \in {"get", "deleteLB", "releaseEips"} => c.op = "delete"
    /\ c.op = "delete" => phase[s] = "deleting"
    /\ phase[s] = "gone" => c.op = "none"

StageInv == \A s \in Services : Stage(s, call[s])

\* A step of the call of s that keeps the phases.
LEMMA StageOf ==
  ASSUME TypeOK, StageInv, NEW s \in Services, \A t \in Services : t # s => call'[t] = call[t],
         UNCHANGED phase, Stage(s, call'[s])
  PROVE  StageInv'
  BY DEF StageInv, Stage

\* Every step preserves StageInv.
LEMMA StageStep == TypeOK /\ StageInv /\ [Next]_vars => StageInv'
  <1> SUFFICES ASSUME TypeOK, StageInv, [Next]_vars PROVE StageInv'
    OBVIOUS
  <1>1. ASSUME NEW s \in Services, \A t \in Services : t # s => call'[t] = call[t],
               \/ Start(s) \/ Find(s) \/ Reconcile(s) \/ Teardown(s)
               \/ Return(s) \/ Refused(s) \/ Abort(s)
        PROVE  StageInv'
    <2>1. Stage(s, call[s]) /\ call[s] \in Call
      BY CallTyped DEF StageInv
    <2>2. CASE Start(s)
      <3>1. Stage(s, call'[s])
        BY <2>2, StartDoes DEF Stage, EnsurePCs, PortPCs, DropPCs
      <3>2. QED
        BY <1>1, <2>2, <3>1, StartDoes, StageOf DEF cluster
    <2>3. CASE Find(s)
      <3>1. CASE Fail(s)
        BY <1>1, <2>1, <2>3, <3>1, FailDoes, IdleIs, FindDoes, StageOf
           DEF Stage, EnsurePCs, PortPCs, DropPCs, cluster
      <3>2. CASE ListListeners(s)
        <4>1. PICK e \in Call : \/ call[s].op = "delete" /\ call'[s].pc = "sweep"
                                \/ call[s].op # "delete" /\ e.op = call[s].op /\ call'[s] = NextPort(s, e)
          BY <2>1, <3>2, ListDoes DEF SamePlace, SameService
        <4>2. call'[s].op = call[s].op /\ call[s].pc = "list"
          BY <3>2, ListDoes DEF SameService
        <4>3. CASE call[s].op = "delete"
          BY <1>1, <2>1, <2>3, <4>1, <4>2, <4>3, FindDoes, StageOf
             DEF Stage, EnsurePCs, PortPCs, DropPCs, cluster
        <4>4. CASE call[s].op # "delete"
          <5>1. call'[s].pc \in {"sweep", "return", "listener", "findPool"}
                /\ (call'[s].pc \in {"sweep", "listener"} => call[s].op = "ensure")
                /\ call[s].op \in {"ensure", "update"}
            BY <2>1, <4>1, <4>2, <4>4, NextPortKeeps, NextPortGoes DEF Stage, Call
          <5>2. QED
            BY <1>1, <2>1, <2>3, <4>2, <4>4, <5>1, FindDoes, StageOf
               DEF Stage, EnsurePCs, PortPCs, DropPCs, cluster
        <4>5. QED
          BY <4>3, <4>4
      <3>3. CASE ~Fail(s) /\ ~ListListeners(s)
        <4>1. Stage(s, call'[s])
          BY <2>1, <2>3, <3>3, FindDoes DEF Stage, EnsurePCs, PortPCs, DropPCs, SamePlace, SameService
        <4>2. QED
          BY <1>1, <2>3, <4>1, FindDoes, StageOf DEF cluster
      <3>4. QED
        BY <3>1, <3>2, <3>3
    <2>4. CASE Reconcile(s)
      <3>1. CASE Fail(s)
        BY <1>1, <2>1, <2>4, <3>1, FailDoes, IdleIs, ReconcileDoes, StageOf
           DEF Stage, EnsurePCs, PortPCs, DropPCs, cluster
      <3>2. CASE Goto(s, NextPort(s, call[s]))
        <4>1. /\ call'[s].pc \in {"sweep", "return", "listener", "findPool"}
              /\ call'[s].pc \in {"sweep", "listener"} => call[s].op = "ensure"
              /\ call'[s].op = call[s].op
          BY <3>2, NextPortDoes DEF SameService
        <4>2. call[s].op \in {"ensure", "update"}
          BY <2>1, <2>4, ReconcileDoes DEF Stage
        <4>3. Stage(s, call'[s])
          BY <2>1, <2>4, <4>1, <4>2 DEF Stage, EnsurePCs, PortPCs, DropPCs
        <4>4. QED
          BY <1>1, <2>4, <4>3, ReconcileDoes, StageOf DEF cluster
      <3>3. CASE ~Fail(s) /\ ~Goto(s, NextPort(s, call[s]))
        <4>1. /\ call'[s].op = call[s].op /\ call[s].pc \in PortPCs /\ call'[s].pc \in PortPCs
              /\ call'[s].pc \in EnsurePCs => call[s].pc \in EnsurePCs \/ call[s].op = "ensure"
          BY <2>4, <3>3, ReconcileDoes DEF SamePlace, SameService
        <4>2. Stage(s, call'[s])
          BY <2>1, <4>1 DEF Stage, EnsurePCs, PortPCs, DropPCs
        <4>3. QED
          BY <1>1, <2>4, <4>2, ReconcileDoes, StageOf DEF cluster
      <3>4. QED
        BY <3>1, <3>2, <3>3
    <2>5. CASE Teardown(s)
      <3>1. Stage(s, call'[s])
        BY <2>1, <2>5, TeardownDoes DEF Stage, EnsurePCs, PortPCs, DropPCs, SameService
      <3>2. QED
        BY <1>1, <2>5, <3>1, TeardownDoes, StageOf DEF cluster
    <2>6. CASE Return(s) \/ Refused(s) \/ Abort(s)
      <3>1. call'[s].op = "none" /\ call'[s].pc = "idle"
        BY <2>6, EndDoes, IdleIs
      <3>2. \A t \in Services : t # s => phase'[t] = phase[t]
        BY <2>6, EndDoes DEF TypeOK
      <3>3. Stage(s, call[s])'
        BY <2>1, <2>6, <3>1 DEF Stage, EnsurePCs, PortPCs, DropPCs
      <3>4. QED
        BY <1>1, <3>2, <3>3 DEF StageInv, Stage
    <2>7. QED
      BY <1>1, <2>2, <2>3, <2>4, <2>5, <2>6
  <1>2. CASE Crash
    BY <1>2, CrashDoes, IdleIs DEF StageInv, Stage, EnsurePCs, PortPCs, DropPCs
  <1>3. CASE Environment
    BY <1>3, EnvironmentDoes DEF StageInv, Stage
  <1>4. CASE UNCHANGED vars
    BY <1>4 DEF vars, cluster, StageInv, Stage
  <1>5. QED
    BY <1>1, <1>2, <1>3, <1>4, StepsAre

\* At every point of its run a call is of the operation that the code there
\* belongs to; while a deletion runs its Service is being deleted, and no call
\* runs for a Service that is gone.
THEOREM StageHolds == Spec => []StageInv
  <1>1. Init => StageInv
    BY IdleIs DEF Init, StageInv, Stage, EnsurePCs, PortPCs, DropPCs
  <1>2. QED
    BY <1>1, StageStep, TypeCorrect, PTL DEF Spec

-----------------------------------------------------------------------------
\* A listener that is not there has no settings, pool or members.
NothingLeft == \A sl \in Slots : ~listener[sl].up => listener[sl] = NoListener

\* A listener is written: the others stay.
LEMMA SetLDoes ==
  ASSUME TypeOK, NEW s \in Services, call[s].pc \in PortPCs \cup DropPCs, NEW l, SetL(s, l)
  PROVE  /\ Slot(s) \in Slots /\ listener'[Slot(s)] = l
         /\ \A sl \in Slots : sl # Slot(s) => listener'[sl] = listener[sl]
  BY SlotTyped DEF SetL, TypeOK

\* What a step does to the listener at hand: it creates it, deletes it, changes it
\* without changing its owner, or finds it gone and leaves it so.
Touch(s) ==
    /\ call[s].pc \in PortPCs \cup DropPCs /\ Slot(s) \in Slots
    /\ \A sl \in Slots : sl # Slot(s) => listener'[sl] = listener[sl]
    /\ LET l == listener'[Slot(s)]
       IN  \/ CreateListener(s) /\ ~L(s).up /\ l = NewListener(s, call[s].svc.idle)
           \/ DropListener(s) /\ l = NoListener
           \/ L(s).up /\ l.up /\ l.owner = L(s).owner
           \/ ~L(s).up /\ l = NoListener

\* Giving the listener at hand other settings.
LEMMA ChangeTouches ==
  ASSUME TypeOK, NEW s \in Services, call[s].pc \in PortPCs \cup DropPCs, NEW l, SetL(s, l),
         L(s).up => l.up /\ l.owner = L(s).owner,
         ~L(s).up => l = NoListener
  PROVE  Touch(s)
  BY SetLDoes DEF Touch
\* A listener whose settings are changed keeps its place and its owner.
LEMMA SettingsOnly ==
  ASSUME NEW l \in Listener
  PROVE  /\ \A v : [l EXCEPT !.idle = v].up = l.up /\ [l EXCEPT !.idle = v].owner = l.owner
         /\ \A v, w : /\ [l EXCEPT !.group = v, !.enable = w].up = l.up
                      /\ [l EXCEPT !.group = v, !.enable = w].owner = l.owner
         /\ \A v : [l EXCEPT !.members = v].up = l.up /\ [l EXCEPT !.members = v].owner = l.owner
         /\ \A v : [l EXCEPT !.monitor = v].up = l.up /\ [l EXCEPT !.monitor = v].owner = l.owner
         /\ \A u, v, w : /\ [l EXCEPT !.pool = u, !.alg = v, !.persist = w].up = l.up
                         /\ [l EXCEPT !.pool = u, !.alg = v, !.persist = w].owner = l.owner
  BY DEF Listener

\* A listener that is not there stays so when something is taken from it.
LEMMA TakeFromNothing ==
  ASSUME NEW l, l = NoListener
  PROVE  /\ l \in Listener
         /\ [l EXCEPT !.monitor = None] = l
         /\ \A m : [l EXCEPT !.members = @ \ {m}] = l
         /\ [l EXCEPT !.pool = FALSE, !.alg = None, !.persist = Unset] = l
  <1>1. /\ l \in Listener /\ l.members = {} /\ l.monitor = None
        /\ l.pool = FALSE /\ l.alg = None /\ l.persist = Unset
    BY DEF NoListener, Listener, Unset
  <1>2. [l EXCEPT !.monitor = None] = l
    BY <1>1 DEF Listener
  <1>3. ASSUME NEW m PROVE [l EXCEPT !.members = @ \ {m}] = l
    <2>1. l.members \ {m} = l.members
      BY <1>1
    <2>2. [l EXCEPT !.members = l.members] = l
      BY <1>1 DEF Listener
    <2>3. QED
      BY <2>1, <2>2
  <1>4. [l EXCEPT !.pool = FALSE, !.alg = None, !.persist = Unset] = l
    BY <1>1 DEF Listener
  <1>5. QED
    BY <1>1, <1>2, <1>3, <1>4

\* A step of reconcile or UpdateLoadBalancer.
LEMMA ReconcileTouches ==
  ASSUME TypeOK, NothingLeft, NEW s \in Services, Reconcile(s)
  PROVE  UNCHANGED listener \/ Touch(s)
  <1>1. call[s].pc \in PortPCs /\ L(s) \in Listener /\ Slot(s) \in Slots
    BY ReconcileDoes, SlotTyped
  <1>2. ~L(s).up => L(s) = NoListener
    BY <1>1 DEF NothingLeft, L
  <1>3. ASSUME NEW l, SetL(s, l), l.up = L(s).up, l.owner = L(s).owner,
               L(s).up \/ l = L(s)
        PROVE  Touch(s)
    BY <1>1, <1>2, <1>3, ChangeTouches
  <1>4. CASE \/ KeepListener(s) \/ ReconcileIPGroup(s) \/ UpdateIPGroup(s) \/ CreateIPGroup(s)
             \/ GetPool(s) \/ FindPoolOfPort(s) \/ ListMembers(s) \/ MembersDone(s)
             \/ ReconcileMonitor(s)
    BY <1>4 DEF KeepListener, ReconcileIPGroup, UpdateIPGroup, CreateIPGroup, GetPool,
                FindPoolOfPort, ListMembers, MembersDone, ReconcileMonitor, cloud
  <1>5. CASE CreateListener(s)
    <2>1. ~L(s).up /\ SetL(s, NewListener(s, call[s].svc.idle))
      BY <1>5 DEF CreateListener, Svc
    <2>2. QED
      BY <1>1, <1>5, <2>1, SetLDoes DEF Touch
  <1>6. CASE UpdateIdleTimeout(s)
    <2>1. PICK v : SetL(s, [L(s) EXCEPT !.idle = v]) /\ L(s).up
      BY <1>6 DEF UpdateIdleTimeout
    <2>2. QED
      BY <1>1, <1>3, <2>1, SettingsOnly
  <1>7. CASE DisableIPGroup(s)
    <2>1. PICK g : SetL(s, [L(s) EXCEPT !.group = g, !.enable = FALSE]) /\ L(s).up
      BY <1>7 DEF DisableIPGroup
    <2>2. /\ [L(s) EXCEPT !.group = g, !.enable = FALSE].up = L(s).up
          /\ [L(s) EXCEPT !.group = g, !.enable = FALSE].owner = L(s).owner
      BY <1>1, SettingsOnly
    <2>3. QED
      BY <1>3, <2>1, <2>2
  <1>8. CASE AttachIPGroup(s)
    <2>1. PICK g : SetL(s, [L(s) EXCEPT !.group = g, !.enable = TRUE]) /\ L(s).up
      BY <1>8 DEF AttachIPGroup
    <2>2. /\ [L(s) EXCEPT !.group = g, !.enable = TRUE].up = L(s).up
          /\ [L(s) EXCEPT !.group = g, !.enable = TRUE].owner = L(s).owner
      BY <1>1, SettingsOnly
    <2>3. QED
      BY <1>3, <2>1, <2>2
  <1>9. CASE UpdatePool(s) \/ CreatePool(s)
    <2>1. SetL(s, withPool(L(s), Svc(s))) /\ L(s).up
      BY <1>9 DEF UpdatePool, CreatePool
    <2>2. PICK p, a, l : /\ l = L(s) /\ a = Svc(s).alg
                         /\ p = IF desiredPersistence(Svc(s)) = Unset THEN l.persist
                                ELSE desiredPersistence(Svc(s))
      OBVIOUS
    <2>3. withPool(l, Svc(s)) = [l EXCEPT !.pool = TRUE, !.alg = a, !.persist = p]
      BY <2>2 DEF withPool
    <2>4. SetL(s, [l EXCEPT !.pool = TRUE, !.alg = a, !.persist = p]) /\ l.up
      BY <2>1, <2>2, <2>3
    <2>5. /\ [l EXCEPT !.pool = TRUE, !.alg = a, !.persist = p].up = l.up
          /\ [l EXCEPT !.pool = TRUE, !.alg = a, !.persist = p].owner = l.owner
      BY <1>1, <2>2, SettingsOnly
    <2>6. QED
      BY <1>3, <2>2, <2>4, <2>5
  <1>10. CASE CreateMonitor(s) \/ UpdateMonitor(s)
    <2>1. PICK v : SetL(s, [L(s) EXCEPT !.monitor = v]) /\ L(s).up
      BY <1>10 DEF CreateMonitor, UpdateMonitor
    <2>2. QED
      BY <1>1, <1>3, <2>1, SettingsOnly
  <1>11. ASSUME NEW m \in Wanted(s), AddMember(s, m) PROVE Touch(s)
    <2>1. SetL(s, [L(s) EXCEPT !.members = L(s).members \cup {m}]) /\ L(s).up
      BY <1>11 DEF AddMember
    <2>2. QED
      BY <1>1, <1>3, <2>1, SettingsOnly
  <1>12. CASE DeleteMonitor(s)
    <2>1. SetL(s, [L(s) EXCEPT !.monitor = None])
      BY <1>12 DEF DeleteMonitor
    <2>2. ~L(s).up => [L(s) EXCEPT !.monitor = None] = L(s)
      BY <1>2, TakeFromNothing
    <2>3. QED
      BY <1>1, <1>3, <2>1, <2>2, SettingsOnly
  <1>13. ASSUME NEW m \in call[s].have, RemoveMember(s, m) PROVE Touch(s)
    <2>1. SetL(s, [L(s) EXCEPT !.members = @ \ {m}])
      BY <1>13 DEF RemoveMember
    <2>2. ~L(s).up => [L(s) EXCEPT !.members = @ \ {m}] = L(s)
      BY <1>2, TakeFromNothing
    <2>3. /\ [L(s) EXCEPT !.members = @ \ {m}].up = L(s).up
          /\ [L(s) EXCEPT !.members = @ \ {m}].owner = L(s).owner
      BY <1>1 DEF Listener
    <2>4. QED
      BY <1>1, <1>3, <2>1, <2>2, <2>3
  <1>14. QED
    BY <1>4, <1>5, <1>6, <1>7, <1>8, <1>9, <1>10, <1>11, <1>12, <1>13 DEF Reconcile

\* A step of a teardown.
LEMMA TeardownTouches ==
  ASSUME TypeOK, NothingLeft, NEW s \in Services, Teardown(s)
  PROVE  UNCHANGED listener \/ Touch(s)
  <1>0. PICK l0 : l0 = L(s)
    OBVIOUS
  <1>1. CASE \/ PickListener(s) \/ DropFindPool(s) \/ DropListMembers(s) \/ DropIPGroup(s)
             \/ SweepDone(s) \/ DeleteLoadBalancer(s) \/ \E e \in call[s].eips : ReleaseEip(s, e)
    BY <1>1 DEF PickListener, DropFindPool, DropListMembers, DropIPGroup, SweepDone,
                DeleteLoadBalancer, ReleaseEip, cloud
  <1>2. call[s].pc \in DropPCs => /\ L(s) \in Listener /\ Slot(s) \in Slots
                                  /\ ~L(s).up => L(s) = NoListener
    BY SlotTyped DEF NothingLeft, L
  <1>3. ASSUME call[s].pc \in DropPCs, NEW l, SetL(s, l), l.up = L(s).up, l.owner = L(s).owner,
               L(s).up \/ l = L(s)
        PROVE  Touch(s)
    <2>1. L(s).up => l.up
      BY <1>3
    <2>2. ~L(s).up => l = NoListener
      BY <1>2, <1>3
    <2>3. QED
      BY <1>3, <2>1, <2>2, ChangeTouches
  <1>4. CASE DropMonitor(s)
    <2>1. call[s].pc \in DropPCs /\ SetL(s, [l0 EXCEPT !.monitor = None])
      BY <1>0, <1>4 DEF DropMonitor, At, DropPCs
    <2>2. ~L(s).up => [l0 EXCEPT !.monitor = None] = l0
      BY <1>0, <1>2, <2>1, TakeFromNothing
    <2>3. QED
      BY <1>0, <1>2, <1>3, <2>1, <2>2, SettingsOnly
  <1>5. ASSUME NEW m \in call[s].have, DropMember(s, m) PROVE Touch(s)
    <2>1. call[s].pc \in DropPCs /\ SetL(s, [l0 EXCEPT !.members = @ \ {m}])
      BY <1>0, <1>5 DEF DropMember, At, DropPCs
    <2>2. ~L(s).up => [l0 EXCEPT !.members = @ \ {m}] = l0
      BY <1>0, <1>2, <2>1, TakeFromNothing
    <2>3. /\ [l0 EXCEPT !.members = @ \ {m}].up = L(s).up
          /\ [l0 EXCEPT !.members = @ \ {m}].owner = L(s).owner
      BY <1>0, <1>2, <2>1 DEF Listener
    <2>4. QED
      BY <1>0, <1>3, <2>1, <2>2, <2>3
  <1>6. CASE DropPool(s)
    <2> DEFINE l == [l0 EXCEPT !.pool = FALSE, !.alg = None, !.persist = Unset]
    <2>1. call[s].pc \in DropPCs /\ SetL(s, l)
      BY <1>0, <1>6 DEF DropPool, At, DropPCs
    <2>2. l.up = L(s).up /\ l.owner = L(s).owner
      BY <1>0, <1>2, <2>1, SettingsOnly
    <2>3. ~L(s).up => l = l0
      BY <1>2, <2>1, <1>0, TakeFromNothing
    <2> HIDE DEF l
    <2>4. QED
      BY <1>0, <1>3, <2>1, <2>2, <2>3
  <1>7. CASE DropListener(s)
    <2>1. call[s].pc \in DropPCs /\ SetL(s, NoListener)
      BY <1>7 DEF DropListener, At, DropPCs
    <2>2. QED
      BY <1>7, <2>1, SetLDoes DEF Touch
  <1>8. QED
    BY <1>1, <1>4, <1>5, <1>6, <1>7 DEF Teardown

\* The steps of one call.
CallStepOf(s) ==
    \/ Start(s) \/ Find(s) \/ Reconcile(s) \/ Teardown(s) \/ Return(s) \/ Refused(s) \/ Abort(s)

\* Listeners change only at hand of a call that reconciles or tears down.
LEMMA TouchedBy ==
  ASSUME TypeOK, NothingLeft, NEW s \in Services, CallStepOf(s)
  PROVE  UNCHANGED listener \/ (Touch(s) /\ (Reconcile(s) \/ Teardown(s)))
  BY StartDoes, FindDoes, EndDoes, ReconcileTouches, TeardownTouches DEF CallStepOf, cloud

\* A load balancer is made for the Service whose name it gets, and deleted, with no
\* listener on it, by a call of the same Service.
LEMMA BalancersBy ==
  ASSUME TypeOK, KeptInv, NEW s \in Services, CallStepOf(s)
  PROVE  \/ UNCHANGED balancers /\ ~CreateLoadBalancer(s) /\ ~DeleteLoadBalancer(s)
         \/ CreateLoadBalancer(s) /\ Find(s) /\ balancers' = balancers \cup {s}
         \/ /\ DeleteLoadBalancer(s) /\ Teardown(s) /\ balancers' = balancers \ {s}
            /\ call[s].lb = s /\ UNCHANGED listener
            /\ \A k \in Keys : ~listener[<<s, k>>].up
  <1>1. CASE CreateLoadBalancer(s)
    BY <1>1 DEF CreateLoadBalancer, Find
  <1>2. CASE DeleteLoadBalancer(s)
    <2>1. call[s].pc = "deleteLB" /\ call[s].svc.lbID = None
      BY <1>2 DEF DeleteLoadBalancer, KeptInv, At, Svc
    <2>2. call[s].lb = s
      BY <2>1, CallTyped DEF CallOK, targetLB, BalancerPCs
    <2>3. QED
      BY <1>2, <2>2 DEF DeleteLoadBalancer, Teardown
  <1>3. CASE ~CreateLoadBalancer(s) /\ ~DeleteLoadBalancer(s)
    <2>1. CASE Start(s) \/ Return(s) \/ Refused(s) \/ Abort(s)
      BY <1>3, <2>1, StartDoes, EndDoes DEF cloud
    <2>2. CASE Find(s)
      BY <1>3, <2>2 DEF Find, GetLoadBalancer, FoundLoadBalancer, MissingLoadBalancer,
                        waitForActive, ListListeners, cloud
    <2>3. CASE Reconcile(s)
      BY <1>3, <2>3, ReconcileDoes
    <2>4. CASE Teardown(s)
      BY <1>3, <2>4 DEF Teardown, PickListener, DropFindPool, DropMonitor, DropListMembers,
                        DropMember, DropPool, DropListener, DropIPGroup, SweepDone, ReleaseEip, cloud
    <2>5. QED
      BY <2>1, <2>2, <2>3, <2>4 DEF CallStepOf
  <1>4. QED
    BY <1>1, <1>2, <1>3

-----------------------------------------------------------------------------
\* A listener stands on a load balancer that exists.
Standing == \A sl \in Slots : listener[sl].up => sl[1] \in balancers

\* It was made by the user, or by a Service of which some version wants it.
Origin ==
    \A sl \in Slots : listener[sl].up =>
        IF listener[sl].owner = User THEN sl \in UserSlots ELSE Wants(listener[sl].owner, sl)

\* A Service has a load balancer of its own only if some version does without the
\* id annotation.
OwnBalancers == \A s \in Services : s \in balancers => \E sp \in Specs[s] : sp.lbID = None

\* Where the load balancer that the call works on exists.
OnBalancer == {"wait", "list", "sweep", "deleteLB"} \cup PortPCs \cup DropPCs

\* Where a call is, and what it tears down.
Placed(s, c) ==
    /\ c.pc \in OnBalancer => c.lb \in balancers
    /\ c.pc = "createLB" => c.svc.lbID = None
    /\ c.pc \in DropPCs => Wants(s, <<c.lb, c.key>>)

PlaceInv ==
    /\ NothingLeft /\ Standing /\ Origin /\ OwnBalancers
    /\ \A s \in Services : Placed(s, call[s])

\* A call at a port works on a listener that its Service object asks for.
LEMMA PortWanted ==
  ASSUME TypeOK, NEW s \in Services, call[s].pc \in PortPCs
  PROVE  Wants(s, Slot(s))
  <1>1. /\ call[s].svc \in Specs[s] /\ call[s].lb = targetLB(s, call[s].svc)
        /\ call[s].key \in wantedKeys(call[s].svc)
    BY CallTyped DEF CallOK, PortPCs, wantedKeys
  <1>2. QED
    BY <1>1 DEF Wants, Slot

\* NothingLeft after a step that touches one listener.
LEMMA NothingLeftStep ==
  ASSUME TypeOK, NothingLeft, NEW s \in Services, Touch(s)
  PROVE  NothingLeft'
  <1>1. NewListener(s, call[s].svc.idle).up
    BY DEF NewListener, NoListener
  <1>2. listener'[Slot(s)].up \/ listener'[Slot(s)] = NoListener
    BY <1>1 DEF Touch
  <1>3. QED
    BY <1>2 DEF Touch, NothingLeft

\* Standing and Origin after it.
LEMMA StandingStep ==
  ASSUME TypeOK, PlaceInv, NEW s \in Services, Touch(s), UNCHANGED balancers
  PROVE  Standing' /\ Origin'
  <1>1. /\ NewListener(s, call[s].svc.idle).up /\ ~NoListener.up
        /\ NewListener(s, call[s].svc.idle).owner = s
    BY DEF NewListener, NoListener
  <1>2. call[s].lb \in balancers /\ Slot(s)[1] = call[s].lb
    BY DEF Touch, PlaceInv, Placed, OnBalancer, Slot
  <1>3. CreateListener(s) => Wants(s, Slot(s)) /\ s # User
    BY PortWanted, NamesAssumption DEF CreateListener, At, PortPCs
  <1>4. \A sl \in Slots : listener'[sl].up =>
          \/ listener[sl].up /\ listener'[sl].owner = listener[sl].owner
          \/ sl = Slot(s) /\ CreateListener(s) /\ listener'[sl].owner = s
    BY <1>1 DEF Touch, L
  <1>5. Standing'
    BY <1>2, <1>4 DEF PlaceInv, Standing
  <1>6. Origin'
    BY <1>3, <1>4 DEF PlaceInv, Origin, Wants
  <1>7. QED
    BY <1>5, <1>6

\* Balancers that exist are not deleted under a call: only the Service with whose
\* name it was made deletes one, at the end of its teardown.
LEMMA StaysOn ==
  ASSUME TypeOK, KeptInv, NEW s \in Services, CallStepOf(s), NEW t \in Services,
         call[t].pc \in OnBalancer, call[t].lb \in balancers, t # s \/ call[t].pc # "deleteLB"
  PROVE  call[t].lb \in balancers'
  <1>1. call[t].lb = t \/ call[t].lb \in SharedLBs
    BY BalancerOfCall DEF OnBalancer, BalancerPCs
  <1>2. DeleteLoadBalancer(s) => t # s
    BY DEF DeleteLoadBalancer, At
  <1>3. QED
    BY <1>1, <1>2, BalancersBy, NamesAssumption

\* Where the call is after its step.
LEMMA PlacedStep ==
  ASSUME TypeOK, OwnershipInv, KeptInv, PlaceInv, NEW s \in Services, CallStepOf(s)
  PROVE  Placed(s, call[s])'
  <1> DEFINE c == call[s]
             d == call'[s]
  <1>1. Placed(s, c)
    BY DEF PlaceInv
  <1>2. /\ d.pc \in OnBalancer => d.lb \in balancers'
        /\ d.pc = "createLB" => d.svc.lbID = None
        /\ d.pc \in DropPCs => Wants(s, <<d.lb, d.key>>)
    <2>1. CASE Start(s) \/ Return(s) \/ Refused(s) \/ Abort(s)
      <3>1. d.pc \in {"find", "get", "idle"}
        <4>1. Start(s) => d.pc \in {"find", "get"}
          BY StartDoes
        <4>2. ~Start(s) => d.pc = "idle"
          BY <2>1, EndDoes, IdleIs
        <4>3. QED
          BY <4>1, <4>2
      <3>2. QED
        BY <3>1 DEF OnBalancer, PortPCs, DropPCs
    <2>2. CASE Find(s)
      <3>1. CASE GetLoadBalancer(s) \/ MissingLoadBalancer(s)
        BY <2>2, <3>1, FindDoes, FailDoes, IdleIs
           DEF OnBalancer, PortPCs, DropPCs, GetLoadBalancer, MissingLoadBalancer,
               FoundLoadBalancer, CreateLoadBalancer, waitForActive, ListListeners, At, SameService
      <3>2. CASE FoundLoadBalancer(s)
        BY <3>2, FoundDoes DEF FoundLoadBalancer, cloud, DropPCs
      <3>3. CASE CreateLoadBalancer(s)
        <4>1. c.lb = s /\ balancers' = balancers \cup {s} /\ Jump(s, "wait")
          BY <1>1, <3>3, CallTyped DEF CreateLoadBalancer, At, Placed, CallOK, targetLB, BalancerPCs
        <4>2. QED
          BY <4>1, JumpDoes DEF SamePlace, DropPCs
      <3>4. CASE waitForActive(s)
        <4>1. c.pc = "wait" /\ Jump(s, "list") /\ UNCHANGED balancers
          BY <3>4 DEF waitForActive, At, cloud
        <4>2. QED
          BY <1>1, <4>1, JumpDoes DEF SamePlace, DropPCs, Placed, OnBalancer
      <3>5. CASE ListListeners(s)
        <4>1. UNCHANGED balancers /\ c.pc = "list" /\ d.lb = c.lb
          BY <3>5, ListDoes DEF ListListeners, cloud
        <4>2. d.pc \in {"sweep", "return", "listener", "findPool"}
          <5>1. PICK e \in Call : d.pc = "sweep" \/ d = NextPort(s, e)
            BY <3>5, ListDoes, CallTyped
          <5>2. QED
            BY <5>1, NextPortGoes
        <4>3. QED
          BY <1>1, <4>1, <4>2 DEF Placed, OnBalancer, DropPCs
      <3>6. QED
        BY <2>2, <3>1, <3>2, <3>3, <3>4, <3>5 DEF Find
    <2>3. CASE Reconcile(s)
      <3>1. c.pc \in PortPCs /\ UNCHANGED balancers
        BY <2>3, ReconcileDoes
      <3>2. CASE Fail(s)
        BY <3>2, FailDoes, IdleIs DEF OnBalancer, PortPCs, DropPCs
      <3>3. CASE Goto(s, NextPort(s, c))
        <4>1. d.lb = c.lb /\ d.pc \in {"sweep", "return", "listener", "findPool"}
          BY <3>3, NextPortDoes
        <4>2. QED
          BY <1>1, <3>1, <4>1 DEF Placed, OnBalancer, DropPCs
      <3>4. CASE SamePlace(c, d) /\ d.pc \in PortPCs
        BY <1>1, <3>1, <3>4 DEF Placed, OnBalancer, SamePlace, DropPCs, PortPCs
      <3>5. QED
        BY <2>3, <3>2, <3>3, <3>4, ReconcileDoes
    <2>4. CASE Teardown(s)
      <3>1. d.pc \in OnBalancer => c.pc \in {"sweep"} \cup DropPCs
        BY <2>4, TeardownDoes DEF OnBalancer, DropPCs, PortPCs
      <3>2. d.pc \in OnBalancer => d.lb \in balancers'
        BY <1>1, <2>4, <3>1, TeardownDoes, StaysOn DEF CallStepOf, Placed, OnBalancer, DropPCs
      <3>3. d.pc # "createLB"
        BY <2>4, TeardownDoes DEF DropPCs
      <3>4. ASSUME d.pc \in DropPCs PROVE Wants(s, <<d.lb, d.key>>)
        <4>1. CASE c.pc \in DropPCs
          BY <1>1, <2>4, <3>4, <4>1, TeardownDoes DEF Placed, DropPCs
        <4>2. CASE c.pc \notin DropPCs
          <5>1. c.pc = "sweep" /\ d.key \in c.todo /\ d.lb = c.lb
            BY <2>4, <3>4, <4>2, TeardownDoes DEF DropPCs
          <5>2. c.lb \in LBs /\ d.key \in Keys
            BY <5>1, CallTyped, BalancerOfCall DEF BalancerPCs, Call
          <5>3. Owns(s, c.lb, d.key)
            BY <5>1 DEF OwnershipInv, KnowsOwn
          <5>4. <<c.lb, d.key>> \in Slots /\ s # User
            BY <5>2, NamesAssumption DEF Slots
          <5>5. QED
            BY <5>1, <5>3, <5>4 DEF PlaceInv, Origin, Owns
        <4>3. QED
          BY <4>1, <4>2
      <3>5. QED
        BY <3>2, <3>3, <3>4
    <2>5. QED
      BY <2>1, <2>2, <2>3, <2>4 DEF CallStepOf
  <1>3. QED
    BY <1>2 DEF Placed, Wants

\* Every step preserves PlaceInv.
LEMMA PlaceStep ==
  TypeOK /\ OwnershipInv /\ KeptInv /\ PlaceInv /\ [Next]_vars => PlaceInv'
  <1> SUFFICES ASSUME TypeOK, OwnershipInv, KeptInv, PlaceInv, [Next]_vars PROVE PlaceInv'
    OBVIOUS
  <1>1. ASSUME NEW s \in Services, \A t \in Services : t # s => call'[t] = call[t], CallStepOf(s)
        PROVE  PlaceInv'
    <2>1. NothingLeft' /\ Standing' /\ Origin'
      <3>1. CASE UNCHANGED <<listener, balancers>>
        BY <3>1 DEF PlaceInv, NothingLeft, Standing, Origin, Wants
      <3>2. CASE UNCHANGED listener /\ ~UNCHANGED balancers
        <4>1. \/ balancers' = balancers \cup {s}
              \/ balancers' = balancers \ {s} /\ \A k \in Keys : ~listener[<<s, k>>].up
          BY <1>1, <3>2, BalancersBy
        <4>2. \A sl \in Slots : sl = <<sl[1], sl[2]>> /\ sl[2] \in Keys
          BY DEF Slots
        <4>3. Standing'
          BY <3>2, <4>1, <4>2 DEF PlaceInv, Standing
        <4>4. QED
          BY <3>2, <4>3 DEF PlaceInv, NothingLeft, Origin, Wants
      <3>3. CASE ~UNCHANGED listener
        <4>1. Touch(s) /\ (Reconcile(s) \/ Teardown(s))
          BY <1>1, <3>3, TouchedBy DEF PlaceInv
        <4>2. UNCHANGED balancers
          <5>1. call[s].pc # "deleteLB"
            BY <4>1 DEF Touch, PortPCs, DropPCs
          <5>2. ~CreateLoadBalancer(s)
            BY <4>1 DEF Touch, CreateLoadBalancer, At, PortPCs, DropPCs
          <5>3. QED
            BY <1>1, <5>1, <5>2, BalancersBy DEF DeleteLoadBalancer, At
        <4>3. QED
          BY <4>1, <4>2, NothingLeftStep, StandingStep DEF PlaceInv
      <3>4. QED
        BY <3>1, <3>2, <3>3
    <2>2. OwnBalancers'
      <3>1. CreateLoadBalancer(s) => \E sp \in Specs[s] : sp.lbID = None
        BY CallTyped DEF CreateLoadBalancer, At, PlaceInv, Placed, CallOK
      <3>2. QED
        BY <1>1, <3>1, BalancersBy DEF PlaceInv, OwnBalancers
    <2>3. ASSUME NEW t \in Services PROVE Placed(t, call[t])'
      <3>1. CASE t = s
        BY <1>1, <3>1, PlacedStep
      <3>2. CASE t # s
        <4>1. call[t].pc \in OnBalancer => call[t].lb \in balancers'
          BY <1>1, <3>2, StaysOn DEF PlaceInv, Placed
        <4>2. QED
          BY <1>1, <3>2, <4>1 DEF PlaceInv, Placed, Wants
      <3>3. QED
        BY <3>1, <3>2
    <2>4. QED
      BY <2>1, <2>2, <2>3 DEF PlaceInv
  <1>2. CASE Crash
    <2>1. UNCHANGED <<balancers, listener>> /\ \A s \in Services : call'[s] = Idle
      BY <1>2, CrashDoes DEF cloud
    <2>2. \A s \in Services : Placed(s, call[s])'
      BY <2>1, IdleIs DEF Placed, OnBalancer, PortPCs, DropPCs
    <2>3. QED
      BY <2>1, <2>2 DEF PlaceInv, NothingLeft, Standing, Origin, OwnBalancers, Wants
  <1>3. CASE Environment \/ UNCHANGED vars
    <2>1. UNCHANGED <<balancers, listener, call>>
      BY <1>3, EnvironmentDoes DEF vars, cloud
    <2>2. QED
      BY <2>1 DEF PlaceInv, NothingLeft, Standing, Origin, OwnBalancers, Placed, Wants
  <1>4. QED
    BY <1>1, <1>2, <1>3, StepsAre DEF CallStepOf

\* KeptInv, of which SharedKept is a part.
LEMMA KeptHolds == Spec => []KeptInv
  <1>1. Init => KeptInv
    BY DEF Init, KeptInv, SharedBalancersKept, At, Idle
  <1>2. QED
    BY <1>1, KeptStep, TypeCorrect, PTL DEF Spec

\* A listener only stands on a load balancer that exists, where the user or a version
\* of its Service wanted it; while a call reconciles or tears down, nobody deletes
\* its load balancer; and it only tears down what its Service once wanted.
THEOREM PlaceHolds == Spec => []PlaceInv
  <1>1. ASSUME Init PROVE PlaceInv
    <2>1. /\ \A sl \in Slots : listener[sl].up => sl \in UserSlots /\ listener[sl].owner = User
          /\ \A sl \in Slots : ~listener[sl].up => listener[sl] = NoListener
      BY <1>1 DEF Init, NoListener
    <2>2. \A sl \in UserSlots : sl[1] \in ExistingLBs
      BY CloudAssumption
    <2>3. \A s \in Services : Placed(s, call[s])
      BY <1>1, IdleIs DEF Init, Placed, OnBalancer, PortPCs, DropPCs
    <2>4. OwnBalancers
      BY <1>1, NamesAssumption, CloudAssumption DEF Init, OwnBalancers
    <2>5. QED
      BY <1>1, <2>1, <2>2, <2>3, <2>4 DEF Init, PlaceInv, NothingLeft, Standing, Origin
  <1>2. QED
    BY <1>1, PlaceStep, TypeCorrect, OwnershipHolds, KeptHolds, PTL DEF Spec

-----------------------------------------------------------------------------
\* A call that touches a listener does so where a version of its Service wants it.
LEMMA TouchWanted ==
  ASSUME TypeOK, PlaceInv, NEW s \in Services, Touch(s)
  PROVE  Wants(s, Slot(s))
  BY PortWanted DEF Touch, PlaceInv, Placed, Slot

\* If Services that share a load balancer use ports of their own, only the maker of
\* a listener changes it.
THEOREM OnlyOwnChanged ==
  ASSUME PortsDisjoint, UserPortsFree
  PROVE  Spec => OnlyOwnListeners
  <1>1. ASSUME TypeOK, KeptInv, PlaceInv, [Next]_vars, NEW sl \in Slots,
               listener[sl].up, listener'[sl] # listener[sl]
        PROVE  \E s \in Services : listener[sl].owner = s /\ ~At(s, "idle") /\ Slot(s) = sl
    <2>1. ~UNCHANGED listener
      BY <1>1
    <2>2. PICK s \in Services : CallStepOf(s)
      BY <1>1, <2>1, StepsAre, CrashDoes, EnvironmentDoes DEF CallStepOf, vars, cloud
    <2>3. Touch(s)
      BY <1>1, <2>1, <2>2, TouchedBy DEF PlaceInv
    <2>4. Slot(s) = sl /\ Wants(s, sl) /\ ~At(s, "idle")
      BY <1>1, <2>3, TouchWanted DEF Touch, At, PortPCs, DropPCs
    <2>5. listener[sl].owner # User
      BY <1>1, <2>4 DEF PlaceInv, Origin, UserPortsFree
    <2>6. listener[sl].owner \in Services
      BY <1>1, <2>5 DEF TypeOK, Listener
    <2>7. Wants(listener[sl].owner, sl)
      BY <1>1, <2>5 DEF PlaceInv, Origin
    <2>8. listener[sl].owner = s
      BY <1>1, <2>4, <2>6, <2>7 DEF PortsDisjoint
    <2>9. QED
      BY <2>4, <2>8
  <1>2. TypeOK /\ KeptInv /\ PlaceInv /\ [Next]_vars
          => [\A sl \in Slots :
                 (listener[sl].up /\ listener'[sl] # listener[sl])
                    => \E s \in Services : listener[sl].owner = s /\ ~At(s, "idle") /\ Slot(s) = sl]_vars
    BY <1>1
  <1>3. QED
    BY <1>2, TypeCorrect, KeptHolds, PlaceHolds, PTL DEF Spec, OnlyOwnListeners

-----------------------------------------------------------------------------
\* No Service but s ever wants the listener.
Alone(s, sl) == \A t \in Services : Wants(t, sl) => t = s

\* That is so on a Service's own load balancer: an id annotation cannot name it.
LEMMA AloneOnOwn ==
  ASSUME NEW s \in Services, NEW k
  PROVE  Alone(s, <<s, k>>)
  <1>1. ASSUME NEW t \in Services, Wants(t, <<s, k>>) PROVE t = s
    <2>1. PICK sp \in Specs[t] : s = targetLB(t, sp)
      BY <1>1 DEF Wants
    <2>2. sp.lbID \in SharedLBs \cup {None}
      BY <2>1, SpecTyped DEF ServiceObject
    <2>3. QED
      BY <2>1, <2>2, NamesAssumption DEF targetLB
  <1>2. QED
    BY <1>1 DEF Alone

\* Nobody else touches such a listener.
LEMMA Undisturbed ==
  ASSUME TypeOK, PlaceInv, NEW s \in Services, NEW sl \in Slots, Alone(s, sl),
         NEW t \in Services, t # s, CallStepOf(t)
  PROVE  listener'[sl] = listener[sl]
  <1>1. CASE UNCHANGED listener
    BY <1>1
  <1>2. CASE Touch(t)
    BY <1>2, TouchWanted DEF Alone, Touch
  <1>3. QED
    BY <1>1, <1>2, TouchedBy DEF PlaceInv

\* reconcileMembers keeps book of the members of the pool: as long as nobody else
\* works on the listener, `have' is what the pool has.
HaveInv ==
    \A s \in Services : At(s, "members") /\ Alone(s, Slot(s)) => call[s].have = L(s).members

\* The steps of reconcileMembers are the only ones that lead to it.
LEMMA OnlyListedMembers ==
  ASSUME TypeOK, NEW s \in Services, CallStepOf(s), call'[s].pc = "members"
  PROVE  \/ ListMembers(s)
         \/ \E m \in Wanted(s) : AddMember(s, m)
         \/ \E m \in call[s].have : RemoveMember(s, m)
  <1>1. Find(s) \/ Reconcile(s)
    BY StartDoes, EndDoes, IdleIs, TeardownDoes DEF CallStepOf, DropPCs
  <1>2. ~Find(s)
    <2>1. CASE ListListeners(s)
      <3>1. PICK e \in Call : call'[s].pc = "sweep" \/ call'[s] = NextPort(s, e)
        BY <2>1, ListDoes, CallTyped
      <3>2. QED
        BY <3>1, NextPortGoes
    <2>2. CASE ~ListListeners(s)
      BY <2>2, FindDoes, FailDoes, IdleIs
    <2>3. QED
      BY <2>1, <2>2
  <1>3. \A p : Jump(s, p) => p = "members"
    BY JumpDoes
  <1>4. ~Goto(s, NextPort(s, call[s]))
    BY NextPortDoes
  <1>5. ~Fail(s)
    BY FailDoes, IdleIs
  <1>6. ~CreateListener(s) /\ ~CreateIPGroup(s) /\ ~ReconcileIPGroup(s)
    BY <1>3, <1>5, CreateDoes, NewGroupDoes, GroupDoes
  <1>7. ~GetPool(s) /\ ~UpdatePool(s) /\ ~CreatePool(s) /\ ~FindPoolOfPort(s)
    BY <1>3, MonDoes DEF CreatePool, FindPoolOfPort
  <1>8. /\ ~UpdateIdleTimeout(s) /\ ~KeepListener(s) /\ ~DisableIPGroup(s) /\ ~UpdateIPGroup(s)
        /\ ~AttachIPGroup(s)
    BY <1>3 DEF UpdateIdleTimeout, KeepListener, DisableIPGroup, UpdateIPGroup, AttachIPGroup
  <1>9. ~ReconcileMonitor(s) /\ ~DeleteMonitor(s) /\ ~CreateMonitor(s) /\ ~UpdateMonitor(s)
    BY <1>3, <1>4 DEF ReconcileMonitor, DeleteMonitor, CreateMonitor, UpdateMonitor
  <1>10. ~MembersDone(s)
    <2>1. ASSUME MembersDone(s), call[s].op = "ensure" PROVE FALSE
      <3>1. Goto(s, [call[s] EXCEPT !.pc = "monitor", !.have = {}])
        BY <2>1 DEF MembersDone
      <3>2. call'[s].pc = "monitor"
        BY <3>1, HaveDoes
      <3>3. QED
        BY <3>2
    <2>2. QED
      BY <1>4, <2>1 DEF MembersDone
  <1>11. QED
    BY <1>1, <1>2, <1>6, <1>7, <1>8, <1>9, <1>10 DEF Reconcile

\* A member is added or removed, in the pool and in the book.
LEMMA MemberMoves ==
  ASSUME TypeOK, NEW s \in Services, call[s].pc = "members", NEW ms, NEW h,
         SetL(s, [L(s) EXCEPT !.members = ms]), Goto(s, [call[s] EXCEPT !.have = h])
  PROVE  /\ listener'[Slot(s)].members = ms /\ call'[s].have = h
         /\ SamePlace(call[s], call'[s]) /\ Slot(s) \in Slots
  <1>1. L(s) \in Listener /\ Slot(s) \in Slots
    BY SlotTyped DEF PortPCs
  <1>2. PICK l : l = L(s)
    OBVIOUS
  <1>3. listener'[Slot(s)] = [l EXCEPT !.members = ms]
    BY <1>1, <1>2, SetLDoes DEF PortPCs
  <1>4. listener'[Slot(s)].members = ms
    BY <1>1, <1>2, <1>3 DEF Listener
  <1>5. QED
    BY <1>1, <1>4, HaveOnlyDoes

\* Every step preserves HaveInv.
LEMMA HaveStep == TypeOK /\ PlaceInv /\ HaveInv /\ [Next]_vars => HaveInv'
  <1> SUFFICES ASSUME TypeOK, PlaceInv, HaveInv, [Next]_vars, NEW s \in Services,
                      (At(s, "members") /\ Alone(s, Slot(s)))'
               PROVE  (call[s].have = L(s).members)'
    BY DEF HaveInv
  <1>1. call'[s].pc = "members" /\ Alone(s, <<call'[s].lb, call'[s].key>>)
    BY DEF At, Alone, Wants, Slot
  <1>2. ASSUME UNCHANGED call, listener'[Slot(s)] = listener[Slot(s)]
        PROVE  (call[s].have = L(s).members)'
    BY <1>1, <1>2 DEF HaveInv, At, L, Slot
  <1>3. ASSUME NEW t \in Services, t # s, CallStepOf(t), call'[s] = call[s]
        PROVE  (call[s].have = L(s).members)'
    <2>1. Slot(s) \in Slots /\ Alone(s, Slot(s)) /\ At(s, "members")
      BY <1>1, <1>3, SlotTyped DEF Slot, PortPCs, At
    <2>2. listener'[Slot(s)] = listener[Slot(s)]
      BY <1>3, <2>1, Undisturbed
    <2>3. QED
      BY <1>3, <2>1, <2>2 DEF HaveInv, L, Slot
  <1>4. ASSUME CallStepOf(s)
        PROVE  (call[s].have = L(s).members)'
    <2>1. CASE ListMembers(s)
      <3>1. PICK h : h = L(s).members
        OBVIOUS
      <3>2. Goto(s, [call[s] EXCEPT !.pc = "members", !.have = h]) /\ UNCHANGED listener
        BY <2>1, <3>1 DEF ListMembers, cloud
      <3>3. SamePlace(call[s], call'[s]) /\ call'[s].have = h
        BY <3>2, HaveDoes
      <3>4. QED
        BY <3>1, <3>2, <3>3 DEF SamePlace, L, Slot
    <2>2. ASSUME NEW ms, NEW h, call[s].pc = "members",
                 SetL(s, [L(s) EXCEPT !.members = ms]), Goto(s, [call[s] EXCEPT !.have = h]),
                 call[s].have = L(s).members => h = ms
          PROVE  (call[s].have = L(s).members)'
      <3>1. /\ listener'[Slot(s)].members = ms /\ call'[s].have = h
            /\ SamePlace(call[s], call'[s])
        BY <2>2, MemberMoves
      <3>2. <<call'[s].lb, call'[s].key>> = Slot(s)
        BY <3>1 DEF SamePlace, Slot
      <3>3. call[s].have = L(s).members
        BY <1>1, <2>2, <3>2 DEF HaveInv, At
      <3>4. QED
        BY <2>2, <3>1, <3>2, <3>3 DEF L, Slot
    <2>3. ASSUME NEW m \in Wanted(s), AddMember(s, m)
          PROVE  (call[s].have = L(s).members)'
      <3>1. PICK ms, h : ms = L(s).members \cup {m} /\ h = call[s].have \cup {m}
        OBVIOUS
      <3>2. /\ SetL(s, [L(s) EXCEPT !.members = ms]) /\ Goto(s, [call[s] EXCEPT !.have = h])
            /\ call[s].pc = "members"
        BY <2>3, <3>1 DEF AddMember, At
      <3>3. QED
        BY <2>2, <3>1, <3>2
    <2>4. ASSUME NEW m \in call[s].have, RemoveMember(s, m)
          PROVE  (call[s].have = L(s).members)'
      <3>1. PICK ms, h : ms = L(s).members \ {m} /\ h = call[s].have \ {m}
        OBVIOUS
      <3>2. /\ SetL(s, [L(s) EXCEPT !.members = ms]) /\ Goto(s, [call[s] EXCEPT !.have = h])
            /\ call[s].pc = "members"
        BY <2>4, <3>1 DEF RemoveMember, At
      <3>3. QED
        BY <2>2, <3>1, <3>2
    <2>5. QED
      BY <1>1, <1>4, <2>1, <2>3, <2>4, OnlyListedMembers
  <1>5. CASE Crash
    BY <1>1, <1>5, CrashDoes, IdleIs
  <1>6. CASE Environment \/ UNCHANGED vars
    BY <1>2, <1>6, EnvironmentDoes DEF vars, cloud
  <1>7. QED
    BY <1>3, <1>4, <1>5, <1>6, StepsAre DEF CallStepOf

\* A step at a pool on a Service's own load balancer leaves all members in, or all
\* that are wanted.
LEMMA DrainStep ==
  ASSUME TypeOK, PlaceInv, HaveInv, [Next]_vars, NEW s \in Services,
         At(s, "members"), Svc(s).lbID = None
  PROVE  L(s).members \subseteq listener'[Slot(s)].members
         \/ Wanted(s) \subseteq listener'[Slot(s)].members
  <1>1. Slot(s) \in Slots /\ Slot(s) = <<s, call[s].key>>
    BY CallTyped, SlotTyped DEF CallOK, At, PortPCs, Slot, Svc, targetLB
  <1>2. Alone(s, Slot(s))
    BY <1>1, AloneOnOwn
  <1>3. call[s].have = L(s).members
    BY <1>2 DEF HaveInv
  <1>4. CASE listener'[Slot(s)] = listener[Slot(s)]
    BY <1>4 DEF L
  <1>5. ASSUME CallStepOf(s), listener'[Slot(s)] # listener[Slot(s)]
        PROVE  L(s).members \subseteq listener'[Slot(s)].members
               \/ Wanted(s) \subseteq listener'[Slot(s)].members
    <2>1. Reconcile(s)
      BY <1>5, StartDoes, FindDoes, EndDoes, TeardownDoes DEF CallStepOf, At, DropPCs, cloud
    <2>2. (\E m \in Wanted(s) : AddMember(s, m)) \/ (\E m \in call[s].have : RemoveMember(s, m))
      BY <1>5, <2>1 DEF Reconcile, CreateListener, UpdateIdleTimeout, KeepListener,
                        ReconcileIPGroup, DisableIPGroup, UpdateIPGroup, CreateIPGroup,
                        AttachIPGroup, GetPool, UpdatePool, CreatePool, FindPoolOfPort,
                        ListMembers, MembersDone, ReconcileMonitor, DeleteMonitor,
                        CreateMonitor, UpdateMonitor, At, cloud
    <2>3. ASSUME NEW m \in Wanted(s), AddMember(s, m)
          PROVE  L(s).members \subseteq listener'[Slot(s)].members
      <3>1. PICK ms, h : ms = L(s).members \cup {m} /\ h = call[s].have \cup {m}
        OBVIOUS
      <3>2. /\ SetL(s, [L(s) EXCEPT !.members = ms]) /\ Goto(s, [call[s] EXCEPT !.have = h])
            /\ call[s].pc = "members"
        BY <2>3, <3>1 DEF AddMember, At
      <3>3. listener'[Slot(s)].members = ms
        BY <3>2, MemberMoves
      <3>4. QED
        BY <3>1, <3>3
    <2>4. ASSUME NEW m \in call[s].have, RemoveMember(s, m)
          PROVE  Wanted(s) \subseteq listener'[Slot(s)].members
      <3>1. PICK ms, h : ms = L(s).members \ {m} /\ h = call[s].have \ {m}
        OBVIOUS
      <3>2. /\ SetL(s, [L(s) EXCEPT !.members = ms]) /\ Goto(s, [call[s] EXCEPT !.have = h])
            /\ call[s].pc = "members"
        BY <2>4, <3>1 DEF RemoveMember, At
      <3>3. listener'[Slot(s)].members = ms
        BY <3>2, MemberMoves
      <3>4. Wanted(s) \subseteq call[s].have /\ m \notin Wanted(s)
        BY <2>4 DEF RemoveMember, removalAllowed
      <3>5. QED
        BY <1>3, <3>1, <3>3, <3>4
    <2>5. QED
      BY <2>2, <2>3, <2>4
  <1>6. ASSUME NEW t \in Services, t # s, CallStepOf(t)
        PROVE  listener'[Slot(s)] = listener[Slot(s)]
    BY <1>1, <1>2, <1>6, Undisturbed
  <1>7. Crash \/ Environment \/ UNCHANGED vars => UNCHANGED listener
    BY CrashDoes, EnvironmentDoes DEF vars, cloud
  <1>8. QED
    BY <1>4, <1>5, <1>6, <1>7, StepsAre DEF CallStepOf

\* reconcileMembers never drains the pool of a Service's own load balancer, whatever
\* other calls, restarts and edits come between its requests.
THEOREM PoolsNeverDrained == Spec => NeverDrained
  <1>1. Init => HaveInv
    BY IdleIs DEF Init, HaveInv, At
  <1>2. TypeOK /\ PlaceInv /\ HaveInv /\ [Next]_vars
          => [\A s \in Services :
                 (At(s, "members") /\ Svc(s).lbID = None)
                    => LET after == listener'[Slot(s)].members
                       IN  L(s).members \subseteq after \/ Wanted(s) \subseteq after]_vars
    BY DrainStep
  <1>3. QED
    BY <1>1, <1>2, HaveStep, TypeCorrect, PlaceHolds, PTL DEF Spec, NeverDrained
=============================================================================
