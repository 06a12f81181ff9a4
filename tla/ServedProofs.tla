----------------------------- MODULE ServedProofs -----------------------------
(***************************************************************************)
(* What a sync of a Service has achieved where it stands, for every value  *)
(* of the constants: Spec => []WhitelistBeforeBackends and                 *)
(* Spec => []SettledMeansServed.                                           *)
(*                                                                         *)
(* The proof follows the listener of the port at hand part by part: the    *)
(* ...By lemmas say which part of a listener and which group a step        *)
(* changes; an invariant per part says what the call has made of it        *)
(* (GuardInv, WorkInv).  From there CourseInv, ThroughInv and SweptInv     *)
(* gather what a call has achieved at all its ports, and SyncInv ties that *)
(* to the queue of the service controller.                                 *)
(***************************************************************************)
EXTENDS DeletionProofs, FiniteSetTheorems

\* Two lists of ranges that ipListEqual takes for the same, the second without
\* repetitions, hold the same ranges: an injective list as long as another, and
\* contained in it, leaves nothing else in it.
LEMMA SameRanges ==
  ASSUME NEW l \in Seq(STRING), NEW r \in Seq(STRING), ipListEqual(l, r),
         \A i, j \in DOMAIN r : r[i] = r[j] => i = j
  PROVE  Range(l) = Range(r)
  <1>1. PICK n \in Nat : DOMAIN l = 1 .. n /\ DOMAIN r = 1 .. n
    BY DEF ipListEqual
  <1>2. IsFiniteSet(1 .. n)
    BY FS_Interval
  <1>3. r \in Injection(1 .. n, Range(r)) /\ r \in Surjection(1 .. n, Range(r))
    BY <1>1 DEF Injection, Surjection, IsInjective, Range
  <1>4. l \in Surjection(1 .. n, Range(l))
    BY <1>1 DEF Surjection, Range
  <1>5. IsFiniteSet(Range(r)) /\ Cardinality(Range(r)) = Cardinality(1 .. n)
    BY <1>2, <1>3, FS_Surjection
  <1>6. IsFiniteSet(Range(l)) /\ Cardinality(Range(l)) <= Cardinality(1 .. n)
    BY <1>2, <1>4, FS_Surjection
  <1>7. Range(r) \subseteq Range(l)
    BY DEF ipListEqual, Range
  <1>8. /\ Cardinality(Range(r)) <= Cardinality(Range(l))
        /\ Cardinality(Range(r)) = Cardinality(Range(l)) => Range(r) = Range(l)
    BY <1>6, <1>7, FS_Subset
  <1>9. /\ Cardinality(Range(l)) \in Nat /\ Cardinality(Range(r)) \in Nat
        /\ Cardinality(1 .. n) \in Nat
    BY <1>2, <1>5, <1>6, FS_CardinalityType
  <1>10. QED
    BY <1>5, <1>6, <1>8, <1>9

-----------------------------------------------------------------------------
(* The parts of a listener.                                                *)

SameIdle(l, m) == m.idle = l.idle
SameGuard(l, m) == m.group = l.group /\ m.enable = l.enable
SamePool(l, m) == m.pool = l.pool /\ m.alg = l.alg /\ m.persist = l.persist
SameMembers(l, m) == m.members = l.members
SameMonitor(l, m) == m.monitor = l.monitor

\* Changing one part keeps the others.
OnlyIdle(l, m) == SameGuard(l, m) /\ SamePool(l, m) /\ SameMembers(l, m) /\ SameMonitor(l, m)
OnlyGuard(l, m) == SameIdle(l, m) /\ SamePool(l, m) /\ SameMembers(l, m) /\ SameMonitor(l, m)
OnlyPool(l, m) == SameIdle(l, m) /\ SameGuard(l, m) /\ SameMembers(l, m) /\ SameMonitor(l, m)
OnlyMembers(l, m) == SameIdle(l, m) /\ SameGuard(l, m) /\ SamePool(l, m) /\ SameMonitor(l, m)
OnlyMonitor(l, m) == SameIdle(l, m) /\ SameGuard(l, m) /\ SamePool(l, m) /\ SameMembers(l, m)

\* That is what the EXCEPTs of the model do.
LEMMA PartsOf ==
  ASSUME NEW l \in Listener
  PROVE  /\ \A v : OnlyIdle(l, [l EXCEPT !.idle = v]) /\ [l EXCEPT !.idle = v].idle = v
         /\ \A v, w : LET m == [l EXCEPT !.group = v, !.enable = w]
                      IN  OnlyGuard(l, m) /\ m.group = v /\ m.enable = w
         /\ \A u, v, w : LET m == [l EXCEPT !.pool = u, !.alg = v, !.persist = w]
                         IN  OnlyPool(l, m) /\ m.pool = u /\ m.alg = v /\ m.persist = w
         /\ \A v : OnlyMembers(l, [l EXCEPT !.members = v]) /\ [l EXCEPT !.members = v].members = v
         /\ \A v : OnlyMonitor(l, [l EXCEPT !.monitor = v]) /\ [l EXCEPT !.monitor = v].monitor = v
  BY DEF Listener, OnlyIdle, OnlyGuard, OnlyPool, OnlyMembers, OnlyMonitor,
         SameIdle, SameGuard, SamePool, SameMembers, SameMonitor

\* The load balancer pool has what the Service object asks for.
WithPool(svc, l) ==
    /\ l.pool /\ l.alg = svc.alg
    /\ desiredPersistence(svc) # Unset => l.persist = desiredPersistence(svc)

\* withPool changes the pool to that.
LEMMA PoolSet ==
  ASSUME NEW l \in Listener, NEW svc
  PROVE  OnlyPool(l, withPool(l, svc)) /\ WithPool(svc, withPool(l, svc))
  <1>1. PICK v, w : /\ v = svc.alg
                    /\ w = IF desiredPersistence(svc) = Unset THEN l.persist
                           ELSE desiredPersistence(svc)
    OBVIOUS
  <1>2. withPool(l, svc) = [l EXCEPT !.pool = TRUE, !.alg = v, !.persist = w]
    BY <1>1 DEF withPool
  <1>3. PICK m : m = withPool(l, svc)
    OBVIOUS
  <1>4. OnlyPool(l, m) /\ m.pool = TRUE /\ m.alg = v /\ m.persist = w
    <2>1. m = [l EXCEPT !.pool = TRUE, !.alg = v, !.persist = w]
      BY <1>2, <1>3
    <2>2. QED
      BY <2>1 DEF Listener, OnlyPool, SameIdle, SameGuard, SameMembers, SameMonitor
  <1>5. QED
    BY <1>1, <1>3, <1>4 DEF WithPool

\* What a step of reconcile or of a teardown makes of the listener it works on.
Sets(s, l, m) ==
    \/ CreateListener(s) /\ m = NewListener(s, call[s].svc.idle)
    \/ DropListener(s) /\ m = NoListener
    \/ UpdateIdleTimeout(s) /\ OnlyIdle(l, m) /\ m.idle = call[s].svc.idle
    \/ DisableIPGroup(s) /\ OnlyGuard(l, m) /\ m.group = Listed(s).group /\ m.enable = FALSE
    \/ AttachIPGroup(s) /\ OnlyGuard(l, m) /\ m.group = call[s].grp /\ m.enable = TRUE
    \/ (UpdatePool(s) \/ CreatePool(s)) /\ OnlyPool(l, m) /\ WithPool(call[s].svc, m)
    \/ DropPool(s) /\ OnlyPool(l, m) /\ m.pool = FALSE /\ l.monitor = None
    \/ /\ \/ \E n \in Wanted(s) : AddMember(s, n)
          \/ \E n \in call[s].have : RemoveMember(s, n) \/ DropMember(s, n)
       /\ OnlyMembers(l, m)
    \/ (DeleteMonitor(s) \/ DropMonitor(s)) /\ OnlyMonitor(l, m) /\ m.monitor = None
    \/ CreateMonitor(s) /\ OnlyMonitor(l, m) /\ m.monitor = WantedMonitor(s) /\ l.pool
    \/ /\ UpdateMonitor(s) /\ OnlyMonitor(l, m) /\ l.monitor # None
       /\ m.monitor = [WantedMonitor(s) EXCEPT !.type = l.monitor.type, !.port = l.monitor.port]

\* It changes no other listener.
LEMMA ListenerBy ==
  ASSUME TypeOK, NEW s \in Services, Reconcile(s) \/ Teardown(s)
  PROVE  \/ UNCHANGED listener
         \/ call[s].pc \in PortPCs \cup DropPCs /\ Sets(s, L(s), listener'[Slot(s)])
  <1>1. PICK l : l = L(s)
    OBVIOUS
  <1>2. ASSUME call[s].pc \in PortPCs \cup DropPCs
        PROVE  l \in Listener
    BY <1>1, <1>2, SlotTyped
  <1>3. PICK m : m = listener'[Slot(s)]
    OBVIOUS
  <1>4. ASSUME NEW n, SetL(s, n), call[s].pc \in PortPCs \cup DropPCs
        PROVE  m = n
    BY <1>3, <1>4, SetLDoes
  <1>5. SUFFICES UNCHANGED listener \/ (call[s].pc \in PortPCs \cup DropPCs /\ Sets(s, l, m))
    BY <1>1, <1>3
  <1>6. CASE CreateListener(s)
    BY <1>4, <1>6 DEF CreateListener, At, PortPCs, Sets, Svc
  <1>7. CASE DropListener(s)
    BY <1>4, <1>7 DEF DropListener, At, DropPCs, Sets
  <1>8. CASE UpdateIdleTimeout(s)
    <2>1. PICK v : v = call[s].svc.idle
      OBVIOUS
    <2>2. call[s].pc \in PortPCs /\ SetL(s, [l EXCEPT !.idle = v])
      BY <1>1, <1>8, <2>1 DEF UpdateIdleTimeout, At, PortPCs, Svc
    <2>3. m = [l EXCEPT !.idle = v]
      BY <1>4, <2>2
    <2>4. OnlyIdle(l, m) /\ m.idle = v
      BY <1>2, <2>2, <2>3, PartsOf
    <2>5. QED
      BY <1>8, <2>1, <2>2, <2>4 DEF Sets
  <1>9. CASE DisableIPGroup(s)
    <2>1. call[s].pc \in PortPCs /\ SetL(s, [l EXCEPT !.group = Listed(s).group, !.enable = FALSE])
      BY <1>1, <1>9 DEF DisableIPGroup, At, PortPCs
    <2>2. m = [l EXCEPT !.group = Listed(s).group, !.enable = FALSE]
      BY <1>4, <2>1
    <2>3. OnlyGuard(l, m) /\ m.group = Listed(s).group /\ m.enable = FALSE
      BY <1>2, <2>1, <2>2 DEF Listener, OnlyGuard, SameIdle, SamePool, SameMembers, SameMonitor
    <2>4. QED
      BY <1>9, <2>1, <2>3 DEF Sets
  <1>10. CASE AttachIPGroup(s)
    <2>1. call[s].pc \in PortPCs /\ SetL(s, [l EXCEPT !.group = call[s].grp, !.enable = TRUE])
      BY <1>1, <1>10 DEF AttachIPGroup, At, PortPCs
    <2>2. m = [l EXCEPT !.group = call[s].grp, !.enable = TRUE]
      BY <1>4, <2>1
    <2>3. OnlyGuard(l, m) /\ m.group = call[s].grp /\ m.enable = TRUE
      BY <1>2, <2>1, <2>2 DEF Listener, OnlyGuard, SameIdle, SamePool, SameMembers, SameMonitor
    <2>4. QED
      BY <1>10, <2>1, <2>3 DEF Sets
  <1>11. CASE UpdatePool(s) \/ CreatePool(s)
    <2>1. call[s].pc \in PortPCs /\ SetL(s, withPool(l, call[s].svc))
      BY <1>1, <1>11 DEF UpdatePool, CreatePool, At, PortPCs, Svc
    <2>2. m = withPool(l, call[s].svc)
      BY <1>4, <2>1
    <2>3. OnlyPool(l, m) /\ WithPool(call[s].svc, m)
      BY <1>2, <2>1, <2>2, PoolSet
    <2>4. QED
      BY <1>11, <2>1, <2>3 DEF Sets
  <1>12. CASE DropPool(s)
    <2>1. /\ call[s].pc \in DropPCs /\ l.monitor = None
          /\ SetL(s, [l EXCEPT !.pool = FALSE, !.alg = None, !.persist = Unset])
      BY <1>1, <1>12 DEF DropPool, At, DropPCs
    <2>2. m = [l EXCEPT !.pool = FALSE, !.alg = None, !.persist = Unset]
      BY <1>4, <2>1
    <2>3. OnlyPool(l, m) /\ m.pool = FALSE
      BY <1>2, <2>1, <2>2 DEF Listener, OnlyPool, SameIdle, SameGuard, SameMembers, SameMonitor
    <2>4. QED
      BY <1>12, <2>1, <2>3 DEF Sets
  <1>13. CASE \/ \E n \in Wanted(s) : AddMember(s, n)
              \/ \E n \in call[s].have : RemoveMember(s, n) \/ DropMember(s, n)
    <2>1. PICK v : SetL(s, [l EXCEPT !.members = v])
      BY <1>1, <1>13 DEF AddMember, RemoveMember, DropMember
    <2>2. call[s].pc \in PortPCs \cup DropPCs
      BY <1>13 DEF AddMember, RemoveMember, DropMember, At, PortPCs, DropPCs
    <2>3. m = [l EXCEPT !.members = v]
      BY <1>4, <2>1, <2>2
    <2>4. OnlyMembers(l, m)
      BY <1>2, <2>2, <2>3, PartsOf
    <2>5. QED
      BY <1>13, <2>2, <2>4 DEF Sets
  <1>14. ASSUME NEW v, SetL(s, [l EXCEPT !.monitor = v]), call[s].pc \in PortPCs \cup DropPCs
         PROVE  OnlyMonitor(l, m) /\ m.monitor = v
    <2>1. m = [l EXCEPT !.monitor = v]
      BY <1>4, <1>14
    <2>2. [l EXCEPT !.monitor = v].monitor = v
      BY <1>2 DEF Listener
    <2>3. OnlyMonitor(l, [l EXCEPT !.monitor = v])
      BY <1>2 DEF Listener, OnlyMonitor, SameIdle, SameGuard, SamePool, SameMembers
    <2>4. QED
      BY <2>1, <2>2, <2>3
  <1>15. CASE DeleteMonitor(s) \/ DropMonitor(s)
    <2>1. call[s].pc \in PortPCs \cup DropPCs /\ SetL(s, [l EXCEPT !.monitor = None])
      BY <1>1, <1>15 DEF DeleteMonitor, DropMonitor, At, PortPCs, DropPCs
    <2>2. QED
      BY <1>14, <1>15, <2>1 DEF Sets
  <1>16. CASE CreateMonitor(s)
    <2>1. call[s].pc \in PortPCs \cup DropPCs /\ SetL(s, [l EXCEPT !.monitor = WantedMonitor(s)]) /\ l.pool
      BY <1>1, <1>16 DEF CreateMonitor, At, PortPCs
    <2>2. QED
      BY <1>14, <1>16, <2>1 DEF Sets
  <1>17. CASE UpdateMonitor(s)
    <2>1. PICK v : v = [WantedMonitor(s) EXCEPT !.type = l.monitor.type, !.port = l.monitor.port]
      OBVIOUS
    <2>2. call[s].pc \in PortPCs \cup DropPCs /\ SetL(s, [l EXCEPT !.monitor = v]) /\ l.monitor # None
      BY <1>1, <1>17, <2>1 DEF UpdateMonitor, At, PortPCs
    <2>3. OnlyMonitor(l, m) /\ m.monitor = v
      BY <1>14, <2>2
    <2>4. QED
      BY <1>17, <2>1, <2>2, <2>3 DEF Sets
  <1>18. CASE \/ KeepListener(s) \/ ReconcileIPGroup(s) \/ UpdateIPGroup(s) \/ CreateIPGroup(s)
              \/ GetPool(s) \/ FindPoolOfPort(s) \/ ListMembers(s) \/ MembersDone(s)
              \/ ReconcileMonitor(s)
              \/ PickListener(s) \/ DropFindPool(s) \/ DropListMembers(s) \/ DropIPGroup(s)
              \/ SweepDone(s) \/ DeleteLoadBalancer(s) \/ \E e \in call[s].eips : ReleaseEip(s, e)
    BY <1>18 DEF KeepListener, ReconcileIPGroup, UpdateIPGroup, CreateIPGroup, GetPool,
                 FindPoolOfPort, ListMembers, MembersDone, ReconcileMonitor,
                 PickListener, DropFindPool, DropListMembers, DropIPGroup, SweepDone,
                 DeleteLoadBalancer, ReleaseEip, cloud
  <1>19. QED
    BY <1>6, <1>7, <1>8, <1>9, <1>10, <1>11, <1>12, <1>13, <1>15, <1>16, <1>17, <1>18
       DEF Reconcile, Teardown

\* The same of one other listener.
LEMMA OthersKeptBy ==
  ASSUME TypeOK, PlaceInv, NEW s \in Services, CallStepOf(s), NEW sl \in Slots
  PROVE  \/ listener'[sl] = listener[sl]
         \/ /\ sl = Slot(s) /\ call[s].pc \in PortPCs \cup DropPCs /\ (Reconcile(s) \/ Teardown(s))
            /\ Sets(s, listener[sl], listener'[sl])
  <1>1. CASE UNCHANGED listener
    BY <1>1
  <1>2. CASE ~UNCHANGED listener
    <2>1. Touch(s) /\ (Reconcile(s) \/ Teardown(s))
      BY <1>2, TouchedBy DEF PlaceInv
    <2>2. CASE sl # Slot(s)
      BY <2>1, <2>2 DEF Touch
    <2>3. CASE sl = Slot(s)
      BY <1>2, <2>1, <2>3, ListenerBy DEF L
    <2>4. QED
      BY <2>2, <2>3
  <1>3. QED
    BY <1>1, <1>2

\* A new listener has nothing but its name and its idle timeout.
LEMMA NewIs ==
  ASSUME NEW s, NEW v
  PROVE  /\ NewListener(s, v).idle = v /\ NewListener(s, v).enable = FALSE
         /\ NewListener(s, v).pool = FALSE /\ NewListener(s, v).monitor = None
         /\ NoListener.enable = FALSE /\ NoListener.pool = FALSE /\ NoListener.monitor = None
  <1>1. PICK n : n = NoListener
    OBVIOUS
  <1>2. /\ n.enable = FALSE /\ n.pool = FALSE /\ n.monitor = None
        /\ n = [up |-> n.up, owner |-> n.owner, idle |-> n.idle, group |-> n.group, enable |-> FALSE,
                pool |-> FALSE, alg |-> n.alg, persist |-> n.persist, members |-> n.members,
                monitor |-> None]
    BY <1>1 DEF NoListener
  <1>3. NewListener(s, v) = [n EXCEPT !.up = TRUE, !.owner = s, !.idle = v]
    BY <1>1 DEF NewListener
  <1>4. QED
    BY <1>1, <1>2, <1>3

\* Whatever is written above the pool needs it, and a switched-on whitelist is one.
Whole(l) == (~l.pool => l.monitor = None) /\ (l.enable => l.group # None)

WholeInv == \A sl \in Slots : Whole(listener[sl])

\* Every step preserves WholeInv.
LEMMA WholeStep == TypeOK /\ PlaceInv /\ WholeInv /\ [Next]_vars => WholeInv'
  <1> SUFFICES ASSUME TypeOK, PlaceInv, WholeInv, [Next]_vars
               PROVE  WholeInv'
    OBVIOUS
  <1>1. ASSUME NEW s \in Services, CallStepOf(s), NEW sl \in Slots
        PROVE  Whole(listener'[sl])
    <2>1. PICK l, m : l = listener[sl] /\ m = listener'[sl]
      OBVIOUS
    <2> SUFFICES Whole(m)
      BY <2>1
    <2>2. Whole(l)
      BY <2>1 DEF WholeInv
    <2>3. CASE Sets(s, l, m)
      <3>1. CASE m = NewListener(s, call[s].svc.idle) \/ m = NoListener
        <4>1. PICK v : v = call[s].svc.idle
          OBVIOUS
        <4>2. m = NewListener(s, v) \/ m = NoListener
          BY <3>1, <4>1
        <4>3. m.enable = FALSE /\ m.monitor = None
          <5>1. NewListener(s, v).enable = FALSE /\ NewListener(s, v).monitor = None
            BY NewIs
          <5>2. QED
            BY <4>2, <5>1, NewIs, Zenon
        <4>4. QED
          BY <4>3 DEF Whole
      <3>2. CASE OnlyIdle(l, m) \/ OnlyMembers(l, m)
        BY <2>2, <3>2 DEF Whole, OnlyIdle, OnlyMembers, SameGuard, SamePool, SameMonitor
      <3>3. CASE DisableIPGroup(s) /\ OnlyGuard(l, m) /\ m.enable = FALSE
        BY <2>2, <3>3 DEF Whole, OnlyGuard, SamePool, SameMonitor
      <3>4. CASE AttachIPGroup(s) /\ OnlyGuard(l, m) /\ m.group = call[s].grp
        <4>1. call[s].grp # None
          BY <3>4, CallTyped DEF AttachIPGroup, At, CallOK
        <4>2. QED
          BY <2>2, <3>4, <4>1 DEF Whole, OnlyGuard, SamePool, SameMonitor
      <3>5. CASE OnlyPool(l, m) /\ (m.pool \/ l.monitor = None)
        BY <2>2, <3>5 DEF Whole, OnlyPool, SameGuard, SameMonitor
      <3>6. CASE OnlyMonitor(l, m) /\ (m.monitor = None \/ l.pool \/ l.monitor # None)
        BY <2>2, <3>6 DEF Whole, OnlyMonitor, SameGuard, SamePool
      <3>7. QED
        BY <2>3, <3>1, <3>2, <3>3, <3>4, <3>5, <3>6 DEF Sets, WithPool
    <2>4. QED
      BY <1>1, <2>1, <2>2, <2>3, OthersKeptBy
  <1>2. CASE UNCHANGED listener
    BY <1>2 DEF WholeInv, Whole
  <1>3. CASE Crash \/ Environment \/ UNCHANGED vars
    BY <1>2, <1>3, CrashDoes, EnvironmentDoes DEF vars, cloud
  <1>4. QED
    BY <1>1, <1>3, StepsAre DEF CallStepOf, WholeInv, Whole

\* WholeInv holds throughout.
LEMMA WholeHolds == Spec => []WholeInv
  <1>1. ASSUME Init PROVE WholeInv
    BY <1>1 DEF Init, WholeInv, Whole, NoListener
  <1>2. QED
    BY <1>1, WholeStep, TypeCorrect, PlaceHolds, PTL DEF Spec

-----------------------------------------------------------------------------
(* The whitelist.                                                          *)

\* The groups of a Service are written by its own calls only.
LEMMA OthersGroup ==
  ASSUME TypeOK, GroupInv, NEW s \in Services, CallStepOf(s), NEW t \in Services, t # s,
         NEW g \in GroupIds, NEW k, Named(g, t, k)
  PROVE  group'[g] = group[g]
  <1>1. CASE UNCHANGED group
    BY <1>1
  <1>2. CASE UpdateIPGroup(s)
    <2>1. call[s].pc = "updateGroup" /\ call[s].grp \in GroupIds /\ call[s].key \in Keys
      BY <1>2, CallTyped, SlotTyped DEF UpdateIPGroup, At, CallOK, Call, PortPCs
    <2>2. Counts(s, call[s], call[s].grp, call[s].key)
      BY <2>1 DEF Counts
    <2>3. Named(call[s].grp, s, call[s].key)
      BY <2>1, <2>2 DEF GroupInv, Counted
    <2>4. g # call[s].grp
      BY <2>3 DEF Named
    <2>5. group' = [group EXCEPT ![call[s].grp].list = Ranges(s)]
      BY <1>2 DEF UpdateIPGroup
    <2>6. QED
      BY <2>4, <2>5 DEF TypeOK
  <1>3. CASE CreateIPGroup(s)
    BY <1>3, NewGroupDoes DEF Named
  <1>4. CASE DropIPGroup(s)
    <2>1. PICK x : x = Listed(s).group
      OBVIOUS
    <2>2. UNCHANGED group \/ (group' = [group EXCEPT ![x] = NoGroup] /\ group[x].name[1] = s)
      BY <1>4, <2>1 DEF DropIPGroup
    <2>3. <<t, k>>[1] = t
      OBVIOUS
    <2>4. group[g].name[1] = t
      BY <2>3 DEF Named
    <2>5. QED
      BY <2>2, <2>4 DEF TypeOK
  <1>5. QED
    BY <1>1, <1>2, <1>3, <1>4, GroupsBy

\* The group bound to a listener that only s asks for is named after s.
LEMMA BoundOwn ==
  ASSUME TypeOK, GroupInv, NEW s \in Services, NEW sl \in Slots, Alone(s, sl),
         listener[sl].up, listener[sl].group # None
  PROVE  listener[sl].group \in GroupIds /\ Named(listener[sl].group, s, sl[2])
  BY DEF GroupInv, BoundNamed, Alone, TypeOK, Listener

Ranged(svc) == normalizeRanges(svc.ranges)

\* l lets in exactly the source ranges of the Service object; without any, no
\* group restricts it.  gs are the groups.
Guarded(svc, l, gs) ==
    IF Ranged(svc) # <<>>
    THEN l.enable /\ l.group # None /\ gs[l.group].up /\ Range(gs[l.group].list) = Range(Ranged(svc))
    ELSE ~l.enable

BehindMembers == {"monitor", "deleteMonitor", "createMonitor", "updateMonitor"}
BehindPool == {"listMembers", "members"} \cup BehindMembers
BehindGroup == {"pool", "updatePool"} \cup BehindPool

\* How far reconcileIPGroup has come: the group to be attached holds the ranges,
\* and after it the listener is guarded.
Guards(s, c, l, gs) ==
    c.op = "ensure" =>
      /\ c.pc # "findPool"
      /\ c.pc \in {"updateGroup", "createGroup", "attachGroup"} => Ranged(c.svc) # <<>>
      /\ c.pc = "attachGroup" => Range(gs[c.grp].list) = Range(Ranged(c.svc))
      /\ c.pc = "disableGroup" => Ranged(c.svc) = <<>>
      /\ c.pc \in BehindGroup => Guarded(c.svc, l, gs)

GuardInv == \A s \in Services : Guards(s, call[s], L(s), group)

\* normalizeRanges returns a list: HelperProofs.tla proves it of any, and knows
\* nothing of load balancers.
Helpers == INSTANCE HelperProofs WITH Entries <- {}, MaxLen <- 0, MaxSeconds <- 0, MaxName <- 1,
                                      case <- "", input <- ""

LEMMA RangesAreLists ==
  ASSUME NEW ranges \in Seq(STRING)
  PROVE  normalizeRanges(ranges) \in Seq(STRING)
  <1>1. Helpers!CasesAssumption
    BY DEF Helpers!CasesAssumption
  <1>2. Helpers!normalizeRanges(ranges) \in Seq(STRING)
    BY <1>1, Helpers!NormalizedRanges
  <1>3. Helpers!normalizeRanges(ranges) = normalizeRanges(ranges)
    BY DEF normalizeRanges, Helpers!normalizeRanges
  <1>4. QED
    BY <1>2, <1>3

\* The source ranges of a Service object are a sequence without repetitions.
LEMMA RangesOf ==
  ASSUME RangesDistinct, NEW s \in Services, NEW sp \in Specs[s]
  PROVE  Ranged(sp) \in Seq(STRING) /\ \A i, j \in DOMAIN Ranged(sp) : Ranged(sp)[i] = Ranged(sp)[j] => i = j
  <1>1. sp \in AllSpecs
    BY DEF AllSpecs
  <1>2. sp.ranges \in Seq(STRING)
    BY SpecsAssumption DEF ServiceObject
  <1>3. QED
    BY <1>1, <1>2, RangesAreLists DEF RangesDistinct, Ranged

\* The groups hold sequences.
LEMMA ListTyped ==
  ASSUME TypeOK, NEW g \in GroupIds
  PROVE  group[g].list \in Seq(STRING)
  <1>1. group[g] \in Group
    BY DEF TypeOK
  <1>2. group[g].list \in {<<>>} \cup {normalizeRanges(sp.ranges) : sp \in AllSpecs}
    BY <1>1 DEF Group
  <1>3. CASE group[g].list = <<>>
    BY <1>3
  <1>4. ASSUME NEW s \in Services, NEW sp \in Specs[s], group[g].list = normalizeRanges(sp.ranges)
        PROVE  group[g].list \in Seq(STRING)
    <2>1. sp.ranges \in Seq(STRING)
      BY SpecsAssumption DEF ServiceObject
    <2>2. QED
      BY <1>4, <2>1, RangesAreLists
  <1>5. QED
    BY <1>2, <1>3, <1>4 DEF AllSpecs

\* A call is inside a port, past its first step, only by a step of reconcile that
\* stays there.
LEMMA AtPort ==
  ASSUME TypeOK, NEW s \in Services, CallStepOf(s), call'[s].pc \in PortPCs \ {"listener", "findPool"}
  PROVE  /\ Reconcile(s) /\ call[s].pc \in PortPCs /\ SamePlace(call[s], call'[s])
         /\ ~Fail(s) /\ ~Goto(s, NextPort(s, call[s]))
  <1> DEFINE d == call'[s]
  <1>1. CASE Start(s)
    BY <1>1, StartDoes DEF PortPCs
  <1>2. CASE Find(s)
    <2>1. ListListeners(s)
      BY <1>2, FindDoes, FailDoes, IdleIs DEF PortPCs
    <2>2. CASE call[s].op = "delete"
      BY <2>1, <2>2, ListDoes DEF PortPCs
    <2>3. PICK e \in Call : d = NextPort(s, e)
      BY <2>1, <2>2, ListDoes DEF PortPCs
    <2>4. d.pc \in {"listener", "findPool", "sweep", "return"}
      BY <2>3, NextPortGoes
    <2>5. QED
      BY <2>4 DEF PortPCs
  <1>3. CASE Teardown(s)
    BY <1>3, TeardownDoes DEF PortPCs, DropPCs
  <1>4. CASE Return(s) \/ Refused(s) \/ Abort(s)
    BY <1>4, EndDoes, IdleIs DEF PortPCs
  <1>5. CASE Reconcile(s)
    <2>1. CASE Fail(s)
      BY <2>1, FailDoes, IdleIs DEF PortPCs
    <2>2. CASE Goto(s, NextPort(s, call[s]))
      BY <2>2, NextPortDoes DEF PortPCs
    <2>3. QED
      BY <1>5, <2>1, <2>2, ReconcileDoes
  <1>6. QED
    BY <1>1, <1>2, <1>3, <1>4, <1>5 DEF CallStepOf

\* A sync begins a port with its listener, an update with its pool, and neither
\* knows of a monitor yet.
LEMMA AtPortStart ==
  ASSUME TypeOK, NEW s \in Services, CallStepOf(s), call'[s].pc \in {"listener", "findPool"}
  PROVE  call'[s].mon = FALSE /\ (call'[s].pc = "listener" <=> call'[s].op = "ensure")
  <1> DEFINE d == call'[s]
  <1>1. CASE Start(s)
    BY <1>1, StartDoes
  <1>2. CASE Find(s)
    <2>1. ListListeners(s)
      BY <1>2, FindDoes, FailDoes, IdleIs
    <2>2. PICK e \in Call : d = NextPort(s, e)
      BY <2>1, ListDoes
    <2>3. PICK f : f = NextPort(s, e)
      OBVIOUS
    <2>4. f.op = e.op /\ f.mon = FALSE
      BY <2>3, NextPortKeeps DEF SameService
    <2>5. f.pc \in {"listener", "findPool"} => (f.pc = "listener" <=> e.op = "ensure")
      BY <2>3, NextPortGoes
    <2>6. QED
      BY <2>2, <2>3, <2>4, <2>5
  <1>3. CASE Teardown(s)
    BY <1>3, TeardownDoes DEF DropPCs
  <1>4. CASE Return(s) \/ Refused(s) \/ Abort(s)
    BY <1>4, EndDoes, IdleIs
  <1>5. CASE Reconcile(s)
    <2>1. CASE Fail(s)
      BY <2>1, FailDoes, IdleIs
    <2>2. CASE Goto(s, NextPort(s, call[s]))
      BY <2>2, NextPortDoes DEF SameService
    <2>3. QED
      BY <1>5, <2>1, <2>2, ReconcileDoes
  <1>6. QED
    BY <1>1, <1>2, <1>3, <1>4, <1>5 DEF CallStepOf

\* The listener of the port at hand is its Service's alone.
LEMMA PortAlone ==
  ASSUME PortsDisjoint, TypeOK, NEW s \in Services, call[s].pc \in PortPCs
  PROVE  Alone(s, Slot(s)) /\ Slot(s) \in Slots
  BY PortWanted, SlotTyped DEF Alone, PortsDisjoint

\* The call after its own step.
LEMMA GuardOwn ==
  ASSUME PortsDisjoint, PortsDistinct, RangesDistinct,
         TypeOK, PlaceInv, GroupInv, SeenInv, WholeInv, GuardInv,
         NEW s \in Services, CallStepOf(s)
  PROVE  Guards(s, call'[s], listener'[<<call'[s].lb, call'[s].key>>], group')
  <1> DEFINE c == call[s]
             d == call'[s]
             l == L(s)
             m == listener'[Slot(s)]
             svc == c.svc
  <1>1. SUFFICES ASSUME d.op = "ensure", d.pc \in PortPCs \ {"listener", "findPool"}
                 PROVE  Guards(s, d, listener'[<<d.lb, d.key>>], group')
    BY AtPortStart DEF Guards, BehindGroup, BehindPool, BehindMembers, PortPCs
  <1>2. /\ Reconcile(s) /\ c.pc \in PortPCs /\ SamePlace(c, d) /\ ~Fail(s)
        /\ ~Goto(s, NextPort(s, c))
    BY <1>1, AtPort
  <1>3. /\ d.svc = svc /\ c.op = "ensure" /\ <<d.lb, d.key>> = Slot(s)
        /\ Guards(s, c, l, group) /\ Ranges(s) = Ranged(svc)
    BY <1>1, <1>2 DEF SamePlace, SameService, Slot, GuardInv, Ranges, Ranged, Svc
  <1>4. Slot(s) \in Slots /\ Alone(s, Slot(s)) /\ l \in Listener /\ Whole(l) /\ svc \in Specs[s]
    BY <1>2, PortAlone, SlotTyped, CallTyped DEF WholeInv, L, CallOK, PortPCs
  <1>5. SUFFICES Guards(s, d, m, group')
    BY <1>3
  <1>6. CASE CreateListener(s) \/ UpdateIdleTimeout(s) \/ KeepListener(s)
    <2>1. d.pc = "group"
      BY <1>6, JumpDoes, CreateDoes DEF UpdateIdleTimeout, KeepListener
    <2>2. QED
      BY <2>1 DEF Guards, BehindGroup, BehindPool, BehindMembers
  <1>7. CASE ReconcileIPGroup(s)
    <2>1. /\ UNCHANGED group /\ m = l /\ c.pc = "group" /\ Listed(s) = View(l) /\ l.up
      BY <1>7, StillSeen DEF ReconcileIPGroup, cloud, At, GroupPCs, L
    <2>2. /\ Listed(s).group = l.group /\ Listed(s).enable = l.enable
      BY <2>1 DEF View
    <2>3. CASE Ranged(svc) = <<>>
      <3>1. \/ d.pc = "disableGroup"
            \/ d.pc = "pool" /\ ~(OwnGroup(s) /\ Listed(s).enable)
        BY <1>2, <1>3, <1>7, <2>3, JumpDoes, GroupDoes
      <3>2. l.enable => OwnGroup(s)
        <4>1. SUFFICES ASSUME l.enable PROVE OwnGroup(s)
          OBVIOUS
        <4>2. l.group # None /\ l = listener[Slot(s)] /\ Slot(s)[2] = c.key
          BY <1>4, <4>1 DEF Whole, L, Slot
        <4>3. Named(l.group, s, c.key)
          BY <1>4, <2>1, <4>2, BoundOwn
        <4>4. QED
          BY <2>2, <4>2, <4>3 DEF OwnGroup, Attached, Named, groupName
      <3>3. CASE d.pc = "disableGroup"
        BY <1>3, <2>3, <3>3 DEF Guards, BehindGroup, BehindPool, BehindMembers
      <3>4. CASE d.pc = "pool" /\ ~m.enable
        BY <1>3, <2>3, <3>4 DEF Guards, Guarded
      <3>5. QED
        BY <2>1, <2>2, <3>1, <3>2, <3>3, <3>4
    <2>4. CASE Ranged(svc) # <<>> /\ ~OwnGroup(s)
      <3>1. d.pc = "createGroup"
        BY <1>2, <1>3, <1>7, <2>4, JumpDoes, GroupDoes
      <3>2. QED
        BY <1>3, <2>4, <3>1 DEF Guards, BehindGroup, BehindPool, BehindMembers
    <2>5. CASE Ranged(svc) # <<>> /\ OwnGroup(s)
      <3>1. /\ d.grp = l.group
            /\ d.pc = IF ~ipListEqual(group[l.group].list, Ranged(svc)) THEN "updateGroup"
                      ELSE IF ~l.enable THEN "attachGroup" ELSE "pool"
        BY <1>2, <1>3, <1>7, <2>2, <2>5, GroupDoes DEF OwnGroup
      <3>2. l.group # None /\ group[l.group].up /\ l.group \in GroupIds
        BY <1>4, <2>2, <2>5 DEF OwnGroup, Attached, Listener
      <3>3. CASE d.pc = "updateGroup"
        BY <1>3, <2>5, <3>3 DEF Guards, BehindGroup, BehindPool, BehindMembers
      <3>4. CASE d.pc # "updateGroup"
        <4>1. ipListEqual(group[l.group].list, Ranged(svc))
          BY <3>1, <3>4
        <4>2. Range(group[l.group].list) = Range(Ranged(svc))
          BY <1>4, <3>2, <4>1, RangesOf, ListTyped, SameRanges
        <4>3. d.pc = "attachGroup" \/ (d.pc = "pool" /\ l.enable)
          BY <3>1, <3>4
        <4>4. QED
          BY <1>3, <2>1, <2>5, <3>1, <3>2, <4>2, <4>3
             DEF Guards, Guarded, BehindGroup, BehindPool, BehindMembers
      <3>5. QED
        BY <3>3, <3>4
    <2>6. QED
      BY <2>3, <2>4, <2>5
  <1>8. CASE DisableIPGroup(s)
    <2>1. d.pc = "pool" /\ c.pc = "disableGroup"
      BY <1>8, JumpDoes DEF DisableIPGroup, At
    <2>2. Ranged(svc) = <<>>
      BY <1>3, <2>1 DEF Guards
    <2>3. m.enable = FALSE
      <3>1. PICK g : SetL(s, [l EXCEPT !.group = g, !.enable = FALSE])
        BY <1>8 DEF DisableIPGroup
      <3>2. m = [l EXCEPT !.group = g, !.enable = FALSE]
        BY <1>2, <3>1, SetLDoes
      <3>3. QED
        BY <1>4, <3>2 DEF Listener
    <2>4. QED
      BY <1>3, <2>1, <2>2, <2>3 DEF Guards, Guarded
  <1>9. CASE UpdateIPGroup(s)
    <2>1. /\ c.pc = "updateGroup" /\ d.pc = IF Listed(s).enable THEN "pool" ELSE "attachGroup"
          /\ d.grp = c.grp /\ c.grp \in GroupIds /\ group[c.grp].up
      BY <1>9, JumpDoes, CallTyped DEF UpdateIPGroup, At, CallOK, Call, SamePort
    <2>2. UNCHANGED listener /\ group' = [group EXCEPT ![c.grp].list = Ranged(svc)]
      BY <1>3, <1>9 DEF UpdateIPGroup
    <2>3. group'[c.grp].list = Ranged(svc) /\ group'[c.grp].up
      <3>1. group[c.grp] \in Group
        BY <2>1 DEF TypeOK
      <3>2. group'[c.grp] = [group[c.grp] EXCEPT !.list = Ranged(svc)]
        BY <2>1, <2>2 DEF TypeOK
      <3>3. QED
        BY <2>1, <3>1, <3>2 DEF Group
    <2>4. Ranged(svc) # <<>> /\ Seen(s, c) /\ Listed(s) = View(l)
      BY <1>3, <2>1, StillSeen DEF Guards, SeenInv, GroupPCs
    <2>5. l.enable => l.group = c.grp /\ c.grp # None
      BY <1>4, <2>1, <2>4 DEF Seen, Listed, View, Whole
    <2>6. m = l /\ Listed(s).enable = l.enable
      BY <2>2, <2>4 DEF L, View
    <2>7. QED
      BY <1>3, <2>1, <2>3, <2>4, <2>5, <2>6
         DEF Guards, Guarded, BehindGroup, BehindPool, BehindMembers
  <1>10. CASE CreateIPGroup(s)
    <2>1. /\ c.pc = "createGroup" /\ d.pc = "attachGroup"
          /\ group'[d.grp] = [up |-> TRUE, name |-> groupName(s, c.key), list |-> Ranges(s)]
      BY <1>10, NewGroupDoes
    <2>2. group'[d.grp].list = Ranged(svc)
      BY <1>3, <2>1
    <2>3. QED
      BY <1>3, <2>1, <2>2 DEF Guards, BehindGroup, BehindPool, BehindMembers
  <1>11. CASE AttachIPGroup(s)
    <2>1. /\ d.pc = "pool" /\ c.pc = "attachGroup" /\ UNCHANGED group /\ group[c.grp].up
          /\ c.grp # None
      BY <1>11, JumpDoes, CallTyped DEF AttachIPGroup, At, CallOK
    <2>2. Ranged(svc) # <<>> /\ Range(group[c.grp].list) = Range(Ranged(svc))
      BY <1>3, <2>1 DEF Guards
    <2>3. m.enable = TRUE /\ m.group = c.grp
      <3>1. PICK g : g = c.grp /\ SetL(s, [l EXCEPT !.group = g, !.enable = TRUE])
        BY <1>11 DEF AttachIPGroup
      <3>2. m = [l EXCEPT !.group = g, !.enable = TRUE]
        BY <1>2, <3>1, SetLDoes
      <3>3. QED
        BY <1>4, <3>1, <3>2 DEF Listener
    <2>4. QED
      BY <1>3, <2>1, <2>2, <2>3 DEF Guards, Guarded
  <1>12. CASE c.pc \in BehindGroup
    <2>1. c.pc \notin {"listener", "disableGroup", "attachGroup", "updateGroup", "createGroup", "group"} \cup DropPCs
      BY <1>12 DEF BehindGroup, BehindPool, BehindMembers, DropPCs
    <2>2. UNCHANGED group
      BY <2>1, GroupsBy DEF UpdateIPGroup, CreateIPGroup, DropIPGroup, At, DropPCs
    <2>3. m = l \/ SameGuard(l, m)
      BY <1>2, <2>1, RegroupedBy
         DEF CreateListener, DropListener, DisableIPGroup, AttachIPGroup, At, DropPCs, SameGuard, L
    <2>4. d.pc \in BehindGroup
      BY <1>1, <1>2, <2>1, SeenBy
         DEF CreateListener, ReconcileIPGroup, CreateIPGroup, At, BehindGroup, BehindPool,
             BehindMembers, PortPCs
    <2>5. Guarded(svc, l, group)
      BY <1>3, <1>12 DEF Guards
    <2>6. Guarded(svc, m, group')
      BY <2>2, <2>3, <2>5 DEF Guarded, SameGuard
    <2>7. QED
      BY <1>3, <2>4, <2>6 DEF Guards, BehindGroup, BehindPool, BehindMembers
  <1>13. c.pc \in BehindGroup \cup GroupPCs
    BY <1>2, <1>3 DEF Guards, BehindGroup, BehindPool, BehindMembers, GroupPCs, PortPCs
  <1>14. CASE c.pc \in GroupPCs
    <2>1. \/ CreateListener(s) \/ UpdateIdleTimeout(s) \/ KeepListener(s) \/ ReconcileIPGroup(s)
          \/ DisableIPGroup(s) \/ UpdateIPGroup(s) \/ CreateIPGroup(s) \/ AttachIPGroup(s)
      BY <1>2, <1>14 DEF Reconcile, GetPool, UpdatePool, CreatePool, FindPoolOfPort, ListMembers,
         MembersDone, RemoveMember, ReconcileMonitor, DeleteMonitor, CreateMonitor, UpdateMonitor,
         At, GroupPCs
    <2>2. QED
      BY <1>6, <1>7, <1>8, <1>9, <1>10, <1>11, <2>1
  <1>15. QED
    BY <1>12, <1>13, <1>14

\* Where there is no listener nothing is switched on.
LEMMA GuardedUp ==
  ASSUME NothingLeft, NEW svc, NEW sl \in Slots, NEW gs, Guarded(svc, listener[sl], gs)
  PROVE  listener[sl].up \/ (Ranged(svc) = <<>> /\ ~listener[sl].enable)
  <1>1. CASE listener[sl].up
    BY <1>1
  <1>2. CASE ~listener[sl].up
    <2>1. listener[sl] = NoListener
      BY <1>2 DEF NothingLeft
    <2>2. listener[sl].enable = FALSE
      BY <2>1, NewIs
    <2>3. QED
      BY <2>2 DEF Guarded
  <1>3. QED
    BY <1>1, <1>2

\* A listener that a step leaves alone stays guarded, unless the step writes its group.
LEMMA GuardedStays ==
  ASSUME TypeOK, PlaceInv, GroupInv, NEW s \in Services, CallStepOf(s),
         NEW sl \in Slots, listener'[sl] = listener[sl], UpdateIPGroup(s) => sl # Slot(s),
         NEW svc, Guarded(svc, listener[sl], group)
  PROVE  Guarded(svc, listener'[sl], group')
  <1>1. CASE Ranged(svc) = <<>> \/ UNCHANGED group
    BY <1>1 DEF Guarded
  <1>2. CASE Ranged(svc) # <<>> /\ ~UNCHANGED group
    <2>1. PICK g \in GroupIds : g = listener[sl].group /\ group[g].up /\ Bound(g)
      <3>1. listener[sl].up /\ listener[sl].group # None /\ group[listener[sl].group].up
        BY <1>2, GuardedUp DEF Guarded, PlaceInv
      <3>2. listener[sl].group \in GroupIds
        BY <3>1 DEF TypeOK, Listener
      <3>3. QED
        BY <3>1, <3>2 DEF Bound
    <2>2. CASE UpdateIPGroup(s)
      <3>1. call[s].pc = "updateGroup" /\ call[s].grp \in GroupIds /\ call[s].key \in Keys
        BY <2>2, CallTyped, SlotTyped DEF UpdateIPGroup, At, CallOK, Call, PortPCs
      <3>2. Counts(s, call[s], call[s].grp, call[s].key)
        BY <3>1 DEF Counts
      <3>3. BoundOnlyAt(call[s].grp, Slot(s))
        BY <3>1, <3>2 DEF GroupInv, Counted, Slot
      <3>4. listener[sl].up
        BY <1>2, GuardedUp DEF PlaceInv
      <3>5. g # call[s].grp
        BY <2>1, <2>2, <3>3, <3>4 DEF BoundOnlyAt
      <3>6. group'[g] = group[g]
        BY <2>2, <3>5 DEF UpdateIPGroup, TypeOK
      <3>7. QED
        BY <2>1, <3>6 DEF Guarded
    <2>3. CASE CreateIPGroup(s)
      <3>1. group'[g] = group[g]
        BY <2>1, <2>3, NewGroupDoes
      <3>2. QED
        BY <2>1, <3>1 DEF Guarded
    <2>4. CASE DropIPGroup(s)
      <3>1. PICK x : x = Listed(s).group /\ (UNCHANGED group \/ (~Bound(x) /\ group' = [group EXCEPT ![x] = NoGroup]))
        BY <2>4 DEF DropIPGroup
      <3>2. group'[g] = group[g]
        BY <2>1, <3>1 DEF TypeOK
      <3>3. QED
        BY <2>1, <3>2 DEF Guarded
    <2>5. QED
      BY <1>2, <2>2, <2>3, <2>4, GroupsBy
  <1>3. QED
    BY <1>1, <1>2

\* Another Service's step leaves a listener that only t asks for alone, and its group.
LEMMA StaysGuarded ==
  ASSUME TypeOK, PlaceInv, GroupInv, NEW s \in Services, CallStepOf(s),
         NEW t \in Services, t # s, NEW sl \in Slots, Alone(t, sl)
  PROVE  /\ listener'[sl] = listener[sl]
         /\ UpdateIPGroup(s) => sl # Slot(s)
         /\ \A svc : Guarded(svc, listener[sl], group) => Guarded(svc, listener'[sl], group')
  <1>1. listener'[sl] = listener[sl]
    BY Undisturbed
  <1>2. UpdateIPGroup(s) => sl # Slot(s)
    BY PortWanted DEF UpdateIPGroup, At, PortPCs, Alone
  <1>3. QED
    BY <1>1, <1>2, GuardedStays

\* Every step preserves GuardInv.
LEMMA GuardStep ==
  ASSUME PortsDisjoint, PortsDistinct, RangesDistinct
  PROVE  TypeOK /\ PlaceInv /\ GroupInv /\ SeenInv /\ WholeInv /\ GuardInv /\ [Next]_vars
            => GuardInv'
  <1> SUFFICES ASSUME TypeOK, PlaceInv, GroupInv, SeenInv, WholeInv, GuardInv, [Next]_vars
               PROVE  GuardInv'
    OBVIOUS
  <1>1. ASSUME NEW s \in Services, \A t \in Services : t # s => call'[t] = call[t], CallStepOf(s)
        PROVE  GuardInv'
    <2>1. Guards(s, call'[s], listener'[<<call'[s].lb, call'[s].key>>], group')
      BY <1>1, GuardOwn
    <2>2. ASSUME NEW t \in Services, t # s
          PROVE  Guards(t, call[t], listener'[Slot(t)], group')
      <3>1. Guards(t, call[t], listener[Slot(t)], group)
        BY DEF GuardInv, L
      <3>2. CASE call[t].pc \in BehindGroup
        <4>1. Slot(t) \in Slots /\ Alone(t, Slot(t))
          BY <3>2, PortAlone DEF BehindGroup, BehindPool, BehindMembers, PortPCs
        <4>2. Guarded(call[t].svc, listener[Slot(t)], group)
                => Guarded(call[t].svc, listener'[Slot(t)], group')
          BY <1>1, <2>2, <4>1, StaysGuarded
        <4>3. QED
          BY <3>1, <3>2, <4>2 DEF Guards, BehindGroup, BehindPool, BehindMembers
      <3>3. CASE call[t].pc = "attachGroup"
        <4>1. call[t].grp \in GroupIds /\ call[t].key \in Keys
          BY <3>3, CallTyped, SlotTyped DEF CallOK, Call, PortPCs
        <4>2. Counts(t, call[t], call[t].grp, call[t].key)
          BY <3>3 DEF Counts
        <4>3. Named(call[t].grp, t, call[t].key)
          BY <4>1, <4>2 DEF GroupInv, Counted
        <4>4. group'[call[t].grp] = group[call[t].grp]
          BY <1>1, <2>2, <4>1, <4>3, OthersGroup
        <4>5. QED
          BY <3>1, <3>3, <4>4 DEF Guards, BehindGroup, BehindPool, BehindMembers
      <3>4. CASE call[t].pc \notin BehindGroup \cup {"attachGroup"}
        BY <3>1, <3>4 DEF Guards
      <3>5. QED
        BY <3>2, <3>3, <3>4
    <2>3. ASSUME NEW t \in Services
          PROVE  Guards(t, call'[t], listener'[<<call'[t].lb, call'[t].key>>], group')
      BY <1>1, <2>1, <2>2 DEF Slot
    <2>4. QED
      BY <2>3 DEF GuardInv, L, Slot, Guards, Guarded
  <1>2. CASE Crash
    BY <1>2, CrashDoes, IdleIs DEF GuardInv, Guards, BehindGroup, BehindPool, BehindMembers
  <1>3. CASE Environment \/ UNCHANGED vars
    BY <1>3, EnvironmentDoes DEF vars, cloud, GuardInv, Guards, Guarded, L, Slot
  <1>4. QED
    BY <1>1, <1>2, <1>3, StepsAre DEF CallStepOf

\* GuardInv holds throughout.
LEMMA GuardHolds ==
  ASSUME PortsDisjoint, PortsDistinct, RangesDistinct
  PROVE  Spec => []GuardInv
  <1>1. ASSUME Init PROVE GuardInv
    BY <1>1, IdleIs DEF Init, GuardInv, Guards
  <1>2. ASSUME TypeOK, PlaceInv, GroupInv, SeenInv, WholeInv, GuardInv, [Next]_vars
        PROVE  GuardInv'
    BY <1>2, GuardStep
  <1>3. QED
    BY <1>1, <1>2, TypeCorrect, PlaceHolds, GroupHolds, SeenHolds, WholeHolds, PTL DEF Spec

\* Backends are attached only behind the whitelist: once reconcileIPGroup has
\* returned, the listener at hand lets in exactly the source ranges of its Service,
\* until the port is done, whatever other Services and the user do meanwhile.
THEOREM WhitelistFirst ==
  ASSUME PortsDisjoint, PortsDistinct, RangesDistinct
  PROVE  Spec => []WhitelistBeforeBackends
  <1>1. ASSUME TypeOK, GuardInv
        PROVE  WhitelistBeforeBackends
    BY <1>1 DEF GuardInv, Guards, Guarded, Ranged, Whitelists, WhitelistBeforeBackends,
                BehindGroup, BehindPool, BehindMembers
  <1>2. QED
    BY <1>1, TypeCorrect, GuardHolds, PTL

-----------------------------------------------------------------------------
(* The rest of the listener.                                               *)

\* How far a sync has come with idle timeout, pool, members and monitor of the
\* port at hand; `mon' is what the pool said of the monitor.
Works(s, c, l) ==
    c.op = "ensure" =>
      /\ c.pc \in PortPCs \ (BehindPool \cup {"updatePool"}) => ~c.mon
      /\ c.pc \in PortPCs \ {"listener"} => (c.svc.idle > 0 => l.idle = c.svc.idle)
      /\ c.pc \in BehindPool => WithPool(c.svc, l)
      /\ c.pc \in {"listMembers", "members", "monitor"} => c.mon = (l.monitor # None)
      /\ c.pc \in BehindMembers => l.members = wantedMembers(c.nodes, c.svc.ports[c.i].nodePort)
      /\ c.pc \in {"createMonitor", "updateMonitor"} => c.svc.hc.enabled
      /\ c.pc = "updateMonitor" => ~mustRecreate(l.monitor, desiredMonitor(c.svc, c.svc.ports[c.i]))

WorkInv == \A s \in Services : Works(s, call[s], L(s))

\* The book of members is right, where the listener is its Service's alone.
LEMMA HaveHolds == Spec => []HaveInv
  <1>1. Init => HaveInv
    BY IdleIs DEF Init, HaveInv, At
  <1>2. QED
    BY <1>1, HaveStep, TypeCorrect, PlaceHolds, PTL DEF Spec

\* The call after its own step.
LEMMA WorkOwn ==
  ASSUME PortsDisjoint, PortsDistinct,
         TypeOK, PlaceInv, SeenInv, WholeInv, HaveInv, GuardInv, WorkInv,
         NEW s \in Services, CallStepOf(s)
  PROVE  Works(s, call'[s], listener'[<<call'[s].lb, call'[s].key>>])
  <1> DEFINE c == call[s]
             d == call'[s]
             l == L(s)
             m == listener'[Slot(s)]
             svc == c.svc
             p == svc.ports[c.i]
  <1>1. CASE d.op # "ensure" \/ d.pc \notin PortPCs \/ d.pc = "findPool"
    BY <1>1, AtPortStart DEF Works, BehindPool, BehindMembers, PortPCs
  <1>2. CASE d.pc = "listener"
    BY <1>2, AtPortStart DEF Works, BehindPool, BehindMembers, PortPCs
  <1>3. SUFFICES ASSUME d.op = "ensure", d.pc \in PortPCs \ {"listener", "findPool"}
                 PROVE  Works(s, d, listener'[<<d.lb, d.key>>])
    BY <1>1, <1>2
  <1>4. /\ Reconcile(s) /\ c.pc \in PortPCs /\ SamePlace(c, d) /\ ~Fail(s)
        /\ ~Goto(s, NextPort(s, c))
    BY <1>3, AtPort
  <1>5. /\ d.svc = svc /\ d.nodes = c.nodes /\ d.i = c.i /\ c.op = "ensure" /\ <<d.lb, d.key>> = Slot(s)
        /\ Works(s, c, l) /\ Svc(s) = svc /\ Port(s) = p /\ c.pc # "findPool"
    BY <1>3, <1>4 DEF SamePlace, SameService, Slot, WorkInv, GuardInv, Guards, Svc, Port
  <1>6. /\ Slot(s) \in Slots /\ Alone(s, Slot(s)) /\ l \in Listener /\ Whole(l) /\ svc \in Specs[s]
        /\ svc.idle \in Nat /\ WantedMonitor(s) = desiredMonitor(svc, p)
        /\ Wanted(s) = wantedMembers(c.nodes, p.nodePort)
    BY <1>4, <1>5, PortAlone, SlotTyped, CallTyped, SpecTyped
       DEF WholeInv, L, CallOK, PortPCs, ServiceObject, WantedMonitor, Wanted
  <1>7. SUFFICES Works(s, d, m)
    BY <1>5
  <1>8. ASSUME NEW pc, Jump(s, pc)
        PROVE  d.pc = pc /\ d.mon = c.mon
    BY <1>8, JumpDoes DEF SamePort
  <1>9. CASE CreateListener(s)
    <2>1. d.pc = "group" /\ c.pc = "listener" /\ d.mon = c.mon
      BY <1>9, CreateDoes DEF SamePort
    <2>2. m.idle = svc.idle
      <3>1. PICK v : v = svc.idle
        OBVIOUS
      <3>2. m = NewListener(s, v)
        BY <1>4, <1>5, <1>9, <3>1, SetLDoes DEF CreateListener
      <3>3. NewListener(s, v).idle = v
        BY NewIs
      <3>4. QED
        BY <3>1, <3>2, <3>3
    <2>3. QED
      BY <1>5, <2>1, <2>2 DEF Works, BehindPool, BehindMembers, PortPCs
  <1>10. CASE UpdateIdleTimeout(s)
    <2>1. d.pc = "group" /\ c.pc = "listener" /\ d.mon = c.mon
      BY <1>8, <1>10 DEF UpdateIdleTimeout, At
    <2>2. m.idle = svc.idle
      <3>1. PICK v : v = svc.idle
        OBVIOUS
      <3>2. m = [l EXCEPT !.idle = v]
        BY <1>4, <1>5, <1>10, <3>1, SetLDoes DEF UpdateIdleTimeout
      <3>3. QED
        BY <1>6, <3>1, <3>2 DEF Listener
    <2>3. QED
      BY <1>5, <2>1, <2>2 DEF Works, BehindPool, BehindMembers, PortPCs
  <1>11. CASE KeepListener(s)
    <2>1. d.pc = "group" /\ c.pc = "listener" /\ d.mon = c.mon /\ svc.idle = 0
      BY <1>5, <1>8, <1>11 DEF KeepListener, At
    <2>2. QED
      BY <1>5, <2>1 DEF Works, BehindPool, BehindMembers, PortPCs
  <1>12. CASE ReconcileIPGroup(s) \/ DisableIPGroup(s) \/ UpdateIPGroup(s) \/ CreateIPGroup(s)
              \/ AttachIPGroup(s)
    <2>1. c.pc \in GroupPCs \ {"listener"} /\ d.pc \in {"pool"} \cup (GroupPCs \ {"listener"}) /\ d.mon = c.mon
      <3>1. CASE ReconcileIPGroup(s)
        BY <1>4, <1>8, <3>1, GroupDoes DEF GroupPCs
      <3>2. CASE CreateIPGroup(s)
        BY <3>2, NewGroupDoes DEF GroupPCs
      <3>3. CASE DisableIPGroup(s) \/ UpdateIPGroup(s) \/ AttachIPGroup(s)
        BY <1>8, <3>3 DEF DisableIPGroup, UpdateIPGroup, AttachIPGroup, At, GroupPCs
      <3>4. QED
        BY <1>12, <3>1, <3>2, <3>3
    <2>2. m = l \/ OnlyGuard(l, m)
      <3>1. CASE ReconcileIPGroup(s) \/ UpdateIPGroup(s) \/ CreateIPGroup(s)
        BY <3>1 DEF ReconcileIPGroup, UpdateIPGroup, CreateIPGroup, cloud, L
      <3>2. CASE DisableIPGroup(s) \/ AttachIPGroup(s)
        <4>1. PICK v, w : SetL(s, [l EXCEPT !.group = v, !.enable = w])
          BY <3>2 DEF DisableIPGroup, AttachIPGroup
        <4>2. m = [l EXCEPT !.group = v, !.enable = w]
          BY <1>4, <4>1, SetLDoes
        <4>3. QED
          BY <1>6, <4>2 DEF Listener, OnlyGuard, SameIdle, SamePool, SameMembers, SameMonitor
      <3>3. QED
        BY <1>12, <3>1, <3>2
    <2>3. m.idle = l.idle
      BY <2>2 DEF OnlyGuard, SameIdle
    <2>4. QED
      BY <1>5, <2>1, <2>3 DEF Works, BehindPool, BehindMembers, GroupPCs, PortPCs
  <1>13. CASE GetPool(s)
    <2>1. /\ c.pc = "pool" /\ d.mon = (l.monitor # None) /\ m = l /\ l.pool
          /\ d.pc = IF poolOutdated(l, svc) THEN "updatePool" ELSE "listMembers"
      BY <1>5, <1>13, MonDoes DEF GetPool, At, cloud, L, UpdatePool
    <2>2. d.pc = "listMembers" => WithPool(svc, l)
      BY <2>1 DEF poolOutdated, WithPool
    <2>3. QED
      BY <1>5, <2>1, <2>2 DEF Works, BehindPool, BehindMembers, PortPCs
  <1>14. CASE UpdatePool(s) \/ CreatePool(s)
    <2>1. m = withPool(l, svc)
      BY <1>4, <1>5, <1>14, SetLDoes DEF UpdatePool, CreatePool
    <2>2. OnlyPool(l, m) /\ WithPool(svc, m)
      BY <1>6, <2>1, PoolSet
    <2>3. d.pc = "listMembers" /\ d.mon = (m.monitor # None) /\ c.pc \in {"pool", "updatePool"}
      <3>1. CASE UpdatePool(s)
        BY <2>2, <3>1, MonDoes DEF UpdatePool, At, GetPool, OnlyPool, SameMonitor
      <3>2. CASE CreatePool(s)
        <4>1. c.pc = "pool" /\ d.pc = "listMembers" /\ d.mon = c.mon /\ ~l.pool
          BY <1>8, <3>2 DEF CreatePool, At
        <4>2. l.monitor = None /\ ~c.mon /\ c.mon \in BOOLEAN
          BY <1>5, <1>6, <4>1, CallTyped DEF Whole, Works, BehindPool, BehindMembers, PortPCs, Call
        <4>3. QED
          BY <2>2, <4>1, <4>2 DEF OnlyPool, SameMonitor
      <3>3. QED
        BY <1>14, <3>1, <3>2
    <2>4. m.idle = l.idle
      BY <2>2 DEF OnlyPool, SameIdle
    <2>5. QED
      BY <1>5, <2>2, <2>3, <2>4 DEF Works, BehindPool, BehindMembers, PortPCs
  <1>15. CASE \/ ListMembers(s) \/ MembersDone(s)
              \/ \E n \in Wanted(s) : AddMember(s, n)
              \/ \E n \in call[s].have : RemoveMember(s, n)
    <2>1. CASE MembersDone(s)
      <3>1. /\ c.pc = "members" /\ c.have = Wanted(s) /\ m = l
            /\ Goto(s, [c EXCEPT !.pc = "monitor", !.have = {}])
        BY <1>5, <2>1 DEF MembersDone, At, cloud, L
      <3>2. d.pc = "monitor" /\ d.mon = c.mon
        BY <3>1, HaveDoes
      <3>3. l.members = wantedMembers(c.nodes, p.nodePort)
        BY <1>6, <3>1 DEF HaveInv, At
      <3>4. QED
        BY <1>5, <3>1, <3>2, <3>3 DEF Works, BehindPool, BehindMembers, PortPCs
    <2>2. CASE ~MembersDone(s)
      <3>1. c.pc \in {"listMembers", "members"} /\ d.pc = "members" /\ d.mon = c.mon
        BY <1>4, <1>15, <2>2, MembersDoes
      <3>2. m = l \/ OnlyMembers(l, m)
        <4>1. CASE ListMembers(s)
          BY <4>1 DEF ListMembers, cloud, L
        <4>2. CASE ~ListMembers(s)
          <5>1. PICK v : SetL(s, [l EXCEPT !.members = v])
            BY <1>15, <2>2, <4>2 DEF AddMember, RemoveMember
          <5>2. m = [l EXCEPT !.members = v]
            BY <1>4, <5>1, SetLDoes
          <5>3. QED
            BY <1>6, <5>2 DEF Listener, OnlyMembers, SameIdle, SameGuard, SamePool, SameMonitor
        <4>3. QED
          BY <4>1, <4>2
      <3>3. /\ m.idle = l.idle /\ m.monitor = l.monitor
            /\ WithPool(svc, l) => WithPool(svc, m)
        BY <3>2 DEF OnlyMembers, SameIdle, SameMonitor, SamePool, WithPool
      <3>4. QED
        BY <1>5, <3>1, <3>3 DEF Works, BehindPool, BehindMembers, PortPCs
    <2>3. QED
      BY <2>1, <2>2
  <1>16. CASE ReconcileMonitor(s)
    <2>1. /\ c.pc = "monitor" /\ m = l
          /\ Jump(s, IF ~svc.hc.enabled THEN "deleteMonitor"
                     ELSE IF ~c.mon THEN "createMonitor"
                     ELSE IF mustRecreate(l.monitor, desiredMonitor(svc, p)) THEN "deleteMonitor"
                     ELSE "updateMonitor")
      BY <1>4, <1>5, <1>6, <1>16 DEF ReconcileMonitor, At, cloud, L
    <2>2. /\ d.pc \in {"deleteMonitor", "createMonitor", "updateMonitor"}
          /\ d.pc \in {"createMonitor", "updateMonitor"} => svc.hc.enabled
          /\ d.pc = "updateMonitor" => ~mustRecreate(l.monitor, desiredMonitor(svc, p))
      BY <1>8, <2>1
    <2>3. QED
      BY <1>5, <2>1, <2>2 DEF Works, BehindPool, BehindMembers, PortPCs
  <1>17. CASE DeleteMonitor(s)
    <2>1. c.pc = "deleteMonitor" /\ svc.hc.enabled /\ d.pc = "createMonitor"
      BY <1>4, <1>5, <1>8, <1>17 DEF DeleteMonitor, At
    <2>2. m = [l EXCEPT !.monitor = None]
      BY <1>4, <1>17, SetLDoes DEF DeleteMonitor
    <2>3. OnlyMonitor(l, m)
      BY <1>6, <2>2 DEF Listener, OnlyMonitor, SameIdle, SameGuard, SamePool, SameMembers
    <2>4. /\ m.idle = l.idle /\ m.members = l.members
          /\ WithPool(svc, l) => WithPool(svc, m)
      BY <2>3 DEF OnlyMonitor, SameIdle, SameMembers, SamePool, WithPool
    <2>5. QED
      BY <1>5, <2>1, <2>4 DEF Works, BehindPool, BehindMembers, PortPCs
  <1>18. CASE CreateMonitor(s) \/ UpdateMonitor(s) \/ FindPoolOfPort(s)
    BY <1>4, <1>5, <1>18 DEF CreateMonitor, UpdateMonitor, FindPoolOfPort, At
  <1>19. QED
    BY <1>4, <1>9, <1>10, <1>11, <1>12, <1>13, <1>14, <1>15, <1>16, <1>17, <1>18 DEF Reconcile

\* Every step preserves WorkInv.
LEMMA WorkStep ==
  ASSUME PortsDisjoint, PortsDistinct
  PROVE  TypeOK /\ PlaceInv /\ SeenInv /\ WholeInv /\ HaveInv /\ GuardInv /\ WorkInv /\ [Next]_vars
            => WorkInv'
  <1> SUFFICES ASSUME TypeOK, PlaceInv, SeenInv, WholeInv, HaveInv, GuardInv, WorkInv, [Next]_vars
               PROVE  WorkInv'
    OBVIOUS
  <1>1. ASSUME NEW s \in Services, \A t \in Services : t # s => call'[t] = call[t], CallStepOf(s)
        PROVE  WorkInv'
    <2>1. Works(s, call'[s], listener'[<<call'[s].lb, call'[s].key>>])
      BY <1>1, WorkOwn
    <2>2. ASSUME NEW t \in Services, t # s
          PROVE  Works(t, call[t], listener'[Slot(t)])
      <3>1. Works(t, call[t], listener[Slot(t)])
        BY DEF WorkInv, L
      <3>2. CASE call[t].pc \in PortPCs
        <4>1. Slot(t) \in Slots /\ Alone(t, Slot(t))
          BY <3>2, PortAlone
        <4>2. listener'[Slot(t)] = listener[Slot(t)]
          BY <1>1, <2>2, <4>1, Undisturbed
        <4>3. QED
          BY <3>1, <4>2
      <3>3. CASE call[t].pc \notin PortPCs
        BY <3>3 DEF Works, BehindPool, BehindMembers, PortPCs
      <3>4. QED
        BY <3>2, <3>3
    <2>3. ASSUME NEW t \in Services
          PROVE  Works(t, call'[t], listener'[<<call'[t].lb, call'[t].key>>])
      BY <1>1, <2>1, <2>2 DEF Slot
    <2>4. QED
      BY <2>3 DEF WorkInv, L, Slot, Works, WithPool
  <1>2. CASE Crash
    BY <1>2, CrashDoes, IdleIs DEF WorkInv, Works
  <1>3. CASE Environment \/ UNCHANGED vars
    BY <1>3, EnvironmentDoes DEF vars, cloud, WorkInv, Works, WithPool, L, Slot
  <1>4. QED
    BY <1>1, <1>2, <1>3, StepsAre DEF CallStepOf

\* WorkInv holds throughout.
LEMMA WorkHolds ==
  ASSUME PortsDisjoint, PortsDistinct, RangesDistinct
  PROVE  Spec => []WorkInv
  <1>1. ASSUME Init PROVE WorkInv
    BY <1>1, IdleIs DEF Init, WorkInv, Works
  <1>2. ASSUME TypeOK, PlaceInv, SeenInv, WholeInv, HaveInv, GuardInv, WorkInv, [Next]_vars
        PROVE  WorkInv'
    BY <1>2, WorkStep
  <1>3. QED
    BY <1>1, <1>2, TypeCorrect, PlaceHolds, SeenHolds, WholeHolds, HaveHolds, GuardHolds, PTL DEF Spec

-----------------------------------------------------------------------------
(* A port that is done.                                                    *)

\* The listener l of port p is as the Service object wants it, but for its members.
Kept(svc, p, l, gs) ==
    /\ WithPool(svc, l)
    /\ svc.idle > 0 => l.idle = svc.idle
    /\ l.monitor = (IF svc.hc.enabled THEN desiredMonitor(svc, p) ELSE None)
    /\ Guarded(svc, l, gs)

\* What a call has made of the listener of a port it is done with.
Done(c, p, l, gs) ==
    /\ c.op = "ensure" => Kept(c.svc, p, l, gs)
    /\ l.members = wantedMembers(c.nodes, p.nodePort)

\* The steps that finish a port.
LEMMA FinishesPort ==
  ASSUME TypeOK, NEW s \in Services, Reconcile(s), Goto(s, NextPort(s, call[s]))
  PROVE  MembersDone(s) \/ ReconcileMonitor(s) \/ DeleteMonitor(s) \/ CreateMonitor(s) \/ UpdateMonitor(s)
  <1>1. call'[s].pc \in {"listener", "findPool", "sweep", "return"}
    BY NextPortDoes
  <1>2. \A p : Jump(s, p) => p \in {"listener", "findPool", "sweep", "return"}
    BY <1>1, JumpDoes
  <1>3. ~Fail(s)
    BY <1>1, FailDoes, IdleIs
  <1>4. ~CreateListener(s) /\ ~CreateIPGroup(s) /\ ~ReconcileIPGroup(s)
    <2>1. ~CreateListener(s) /\ ~CreateIPGroup(s)
      BY <1>1, CreateDoes, NewGroupDoes
    <2>2. ReconcileIPGroup(s) => call'[s].pc \in {"disableGroup", "pool", "updateGroup", "attachGroup", "createGroup"}
      BY <1>3, JumpDoes, GroupDoes
    <2>3. QED
      BY <1>1, <2>1, <2>2
  <1>5. ~GetPool(s) /\ ~UpdatePool(s) /\ ~CreatePool(s) /\ ~FindPoolOfPort(s)
    BY <1>1, <1>2, MonDoes DEF CreatePool, FindPoolOfPort
  <1>6. /\ ~UpdateIdleTimeout(s) /\ ~KeepListener(s) /\ ~DisableIPGroup(s) /\ ~UpdateIPGroup(s)
        /\ ~AttachIPGroup(s)
    BY <1>2 DEF UpdateIdleTimeout, KeepListener, DisableIPGroup, UpdateIPGroup, AttachIPGroup
  <1>7. \/ MembersDone(s)
        \/ ~(\/ ListMembers(s) \/ \E m \in Wanted(s) : AddMember(s, m)
             \/ \E m \in call[s].have : RemoveMember(s, m))
    BY <1>1, MembersDoes
  <1>8. QED
    BY <1>4, <1>5, <1>6, <1>7 DEF Reconcile

\* They have done it.
LEMMA PortDone ==
  ASSUME PortsDisjoint, TypeOK, StageInv, HaveInv, GuardInv, WorkInv,
         NEW s \in Services, Reconcile(s), Goto(s, NextPort(s, call[s]))
  PROVE  /\ Done(call[s], Port(s), listener'[Slot(s)], group')
         /\ call[s].op \in {"ensure", "update"}
  <1> DEFINE c == call[s]
             l == L(s)
             m == listener'[Slot(s)]
             svc == c.svc
             p == svc.ports[c.i]
  <1>1. /\ c.pc \in PortPCs /\ c.op \in {"ensure", "update"} /\ Port(s) = p /\ UNCHANGED group
        /\ Guards(s, c, l, group) /\ Works(s, c, l) /\ Svc(s) = svc
        /\ (c.pc \in EnsurePCs => c.op = "ensure")
    <2>1. call'[s].pc \in {"listener", "findPool", "sweep", "return"}
      BY NextPortDoes
    <2>2. c.pc \in PortPCs /\ UNCHANGED group
      BY <2>1, ReconcileDoes DEF PortPCs
    <2>3. Stage(s, c) /\ Guards(s, c, l, group) /\ Works(s, c, l)
      BY DEF StageInv, GuardInv, WorkInv
    <2>4. QED
      BY <2>2, <2>3 DEF Port, Svc, Stage
  <1>2. /\ Slot(s) \in Slots /\ Alone(s, Slot(s)) /\ l \in Listener
        /\ WantedMonitor(s) = desiredMonitor(svc, p) /\ WantedMonitor(s) \in Monitor
        /\ Wanted(s) = wantedMembers(c.nodes, p.nodePort)
    BY <1>1, PortAlone, SlotTyped, WantedTyped DEF WantedMonitor, Wanted
  <1>3. SUFFICES Done(c, p, m, group)
    BY <1>1
  <1>4. CASE MembersDone(s)
    <2>1. c.pc = "members" /\ c.have = Wanted(s) /\ m = l /\ c.op # "ensure"
      <3>1. c.pc = "members" /\ c.have = Wanted(s) /\ m = l
        BY <1>4 DEF MembersDone, At, cloud, L
      <3>2. ASSUME c.op = "ensure" PROVE FALSE
        <4>1. Goto(s, [c EXCEPT !.pc = "monitor", !.have = {}])
          BY <1>4, <3>2 DEF MembersDone
        <4>2. call'[s].pc = "monitor"
          BY <4>1, HaveDoes
        <4>3. QED
          BY <4>2, NextPortDoes
      <3>3. QED
        BY <3>1, <3>2
    <2>2. l.members = wantedMembers(c.nodes, p.nodePort)
      BY <1>2, <2>1 DEF HaveInv, At
    <2>3. QED
      BY <2>1, <2>2 DEF Done
  <1>5. ASSUME c.op = "ensure", c.pc \in BehindMembers, OnlyMonitor(l, m) \/ m = l,
               m.monitor = (IF svc.hc.enabled THEN desiredMonitor(svc, p) ELSE None)
        PROVE  Done(c, p, m, group)
    <2>1. /\ Guarded(svc, l, group) /\ WithPool(svc, l) /\ (svc.idle > 0 => l.idle = svc.idle)
          /\ l.members = wantedMembers(c.nodes, p.nodePort)
      BY <1>1, <1>5 DEF Guards, Works, BehindGroup, BehindPool, BehindMembers, PortPCs
    <2>2. /\ Guarded(svc, m, group) /\ WithPool(svc, m) /\ (svc.idle > 0 => m.idle = svc.idle)
          /\ m.members = wantedMembers(c.nodes, p.nodePort)
      BY <1>5, <2>1 DEF OnlyMonitor, SameIdle, SameGuard, SamePool, SameMembers, Guarded, WithPool
    <2>3. QED
      BY <1>5, <2>2 DEF Done, Kept
  <1>6. CASE ReconcileMonitor(s)
    <2>1. c.pc = "monitor" /\ m = l /\ c.op = "ensure"
      BY <1>1, <1>6 DEF ReconcileMonitor, At, cloud, L, EnsurePCs, PortPCs
    <2>2. svc.hc.enabled = c.mon /\ (svc.hc.enabled => l.monitor = desiredMonitor(svc, p))
      <3>1. ASSUME NEW pc \in {"deleteMonitor", "createMonitor", "updateMonitor"}, Jump(s, pc)
            PROVE  FALSE
        BY <3>1, JumpDoes, NextPortDoes
      <3>2. QED
        BY <1>1, <1>2, <1>6, <3>1 DEF ReconcileMonitor
    <2>3. c.mon = (l.monitor # None)
      BY <1>1, <2>1 DEF Works
    <2>4. QED
      BY <1>5, <2>1, <2>2, <2>3 DEF BehindMembers
  <1>7. CASE DeleteMonitor(s)
    <2>1. c.pc = "deleteMonitor" /\ ~svc.hc.enabled
      <3>1. c.pc = "deleteMonitor" /\ (svc.hc.enabled => Jump(s, "createMonitor"))
        BY <1>1, <1>7 DEF DeleteMonitor, At
      <3>2. ~Jump(s, "createMonitor")
        <4>1. call'[s].pc \in {"listener", "findPool", "sweep", "return"}
          BY NextPortDoes
        <4>2. QED
          BY <4>1, JumpDoes
      <3>3. QED
        BY <3>1, <3>2
    <2>2. m = [l EXCEPT !.monitor = None]
      BY <1>1, <1>7, SetLDoes DEF DeleteMonitor
    <2>3. OnlyMonitor(l, m) /\ m.monitor = None
      BY <1>2, <2>2 DEF Listener, OnlyMonitor, SameIdle, SameGuard, SamePool, SameMembers
    <2>4. QED
      BY <1>1, <1>5, <2>1, <2>3 DEF EnsurePCs, PortPCs, BehindMembers
  <1>8. CASE CreateMonitor(s)
    <2>1. c.pc = "createMonitor" /\ c.op = "ensure" /\ svc.hc.enabled
      BY <1>1, <1>8 DEF CreateMonitor, At, EnsurePCs, PortPCs, Works
    <2>2. PICK v : v = WantedMonitor(s)
      OBVIOUS
    <2>3. m = [l EXCEPT !.monitor = v]
      BY <1>1, <1>8, <2>2, SetLDoes DEF CreateMonitor
    <2>4. OnlyMonitor(l, m) /\ m.monitor = v
      BY <1>2, <2>3 DEF Listener, OnlyMonitor, SameIdle, SameGuard, SamePool, SameMembers
    <2>5. QED
      BY <1>2, <1>5, <2>1, <2>2, <2>4 DEF BehindMembers
  <1>9. CASE UpdateMonitor(s)
    <2>1. c.pc = "updateMonitor" /\ c.op = "ensure" /\ l.monitor # None
      BY <1>1, <1>9 DEF UpdateMonitor, At, EnsurePCs, PortPCs
    <2>2. svc.hc.enabled /\ ~mustRecreate(l.monitor, desiredMonitor(svc, p))
      BY <1>1, <2>1 DEF Works
    <2>3. PICK w \in Monitor : w = WantedMonitor(s)
      BY <1>2
    <2>4. [w EXCEPT !.type = l.monitor.type, !.port = l.monitor.port] = w
      <3>1. l.monitor.type = w.type /\ l.monitor.port = w.port
        BY <1>2, <2>2, <2>3 DEF mustRecreate
      <3>2. QED
        BY <3>1 DEF Monitor
    <2>5. SetL(s, [l EXCEPT !.monitor = [w EXCEPT !.type = l.monitor.type, !.port = l.monitor.port]])
      BY <1>9, <2>3 DEF UpdateMonitor
    <2>6. SetL(s, [l EXCEPT !.monitor = w])
      BY <2>4, <2>5
    <2>7. m = [l EXCEPT !.monitor = w]
      BY <1>1, <2>6, SetLDoes
    <2>8. OnlyMonitor(l, m) /\ m.monitor = w
      BY <1>2, <2>7 DEF Listener, OnlyMonitor, SameIdle, SameGuard, SamePool, SameMembers
    <2>9. QED
      BY <1>2, <1>5, <2>1, <2>2, <2>3, <2>8 DEF BehindMembers
  <1>10. QED
    BY <1>4, <1>6, <1>7, <1>8, <1>9, FinishesPort

-----------------------------------------------------------------------------
(* The course of a call.                                                   *)

BeforePorts == {"get", "find", "createLB", "wait", "list"}

\* A call counts its ports from the first one, and one that returns is at the
\* load balancer of its Service object, which is there.
Course(s, c) ==
    /\ c.pc \in BeforePorts => c.i = 0
    /\ c.pc = "return" /\ c.op # "delete" => c.lb = targetLB(s, c.svc) /\ c.lb \in balancers

CourseInv == \A s \in Services : Course(s, call[s])

\* How a sync comes to its end.
LEMMA AtReturn ==
  ASSUME TypeOK, StageInv, NEW s \in Services, CallStepOf(s),
         call'[s].pc = "return", call'[s].op # "delete"
  PROVE  \/ Reconcile(s) /\ Goto(s, NextPort(s, call[s])) /\ ~More(call[s]) /\ call[s].op = "update"
         \/ ListListeners(s) /\ call[s].op = "update"
         \/ SweepDone(s) /\ call[s].op = "ensure"
  <1> DEFINE c == call[s]
             d == call'[s]
  <1>1. Stage(s, c) /\ d # Idle
    BY IdleIs DEF StageInv
  <1>2. ~Start(s) /\ ~Return(s) /\ ~Refused(s) /\ ~Abort(s) /\ ~Fail(s)
    BY <1>1, StartDoes, EndDoes, FailDoes
  <1>3. CASE Find(s)
    <2>1. ListListeners(s) /\ c.op # "delete"
      BY <1>1, <1>2, <1>3, FindDoes, ListDoes DEF SamePlace, SameService, Stage
    <2>2. c.op # "ensure"
      <3>1. PICK e \in Call : SamePlace(c, e) /\ d = NextPort(s, e)
        BY <2>1, ListDoes
      <3>2. QED
        BY <3>1, NextPortGoes DEF SamePlace, SameService
    <2>3. c.pc = "list" /\ c.op \in {"none", "ensure", "update", "delete"}
      BY <2>1, ListDoes, CallTyped, CallFields
    <2>4. QED
      BY <1>1, <2>1, <2>2, <2>3 DEF Stage
  <1>4. CASE Reconcile(s)
    <2>1. Goto(s, NextPort(s, c)) /\ c.pc \in PortPCs
      BY <1>2, <1>4, ReconcileDoes DEF PortPCs
    <2>2. ~More(c) /\ c.op # "ensure"
      BY <2>1, NextPortDoes
    <2>3. QED
      BY <1>1, <1>4, <2>1, <2>2 DEF Stage
  <1>5. CASE Teardown(s)
    <2>1. SweepDone(s) /\ c.pc = "sweep"
      BY <1>1, <1>5, TeardownDoes DEF SameService, Stage, DropPCs
    <2>2. c.op = "ensure"
      BY <1>1, <1>5, <2>1, TeardownDoes DEF SameService, Stage
    <2>3. QED
      BY <2>1, <2>2
  <1>6. QED
    BY <1>2, <1>3, <1>4, <1>5 DEF CallStepOf

\* A call that has not come to its ports yet counts from the start.
LEMMA CountsFromStart ==
  ASSUME TypeOK, CourseInv, NEW s \in Services, CallStepOf(s), call'[s].pc \in BeforePorts
  PROVE  call'[s].i = 0
  <1> DEFINE c == call[s]
             d == call'[s]
  <1>1. d # Idle
    BY IdleIs DEF BeforePorts
  <1>2. ~Return(s) /\ ~Refused(s) /\ ~Abort(s) /\ ~Fail(s)
    BY <1>1, EndDoes, FailDoes
  <1>3. ~Reconcile(s) /\ ~Teardown(s)
    BY <1>2, ReconcileDoes, NextPortDoes, TeardownDoes DEF BeforePorts, PortPCs, DropPCs
  <1>4. CASE Start(s)
    <2>1. PICK op, pc, ns : Goto(s, [Idle EXCEPT !.op = op, !.pc = pc, !.svc = spec[s], !.nodes = ns])
      BY <1>4 DEF Start, EnsureLoadBalancer, UpdateLoadBalancer, EnsureLoadBalancerDeleted, Begin
    <2>2. d = [Idle EXCEPT !.op = op, !.pc = pc, !.svc = spec[s], !.nodes = ns]
      BY <2>1, GotoDoes
    <2>3. QED
      BY <2>2 DEF Idle
  <1>5. CASE Find(s)
    <2>1. c.pc \in BeforePorts /\ c.i = 0
      BY <1>5, FindDoes DEF BeforePorts, CourseInv, Course
    <2>2. CASE FoundLoadBalancer(s)
      <3>1. PICK lb, pc, es : Goto(s, [c EXCEPT !.lb = lb, !.pc = pc, !.eips = es])
        BY <2>2 DEF FoundLoadBalancer
      <3>2. d = [c EXCEPT !.lb = lb, !.pc = pc, !.eips = es] /\ c \in Call
        BY <3>1, GotoDoes, CallTyped
      <3>3. QED
        BY <2>1, <3>2 DEF Call
    <2>3. CASE MissingLoadBalancer(s)
      <3>1. \/ Goto(s, [c EXCEPT !.lb = s, !.pc = "createLB"])
            \/ Jump(s, "return")
        BY <1>2, <2>3 DEF MissingLoadBalancer
      <3>2. CASE Goto(s, [c EXCEPT !.lb = s, !.pc = "createLB"])
        <4>1. d = [c EXCEPT !.lb = s, !.pc = "createLB"] /\ c \in Call
          BY <3>2, GotoDoes, CallTyped
        <4>2. QED
          BY <2>1, <4>1 DEF Call
      <3>3. QED
        BY <2>1, <3>1, <3>2, JumpDoes DEF SamePlace
    <2>4. CASE ListListeners(s)
      BY <2>4, ListDoes, NextPortGoes DEF BeforePorts
    <2>5. QED
      BY <1>5, <2>1, <2>2, <2>3, <2>4, FindDoes DEF SamePlace
  <1>6. QED
    BY <1>2, <1>3, <1>4, <1>5 DEF CallStepOf

\* No other call takes the load balancer of a Service away.
LEMMA OthersBalancer ==
  ASSUME TypeOK, KeptInv, NEW s \in Services, CallStepOf(s), NEW t \in Services, t # s,
         NEW sp \in Specs[t], targetLB(t, sp) \in balancers
  PROVE  targetLB(t, sp) \in balancers'
  <1>1. targetLB(t, sp) # s
    BY SpecTyped, NamesAssumption DEF targetLB, ServiceObject
  <1>2. QED
    BY <1>1, BalancersBy

\* Every step preserves CourseInv.
LEMMA CourseStep ==
  TypeOK /\ StageInv /\ KeptInv /\ PlaceInv /\ CourseInv /\ [Next]_vars => CourseInv'
  <1> SUFFICES ASSUME TypeOK, StageInv, KeptInv, PlaceInv, CourseInv, [Next]_vars
               PROVE  CourseInv'
    OBVIOUS
  <1>1. ASSUME NEW s \in Services, \A t \in Services : t # s => call'[t] = call[t], CallStepOf(s)
        PROVE  CourseInv'
    <2> DEFINE c == call[s]
               d == call'[s]
    <2>1. d.pc \in BeforePorts => d.i = 0
      BY <1>1, CountsFromStart
    <2>2. ASSUME d.pc = "return", d.op # "delete"
          PROVE  d.lb = targetLB(s, d.svc) /\ d.lb \in balancers'
      <3>1. /\ SameService(c, d) /\ d.lb = c.lb /\ c.pc \in PortPCs \cup {"list", "sweep"}
            /\ UNCHANGED balancers
        <4>1. CASE Reconcile(s) /\ Goto(s, NextPort(s, c))
          BY <1>1, <4>1, ReconcileDoes, NextPortDoes
        <4>2. CASE ListListeners(s)
          BY <1>1, <4>2, ListDoes DEF ListListeners, cloud
        <4>3. CASE SweepDone(s)
          <5>1. Teardown(s) /\ c.pc = "sweep" /\ UNCHANGED balancers
            BY <4>3 DEF SweepDone, At, Teardown, cloud
          <5>2. QED
            BY <1>1, <5>1, TeardownDoes
        <4>4. QED
          BY <1>1, <2>2, <4>1, <4>2, <4>3, AtReturn
      <3>2. c.lb = targetLB(s, c.svc) /\ c.lb \in balancers
        BY <3>1, CallTyped DEF CallOK, BalancerPCs, PlaceInv, Placed, OnBalancer
      <3>3. QED
        BY <3>1, <3>2 DEF SameService
    <2>3. ASSUME NEW t \in Services, t # s, call[t].pc = "return", call[t].op # "delete"
          PROVE  call[t].lb \in balancers'
      <3>1. /\ call[t].lb = targetLB(t, call[t].svc) /\ call[t].lb \in balancers
            /\ call[t].svc \in Specs[t]
        BY <2>3, CallTyped DEF CourseInv, Course, CallOK
      <3>2. QED
        BY <1>1, <2>3, <3>1, OthersBalancer
    <2>4. ASSUME NEW t \in Services, t # s
          PROVE  Course(t, call[t])'
      BY <1>1, <2>3, <2>4 DEF CourseInv, Course, targetLB
    <2>5. Course(s, call[s])'
      BY <2>1, <2>2 DEF Course, targetLB
    <2>6. QED
      BY <2>4, <2>5 DEF CourseInv
  <1>2. CASE Crash
    BY <1>2, CrashDoes, IdleIs DEF CourseInv, Course, BeforePorts
  <1>3. CASE Environment \/ UNCHANGED vars
    BY <1>3, EnvironmentDoes DEF vars, cloud, CourseInv, Course, targetLB
  <1>4. QED
    BY <1>1, <1>2, <1>3, StepsAre DEF CallStepOf

\* CourseInv holds throughout.
LEMMA CourseHolds == Spec => []CourseInv
  <1>1. Init => CourseInv
    BY IdleIs DEF Init, CourseInv, Course, BeforePorts
  <1>2. QED
    BY <1>1, CourseStep, TypeCorrect, StageHolds, KeptHolds, PlaceHolds, PTL DEF Spec

-----------------------------------------------------------------------------
(* The removal of stale listeners.                                         *)

\* The end of reconcile has no listener to remove that a port wants, and every
\* other one that is the Service's own; once it is done none of those is left.
Swept(s, c) ==
    c.op = "ensure" =>
      /\ c.pc \in {"sweep"} \cup DropPCs =>
            /\ c.todo \cap wantedKeys(c.svc) = {}
            /\ \A k \in Keys : Owns(s, c.lb, k) => k \in wantedKeys(c.svc) \cup Remaining(c)
      /\ c.pc \in DropPCs => c.key \notin wantedKeys(c.svc)
      /\ c.pc = "return" => \A k \in Keys : Owns(s, c.lb, k) => k \in wantedKeys(c.svc)

SweptInv == \A s \in Services : Swept(s, call[s])

\* What reconcile removes at its end, when the call has read the load balancer's
\* listeners at the start and has since changed those that it wants.
LEMMA SweepStarts ==
  ASSUME TypeOK, OwnershipInv, PlaceInv, SeenInv, NEW s \in Services, CallStepOf(s),
         call'[s].op = "ensure", call'[s].pc = "sweep", ~Teardown(s)
  PROVE  /\ SameService(call[s], call'[s]) /\ call'[s].lb = call[s].lb
         /\ call'[s].todo \cap wantedKeys(call[s].svc) = {}
         /\ \A k \in Keys : (listener'[<<call[s].lb, k>>].up /\ listener'[<<call[s].lb, k>>].owner = s)
                              => k \in wantedKeys(call[s].svc) \cup call'[s].todo
  <1> DEFINE c == call[s]
             d == call'[s]
             lb == c.lb
  <1>1. ~Start(s) /\ ~Return(s) /\ ~Refused(s) /\ ~Abort(s) /\ ~Fail(s)
    BY StartDoes, EndDoes, FailDoes, IdleIs
  <1>2. CASE Find(s)
    <2>1. /\ ListListeners(s) /\ SameService(c, d) /\ d.lb = lb /\ UNCHANGED listener /\ c.op # "delete"
      <3>1. ListListeners(s)
        BY <1>1, <1>2, FindDoes
      <3>2. SameService(c, d) /\ d.lb = lb /\ UNCHANGED listener
        BY <1>2, <3>1, ListDoes, FindDoes
      <3>3. QED
        BY <3>1, <3>2 DEF SameService
    <2>2. PICK e \in Call : SamePlace(c, e) /\ e.existing = Listing(lb) /\ d = NextPort(s, e)
      BY <2>1, ListDoes
    <2>3. d.todo = staleListeners(s, e) /\ e.svc = c.svc
      BY <2>2, NextPortGoes DEF SamePlace, SameService
    <2>4. ASSUME NEW k \in Keys, listener[<<lb, k>>].up, listener[<<lb, k>>].owner = s,
                 k \notin wantedKeys(c.svc)
          PROVE  k \in d.todo
      <3>1. e.existing[k].up /\ e.existing[k].owner = s
        BY <2>2, <2>4 DEF Listing, View
      <3>2. QED
        BY <2>3, <2>4, <3>1 DEF staleListeners, ownsListener
    <2>5. QED
      BY <2>1, <2>3, <2>4 DEF staleListeners
  <1>3. CASE Reconcile(s)
    <2>1. Goto(s, NextPort(s, c)) /\ c.pc \in PortPCs
      BY <1>1, <1>3, ReconcileDoes DEF PortPCs
    <2>2. SameService(c, d) /\ d.lb = lb /\ d.todo = staleListeners(s, c)
      BY <2>1, NextPortDoes
    <2>3. ASSUME NEW k \in Keys, listener'[<<lb, k>>].up, listener'[<<lb, k>>].owner = s,
                 k \notin wantedKeys(c.svc)
          PROVE  k \in d.todo
      <3>1. <<lb, k>> \in Slots /\ c.key \in wantedKeys(c.svc)
        BY <2>1, BalancerOfCall, CallTyped DEF Slots, CallOK, wantedKeys
      <3>2. Owns(s, lb, k)
        BY <2>3, <3>1, NewOwners DEF PlaceInv, Owns, Slot
      <3>3. Wants(s, <<lb, k>>)
        BY <3>1, <3>2, NamesAssumption DEF PlaceInv, Origin, Owns
      <3>4. k \in Fresh(s, c)
        BY <2>1, <2>3, <3>1, <3>3 DEF Fresh, wantedKeys
      <3>5. c.existing[k] = View(listener[<<lb, k>>])
        BY <2>1, <3>4 DEF SeenInv, Seen
      <3>6. c.existing[k].up /\ c.existing[k].owner = s
        BY <3>2, <3>5 DEF Owns, View
      <3>7. QED
        BY <2>2, <2>3, <3>6 DEF staleListeners, ownsListener
    <2>4. QED
      BY <2>2, <2>3 DEF staleListeners
  <1>4. QED
    BY <1>1, <1>2, <1>3 DEF CallStepOf

\* The call after its own step.
LEMMA SweptOwn ==
  ASSUME TypeOK, OwnershipInv, StageInv, PlaceInv, SeenInv, SweptInv, NEW s \in Services, CallStepOf(s)
  PROVE  Swept(s, call[s])'
  <1> DEFINE c == call[s]
             d == call'[s]
             wanted == wantedKeys(c.svc)
             NextOwns(k) == listener'[<<d.lb, k>>].up /\ listener'[<<d.lb, k>>].owner = s
  <1> SUFFICES ASSUME d.op = "ensure", d.pc \in {"sweep", "return"} \cup DropPCs
               PROVE  /\ d.svc = c.svc
                      /\ d.pc \in {"sweep"} \cup DropPCs => d.todo \cap wanted = {}
                      /\ d.pc \in DropPCs => d.key \notin wanted
                      /\ \A k \in Keys : NextOwns(k) =>
                            k \in wanted \cup (IF d.pc = "return" THEN {} ELSE Remaining(d))
    <2>1. d.pc # "return" \/ d.pc \notin {"sweep"} \cup DropPCs
      BY DEF DropPCs
    <2>2. QED
      BY <2>1 DEF Swept, Owns, Remaining, wantedKeys
  <1>1. CASE Teardown(s)
    <2>1. /\ d.svc = c.svc /\ c.op = "ensure" /\ d.lb = c.lb /\ c.lb \in LBs
          /\ c.pc \in {"sweep"} \cup DropPCs /\ Swept(s, c)
      <3>1. SameService(c, d) /\ d.lb = c.lb
        BY <1>1, TeardownDoes
      <3>2. c.op = "ensure" /\ Stage(s, c) /\ Swept(s, c)
        BY <3>1 DEF SameService, StageInv, SweptInv
      <3>3. c.pc \in {"sweep"} \cup DropPCs
        BY <1>1, <3>2, TeardownDoes DEF Stage, DropPCs
      <3>4. QED
        BY <3>1, <3>2, <3>3, BalancerOfCall DEF SameService, BalancerPCs
    <2>2. ASSUME NEW k \in Keys, NextOwns(k) PROVE Owns(s, c.lb, k)
      <3>1. <<c.lb, k>> \in Slots /\ ~CreateListener(s)
        BY <2>1 DEF Slots, CreateListener, At, DropPCs
      <3>2. listener'[<<c.lb, k>>].up /\ listener'[<<c.lb, k>>].owner = s
        BY <2>1, <2>2
      <3>3. QED
        BY <1>1, <3>1, <3>2, NewOwners DEF Owns, PlaceInv, CallStepOf
    <2>3. /\ c.todo \cap wanted = {} /\ (c.pc \in DropPCs => c.key \notin wanted)
          /\ \A k \in Keys : NextOwns(k) => k \in wanted \cup Remaining(c)
      BY <2>1, <2>2 DEF Swept
    <2>4. CASE PickListener(s)
      BY <2>1, <2>3, <2>4, PickDoes DEF Remaining, DropPCs
    <2>5. CASE c.pc \in DropPCs \ {"dropGroup"} /\ d.pc \in DropPCs \ {"dropGroup"}
      <3>1. d.key = c.key /\ d.todo = c.todo
        BY <1>1, <2>5, TeardownDoes DEF DropPCs
      <3>2. QED
        BY <2>1, <2>3, <2>5, <3>1 DEF Remaining, DropPCs
    <2>6. CASE DropListener(s)
      <3>1. c.pc = "dropListener" /\ Jump(s, "dropGroup") /\ SetL(s, NoListener)
        BY <2>6 DEF DropListener, At
      <3>2. d.pc = "dropGroup" /\ d.todo = c.todo /\ d.key = c.key
        BY <3>1, JumpDoes DEF SamePlace, SameSeen
      <3>3. ~listener'[<<c.lb, c.key>>].up
        <4>1. ~NoListener.up
          BY DEF NoListener
        <4>2. QED
          BY <3>1, <4>1, SetLDoes DEF DropPCs, Slot
      <3>4. ~NextOwns(c.key)
        BY <2>1, <3>3
      <3>5. \A k \in Keys : NextOwns(k) => k \in wanted \/ k \in c.todo \/ k = c.key
        BY <2>3 DEF Remaining
      <3>6. QED
        BY <2>1, <2>3, <3>1, <3>2, <3>4, <3>5 DEF Remaining, DropPCs
    <2>7. CASE DropIPGroup(s)
      <3>1. c.pc = "dropGroup" /\ d.pc = "sweep" /\ d.todo = c.todo
        BY <2>7, DropGroupDoes DEF SameSeen
      <3>2. QED
        BY <2>1, <2>3, <3>1 DEF Remaining, DropPCs
    <2>8. CASE SweepDone(s)
      <3>1. c.pc = "sweep" /\ c.todo = {} /\ d.pc = "return"
        BY <1>1, <2>1, <2>8, TeardownDoes DEF SweepDone, At, PickListener, DropPCs
      <3>2. QED
        BY <2>1, <2>3, <3>1 DEF Remaining, DropPCs
    <2>9. QED
      BY <1>1, <2>1, <2>4, <2>5, <2>6, <2>7, <2>8, TeardownDoes DEF DropPCs
  <1>2. CASE ~Teardown(s)
    <2>1. d.pc \notin DropPCs
      <3>1. ~Start(s) /\ ~Return(s) /\ ~Refused(s) /\ ~Abort(s) /\ ~Fail(s)
        BY StartDoes, EndDoes, FailDoes, IdleIs DEF DropPCs
      <3>2. Find(s) => d.pc \notin DropPCs
        BY <3>1, FindDoes, ListDoes, NextPortGoes DEF DropPCs
      <3>3. Reconcile(s) => d.pc \notin DropPCs
        BY <3>1, ReconcileDoes, NextPortDoes DEF DropPCs, PortPCs
      <3>4. QED
        BY <1>2, <3>1, <3>2, <3>3 DEF CallStepOf
    <2>2. d.pc # "return"
      <3>1. ASSUME d.pc = "return" PROVE FALSE
        <4>1. (Reconcile(s) /\ Goto(s, NextPort(s, c))) \/ ListListeners(s)
          BY <1>2, <3>1, AtReturn DEF Teardown
        <4>2. SameService(c, d) /\ c.op # "ensure"
          <5>1. CASE Reconcile(s) /\ Goto(s, NextPort(s, c))
            BY <3>1, <5>1, NextPortDoes
          <5>2. CASE ListListeners(s)
            <6>1. SameService(c, d)
              BY <5>2, ListDoes
            <6>2. c.op = "update"
              BY <1>2, <3>1, <5>2, <6>1, AtReturn DEF Teardown, SameService, ListListeners, Reconcile
            <6>3. QED
              BY <6>1, <6>2
          <5>3. QED
            BY <4>1, <5>1, <5>2
        <4>3. QED
          BY <4>2 DEF SameService
      <3>2. QED
        BY <3>1
    <2>3. d.pc = "sweep"
      BY <2>1, <2>2
    <2>4. /\ SameService(c, d) /\ d.lb = c.lb /\ d.todo \cap wanted = {}
          /\ \A k \in Keys : (listener'[<<c.lb, k>>].up /\ listener'[<<c.lb, k>>].owner = s)
                               => k \in wanted \cup d.todo
      BY <1>2, <2>3, SweepStarts
    <2>5. QED
      BY <2>3, <2>4 DEF SameService, Remaining, DropPCs
  <1>3. QED
    BY <1>1, <1>2

\* Every step preserves SweptInv: nobody else makes a listener in the Service's name.
LEMMA SweptStep ==
  TypeOK /\ OwnershipInv /\ StageInv /\ PlaceInv /\ SeenInv /\ CourseInv /\ SweptInv /\ [Next]_vars
     => SweptInv'
  <1> SUFFICES ASSUME TypeOK, OwnershipInv, StageInv, PlaceInv, SeenInv, CourseInv, SweptInv, [Next]_vars
               PROVE  SweptInv'
    OBVIOUS
  <1>1. ASSUME NEW s \in Services, \A t \in Services : t # s => call'[t] = call[t], CallStepOf(s)
        PROVE  SweptInv'
    <2>1. ASSUME NEW t \in Services, t # s
          PROVE  Swept(t, call[t])'
      <3>1. Swept(t, call[t]) /\ call'[t] = call[t]
        BY <1>1, <2>1 DEF SweptInv
      <3>2. ASSUME call[t].op = "ensure", call[t].pc \in {"sweep", "return"} \cup DropPCs, NEW k \in Keys,
                   listener'[<<call[t].lb, k>>].up, listener'[<<call[t].lb, k>>].owner = t
            PROVE  Owns(t, call[t].lb, k)
        <4>1. call[t].lb \in LBs
          <5>1. CASE call[t].pc = "return"
            BY <3>2, <5>1, CallTyped, SpecTyped DEF CourseInv, Course, CallOK
          <5>2. CASE call[t].pc # "return"
            BY <3>2, <5>2, BalancerOfCall DEF BalancerPCs
          <5>3. QED
            BY <5>1, <5>2
        <4>2. QED
          BY <1>1, <2>1, <3>2, <4>1, NewOwners DEF Owns, PlaceInv, Slots
      <3>3. QED
        BY <3>1, <3>2 DEF Swept, Owns, Remaining, wantedKeys
    <2>2. Swept(s, call[s])'
      BY <1>1, SweptOwn
    <2>3. QED
      BY <2>1, <2>2 DEF SweptInv
  <1>2. CASE Crash
    BY <1>2, CrashDoes, IdleIs DEF SweptInv, Swept
  <1>3. CASE Environment \/ UNCHANGED vars
    <2>1. listener' = listener /\ call' = call
      BY <1>3, EnvironmentDoes DEF vars, cloud
    <2>2. QED
      BY <2>1 DEF SweptInv, Swept, Owns, Remaining, wantedKeys
  <1>4. QED
    BY <1>1, <1>2, <1>3, StepsAre DEF CallStepOf

\* SweptInv holds throughout.
LEMMA SweptHolds ==
  ASSUME PortsDisjoint
  PROVE  Spec => []SweptInv
  <1>1. Init => SweptInv
    BY IdleIs DEF Init, SweptInv, Swept
  <1>2. QED
    BY <1>1, SweptStep, TypeCorrect, OwnershipHolds, StageHolds, PlaceHolds, SeenHolds, CourseHolds,
       PTL DEF Spec

-----------------------------------------------------------------------------
(* All ports that are done.                                                *)

\* The slot of the j-th port of the call's Service object.
PlaceOf(c, j) == <<c.lb, portKey(c.svc.ports[j])>>

ThroughPCs == PortPCs \cup {"sweep", "return"} \cup DropPCs

\* What was done to the ports before the one at hand is still so.
Through(c, ls, gs) ==
    c.op \in {"ensure", "update"} /\ c.pc \in ThroughPCs =>
       \A j \in DOMAIN c.svc.ports :
          (c.pc \in PortPCs => j < c.i) => Done(c, c.svc.ports[j], ls[PlaceOf(c, j)], gs)

ThroughInv == \A s \in Services : Through(call[s], listener, group)

\* What was done at a listener that the step leaves alone.
LEMMA DoneStays ==
  ASSUME TypeOK, PlaceInv, GroupInv, NEW s \in Services, CallStepOf(s),
         NEW sl \in Slots, listener'[sl] = listener[sl], UpdateIPGroup(s) => sl # Slot(s),
         NEW c, NEW d, SameService(c, d), NEW p, Done(c, p, listener[sl], group)
  PROVE  Done(d, p, listener'[sl], group')
  <1>1. ASSUME Guarded(c.svc, listener[sl], group)
        PROVE  Guarded(c.svc, listener'[sl], group')
    BY <1>1, GuardedStays
  <1>2. QED
    BY <1>1 DEF Done, Kept, SameService, WithPool

\* Where a call that is through with a port has it.
LEMMA ThroughAt ==
  ASSUME TypeOK, CourseInv, NEW s \in Services, call[s].op \in {"ensure", "update"},
         call[s].pc \in ThroughPCs, NEW j \in DOMAIN call[s].svc.ports
  PROVE  PlaceOf(call[s], j) \in Slots /\ Wants(s, PlaceOf(call[s], j))
  <1>1. call[s].svc \in Specs[s] /\ call[s].lb = targetLB(s, call[s].svc)
    <2>1. CASE call[s].pc = "return"
      BY <2>1, CallTyped DEF CourseInv, Course, CallOK
    <2>2. CASE call[s].pc # "return"
      BY <2>2, CallTyped DEF CallOK, ThroughPCs, BalancerPCs, PortPCs, DropPCs
    <2>3. QED
      BY <2>1, <2>2
  <1>2. QED
    BY <1>1, SpecTyped DEF PlaceOf, Slots, Wants, wantedKeys

\* The call after its own step.
LEMMA ThroughOwn ==
  ASSUME PortsDisjoint, PortsDistinct,
         TypeOK, StageInv, PlaceInv, GroupInv, HaveInv, GuardInv, WorkInv, CourseInv, SweptInv,
         ThroughInv, NEW s \in Services, CallStepOf(s)
  PROVE  Through(call'[s], listener', group')
  <1> DEFINE c == call[s]
             d == call'[s]
  <1> SUFFICES ASSUME d.op \in {"ensure", "update"}, d.pc \in ThroughPCs,
                      NEW j \in DOMAIN d.svc.ports, d.pc \in PortPCs => j < d.i
               PROVE  Done(d, d.svc.ports[j], listener'[PlaceOf(d, j)], group')
    BY DEF Through
  <1>1. Stage(s, c) /\ d # Idle /\ Through(c, listener, group) /\ c \in Call /\ CallOK(s, c)
    BY IdleIs, CallTyped DEF StageInv, ThroughInv
  <1>2. ~Start(s) /\ ~Return(s) /\ ~Refused(s) /\ ~Abort(s) /\ ~Fail(s)
    BY <1>1, StartDoes, EndDoes, FailDoes DEF ThroughPCs, PortPCs, DropPCs
  <1>3. ASSUME SameService(c, d), d.lb = c.lb, c.op \in {"ensure", "update"}, c.pc \in ThroughPCs,
               c.pc \in PortPCs => j < c.i,
               PlaceOf(c, j) # Slot(s) \/ (UNCHANGED listener /\ ~UpdateIPGroup(s))
        PROVE  Done(d, d.svc.ports[j], listener'[PlaceOf(d, j)], group')
    <2>1. PlaceOf(d, j) = PlaceOf(c, j) /\ d.svc = c.svc /\ j \in DOMAIN c.svc.ports
      BY <1>3 DEF PlaceOf, SameService
    <2>2. PlaceOf(c, j) \in Slots /\ Done(c, c.svc.ports[j], listener[PlaceOf(c, j)], group)
      BY <1>1, <1>3, <2>1, ThroughAt DEF Through
    <2>3. listener'[PlaceOf(c, j)] = listener[PlaceOf(c, j)] /\ (UpdateIPGroup(s) => PlaceOf(c, j) # Slot(s))
      <3>1. CASE PlaceOf(c, j) # Slot(s)
        BY <2>2, <3>1, OthersKeptBy
      <3>2. CASE UNCHANGED listener /\ ~UpdateIPGroup(s)
        BY <3>2
      <3>3. QED
        BY <1>3, <3>1, <3>2
    <2>4. Done(d, c.svc.ports[j], listener'[PlaceOf(c, j)], group')
      BY <1>3, <2>2, <2>3, DoneStays
    <2>5. QED
      BY <2>1, <2>4
  <1>4. CASE Find(s)
    <2>1. ListListeners(s) /\ c.op # "delete"
      <3>1. ListListeners(s)
        BY <1>1, <1>2, <1>4, FindDoes DEF SamePlace, SameService, Stage, ThroughPCs, PortPCs, DropPCs
      <3>2. QED
        BY <3>1, ListDoes DEF SameService
    <2>2. PICK e \in Call : SamePlace(c, e) /\ d = NextPort(s, e)
      BY <2>1, ListDoes
    <2>3. e.i = 0 /\ e.svc = c.svc /\ c.svc.ports \in Seq(ServicePort)
      <3>1. c.pc = "list" /\ c.i = 0
        BY <2>1, ListDoes DEF CourseInv, Course, BeforePorts
      <3>2. c.svc \in ServiceObject
        BY <1>1, <3>1, SpecTyped DEF CallOK
      <3>3. c.svc.ports \in Seq(ServicePort)
        BY <3>2 DEF ServiceObject
      <3>4. QED
        BY <2>2, <3>1, <3>3 DEF SamePlace, SameService
    <2>4. d.svc = c.svc /\ j \in 1 .. Len(c.svc.ports)
      <3>1. d.svc = c.svc
        <4>1. SameService(e, d)
          BY <2>2, NextPortKeeps
        <4>2. QED
          BY <2>3, <4>1 DEF SameService
      <3>2. j \in DOMAIN c.svc.ports
        BY <3>1
      <3>3. QED
        BY <2>3, <3>1, <3>2
    <2>5. More(e) /\ d.i = 1 /\ d.pc \in PortPCs
      BY <2>2, <2>3, <2>4, NextPortIs, NextPortGoes DEF More, PortPCs
    <2>6. QED
      BY <2>4, <2>5
  <1>5. CASE Reconcile(s)
    <2>1. CASE Goto(s, NextPort(s, c))
      <3>1. /\ c.pc \in PortPCs /\ SameService(c, d) /\ d.lb = c.lb /\ c.op \in {"ensure", "update"}
            /\ c.i \in DOMAIN c.svc.ports /\ c.key = portKey(c.svc.ports[c.i])
            /\ Done(c, Port(s), listener'[Slot(s)], group') /\ c.svc.ports \in Seq(ServicePort)
        <4>1. c.pc \in PortPCs
          BY <1>5, ReconcileDoes
        <4>2. SameService(c, d) /\ d.lb = c.lb
          BY <2>1, NextPortDoes
        <4>3. c.op \in {"ensure", "update"} /\ Done(c, Port(s), listener'[Slot(s)], group')
          BY <1>5, <2>1, PortDone
        <4>4. c.svc \in ServiceObject
          BY <1>1, <4>1, SpecTyped DEF CallOK, PortPCs
        <4>5. QED
          BY <1>1, <4>1, <4>2, <4>3, <4>4 DEF CallOK, ServiceObject
      <3>2. j \in 1 .. Len(c.svc.ports) /\ c.i \in 1 .. Len(c.svc.ports)
        BY <3>1 DEF SameService
      <3>3. j <= c.i
        <4>1. CASE More(c)
          <5>1. d.pc \in PortPCs /\ d.i = c.i + 1
            BY <2>1, <4>1, NextPortDoes DEF PortPCs
          <5>2. QED
            BY <3>2, <5>1
        <4>2. CASE ~More(c)
          BY <3>2, <4>2 DEF More
        <4>3. QED
          BY <4>1, <4>2
      <3>4. CASE j = c.i
        <4>1. PlaceOf(d, j) = Slot(s) /\ d.svc.ports[j] = Port(s)
          BY <3>1, <3>4 DEF PlaceOf, Slot, Port, Svc, SameService
        <4>2. QED
          BY <3>1, <4>1 DEF Done, SameService
      <3>5. CASE j # c.i
        <4>1. portKey(c.svc.ports[j]) # c.key
          BY <1>1, <3>1, <3>2, <3>5, SpecTyped DEF PortsDistinct, CallOK, PortPCs
        <4>2. j < c.i /\ PlaceOf(c, j) # Slot(s)
          BY <3>2, <3>3, <3>5, <4>1 DEF PlaceOf, Slot
        <4>3. c.pc \in ThroughPCs
          BY <3>1 DEF ThroughPCs
        <4>4. QED
          BY <1>3, <3>1, <4>2, <4>3
      <3>6. QED
        BY <3>4, <3>5
    <2>2. CASE ~Goto(s, NextPort(s, c))
      <3>1. /\ c.pc \in PortPCs /\ SamePlace(c, d) /\ d.pc \in PortPCs
        BY <1>2, <1>5, <2>2, ReconcileDoes
      <3>2. /\ SameService(c, d) /\ d.lb = c.lb /\ d.i = c.i /\ d.svc = c.svc
            /\ c.op \in {"ensure", "update"}
        BY <3>1 DEF SamePlace, SameService
      <3>3. c.key = portKey(c.svc.ports[c.i]) /\ c.i \in DOMAIN c.svc.ports /\ c.svc \in AllSpecs
        BY <1>1, <3>1, SpecTyped DEF CallOK, PortPCs
      <3>4. j < c.i /\ c.i \in Nat /\ c.svc.ports \in Seq(ServicePort)
        BY <1>1, <3>1, <3>2, SpecTyped, CallFields DEF CallOK, ServiceObject, PortPCs
      <3>5. j # c.i
        BY <3>2, <3>4
      <3>6. PlaceOf(c, j) # Slot(s)
        BY <3>2, <3>3, <3>5 DEF PortsDistinct, PlaceOf, Slot
      <3>7. c.pc \in ThroughPCs
        BY <3>1 DEF ThroughPCs
      <3>8. QED
        BY <1>3, <3>2, <3>4, <3>6, <3>7
    <2>3. QED
      BY <2>1, <2>2
  <1>6. CASE Teardown(s)
    <2>1. SameService(c, d) /\ d.lb = c.lb /\ c.op = d.op
      BY <1>6, TeardownDoes DEF SameService
    <2>2. c.pc \in {"sweep"} \cup DropPCs /\ c.op = "ensure" /\ Swept(s, c)
      <3>1. c.pc \in {"sweep"} \cup DropPCs /\ Swept(s, c)
        BY <1>1, <1>6, <2>1, TeardownDoes DEF Stage, DropPCs, SweptInv
      <3>2. QED
        BY <1>1, <2>1, <3>1 DEF Stage
    <2>3. PlaceOf(c, j) # Slot(s) \/ UNCHANGED listener
      <3>1. CASE c.pc \in DropPCs
        <4>1. c.key \notin wantedKeys(c.svc)
          BY <2>2, <3>1 DEF Swept
        <4>2. portKey(c.svc.ports[j]) \in wantedKeys(c.svc)
          BY <2>1 DEF wantedKeys, SameService
        <4>3. QED
          BY <4>1, <4>2 DEF PlaceOf, Slot
      <3>2. CASE c.pc = "sweep"
        BY <1>6, <3>2, ListenerBy DEF PortPCs, DropPCs
      <3>3. QED
        BY <2>2, <3>1, <3>2
    <2>4. ~UpdateIPGroup(s) /\ c.pc \notin PortPCs
      BY <2>2 DEF UpdateIPGroup, At, DropPCs, PortPCs
    <2>5. QED
      BY <1>3, <2>1, <2>2, <2>3, <2>4 DEF ThroughPCs
  <1>7. QED
    BY <1>2, <1>4, <1>5, <1>6 DEF CallStepOf

\* Every step preserves ThroughInv.
LEMMA ThroughStep ==
  ASSUME PortsDisjoint, PortsDistinct
  PROVE  TypeOK /\ StageInv /\ PlaceInv /\ GroupInv /\ HaveInv /\ GuardInv /\ WorkInv /\ CourseInv
            /\ SweptInv /\ ThroughInv /\ [Next]_vars => ThroughInv'
  <1> SUFFICES ASSUME TypeOK, StageInv, PlaceInv, GroupInv, HaveInv, GuardInv, WorkInv, CourseInv,
                      SweptInv, ThroughInv, [Next]_vars
               PROVE  ThroughInv'
    OBVIOUS
  <1>1. ASSUME NEW s \in Services, \A t \in Services : t # s => call'[t] = call[t], CallStepOf(s)
        PROVE  ThroughInv'
    <2>1. Through(call'[s], listener', group')
      BY <1>1, ThroughOwn
    <2>2. ASSUME NEW t \in Services, t # s
          PROVE  Through(call[t], listener', group')
      <3>1. SUFFICES ASSUME call[t].op \in {"ensure", "update"}, call[t].pc \in ThroughPCs,
                            NEW j \in DOMAIN call[t].svc.ports, call[t].pc \in PortPCs => j < call[t].i
                     PROVE  Done(call[t], call[t].svc.ports[j], listener'[PlaceOf(call[t], j)], group')
        BY DEF Through
      <3>2. Through(call[t], listener, group)
        BY DEF ThroughInv
      <3>3. /\ PlaceOf(call[t], j) \in Slots /\ Wants(t, PlaceOf(call[t], j))
            /\ Done(call[t], call[t].svc.ports[j], listener[PlaceOf(call[t], j)], group)
        BY <3>1, <3>2, ThroughAt DEF Through
      <3>4. Alone(t, PlaceOf(call[t], j))
        BY <3>3 DEF Alone, PortsDisjoint
      <3>5. /\ listener'[PlaceOf(call[t], j)] = listener[PlaceOf(call[t], j)]
            /\ UpdateIPGroup(s) => PlaceOf(call[t], j) # Slot(s)
        BY <1>1, <2>2, <3>3, <3>4, StaysGuarded
      <3>6. SameService(call[t], call[t])
        BY DEF SameService
      <3>7. QED
        BY <1>1, <3>3, <3>5, <3>6, DoneStays
    <2>3. ASSUME NEW t \in Services PROVE Through(call'[t], listener', group')
      BY <1>1, <2>1, <2>2
    <2>4. QED
      BY <2>3 DEF ThroughInv, Through, Done, Kept, Guarded, WithPool, PlaceOf
  <1>2. CASE Crash
    BY <1>2, CrashDoes, IdleIs DEF ThroughInv, Through
  <1>3. CASE Environment \/ UNCHANGED vars
    <2>1. listener' = listener /\ group' = group /\ call' = call
      BY <1>3, EnvironmentDoes DEF vars, cloud
    <2>2. ASSUME NEW t \in Services PROVE Through(call'[t], listener', group')
      BY <2>1 DEF ThroughInv
    <2>3. QED
      BY <2>2 DEF ThroughInv, Through, Done, Kept, Guarded, WithPool, PlaceOf
  <1>4. QED
    BY <1>1, <1>2, <1>3, StepsAre DEF CallStepOf

\* ThroughInv holds throughout.
LEMMA ThroughHolds ==
  ASSUME PortsDisjoint, PortsDistinct, RangesDistinct
  PROVE  Spec => []ThroughInv
  <1>1. ASSUME Init PROVE ThroughInv
    BY <1>1, IdleIs DEF Init, ThroughInv, Through
  <1>2. ASSUME TypeOK, StageInv, PlaceInv, GroupInv, HaveInv, GuardInv, WorkInv, CourseInv,
               SweptInv, ThroughInv, [Next]_vars
        PROVE  ThroughInv'
    BY <1>2, ThroughStep
  <1>3. QED
    BY <1>1, <1>2, TypeCorrect, StageHolds, PlaceHolds, GroupHolds, HaveHolds, GuardHolds, WorkHolds,
       CourseHolds, SweptHolds, PTL DEF Spec

-----------------------------------------------------------------------------
(* A settled Service.                                                      *)

\* The load balancers bs, listeners ls and groups gs are as the object svc of s
\* wants them, but for the members of its pools.
Realised(s, svc, bs, ls, gs) ==
    LET lb == targetLB(s, svc)
    IN  /\ lb \in bs
        /\ \A i \in DOMAIN svc.ports :
              Kept(svc, svc.ports[i], ls[<<lb, portKey(svc.ports[i])>>], gs)
        /\ \A k \in Keys : ls[<<lb, k>>].up /\ ls[<<lb, k>>].owner = s => k \in wantedKeys(svc)

\* The members are those that the nodes ns give.
Balanced(s, svc, ns, ls) ==
    \A i \in DOMAIN svc.ports :
       ls[<<targetLB(s, svc), portKey(svc.ports[i])>>].members = wantedMembers(ns, svc.ports[i].nodePort)

\* What can be said of a Service whose object, or whose nodes, no sync is due for:
\* the sync that runs was given them, or the one that ended last saw to them.
Sync(s) ==
    phase[s] = "live" =>
      /\ call[s].op \in {"ensure", "update"} /\ "service" \notin queue[s] => call[s].svc = spec[s]
      /\ call[s].op \in {"ensure", "update"} /\ "nodes" \notin queue[s] => call[s].nodes = nodes
      /\ call[s].op \in {"none", "update"} /\ "service" \notin queue[s] =>
            Realised(s, spec[s], balancers, listener, group)
      /\ call[s].op = "none" /\ queue[s] = {} => Balanced(s, spec[s], nodes, listener)

SyncInv == \A s \in Services : Sync(s)

\* A place where a version of a Service wants a listener.
LEMMA WantedAt ==
  ASSUME NEW s \in Services, NEW sp \in Specs[s], NEW i \in DOMAIN sp.ports
  PROVE  LET sl == <<targetLB(s, sp), portKey(sp.ports[i])>> IN sl \in Slots /\ Wants(s, sl)
  BY SpecTyped DEF Slots, Wants, wantedKeys

\* What a Service has is left alone by the calls of others.
LEMMA OthersLeave ==
  ASSUME PortsDisjoint, TypeOK, KeptInv, PlaceInv, GroupInv, NEW s \in Services, CallStepOf(s),
         NEW t \in Services, t # s, NEW sp \in Specs[t]
  PROVE  /\ Realised(t, sp, balancers, listener, group) => Realised(t, sp, balancers', listener', group')
         /\ \A ns : Balanced(t, sp, ns, listener) => Balanced(t, sp, ns, listener')
  <1> DEFINE lb == targetLB(t, sp)
             sl(i) == <<lb, portKey(sp.ports[i])>>
  <1>1. ASSUME NEW i \in DOMAIN sp.ports
        PROVE  /\ listener'[sl(i)] = listener[sl(i)]
               /\ Guarded(sp, listener[sl(i)], group) => Guarded(sp, listener'[sl(i)], group')
    <2>1. sl(i) \in Slots /\ Alone(t, sl(i))
      BY WantedAt DEF Alone, PortsDisjoint
    <2>2. QED
      BY <2>1, StaysGuarded
  <1>2. ASSUME NEW i \in DOMAIN sp.ports, Kept(sp, sp.ports[i], listener[sl(i)], group)
        PROVE  Kept(sp, sp.ports[i], listener'[sl(i)], group')
    BY <1>1, <1>2 DEF Kept
  <1>3. lb \in balancers => lb \in balancers'
    BY OthersBalancer
  <1>4. ASSUME NEW k \in Keys, listener'[<<lb, k>>].up, listener'[<<lb, k>>].owner = t
        PROVE  listener[<<lb, k>>].up /\ listener[<<lb, k>>].owner = t
    <2>1. <<lb, k>> \in Slots
      BY SpecTyped DEF Slots
    <2>2. QED
      BY <1>4, <2>1, NewOwners DEF PlaceInv
  <1>5. ASSUME Realised(t, sp, balancers, listener, group)
        PROVE  Realised(t, sp, balancers', listener', group')
    <2>1. lb \in balancers' /\ \A i \in DOMAIN sp.ports : Kept(sp, sp.ports[i], listener'[sl(i)], group')
      BY <1>2, <1>3, <1>5 DEF Realised
    <2>2. \A k \in Keys : listener'[<<lb, k>>].up /\ listener'[<<lb, k>>].owner = t => k \in wantedKeys(sp)
      BY <1>4, <1>5 DEF Realised
    <2>3. QED
      BY <2>1, <2>2 DEF Realised
  <1>6. ASSUME NEW ns, Balanced(t, sp, ns, listener)
        PROVE  Balanced(t, sp, ns, listener')
    BY <1>1, <1>6 DEF Balanced
  <1>7. QED
    BY <1>5, <1>6

\* A node sync changes nothing but members.
LEMMA OnlyMembersBy ==
  ASSUME TypeOK, StageInv, KeptInv, PlaceInv, NEW s \in Services, CallStepOf(s), call[s].op = "update"
  PROVE  /\ UNCHANGED <<balancers, group>> /\ ~CreateListener(s)
         /\ \A sl \in Slots : listener'[sl] = listener[sl] \/ OnlyMembers(listener[sl], listener'[sl])
  <1>1. call[s].pc \notin EnsurePCs \cup DropPCs \cup {"createLB", "sweep", "deleteLB"}
    BY DEF StageInv, Stage
  <1>2. UNCHANGED balancers
    BY <1>1, BalancersBy DEF CreateLoadBalancer, DeleteLoadBalancer, At
  <1>3. UNCHANGED group
    BY <1>1, GroupsBy DEF UpdateIPGroup, CreateIPGroup, DropIPGroup, At, EnsurePCs, PortPCs, DropPCs
  <1>4. ~CreateListener(s)
    BY <1>1 DEF CreateListener, At, EnsurePCs, PortPCs
  <1>5. ASSUME NEW l, NEW m, Sets(s, l, m) PROVE OnlyMembers(l, m)
    <2>1. /\ ~DropListener(s) /\ ~UpdateIdleTimeout(s) /\ ~DisableIPGroup(s) /\ ~AttachIPGroup(s)
          /\ ~UpdatePool(s) /\ ~CreatePool(s) /\ ~DropPool(s)
      BY <1>1 DEF DropListener, UpdateIdleTimeout, DisableIPGroup, AttachIPGroup, UpdatePool, CreatePool,
                  DropPool, At, EnsurePCs, PortPCs, DropPCs
    <2>2. ~DeleteMonitor(s) /\ ~DropMonitor(s) /\ ~CreateMonitor(s) /\ ~UpdateMonitor(s)
      BY <1>1 DEF DeleteMonitor, DropMonitor, CreateMonitor, UpdateMonitor, At, EnsurePCs, PortPCs, DropPCs
    <2>3. QED
      BY <1>4, <1>5, <2>1, <2>2 DEF Sets
  <1>6. QED
    BY <1>2, <1>3, <1>4, <1>5, OthersKeptBy

\* So what a Service has, but for the members, stays during a node sync.
LEMMA UpdateKeeps ==
  ASSUME TypeOK, StageInv, KeptInv, PlaceInv, NEW s \in Services, CallStepOf(s), call[s].op = "update",
         NEW sp \in Specs[s], Realised(s, sp, balancers, listener, group)
  PROVE  Realised(s, sp, balancers', listener', group')
  <1> DEFINE lb == targetLB(s, sp)
             sl(i) == <<lb, portKey(sp.ports[i])>>
  <1>1. UNCHANGED <<balancers, group>> /\ ~CreateListener(s)
    BY OnlyMembersBy
  <1>2. ASSUME NEW i \in DOMAIN sp.ports
        PROVE  Kept(sp, sp.ports[i], listener'[sl(i)], group)
    <2>1. sl(i) \in Slots /\ Kept(sp, sp.ports[i], listener[sl(i)], group)
      BY WantedAt DEF Realised
    <2>2. CASE listener'[sl(i)] = listener[sl(i)]
      BY <2>1, <2>2
    <2>3. CASE OnlyMembers(listener[sl(i)], listener'[sl(i)])
      BY <2>1, <2>3 DEF OnlyMembers, SameIdle, SameGuard, SamePool, SameMonitor, Kept, WithPool, Guarded
    <2>4. QED
      BY <2>1, <2>2, <2>3, OnlyMembersBy
  <1>3. ASSUME NEW k \in Keys, listener'[<<lb, k>>].up, listener'[<<lb, k>>].owner = s
        PROVE  k \in wantedKeys(sp)
    <2>1. <<lb, k>> \in Slots
      BY SpecTyped DEF Slots
    <2>2. listener[<<lb, k>>].up /\ listener[<<lb, k>>].owner = s
      BY <1>1, <1>3, <2>1, NewOwners DEF PlaceInv
    <2>3. QED
      BY <2>2 DEF Realised
  <1>4. lb \in balancers'
    BY <1>1 DEF Realised
  <1>5. QED
    BY <1>1, <1>2, <1>3, <1>4 DEF Realised

\* What a sync that returns without an error has seen to.
LEMMA ReturnLeaves ==
  ASSUME TypeOK, CourseInv, SweptInv, ThroughInv, NEW s \in Services, call[s].pc = "return",
         call[s].op \in {"ensure", "update"}
  PROVE  /\ call[s].op = "ensure" => Realised(s, call[s].svc, balancers, listener, group)
         /\ Balanced(s, call[s].svc, call[s].nodes, listener)
  <1> DEFINE c == call[s]
             lb == targetLB(s, c.svc)
  <1>1. c.lb = lb /\ lb \in balancers
    BY DEF CourseInv, Course
  <1>2. ASSUME NEW i \in DOMAIN c.svc.ports
        PROVE  Done(c, c.svc.ports[i], listener[<<lb, portKey(c.svc.ports[i])>>], group)
    BY <1>1 DEF ThroughInv, Through, ThroughPCs, PortPCs, PlaceOf
  <1>3. c.op = "ensure" => \A k \in Keys : Owns(s, lb, k) => k \in wantedKeys(c.svc)
    BY <1>1 DEF SweptInv, Swept
  <1>4. QED
    BY <1>1, <1>2, <1>3 DEF Realised, Balanced, Done, Owns

\* A sync that fails is due again.
LEMMA FailQueues ==
  ASSUME TypeOK, NEW s \in Services, Fail(s)
  PROVE  IF call[s].op = "update" THEN queue'[s] = queue[s] \cup {"nodes"} ELSE "service" \in queue'[s]
  BY DEF Fail, TypeOK

\* What a step of a call does to its sync.
LEMMA SyncsBy ==
  ASSUME TypeOK, StageInv, NEW s \in Services, CallStepOf(s)
  PROVE  LET c == call[s] d == call'[s] IN
         /\ UNCHANGED <<spec, nodes>>
         /\ \A t \in Services : t # s => phase'[t] = phase[t] /\ queue'[t] = queue[t]
         /\ \/ Start(s)
            \/ c.op # "none" /\ d.op = c.op /\ d.svc = c.svc /\ d.nodes = c.nodes /\ UNCHANGED <<phase, queue>>
            \/ Fail(s) /\ d.op = "none" /\ UNCHANGED phase
            \/ /\ Return(s) /\ c.pc = "return" /\ c.op # "delete" /\ d.op = "none"
               /\ UNCHANGED <<phase, queue>>
            \/ phase'[s] = "gone"
  <1> DEFINE c == call[s]
             d == call'[s]
  <1>1. Stage(s, c)
    BY DEF StageInv
  <1>2. CASE Start(s)
    BY <1>2, StartDoes DEF cluster
  <1>3. ASSUME Fail(s), UNCHANGED cluster
        PROVE  /\ d.op = "none" /\ UNCHANGED <<spec, nodes, phase>>
               /\ \A t \in Services : t # s => queue'[t] = queue[t]
    BY <1>3, FailDoes, IdleIs DEF cluster
  <1>4. ASSUME SameService(c, d), UNCHANGED queue, UNCHANGED cluster, c.pc # "idle"
        PROVE  /\ c.op # "none" /\ d.op = c.op /\ d.svc = c.svc /\ d.nodes = c.nodes
               /\ UNCHANGED <<spec, nodes, phase, queue>>
    BY <1>1, <1>4 DEF SameService, Stage, cluster
  <1>5. CASE Find(s)
    <2>1. UNCHANGED cluster /\ c.pc # "idle" /\ (Fail(s) \/ (SameService(c, d) /\ UNCHANGED queue))
      BY <1>5, FindDoes DEF SamePlace
    <2>2. QED
      BY <1>3, <1>4, <2>1
  <1>6. CASE Reconcile(s)
    <2>1. UNCHANGED cluster /\ c.pc # "idle" /\ (Fail(s) \/ (SameService(c, d) /\ UNCHANGED queue))
      BY <1>6, ReconcileDoes, NextPortDoes DEF SamePlace, PortPCs
    <2>2. QED
      BY <1>3, <1>4, <2>1
  <1>7. CASE Teardown(s)
    <2>1. UNCHANGED cluster /\ UNCHANGED queue /\ c.pc # "idle" /\ SameService(c, d)
      BY <1>7, TeardownDoes DEF DropPCs
    <2>2. QED
      BY <1>4, <2>1
  <1>8. CASE Return(s) \/ Refused(s) \/ Abort(s)
    <2>1. /\ UNCHANGED <<spec, nodes>> /\ d.op = "none"
          /\ \A t \in Services : t # s => queue'[t] = queue[t]
          /\ \/ Fail(s) /\ UNCHANGED phase
             \/ Return(s) /\ c.pc = "return" /\ c.op # "delete" /\ UNCHANGED <<phase, queue>>
             \/ phase' = [phase EXCEPT ![s] = "gone"]
      BY <1>8, EndDoes, IdleIs
    <2>2. CASE phase' = [phase EXCEPT ![s] = "gone"]
      BY <2>1, <2>2 DEF TypeOK
    <2>3. QED
      BY <2>1, <2>2
  <1>9. QED
    BY <1>2, <1>5, <1>6, <1>7, <1>8 DEF CallStepOf

\* Sync of t after a step, in terms of what the step leaves.
LEMMA SyncThen ==
  ASSUME NEW t \in Services,
         phase'[t] = "live" =>
           /\ call'[t].op \in {"ensure", "update"} /\ "service" \notin queue'[t] => call'[t].svc = spec'[t]
           /\ call'[t].op \in {"ensure", "update"} /\ "nodes" \notin queue'[t] => call'[t].nodes = nodes'
           /\ call'[t].op \in {"none", "update"} /\ "service" \notin queue'[t] =>
                 Realised(t, spec'[t], balancers', listener', group')
           /\ call'[t].op = "none" /\ queue'[t] = {} => Balanced(t, spec'[t], nodes', listener')
  PROVE  Sync(t)'
  BY DEF Sync, Realised, Balanced, Kept, Guarded, WithPool, targetLB, wantedKeys

\* The call after its own step.
LEMMA SyncOwn ==
  ASSUME TypeOK, StageInv, KeptInv, PlaceInv, CourseInv, SweptInv, ThroughInv, SyncInv,
         NEW s \in Services, CallStepOf(s)
  PROVE  Sync(s)'
  <1> DEFINE c == call[s]
             d == call'[s]
  <1> SUFFICES ASSUME phase'[s] = "live"
               PROVE  /\ d.op \in {"ensure", "update"} /\ "service" \notin queue'[s] => d.svc = spec[s]
                      /\ d.op \in {"ensure", "update"} /\ "nodes" \notin queue'[s] => d.nodes = nodes
                      /\ d.op \in {"none", "update"} /\ "service" \notin queue'[s] =>
                            Realised(s, spec[s], balancers', listener', group')
                      /\ d.op = "none" /\ queue'[s] = {} => Balanced(s, spec[s], nodes, listener')
    <2>1. spec' = spec /\ nodes' = nodes
      BY SyncsBy
    <2>2. QED
      BY <2>1, SyncThen
  <1>1. spec[s] \in Specs[s] /\ Sync(s) /\ Stage(s, c)
    BY DEF TypeOK, SyncInv, StageInv
  <1>2. CASE Start(s)
    <2>1. /\ phase[s] = "live" /\ c.op = "none" /\ UNCHANGED cloud
          /\ d.op \in {"ensure", "update"} /\ d.svc = spec[s] /\ d.nodes = nodes
          /\ d.op = "update" => queue'[s] = queue[s] \ {"nodes"}
      BY <1>1, <1>2, StartDoes DEF Stage, cluster
    <2>2. d.op = "update" /\ "service" \notin queue'[s] => Realised(s, spec[s], balancers', listener', group')
      BY <1>1, <2>1 DEF Sync, cloud
    <2>3. QED
      BY <2>1, <2>2
  <1>3. CASE c.op # "none" /\ d.op = c.op /\ d.svc = c.svc /\ d.nodes = c.nodes /\ UNCHANGED <<phase, queue>>
    <2>1. c.op = "update" /\ "service" \notin queue[s] => Realised(s, spec[s], balancers', listener', group')
      BY <1>1, <1>3, UpdateKeeps DEF Sync
    <2>2. QED
      BY <1>1, <1>3, <2>1 DEF Sync
  <1>4. CASE Fail(s) /\ d.op = "none" /\ UNCHANGED phase
    <2>1. queue'[s] # {}
      BY <1>4, FailDoes
    <2>2. CASE c.op = "update"
      <3>1. queue'[s] = queue[s] \cup {"nodes"}
        BY <1>4, <2>2, FailQueues
      <3>2. "service" \notin queue'[s] => Realised(s, spec[s], balancers', listener', group')
        BY <1>1, <1>4, <2>2, <3>1, UpdateKeeps DEF Sync
      <3>3. QED
        BY <1>4, <2>1, <3>2
    <2>3. CASE c.op # "update"
      BY <1>4, <2>1, <2>3, FailQueues
    <2>4. QED
      BY <2>2, <2>3
  <1>5. CASE /\ Return(s) /\ c.pc = "return" /\ c.op # "delete" /\ d.op = "none"
             /\ UNCHANGED <<phase, queue>>
    <2>1. c.op \in {"ensure", "update"} /\ UNCHANGED cloud
      BY <1>1, <1>5, CallTyped, CallFields DEF Stage, Return
    <2>2. /\ c.op = "ensure" => Realised(s, c.svc, balancers, listener, group)
          /\ Balanced(s, c.svc, c.nodes, listener)
      BY <1>5, <2>1, ReturnLeaves
    <2>3. "service" \notin queue[s] => Realised(s, spec[s], balancers, listener, group)
      BY <1>1, <1>5, <2>1, <2>2 DEF Sync
    <2>4. queue[s] = {} => Balanced(s, spec[s], nodes, listener)
      BY <1>1, <1>5, <2>1, <2>2 DEF Sync
    <2>5. QED
      BY <1>5, <2>1, <2>3, <2>4 DEF cloud
  <1>6. QED
    BY <1>2, <1>3, <1>4, <1>5, SyncsBy

\* What users and the cluster change, a sync is due for.
LEMMA ChangesAreDue ==
  ASSUME TypeOK, Environment, NEW s \in Services, phase'[s] = "live"
  PROVE  \/ phase[s] = "live" /\ spec'[s] = spec[s] /\ nodes' = nodes /\ queue'[s] = queue[s]
         \/ phase[s] = "live" /\ nodes' = nodes /\ queue'[s] = queue[s] \cup {"service"}
         \/ phase[s] = "live" /\ spec'[s] = spec[s] /\ queue'[s] = queue[s] \cup {"nodes"}
         \/ phase[s] = "gone" /\ queue'[s] = {"service"}
  <1>1. CASE NodesChange
    BY <1>1 DEF NodesChange, TypeOK
  <1>2. ASSUME NEW t \in Services, EditService(t)
        PROVE  \/ phase[s] = "live" /\ spec'[s] = spec[s] /\ nodes' = nodes /\ queue'[s] = queue[s]
               \/ phase[s] = "live" /\ nodes' = nodes /\ queue'[s] = queue[s] \cup {"service"}
    <2>1. PICK sp : spec' = [spec EXCEPT ![t] = sp]
      BY <1>2 DEF EditService
    <2>2. /\ queue' = [queue EXCEPT ![t] = @ \cup {"service"}] /\ phase' = phase /\ nodes' = nodes
      BY <1>2 DEF EditService
    <2>3. QED
      BY <2>1, <2>2 DEF TypeOK
  <1>3. ASSUME NEW t \in Services, DeleteService(t)
        PROVE  phase[s] = "live" /\ spec'[s] = spec[s] /\ nodes' = nodes /\ queue'[s] = queue[s]
    BY <1>3 DEF DeleteService, TypeOK
  <1>4. ASSUME NEW t \in Services, RecreateService(t)
        PROVE  \/ phase[s] = "live" /\ spec'[s] = spec[s] /\ nodes' = nodes /\ queue'[s] = queue[s]
               \/ phase[s] = "gone" /\ queue'[s] = {"service"}
    <2>1. PICK sp : spec' = [spec EXCEPT ![t] = sp]
      BY <1>4 DEF RecreateService
    <2>2. /\ queue' = [queue EXCEPT ![t] = {"service"}] /\ phase' = [phase EXCEPT ![t] = "live"]
          /\ nodes' = nodes /\ phase[t] = "gone"
      BY <1>4 DEF RecreateService
    <2>3. QED
      BY <2>1, <2>2 DEF TypeOK
  <1>5. QED
    BY <1>1, <1>2, <1>3, <1>4 DEF Environment

\* Sync of t after a step of users or of the cluster.
LEMMA SyncEdited ==
  ASSUME TypeOK, StageInv, SyncInv, Environment, NEW t \in Services
  PROVE  Sync(t)'
  <1>1. /\ call' = call /\ balancers' = balancers /\ listener' = listener /\ group' = group
        /\ Sync(t) /\ Stage(t, call[t])
    BY EnvironmentDoes DEF cloud, SyncInv, StageInv
  <1>2. SUFFICES ASSUME phase'[t] = "live"
        PROVE  /\ call[t].op \in {"ensure", "update"} /\ "service" \notin queue'[t] => call[t].svc = spec'[t]
               /\ call[t].op \in {"ensure", "update"} /\ "nodes" \notin queue'[t] => call[t].nodes = nodes'
               /\ call[t].op \in {"none", "update"} /\ "service" \notin queue'[t] =>
                     Realised(t, spec'[t], balancers, listener, group)
               /\ call[t].op = "none" /\ queue'[t] = {} => Balanced(t, spec'[t], nodes', listener)
    BY <1>1, SyncThen
  <1>3. CASE phase[t] = "live" /\ spec'[t] = spec[t] /\ nodes' = nodes /\ queue'[t] = queue[t]
    BY <1>1, <1>3 DEF Sync
  <1>4. CASE phase[t] = "live" /\ nodes' = nodes /\ queue'[t] = queue[t] \cup {"service"}
    BY <1>1, <1>4 DEF Sync
  <1>5. CASE phase[t] = "live" /\ spec'[t] = spec[t] /\ queue'[t] = queue[t] \cup {"nodes"}
    BY <1>1, <1>5 DEF Sync
  <1>6. CASE phase[t] = "gone" /\ queue'[t] = {"service"}
    BY <1>1, <1>6 DEF Stage
  <1>7. QED
    BY <1>2, <1>3, <1>4, <1>5, <1>6, ChangesAreDue

\* Every step preserves SyncInv.
LEMMA SyncStep ==
  ASSUME PortsDisjoint
  PROVE  TypeOK /\ StageInv /\ KeptInv /\ PlaceInv /\ GroupInv /\ CourseInv /\ SweptInv /\ ThroughInv
            /\ SyncInv /\ [Next]_vars => SyncInv'
  <1> SUFFICES ASSUME TypeOK, StageInv, KeptInv, PlaceInv, GroupInv, CourseInv, SweptInv, ThroughInv,
                      SyncInv, [Next]_vars
               PROVE  SyncInv'
    OBVIOUS
  <1>1. ASSUME NEW s \in Services, \A t \in Services : t # s => call'[t] = call[t], CallStepOf(s)
        PROVE  SyncInv'
    <2>1. Sync(s)'
      BY <1>1, SyncOwn
    <2>2. ASSUME NEW t \in Services, t # s
          PROVE  Sync(t)'
      <3>1. /\ call'[t] = call[t] /\ spec' = spec /\ nodes' = nodes
            /\ phase'[t] = phase[t] /\ queue'[t] = queue[t]
        BY <1>1, <2>2, SyncsBy
      <3>2. spec[t] \in Specs[t] /\ Sync(t)
        BY DEF TypeOK, SyncInv
      <3>3. /\ Realised(t, spec[t], balancers, listener, group)
                  => Realised(t, spec[t], balancers', listener', group')
            /\ \A ns : Balanced(t, spec[t], ns, listener) => Balanced(t, spec[t], ns, listener')
        BY <1>1, <2>2, <3>2, OthersLeave
      <3>4. phase[t] = "live" =>
              /\ call[t].op \in {"ensure", "update"} /\ "service" \notin queue[t] => call[t].svc = spec[t]
              /\ call[t].op \in {"ensure", "update"} /\ "nodes" \notin queue[t] => call[t].nodes = nodes
              /\ call[t].op \in {"none", "update"} /\ "service" \notin queue[t] =>
                    Realised(t, spec[t], balancers', listener', group')
              /\ call[t].op = "none" /\ queue[t] = {} => Balanced(t, spec[t], nodes, listener')
        BY <3>2, <3>3 DEF Sync
      <3>5. QED
        BY <3>1, <3>4, SyncThen
    <2>3. QED
      BY <2>1, <2>2 DEF SyncInv
  <1>2. CASE Crash
    <2>1. ASSUME NEW t \in Services PROVE Sync(t)'
      <3>1. call'[t].op = "none" /\ phase' = phase
        BY <1>2, CrashDoes, IdleIs DEF cluster
      <3>2. phase[t] = "live" => queue'[t] = {"service", "nodes"}
        BY <1>2 DEF Crash
      <3>3. QED
        BY <3>1, <3>2, SyncThen
    <2>2. QED
      BY <2>1 DEF SyncInv
  <1>3. CASE Environment
    BY <1>3, SyncEdited DEF SyncInv
  <1>4. CASE UNCHANGED vars
    <2>1. /\ call' = call /\ balancers' = balancers /\ listener' = listener /\ group' = group
          /\ phase' = phase /\ queue' = queue /\ spec' = spec /\ nodes' = nodes
      BY <1>4 DEF vars, cloud, cluster
    <2>2. ASSUME NEW t \in Services PROVE Sync(t)'
      <3>1. Sync(t)
        BY DEF SyncInv
      <3>2. QED
        BY <2>1, <3>1, SyncThen DEF Sync
    <2>3. QED
      BY <2>2 DEF SyncInv
  <1>5. QED
    BY <1>1, <1>2, <1>3, <1>4, StepsAre DEF CallStepOf

\* SyncInv holds throughout.
LEMMA SyncHolds ==
  ASSUME PortsDisjoint, PortsDistinct, RangesDistinct
  PROVE  Spec => []SyncInv
  <1>1. ASSUME Init PROVE SyncInv
    <2>1. ASSUME NEW s \in Services PROVE queue[s] = {"service"} /\ call[s].op = "none"
      BY <1>1, IdleIs DEF Init
    <2>2. QED
      BY <2>1 DEF SyncInv, Sync
  <1>2. ASSUME TypeOK, StageInv, KeptInv, PlaceInv, GroupInv, CourseInv, SweptInv, ThroughInv, SyncInv,
               [Next]_vars
        PROVE  SyncInv'
    BY <1>2, SyncStep
  <1>3. QED
    BY <1>1, <1>2, TypeCorrect, StageHolds, KeptHolds, PlaceHolds, GroupHolds, CourseHolds, SweptHolds,
       ThroughHolds, PTL DEF Spec

\* A settled Service is realised and balanced: this is what Served asks of it.
LEMMA SyncServes ==
  ASSUME TypeOK, NothingLeft, StageInv, SyncInv
  PROVE  SettledMeansServed
  <1> SUFFICES ASSUME NEW s \in Services, Settled(s) PROVE Served(s)
    BY DEF SettledMeansServed
  <1> DEFINE svc == spec[s]
             lb == targetLB(s, svc)
             l(i) == listener[<<lb, portKey(svc.ports[i])>>]
  <1>1. call[s].op = "none" /\ phase[s] = "live" /\ queue[s] = {}
    BY DEF Settled, At, StageInv, Stage
  <1>2. /\ Realised(s, svc, balancers, listener, group)
        /\ Balanced(s, svc, nodes, listener)
    BY <1>1 DEF SyncInv, Sync
  <1>3. /\ lb \in balancers
        /\ \A k \in Keys : listener[<<lb, k>>].up /\ listener[<<lb, k>>].owner = s => k \in wantedKeys(svc)
    BY <1>2 DEF Realised
  <1>4. ASSUME NEW i \in DOMAIN svc.ports
        PROVE  PortServed(svc, svc.ports[i], nodes, l(i)) /\ SourcesServed(s, svc, l(i))
    <2>1. svc \in Specs[s]
      BY DEF TypeOK
    <2>2. <<lb, portKey(svc.ports[i])>> \in Slots
      BY <2>1, WantedAt
    <2>3. Kept(svc, svc.ports[i], l(i), group) /\ l(i).members = wantedMembers(nodes, svc.ports[i].nodePort)
      BY <1>2 DEF Realised, Balanced
    <2>4. l(i).up
      BY <2>2, <2>3, NewIs DEF NothingLeft, Kept, WithPool
    <2>5. PortServed(svc, svc.ports[i], nodes, l(i))
      BY <2>3, <2>4 DEF PortServed, Kept, WithPool
    <2>6. SourcesServed(s, svc, l(i))
      BY <2>3 DEF SourcesServed, Whitelists, Kept, Guarded, Ranged
    <2>7. QED
      BY <2>5, <2>6
  <1>5. QED
    BY <1>3, <1>4 DEF Served

\* When every sync of a live Service has returned without an error, the cloud is
\* what its object and the nodes ask for, if Services that share a load balancer use
\* ports of their own, and no Service lists a port or a source range twice
\* (EnsureLoadBalancer, reconcile, UpdateLoadBalancer).
THEOREM SettledServed ==
  ASSUME PortsDisjoint, PortsDistinct, RangesDistinct
  PROVE  Spec => []SettledMeansServed
  <1>1. TypeOK /\ PlaceInv /\ StageInv /\ SyncInv => SettledMeansServed
    BY SyncServes DEF PlaceInv
  <1>2. QED
    BY <1>1, TypeCorrect, PlaceHolds, StageHolds, SyncHolds, PTL
=============================================================================
