--------------------------- MODULE DeletionProofs ---------------------------
(***************************************************************************)
(* What EnsureLoadBalancerDeleted takes down, and what it may not: the     *)
(* EIPs of a load balancer, the listeners of a Service and the IP address  *)
(* groups of its source ranges, for every value of the constants.  The     *)
(* hypotheses of the theorems are stated in LoadBalancerProperties, with   *)
(* the reason why the code needs them.                                     *)
(***************************************************************************)
EXTENDS CallProofs

-----------------------------------------------------------------------------
(* EIPs.                                                                   *)

\* What a step of a call does to EIPs: the load balancer it creates gets those of
\* the Service object and perhaps a new one, the load balancer it deletes loses its
\* own, and a deletion releases the ones it noted.
LEMMA EipsBy ==
  ASSUME TypeOK, KeptInv, NEW s \in Services, CallStepOf(s)
  PROVE  \/ UNCHANGED eip /\ ~CreateLoadBalancer(s) /\ ~DeleteLoadBalancer(s)
            /\ \A e : ~ReleaseEip(s, e)
         \/ /\ CreateLoadBalancer(s)
            /\ \A e \in EipIds :
                  \/ eip'[e] = eip[e]
                  \/ /\ eip'[e].up /\ eip'[e].lb = s /\ (eip[e].lb = None \/ ~eip[e].up)
                     /\ IF e \in UserEips THEN e \in call[s].svc.eipIDs
                                          ELSE e \in AutoEips /\ e[1] = s
         \/ /\ DeleteLoadBalancer(s)
            /\ \A e \in EipIds : /\ eip'[e].up = eip[e].up
                                 /\ eip'[e].lb = IF eip[e].lb = s THEN None ELSE eip[e].lb
         \/ \E e \in call[s].eips :
               /\ ReleaseEip(s, e) /\ e \in EipIds /\ eip[e].lb = None
               /\ ~eip'[e].up /\ eip'[e].lb = None
               /\ \A x \in EipIds : x # e => eip'[x] = eip[x]
  <1>1. CASE CreateLoadBalancer(s)
    <2> DEFINE free == FreeAutoEips(s)
               new == CHOOSE e \in free : TRUE
               bind == Svc(s).eipIDs \cup (IF Svc(s).eipBandwidth THEN {new} ELSE {})
    <2>1. Svc(s).eipBandwidth => new \in free
      BY <1>1 DEF CreateLoadBalancer
    <2>2. Svc(s).eipIDs \subseteq UserEips
      <3>1. Svc(s) \in ServiceObject
        BY <1>1, CallTyped, SpecTyped DEF CreateLoadBalancer, At, Svc, CallOK
      <3>2. QED
        BY <3>1 DEF ServiceObject
    <2>3. \A e \in bind : IF e \in UserEips THEN e \in Svc(s).eipIDs /\ eip[e].lb = None
                                            ELSE e \in AutoEips /\ e[1] = s /\ ~eip[e].up
      <3>1. \A e \in Svc(s).eipIDs : e \in UserEips /\ eip[e].lb = None
        BY <1>1, <2>2 DEF CreateLoadBalancer
      <3>2. \A e \in free : e \in AutoEips /\ e[1] = s /\ ~eip[e].up /\ e \notin UserEips
        BY NamesAssumption DEF FreeAutoEips
      <3> HIDE DEF free, new
      <3>3. QED
        BY <2>1, <3>1, <3>2
    <2>4. eip' = [e \in EipIds |-> IF e \in bind THEN [up |-> TRUE, lb |-> s] ELSE eip[e]]
      BY <1>1 DEF CreateLoadBalancer
    <2> HIDE DEF bind
    <2>5. \A e \in EipIds : IF e \in bind THEN eip'[e].up /\ eip'[e].lb = s ELSE eip'[e] = eip[e]
      BY <2>4
    <2>6. QED
      BY <1>1, <2>3, <2>5 DEF Svc
  <1>2. CASE DeleteLoadBalancer(s)
    <2>1. call[s].lb = s
      BY <1>2, BalancersBy DEF CreateLoadBalancer, DeleteLoadBalancer, At
    <2>2. eip' = [e \in EipIds |-> IF eip[e].lb = s THEN [eip[e] EXCEPT !.lb = None] ELSE eip[e]]
      BY <1>2, <2>1 DEF DeleteLoadBalancer
    <2>3. \A x \in Eip : [x EXCEPT !.lb = None].up = x.up /\ [x EXCEPT !.lb = None].lb = None
      BY DEF Eip
    <2>4. \A e \in EipIds : eip[e] \in Eip
      BY DEF TypeOK
    <2>5. QED
      BY <1>2, <2>2, <2>3, <2>4
  <1>3. ASSUME NEW e \in call[s].eips, ReleaseEip(s, e)
        PROVE  /\ e \in EipIds /\ eip[e].lb = None /\ ~eip'[e].up /\ eip'[e].lb = None
               /\ \A x \in EipIds : x # e => eip'[x] = eip[x]
    <2>1. e \in EipIds /\ eip \in [EipIds -> Eip]
      BY CallTyped DEF Call, TypeOK
    <2>2. PICK x \in Eip : x = eip[e]
      BY <2>1
    <2>3. eip' = [eip EXCEPT ![e] = [x EXCEPT !.up = FALSE]] /\ x.lb = None
      BY <1>3, <2>1, <2>2 DEF ReleaseEip
    <2>4. [x EXCEPT !.up = FALSE].up = FALSE /\ [x EXCEPT !.up = FALSE].lb = x.lb
      BY DEF Eip
    <2>5. QED
      BY <2>1, <2>2, <2>3, <2>4
  <1>4. CASE /\ ~CreateLoadBalancer(s) /\ ~DeleteLoadBalancer(s)
             /\ \A e \in call[s].eips : ~ReleaseEip(s, e)
    <2>1. UNCHANGED eip
      <3>1. CASE Start(s) \/ Return(s) \/ Refused(s) \/ Abort(s)
        BY <3>1, StartDoes, EndDoes DEF cloud
      <3>2. CASE Find(s)
        BY <1>4, <3>2 DEF Find, GetLoadBalancer, FoundLoadBalancer, MissingLoadBalancer,
                          waitForActive, ListListeners, cloud
      <3>3. CASE Reconcile(s)
        BY <3>3, ReconcileDoes
      <3>4. CASE Teardown(s)
        BY <1>4, <3>4 DEF Teardown, PickListener, DropFindPool, DropMonitor, DropListMembers,
                          DropMember, DropPool, DropListener, DropIPGroup, SweepDone, cloud
      <3>5. QED
        BY <3>1, <3>2, <3>3, <3>4 DEF CallStepOf
    <2>2. \A e : ReleaseEip(s, e) => e \in call[s].eips
      BY DEF ReleaseEip
    <2>3. QED
      BY <1>4, <2>1, <2>2
  <1>5. QED
    BY <1>1, <1>2, <1>3, <1>4

\* A version of s with a load balancer of its own brings the user's EIP e.
Brings(s, e) == \E sp \in Specs[s] : sp.lbID = None /\ e \in sp.eipIDs

\* An EIP is bound to the load balancer of the Service that brought it or for which
\* it was made; a deletion has noted such EIPs only, and releases them only if its
\* Service object says so.
EipInv ==
    /\ \A e \in EipIds : eip[e].lb # None =>
          IF e \in UserEips THEN eip[e].lb \in Services /\ Brings(eip[e].lb, e)
                            ELSE e \in AutoEips /\ eip[e].lb = e[1]
    /\ \A s \in Services :
          /\ \A e \in call[s].eips : IF e \in UserEips THEN Brings(s, e) ELSE e[1] = s
          /\ At(s, "releaseEips") => call[s].svc.eipBandwidth /\ ~call[s].svc.eipKeep

\* The EIPs a deletion notes: those of a Service's own load balancer.
LEMMA NotedEips ==
  ASSUME TypeOK, EipInv, NEW s \in Services, call[s].pc = "find",
         NEW e \in EipIds, eip[e].lb = targetLB(s, call[s].svc)
  PROVE  IF e \in UserEips THEN Brings(s, e) ELSE e[1] = s
  <1>1. targetLB(s, call[s].svc) = s \/ targetLB(s, call[s].svc) \in SharedLBs
    <2>1. call[s].svc \in ServiceObject
      BY CallTyped, SpecTyped DEF CallOK
    <2>2. QED
      BY <2>1 DEF targetLB, ServiceObject
  <1>2. eip[e].lb # None
    BY <1>1, NamesAssumption
  <1>3. e \in AutoEips => e[1] \in Services
    BY DEF AutoEips
  <1>4. eip[e].lb \in Services
    BY <1>2, <1>3 DEF EipInv
  <1>5. eip[e].lb = s
    BY <1>1, <1>4, NamesAssumption
  <1>6. QED
    BY <1>2, <1>5 DEF EipInv

\* Which EIPs a call has noted, and where it releases them.
LEMMA EipsNoted ==
  ASSUME TypeOK, NEW s \in Services, CallStepOf(s)
  PROVE  LET c == call[s] d == call'[s] IN
         /\ \/ d.eips = c.eips /\ SameService(c, d)
            \/ d.eips = {} /\ d.op # "delete"
            \/ d.eips = {} /\ d.pc = "get"
            \/ /\ FoundLoadBalancer(s) /\ c.pc = "find" /\ d.lb = targetLB(s, c.svc)
               /\ d.eips = {e \in EipIds : eip[e].up /\ eip[e].lb = d.lb}
            \/ \E e \in c.eips : ReleaseEip(s, e) /\ d.eips = c.eips \ {e} /\ SameService(c, d)
         /\ d.pc = "releaseEips" =>
              /\ SameService(c, d)
              /\ \/ DeleteLoadBalancer(s) /\ c.eips # {} /\ releasesEips(c.svc)
                 \/ /\ c.pc = "releaseEips" /\ d.eips # {}
                    /\ \E e \in c.eips : ReleaseEip(s, e) /\ d.eips = c.eips \ {e}
  <1> DEFINE c == call[s]
             d == call'[s]
  <1>1. CASE Start(s) \/ Return(s) \/ Refused(s) \/ Abort(s)
    BY <1>1, StartDoes, EndDoes, IdleIs
  <1>2. CASE Find(s)
    <2>1. CASE ListListeners(s)
      <3>1. c.pc = "list" /\ d.eips = c.eips /\ SameService(c, d)
        BY <2>1, ListDoes
      <3>2. PICK e \in Call : d.pc = "sweep" \/ d = NextPort(s, e)
        BY <2>1, ListDoes, CallTyped
      <3>3. d.pc # "releaseEips"
        BY <3>2, NextPortGoes
      <3>4. QED
        BY <3>1, <3>3
    <2>2. CASE ~ListListeners(s)
      <3>1. d.pc # "releaseEips"
        BY <1>2, <2>2, FindDoes, FailDoes, IdleIs
      <3>2. CASE FoundLoadBalancer(s)
        <4>1. CASE c.op = "delete"
          BY <3>1, <3>2, <4>1, FoundDoes
        <4>2. CASE c.op # "delete"
          BY <3>1, <3>2, <4>2, FoundDoes DEF SameService
        <4>3. QED
          BY <4>1, <4>2
      <3>3. CASE ~FoundLoadBalancer(s)
        BY <1>2, <2>2, <3>1, <3>3, FindDoes, FailDoes, IdleIs DEF SamePlace, SameSeen
      <3>4. QED
        BY <3>2, <3>3
    <2>3. QED
      BY <2>1, <2>2
  <1>3. CASE Reconcile(s)
    <2>1. CASE Fail(s)
      BY <2>1, FailDoes, IdleIs
    <2>2. CASE Goto(s, NextPort(s, c))
      BY <2>2, NextPortDoes
    <2>3. CASE SamePlace(c, d) /\ d.eips = c.eips /\ d.pc \in PortPCs
      BY <2>3 DEF SamePlace, PortPCs
    <2>4. QED
      BY <1>3, <2>1, <2>2, <2>3, ReconcileDoes
  <1>4. CASE Teardown(s)
    BY <1>4, TeardownDoes DEF DropPCs
  <1>5. QED
    BY <1>1, <1>2, <1>3, <1>4 DEF CallStepOf

\* Every step preserves EipInv.
LEMMA EipStep == TypeOK /\ KeptInv /\ PlaceInv /\ EipInv /\ [Next]_vars => EipInv'
  <1> SUFFICES ASSUME TypeOK, KeptInv, PlaceInv, EipInv, [Next]_vars PROVE EipInv'
    OBVIOUS
  <1> USE DEF At
  <1>1. ASSUME NEW s \in Services, \A t \in Services : t # s => call'[t] = call[t], CallStepOf(s)
        PROVE  EipInv'
    <2>1. \A e \in EipIds : eip'[e].lb # None =>
            IF e \in UserEips THEN eip'[e].lb \in Services /\ Brings(eip'[e].lb, e)
                              ELSE e \in AutoEips /\ eip'[e].lb = e[1]
      <3>1. CreateLoadBalancer(s) => \A e \in call[s].svc.eipIDs : Brings(s, e)
        <4>1. CreateLoadBalancer(s) => call[s].svc \in Specs[s] /\ call[s].svc.lbID = None
          BY CallTyped DEF CreateLoadBalancer, CallOK, PlaceInv, Placed
        <4>2. QED
          BY <4>1 DEF Brings
      <3>2. \A e \in EipIds : \/ eip'[e].lb = eip[e].lb \/ eip'[e].lb = None
                              \/ /\ CreateLoadBalancer(s) /\ eip'[e].lb = s
                                 /\ IF e \in UserEips THEN e \in call[s].svc.eipIDs
                                                      ELSE e \in AutoEips /\ e[1] = s
        <4>1. CASE UNCHANGED eip
          BY <4>1
        <4>2. CASE CreateLoadBalancer(s)
          <5>1. ~DeleteLoadBalancer(s) /\ \A e : ~ReleaseEip(s, e)
            BY <4>2 DEF CreateLoadBalancer, DeleteLoadBalancer, ReleaseEip
          <5>2. \A e \in EipIds : \/ eip'[e] = eip[e]
                                  \/ /\ eip'[e].lb = s
                                     /\ IF e \in UserEips THEN e \in call[s].svc.eipIDs
                                                          ELSE e \in AutoEips /\ e[1] = s
            BY <1>1, <4>2, <5>1, EipsBy
          <5>3. QED
            BY <4>2, <5>2
        <4>3. CASE DeleteLoadBalancer(s)
          <5>1. ~CreateLoadBalancer(s) /\ \A e : ~ReleaseEip(s, e)
            BY <4>3 DEF CreateLoadBalancer, DeleteLoadBalancer, ReleaseEip
          <5>2. \A e \in EipIds : eip'[e].lb = eip[e].lb \/ eip'[e].lb = None
            BY <1>1, <4>3, <5>1, EipsBy
          <5>3. QED
            BY <5>2
        <4>4. CASE \E e \in call[s].eips : ReleaseEip(s, e)
          BY <1>1, <4>4, EipsBy DEF CreateLoadBalancer, DeleteLoadBalancer, ReleaseEip
        <4>5. QED
          BY <1>1, <4>1, <4>2, <4>3, <4>4, EipsBy
      <3>3. QED
        BY <3>1, <3>2 DEF EipInv
    <2>2. \A e \in call'[s].eips : IF e \in UserEips THEN Brings(s, e) ELSE e[1] = s
      <3>1. CASE FoundLoadBalancer(s)
        <4>1. call[s].pc = "find" /\ call'[s].eips \subseteq {e \in EipIds : eip[e].lb = targetLB(s, call[s].svc)}
          BY <3>1, FoundDoes
        <4>2. QED
          BY <4>1, NotedEips
      <3>2. CASE ~FoundLoadBalancer(s)
        <4>1. call'[s].eips \subseteq call[s].eips
          BY <1>1, <3>2, EipsNoted
        <4>2. QED
          BY <4>1 DEF EipInv
      <3>3. QED
        BY <3>1, <3>2
    <2>3. call'[s].pc = "releaseEips" => call'[s].svc.eipBandwidth /\ ~call'[s].svc.eipKeep
      BY <1>1, EipsNoted DEF EipInv, SameService, releasesEips
    <2>4. QED
      BY <1>1, <2>1, <2>2, <2>3 DEF EipInv
  <1>2. CASE Crash
    BY <1>2, CrashDoes, IdleIs DEF EipInv, cloud
  <1>3. CASE Environment \/ UNCHANGED vars
    BY <1>3, EnvironmentDoes DEF EipInv, vars, cloud
  <1>4. QED
    BY <1>1, <1>2, <1>3, StepsAre DEF CallStepOf

\* EipInv holds throughout.
LEMMA EipHolds == Spec => []EipInv
  <1>1. Init => EipInv
    BY IdleIs DEF Init, EipInv, At
  <1>2. QED
    BY <1>1, EipStep, TypeCorrect, KeptHolds, PlaceHolds, PTL DEF Spec

\* An EIP disappears only where a call releases it.
LEMMA OnlyReleased ==
  ASSUME TypeOK, KeptInv, [Next]_vars, NEW e \in EipIds, eip[e].up, ~eip'[e].up
  PROVE  \E s \in Services : e \in call[s].eips /\ call[s].pc = "releaseEips"
  <1>1. eip' # eip
    OBVIOUS
  <1>2. PICK s \in Services : CallStepOf(s)
    BY <1>1, StepsAre, CrashDoes, EnvironmentDoes DEF CallStepOf, vars, cloud
  <1>3. PICK x \in call[s].eips : /\ ReleaseEip(s, x)
                                  /\ \A y \in EipIds : y # x => eip'[y] = eip[y]
    <2>1. ~UNCHANGED eip
      BY <1>1
    <2>2. ~CreateLoadBalancer(s)
      BY <1>2, EipsBy DEF CreateLoadBalancer, DeleteLoadBalancer, ReleaseEip, At
    <2>3. ~DeleteLoadBalancer(s)
      BY <1>2, EipsBy DEF CreateLoadBalancer, DeleteLoadBalancer, ReleaseEip, At
    <2>4. QED
      BY <1>2, <2>1, <2>2, <2>3, EipsBy
  <1>4. QED
    BY <1>3 DEF ReleaseEip, At

\* The EIPs of users stay, if no Service that brings some asks for release.
THEOREM UserEipsNeverReleased ==
  ASSUME EipsApart
  PROVE  Spec => []UserEipsKept
  <1>1. ASSUME Init, NEW e \in UserEips PROVE eip[e].up
    <2>1. eip[e] = [up |-> e \in UserEips, lb |-> None]
      BY <1>1 DEF Init, EipIds
    <2>2. eip[e].up = (e \in UserEips)
      BY <2>1
    <2>3. QED
      BY <2>2
  <1>2. ASSUME TypeOK, KeptInv, EipInv, UserEipsKept, [Next]_vars PROVE UserEipsKept'
    <2>1. SUFFICES ASSUME NEW e \in UserEips, ~eip'[e].up PROVE FALSE
      BY DEF UserEipsKept
    <2>2. e \in EipIds /\ eip[e].up
      BY <1>2 DEF EipIds, UserEipsKept
    <2>3. PICK s \in Services : e \in call[s].eips /\ call[s].pc = "releaseEips"
      BY <1>2, <2>1, <2>2, OnlyReleased
    <2>4. /\ Brings(s, e)
          /\ call[s].svc \in Specs[s] /\ call[s].svc.eipBandwidth /\ ~call[s].svc.eipKeep
      BY <1>2, <2>3, CallTyped DEF EipInv, At, CallOK
    <2>5. QED
      BY <2>4 DEF EipsApart, Brings
  <1>3. Init => UserEipsKept
    BY <1>1 DEF UserEipsKept
  <1>4. QED
    BY <1>2, <1>3, TypeCorrect, KeptHolds, EipHolds, PTL DEF Spec

\* A call of one Service leaves the EIPs made for another one alone.
LEMMA OthersEips ==
  ASSUME TypeOK, KeptInv, EipInv, NEW s \in Services, CallStepOf(s),
         NEW e \in AutoEips, e[1] # s
  PROVE  eip'[e].up = eip[e].up /\ eip'[e].lb = eip[e].lb
  <1>1. e \in EipIds /\ e \notin UserEips
    BY NamesAssumption DEF EipIds
  <1>2. eip[e].lb # s
    BY <1>1, NamesAssumption DEF EipInv
  <1>3. e \notin call[s].eips
    BY <1>1 DEF EipInv
  <1>4. CASE UNCHANGED eip
    BY <1>4
  <1>5. CASE CreateLoadBalancer(s)
    <2>1. ~DeleteLoadBalancer(s) /\ \A x : ~ReleaseEip(s, x)
      BY <1>5 DEF CreateLoadBalancer, DeleteLoadBalancer, ReleaseEip, At
    <2>2. eip'[e] = eip[e]
      BY <1>1, <1>5, <2>1, EipsBy
    <2>3. QED
      BY <2>2
  <1>6. CASE DeleteLoadBalancer(s)
    <2>1. ~CreateLoadBalancer(s) /\ \A x : ~ReleaseEip(s, x)
      BY <1>6 DEF CreateLoadBalancer, DeleteLoadBalancer, ReleaseEip, At
    <2>2. QED
      BY <1>1, <1>2, <1>6, <2>1, EipsBy
  <1>7. CASE ~UNCHANGED eip /\ ~CreateLoadBalancer(s) /\ ~DeleteLoadBalancer(s)
    <2>1. \E x \in call[s].eips : \A y \in EipIds : y # x => eip'[y] = eip[y]
      BY <1>7, EipsBy
    <2>2. QED
      BY <1>1, <1>3, <2>1
  <1>8. QED
    BY <1>4, <1>5, <1>6, <1>7

\* While a deletion releases EIPs its load balancer is gone, and the automatic ones
\* it has noted are bound to nothing.
ReleaseInv ==
    \A s \in Services :
        At(s, "releaseEips") =>
            s \notin balancers /\ \A e \in call[s].eips : e \in AutoEips => eip[e].lb = None

\* The call after its own step.
LEMMA ReleaseOwn ==
  ASSUME TypeOK, KeptInv, EipInv, ReleaseInv, NEW s \in Services, CallStepOf(s),
         call'[s].pc = "releaseEips"
  PROVE  s \notin balancers' /\ \A e \in call'[s].eips : e \in AutoEips => eip'[e].lb = None
  <1>1. CASE DeleteLoadBalancer(s)
    <2>1. /\ call[s].pc = "deleteLB" /\ ~CreateLoadBalancer(s) /\ \A x : ~ReleaseEip(s, x)
          /\ ~FoundLoadBalancer(s)
      BY <1>1 DEF CreateLoadBalancer, DeleteLoadBalancer, ReleaseEip, FoundLoadBalancer, At
    <2>2. s \notin balancers'
      BY <1>1, <2>1, BalancersBy
    <2>3. call'[s].eips \subseteq call[s].eips
      BY <2>1, EipsNoted
    <2>4. ASSUME NEW e \in call[s].eips, e \in AutoEips PROVE eip'[e].lb = None
      <3>1. e \in EipIds /\ e \notin UserEips
        BY <2>4, NamesAssumption DEF EipIds
      <3>2. eip[e].lb = None \/ eip[e].lb = s
        BY <3>1 DEF EipInv
      <3>3. eip'[e].lb = IF eip[e].lb = s THEN None ELSE eip[e].lb
        BY <1>1, <2>1, <3>1, EipsBy
      <3>4. QED
        BY <3>2, <3>3
    <2>5. QED
      BY <2>2, <2>3, <2>4
  <1>2. CASE ~DeleteLoadBalancer(s)
    <2>1. /\ call[s].pc = "releaseEips"
          /\ \E e \in call[s].eips : ReleaseEip(s, e) /\ call'[s].eips = call[s].eips \ {e}
      BY <1>2, EipsNoted
    <2>2. ~CreateLoadBalancer(s)
      BY <2>1 DEF CreateLoadBalancer, At
    <2>3. UNCHANGED balancers
      BY <1>2, <2>2, BalancersBy
    <2>4. PICK e \in call[s].eips : ReleaseEip(s, e) /\ call'[s].eips = call[s].eips \ {e}
      BY <2>1
    <2>5. \A x \in EipIds : x # e => eip'[x] = eip[x]
      BY <2>4 DEF ReleaseEip, TypeOK
    <2>6. ASSUME NEW x \in call[s].eips, x # e, x \in AutoEips PROVE eip'[x].lb = None
      BY <2>1, <2>5, <2>6 DEF ReleaseInv, At, EipIds
    <2>7. QED
      BY <2>1, <2>3, <2>4, <2>6 DEF ReleaseInv, At
  <1>3. QED
    BY <1>1, <1>2

\* Every step preserves ReleaseInv.
LEMMA ReleaseStep == TypeOK /\ KeptInv /\ EipInv /\ ReleaseInv /\ [Next]_vars => ReleaseInv'
  <1> SUFFICES ASSUME TypeOK, KeptInv, EipInv, ReleaseInv, [Next]_vars PROVE ReleaseInv'
    OBVIOUS
  <1>1. ASSUME NEW s \in Services, \A t \in Services : t # s => call'[t] = call[t], CallStepOf(s),
               NEW t \in Services, call'[t].pc = "releaseEips"
        PROVE  t \notin balancers' /\ \A e \in call'[t].eips : e \in AutoEips => eip'[e].lb = None
    <2>1. CASE t = s
      BY <1>1, <2>1, ReleaseOwn
    <2>2. CASE t # s
      <3>1. call'[t] = call[t] /\ call[t].pc = "releaseEips"
        BY <1>1, <2>2
      <3>2. t \notin balancers'
        BY <1>1, <2>2, <3>1, BalancersBy DEF ReleaseInv, At
      <3>3. ASSUME NEW e \in call[t].eips, e \in AutoEips PROVE eip'[e].lb = None
        <4>1. e[1] = t
          BY <3>3, NamesAssumption DEF EipInv
        <4>2. eip'[e].lb = eip[e].lb
          BY <1>1, <2>2, <3>3, <4>1, OthersEips
        <4>3. QED
          BY <3>1, <3>3, <4>2 DEF ReleaseInv, At
      <3>4. QED
        BY <3>1, <3>2, <3>3
    <2>3. QED
      BY <2>1, <2>2
  <1>2. CASE Crash
    BY <1>2, CrashDoes, IdleIs DEF ReleaseInv, At
  <1>3. CASE Environment \/ UNCHANGED vars
    <2>1. UNCHANGED <<balancers, eip, call>>
      BY <1>3, EnvironmentDoes DEF vars, cloud
    <2>2. QED
      BY <2>1 DEF ReleaseInv, At
  <1>4. ASSUME NEW s \in Services, \A t \in Services : t # s => call'[t] = call[t], CallStepOf(s)
        PROVE  ReleaseInv'
    BY <1>1, <1>4 DEF ReleaseInv, At
  <1>5. QED
    BY <1>2, <1>3, <1>4, StepsAre DEF CallStepOf

\* ReleaseInv holds throughout.
LEMMA ReleaseHolds == Spec => []ReleaseInv
  <1>1. Init => ReleaseInv
    BY IdleIs DEF Init, ReleaseInv, At
  <1>2. QED
    BY <1>1, ReleaseStep, TypeCorrect, KeptHolds, EipHolds, PTL DEF Spec

\* An automatic EIP disappears only in a deletion of its own Service, after its load
\* balancer, and if the version that is deleted asks for it: no annotation read at
\* another time, no interrupted call and no other Service releases it.
THEOREM OnlyAskedReleases == Spec => ReleasedOnRequest
  <1> DEFINE Asked(e) == /\ phase[e[1]] = "deleting" /\ call[e[1]].op = "delete"
                         /\ e[1] \notin balancers
                         /\ call[e[1]].svc.eipBandwidth /\ ~call[e[1]].svc.eipKeep
             Rightly == \A e \in AutoEips : eip[e].up /\ ~eip'[e].up => Asked(e)
  <1>1. ASSUME TypeOK, KeptInv, StageInv, EipInv, ReleaseInv, [Next]_vars,
               NEW e \in AutoEips, eip[e].up, ~eip'[e].up
        PROVE  Asked(e)
    <2>1. e \in EipIds /\ e \notin UserEips
      BY NamesAssumption DEF EipIds
    <2>2. PICK s \in Services : e \in call[s].eips /\ call[s].pc = "releaseEips"
      BY <1>1, <2>1, OnlyReleased
    <2>3. e[1] = s /\ call[s].svc.eipBandwidth /\ ~call[s].svc.eipKeep
      BY <1>1, <2>1, <2>2 DEF EipInv, At
    <2>4. phase[s] = "deleting" /\ call[s].op = "delete"
      BY <1>1, <2>2 DEF StageInv, Stage
    <2>5. s \notin balancers
      BY <1>1, <2>2 DEF ReleaseInv, At
    <2>6. QED
      BY <2>3, <2>4, <2>5
  <1>2. TypeOK /\ KeptInv /\ StageInv /\ EipInv /\ ReleaseInv /\ [Next]_vars => Rightly
    BY <1>1
  <1>3. Rightly => [\A e \in AutoEips :
                      (eip[e].up /\ ~eip'[e].up)
                        => LET s == e[1]
                           IN  /\ phase[s] = "deleting" /\ call[s].op = "delete"
                               /\ s \notin balancers
                               /\ call[s].svc.eipBandwidth /\ ~call[s].svc.eipKeep]_vars
    OBVIOUS
  <1> HIDE DEF Rightly
  <1>4. QED
    BY <1>2, <1>3, TypeCorrect, KeptHolds, StageHolds, EipHolds, ReleaseHolds, PTL
       DEF Spec, ReleasedOnRequest

-----------------------------------------------------------------------------
\* Where a deletion has noted the EIPs of its load balancer, which still exists.
NotedPCs == {"list", "sweep", "deleteLB"} \cup DropPCs

\* Every version of s that has a load balancer of its own asks for its EIPs to be
\* released (the condition of GoneLeavesNoEip).
ReleasesAll(s) == \A sp \in Specs[s] : sp.lbID = None => sp.eipBandwidth /\ ~sp.eipKeep

\* An EIP made for s that is not bound is about to be released, and one that is
\* bound to the load balancer under deletion has been noted.
Leakless(s, e) ==
    eip[e].up =>
      /\ eip[e].lb = None => At(s, "releaseEips") /\ e \in call[s].eips
      /\ call[s].op = "delete" /\ call[s].pc \in NotedPCs /\ eip[e].lb = call[s].lb
            => e \in call[s].eips

LeakInv == \A s \in Services : ReleasesAll(s) => \A e \in AutoEips : e[1] = s => Leakless(s, e)

\* None of the EIPs that a deletion releases is in use again, if the user brought
\* none of them.
LEMMA ReleasesUnbound ==
  ASSUME TypeOK, ReleaseInv, NEW s \in Services, call[s].pc = "releaseEips",
         \A e \in call[s].eips : e \notin UserEips
  PROVE  ~refused(s)
  <1>1. \A e \in call[s].eips : e \in AutoEips
    BY CallTyped DEF Call, EipIds
  <1>2. \A e \in call[s].eips : eip[e].lb = None
    BY <1>1 DEF ReleaseInv, At
  <1>3. QED
    BY <1>2 DEF refused, At

\* A call then only leaves the release of EIPs by releasing them or by a fault.
LEMMA AtRelease ==
  ASSUME TypeOK, NEW s \in Services, CallStepOf(s), call[s].pc = "releaseEips", ~refused(s)
  PROVE  (\E e \in call[s].eips : ReleaseEip(s, e)) \/ Abort(s)
  <1>1. ~Start(s) /\ ~Find(s) /\ ~Reconcile(s)
    BY StartDoes, FindDoes, ReconcileDoes DEF PortPCs
  <1>2. ~Return(s) /\ ~Refused(s)
    BY DEF Return, Refused, At
  <1>3. Teardown(s) => \E e \in call[s].eips : ReleaseEip(s, e)
    BY TeardownDoes DEF DropPCs
  <1>4. QED
    BY <1>1, <1>2, <1>3 DEF CallStepOf

\* A deletion notes EIPs when it finds its load balancer, and then keeps its notes.
LEMMA AtNoted ==
  ASSUME TypeOK, StageInv, NEW s \in Services, CallStepOf(s),
         call'[s].op = "delete", call'[s].pc \in NotedPCs
  PROVE  \/ /\ call[s].op = "delete" /\ call[s].pc \in NotedPCs
            /\ call'[s].lb = call[s].lb /\ call'[s].eips = call[s].eips
         \/ /\ FoundLoadBalancer(s)
            /\ call'[s].eips = {e \in EipIds : eip[e].up /\ eip[e].lb = call'[s].lb}
  <1> DEFINE c == call[s]
             d == call'[s]
  <1>1. ~Start(s) /\ ~Return(s) /\ ~Refused(s) /\ ~Abort(s)
    BY StartDoes, EndDoes, IdleIs DEF NotedPCs, DropPCs
  <1>2. Stage(s, c)
    BY DEF StageInv
  <1>3. CASE Find(s)
    <2>1. CASE FoundLoadBalancer(s)
      BY <2>1, FoundDoes DEF SameService
    <2>2. CASE ListListeners(s)
      BY <2>2, ListDoes DEF SameService, NotedPCs
    <2>3. CASE waitForActive(s)
      BY <1>2, <1>3, <2>3, JumpDoes DEF waitForActive, At, SamePlace, SameService, Stage
    <2>4. CASE ~FoundLoadBalancer(s) /\ ~ListListeners(s) /\ ~waitForActive(s)
      BY <1>3, <2>4, FindDoes, FailDoes, IdleIs DEF NotedPCs, DropPCs
    <2>5. QED
      BY <2>1, <2>2, <2>3, <2>4
  <1>4. ~Reconcile(s)
    <2>1. SUFFICES ASSUME Reconcile(s) PROVE FALSE
      OBVIOUS
    <2>2. c.op # "delete"
      BY <1>2, <2>1, ReconcileDoes DEF Stage
    <2>3. ~Fail(s)
      BY FailDoes, IdleIs
    <2>4. ~Goto(s, NextPort(s, c))
      BY <2>2, NextPortDoes DEF SameService
    <2>5. QED
      BY <2>1, <2>2, <2>3, <2>4, ReconcileDoes DEF SamePlace, SameService
  <1>5. CASE Teardown(s)
    BY <1>5, TeardownDoes DEF SameService, NotedPCs, DropPCs
  <1>6. QED
    BY <1>1, <1>3, <1>4, <1>5 DEF CallStepOf

\* A step of the Service's own call that does not fail.
LEMMA LeakOwn ==
  ASSUME TypeOK, KeptInv, StageInv, EipInv, ReleaseInv, NEW s \in Services, CallStepOf(s), ~Abort(s),
         ReleasesAll(s), NEW e \in AutoEips, e[1] = s, Leakless(s, e)
  PROVE  Leakless(s, e)'
  <1> DEFINE c == call[s]
             d == call'[s]
  <1> SUFFICES ASSUME eip'[e].up
               PROVE  /\ eip'[e].lb = None => d.pc = "releaseEips" /\ e \in d.eips
                      /\ d.op = "delete" /\ d.pc \in NotedPCs /\ eip'[e].lb = d.lb => e \in d.eips
    BY DEF Leakless, At
  <1>1. e \in EipIds /\ e \notin UserEips
    BY NamesAssumption DEF EipIds
  <1>2. CASE CreateLoadBalancer(s)
    <2>1. c.pc = "createLB" /\ ~DeleteLoadBalancer(s) /\ \A x : ~ReleaseEip(s, x)
      BY <1>2 DEF CreateLoadBalancer, DeleteLoadBalancer, ReleaseEip, At
    <2>2. eip'[e] = eip[e] \/ eip'[e].lb = s
      BY <1>1, <1>2, <2>1, EipsBy
    <2>3. eip'[e].lb # None
      BY <2>1, <2>2, NamesAssumption DEF Leakless, At
    <2>4. ~(d.op = "delete" /\ d.pc \in NotedPCs)
      BY <2>1, AtNoted DEF NotedPCs, DropPCs, FoundLoadBalancer, At
    <2>5. QED
      BY <2>3, <2>4
  <1>3. CASE DeleteLoadBalancer(s)
    <2>1. c.pc = "deleteLB" /\ ~CreateLoadBalancer(s) /\ \A x : ~ReleaseEip(s, x) /\ Teardown(s)
      BY <1>3 DEF CreateLoadBalancer, DeleteLoadBalancer, ReleaseEip, At, Teardown
    <2>2. eip[e].up
      BY <1>1, <1>3, <2>1, EipsBy
    <2>3. eip[e].lb # None
      BY <2>1, <2>2 DEF Leakless, At
    <2>4. eip[e].lb = s
      BY <1>1, <2>3 DEF EipInv
    <2>5. c.lb = s /\ c.op = "delete"
      BY <1>3, <2>1, BalancersBy DEF StageInv, Stage
    <2>6. e \in c.eips
      BY <2>1, <2>2, <2>4, <2>5 DEF Leakless, NotedPCs
    <2>7. releasesEips(c.svc)
      BY <2>1, CallTyped DEF KeptInv, At, Svc, CallOK, ReleasesAll, releasesEips
    <2>8. d.pc = "releaseEips" /\ d.eips = c.eips
      BY <2>1, <2>6, <2>7, TeardownDoes DEF PickListener, DropIPGroup, SweepDone, At, DropPCs
    <2>9. QED
      BY <2>6, <2>8 DEF NotedPCs, DropPCs
  <1>4. ASSUME NEW x \in c.eips, ReleaseEip(s, x)
        PROVE  /\ eip'[e].lb = None => d.pc = "releaseEips" /\ e \in d.eips
               /\ d.op = "delete" /\ d.pc \in NotedPCs /\ eip'[e].lb = d.lb => e \in d.eips
    <2>1. c.pc = "releaseEips" /\ ~CreateLoadBalancer(s) /\ ~DeleteLoadBalancer(s)
      BY <1>4 DEF CreateLoadBalancer, DeleteLoadBalancer, ReleaseEip, At
    <2>2. d.pc \notin NotedPCs
      BY <1>4, <2>1, ReleaseDoes DEF NotedPCs, DropPCs
    <2>3. \A y \in EipIds : y # x => eip'[y] = eip[y]
      BY <1>4 DEF ReleaseEip, TypeOK
    <2>4. ~eip'[x].up
      <3>1. x \in EipIds /\ eip[x] \in Eip
        BY CallTyped DEF Call, TypeOK
      <3>2. PICK y \in Eip : y = eip[x]
        BY <3>1
      <3>3. eip'[x] = [y EXCEPT !.up = FALSE]
        BY <1>4, <3>1, <3>2 DEF ReleaseEip, TypeOK
      <3>4. [y EXCEPT !.up = FALSE].up = FALSE
        BY DEF Eip
      <3>5. QED
        BY <3>3, <3>4
    <2>5. e # x /\ eip'[e] = eip[e]
      BY <1>1, <2>3, <2>4
    <2>6. eip[e].lb = None => e \in c.eips
      BY <2>5 DEF Leakless
    <2>7. QED
      BY <1>4, <2>2, <2>5, <2>6, ReleaseDoes
  <1>5. CASE /\ ~CreateLoadBalancer(s) /\ ~DeleteLoadBalancer(s)
             /\ \A x \in c.eips : ~ReleaseEip(s, x)
    <2>1. eip' = eip
      BY <1>5, EipsBy
    <2>2. eip[e].lb # None
      <3>1. \A x \in UserEips : ~Brings(s, x)
        BY SpecsAssumption DEF ReleasesAll, Brings, AllSpecs
      <3>2. \A x \in c.eips : x \notin UserEips
        BY <3>1 DEF EipInv
      <3>3. c.pc # "releaseEips"
        BY <1>5, <3>2, ReleasesUnbound, AtRelease
      <3>4. QED
        BY <2>1, <3>3 DEF Leakless, At
    <2>3. ASSUME d.op = "delete", d.pc \in NotedPCs, eip'[e].lb = d.lb PROVE e \in d.eips
      BY <1>1, <2>1, <2>3, AtNoted DEF Leakless
    <2>4. QED
      BY <2>1, <2>2, <2>3
  <1>6. QED
    BY <1>2, <1>3, <1>4, <1>5

\* Without failing API calls every step preserves LeakInv.
LEMMA LeakStep ==
  ASSUME MaxFaults = 0, TypeOK, KeptInv, StageInv, EipInv, ReleaseInv, LeakInv, [Next]_vars
  PROVE  LeakInv'
  <1>1. ~Crash /\ \A s \in Services : ~Abort(s)
    BY DEF TypeOK, Crash, Abort
  <1>2. ASSUME NEW s \in Services, \A t \in Services : t # s => call'[t] = call[t], CallStepOf(s),
               NEW t \in Services, ReleasesAll(t), NEW e \in AutoEips, e[1] = t
        PROVE  Leakless(t, e)'
    <2>1. Leakless(t, e)
      BY <1>2 DEF LeakInv
    <2>2. CASE t = s
      BY <1>1, <1>2, <2>1, <2>2, LeakOwn
    <2>3. CASE t # s
      <3>1. eip'[e].up = eip[e].up /\ eip'[e].lb = eip[e].lb /\ call'[t] = call[t]
        BY <1>2, <2>3, OthersEips
      <3>2. QED
        BY <2>1, <3>1 DEF Leakless, At
    <2>4. QED
      BY <2>2, <2>3
  <1>3. CASE Environment \/ UNCHANGED vars
    <2>1. eip' = eip /\ call' = call
      BY <1>3, EnvironmentDoes DEF vars, cloud
    <2>2. QED
      BY <2>1 DEF LeakInv, Leakless, ReleasesAll, At
  <1>4. ASSUME NEW s \in Services, \A t \in Services : t # s => call'[t] = call[t], CallStepOf(s)
        PROVE  LeakInv'
    BY <1>2, <1>4 DEF LeakInv, ReleasesAll
  <1>5. QED
    BY <1>1, <1>3, <1>4, StepsAre DEF CallStepOf

\* A deleted Service leaves no EIP behind, if no API call fails (the known leak is
\* one that fails, see the run eip_leak): nothing that users do and no interleaving
\* with other Services makes releaseEips miss one.
THEOREM NoEipLeft ==
  ASSUME MaxFaults = 0
  PROVE  Spec => []GoneLeavesNoEip
  <1>1. ASSUME Init PROVE LeakInv
    <2>1. SUFFICES ASSUME NEW e \in AutoEips PROVE ~eip[e].up
      BY DEF LeakInv, Leakless
    <2>2. e \in EipIds /\ e \notin UserEips
      BY NamesAssumption DEF EipIds
    <2>3. eip[e] = [up |-> e \in UserEips, lb |-> None]
      BY <1>1, <2>2 DEF Init
    <2>4. eip[e].up = (e \in UserEips)
      BY <2>3
    <2>5. QED
      BY <2>2, <2>4
  <1>2. ASSUME TypeOK, KeptInv, StageInv, EipInv, ReleaseInv, LeakInv, [Next]_vars PROVE LeakInv'
    BY <1>2, LeakStep
  <1>3. StageInv /\ LeakInv => GoneLeavesNoEip
    BY DEF StageInv, Stage, LeakInv, Leakless, ReleasesAll, GoneLeavesNoEip, At
  <1>4. QED
    BY <1>1, <1>2, <1>3, TypeCorrect, KeptHolds, StageHolds, EipHolds, ReleaseHolds, PTL
       DEF Spec

-----------------------------------------------------------------------------
(* Listeners and load balancers.                                           *)

\* A listener that is there after a step was there, or is the one just created.
LEMMA NewOwners ==
  ASSUME TypeOK, NothingLeft, NEW s \in Services, CallStepOf(s),
         NEW sl \in Slots, listener'[sl].up
  PROVE  \/ listener[sl].up /\ listener'[sl].owner = listener[sl].owner
         \/ CreateListener(s) /\ sl = Slot(s) /\ listener'[sl].owner = s
  <1>1. /\ NewListener(s, call[s].svc.idle).owner = s /\ ~NoListener.up
    BY DEF NewListener, NoListener
  <1>2. CASE UNCHANGED listener
    BY <1>2
  <1>3. CASE Touch(s)
    BY <1>1, <1>3 DEF Touch, L
  <1>4. QED
    BY <1>2, <1>3, TouchedBy

\* The listeners a deletion has still to tear down.
Remaining(c) == c.todo \cup {k \in {c.key} : c.pc \in DropPCs \ {"dropGroup"}}

\* They are all that is left of the Service's listeners on the load balancer.
Tidy(s, c) ==
    c.op = "delete" =>
      /\ c.pc \in {"sweep"} \cup DropPCs =>
            \A k \in Keys : Owns(s, c.lb, k) => k \in Remaining(c)
      /\ c.pc = "deleteLB" => \A k \in Keys : ~Owns(s, c.lb, k)

RemainInv == \A s \in Services : Tidy(s, call[s])

\* The steps of a deletion once it has listed the listeners.
LEMMA AtTeardown ==
  ASSUME TypeOK, StageInv, NEW s \in Services, CallStepOf(s),
         call'[s].op = "delete", call'[s].pc \in {"sweep", "deleteLB"} \cup DropPCs
  PROVE  Teardown(s) \/ (ListListeners(s) /\ call[s].op = "delete")
  <1>1. call[s].pc \in NotedPCs /\ call[s].op = "delete"
    BY AtNoted, FoundDoes DEF NotedPCs, DropPCs
  <1>2. ~Start(s) /\ ~Reconcile(s)
    BY <1>1, StartDoes, ReconcileDoes DEF NotedPCs, DropPCs, PortPCs
  <1>3. ~Return(s) /\ ~Refused(s) /\ ~Abort(s)
    BY EndDoes, IdleIs DEF NotedPCs, DropPCs
  <1>4. Find(s) => ListListeners(s)
    BY <1>1, FindDoes DEF NotedPCs, DropPCs
  <1>5. QED
    BY <1>1, <1>2, <1>3, <1>4 DEF CallStepOf

\* The call after its own step.
LEMMA TidyStep ==
  ASSUME TypeOK, StageInv, OwnershipInv, PlaceInv, RemainInv, NEW s \in Services, CallStepOf(s)
  PROVE  Tidy(s, call[s])'
  <1> DEFINE c == call[s]
             d == call'[s]
             NextOwns(k) == listener'[<<d.lb, k>>].up /\ listener'[<<d.lb, k>>].owner = s
  <1> SUFFICES ASSUME d.op = "delete", d.pc \in {"sweep", "deleteLB"} \cup DropPCs
               PROVE  IF d.pc = "deleteLB" THEN \A k \in Keys : ~NextOwns(k)
                      ELSE \A k \in Keys : NextOwns(k) => k \in Remaining(d)
    BY DEF Tidy, Remaining, Owns, DropPCs
  <1>1. CASE ListListeners(s) /\ c.op = "delete"
    <2>1. /\ c.pc = "list" /\ d.lb = c.lb /\ d.pc = "sweep"
          /\ d.todo = {k \in Keys : deletable(s, c.svc, Listing(c.lb)[k])}
      BY <1>1, ListDoes
    <2>2. ASSUME NEW k \in Keys, Owns(s, c.lb, k) PROVE deletable(s, c.svc, Listing(c.lb)[k])
      <3>1. Listing(c.lb)[k].up /\ Listing(c.lb)[k].owner = s
        BY <2>2 DEF Listing, View, Owns
      <3>2. QED
        BY <3>1 DEF deletable, ownsListener
    <2>3. UNCHANGED listener
      BY <1>1 DEF ListListeners, cloud
    <2>4. QED
      BY <2>1, <2>2, <2>3 DEF Owns, Remaining
  <1>2. CASE Teardown(s)
    <2>1. c.op = "delete" /\ d.lb = c.lb /\ c.lb \in LBs
      <3>1. c.pc \in DropPCs \cup BalancerPCs
        BY <1>2, TeardownDoes DEF BalancerPCs, DropPCs
      <3>2. QED
        BY <1>2, <3>1, TeardownDoes, BalancerOfCall DEF SameService
    <2>2. ASSUME NEW k \in Keys, NextOwns(k) PROVE Owns(s, c.lb, k)
      <3>1. <<c.lb, k>> \in Slots /\ ~CreateListener(s)
        BY <1>2, <2>1, TeardownDoes DEF Slots, CreateListener, At, DropPCs
      <3>2. listener'[<<c.lb, k>>].up /\ listener'[<<c.lb, k>>].owner = s
        BY <2>1, <2>2
      <3>3. QED
        BY <1>2, <3>1, <3>2, NewOwners DEF Owns, PlaceInv, CallStepOf, Step
    <2>3. Tidy(s, c)
      BY DEF RemainInv
    <2>4. CASE PickListener(s)
      BY <2>1, <2>2, <2>3, <2>4, PickDoes DEF Tidy, Remaining, DropPCs
    <2>5. CASE c.pc \in DropPCs \ {"dropGroup"} /\ d.pc \in DropPCs \ {"dropGroup"}
      BY <1>2, <2>1, <2>2, <2>3, <2>5, TeardownDoes DEF Tidy, Remaining, DropPCs
    <2>6. CASE DropListener(s)
      <3>1. c.pc = "dropListener" /\ Jump(s, "dropGroup") /\ SetL(s, NoListener)
        BY <2>6 DEF DropListener, At
      <3>2. d.pc = "dropGroup" /\ d.todo = c.todo /\ d.key = c.key
        BY <3>1, JumpDoes DEF SamePlace, SameSeen
      <3>3. ~listener'[<<c.lb, c.key>>].up
        <4>1. ~NoListener.up
          BY DEF NoListener
        <4>2. QED
          BY <3>1, <4>1, SetLDoes DEF DropPCs, Slot
      <3>4. ~NextOwns(c.key)
        BY <2>1, <3>3
      <3>5. \A k \in Keys : Owns(s, c.lb, k) => k \in c.todo \/ k = c.key
        BY <2>1, <2>3, <3>1 DEF Tidy, Remaining, DropPCs
      <3>6. QED
        BY <2>2, <3>2, <3>4, <3>5 DEF Remaining
    <2>7. CASE DropIPGroup(s)
      <3>1. c.pc = "dropGroup" /\ d.pc = "sweep" /\ d.todo = c.todo
        BY <2>7, DropGroupDoes DEF SameSeen
      <3>2. QED
        BY <2>1, <2>2, <2>3, <3>1 DEF Tidy, Remaining, DropPCs
    <2>8. CASE SweepDone(s)
      <3>1. c.pc = "sweep" /\ c.todo = {} /\ d.pc = "deleteLB"
        BY <1>2, <2>8, TeardownDoes DEF SweepDone, At, PickListener, DropPCs
      <3>2. QED
        BY <2>1, <2>2, <2>3, <3>1 DEF Tidy, Remaining, DropPCs
    <2>9. QED
      BY <1>2, <2>4, <2>5, <2>6, <2>7, <2>8, TeardownDoes DEF DropPCs
  <1>3. QED
    BY <1>1, <1>2, AtTeardown

\* Every step preserves RemainInv.
LEMMA RemainStep ==
  TypeOK /\ StageInv /\ OwnershipInv /\ PlaceInv /\ RemainInv /\ [Next]_vars => RemainInv'
  <1> SUFFICES ASSUME TypeOK, StageInv, OwnershipInv, PlaceInv, RemainInv, [Next]_vars
               PROVE  RemainInv'
    OBVIOUS
  <1>1. ASSUME NEW s \in Services, \A t \in Services : t # s => call'[t] = call[t], CallStepOf(s),
               NEW t \in Services
        PROVE  Tidy(t, call[t])'
    <2>1. CASE t = s
      BY <1>1, <2>1, TidyStep
    <2>2. CASE t # s
      <3>1. ASSUME call[t].pc \in {"sweep", "deleteLB"} \cup DropPCs, NEW k \in Keys,
                   Owns(t, call[t].lb, k)'
            PROVE  Owns(t, call[t].lb, k)
        <4>1. <<call[t].lb, k>> \in Slots /\ call'[t] = call[t]
          BY <1>1, <2>2, <3>1, BalancerOfCall DEF Slots, BalancerPCs
        <4>2. listener'[<<call[t].lb, k>>].up /\ listener'[<<call[t].lb, k>>].owner = t
          BY <3>1, <4>1 DEF Owns
        <4>3. QED
          BY <1>1, <2>2, <4>1, <4>2, NewOwners DEF Owns, PlaceInv
      <3>2. Tidy(t, call[t]) /\ call'[t] = call[t]
        BY <1>1, <2>2 DEF RemainInv
      <3>3. \A k \in Keys : call[t].pc \in {"sweep", "deleteLB"} \cup DropPCs
                => (listener'[<<call[t].lb, k>>].up /\ listener'[<<call[t].lb, k>>].owner = t
                      => Owns(t, call[t].lb, k))
        BY <3>1, <3>2 DEF Owns
      <3>4. QED
        BY <3>2, <3>3 DEF Tidy, Owns, Remaining
    <2>3. QED
      BY <2>1, <2>2
  <1>2. CASE Crash
    BY <1>2, CrashDoes, IdleIs DEF RemainInv, Tidy
  <1>3. CASE Environment \/ UNCHANGED vars
    <2>1. listener' = listener /\ call' = call
      BY <1>3, EnvironmentDoes DEF vars, cloud
    <2>2. QED
      BY <2>1 DEF RemainInv, Tidy, Owns, Remaining
  <1>4. ASSUME NEW s \in Services, \A t \in Services : t # s => call'[t] = call[t], CallStepOf(s)
        PROVE  RemainInv'
    BY <1>1, <1>4 DEF RemainInv
  <1>5. QED
    BY <1>2, <1>3, <1>4, StepsAre DEF CallStepOf

\* RemainInv holds throughout.
LEMMA RemainHolds == Spec => []RemainInv
  <1>1. Init => RemainInv
    BY IdleIs DEF Init, RemainInv, Tidy
  <1>2. QED
    BY <1>1, RemainStep, TypeCorrect, StageHolds, OwnershipHolds, PlaceHolds, PTL DEF Spec

\* Nothing of the Service is left: neither a load balancer nor a listener.
Cleared(s) == s \notin balancers /\ \A sl \in Slots : listener[sl].up => listener[sl].owner # s

\* That is so once a deletion is through with them, and stays so.
CleanInv ==
    \A s \in Services :
        (call[s].op = "delete" /\ call[s].pc \in {"releaseEips", "return"}) \/ phase[s] = "gone"
            => Cleared(s)

\* All listeners of a Service whose id annotation is not edited are on one load
\* balancer, and it has one of its own only if that is the one.
LEMMA OnePlace ==
  ASSUME TypeOK, OneBalancer, PlaceInv, NEW s \in Services, NEW sp \in Specs[s]
  PROVE  /\ \A sl \in Slots : listener[sl].up /\ listener[sl].owner = s => sl[1] = targetLB(s, sp)
         /\ s \in balancers => targetLB(s, sp) = s
  <1>1. ASSUME NEW sl \in Slots, listener[sl].up, listener[sl].owner = s
        PROVE  sl[1] = targetLB(s, sp)
    <2>1. Wants(s, sl)
      BY <1>1, NamesAssumption DEF PlaceInv, Origin
    <2>2. PICK sq \in Specs[s] : sl[1] = targetLB(s, sq)
      BY <2>1 DEF Wants
    <2>3. QED
      BY <2>2 DEF OneBalancer, targetLB
  <1>2. ASSUME s \in balancers PROVE targetLB(s, sp) = s
    BY <1>2 DEF PlaceInv, OwnBalancers, OneBalancer, targetLB
  <1>3. QED
    BY <1>1, <1>2

\* So nothing is left if its load balancer is not there, or is not its own and has
\* no listener of it.
LEMMA NothingLeftOf ==
  ASSUME TypeOK, OneBalancer, PlaceInv, NEW s \in Services, NEW sp \in Specs[s],
         \/ targetLB(s, sp) \notin balancers
         \/ targetLB(s, sp) # s /\ \A k \in Keys : ~Owns(s, targetLB(s, sp), k)
  PROVE  Cleared(s)
  <1>1. s \notin balancers
    BY OnePlace
  <1>2. ASSUME NEW sl \in Slots, listener[sl].up, listener[sl].owner = s PROVE FALSE
    <2>1. sl[1] = targetLB(s, sp) /\ sl[1] \in balancers
      BY <1>2, OnePlace DEF PlaceInv, Standing
    <2>2. sl = <<sl[1], sl[2]>> /\ sl[2] \in Keys
      BY DEF Slots
    <2>3. Owns(s, targetLB(s, sp), sl[2])
      BY <1>2, <2>1, <2>2 DEF Owns
    <2>4. QED
      BY <2>1, <2>2, <2>3
  <1>3. QED
    BY <1>1, <1>2 DEF Cleared

\* A deletion gets through with them only when nothing is left.
LEMMA ClearedByOwn ==
  ASSUME TypeOK, OneBalancer, StageInv, KeptInv, PlaceInv, RemainInv, CleanInv,
         NEW s \in Services, CallStepOf(s),
         call'[s].op = "delete", call'[s].pc \in {"releaseEips", "return"}
  PROVE  Cleared(s)'
  <1> DEFINE c == call[s]
             d == call'[s]
  <1>1. ~Start(s) /\ ~Return(s) /\ ~Refused(s) /\ ~Abort(s) /\ ~Fail(s)
    BY StartDoes, EndDoes, FailDoes, IdleIs
  <1>2. ~Reconcile(s)
    <2>1. ASSUME Reconcile(s) PROVE FALSE
      <3>1. c.pc \in PortPCs /\ SameService(c, d)
        BY <1>1, <2>1, ReconcileDoes, NextPortDoes DEF SamePlace
      <3>2. QED
        BY <3>1 DEF StageInv, Stage, SameService
    <2>2. QED
      BY <2>1
  <1>3. CASE Find(s)
    <2>1. /\ targetLB(s, c.svc) \notin balancers /\ c.pc \in {"get", "find"}
          /\ GetLoadBalancer(s) \/ MissingLoadBalancer(s)
      <3>1. ListListeners(s) => c.op = "delete" /\ d.pc = "sweep"
        BY ListDoes DEF SameService
      <3>2. QED
        BY <1>1, <1>3, <3>1, FindDoes
    <2>2. c.svc \in Specs[s]
      BY <2>1, CallTyped DEF CallOK
    <2>3. UNCHANGED <<balancers, listener>>
      BY <2>1 DEF GetLoadBalancer, MissingLoadBalancer, cloud
    <2>4. Cleared(s)
      BY <2>1, <2>2, NothingLeftOf
    <2>5. QED
      BY <2>3, <2>4 DEF Cleared
  <1>4. CASE Teardown(s)
    <2>1. /\ \/ SweepDone(s) /\ c.pc = "sweep" /\ c.todo = {}
             \/ DeleteLoadBalancer(s) /\ c.pc = "deleteLB"
             \/ c.pc = "releaseEips" /\ \E e \in c.eips : ReleaseEip(s, e)
          /\ c.op = "delete" /\ (SweepDone(s) => c.svc.lbID # None)
      <3>1. c.op = d.op
        BY <1>4, TeardownDoes DEF SameService
      <3>2. c.pc = "sweep" => ~DeleteLoadBalancer(s) /\ \A e : ~ReleaseEip(s, e)
        BY DEF DeleteLoadBalancer, ReleaseEip, At
      <3>3. d.pc # "drop" /\ d.pc # "sweep" /\ d.pc \notin DropPCs
        BY DEF DropPCs
      <3>4. SweepDone(s) => c.pc = "sweep"
        BY DEF SweepDone, At
      <3>5. QED
        BY <1>4, <3>1, <3>2, <3>3, <3>4, TeardownDoes
    <2>2. c.svc \in Specs[s] /\ c.lb = targetLB(s, c.svc)
      BY <2>1, CallTyped DEF CallOK, BalancerPCs
    <2>3. CASE SweepDone(s)
      <3>1. c.pc = "sweep" /\ c.todo = {}
        BY <2>3 DEF SweepDone, At
      <3>2. Tidy(s, c)
        BY DEF RemainInv
      <3>3. \A k \in Keys : ~Owns(s, c.lb, k)
        BY <2>1, <3>1, <3>2 DEF Tidy, Remaining, DropPCs
      <3>4. targetLB(s, c.svc) # s
        BY <2>1, <2>2, <2>3, SpecTyped, NamesAssumption DEF targetLB, ServiceObject
      <3>5. Cleared(s)
        BY <2>2, <3>3, <3>4, NothingLeftOf
      <3>6. QED
        BY <2>3, <3>5 DEF SweepDone, cloud, Cleared
    <2>4. CASE DeleteLoadBalancer(s)
      <3>1. /\ balancers' = balancers \ {s} /\ c.lb = s /\ UNCHANGED listener
            /\ \A k \in Keys : ~listener[<<s, k>>].up
        BY <2>4, BalancersBy DEF CreateLoadBalancer, DeleteLoadBalancer, At
      <3>2. ASSUME NEW sl \in Slots, listener[sl].up, listener[sl].owner = s PROVE FALSE
        <4>1. sl[1] = s
          BY <2>2, <3>1, <3>2, OnePlace
        <4>2. sl = <<sl[1], sl[2]>> /\ sl[2] \in Keys
          BY DEF Slots
        <4>3. QED
          BY <3>1, <3>2, <4>1, <4>2
      <3>3. QED
        BY <3>1, <3>2 DEF Cleared
    <2>5. CASE c.pc = "releaseEips" /\ \E e \in c.eips : ReleaseEip(s, e)
      BY <2>1, <2>5 DEF CleanInv, ReleaseEip, Cleared
    <2>6. QED
      BY <2>1, <2>3, <2>4, <2>5
  <1>5. QED
    BY <1>1, <1>2, <1>3, <1>4 DEF CallStepOf

\* Nobody else makes anything for the Service.
LEMMA StaysCleared ==
  ASSUME TypeOK, KeptInv, PlaceInv, NEW s \in Services, Cleared(s),
         NEW t \in Services, t # s, CallStepOf(t)
  PROVE  Cleared(s)'
  <1>1. s \notin balancers'
    BY BalancersBy DEF Cleared
  <1>2. ASSUME NEW sl \in Slots, listener'[sl].up PROVE listener'[sl].owner # s
    BY <1>2, NewOwners DEF Cleared, PlaceInv
  <1>3. QED
    BY <1>1, <1>2 DEF Cleared

\* Every step preserves CleanInv.
LEMMA CleanStep ==
  ASSUME OneBalancer
  PROVE  TypeOK /\ StageInv /\ KeptInv /\ PlaceInv /\ RemainInv /\ CleanInv /\ [Next]_vars
            => CleanInv'
  <1> SUFFICES ASSUME TypeOK, StageInv, KeptInv, PlaceInv, RemainInv, CleanInv, [Next]_vars
               PROVE  CleanInv'
    OBVIOUS
  <1>1. ASSUME NEW s \in Services, \A t \in Services : t # s => call'[t] = call[t], CallStepOf(s),
               NEW t \in Services,
               (call'[t].op = "delete" /\ call'[t].pc \in {"releaseEips", "return"}) \/ phase'[t] = "gone"
        PROVE  Cleared(t)'
    <2>1. CASE t = s /\ Return(s)
      <3>1. call'[s].op # "delete" /\ UNCHANGED cloud
        BY <2>1, EndDoes, IdleIs
      <3>2. Cleared(s)
        BY <1>1, <2>1, <3>1, EndDoes DEF CleanInv
      <3>3. QED
        BY <2>1, <3>1, <3>2 DEF cloud, Cleared
    <2>2. CASE t = s /\ ~Return(s) /\ call'[s].op = "delete" /\ call'[s].pc \in {"releaseEips", "return"}
      BY <1>1, <2>2, ClearedByOwn
    <2>3. CASE t = s /\ ~Return(s) /\ phase'[s] = "gone"
      <3>1. phase[s] = "gone"
        BY <1>1, <2>3, StartDoes, FindDoes, ReconcileDoes, TeardownDoes, EndDoes
           DEF CallStepOf, cluster
      <3>2. call[s].pc = "idle" /\ Cleared(s)
        BY <3>1 DEF StageInv, Stage, CleanInv
      <3>3. ~Find(s) /\ ~Reconcile(s) /\ ~Teardown(s)
        BY <3>2, FindDoes, ReconcileDoes, TeardownDoes DEF PortPCs, DropPCs
      <3>4. UNCHANGED cloud
        BY <1>1, <3>3, StartDoes, EndDoes DEF CallStepOf
      <3>5. QED
        BY <2>3, <3>2, <3>4 DEF cloud, Cleared
    <2>4. CASE t # s
      <3>1. phase'[t] = phase[t]
        <4>1. CASE Return(s) \/ Refused(s) \/ Abort(s)
          BY <2>4, <4>1, EndDoes DEF TypeOK
        <4>2. CASE Start(s) \/ Find(s) \/ Reconcile(s) \/ Teardown(s)
          BY <4>2, StartDoes, FindDoes, ReconcileDoes, TeardownDoes DEF cluster
        <4>3. QED
          BY <1>1, <4>1, <4>2 DEF CallStepOf
      <3>2. Cleared(t)
        BY <1>1, <2>4, <3>1 DEF CleanInv
      <3>3. QED
        BY <1>1, <2>4, <3>2, StaysCleared
    <2>5. QED
      BY <1>1, <2>1, <2>2, <2>3, <2>4
  <1>2. CASE Crash
    BY <1>2, CrashDoes, IdleIs DEF CleanInv, Cleared, cloud, cluster
  <1>3. CASE Environment \/ UNCHANGED vars
    <2>1. /\ UNCHANGED <<cloud, call>>
          /\ \A s \in Services : phase'[s] = "gone" => phase[s] = "gone"
      BY <1>3, EnvironmentDoes DEF vars, cluster
    <2>2. QED
      BY <2>1 DEF CleanInv, Cleared, cloud
  <1>4. ASSUME NEW s \in Services, \A t \in Services : t # s => call'[t] = call[t], CallStepOf(s)
        PROVE  CleanInv'
    BY <1>1, <1>4 DEF CleanInv
  <1>5. QED
    BY <1>2, <1>3, <1>4, StepsAre DEF CallStepOf

\* CleanInv holds throughout, if the id annotations are not edited.
LEMMA CleanHolds ==
  ASSUME OneBalancer
  PROVE  Spec => []CleanInv
  <1>1. ASSUME Init PROVE CleanInv
    <2>1. \A s \in Services : call[s].op = "none" /\ phase[s] = "live"
      BY <1>1, IdleIs DEF Init
    <2>2. QED
      BY <2>1 DEF CleanInv
  <1>2. ASSUME TypeOK, StageInv, KeptInv, PlaceInv, RemainInv, CleanInv, [Next]_vars PROVE CleanInv'
    BY <1>2, CleanStep
  <1>3. QED
    BY <1>1, <1>2, TypeCorrect, KeptHolds, StageHolds, PlaceHolds, RemainHolds, PTL DEF Spec

\* A deleted Service leaves neither its load balancer nor a listener behind, if its
\* id annotation is not edited (EnsureLoadBalancerDeleted): whatever fails, restarts
\* or other Services do in between, a deletion succeeds only when it took them down.
THEOREM NoListenerLeft ==
  ASSUME OneBalancer
  PROVE  Spec => []GoneLeavesNoListener
  <1>1. CleanInv => GoneLeavesNoListener
    BY DEF CleanInv, Cleared, GoneLeavesNoListener
  <1>2. QED
    BY <1>1, CleanHolds, PTL

-----------------------------------------------------------------------------
(* The order of deleteListener.                                            *)

\* What has already been taken down where a teardown is.
Dropped(s, c) ==
    LET l == listener[<<c.lb, c.key>>]
    IN  /\ c.pc \in {"dropMonitor", "dropList"} => l.pool
        /\ c.pc \in {"dropList", "dropPool"} => l.monitor = None
        /\ c.pc = "dropPool" => l.members \subseteq c.have
        /\ c.pc = "dropListener" => ~l.pool
        /\ c.pc = "dropGroup" => ~l.up /\ c.key \notin c.todo

DropInv == \A s \in Services : Dropped(s, call[s])

\* A listener is torn down step by step.
LEMMA AtDrop ==
  ASSUME TypeOK, NEW s \in Services, CallStepOf(s), call'[s].pc \in DropPCs \ {"drop"}
  PROVE  /\ Teardown(s) /\ call[s].pc \in DropPCs \ {"dropGroup"} /\ call'[s].lb = call[s].lb
         /\ call'[s].key = call[s].key /\ call'[s].todo = call[s].todo
         /\ call'[s].pc = "dropGroup" => DropListener(s)
  <1>1. ~Start(s) /\ ~Return(s) /\ ~Refused(s) /\ ~Abort(s) /\ ~Fail(s)
    BY StartDoes, EndDoes, FailDoes, IdleIs DEF DropPCs
  <1>2. ~Reconcile(s)
    BY <1>1, ReconcileDoes, NextPortDoes DEF DropPCs, PortPCs
  <1>3. ~Find(s)
    <2>1. CASE ListListeners(s)
      <3>1. PICK e \in Call : call'[s].pc = "sweep" \/ call'[s] = NextPort(s, e)
        BY <2>1, ListDoes, CallTyped
      <3>2. QED
        BY <3>1, NextPortGoes DEF DropPCs
    <2>2. CASE ~ListListeners(s)
      BY <1>1, <2>2, FindDoes DEF DropPCs
    <2>3. QED
      BY <2>1, <2>2
  <1>4. Teardown(s)
    BY <1>1, <1>2, <1>3 DEF CallStepOf
  <1>5. QED
    BY <1>4, TeardownDoes DEF DropPCs

\* The call after its own step.
LEMMA DroppedStep ==
  ASSUME TypeOK, OwnershipInv, DropInv, NEW s \in Services, CallStepOf(s)
  PROVE  Dropped(s, call[s])'
  <1> DEFINE c == call[s]
             d == call'[s]
             l == listener[<<c.lb, c.key>>]
             m == listener'[<<c.lb, c.key>>]
  <1> SUFFICES ASSUME d.pc \in DropPCs \ {"drop"}
               PROVE  /\ d.pc \in {"dropMonitor", "dropList"} => m.pool
                      /\ d.pc \in {"dropList", "dropPool"} => m.monitor = None
                      /\ d.pc = "dropPool" => m.members \subseteq d.have
                      /\ d.pc = "dropListener" => ~m.pool
                      /\ d.pc = "dropGroup" => ~m.up /\ d.key \notin d.todo
    BY AtDrop DEF Dropped, DropPCs
  <1>1. /\ Teardown(s) /\ c.pc \in DropPCs \ {"dropGroup"} /\ d.key = c.key /\ d.todo = c.todo
        /\ d.pc = "dropGroup" => DropListener(s)
    BY AtDrop
  <1>2. Dropped(s, c) /\ l = L(s) /\ l \in Listener /\ Slot(s) = <<c.lb, c.key>>
    BY <1>1, SlotTyped DEF DropInv, L, Slot
  <1>3. CASE DropFindPool(s)
    <2>1. Jump(s, IF ~l.pool THEN "dropListener"
                  ELSE IF l.monitor # None THEN "dropMonitor" ELSE "dropList")
      BY <1>2, <1>3 DEF DropFindPool
    <2>2. UNCHANGED listener
      BY <1>3 DEF DropFindPool, cloud
    <2>3. d.pc = IF ~l.pool THEN "dropListener"
                 ELSE IF l.monitor # None THEN "dropMonitor" ELSE "dropList"
      BY <2>1, JumpDoes
    <2>4. m = l
      BY <2>2
    <2> HIDE DEF l, m, d, c
    <2>5. l.pool \in BOOLEAN
      BY <1>2 DEF Listener
    <2>6. QED
      BY <2>3, <2>4, <2>5
  <1>4. CASE DropMonitor(s)
    <2>1. c.pc = "dropMonitor" /\ d.pc = "dropList" /\ SetL(s, [l EXCEPT !.monitor = None])
      BY <1>2, <1>4, JumpDoes DEF DropMonitor, At
    <2>2. m = [l EXCEPT !.monitor = None]
      BY <1>1, <1>2, <2>1, SetLDoes
    <2>3. m.monitor = None /\ m.pool = l.pool
      BY <1>2, <2>2 DEF Listener
    <2>4. QED
      BY <1>2, <2>1, <2>3 DEF Dropped
  <1>5. CASE DropListMembers(s)
    <2>1. c.pc = "dropList" /\ d.pc = "dropPool" /\ d.have = l.members
      BY <1>2, <1>5, DropMembersDoes DEF DropListMembers, DropMember, At
    <2>2. m = l
      BY <1>5 DEF DropListMembers, cloud
    <2>3. QED
      BY <1>2, <2>1, <2>2 DEF Dropped
  <1>6. ASSUME NEW x \in c.have, DropMember(s, x)
        PROVE  d.pc = "dropPool" /\ m.monitor = None /\ m.members \subseteq d.have
    <2>1. PICK h : h = c.have \ {x}
      OBVIOUS
    <2>2. c.pc = "dropPool" /\ Goto(s, [c EXCEPT !.have = h])
      BY <1>6, <2>1 DEF DropMember, At
    <2>3. d.pc = "dropPool" /\ d.have = h
      BY <2>2, HaveOnlyDoes
    <2>4. PICK ms : ms = l.members \ {x}
      OBVIOUS
    <2>5. SetL(s, [l EXCEPT !.members = ms])
      BY <1>2, <1>6, <2>4 DEF DropMember
    <2>6. m = [l EXCEPT !.members = ms]
      BY <1>1, <1>2, <2>5, SetLDoes
    <2>7. m.monitor = l.monitor /\ m.members = ms
      BY <1>2, <2>6 DEF Listener
    <2>8. l.monitor = None /\ l.members \subseteq c.have
      BY <1>2, <2>2 DEF Dropped
    <2> HIDE DEF l, m, d, c
    <2>9. QED
      BY <2>1, <2>3, <2>4, <2>7, <2>8
  <1>7. CASE DropPool(s)
    <2>1. d.pc = "dropListener" /\ SetL(s, [l EXCEPT !.pool = FALSE, !.alg = None, !.persist = Unset])
      BY <1>2, <1>7, JumpDoes DEF DropPool, At
    <2>2. m = [l EXCEPT !.pool = FALSE, !.alg = None, !.persist = Unset]
      BY <1>1, <1>2, <2>1, SetLDoes
    <2>3. m.pool = FALSE
      BY <1>2, <2>2 DEF Listener
    <2>4. QED
      BY <2>1, <2>3
  <1>8. CASE DropListener(s)
    <2>1. c.pc = "dropListener" /\ d.pc = "dropGroup" /\ SetL(s, NoListener)
      BY <1>8, JumpDoes DEF DropListener, At
    <2>2. m = NoListener /\ ~NoListener.up
      BY <1>1, <1>2, <2>1, SetLDoes DEF NoListener
    <2>3. c.key \notin c.todo
      BY <2>1 DEF OwnershipInv, KnowsOwn, DropPCs
    <2>4. QED
      BY <1>1, <2>1, <2>2, <2>3
  <1>9. \/ DropFindPool(s) \/ DropMonitor(s) \/ DropListMembers(s) \/ DropPool(s)
        \/ DropListener(s) \/ \E x \in c.have : DropMember(s, x)
    BY <1>1 DEF Teardown, PickListener, DropIPGroup, SweepDone, DeleteLoadBalancer, ReleaseEip,
                At, DropPCs
  <1>10. QED
    BY <1>3, <1>4, <1>5, <1>6, <1>7, <1>8, <1>9

\* Every step preserves DropInv, as only the call itself works on its listener.
LEMMA DropStep ==
  ASSUME PortsDisjoint
  PROVE  TypeOK /\ OwnershipInv /\ PlaceInv /\ DropInv /\ [Next]_vars => DropInv'
  <1> SUFFICES ASSUME TypeOK, OwnershipInv, PlaceInv, DropInv, [Next]_vars PROVE DropInv'
    OBVIOUS
  <1>1. ASSUME NEW s \in Services, \A t \in Services : t # s => call'[t] = call[t], CallStepOf(s),
               NEW t \in Services
        PROVE  Dropped(t, call[t])'
    <2>1. CASE t = s
      BY <1>1, <2>1, DroppedStep
    <2>2. CASE t # s /\ call[t].pc \in DropPCs
      <3>1. Slot(t) \in Slots /\ Alone(t, Slot(t))
        BY <2>2, SlotTyped DEF PlaceInv, Placed, PortsDisjoint, Alone, Slot
      <3>2. listener'[<<call[t].lb, call[t].key>>] = listener[<<call[t].lb, call[t].key>>]
        BY <1>1, <2>2, <3>1, Undisturbed DEF Slot
      <3>3. Dropped(t, call[t]) /\ call'[t] = call[t]
        BY <1>1, <2>2 DEF DropInv
      <3>4. QED
        BY <3>2, <3>3 DEF Dropped
    <2>3. CASE t # s /\ call[t].pc \notin DropPCs
      BY <1>1, <2>3 DEF Dropped, DropPCs
    <2>4. QED
      BY <2>1, <2>2, <2>3
  <1>2. CASE Crash
    BY <1>2, CrashDoes, IdleIs DEF DropInv, Dropped
  <1>3. CASE Environment \/ UNCHANGED vars
    <2>1. listener' = listener /\ call' = call
      BY <1>3, EnvironmentDoes DEF vars, cloud
    <2>2. QED
      BY <2>1 DEF DropInv, Dropped
  <1>4. ASSUME NEW s \in Services, \A t \in Services : t # s => call'[t] = call[t], CallStepOf(s)
        PROVE  DropInv'
    BY <1>1, <1>4 DEF DropInv
  <1>5. QED
    BY <1>2, <1>3, <1>4, StepsAre DEF CallStepOf

-----------------------------------------------------------------------------
(* Groups: who counts on which.                                            *)

\* A step changes the group of a listener only to switch it off or to attach one.
LEMMA RegroupedBy ==
  ASSUME TypeOK, NEW s \in Services, Reconcile(s) \/ Teardown(s)
  PROVE  \/ UNCHANGED listener
         \/ CreateListener(s) \/ DropListener(s) \/ DisableIPGroup(s) \/ AttachIPGroup(s)
         \/ listener'[Slot(s)].group = L(s).group /\ listener'[Slot(s)].enable = L(s).enable
  <1>1. PICK l : l = L(s)
    OBVIOUS
  <1>2. ASSUME call[s].pc \in PortPCs \cup DropPCs
        PROVE  l \in Listener
    BY <1>1, <1>2, SlotTyped
  <1>3. ASSUME NEW m, SetL(s, m), call[s].pc \in PortPCs \cup DropPCs
        PROVE  listener'[Slot(s)] = m
    BY <1>3, SetLDoes
  <1>4. CASE UpdateIdleTimeout(s)
    <2>1. PICK v : SetL(s, [l EXCEPT !.idle = v])
      BY <1>1, <1>4 DEF UpdateIdleTimeout
    <2>2. call[s].pc \in PortPCs
      BY <1>4 DEF UpdateIdleTimeout, At, PortPCs
    <2>3. /\ [l EXCEPT !.idle = v].group = l.group
          /\ [l EXCEPT !.idle = v].enable = l.enable
      BY <1>2, <2>2 DEF Listener
    <2>4. QED
      BY <1>1, <1>3, <2>1, <2>2, <2>3
  <1>5. CASE UpdatePool(s) \/ CreatePool(s) \/ DropPool(s)
    <2>1. PICK u, v, w : SetL(s, [l EXCEPT !.pool = u, !.alg = v, !.persist = w])
      <3>1. CASE DropPool(s)
        BY <1>1, <3>1 DEF DropPool
      <3>2. CASE UpdatePool(s) \/ CreatePool(s)
        <4>1. SetL(s, withPool(l, Svc(s)))
          BY <1>1, <3>2 DEF UpdatePool, CreatePool
        <4>2. PICK v, w : /\ v = Svc(s).alg
                          /\ w = IF desiredPersistence(Svc(s)) = Unset THEN l.persist
                                 ELSE desiredPersistence(Svc(s))
          OBVIOUS
        <4>3. withPool(l, Svc(s)) = [l EXCEPT !.pool = TRUE, !.alg = v, !.persist = w]
          BY <4>2 DEF withPool
        <4>4. SetL(s, [l EXCEPT !.pool = TRUE, !.alg = v, !.persist = w])
          BY <4>1, <4>3
        <4>5. QED
          BY <4>4
      <3>3. QED
        BY <1>5, <3>1, <3>2
    <2>2. call[s].pc \in PortPCs \cup DropPCs
      BY <1>5 DEF UpdatePool, CreatePool, DropPool, At, PortPCs, DropPCs
    <2>3. /\ [l EXCEPT !.pool = u, !.alg = v, !.persist = w].group = l.group
          /\ [l EXCEPT !.pool = u, !.alg = v, !.persist = w].enable = l.enable
      BY <1>2, <2>2 DEF Listener
    <2>4. QED
      BY <1>1, <1>3, <2>1, <2>2, <2>3
  <1>6. CASE \/ \E m \in Wanted(s) : AddMember(s, m)
             \/ \E m \in call[s].have : RemoveMember(s, m) \/ DropMember(s, m)
    <2>1. PICK v : SetL(s, [l EXCEPT !.members = v])
      BY <1>1, <1>6 DEF AddMember, RemoveMember, DropMember
    <2>2. call[s].pc \in PortPCs \cup DropPCs
      BY <1>6 DEF AddMember, RemoveMember, DropMember, At, PortPCs, DropPCs
    <2>3. /\ [l EXCEPT !.members = v].group = l.group
          /\ [l EXCEPT !.members = v].enable = l.enable
      BY <1>2, <2>2 DEF Listener
    <2>4. QED
      BY <1>1, <1>3, <2>1, <2>2, <2>3
  <1>7. CASE CreateMonitor(s) \/ UpdateMonitor(s) \/ DeleteMonitor(s) \/ DropMonitor(s)
    <2>1. PICK v : SetL(s, [l EXCEPT !.monitor = v])
      BY <1>1, <1>7 DEF CreateMonitor, UpdateMonitor, DeleteMonitor, DropMonitor
    <2>2. call[s].pc \in PortPCs \cup DropPCs
      BY <1>7 DEF CreateMonitor, UpdateMonitor, DeleteMonitor, DropMonitor, At, PortPCs, DropPCs
    <2>3. /\ [l EXCEPT !.monitor = v].group = l.group
          /\ [l EXCEPT !.monitor = v].enable = l.enable
      BY <1>2, <2>2 DEF Listener
    <2>4. QED
      BY <1>1, <1>3, <2>1, <2>2, <2>3
  <1>8. CASE \/ KeepListener(s) \/ ReconcileIPGroup(s) \/ UpdateIPGroup(s) \/ CreateIPGroup(s)
             \/ GetPool(s) \/ FindPoolOfPort(s) \/ ListMembers(s) \/ MembersDone(s)
             \/ ReconcileMonitor(s)
             \/ PickListener(s) \/ DropFindPool(s) \/ DropListMembers(s) \/ DropIPGroup(s)
             \/ SweepDone(s) \/ DeleteLoadBalancer(s) \/ \E e \in call[s].eips : ReleaseEip(s, e)
    BY <1>8 DEF KeepListener, ReconcileIPGroup, UpdateIPGroup, CreateIPGroup, GetPool,
                FindPoolOfPort, ListMembers, MembersDone, ReconcileMonitor,
                PickListener, DropFindPool, DropListMembers, DropIPGroup, SweepDone,
                DeleteLoadBalancer, ReleaseEip, cloud
  <1>9. QED
    BY <1>4, <1>5, <1>6, <1>7, <1>8 DEF Reconcile, Teardown

\* A step of a call leaves the groups alone or creates, updates or deletes one.
LEMMA GroupsBy ==
  ASSUME TypeOK, NEW s \in Services, CallStepOf(s)
  PROVE  \/ UNCHANGED group
         \/ UNCHANGED listener /\ (UpdateIPGroup(s) \/ CreateIPGroup(s) \/ DropIPGroup(s))
  <1>1. CASE Start(s) \/ Find(s) \/ Return(s) \/ Refused(s) \/ Abort(s)
    BY <1>1, StartDoes, FindDoes, EndDoes DEF cloud
  <1>2. CASE Reconcile(s)
    BY <1>2 DEF Reconcile, CreateListener, UpdateIdleTimeout, KeepListener, ReconcileIPGroup,
                DisableIPGroup, UpdateIPGroup, CreateIPGroup, AttachIPGroup, GetPool, UpdatePool,
                CreatePool, FindPoolOfPort, ListMembers, MembersDone, AddMember, RemoveMember,
                ReconcileMonitor, DeleteMonitor, CreateMonitor, UpdateMonitor, cloud
  <1>3. CASE Teardown(s)
    BY <1>3 DEF Teardown, PickListener, DropFindPool, DropMonitor, DropListMembers, DropMember,
                DropPool, DropListener, DropIPGroup, SweepDone, DeleteLoadBalancer, ReleaseEip, cloud
  <1>4. QED
    BY <1>1, <1>2, <1>3 DEF CallStepOf

\* g is the group that s made for its port k.
Named(g, s, k) == group[g].up /\ group[g].name = <<s, k>>

\* No listener but the one in the slot is bound to g.
BoundOnlyAt(g, sl) == \A sm \in Slots : listener[sm].up /\ listener[sm].group = g => sm = sl

\* The listeners of whose group a call still makes use, as it was listed.
Relevant(s, c) ==
    IF c.pc \in PortPCs THEN {k \in Keys : Wants(s, <<c.lb, k>>)}
    ELSE IF c.pc \in {"sweep"} \cup DropPCs
         THEN {k \in Keys : k \in c.todo \/ (c.pc \in DropPCs /\ k = c.key)}
         ELSE {}

\* The call takes g for the group of s at port k.
Counts(s, c, g, k) ==
    \/ k \in Relevant(s, c) /\ c.existing[k].group = g
    \/ c.pc \in {"updateGroup", "attachGroup"} /\ k = c.key /\ c.grp = g

\* A bound group was made by a Service that wants the listener, and for its port.
BoundNamed ==
    \A sl \in Slots : listener[sl].up /\ listener[sl].group # None =>
        \E s \in Services : Wants(s, sl) /\ Named(listener[sl].group, s, sl[2])

\* No two listeners share a group.
NoSharing ==
    \A sl, sm \in Slots :
        (listener[sl].up /\ listener[sm].up /\ listener[sl].group = listener[sm].group
            /\ listener[sl].group # None) => sl = sm

\* What a call takes for its group is that, and bound nowhere else.
Counted ==
    \A s \in Services, g \in GroupIds, k \in Keys :
        Counts(s, call[s], g, k) => Named(g, s, k) /\ BoundOnlyAt(g, <<call[s].lb, k>>)

GroupInv == BoundNamed /\ NoSharing /\ Counted

\* Most steps at a port change neither the listing nor the group of the call.
LEMMA SeenBy ==
  ASSUME TypeOK, NEW s \in Services, Reconcile(s)
  PROVE  LET c == call[s] d == call'[s] IN
         \/ Fail(s) \/ Goto(s, NextPort(s, c))
         \/ CreateListener(s) \/ ReconcileIPGroup(s) \/ CreateIPGroup(s)
         \/ /\ SamePlace(c, d) /\ SameSeen(c, d) /\ d.grp = c.grp
            /\ \/ UpdateIPGroup(s) /\ c.pc = "updateGroup" /\ d.pc \in {"attachGroup", "pool"}
               \/ ~UpdateIPGroup(s) /\ d.pc = "group" /\ c.pc = "listener" 
               \/ ~UpdateIPGroup(s) /\ d.pc \in PortPCs \ {"listener", "findPool", "group",
                             "disableGroup", "updateGroup", "createGroup", "attachGroup"}
  <1> DEFINE Rest == PortPCs \ {"listener", "findPool", "group",
                                "disableGroup", "updateGroup", "createGroup", "attachGroup"}
  <1>1. CASE UpdateIPGroup(s)
    <2>1. PICK p \in {"attachGroup", "pool"} : Jump(s, p)
      BY <1>1 DEF UpdateIPGroup
    <2>2. QED
      BY <1>1, <2>1, JumpDoes DEF SamePort, UpdateIPGroup, At
  <1>2. CASE UpdateIdleTimeout(s) \/ KeepListener(s)
    <2>1. Jump(s, "group") /\ call[s].pc = "listener" /\ ~UpdateIPGroup(s)
      BY <1>2 DEF UpdateIdleTimeout, KeepListener, UpdateIPGroup, At
    <2>2. QED
      BY <2>1, JumpDoes DEF SamePort
  <1>3. ASSUME NEW p \in Rest, Jump(s, p), ~UpdateIPGroup(s)
        PROVE  LET c == call[s] d == call'[s] IN
               SamePlace(c, d) /\ SameSeen(c, d) /\ d.grp = c.grp /\ d.pc \in Rest
    BY <1>3, JumpDoes DEF SamePort
  <1>4. CASE DisableIPGroup(s) \/ AttachIPGroup(s) \/ CreatePool(s) \/ FindPoolOfPort(s)
    <2>1. /\ \E p \in Rest : Jump(s, p)
          /\ ~UpdateIPGroup(s)
      BY <1>4 DEF DisableIPGroup, AttachIPGroup, CreatePool, FindPoolOfPort, UpdateIPGroup, At, PortPCs
    <2>2. QED
      BY <1>3, <2>1
  <1>5. CASE GetPool(s) \/ UpdatePool(s)
    <2>1. ~UpdateIPGroup(s)
      BY <1>5 DEF GetPool, UpdatePool, UpdateIPGroup, At
    <2>2. QED
      BY <1>5, <2>1, MonDoes DEF PortPCs
  <1>6. CASE \/ ListMembers(s) \/ MembersDone(s)
             \/ At(s, "members") /\ \E m \in Wanted(s) : AddMember(s, m)
             \/ \E m \in call[s].have : RemoveMember(s, m)
    <2>1. ~UpdateIPGroup(s)
      BY <1>6 DEF ListMembers, MembersDone, AddMember, RemoveMember, UpdateIPGroup, At
    <2>2. QED
      BY <1>6, <2>1, MembersDoes DEF PortPCs
  <1>7. CASE ReconcileMonitor(s) \/ DeleteMonitor(s) \/ CreateMonitor(s) \/ UpdateMonitor(s)
    <2>1. /\ Goto(s, NextPort(s, call[s])) \/ \E p \in Rest : Jump(s, p)
          /\ ~UpdateIPGroup(s)
      BY <1>7 DEF ReconcileMonitor, DeleteMonitor, CreateMonitor, UpdateMonitor, UpdateIPGroup, At, PortPCs
    <2>2. QED
      BY <1>3, <2>1
  <1>8. QED
    BY <1>1, <1>2, <1>4, <1>5, <1>6, <1>7 DEF Reconcile

\* A listener that the call listed as its own is still there, and wanted.
LEMMA OwnWanted ==
  ASSUME TypeOK, OwnershipInv, PlaceInv, NEW s \in Services, call[s].pc \in PortPCs, NEW k \in Keys,
         call[s].existing[k].up, call[s].existing[k].owner = s
  PROVE  Wants(s, <<call[s].lb, k>>) /\ Owns(s, call[s].lb, k)
  <1>1. Owns(s, call[s].lb, k)
    BY DEF OwnershipInv, KnowsOwn
  <1>2. <<call[s].lb, k>> \in Slots
    BY BalancerOfCall DEF Slots
  <1>3. QED
    BY <1>1, <1>2, NamesAssumption DEF Owns, PlaceInv, Origin

\* What a call takes for its group it took before, or just made or listed.
LEMMA NewCounts ==
  ASSUME TypeOK, OwnershipInv, PlaceInv, DropInv, NEW s \in Services, CallStepOf(s),
         NEW g \in GroupIds, NEW k \in Keys, Counts(s, call'[s], g, k)
  PROVE  \/ /\ Counts(s, call[s], g, k) /\ call'[s].lb = call[s].lb
            /\ DropIPGroup(s) => k # call[s].key
         \/ CreateIPGroup(s) /\ g = call'[s].grp /\ k = call[s].key /\ call'[s].lb = call[s].lb
         \/ /\ ListListeners(s) /\ call'[s].lb \in LBs
            /\ Wants(s, <<call'[s].lb, k>>) /\ g = listener[<<call'[s].lb, k>>].group
            /\ listener[<<call'[s].lb, k>>].up
  <1> DEFINE c == call[s]
             d == call'[s]
  <1>0. d.pc \in {"sweep"} \cup PortPCs \cup DropPCs
    BY DEF Counts, Relevant, PortPCs
  <1>1. ~Start(s) /\ ~Return(s) /\ ~Refused(s) /\ ~Abort(s) /\ ~Fail(s)
    BY <1>0, StartDoes, EndDoes, FailDoes, IdleIs DEF PortPCs, DropPCs
  <1>2. CASE ListListeners(s)
    <2>1. /\ c.pc = "list" /\ c.lb \in LBs /\ d.lb = c.lb /\ d.existing = Listing(c.lb)
          /\ SameService(c, d) /\ c.lb = targetLB(s, c.svc)
      BY <1>2, ListDoes, CallTyped DEF CallOK, BalancerPCs
    <2>2. k \in Relevant(s, d) /\ d.existing[k].group = g
      <3>1. d.pc \notin {"updateGroup", "attachGroup"}
        <4>1. PICK e \in Call : d.pc = "sweep" \/ d = NextPort(s, e)
          BY <1>2, ListDoes, CallTyped
        <4>2. QED
          BY <4>1, NextPortGoes
      <3>2. QED
        BY <3>1 DEF Counts
    <2>3. <<d.lb, k>> \in Slots
      BY <2>1 DEF Slots
    <2>4. /\ d.existing[k].group = listener[<<d.lb, k>>].group
          /\ d.existing[k].up = listener[<<d.lb, k>>].up
          /\ d.existing[k].owner = listener[<<d.lb, k>>].owner
      BY <2>1 DEF Listing, View
    <2>5. listener[<<d.lb, k>>].up
      <3>1. NoListener.group = None
        BY DEF NoListener
      <3>2. QED
        BY <2>2, <2>3, <2>4, <3>1, NamesAssumption DEF PlaceInv, NothingLeft
    <2>6. listener[<<d.lb, k>>].owner = s => Wants(s, <<d.lb, k>>)
      BY <2>3, <2>5, NamesAssumption DEF PlaceInv, Origin
    <2>7. CASE c.op = "delete"
      <3>1. d.pc = "sweep" /\ d.todo = {x \in Keys : deletable(s, c.svc, Listing(c.lb)[x])}
        BY <1>2, <2>7, ListDoes
      <3>2. deletable(s, c.svc, d.existing[k])
        BY <2>1, <2>2, <3>1 DEF Relevant, PortPCs, DropPCs
      <3>3. c.svc.lbID = None \/ listener[<<d.lb, k>>].owner = s
        BY <2>4, <3>2 DEF deletable, ownsListener
      <3>4. listener[<<d.lb, k>>].owner = s
        BY <2>1, <2>5, <3>3 DEF targetLB, OwnershipInv
      <3>5. QED
        BY <1>2, <2>1, <2>2, <2>4, <2>5, <2>6, <3>4
    <2>8. CASE c.op # "delete"
      <3>1. PICK e \in Call : /\ SamePlace(c, e) /\ e.pc = c.pc /\ e.existing = Listing(c.lb)
                              /\ d = NextPort(s, e)
        BY <1>2, <2>8, ListDoes
      <3>2. CASE d.pc \in PortPCs
        BY <1>2, <2>1, <2>2, <2>4, <2>5, <3>2 DEF Relevant
      <3>3. CASE d.pc = "sweep"
        <4>1. d.todo = staleListeners(s, e)
          BY <3>1, <3>3, NextPortGoes
        <4>2. k \in staleListeners(s, e)
          BY <2>2, <3>3, <4>1 DEF Relevant, PortPCs, DropPCs
        <4>3. listener[<<d.lb, k>>].owner = s
          BY <2>1, <2>4, <3>1, <4>2 DEF staleListeners, ownsListener
        <4>4. QED
          BY <1>2, <2>1, <2>2, <2>4, <2>5, <2>6, <4>3
      <3>4. d.pc \in {"listener", "findPool", "sweep", "return"}
        BY <3>1, NextPortGoes
      <3>5. QED
        BY <1>0, <3>2, <3>3, <3>4 DEF PortPCs, DropPCs
    <2>9. QED
      BY <2>7, <2>8
  <1>3. CASE Find(s) /\ ~ListListeners(s)
    BY <1>0, <1>1, <1>3, FindDoes DEF PortPCs, DropPCs
  <1>4. CASE Reconcile(s)
    <2>1. c.pc \in PortPCs /\ ~DropIPGroup(s)
      BY <1>4, ReconcileDoes DEF DropIPGroup, At, PortPCs
    <2>2. ASSUME SamePlace(c, d), d.pc \in PortPCs, k \in Relevant(s, d)
          PROVE  k \in Relevant(s, c) /\ d.lb = c.lb /\ d.key = c.key
      BY <2>1, <2>2 DEF Relevant, SamePlace
    <2>3. CASE Goto(s, NextPort(s, c))
      <3>1. d.lb = c.lb /\ d.existing = c.existing /\ d.pc \in {"listener", "findPool", "sweep", "return"}
        BY <2>3, NextPortDoes
      <3>2. k \in Relevant(s, d) /\ c.existing[k].group = g
        BY <3>1 DEF Counts
      <3>3. CASE d.pc = "sweep"
        <4>1. k \in staleListeners(s, c)
          BY <2>3, <3>2, <3>3, NextPortDoes DEF Relevant, PortPCs, DropPCs
        <4>2. c.existing[k].up /\ c.existing[k].owner = s
          BY <4>1 DEF staleListeners, ownsListener
        <4>3. Wants(s, <<c.lb, k>>)
          BY <2>1, <4>2, OwnWanted
        <4>4. QED
          BY <2>1, <3>1, <3>2, <4>3 DEF Relevant, Counts
      <3>4. CASE d.pc \in PortPCs
        BY <2>1, <3>1, <3>2, <3>4 DEF Relevant, Counts
      <3>5. QED
        BY <1>0, <3>1, <3>3, <3>4 DEF PortPCs, DropPCs
    <2>4. CASE CreateListener(s)
      <3>1. /\ SamePlace(c, d) /\ d.pc = "group"
            /\ d.existing[c.key] = View(NewListener(s, c.svc.idle))
            /\ \A x \in Keys : x # c.key => d.existing[x] = c.existing[x]
        BY <2>4, CreateDoes
      <3>2. View(NewListener(s, c.svc.idle)).group = None
        BY DEF View, NewListener, NoListener
      <3>3. k \in Relevant(s, d) /\ d.existing[k].group = g
        BY <3>1 DEF Counts
      <3>4. k # c.key
        BY <3>1, <3>2, <3>3, NamesAssumption
      <3>5. QED
        BY <2>1, <2>2, <3>1, <3>3, <3>4 DEF Counts, PortPCs
    <2>5. CASE ReconcileIPGroup(s)
      <3>1. /\ c.pc = "group" /\ SamePlace(c, d) /\ SameSeen(c, d)
            /\ \/ d.pc \in {"disableGroup", "pool", "createGroup"}
               \/ d.pc \in {"updateGroup", "attachGroup", "pool"} /\ d.grp = Listed(s).group
        <4>1. PICK p : p = IF OwnGroup(s) /\ Listed(s).enable THEN "disableGroup" ELSE "pool"
          OBVIOUS
        <4>2. Jump(s, p) \/ Jump(s, "createGroup") => p \in {"disableGroup", "pool"} /\
                     SamePlace(c, d) /\ SameSeen(c, d) /\ d.pc \in {p, "createGroup"}
          BY <4>1, JumpDoes
        <4>3. QED
          BY <1>1, <2>5, <4>1, <4>2, GroupDoes
      <3>2. Wants(s, Slot(s)) /\ c.key \in Keys
        BY <2>1, PortWanted, SlotTyped
      <3>3. c.key \in Relevant(s, c)
        BY <2>1, <3>2 DEF Relevant, Slot
      <3>4. CASE k \in Relevant(s, d) /\ d.existing[k].group = g
        BY <2>1, <2>2, <3>1, <3>4 DEF Counts, PortPCs, SameSeen
      <3>5. CASE d.pc \in {"updateGroup", "attachGroup"} /\ k = d.key /\ d.grp = g
        BY <2>1, <3>1, <3>3, <3>5 DEF Counts, SamePlace, Listed
      <3>6. QED
        BY <3>4, <3>5 DEF Counts
    <2>6. CASE CreateIPGroup(s)
      <3>1. /\ SamePlace(c, d) /\ SameSeen(c, d) /\ d.pc = "attachGroup"
        BY <2>6, NewGroupDoes
      <3>2. CASE k \in Relevant(s, d) /\ d.existing[k].group = g
        BY <2>1, <2>2, <3>1, <3>2 DEF Counts, PortPCs, SameSeen
      <3>3. CASE k = d.key /\ d.grp = g
        BY <2>6, <3>1, <3>3 DEF SamePlace
      <3>4. QED
        BY <3>2, <3>3 DEF Counts
    <2>7. CASE /\ SamePlace(c, d) /\ SameSeen(c, d) /\ d.grp = c.grp /\ d.pc \in PortPCs
               /\ d.pc \in {"updateGroup", "attachGroup"} => c.pc \in {"updateGroup", "attachGroup"}
      <3>1. CASE k \in Relevant(s, d) /\ d.existing[k].group = g
        BY <2>1, <2>2, <2>7, <3>1 DEF Counts, SameSeen
      <3>2. CASE d.pc \in {"updateGroup", "attachGroup"} /\ k = d.key /\ d.grp = g
        BY <2>1, <2>7, <3>2 DEF Counts, SamePlace
      <3>3. QED
        BY <3>1, <3>2 DEF Counts
    <2>8. QED
      BY <1>1, <1>4, <2>3, <2>4, <2>5, <2>6, <2>7, SeenBy DEF PortPCs
  <1>5. CASE Teardown(s)
    <2>1. d.lb = c.lb /\ d.existing = c.existing /\ d.pc \in {"sweep"} \cup DropPCs
      BY <1>0, <1>5, TeardownDoes DEF PortPCs, DropPCs
    <2>2. k \in Relevant(s, d) /\ c.existing[k].group = g
      BY <2>1 DEF Counts, DropPCs
    <2>3. k \in Keys /\ (k \in d.todo \/ (d.pc \in DropPCs /\ k = d.key))
      BY <2>1, <2>2 DEF Relevant, PortPCs, DropPCs
    <2>4. CASE PickListener(s)
      <3>1. c.pc = "sweep" /\ k \in c.todo /\ ~DropIPGroup(s)
        BY <2>3, <2>4, PickDoes DEF DropIPGroup, At
      <3>2. QED
        BY <2>1, <2>2, <3>1 DEF Relevant, Counts, PortPCs, DropPCs
    <2>5. CASE c.pc \in DropPCs \ {"dropGroup"} /\ d.pc \in DropPCs
      <3>1. d.todo = c.todo /\ d.key = c.key /\ ~DropIPGroup(s)
        BY <1>5, <2>5, TeardownDoes DEF DropIPGroup, At, DropPCs
      <3>2. QED
        BY <2>1, <2>2, <2>3, <2>5, <3>1 DEF Relevant, Counts, PortPCs, DropPCs
    <2>6. CASE DropIPGroup(s)
      <3>1. c.pc = "dropGroup" /\ d.pc = "sweep" /\ d.todo = c.todo /\ c.key \notin c.todo
        BY <2>6, DropGroupDoes DEF SameSeen, DropInv, Dropped
      <3>2. QED
        BY <2>1, <2>2, <2>3, <3>1 DEF Relevant, Counts, PortPCs, DropPCs
    <2>7. QED
      BY <1>5, <2>1, <2>4, <2>5, <2>6, TeardownDoes DEF DropPCs
  <1>6. QED
    BY <1>1, <1>2, <1>3, <1>4, <1>5 DEF CallStepOf

\* A group keeps its name until its Service deletes it, with nothing bound to it.
LEMMA NamedStays ==
  ASSUME TypeOK, NEW s \in Services, CallStepOf(s),
         NEW g \in GroupIds, NEW t \in Services, NEW k, Named(g, t, k)
  PROVE  \/ group'[g].up /\ group'[g].name = <<t, k>>
         \/ DropIPGroup(s) /\ g = Listed(s).group /\ t = s /\ ~Bound(g)
  <1>1. CASE UNCHANGED group
    BY <1>1 DEF Named
  <1>2. CASE UpdateIPGroup(s)
    <2>1. PICK x, y : x = call[s].grp /\ group' = [group EXCEPT ![x].list = y]
      BY <1>2 DEF UpdateIPGroup
    <2>2. group \in [GroupIds -> Group]
      BY DEF TypeOK
    <2>3. group'[g].up = group[g].up /\ group'[g].name = group[g].name
      BY <2>1, <2>2 DEF Group
    <2>4. QED
      BY <2>3 DEF Named
  <1>3. CASE CreateIPGroup(s)
    BY <1>3, NewGroupDoes DEF Named
  <1>4. CASE DropIPGroup(s)
    <2>1. CASE /\ group[Listed(s).group].name[1] = s /\ g = Listed(s).group
               /\ ~Bound(Listed(s).group)
      BY <1>4, <2>1 DEF Named
    <2>2. CASE group' = [group EXCEPT ![Listed(s).group] = NoGroup] /\ g # Listed(s).group
      BY <2>2 DEF Named, TypeOK
    <2>3. CASE UNCHANGED group
      BY <2>3, <1>1
    <2>4. QED
      BY <1>4, <2>1, <2>2, <2>3 DEF DropIPGroup
  <1>5. QED
    BY <1>1, <1>2, <1>3, <1>4, GroupsBy

\* A listener is only bound to the group that its Service made for it.
LEMMA BoundBy ==
  ASSUME TypeOK, PlaceInv, Counted, NEW s \in Services, CallStepOf(s), NEW sl \in Slots, NEW g,
         listener'[sl].up, listener'[sl].group = g, g # None
  PROVE  \/ listener[sl].up /\ listener[sl].group = g
         \/ /\ sl = Slot(s) /\ UNCHANGED group /\ Wants(s, sl) /\ g \in GroupIds
            /\ Named(g, s, sl[2]) /\ BoundOnlyAt(g, sl)
  <1>1. CASE UNCHANGED listener \/ (Touch(s) /\ sl # Slot(s))
    BY <1>1 DEF Touch
  <1>2. CASE Touch(s) /\ (Reconcile(s) \/ Teardown(s)) /\ sl = Slot(s)
    <2>1. /\ call[s].pc \in PortPCs \cup DropPCs /\ L(s) = listener[sl]
          /\ NewListener(s, call[s].svc.idle).group = None /\ ~NoListener.up
          /\ L(s) \in Listener /\ Listed(s) \in ListenerView
      BY <1>2, SlotTyped DEF Touch, L, NewListener, NoListener
    <2>2. ~CreateListener(s) /\ ~DropListener(s)
      <3>1. ASSUME NEW l, SetL(s, l) PROVE listener'[sl] = l
        BY <1>2, <2>1, <3>1, SetLDoes
      <3>2. ~CreateListener(s)
        BY <2>1, <3>1 DEF CreateListener, Svc
      <3>3. ~DropListener(s)
        BY <2>1, <3>1 DEF DropListener
      <3>4. QED
        BY <3>2, <3>3
    <2>3. listener[sl].up
      BY <1>2, <2>1, <2>2 DEF Touch
    <2>4. ASSUME g \in GroupIds, Counts(s, call[s], g, call[s].key), UNCHANGED group,
                 call[s].pc \in PortPCs
          PROVE  /\ UNCHANGED group /\ Wants(s, sl)
                 /\ Named(g, s, sl[2]) /\ BoundOnlyAt(g, sl)
      <3>1. Named(g, s, call[s].key) /\ BoundOnlyAt(g, <<call[s].lb, call[s].key>>)
        BY <2>4, SlotTyped DEF Counted
      <3>2. QED
        BY <1>2, <2>4, <3>1, PortWanted DEF Slot
    <2>5. CASE DisableIPGroup(s)
      <3>1. /\ call[s].pc \in PortPCs /\ UNCHANGED group
            /\ SetL(s, [L(s) EXCEPT !.group = Listed(s).group, !.enable = FALSE])
        BY <2>5 DEF DisableIPGroup, At, PortPCs
      <3>2. PICK x : x = Listed(s).group
        OBVIOUS
      <3>3. listener'[sl] = [L(s) EXCEPT !.group = x, !.enable = FALSE]
        BY <1>2, <3>1, <3>2, SetLDoes
      <3>4. listener'[sl].group = x
        BY <2>1, <3>3 DEF Listener
      <3>5. g = call[s].existing[call[s].key].group
        BY <3>2, <3>4 DEF Listed
      <3>6. Listed(s).group \in {None} \cup GroupIds
        BY <2>1 DEF ListenerView
      <3>7. g \in GroupIds
        BY <3>2, <3>4, <3>6
      <3>8. call[s].key \in Relevant(s, call[s])
        BY <3>1, PortWanted, SlotTyped DEF Relevant, Slot
      <3>9. Counts(s, call[s], g, call[s].key)
        BY <3>5, <3>8 DEF Counts
      <3>10. QED
        BY <1>2, <2>4, <3>1, <3>7, <3>9
    <2>6. CASE AttachIPGroup(s)
      <3>1. /\ call[s].pc = "attachGroup" /\ UNCHANGED group
            /\ SetL(s, [L(s) EXCEPT !.group = call[s].grp, !.enable = TRUE])
        BY <2>6 DEF AttachIPGroup, At
      <3>2. PICK x : x = call[s].grp
        OBVIOUS
      <3>3. listener'[sl] = [L(s) EXCEPT !.group = x, !.enable = TRUE]
        BY <1>2, <2>1, <3>1, <3>2, SetLDoes
      <3>4. listener'[sl].group = x
        BY <2>1, <3>3 DEF Listener
      <3>5. Counts(s, call[s], g, call[s].key) /\ call[s].pc \in PortPCs
        BY <3>1, <3>2, <3>4 DEF Counts, PortPCs
      <3>6. g \in GroupIds
        BY <3>2, <3>4, CallTyped DEF Call
      <3>7. QED
        BY <1>2, <2>4, <3>1, <3>5, <3>6
    <2>7. CASE UNCHANGED listener \/ listener'[Slot(s)].group = L(s).group
      BY <1>2, <2>1, <2>3, <2>7
    <2>8. QED
      BY <1>2, <2>2, <2>5, <2>6, <2>7, RegroupedBy
  <1>3. QED
    BY <1>1, <1>2, TouchedBy DEF PlaceInv

\* The calls after a step of s.
LEMMA CountedStep ==
  ASSUME PortsDisjoint, TypeOK, OwnershipInv, PlaceInv, DropInv, GroupInv,
         NEW s \in Services, \A t \in Services : t # s => call'[t] = call[t], CallStepOf(s),
         NEW t \in Services, NEW g \in GroupIds, NEW k \in Keys, Counts(t, call'[t], g, k)
  PROVE  /\ group'[g].up /\ group'[g].name = <<t, k>>
         /\ \A sm \in Slots : listener'[sm].up /\ listener'[sm].group = g
                                => sm = <<call'[t].lb, k>>
  <1> DEFINE c == call[s]
             d == call'[s]
  <1>0. g # None
    BY NamesAssumption
  <1>1. CASE t # s
    <2>1. Named(g, t, k) /\ BoundOnlyAt(g, <<call[t].lb, k>>) /\ call'[t] = call[t]
      BY <1>1 DEF GroupInv, Counted
    <2>2. group'[g].up /\ group'[g].name = <<t, k>>
      BY <1>1, <2>1, NamedStays
    <2>3. ASSUME NEW sm \in Slots, listener'[sm].up, listener'[sm].group = g
          PROVE  sm = <<call'[t].lb, k>>
      <3>1. ~Named(g, s, sm[2])
        BY <1>1, <2>1 DEF Named
      <3>2. listener[sm].up /\ listener[sm].group = g
        BY <1>0, <2>3, <3>1, BoundBy DEF GroupInv
      <3>3. QED
        BY <2>1, <3>2 DEF BoundOnlyAt
    <2>4. QED
      BY <2>2, <2>3
  <1>2. CASE t = s /\ Counts(s, c, g, k) /\ d.lb = c.lb /\ (DropIPGroup(s) => k # c.key)
    <2>1. Named(g, s, k) /\ BoundOnlyAt(g, <<c.lb, k>>)
      BY <1>2 DEF GroupInv, Counted
    <2>2. ASSUME DropIPGroup(s), g = Listed(s).group PROVE FALSE
      <3>1. c.pc \in DropPCs /\ c.key \in Keys
        BY <2>2, SlotTyped DEF DropIPGroup, At, DropPCs
      <3>2. Counts(s, c, g, c.key)
        BY <2>2, <3>1 DEF Counts, Relevant, PortPCs, DropPCs, Listed
      <3>3. Named(g, s, c.key)
        BY <3>1, <3>2 DEF GroupInv, Counted
      <3>4. QED
        BY <1>2, <2>1, <2>2, <3>3 DEF Named
    <2>3. group'[g].up /\ group'[g].name = <<s, k>>
      BY <2>1, <2>2, NamedStays
    <2>4. ASSUME NEW sm \in Slots, listener'[sm].up, listener'[sm].group = g
          PROVE  sm = <<d.lb, k>>
      <3>1. CASE listener[sm].up /\ listener[sm].group = g
        BY <1>2, <2>1, <3>1 DEF BoundOnlyAt
      <3>2. CASE sm = Slot(s) /\ Named(g, s, sm[2])
        <4>1. sm[2] = k
          BY <2>1, <3>2 DEF Named
        <4>2. QED
          BY <1>2, <3>2, <4>1 DEF Slot
      <3>3. QED
        BY <1>0, <2>4, <3>1, <3>2, BoundBy DEF GroupInv
    <2>5. QED
      BY <1>2, <2>3, <2>4
  <1>3. CASE t = s /\ CreateIPGroup(s) /\ g = d.grp /\ k = c.key /\ d.lb = c.lb
    <2>1. /\ ~group[g].up /\ UNCHANGED listener
          /\ group'[g] = [up |-> TRUE, name |-> groupName(s, c.key), list |-> Ranges(s)]
      BY <1>3, NewGroupDoes DEF CreateIPGroup
    <2>2. group'[g].up /\ group'[g].name = <<s, k>>
      BY <1>3, <2>1 DEF groupName
    <2>3. ASSUME NEW sm \in Slots, listener'[sm].up, listener'[sm].group = g PROVE FALSE
      BY <1>0, <2>1, <2>3 DEF GroupInv, BoundNamed, Named
    <2>4. QED
      BY <1>3, <2>2, <2>3
  <1>4. CASE /\ t = s /\ ListListeners(s) /\ d.lb \in LBs
             /\ Wants(s, <<d.lb, k>>) /\ g = listener[<<d.lb, k>>].group
             /\ listener[<<d.lb, k>>].up
    <2>1. UNCHANGED <<listener, group>> /\ <<d.lb, k>> \in Slots
      BY <1>4 DEF ListListeners, cloud, Slots
    <2>2. PICK sl \in Slots : sl = <<d.lb, k>>
      BY <2>1
    <2>3. PICK u \in Services : Wants(u, sl) /\ Named(g, u, sl[2])
      BY <1>0, <1>4, <2>2 DEF GroupInv, BoundNamed
    <2>4. u = s /\ sl[2] = k
      BY <1>4, <2>2, <2>3 DEF PortsDisjoint
    <2>5. group[g].up /\ group[g].name = <<s, k>>
      BY <2>3, <2>4 DEF Named
    <2>6. \A sm \in Slots : listener[sm].up /\ listener[sm].group = g => sm = sl
      BY <1>0, <1>4, <2>2 DEF GroupInv, NoSharing
    <2>7. QED
      BY <1>4, <2>1, <2>2, <2>5, <2>6
  <1>5. QED
    BY <1>1, <1>2, <1>3, <1>4, NewCounts

\* Every step preserves GroupInv.
LEMMA GroupStep ==
  ASSUME PortsDisjoint
  PROVE  TypeOK /\ OwnershipInv /\ PlaceInv /\ DropInv /\ GroupInv /\ [Next]_vars => GroupInv'
  <1> SUFFICES ASSUME TypeOK, OwnershipInv, PlaceInv, DropInv, GroupInv, [Next]_vars
               PROVE  GroupInv'
    OBVIOUS
  <1>1. ASSUME NEW s \in Services, \A t \in Services : t # s => call'[t] = call[t], CallStepOf(s)
        PROVE  GroupInv'
    <2>1. Counted'
      <3>1. ASSUME NEW t \in Services, NEW g \in GroupIds, NEW k \in Keys,
                   Counts(t, call[t], g, k)'
            PROVE  (Named(g, t, k) /\ BoundOnlyAt(g, <<call[t].lb, k>>))'
        <4>1. Counts(t, call'[t], g, k)
          BY <3>1 DEF Counts, Relevant, Wants
        <4>2. QED
          BY <1>1, <4>1, CountedStep DEF Named, BoundOnlyAt
      <3>2. QED
        BY <3>1 DEF Counted
    <2>2. ASSUME NEW sl \in Slots, listener'[sl].up, listener'[sl].group # None
          PROVE  \E t \in Services : /\ Wants(t, sl) /\ group'[listener'[sl].group].up
                                     /\ group'[listener'[sl].group].name = <<t, sl[2]>>
      <3>1. PICK g : g = listener'[sl].group
        OBVIOUS
      <3>2. CASE listener[sl].up /\ listener[sl].group = g
        <4>1. PICK t \in Services : Wants(t, sl) /\ Named(g, t, sl[2])
          BY <2>2, <3>1, <3>2 DEF GroupInv, BoundNamed
        <4>2. Bound(g) /\ g \in GroupIds
          BY <2>2, <3>1, <3>2 DEF Bound, TypeOK, Listener
        <4>3. group'[g].up /\ group'[g].name = <<t, sl[2]>>
          BY <1>1, <4>1, <4>2, NamedStays
        <4>4. QED
          BY <3>1, <4>1, <4>3
      <3>3. CASE UNCHANGED group /\ Wants(s, sl) /\ Named(g, s, sl[2])
        BY <3>1, <3>3 DEF Named
      <3>4. QED
        BY <1>1, <2>2, <3>1, <3>2, <3>3, BoundBy DEF GroupInv
    <2>3. ASSUME NEW sl \in Slots, NEW sm \in Slots, listener'[sl].up, listener'[sm].up,
                 listener'[sl].group = listener'[sm].group, listener'[sl].group # None
          PROVE  sl = sm
      <3>1. PICK g : g = listener'[sl].group
        OBVIOUS
      <3>2. \/ listener[sl].up /\ listener[sl].group = g
            \/ sl = Slot(s) /\ BoundOnlyAt(g, sl)
        BY <1>1, <2>3, <3>1, BoundBy DEF GroupInv
      <3>3. \/ listener[sm].up /\ listener[sm].group = g
            \/ sm = Slot(s) /\ BoundOnlyAt(g, sm)
        BY <1>1, <2>3, <3>1, BoundBy DEF GroupInv
      <3>4. QED
        BY <2>3, <3>1, <3>2, <3>3 DEF GroupInv, NoSharing, BoundOnlyAt
    <2>4. BoundNamed'
      BY <2>2 DEF BoundNamed, Named, Wants
    <2>5. NoSharing'
      BY <2>3 DEF NoSharing
    <2>6. QED
      BY <2>1, <2>4, <2>5 DEF GroupInv
  <1>2. ASSUME UNCHANGED <<listener, group>>,
               \A t \in Services : call'[t] = call[t] \/ call'[t].pc = "idle"
        PROVE  GroupInv'
    <2>1. BoundNamed' /\ NoSharing'
      BY <1>2 DEF GroupInv, BoundNamed, NoSharing, Named, Wants
    <2>2. ASSUME NEW t \in Services, NEW g \in GroupIds, NEW k \in Keys,
                 Counts(t, call[t], g, k)'
          PROVE  (Named(g, t, k) /\ BoundOnlyAt(g, <<call[t].lb, k>>))'
      <3>1. Counts(t, call'[t], g, k)
        BY <2>2 DEF Counts, Relevant, Wants
      <3>2. call'[t] = call[t]
        BY <1>2, <3>1 DEF Counts, Relevant, PortPCs, DropPCs
      <3>3. QED
        BY <1>2, <3>1, <3>2 DEF GroupInv, Counted, Named, BoundOnlyAt
    <2>3. QED
      BY <2>1, <2>2 DEF GroupInv, Counted
  <1>3. CASE Crash
    BY <1>2, <1>3, CrashDoes, IdleIs DEF cloud
  <1>4. CASE Environment \/ UNCHANGED vars
    BY <1>2, <1>4, EnvironmentDoes DEF vars, cloud
  <1>5. QED
    BY <1>1, <1>3, <1>4, StepsAre DEF CallStepOf

\* DropInv and GroupInv hold throughout.
LEMMA GroupHolds ==
  ASSUME PortsDisjoint
  PROVE  Spec => []DropInv /\ []GroupInv
  <1>1. ASSUME Init PROVE DropInv /\ GroupInv
    <2>1. \A s \in Services : call[s].pc = "idle"
      BY <1>1, IdleIs DEF Init
    <2>2. \A sl \in Slots : listener[sl].group = None
      BY <1>1 DEF Init, NoListener
    <2>3. DropInv /\ BoundNamed /\ NoSharing
      BY <2>1, <2>2 DEF DropInv, Dropped, BoundNamed, NoSharing
    <2>4. Counted
      BY <2>1 DEF Counted, Counts, Relevant, PortPCs, DropPCs
    <2>5. QED
      BY <2>3, <2>4 DEF GroupInv
  <1>2. ASSUME TypeOK, OwnershipInv, PlaceInv, DropInv, GroupInv, [Next]_vars
        PROVE  DropInv' /\ GroupInv'
    BY <1>2, DropStep, GroupStep
  <1>3. QED
    BY <1>1, <1>2, TypeCorrect, OwnershipHolds, PlaceHolds, PTL DEF Spec

\* The group of a torn down listener, if it is there, is bound to nothing.
LEMMA NotBound ==
  ASSUME TypeOK, DropInv, GroupInv, NEW s \in Services, call[s].pc = "dropGroup", Attached(s)
  PROVE  ~Bound(Listed(s).group) /\ Named(Listed(s).group, s, call[s].key)
  <1>1. PICK g \in GroupIds : g = Listed(s).group
    BY SlotTyped DEF Attached, ListenerView, DropPCs
  <1>2. call[s].key \in Keys /\ Counts(s, call[s], g, call[s].key)
    BY <1>1, SlotTyped DEF Counts, Relevant, Listed, PortPCs, DropPCs
  <1>3. Named(g, s, call[s].key) /\ BoundOnlyAt(g, <<call[s].lb, call[s].key>>)
    BY <1>2 DEF GroupInv, Counted
  <1>4. ~listener[<<call[s].lb, call[s].key>>].up
    BY DEF DropInv, Dropped
  <1>5. QED
    BY <1>1, <1>3, <1>4 DEF Bound, BoundOnlyAt

\* A deletion is never refused by the cloud, if Services that share a load balancer
\* use ports of their own (deleteListener): members, monitor and pool go before the
\* listener, the listener before its group, all listeners before their load balancer,
\* and nobody puts anything back in between.  EIPs are released once the load
\* balancer is gone, and no other one takes them before, if no Service that brings
\* EIPs asks for a release.
THEOREM NeverRefused ==
  ASSUME PortsDisjoint, EipsApart
  PROVE  Spec => []TeardownNeverRefused
  <1>1. ASSUME TypeOK, OwnershipInv, KeptInv, StageInv, PlaceInv, EipInv, ReleaseInv,
               RemainInv, DropInv, GroupInv,
               NEW s \in Services, call[s].op = "delete", refused(s)
        PROVE  FALSE
    <2>1. call[s].pc \notin {"createLB"} \cup PortPCs
      BY <1>1 DEF StageInv, Stage
    <2>2. call[s].pc \in DropPCs \cup {"deleteLB", "releaseEips"}
      BY <1>1, <2>1 DEF refused, At, PortPCs, DropPCs
    <2>3. Dropped(s, call[s]) /\ KnowsOwn(s, call[s]) /\ Tidy(s, call[s])
      BY <1>1 DEF DropInv, OwnershipInv, RemainInv
    <2>4. CASE call[s].pc \in {"drop", "dropList"}
      <3>1. L(s).up /\ (call[s].pc = "dropList" => L(s).pool)
        BY <2>3, <2>4 DEF KnowsOwn, Owns, Dropped, L, Slot, DropPCs
      <3>2. QED
        BY <1>1, <2>4, <3>1 DEF refused, At
    <2>5. CASE call[s].pc = "dropPool"
      <3>1. L(s).monitor = None /\ L(s).members \subseteq call[s].have
        BY <2>3, <2>5 DEF Dropped, L, Slot
      <3>2. QED
        BY <1>1, <2>5, <3>1 DEF refused, At
    <2>6. CASE call[s].pc = "dropListener"
      <3>1. ~L(s).pool
        BY <2>3, <2>6 DEF Dropped, L, Slot
      <3>2. QED
        BY <1>1, <2>6, <3>1 DEF refused, At
    <2>7. CASE call[s].pc = "dropGroup"
      <3>1. Attached(s) => ~Bound(Listed(s).group)
        BY <1>1, <2>7, NotBound
      <3>2. QED
        BY <1>1, <2>7, <3>1 DEF refused, At
    <2>8. CASE call[s].pc = "deleteLB"
      <3>1. call[s].lb = s
        BY <1>1, <2>8, CallTyped DEF KeptInv, At, Svc, CallOK, targetLB, BalancerPCs
      <3>2. \A k \in Keys : ~listener[<<s, k>>].up
        BY <1>1, <2>3, <2>8, <3>1 DEF Tidy, Owns, OwnershipInv
      <3>3. QED
        BY <1>1, <2>8, <3>1, <3>2 DEF refused, At
    <2>9. CASE call[s].pc = "dropMonitor"
      BY <1>1, <2>9 DEF refused, At
    <2>10. CASE call[s].pc = "releaseEips"
      <3>1. call[s].svc \in Specs[s] /\ call[s].svc.eipBandwidth /\ ~call[s].svc.eipKeep
        BY <1>1, <2>10, CallTyped DEF EipInv, At, CallOK
      <3>2. \A e \in call[s].eips : e \notin UserEips
        BY <1>1, <3>1 DEF EipInv, Brings, EipsApart
      <3>3. QED
        BY <1>1, <2>10, <3>2, ReleasesUnbound
    <2>11. QED
      BY <2>2, <2>4, <2>5, <2>6, <2>7, <2>8, <2>9, <2>10 DEF DropPCs
  <1>2. TypeOK /\ OwnershipInv /\ KeptInv /\ StageInv /\ PlaceInv /\ EipInv /\ ReleaseInv
          /\ RemainInv /\ DropInv /\ GroupInv => TeardownNeverRefused
    BY <1>1 DEF TeardownNeverRefused
  <1>3. QED
    BY <1>2, TypeCorrect, OwnershipHolds, KeptHolds, StageHolds, PlaceHolds, EipHolds,
       ReleaseHolds, RemainHolds, GroupHolds, PTL

-----------------------------------------------------------------------------
(* Groups: none is forgotten.                                              *)

\* Where reconcile has not yet decided on the group of the port at hand.
GroupPCs == {"listener", "group", "disableGroup", "updateGroup", "createGroup", "attachGroup"}

\* The listeners that the call has listed and not yet dealt with.
Fresh(s, c) ==
    IF c.pc \in PortPCs
    THEN {k \in Keys : /\ Wants(s, <<c.lb, k>>)
                       /\ \A j \in DOMAIN c.svc.ports : j < c.i => k # portKey(c.svc.ports[j])
                       /\ k = c.key => c.pc \in GroupPCs}
    ELSE IF c.pc \in {"sweep"} \cup DropPCs THEN {k \in Keys : k \in Remaining(c)} ELSE {}

\* Those are still as they were listed; and what the call knows of the group at hand.
Seen(s, c) ==
    /\ \A k \in Fresh(s, c) :
          /\ c.existing[k].group = listener[<<c.lb, k>>].group
          /\ c.pc \in PortPCs => c.existing[k] = View(listener[<<c.lb, k>>])
    /\ c.pc \in GroupPCs \ {"listener"} => c.existing[c.key].up
    /\ c.pc = "createGroup" => c.existing[c.key].group = None
    /\ c.pc \in {"updateGroup", "attachGroup"} => c.existing[c.key].group \in {None, c.grp}

SeenInv == \A s \in Services : Seen(s, call[s])

\* The next port has what is left of the others, without the port at hand.
LEMMA NextFresh ==
  ASSUME TypeOK, OwnershipInv, PlaceInv, NEW s \in Services, call[s].pc \in PortPCs,
         Goto(s, NextPort(s, call[s])), NEW k \in Fresh(s, call'[s])
  PROVE  k \in Fresh(s, call[s]) /\ k # call[s].key
  <1> DEFINE c == call[s]
             d == call'[s]
  <1>1. /\ d.lb = c.lb /\ d.svc = c.svc /\ d.pc \in {"listener", "findPool", "sweep", "return"}
        /\ c.i \in DOMAIN c.svc.ports /\ c.key = portKey(c.svc.ports[c.i])
    BY NextPortDoes, CallTyped DEF CallOK, SameService
  <1>2. CASE d.pc \in PortPCs
    <2>1. d.i = c.i + 1
      BY <1>2, NextPortDoes DEF PortPCs
    <2>2. c.svc \in Specs[s]
      BY CallTyped DEF CallOK, PortPCs
    <2>3. DOMAIN c.svc.ports \subseteq Nat
      <3>1. c.svc.ports \in Seq(ServicePort)
        BY <2>2, SpecTyped DEF ServiceObject
      <3>2. QED
        BY <3>1
    <2>4. \A j \in DOMAIN c.svc.ports : j <= c.i => j < d.i
      BY <1>1, <2>1, <2>3
    <2>5. c.i < d.i /\ \A j \in DOMAIN c.svc.ports : j < c.i => j < d.i
      BY <1>1, <2>3, <2>4
    <2>6. k \in Keys /\ Wants(s, <<c.lb, k>>)
      BY <1>1, <1>2 DEF Fresh
    <2>7. \A j \in DOMAIN c.svc.ports : j < d.i => k # portKey(c.svc.ports[j])
      BY <1>1, <1>2 DEF Fresh
    <2>8. QED
      BY <1>1, <2>5, <2>6, <2>7 DEF Fresh
  <1>3. CASE d.pc = "sweep"
    <2>1. k \in Keys /\ k \in staleListeners(s, c)
      BY <1>3, NextPortDoes DEF Fresh, Remaining, PortPCs, DropPCs
    <2>2. c.existing[k].up /\ c.existing[k].owner = s /\ k \notin wantedKeys(c.svc)
      BY <2>1 DEF staleListeners, ownsListener
    <2>3. \A j \in DOMAIN c.svc.ports : k # portKey(c.svc.ports[j])
      BY <2>2 DEF wantedKeys
    <2>4. Wants(s, <<c.lb, k>>)
      BY <2>1, <2>2, OwnWanted
    <2>5. QED
      BY <1>1, <2>1, <2>3, <2>4 DEF Fresh
  <1>4. QED
    BY <1>1, <1>2, <1>3 DEF Fresh, PortPCs, DropPCs

\* The listener at hand while the group is being decided on.
LEMMA StillSeen ==
  ASSUME PortsDistinct, TypeOK, SeenInv, NEW s \in Services, call[s].pc \in GroupPCs
  PROVE  Listed(s) = View(L(s)) /\ (call[s].pc # "listener" => L(s).up)
  <1> DEFINE c == call[s]
  <1>1. /\ c.pc \in PortPCs /\ c.svc \in Specs[s] /\ Seen(s, c)
        /\ c.i \in DOMAIN c.svc.ports /\ c.key = portKey(c.svc.ports[c.i])
    BY CallTyped DEF CallOK, SeenInv, GroupPCs, PortPCs
  <1>2. Wants(s, <<c.lb, c.key>>) /\ c.key \in Keys
    BY <1>1, PortWanted, SlotTyped DEF Slot
  <1>3. \A j \in DOMAIN c.svc.ports : j < c.i => c.key # portKey(c.svc.ports[j])
    <2>1. c.svc \in AllSpecs
      BY <1>1 DEF AllSpecs
    <2>2. \A j \in DOMAIN c.svc.ports : c.key = portKey(c.svc.ports[j]) => j = c.i
      BY <1>1, <2>1 DEF PortsDistinct
    <2>3. c.i \in Nat
      BY CallTyped DEF Call
    <2>4. QED
      BY <2>2, <2>3
  <1>4. c.key \in Fresh(s, c)
    BY <1>1, <1>2, <1>3 DEF Fresh
  <1>5. Listed(s) = View(L(s))
    BY <1>1, <1>4 DEF Seen, Listed, L, Slot
  <1>6. c.pc # "listener" => L(s).up
    BY <1>1, <1>5 DEF Seen, Listed, View
  <1>7. QED
    BY <1>5, <1>6

\* The call after its own step.
LEMMA SeenOwn ==
  ASSUME TypeOK, OwnershipInv, PlaceInv, DropInv, GroupInv, SeenInv,
         NEW s \in Services, CallStepOf(s)
  PROVE  Seen(s, call[s])'
  <1> DEFINE c == call[s]
             d == call'[s]
             Fine(k) == /\ d.existing[k].group = listener'[<<d.lb, k>>].group
                        /\ d.pc \in PortPCs => d.existing[k] = View(listener'[<<d.lb, k>>])
             Knows == /\ d.pc \in GroupPCs \ {"listener"} => d.existing[d.key].up
                      /\ d.pc = "createGroup" => d.existing[d.key].group = None
                      /\ d.pc \in {"updateGroup", "attachGroup"} =>
                            d.existing[d.key].group \in {None, d.grp}
  <1> SUFFICES ASSUME d.pc \in {"sweep"} \cup PortPCs \cup DropPCs
               PROVE  Knows /\ \A k \in Fresh(s, d) : Fine(k)
    <2>1. Fresh(s, d) = Fresh(s, call[s])'
      BY DEF Fresh, Remaining, Wants
    <2>2. d.pc \notin {"sweep"} \cup PortPCs \cup DropPCs => Knows /\ Fresh(s, d) = {}
      BY DEF Fresh, GroupPCs, PortPCs, DropPCs
    <2>3. Knows /\ (\A k \in Fresh(s, d) : Fine(k)) => Seen(s, call[s])'
      BY <2>1 DEF Seen, View
    <2>4. QED
      BY <2>2, <2>3
  <1>0. Seen(s, c)
    BY DEF SeenInv
  <1>1. ~Start(s) /\ ~Return(s) /\ ~Refused(s) /\ ~Abort(s) /\ ~Fail(s)
    BY StartDoes, EndDoes, FailDoes, IdleIs DEF PortPCs, DropPCs
  <1>2. CASE ListListeners(s)
    <2>1. c.lb \in LBs /\ d.lb = c.lb /\ d.existing = Listing(c.lb) /\ UNCHANGED listener
      BY <1>2, ListDoes DEF ListListeners, cloud
    <2>2. d.pc \in {"sweep", "listener", "findPool"}
      <3>1. PICK e \in Call : d.pc = "sweep" \/ d = NextPort(s, e)
        BY <1>2, ListDoes, CallTyped
      <3>2. d.pc \in {"sweep", "listener", "findPool", "return"}
        BY <3>1, NextPortGoes
      <3>3. QED
        BY <3>2 DEF PortPCs, DropPCs
    <2>3. Fresh(s, d) \subseteq Keys
      BY DEF Fresh
    <2>4. ASSUME NEW k \in Keys PROVE Fine(k)
      <3>1. d.existing[k] = View(listener'[<<d.lb, k>>])
        BY <2>1 DEF Listing, View
      <3>2. QED
        BY <3>1 DEF View
    <2>5. Knows
      BY <2>2 DEF GroupPCs
    <2>6. QED
      BY <2>3, <2>4, <2>5
  <1>3. ASSUME NEW k \in Fresh(s, c), d.lb = c.lb, d.existing[k] = c.existing[k],
               d.pc \in PortPCs => c.pc \in PortPCs,
               \/ UNCHANGED listener
               \/ Touch(s) /\ k # c.key
               \/ /\ Touch(s) /\ d.pc \notin PortPCs
                  /\ listener'[Slot(s)].group = L(s).group
        PROVE  Fine(k)
    <2>1. /\ c.existing[k].group = listener[<<c.lb, k>>].group
          /\ c.pc \in PortPCs => c.existing[k] = View(listener[<<c.lb, k>>])
      BY <1>0 DEF Seen
    <2>2. CASE listener'[<<c.lb, k>>] = listener[<<c.lb, k>>]
      BY <1>3, <2>1, <2>2
    <2>3. CASE Touch(s) /\ k # c.key
      <3>1. c.lb \in LBs /\ k \in Keys
        BY <2>3, BalancerOfCall DEF Touch, Fresh
      <3>2. <<c.lb, k>> \in Slots /\ <<c.lb, k>> # Slot(s)
        BY <2>3, <3>1 DEF Slots, Slot
      <3>3. QED
        BY <2>2, <2>3, <3>2 DEF Touch
    <2>4. CASE k = c.key /\ listener'[Slot(s)].group = L(s).group /\ d.pc \notin PortPCs
      BY <1>3, <2>1, <2>4 DEF L, Slot
    <2>5. QED
      BY <1>3, <2>2, <2>3, <2>4
  <1>4. CASE Reconcile(s)
    <2>1. c.pc \in PortPCs /\ c.key \in Keys /\ (UNCHANGED listener \/ Touch(s))
      BY <1>4, ReconcileDoes, SlotTyped, ReconcileTouches DEF PlaceInv
    <2>2. CASE Goto(s, NextPort(s, c))
      <3>1. d.lb = c.lb /\ d.existing = c.existing /\ d.pc \in {"listener", "findPool", "sweep", "return"}
        BY <2>2, NextPortDoes
      <3>2. ASSUME NEW k \in Fresh(s, d) PROVE Fine(k)
        <4>1. k \in Fresh(s, c) /\ k # c.key
          BY <2>1, <2>2, NextFresh
        <4>2. QED
          BY <1>3, <2>1, <3>1, <4>1
      <3>3. QED
        BY <3>1, <3>2 DEF GroupPCs
    <2>3. CASE CreateListener(s)
      <3>1. /\ c.pc = "listener" /\ SamePlace(c, d) /\ d.pc = "group"
            /\ d.existing[c.key] = View(NewListener(s, c.svc.idle))
            /\ \A x \in Keys : x # c.key => d.existing[x] = c.existing[x]
        BY <2>3, CreateDoes
      <3>2. listener'[Slot(s)] = NewListener(s, c.svc.idle)
        BY <2>1, <2>3, SetLDoes DEF CreateListener, Svc
      <3>3. View(NewListener(s, c.svc.idle)).up /\ \A l : View(l).group = l.group
        BY DEF View, NewListener, NoListener
      <3>4. Knows
        BY <3>1, <3>3 DEF SamePlace
      <3>5. Fine(c.key)
        BY <3>1, <3>2, <3>3 DEF SamePlace, Slot
      <3>6. ASSUME NEW k \in Fresh(s, d), k # c.key PROVE Fine(k)
        <4>1. k \in Fresh(s, c)
          BY <3>1 DEF Fresh, SamePlace, SameService, PortPCs, GroupPCs
        <4>2. Touch(s) \/ UNCHANGED listener
          BY <2>1
        <4>3. k \in Keys
          BY <4>1 DEF Fresh
        <4>4. QED
          BY <1>3, <2>1, <3>1, <3>6, <4>1, <4>2, <4>3 DEF SamePlace
      <3>7. QED
        BY <3>4, <3>5, <3>6
    <2>4. ASSUME SamePlace(c, d), SameSeen(c, d), d.pc \in PortPCs,
                 d.pc \in GroupPCs => c.pc \in GroupPCs /\ View(listener'[Slot(s)]) = View(L(s)),
                 NEW k \in Fresh(s, d)
          PROVE  Fine(k)
      <3>1. /\ d.lb = c.lb /\ d.key = c.key /\ d.i = c.i /\ d.svc = c.svc /\ d.existing = c.existing
            /\ k \in Keys
        BY <2>4 DEF SamePlace, SameService, SameSeen, Fresh
      <3>2. k \in Fresh(s, c) /\ (k = c.key => d.pc \in GroupPCs)
        BY <2>1, <2>4, <3>1 DEF Fresh
      <3>3. CASE k = c.key
        <4>1. c.existing[k] = View(L(s))
          BY <1>0, <2>1, <3>2, <3>3 DEF Seen, L, Slot
        <4>2. d.existing[k] = View(listener'[<<d.lb, k>>])
          BY <2>4, <3>1, <3>2, <3>3, <4>1 DEF Slot
        <4>3. QED
          BY <4>2 DEF View
      <3>4. CASE k # c.key
        BY <1>3, <2>1, <2>4, <3>1, <3>2, <3>4
      <3>5. QED
        BY <3>3, <3>4
    <2>5. CASE UpdateIdleTimeout(s) \/ KeepListener(s)
      <3>1. Jump(s, "group") /\ c.pc = "listener" /\ c.existing[c.key].up
        BY <2>5 DEF UpdateIdleTimeout, KeepListener, At, Listed
      <3>2. SamePlace(c, d) /\ SameSeen(c, d) /\ d.pc = "group"
        BY <3>1, JumpDoes
      <3>3. View(listener'[Slot(s)]) = View(L(s))
        <4>1. CASE KeepListener(s)
          BY <4>1 DEF KeepListener, cloud, L
        <4>2. CASE UpdateIdleTimeout(s)
          <5>1. PICK v, l : l = L(s) /\ SetL(s, [l EXCEPT !.idle = v])
            BY <4>2 DEF UpdateIdleTimeout
          <5>2. l \in Listener /\ listener'[Slot(s)] = [l EXCEPT !.idle = v]
            BY <2>1, <5>1, SetLDoes, SlotTyped
          <5>3. PICK m : m = [l EXCEPT !.idle = v]
            OBVIOUS
          <5>4. /\ m.up = l.up /\ m.owner = l.owner /\ m.pool = l.pool /\ m.group = l.group
                /\ m.enable = l.enable
            BY <5>2, <5>3 DEF Listener
          <5>5. View(m) = View(l)
            BY <5>4 DEF View
          <5>6. QED
            BY <5>1, <5>2, <5>3, <5>5
        <4>3. QED
          BY <2>5, <4>1, <4>2
      <3>4. Knows
        BY <3>1, <3>2 DEF SamePlace, SameSeen
      <3>5. QED
        BY <2>4, <3>1, <3>2, <3>3, <3>4 DEF GroupPCs, PortPCs
    <2>6. CASE ReconcileIPGroup(s)
      <3>1. /\ c.pc = "group" /\ SamePlace(c, d) /\ SameSeen(c, d)
            /\ \/ d.pc \in {"disableGroup", "pool"}
               \/ d.pc = "createGroup" /\ ~Attached(s)
               \/ d.pc \in {"updateGroup", "attachGroup", "pool"} /\ d.grp = Listed(s).group
        <4>1. PICK p : p = IF OwnGroup(s) /\ Listed(s).enable THEN "disableGroup" ELSE "pool"
          OBVIOUS
        <4>2. \A q : Jump(s, q) => SamePlace(c, d) /\ SameSeen(c, d) /\ d.pc = q
          BY JumpDoes
        <4>3. QED
          BY <1>1, <2>6, <4>1, <4>2, GroupDoes
      <3>2. UNCHANGED listener
        BY <2>6 DEF ReconcileIPGroup, cloud
      <3>3. ~Attached(s) => Listed(s).group = None
        <4>1. ASSUME Listed(s).group # None PROVE Attached(s)
          <5>1. PICK g \in GroupIds : g = Listed(s).group
            BY <2>1, <4>1, SlotTyped DEF ListenerView
          <5>2. c.key \in Relevant(s, c)
            BY <2>1, PortWanted DEF Relevant, Slot
          <5>3. Counts(s, c, g, c.key)
            BY <5>1, <5>2 DEF Counts, Listed
          <5>4. group[g].up
            BY <2>1, <5>3 DEF GroupInv, Counted, Named
          <5>5. QED
            BY <4>1, <5>1, <5>4 DEF Attached
        <4>2. QED
          BY <4>1
      <3>4. Knows
        BY <1>0, <3>1, <3>3 DEF Seen, SamePlace, SameSeen, Listed, GroupPCs
      <3>5. QED
        BY <2>4, <3>1, <3>2, <3>4 DEF L, GroupPCs, PortPCs
    <2>7. CASE UpdateIPGroup(s) \/ CreateIPGroup(s)
      <3>1. UNCHANGED listener
        BY <2>7 DEF UpdateIPGroup, CreateIPGroup
      <3>2. \/ /\ SamePlace(c, d) /\ SameSeen(c, d) /\ d.grp = c.grp
               /\ c.pc = "updateGroup" /\ d.pc \in {"attachGroup", "pool"}
            \/ SamePlace(c, d) /\ SameSeen(c, d) /\ c.pc = "createGroup" /\ d.pc = "attachGroup"
        <4>1. CASE UpdateIPGroup(s)
          <5>1. PICK p \in {"attachGroup", "pool"} : Jump(s, p)
            BY <4>1 DEF UpdateIPGroup
          <5>2. QED
            BY <4>1, <5>1, JumpDoes DEF UpdateIPGroup, At, SamePort
        <4>2. CASE CreateIPGroup(s)
          BY <4>2, NewGroupDoes
        <4>3. QED
          BY <2>7, <4>1, <4>2
      <3>3. Knows
        BY <1>0, <3>2 DEF Seen, SamePlace, SameSeen, GroupPCs
      <3>4. QED
        BY <2>4, <3>1, <3>2, <3>3 DEF L, GroupPCs, PortPCs
    <2>8. CASE SamePlace(c, d) /\ SameSeen(c, d) /\ d.pc \in PortPCs \ GroupPCs
      BY <2>4, <2>8 DEF GroupPCs
    <2>9. CASE d.pc = "group" /\ c.pc = "listener"
      <3>1. CreateListener(s) \/ UpdateIdleTimeout(s) \/ KeepListener(s)
        BY <1>4, <2>9 DEF Reconcile, ReconcileIPGroup, DisableIPGroup, UpdateIPGroup, CreateIPGroup,
              AttachIPGroup, GetPool, UpdatePool, CreatePool, FindPoolOfPort, ListMembers, MembersDone,
              RemoveMember, ReconcileMonitor, DeleteMonitor, CreateMonitor, UpdateMonitor, At
      <3>2. QED
        BY <2>3, <2>5, <3>1
    <2>10. QED
      BY <1>1, <1>4, <2>2, <2>3, <2>6, <2>7, <2>8, <2>9, SeenBy DEF GroupPCs, PortPCs
  <1>5. CASE Teardown(s)
    <2>1. /\ d.lb = c.lb /\ d.existing = c.existing /\ d.pc \in {"sweep"} \cup DropPCs
          /\ c.pc \in {"sweep"} \cup DropPCs /\ (UNCHANGED listener \/ Touch(s))
      BY <1>5, TeardownDoes, TeardownTouches DEF PortPCs, DropPCs, PlaceInv
    <2>2. Knows
      BY <2>1 DEF GroupPCs, DropPCs
    <2>3. ASSUME NEW k \in Fresh(s, d) PROVE Fine(k)
      <3>1. k \in Keys /\ k \in Remaining(d) /\ d.pc \notin PortPCs
        BY <2>1 DEF Fresh, PortPCs, DropPCs
      <3>2. ASSUME k \in Remaining(c) PROVE k \in Fresh(s, c)
        BY <2>1, <3>1, <3>2 DEF Fresh, PortPCs, DropPCs
      <3>3. CASE PickListener(s)
        <4>1. UNCHANGED listener /\ k \in Remaining(c)
          BY <3>1, <3>3, PickDoes DEF PickListener, cloud, Remaining, DropPCs
        <4>2. QED
          BY <1>3, <2>1, <3>1, <3>2, <4>1
      <3>4. CASE c.pc \in DropPCs \ {"dropGroup"} /\ d.pc \in DropPCs \ {"drop"}
        <4>1. d.key = c.key /\ d.todo = c.todo /\ (d.pc = "dropGroup" => DropListener(s))
          BY <1>5, <3>4, TeardownDoes DEF DropPCs
        <4>2. c.key \notin c.todo
          BY <3>4 DEF OwnershipInv, KnowsOwn
        <4>3. k \in Remaining(c) /\ (k = c.key => d.pc # "dropGroup")
          BY <3>1, <3>4, <4>1, <4>2 DEF Remaining
        <4>4. DropListener(s) => d.pc = "dropGroup"
          BY JumpDoes DEF DropListener
        <4>5. ~CreateListener(s) /\ ~DisableIPGroup(s) /\ ~AttachIPGroup(s)
          BY <3>4 DEF CreateListener, DisableIPGroup, AttachIPGroup, At, DropPCs
        <4>6. \/ UNCHANGED listener
              \/ Touch(s) /\ k # c.key
              \/ Touch(s) /\ listener'[Slot(s)].group = L(s).group
          BY <1>5, <2>1, <4>3, <4>4, <4>5, RegroupedBy
        <4>7. QED
          BY <1>3, <2>1, <3>1, <3>2, <4>3, <4>6
      <3>5. CASE DropIPGroup(s)
        <4>1. UNCHANGED listener /\ k \in Remaining(c)
          BY <3>1, <3>5, DropGroupDoes DEF DropIPGroup, Remaining, DropPCs, SameSeen
        <4>2. QED
          BY <1>3, <2>1, <3>1, <3>2, <4>1
      <3>6. QED
        BY <1>5, <2>1, <3>3, <3>4, <3>5, TeardownDoes DEF DropPCs
    <2>4. QED
      BY <2>2, <2>3
  <1>6. CASE Find(s) /\ ~ListListeners(s)
    BY <1>1, <1>6, FindDoes DEF PortPCs, DropPCs
  <1>7. QED
    BY <1>1, <1>2, <1>4, <1>5, <1>6 DEF CallStepOf

\* What a call has listed and not yet dealt with is wanted by its Service.
LEMMA FreshWanted ==
  ASSUME TypeOK, OwnershipInv, PlaceInv, NEW s \in Services, NEW k \in Fresh(s, call[s])
  PROVE  Wants(s, <<call[s].lb, k>>) /\ <<call[s].lb, k>> \in Slots
  <1> DEFINE c == call[s]
  <1>1. k \in Keys /\ c.pc \in PortPCs \cup {"sweep"} \cup DropPCs
    BY DEF Fresh
  <1>2. <<c.lb, k>> \in Slots
    BY <1>1, BalancerOfCall DEF Slots, BalancerPCs
  <1>3. CASE c.pc \in {"sweep"} \cup DropPCs
    <2>1. k \in Remaining(c)
      BY <1>3 DEF Fresh, PortPCs, DropPCs
    <2>2. Owns(s, c.lb, k)
      BY <1>3, <2>1 DEF Remaining, OwnershipInv, KnowsOwn
    <2>3. QED
      BY <1>2, <2>2, NamesAssumption DEF Owns, PlaceInv, Origin
  <1>4. CASE c.pc \in PortPCs
    BY <1>2, <1>4 DEF Fresh
  <1>5. QED
    BY <1>1, <1>2, <1>3, <1>4

\* Every step preserves SeenInv.
LEMMA SeenStep ==
  ASSUME PortsDisjoint
  PROVE  TypeOK /\ OwnershipInv /\ PlaceInv /\ DropInv /\ GroupInv /\ SeenInv /\ [Next]_vars
            => SeenInv'
  <1> SUFFICES ASSUME TypeOK, OwnershipInv, PlaceInv, DropInv, GroupInv, SeenInv, [Next]_vars
               PROVE  SeenInv'
    OBVIOUS
  <1>1. ASSUME NEW t \in Services, call'[t] = call[t],
               \A k \in Fresh(t, call[t]) : listener'[<<call[t].lb, k>>] = listener[<<call[t].lb, k>>]
        PROVE  Seen(t, call[t])'
    <2>1. Seen(t, call[t])
      BY DEF SeenInv
    <2>2. Fresh(t, call[t])' = Fresh(t, call[t])
      BY <1>1 DEF Fresh, Remaining, Wants
    <2>3. QED
      BY <1>1, <2>1, <2>2 DEF Seen, View
  <1>2. ASSUME NEW s \in Services, \A t \in Services : t # s => call'[t] = call[t], CallStepOf(s)
        PROVE  SeenInv'
    <2>1. ASSUME NEW t \in Services, t # s, NEW k \in Fresh(t, call[t])
          PROVE  listener'[<<call[t].lb, k>>] = listener[<<call[t].lb, k>>]
      <3>1. Wants(t, <<call[t].lb, k>>) /\ <<call[t].lb, k>> \in Slots
        BY FreshWanted
      <3>2. Alone(t, <<call[t].lb, k>>)
        BY <3>1 DEF Alone, PortsDisjoint
      <3>3. QED
        BY <1>2, <2>1, <3>1, <3>2, Undisturbed
    <2>2. Seen(s, call[s])'
      BY <1>2, SeenOwn
    <2>3. QED
      BY <1>1, <1>2, <2>1, <2>2 DEF SeenInv
  <1>3. CASE Crash
    BY <1>3, CrashDoes, IdleIs DEF SeenInv, Seen, Fresh, GroupPCs, PortPCs, DropPCs
  <1>4. CASE Environment \/ UNCHANGED vars
    BY <1>1, <1>4, EnvironmentDoes DEF vars, cloud, SeenInv
  <1>5. QED
    BY <1>2, <1>3, <1>4, StepsAre DEF CallStepOf

\* SeenInv holds throughout.
LEMMA SeenHolds ==
  ASSUME PortsDisjoint
  PROVE  Spec => []SeenInv
  <1>1. ASSUME Init PROVE SeenInv
    BY <1>1, IdleIs DEF Init, SeenInv, Seen, Fresh, GroupPCs, PortPCs, DropPCs
  <1>2. ASSUME TypeOK, OwnershipInv, PlaceInv, DropInv, GroupInv, SeenInv, [Next]_vars
        PROVE  SeenInv'
    BY <1>2, SeenStep
  <1>3. QED
    BY <1>1, <1>2, TypeCorrect, OwnershipHolds, PlaceHolds, GroupHolds, PTL DEF Spec

\* A group that is there is bound to a listener, or about to be attached to one, or
\* about to be deleted with the one it was bound to.
Held(g) ==
    \/ Bound(g)
    \/ \E s \in Services : call[s].pc = "attachGroup" /\ call[s].grp = g
    \/ \E s \in Services : call[s].pc = "dropGroup" /\ Listed(s).group = g

OrphanInv == \A g \in GroupIds : group[g].up => Held(g)

\* A listener that was bound to g still is, or has just been torn down.
LEMMA HeldByListener ==
  ASSUME PortsDistinct, TypeOK, OwnershipInv, PlaceInv, SeenInv, NEW s \in Services, CallStepOf(s),
         NEW g \in GroupIds, NEW sl \in Slots, listener[sl].up, listener[sl].group = g
  PROVE  \/ listener'[sl].up /\ listener'[sl].group = g
         \/ call'[s].pc = "dropGroup" /\ call'[s].existing[call'[s].key].group = g
  <1> DEFINE c == call[s]
             d == call'[s]
  <1>0. g # None
    BY NamesAssumption
  <1>1. CASE UNCHANGED listener \/ (Touch(s) /\ sl # Slot(s))
    BY <1>1 DEF Touch
  <1>2. CASE Touch(s) /\ (Reconcile(s) \/ Teardown(s)) /\ sl = Slot(s)
    <2>1. /\ c.pc \in PortPCs \cup DropPCs /\ L(s) = listener[sl] /\ L(s).up
          /\ L(s) \in Listener /\ c.key \in Keys
      BY <1>2, SlotTyped DEF Touch, L
    <2>2. CASE DropListener(s)
      <3>1. /\ c.pc = "dropListener" /\ SamePlace(c, d) /\ SameSeen(c, d) /\ d.pc = "dropGroup"
        BY <2>2, JumpDoes DEF DropListener, At
      <3>2. c.key \in Fresh(s, c)
        BY <2>1, <3>1 DEF Fresh, Remaining, PortPCs, DropPCs
      <3>3. c.existing[c.key].group = L(s).group
        BY <3>2 DEF SeenInv, Seen, L, Slot
      <3>4. d.existing[d.key].group = g
        BY <2>1, <3>1, <3>3 DEF SamePlace, SameSeen
      <3>5. QED
        BY <3>1, <3>4
    <2>3. CASE ~DropListener(s)
      <3>1. ~CreateListener(s) /\ listener'[sl].up
        BY <1>2, <2>1, <2>3 DEF Touch, CreateListener
      <3>2. CASE DisableIPGroup(s)
        <4>1. c.pc = "disableGroup" /\ SetL(s, [L(s) EXCEPT !.group = Listed(s).group, !.enable = FALSE])
          BY <3>2 DEF DisableIPGroup, At
        <4>2. PICK x : x = Listed(s).group
          OBVIOUS
        <4>3. listener'[sl] = [L(s) EXCEPT !.group = x, !.enable = FALSE]
          BY <1>2, <2>1, <4>1, <4>2, SetLDoes
        <4>4. listener'[sl].group = x
          BY <2>1, <4>3 DEF Listener
        <4>5. Listed(s) = View(L(s))
          BY <4>1, StillSeen DEF GroupPCs
        <4>6. x = g
          BY <2>1, <4>2, <4>5 DEF View
        <4>7. QED
          BY <3>1, <4>4, <4>6
      <3>3. CASE AttachIPGroup(s)
        <4>1. c.pc = "attachGroup" /\ SetL(s, [L(s) EXCEPT !.group = c.grp, !.enable = TRUE])
          BY <3>3 DEF AttachIPGroup, At
        <4>2. PICK x : x = c.grp
          OBVIOUS
        <4>3. listener'[sl] = [L(s) EXCEPT !.group = x, !.enable = TRUE]
          BY <1>2, <2>1, <4>1, <4>2, SetLDoes
        <4>4. listener'[sl].group = x
          BY <2>1, <4>3 DEF Listener
        <4>5. Listed(s) = View(L(s)) /\ Listed(s).group \in {None, x}
          BY <4>1, <4>2, StillSeen DEF GroupPCs, SeenInv, Seen, Listed
        <4>6. x = g
          BY <1>0, <2>1, <4>5 DEF View
        <4>7. QED
          BY <3>1, <4>4, <4>6
      <3>4. QED
        BY <1>2, <2>1, <2>3, <3>1, <3>2, <3>3, RegroupedBy
    <2>4. QED
      BY <2>2, <2>3
  <1>3. QED
    BY <1>1, <1>2, TouchedBy DEF PlaceInv

\* Without faults, no step of a call leaves a group that nobody holds.
LEMMA OrphanOwn ==
  ASSUME MaxFaults = 0, PortsDistinct,
         TypeOK, OwnershipInv, PlaceInv, DropInv, GroupInv, SeenInv, OrphanInv,
         NEW s \in Services, \A t \in Services : t # s => call'[t] = call[t], CallStepOf(s),
         NEW g \in GroupIds, group'[g].up
  PROVE  Held(g)'
  <1> DEFINE c == call[s]
             d == call'[s]
  <1>1. ~Abort(s)
    BY DEF Abort, TypeOK
  <1>2. CASE CreateIPGroup(s) /\ g = d.grp
    BY <1>2, NewGroupDoes DEF Held
  <1>3. CASE ~(CreateIPGroup(s) /\ g = d.grp)
    <2>1. group[g].up
      <3>1. CASE UpdateIPGroup(s)
        <4>1. PICK x, y : group' = [group EXCEPT ![x].list = y]
          BY <3>1 DEF UpdateIPGroup
        <4>2. group \in [GroupIds -> Group]
          BY DEF TypeOK
        <4>3. group'[g].up = group[g].up
          BY <4>1, <4>2 DEF Group
        <4>4. QED
          BY <4>3
      <3>2. CASE CreateIPGroup(s)
        BY <1>3, <3>2, NewGroupDoes
      <3>3. CASE DropIPGroup(s)
        <4>1. PICK x : group' = [group EXCEPT ![x] = NoGroup] \/ group' = group
          BY <3>3 DEF DropIPGroup
        <4>2. ~NoGroup.up
          BY DEF NoGroup
        <4>3. QED
          BY <4>1, <4>2 DEF TypeOK
      <3>4. QED
        BY <3>1, <3>2, <3>3, GroupsBy
    <2>2. CASE Bound(g)
      <3>1. PICK sl \in Slots : listener[sl].up /\ listener[sl].group = g
        BY <2>2 DEF Bound
      <3>2. \/ listener'[sl].up /\ listener'[sl].group = g
            \/ d.pc = "dropGroup" /\ d.existing[d.key].group = g
        BY <3>1, HeldByListener
      <3>3. QED
        BY <3>2 DEF Held, Bound, Listed
    <2>3. ASSUME NEW t \in Services, call[t].pc = "attachGroup", call[t].grp = g
          PROVE  Held(g)'
      <3>1. CASE t # s
        BY <2>3, <3>1 DEF Held
      <3>2. CASE t = s
        <4>1. L(s).up
          BY <2>3, <3>2, StillSeen DEF GroupPCs
        <4>2. ~refused(s)
          BY <2>1, <2>3, <3>2, <4>1 DEF refused, At
        <4>3. ~Start(s) /\ ~Find(s) /\ ~Teardown(s) /\ ~Return(s) /\ ~Refused(s)
          BY <2>3, <3>2, <4>2, StartDoes, FindDoes, TeardownDoes
             DEF Return, Refused, At, DropPCs
        <4>4. AttachIPGroup(s)
          BY <1>1, <2>3, <3>2, <4>3 DEF CallStepOf, Reconcile, CreateListener, UpdateIdleTimeout,
             KeepListener, ReconcileIPGroup, DisableIPGroup, UpdateIPGroup, CreateIPGroup, GetPool,
             UpdatePool, CreatePool, FindPoolOfPort, ListMembers, MembersDone, RemoveMember,
             ReconcileMonitor, DeleteMonitor, CreateMonitor, UpdateMonitor, At
        <4>5. c.pc \in PortPCs /\ Slot(s) \in Slots /\ L(s) \in Listener
          BY <2>3, <3>2, SlotTyped DEF PortPCs
        <4>6. PICK x : x = c.grp
          OBVIOUS
        <4>7. listener'[Slot(s)] = [L(s) EXCEPT !.group = x, !.enable = TRUE]
          BY <4>4, <4>5, <4>6, SetLDoes DEF AttachIPGroup
        <4>8. listener'[Slot(s)].up /\ listener'[Slot(s)].group = g
          BY <2>3, <3>2, <4>1, <4>5, <4>6, <4>7 DEF Listener
        <4>9. PICK sl \in Slots : listener'[sl].up /\ listener'[sl].group = g
          BY <4>5, <4>8
        <4>10. QED
          BY <4>9 DEF Held, Bound
      <3>3. QED
        BY <3>1, <3>2
    <2>4. ASSUME NEW t \in Services, call[t].pc = "dropGroup", Listed(t).group = g
          PROVE  Held(g)'
      <3>1. CASE t # s
        BY <2>4, <3>1 DEF Held, Listed
      <3>2. CASE t = s
        <4>1. Attached(s)
          BY <2>1, <2>4, <3>2, NamesAssumption DEF Attached
        <4>2. ~Bound(g) /\ group[g].name = <<s, c.key>>
          BY <2>4, <3>2, <4>1, NotBound DEF Named
        <4>3. ~refused(s)
          BY <2>4, <3>2, <4>2 DEF refused, At
        <4>4. ~Start(s) /\ ~Find(s) /\ ~Reconcile(s) /\ ~Return(s) /\ ~Refused(s)
          BY <2>4, <3>2, <4>3, StartDoes, FindDoes, ReconcileDoes
             DEF Return, Refused, At, PortPCs
        <4>5. DropIPGroup(s)
          BY <1>1, <2>4, <3>2, <4>4 DEF CallStepOf, Teardown, PickListener, DropFindPool,
             DropMonitor, DropListMembers, DropMember, DropPool, DropListener, SweepDone,
             DeleteLoadBalancer, ReleaseEip, At
        <4>6. group[Listed(s).group].name[1] = s
          BY <2>4, <3>2, <4>2
        <4>7. group' = [group EXCEPT ![Listed(s).group] = NoGroup]
          BY <4>1, <4>5, <4>6 DEF DropIPGroup
        <4>8. ~group'[g].up
          BY <2>4, <3>2, <4>7 DEF TypeOK, NoGroup
        <4>9. QED
          BY <4>8
      <3>3. QED
        BY <3>1, <3>2
    <2>5. QED
      BY <2>1, <2>2, <2>3, <2>4 DEF OrphanInv, Held
  <1>4. QED
    BY <1>2, <1>3

\* A deleted Service leaves no whitelist group behind (deleteIPGroup), if no API call
\* fails, its id annotation is not edited, and Services that share a load balancer use
\* ports of their own, each once, and not those of the user's listeners: a group is
\* deleted with the listener that a deletion tears down, or none was made.
THEOREM NoGroupLeft ==
  ASSUME MaxFaults = 0, OneBalancer, PortsDisjoint, UserPortsFree, PortsDistinct
  PROVE  Spec => []GoneLeavesNoGroup
  <1>1. ASSUME Init PROVE OrphanInv
    BY <1>1 DEF Init, OrphanInv, NoGroup
  <1>2. ASSUME TypeOK, OwnershipInv, PlaceInv, DropInv, GroupInv, SeenInv, OrphanInv, [Next]_vars
        PROVE  OrphanInv'
    <2>1. ASSUME NEW s \in Services, \A t \in Services : t # s => call'[t] = call[t], CallStepOf(s)
          PROVE  OrphanInv'
      BY <1>2, <2>1, OrphanOwn DEF OrphanInv
    <2>2. ~Crash
      BY <1>2 DEF Crash, TypeOK
    <2>3. CASE Environment \/ UNCHANGED vars
      BY <1>2, <2>3, EnvironmentDoes DEF vars, cloud, OrphanInv, Held, Bound, Listed
    <2>4. QED
      BY <1>2, <2>1, <2>2, <2>3, StepsAre DEF CallStepOf
  <1>3. ASSUME TypeOK, StageInv, PlaceInv, CleanInv, GroupInv, OrphanInv,
               NEW s \in Services, phase[s] = "gone", NEW g \in GroupIds, group[g].up,
               group[g].name[1] = s
        PROVE  FALSE
    <2>1. CASE Bound(g)
      <3>1. PICK sl \in Slots : listener[sl].up /\ listener[sl].group = g
        BY <2>1 DEF Bound
      <3>2. PICK t \in Services : Wants(t, sl) /\ Named(g, t, sl[2])
        BY <1>3, <3>1, NamesAssumption DEF GroupInv, BoundNamed
      <3>3. t = s
        BY <1>3, <3>2 DEF Named
      <3>4. listener[sl].owner # User
        BY <1>3, <3>1, <3>2 DEF PlaceInv, Origin, UserPortsFree
      <3>5. listener[sl].owner \in Services /\ Wants(listener[sl].owner, sl)
        BY <1>3, <3>1, <3>4 DEF TypeOK, Listener, PlaceInv, Origin
      <3>6. listener[sl].owner = s
        BY <3>2, <3>3, <3>5 DEF PortsDisjoint
      <3>7. QED
        BY <1>3, <3>1, <3>6 DEF CleanInv, Cleared
    <2>2. ASSUME NEW t \in Services, NEW k \in Keys, Counts(t, call[t], g, k) PROVE FALSE
      <3>1. group[g].name = <<t, k>>
        BY <1>3, <2>2 DEF GroupInv, Counted, Named
      <3>2. t = s
        BY <1>3, <3>1
      <3>3. call[s].pc = "idle"
        BY <1>3 DEF StageInv, Stage
      <3>4. QED
        BY <2>2, <3>2, <3>3 DEF Counts, Relevant, PortPCs, DropPCs
    <2>3. ASSUME NEW t \in Services, call[t].pc = "attachGroup", call[t].grp = g PROVE FALSE
      <3>1. call[t].key \in Keys /\ Counts(t, call[t], g, call[t].key)
        BY <1>3, <2>3, SlotTyped DEF Counts, PortPCs
      <3>2. QED
        BY <2>2, <3>1
    <2>4. ASSUME NEW t \in Services, call[t].pc = "dropGroup", Listed(t).group = g PROVE FALSE
      <3>1. call[t].key \in Keys /\ Counts(t, call[t], g, call[t].key)
        BY <1>3, <2>4, SlotTyped DEF Counts, Relevant, Listed, PortPCs, DropPCs
      <3>2. QED
        BY <2>2, <3>1
    <2>5. QED
      BY <1>3, <2>1, <2>3, <2>4 DEF OrphanInv, Held
  <1>4. TypeOK /\ StageInv /\ PlaceInv /\ CleanInv /\ GroupInv /\ OrphanInv => GoneLeavesNoGroup
    BY <1>3 DEF GoneLeavesNoGroup
  <1>5. QED
    BY <1>1, <1>2, <1>4, TypeCorrect, OwnershipHolds, StageHolds, PlaceHolds, CleanHolds,
       GroupHolds, SeenHolds, PTL DEF Spec
=============================================================================
