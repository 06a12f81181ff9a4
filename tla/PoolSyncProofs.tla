--------------------------- MODULE PoolSyncProofs ---------------------------
(***************************************************************************)
(* Proofs about PoolSync, for every set of nodes and of pool settings and   *)
(* any number of changes.                                                  *)
(***************************************************************************)
EXTENDS PoolSync, TLAPS

\* What holds of a call while it runs.  The first conjunct is about every call,
\* the fourth only about one that runs alone: the other call makes its listing
\* stale.
CallInv(w) ==
    LET c == call[w]
    IN  /\ ~Rests(c) => stable \subseteq c.want
        /\ c.alone => ~Rests(c) /\ Rests(call[Other(w)])
        /\ c.pc = "sync" => c.want # {}
        /\ (c.pc = "sync" /\ c.alone) => c.have = members
        /\ (w = "ensure" /\ c.pc \in {"list", "sync"}) => alg = c.alg

SyncInv ==
    /\ TypeOK
    /\ stable \subseteq nodes
    /\ \A w \in Workers : CallInv(w)

-----------------------------------------------------------------------------
LEMMA WorkersAreTwo ==
    ASSUME NEW w \in Workers
    PROVE  /\ Other(w) \in Workers
           /\ Other(w) # w
           /\ Other(Other(w)) = w
           /\ \A v \in Workers : v = w \/ v = Other(w)
BY DEF Workers, Other

\* A step of one call leaves the record of the other alone.
LEMMA OneCallMoves ==
    ASSUME NEW w \in Workers, NEW d \in Call, call \in [Workers -> Call], Goto(w, d)
    PROVE  /\ call' \in [Workers -> Call]
           /\ call'[w] = d
           /\ call'[Other(w)] = call[Other(w)]
<1>1. call' = [call EXCEPT ![w] = d]
  BY DEF Goto
<1>2. Other(w) \in Workers /\ Other(w) # w
  BY WorkersAreTwo
<1> QED BY <1>1, <1>2

LEMMA EndedCall ==
    ASSUME NEW c \in Call
    PROVE  /\ Ended(c) \in Call
           /\ Ended(c).pc = "idle"
           /\ Ended(c).alone = FALSE
BY DEF Ended, Call

\* What a step of a running call does to its own record.
Moves(w, d) ==
    /\ w \in Workers
    /\ ~Rests(call[w])
    /\ d \in Call
    /\ Goto(w, d)

\* Every step of the specification is a change of the Service or of the nodes,
\* the start of a call, a step of one call, or a restart.
LEMMA GetPoolMoves ==
    ASSUME TypeOK, GetPool
    PROVE  LET c == call["ensure"]
               d == [c EXCEPT !.pc = IF alg = c.alg THEN "list" ELSE "update"]
           IN  Moves("ensure", d)
<1> DEFINE c == call["ensure"]
           d == [c EXCEPT !.pc = IF alg = c.alg THEN "list" ELSE "update"]
<1>1. c \in Call /\ "ensure" \in Workers
  BY DEF TypeOK, Workers
<1>2. d \in Call
  BY <1>1 DEF Call
<1>3. c.pc = "pool" /\ Goto("ensure", d)
  BY DEF GetPool
<1> QED BY <1>1, <1>2, <1>3 DEF Moves, Rests

LEMMA UpdatePoolMoves ==
    ASSUME TypeOK, UpdatePool
    PROVE  LET c == call["ensure"] IN Moves("ensure", [c EXCEPT !.pc = "list"])
<1> DEFINE c == call["ensure"]
           d == [c EXCEPT !.pc = "list"]
<1>1. c \in Call /\ "ensure" \in Workers
  BY DEF TypeOK, Workers
<1>2. d \in Call
  BY <1>1 DEF Call
<1>3. c.pc = "update" /\ Goto("ensure", d)
  BY DEF UpdatePool
<1> QED BY <1>1, <1>2, <1>3 DEF Moves, Rests

LEMMA ListMoves ==
    ASSUME TypeOK, NEW w \in Workers, List(w)
    PROVE  LET c == call[w] IN Moves(w, [c EXCEPT !.pc = "sync", !.have = members])
<1> DEFINE c == call[w]
           d == [c EXCEPT !.pc = "sync", !.have = members]
<1>1. c \in Call /\ members \in SUBSET Nodes
  BY DEF TypeOK
<1>2. d \in Call
  BY <1>1 DEF Call
<1>3. c.pc = "list" /\ Goto(w, d)
  BY DEF List
<1> QED BY <1>2, <1>3 DEF Moves, Rests

LEMMA AddMoves ==
    ASSUME TypeOK, NEW w \in Workers, NEW m \in Nodes, Add(w, m)
    PROVE  LET c == call[w] IN Moves(w, [c EXCEPT !.have = @ \cup {m}])
<1> DEFINE c == call[w]
           d == [c EXCEPT !.have = @ \cup {m}]
<1>1. c \in Call
  BY DEF TypeOK
<1>2. d \in Call
  BY <1>1 DEF Call
<1>3. c.pc = "sync" /\ Goto(w, d)
  BY DEF Add
<1> QED BY <1>2, <1>3 DEF Moves, Rests

LEMMA RemoveMoves ==
    ASSUME TypeOK, NEW w \in Workers, NEW m \in Nodes, Remove(w, m)
    PROVE  LET c == call[w] IN Moves(w, [c EXCEPT !.have = @ \ {m}])
<1> DEFINE c == call[w]
           d == [c EXCEPT !.have = @ \ {m}]
<1>1. c \in Call
  BY DEF TypeOK
<1>2. d \in Call
  BY <1>1 DEF Call
<1>3. c.pc = "sync" /\ Goto(w, d)
  BY DEF Remove
<1> QED BY <1>2, <1>3 DEF Moves, Rests

\* A call ends, whether it is done or has failed.
LEMMA EndMoves ==
    ASSUME TypeOK, NEW w \in Workers, Done(w) \/ Fail(w)
    PROVE  Moves(w, Ended(call[w]))
<1>1. Ended(call[w]) \in Call
  BY EndedCall DEF TypeOK
<1>2. Goto(w, Ended(call[w])) /\ ~Rests(call[w])
  BY DEF Done, Fail, Rests
<1> QED BY <1>1, <1>2 DEF Moves

-----------------------------------------------------------------------------
\* The record a call starts with, and the one of the call it overlaps.
LEMMA BeginStarts ==
    ASSUME TypeOK, NEW w \in Workers, Begin(w)
    PROVE  /\ call' \in [Workers -> Call]
           /\ call'[w].pc \in {"pool", "list"}
           /\ w = "ensure" => call'[w].pc = "pool"
           /\ call'[w].want = nodes
           /\ w = "ensure" => call'[w].alg \in Algs
           /\ call'[w].alone = Rests(call[Other(w)])
           /\ call'[Other(w)] = [call[Other(w)] EXCEPT !.alone = FALSE]
<1> DEFINE first == IF w = "ensure" THEN "pool" ELSE "list"
           o == call[Other(w)]
           d == [pc |-> first, alg |-> IF w = "ensure" THEN wantAlg ELSE None, want |-> nodes,
                 have |-> {}, alone |-> Rests(o)]
<1>1. call \in [Workers -> Call] /\ nodes \in SUBSET Nodes /\ wantAlg \in Algs
  BY DEF TypeOK
<1>2. Other(w) \in Workers /\ Other(w) # w
  BY WorkersAreTwo
<1>3. o \in Call
  BY <1>1, <1>2
<1>4. d \in Call
  BY <1>1 DEF Call, Rests
<1>5. [o EXCEPT !.alone = FALSE] \in Call
  BY <1>3 DEF Call
<1>6. call' = Started(w, first)
  BY DEF Begin
<1>7. call' = [v \in Workers |-> CASE v = w -> d [] v # w -> [call[v] EXCEPT !.alone = FALSE]]
  BY <1>6 DEF Started
<1>8. call'[w] = d
  BY <1>7
<1>9. call'[Other(w)] = [o EXCEPT !.alone = FALSE]
  BY <1>2, <1>7
<1>10. \A v \in Workers : call'[v] \in Call
  BY <1>4, <1>5, <1>8, <1>9, WorkersAreTwo
<1>11. call' \in [Workers -> Call]
  BY <1>7, <1>10
<1> HIDE DEF first
<1>12. /\ call'[w].pc = first /\ call'[w].want = nodes /\ call'[w].alone = Rests(o)
       /\ w = "ensure" => call'[w].alg = wantAlg
  BY <1>8
<1>13. first \in {"pool", "list"} /\ (w = "ensure" => first = "pool")
  BY DEF first
<1> QED BY <1>1, <1>9, <1>11, <1>12, <1>13

\* A restart ends every call.
LEMMA RestartEnds ==
    ASSUME TypeOK, Restart
    PROVE  /\ call' \in [Workers -> Call]
           /\ \A w \in Workers : call'[w].pc = "idle" /\ call'[w].alone = FALSE
<1>1. call' = [w \in Workers |-> Ended(call[w])]
  BY DEF Restart
<1>2. \A w \in Workers : call[w] \in Call
  BY DEF TypeOK
<1>3. \A w \in Workers : Ended(call[w]) \in Call /\ Ended(call[w]).pc = "idle"
                                                 /\ Ended(call[w]).alone = FALSE
  BY <1>2, EndedCall
<1> QED BY <1>1, <1>3

-----------------------------------------------------------------------------
\* Every variable has its type, throughout every behaviour.
THEOREM TypeCorrect == Spec => []TypeOK
<1>1. Init => TypeOK
  BY DEF Init, TypeOK, Call, Workers, Rests
<1>2. ASSUME TypeOK, [Next]_vars
      PROVE  TypeOK'
  <2>work. "ensure" \in Workers /\ "update" \in Workers
    BY DEF Workers
  <2> DEFINE Typed == /\ call' \in [Workers -> Call]
                      /\ Rests(call["ensure"])' \/ call'["ensure"].alg \in Algs
  <2>moves. ASSUME NEW w, NEW d, Moves(w, d), d.alg = call[w].alg \/ d.pc = "idle"
            PROVE  Typed
    <3>1. /\ w \in Workers /\ ~Rests(call[w])
          /\ call' \in [Workers -> Call]
          /\ call'[w] = d
          /\ call'[Other(w)] = call[Other(w)]
      BY <1>2, <2>moves, OneCallMoves DEF Moves, TypeOK
    <3>2. CASE w = "ensure"
      BY <1>2, <2>moves, <3>1, <3>2 DEF TypeOK, Rests
    <3>3. CASE w # "ensure"
      <4>1. Other(w) = "ensure"
        BY <3>3 DEF Other
      <4> QED BY <1>2, <3>1, <4>1 DEF TypeOK, Rests
    <3> QED BY <3>2, <3>3
  <2>1. CASE EditService
    BY <1>2, <2>1, <2>work DEF EditService, TypeOK
  <2>2. CASE NodesChange
    BY <1>2, <2>2, <2>work DEF NodesChange, TypeOK
  <2>3. CASE GetPool
    <3> DEFINE d == [call["ensure"] EXCEPT !.pc = IF alg = call["ensure"].alg THEN "list" ELSE "update"]
    <3>0. call["ensure"] \in Call
      BY <1>2, <2>work DEF TypeOK
    <3>1. Moves("ensure", d) /\ d.alg = call["ensure"].alg
      BY <1>2, <2>3, <3>0, GetPoolMoves DEF Call
    <3> HIDE DEF d
    <3>2. Typed
      BY <2>moves, <3>1
    <3> QED BY <1>2, <2>3, <3>2 DEF GetPool, TypeOK
  <2>4. CASE UpdatePool
    <3>0. call["ensure"] \in Call
      BY <1>2, <2>work DEF TypeOK
    <3>1. Typed
      BY <1>2, <2>4, <2>moves, <3>0, UpdatePoolMoves DEF Call
    <3>2. alg' = call["ensure"].alg /\ ~Rests(call["ensure"])
      BY <2>4 DEF UpdatePool, Rests
    <3> QED BY <1>2, <2>4, <3>1, <3>2 DEF UpdatePool, TypeOK
  <2>5. ASSUME NEW w \in Workers, Begin(w)
        PROVE  TypeOK'
    <3>1. Typed
      <4>1. CASE w = "ensure"
        BY <1>2, <2>5, <4>1, BeginStarts
      <4>2. CASE w # "ensure"
        <5>1. Other(w) = "ensure" /\ call["ensure"] \in Call
          BY <1>2, <2>work, <4>2 DEF Other, TypeOK
        <5>2. call' \in [Workers -> Call] /\ call'["ensure"] = [call["ensure"] EXCEPT !.alone = FALSE]
          BY <1>2, <2>5, <5>1, BeginStarts
        <5> QED BY <1>2, <5>1, <5>2 DEF TypeOK, Rests, Call
      <4> QED BY <4>1, <4>2
    <3> QED BY <1>2, <2>5, <3>1 DEF Begin, TypeOK
  <2>6. ASSUME NEW w \in Workers, List(w)
        PROVE  TypeOK'
    <3>0. call[w] \in Call
      BY <1>2 DEF TypeOK
    <3>1. Typed
      BY <1>2, <2>6, <2>moves, <3>0, ListMoves DEF Call
    <3> QED BY <1>2, <2>6, <3>1 DEF List, TypeOK
  <2>7. ASSUME NEW w \in Workers, NEW m \in Nodes, Add(w, m)
        PROVE  TypeOK'
    <3>0. call[w] \in Call
      BY <1>2 DEF TypeOK
    <3>1. Typed
      BY <1>2, <2>7, <2>moves, <3>0, AddMoves DEF Call
    <3> QED BY <1>2, <2>7, <3>1 DEF Add, TypeOK
  <2>8. ASSUME NEW w \in Workers, NEW m \in Nodes, Remove(w, m)
        PROVE  TypeOK'
    <3>0. call[w] \in Call
      BY <1>2 DEF TypeOK
    <3>1. Typed
      BY <1>2, <2>8, <2>moves, <3>0, RemoveMoves DEF Call
    <3> QED BY <1>2, <2>8, <3>1 DEF Remove, TypeOK
  <2>9. ASSUME NEW w \in Workers, Done(w) \/ Fail(w)
        PROVE  TypeOK'
    <3>1. Typed
      BY <1>2, <2>9, <2>moves, EndMoves, EndedCall DEF TypeOK
    <3> QED BY <1>2, <2>9, <2>work, <3>1 DEF Done, Fail, TypeOK
  <2>10. CASE Restart
    <3>1. Typed
      BY <1>2, <2>10, <2>work, RestartEnds DEF Rests
    <3> QED BY <1>2, <2>10, <3>1 DEF Restart, TypeOK
  <2>11. CASE UNCHANGED vars
    BY <1>2, <2>11 DEF vars, TypeOK
  <2> QED BY <1>2, <2>1, <2>2, <2>3, <2>4, <2>5, <2>6, <2>7, <2>8, <2>9, <2>10, <2>11 DEF Next
<1> QED BY <1>1, <1>2, PTL DEF Spec

-----------------------------------------------------------------------------
\* A step of one call, alg included, keeps what holds of the other one.
LEMMA OtherKept ==
    ASSUME SyncInv, NEW w, NEW d, Moves(w, d), UNCHANGED stable,
           w = "ensure" \/ UNCHANGED alg
    PROVE  CallInv(Other(w))'
<1>1. /\ w \in Workers /\ ~Rests(call[w])
      /\ call'[Other(w)] = call[Other(w)]
      /\ Other(w) \in Workers /\ Other(Other(w)) = w /\ Other(w) # w
  BY OneCallMoves, WorkersAreTwo DEF Moves, SyncInv, TypeOK
<1>2. CallInv(Other(w))
  BY <1>1 DEF SyncInv
<1>3. ~call[Other(w)].alone
  BY <1>1, <1>2 DEF CallInv
<1>4. Other(w) = "ensure" => alg' = alg
  BY <1>1 
<1> QED BY <1>1, <1>2, <1>3, <1>4 DEF CallInv, Rests

\* So a step keeps the invariant if it keeps what holds of its own call.
LEMMA OwnIsEnough ==
    ASSUME SyncInv, TypeOK', NEW w, NEW d, Moves(w, d), UNCHANGED <<stable, nodes>>,
           w = "ensure" \/ UNCHANGED alg,
           ~Rests(d) => stable \subseteq d.want,
           d.alone => ~Rests(d) /\ call[w].alone,
           d.pc = "sync" => d.want # {},
           (d.pc = "sync" /\ d.alone) => d.have = members',
           (w = "ensure" /\ d.pc \in {"list", "sync"}) => alg' = d.alg
    PROVE  SyncInv'
<1>1. /\ w \in Workers
      /\ call'[w] = d
      /\ call'[Other(w)] = call[Other(w)]
      /\ \A v \in Workers : v = w \/ v = Other(w)
  BY OneCallMoves, WorkersAreTwo DEF Moves, SyncInv, TypeOK
<1>2. CallInv(Other(w))'
  BY OtherKept
<1>3. call[w].alone => Rests(call[Other(w)])
  BY <1>1 DEF SyncInv, CallInv
<1>4. CallInv(w)'
  BY <1>1, <1>3 DEF CallInv, Rests
<1>5. (stable \subseteq nodes)'
  BY DEF SyncInv
<1> QED BY <1>1, <1>2, <1>4, <1>5 DEF SyncInv

LEMMA SyncInvInvariant == Spec => []SyncInv
<1>1. Init => SyncInv
  <2> SUFFICES ASSUME Init PROVE SyncInv
    OBVIOUS
  <2>1. TypeOK
    BY DEF Init, TypeOK, Call, Workers, Rests
  <2>2. \A w \in Workers : CallInv(w)
    BY DEF Init, CallInv, Rests
  <2> QED BY <2>1, <2>2 DEF Init, SyncInv
<1>2. ASSUME SyncInv, TypeOK', [Next]_vars
      PROVE  SyncInv'
  <2>typed. /\ TypeOK
            /\ "ensure" \in Workers
            /\ \A w \in Workers : call[w] \in Call
            /\ \A w \in Workers : CallInv(w)
    BY <1>2 DEF SyncInv, TypeOK, Workers
  <2>1. CASE EditService
    BY <1>2, <2>1 DEF EditService, SyncInv, CallInv
  <2>2. CASE NodesChange
    <3>1. \A w \in Workers : CallInv(w)'
      BY <2>2, <2>typed DEF NodesChange, CallInv
    <3> QED BY <1>2, <2>2, <3>1 DEF NodesChange, SyncInv
  <2>3. CASE GetPool
    <3> DEFINE c == call["ensure"]
               d == [c EXCEPT !.pc = IF alg = c.alg THEN "list" ELSE "update"]
    <3>1. Moves("ensure", d) /\ CallInv("ensure") /\ c \in Call
      BY <2>typed, <2>3, GetPoolMoves
    <3>2. UNCHANGED <<stable, nodes, alg>> /\ ~Rests(c)
      BY <2>3 DEF GetPool, Rests
    <3>3. /\ d.want = c.want /\ d.alone = c.alone /\ d.alg = c.alg
          /\ d.pc \in {"list", "update"} /\ (d.pc = "list" => alg = c.alg)
      BY <3>1 DEF Call
    <3>4. ~Rests(d)
      BY <3>3 DEF Rests
    <3> HIDE DEF d
    <3> QED BY <1>2, <3>1, <3>2, <3>3, <3>4, OwnIsEnough DEF CallInv
  <2>4. CASE UpdatePool
    <3> DEFINE c == call["ensure"]
               d == [c EXCEPT !.pc = "list"]
    <3>1. Moves("ensure", d) /\ CallInv("ensure") /\ c \in Call
      BY <2>typed, <2>4, UpdatePoolMoves
    <3>2. UNCHANGED <<stable, nodes>> /\ ~Rests(c) /\ alg' = c.alg
      BY <2>4 DEF UpdatePool, Rests
    <3>3. d.want = c.want /\ d.alone = c.alone /\ d.alg = c.alg /\ d.pc = "list"
      BY <3>1 DEF Call
    <3>4. ~Rests(d)
      BY <3>3 DEF Rests
    <3> HIDE DEF d
    <3> QED BY <1>2, <3>1, <3>2, <3>3, <3>4, OwnIsEnough DEF CallInv
  <2>5. ASSUME NEW w \in Workers, Begin(w)
        PROVE  SyncInv'
    <3>1. /\ call'[w].pc \in {"pool", "list"}
          /\ w = "ensure" => call'[w].pc = "pool"
          /\ call'[w].want = nodes
          /\ call'[w].alone = Rests(call[Other(w)])
          /\ call'[Other(w)] = [call[Other(w)] EXCEPT !.alone = FALSE]
      BY <2>typed, <2>5, BeginStarts
    <3>2. UNCHANGED <<stable, nodes, alg, members>>
      BY <2>5 DEF Begin
    <3>3. Other(w) \in Workers /\ Other(Other(w)) = w /\ \A v \in Workers : v = w \/ v = Other(w)
      BY WorkersAreTwo
    <3>4. call[Other(w)] \in Call /\ CallInv(Other(w))
      BY <2>typed, <3>3
    <3>5. /\ call'[Other(w)].alone = FALSE
          /\ call'[Other(w)].pc = call[Other(w)].pc
          /\ call'[Other(w)].want = call[Other(w)].want
          /\ call'[Other(w)].alg = call[Other(w)].alg
      BY <3>1, <3>4 DEF Call
    <3>6. CallInv(Other(w))'
      BY <3>2, <3>4, <3>5 DEF CallInv, Rests
    <3>7. stable \subseteq nodes
      BY <1>2 DEF SyncInv
    <3>8. CallInv(w)'
      BY <3>1, <3>2, <3>5, <3>7 DEF CallInv, Rests
    <3> QED BY <1>2, <3>2, <3>3, <3>6, <3>7, <3>8 DEF SyncInv
  <2>6. ASSUME NEW w \in Workers, List(w)
        PROVE  SyncInv'
    <3> DEFINE c == call[w]
               d == [c EXCEPT !.pc = "sync", !.have = members]
    <3>1. Moves(w, d) /\ CallInv(w) /\ c \in Call
      BY <2>typed, <2>6, ListMoves
    <3>2. UNCHANGED <<stable, nodes, alg, members>> /\ ~Rests(c) /\ c.pc = "list" /\ c.want # {}
      BY <2>6 DEF List, Rests
    <3>3. /\ d.want = c.want /\ d.alone = c.alone /\ d.alg = c.alg
          /\ d.pc = "sync" /\ d.have = members
      BY <3>1 DEF Call
    <3>4. ~Rests(d)
      BY <3>3 DEF Rests
    <3> HIDE DEF d
    <3> QED BY <1>2, <3>1, <3>2, <3>3, <3>4, OwnIsEnough DEF CallInv
  <2>7. ASSUME NEW w \in Workers, NEW m \in Nodes, Add(w, m)
        PROVE  SyncInv'
    <3> DEFINE c == call[w]
               d == [c EXCEPT !.have = @ \cup {m}]
    <3>1. Moves(w, d) /\ CallInv(w) /\ c \in Call
      BY <2>typed, <2>7, AddMoves
    <3>2. /\ UNCHANGED <<stable, nodes, alg>> /\ members' = members \cup {m}
          /\ ~Rests(c) /\ c.pc = "sync"
      BY <2>7 DEF Add, Rests
    <3>3. /\ d.want = c.want /\ d.alone = c.alone /\ d.alg = c.alg
          /\ d.pc = c.pc /\ d.have = c.have \cup {m}
      BY <3>1 DEF Call
    <3>4. ~Rests(d)
      BY <3>2, <3>3 DEF Rests
    <3> HIDE DEF d
    <3> QED BY <1>2, <3>1, <3>2, <3>3, <3>4, OwnIsEnough DEF CallInv
  <2>8. ASSUME NEW w \in Workers, NEW m \in Nodes, Remove(w, m)
        PROVE  SyncInv'
    <3> DEFINE c == call[w]
               d == [c EXCEPT !.have = @ \ {m}]
    <3>1. Moves(w, d) /\ CallInv(w) /\ c \in Call
      BY <2>typed, <2>8, RemoveMoves
    <3>2. /\ UNCHANGED <<stable, nodes, alg>> /\ members' = members \ {m}
          /\ ~Rests(c) /\ c.pc = "sync"
      BY <2>8 DEF Remove, Rests
    <3>3. /\ d.want = c.want /\ d.alone = c.alone /\ d.alg = c.alg
          /\ d.pc = c.pc /\ d.have = c.have \ {m}
      BY <3>1 DEF Call
    <3>4. ~Rests(d)
      BY <3>2, <3>3 DEF Rests
    <3> HIDE DEF d
    <3> QED BY <1>2, <3>1, <3>2, <3>3, <3>4, OwnIsEnough DEF CallInv
  <2>9. ASSUME NEW w \in Workers, Done(w) \/ Fail(w)
        PROVE  SyncInv'
    <3> DEFINE d == Ended(call[w])
    <3>1. Moves(w, d) /\ d.pc = "idle" /\ d.alone = FALSE
      BY <2>typed, <2>9, EndMoves, EndedCall
    <3>2. UNCHANGED <<stable, nodes, alg>>
      BY <2>9 DEF Done, Fail
    <3>3. Rests(d)
      BY <3>1 DEF Rests
    <3> HIDE DEF d
    <3> QED BY <1>2, <3>1, <3>2, <3>3, OwnIsEnough
  <2>10. CASE Restart
    <3>1. \A w \in Workers : call'[w].pc = "idle" /\ call'[w].alone = FALSE
      BY <2>typed, <2>10, RestartEnds
    <3>2. UNCHANGED <<stable, nodes>>
      BY <2>10 DEF Restart
    <3>3. \A w \in Workers : CallInv(w)'
      BY <3>1 DEF CallInv, Rests
    <3> QED BY <1>2, <3>2, <3>3 DEF SyncInv
  <2>11. CASE UNCHANGED vars
    BY <1>2, <2>11 DEF vars, SyncInv, CallInv
  <2> QED BY <1>2, <2>1, <2>2, <2>3, <2>4, <2>5, <2>6, <2>7, <2>8, <2>9, <2>10, <2>11 DEF Next
<1> QED BY <1>1, <1>2, TypeCorrect, PTL DEF Spec

-----------------------------------------------------------------------------
\* The members change only in the loops of reconcileMembers.
LEMMA MembersMove ==
    ASSUME [Next]_vars, members' # members
    PROVE  \E w \in Workers, m \in Nodes : Add(w, m) \/ Remove(w, m)
BY DEF Next, vars, EditService, NodesChange, GetPool, UpdatePool, Begin, List, Done, Fail, Restart

\* A node that was there all along keeps its place in the pool.
THEOREM StableKept == Spec => StableServed
<1>1. ASSUME SyncInv, [Next]_vars
      PROVE  stable' \cap members \subseteq members'
  <2>1. CASE members' = members
    BY <2>1
  <2>2. ASSUME NEW w \in Workers, NEW m \in Nodes, Add(w, m) \/ Remove(w, m)
        PROVE  stable' \cap members \subseteq members'
    <3>1. CASE Add(w, m)
      BY <3>1 DEF Add
    <3>2. CASE Remove(w, m)
      <4>1. stable \subseteq call[w].want
        BY <1>1, <3>2 DEF SyncInv, CallInv, Remove, Rests
      <4> QED BY <3>2, <4>1 DEF Remove
    <3> QED BY <2>2, <3>1, <3>2
  <2> QED BY <1>1, <2>1, <2>2, MembersMove
<1> QED BY <1>1, SyncInvInvariant, PTL DEF Spec, StableServed

\* A call that ran alone and succeeds leaves what it was asked for.
THEOREM AloneIsExact == Spec => AloneExact
<1>1. ASSUME SyncInv, NEW w \in Workers, Done(w), call[w].alone
      PROVE  members = call[w].want /\ (w = "ensure" => alg = call[w].alg)
  BY <1>1 DEF SyncInv, CallInv, Done
<1>2. SyncInv /\ [Next]_vars
        => [\A w \in Workers :
              ( Done(w) /\ call[w].alone )
                => ( members = call[w].want /\ (w = "ensure" => alg = call[w].alg) )]_vars
  BY <1>1
<1> QED BY <1>2, SyncInvInvariant, PTL DEF Spec, AloneExact

\* Only calls that overlap empty a pool.
THEOREM LastMemberIsKept == Spec => LastMemberKept
<1>1. ASSUME SyncInv, [Next]_vars, members # {}, members' = {}
      PROVE  \E w \in Workers : ~Rests(call[w]) /\ ~call[w].alone
  <2>1. PICK w \in Workers, m \in Nodes : Add(w, m) \/ Remove(w, m)
    BY <1>1, MembersMove
  <2>2. Remove(w, m)
    BY <1>1, <2>1 DEF Add
  <2>3. call[w].want # {} /\ (call[w].alone => call[w].have = members)
    BY <1>1, <2>2 DEF SyncInv, CallInv, Remove
  <2>4. call[w].want \subseteq call[w].have /\ m \notin call[w].want /\ members' = members \ {m}
    BY <2>2 DEF Remove
  <2>5. ~call[w].alone
    BY <1>1, <2>3, <2>4
  <2> QED BY <2>2, <2>5 DEF Remove, Rests
<1> QED BY <1>1, SyncInvInvariant, PTL DEF Spec, LastMemberKept
=============================================================================
