------------------------- MODULE PoolRequestsProofs -------------------------
(***************************************************************************)
(* Proofs about PoolRequests, for every set of nodes, any number of        *)
(* changes and any number of attempts.                                     *)
(***************************************************************************)
EXTENDS PoolRequests, TLAPS, FiniteSetTheorems

\* What the request of a running call is about.
Sound(w, c) ==
    /\ c \in Call
    /\ (w = "ensure" /\ ~Rests(c)) => c.alg \in Algs
    /\ c.op = "pool" => w = "ensure"
    /\ c.pc = "try" => c.op # "none"
    /\ (c.pc = "try" /\ c.op = "add") => c.node \in Nodes /\ c.node \in c.want \ c.have
    /\ (c.pc = "try" /\ c.op = "remove") => /\ c.want \subseteq c.have
                                            /\ c.node \in Nodes /\ c.node \in c.have \ c.want

CallsOK ==
    /\ call \in [Workers -> Call]
    /\ \A w \in Workers : Sound(w, call[w])

\* The variables that are not about one call.
RestOK ==
    /\ nodes \in SUBSET Nodes /\ stable \in SUBSET Nodes /\ members \in SUBSET Nodes
    /\ wantAlg \in Algs /\ alg \in Algs
    /\ due \in [Workers -> BOOLEAN]
    /\ edits \in 0 .. MaxEdits
    /\ status \in {"ACTIVE", "PENDING", "ERROR"}
    /\ by \in Workers \cup {"other", "nobody"}

ReqInv == CallsOK /\ RestOK

-----------------------------------------------------------------------------
LEMMA WorkersAreTwo ==
    ASSUME NEW w \in Workers
    PROVE  /\ Other(w) \in Workers
           /\ Other(w) # w
           /\ \A v \in Workers : v = w \/ v = Other(w)
BY DEF Workers, Other

LEMMA OneCallMoves ==
    ASSUME NEW w \in Workers, NEW d \in Call, call \in [Workers -> Call], Goto(w, d)
    PROVE  /\ call' \in [Workers -> Call]
           /\ call'[w] = d
           /\ \A v \in Workers \ {w} : call'[v] = call[v]
<1>1. call' = [call EXCEPT ![w] = d]
  BY DEF Goto
<1> QED BY <1>1

\* A record that names a new request, or none.
LEMMA AskingCall ==
    ASSUME NEW c \in Call, NEW pc \in {"idle", "pool", "list", "sync", "try", "reply", "wait"},
           NEW op \in {"none", "pool", "add", "remove"}, NEW node \in Nodes \cup {None}
    PROVE  /\ Asking(c, pc, op, node) \in Call
           /\ Asking(c, pc, op, node).pc = pc
           /\ Asking(c, pc, op, node).op = op
           /\ Asking(c, pc, op, node).node = node
           /\ Asking(c, pc, op, node).alg = c.alg
           /\ Asking(c, pc, op, node).want = c.want
           /\ Asking(c, pc, op, node).have = c.have
           /\ Asking(c, pc, op, node).alone = c.alone
<1>1. 0 \in 0 .. Steps
  BY StepsAssumption
<1>2. Asking(c, pc, op, node) \in Call
  BY <1>1 DEF Asking, Call
<1>3. /\ Asking(c, pc, op, node).pc = pc
      /\ Asking(c, pc, op, node).op = op
      /\ Asking(c, pc, op, node).node = node
  BY DEF Asking, Call
<1>4. /\ Asking(c, pc, op, node).alg = c.alg
      /\ Asking(c, pc, op, node).want = c.want
      /\ Asking(c, pc, op, node).have = c.have
      /\ Asking(c, pc, op, node).alone = c.alone
  BY DEF Asking, Call
<1> QED BY <1>2, <1>3, <1>4

\* A record that names a request about a member.
LEMMA AskingFor ==
    ASSUME NEW c \in Call, NEW op \in {"add", "remove"}, NEW m \in Nodes
    PROVE  /\ Asking(c, "try", op, m) \in Call
           /\ Asking(c, "try", op, m).pc = "try"
           /\ Asking(c, "try", op, m).op = op
           /\ Asking(c, "try", op, m).node = m
           /\ Asking(c, "try", op, m).alg = c.alg
           /\ Asking(c, "try", op, m).want = c.want
           /\ Asking(c, "try", op, m).have = c.have
           /\ Asking(c, "try", op, m).alone = c.alone
<1>1. 0 \in 0 .. Steps
  BY StepsAssumption
<1> QED BY <1>1 DEF Asking, Call

\* The records of PoolSync, and how a step changes one.
LEMMA AbsType ==
    ASSUME NEW c \in Call
    PROVE  absOf(c) \in Atomic!Call
<1>1. absPc(c) \in {"idle", "pool", "update", "list", "sync"}
  BY DEF absPc, Call
<1>2. c.alg \in Algs \cup {None} /\ c.want \in SUBSET Nodes /\ c.have \in SUBSET Nodes /\ c.alone \in BOOLEAN
  BY DEF Call
<1> QED BY <1>1, <1>2 DEF absOf, Atomic!Call

Becomes(o, n, pc, have, alone) ==
    n.pc = pc /\ n.alg = o.alg /\ n.want = o.want /\ n.have = have /\ n.alone = alone

LEMMA PcChanges ==
    ASSUME NEW o \in Atomic!Call, NEW n \in Atomic!Call, NEW pc, Becomes(o, n, pc, o.have, o.alone)
    PROVE  n = [o EXCEPT !.pc = pc]
BY DEF Becomes, Atomic!Call

LEMMA HaveChanges ==
    ASSUME NEW o \in Atomic!Call, NEW n \in Atomic!Call, NEW have, Becomes(o, n, o.pc, have, o.alone)
    PROVE  n = [o EXCEPT !.have = have]
BY DEF Becomes, Atomic!Call

LEMMA AloneChanges ==
    ASSUME NEW o \in Atomic!Call, NEW n \in Atomic!Call, Becomes(o, n, o.pc, o.have, FALSE)
    PROVE  n = [o EXCEPT !.alone = FALSE]
BY DEF Becomes, Atomic!Call

LEMMA EndedCall ==
    ASSUME NEW c \in Call
    PROVE  /\ Ended(c) \in Call
           /\ Ended(c).pc = "idle"
           /\ Ended(c).op = "none"
           /\ absOf(Ended(c)) = Atomic!Ended(absOf(c))
           /\ Ended(c).alg = None
<1> DEFINE d == Asking(c, "idle", "none", None)
<1>1. d \in Call /\ d.pc = "idle" /\ d.op = "none" /\ d.alg = c.alg
  BY AskingCall
<1>2. Ended(c) = [d EXCEPT !.alg = None, !.want = {}, !.have = {}, !.alone = FALSE]
  BY DEF Ended
<1> HIDE DEF d
<1>3. /\ Ended(c) \in Call
      /\ Ended(c).pc = "idle" /\ Ended(c).op = "none"
      /\ Ended(c).alg = None /\ Ended(c).want = {} /\ Ended(c).have = {} /\ Ended(c).alone = FALSE
  BY <1>1, <1>2 DEF Call
<1>4. absOf(Ended(c)) = [pc |-> "idle", alg |-> None, want |-> {}, have |-> {}, alone |-> FALSE]
  BY <1>3 DEF absOf, absPc
<1> DEFINE a == absOf(c)
<1>5. a = [pc |-> absPc(c), alg |-> c.alg, want |-> c.want, have |-> c.have, alone |-> c.alone]
  BY DEF absOf
<1>6. Atomic!Ended(a) = [a EXCEPT !.pc = "idle", !.alg = None, !.want = {}, !.have = {}, !.alone = FALSE]
  BY DEF Atomic!Ended
<1> HIDE DEF a
<1>7. Atomic!Ended(a) = [pc |-> "idle", alg |-> None, want |-> {}, have |-> {}, alone |-> FALSE]
  BY <1>5, <1>6
<1> QED BY <1>3, <1>4, <1>7 DEF a

\* The calls of PoolSync move with the calls that stand for them.
LEMMA AbsMoves ==
    ASSUME NEW w \in Workers, NEW d \in Call, call \in [Workers -> Call], Goto(w, d)
    PROVE  Atomic!Goto(w, absOf(d))
<1>1. call' = [call EXCEPT ![w] = d]
  BY DEF Goto
<1>2. absCall' = [v \in Workers |-> absOf(call'[v])]
  BY DEF absCall, absOf, absPc
<1>3. \A v \in Workers : call'[v] = IF v = w THEN d ELSE call[v]
  BY <1>1
<1>4. absCall' = [absCall EXCEPT ![w] = absOf(d)]
  BY <1>2, <1>3 DEF absCall
<1> QED BY <1>4 DEF Atomic!Goto

LEMMA AbsRests ==
    ASSUME NEW w \in Workers
    PROVE  /\ absCall[w] = absOf(call[w])
           /\ call[w] \in Call => (Atomic!Rests(absCall[w]) <=> Rests(call[w]))
<1>1. absCall[w] = absOf(call[w])
  BY DEF absCall
<1>2. ASSUME call[w] \in Call PROVE absPc(call[w]) = "idle" <=> call[w].pc = "idle"
  BY <1>2 DEF absPc, Call
<1> QED BY <1>1, <1>2 DEF Atomic!Rests, Rests, absOf

-----------------------------------------------------------------------------
LEMMA SoundStep ==
    ASSUME CallsOK, NEW w \in Workers, NEW d, Sound(w, d), Goto(w, d)
    PROVE  CallsOK'
<1>1. d \in Call /\ call \in [Workers -> Call]
  BY DEF Sound, CallsOK
<1>2. /\ call' \in [Workers -> Call]
      /\ call'[w] = d
      /\ \A v \in Workers \ {w} : call'[v] = call[v]
  BY <1>1, OneCallMoves
<1>3. \A v \in Workers : Sound(v, call'[v])
  BY <1>2 DEF CallsOK
<1> QED BY <1>2, <1>3 DEF CallsOK, Sound, Rests

LEMMA EndedIsSound ==
    ASSUME NEW w \in Workers, NEW c \in Call
    PROVE  Sound(w, Ended(c))
BY EndedCall DEF Sound, Rests

\* A record that asks for nothing is sound wherever its call was.
LEMMA AskingNothing ==
    ASSUME NEW w \in Workers, NEW c, Sound(w, c), ~Rests(c),
           NEW pc \in {"pool", "list", "sync", "wait"}
    PROVE  Sound(w, Asking(c, pc, "none", None))
<1> DEFINE d == Asking(c, pc, "none", None)
<1>0. c \in Call
  BY DEF Sound
<1>1. d \in Call /\ d.pc = pc /\ d.op = "none" /\ d.alg = c.alg
  BY <1>0, AskingCall
<1> HIDE DEF d
<1>2. Sound(w, d)
  BY <1>1 DEF Sound
<1> QED BY <1>2 DEF d

LEMMA FailsKeeps ==
    ASSUME ReqInv, NEW w \in Workers, Fails(w)
    PROVE  ReqInv'
<1>1. Sound(w, Ended(call[w])) /\ Goto(w, Ended(call[w]))
  BY EndedIsSound DEF Fails, Goto, ReqInv, CallsOK
<1>2. CallsOK'
  BY <1>1, SoundStep DEF ReqInv
<1>3. by' \in Workers \cup {"other", "nobody"}
  BY DEF Fails, Abandoned, ReqInv, RestOK
<1>4. due' \in [Workers -> BOOLEAN]
  BY DEF Fails, ReqInv, RestOK
<1> QED BY <1>2, <1>3, <1>4 DEF Fails, ReqInv, RestOK, env

LEMMA RestartsKeeps ==
    ASSUME ReqInv, Restarts
    PROVE  ReqInv'
<1>1. call' = [w \in Workers |-> Ended(call[w])]
  BY DEF Restarts
<1>2. \A w \in Workers : Sound(w, Ended(call[w]))
  BY EndedIsSound DEF ReqInv, CallsOK
<1>3. \A w \in Workers : Ended(call[w]) \in Call
  BY <1>2 DEF Sound
<1>4. CallsOK'
  <2>1. call' \in [Workers -> Call] /\ \A w \in Workers : Sound(w, call'[w])
    BY <1>1, <1>2, <1>3
  <2> QED BY <2>1 DEF CallsOK, Sound, Rests
<1>5. by' \in Workers \cup {"other", "nobody"}
  BY DEF Restarts, Abandoned, ReqInv, RestOK
<1>6. due' \in [Workers -> BOOLEAN]
  BY DEF Restarts
<1> QED BY <1>4, <1>5, <1>6 DEF Restarts, ReqInv, RestOK, env

\* A step that only moves a call to a sound record.
LEMMA GotoKeeps ==
    ASSUME ReqInv, NEW w \in Workers, NEW d, Sound(w, d), Goto(w, d),
           UNCHANGED <<env, due, cloud>>
    PROVE  ReqInv'
<1>1. CallsOK'
  BY SoundStep DEF ReqInv
<1> QED BY <1>1 DEF ReqInv, RestOK, env, cloud

-----------------------------------------------------------------------------
LEMMA BeginKeeps ==
    ASSUME ReqInv, NEW w \in Workers, Begin(w)
    PROVE  ReqInv'
<1> DEFINE pc == IF w = "ensure" THEN "wait" ELSE "list"
           a == Asking(call[w], pc, "none", None)
           alone == Rests(call[Other(w)])
           d == [a EXCEPT !.alg = IF w = "ensure" THEN wantAlg ELSE None, !.want = nodes,
                          !.have = {}, !.alone = alone]
           o == [call[Other(w)] EXCEPT !.alone = FALSE]
<1>0. /\ Other(w) \in Workers /\ Other(w) # w
      /\ \A v \in Workers : v = w \/ v = Other(w)
  BY WorkersAreTwo
<1>1. /\ call[w] \in Call /\ call[Other(w)] \in Call /\ Sound(Other(w), call[Other(w)])
      /\ nodes \in SUBSET Nodes /\ wantAlg \in Algs
  BY <1>0 DEF ReqInv, CallsOK, RestOK
<1>2. a \in Call /\ a.pc = pc /\ a.op = "none"
  BY <1>1, AskingCall
<1>3. call' = [v \in Workers |-> CASE v = w -> d [] v # w -> [call[v] EXCEPT !.alone = FALSE]]
  BY DEF Begin
<1>4. alone \in BOOLEAN
  BY DEF Rests
<1> HIDE DEF a, alone
<1>5. d \in Call /\ d.pc = pc /\ d.op = "none" /\ (w = "ensure" => d.alg = wantAlg)
  <2>1. (IF w = "ensure" THEN wantAlg ELSE None) \in Algs \cup {None}
    BY <1>1
  <2>2. d \in Call
    <3>1. \A x \in Algs \cup {None} :
            [a EXCEPT !.alg = x, !.want = nodes, !.have = {}, !.alone = alone] \in Call
      BY <1>1, <1>2, <1>4 DEF Call
    <3> QED BY <2>1, <3>1
  <2>3. d.pc = a.pc /\ d.op = a.op /\ (w = "ensure" => d.alg = wantAlg)
    BY <1>2 DEF Call
  <2> QED BY <1>2, <2>2, <2>3
<1>6. Sound(w, d)
  BY <1>1, <1>5 DEF Sound
<1>7. /\ o \in Call
      /\ o.pc = call[Other(w)].pc /\ o.op = call[Other(w)].op /\ o.node = call[Other(w)].node
      /\ o.alg = call[Other(w)].alg /\ o.want = call[Other(w)].want
      /\ o.have = call[Other(w)].have
  BY <1>1 DEF Call
<1>8. Sound(Other(w), o)
  BY <1>1, <1>7 DEF Sound, Rests
<1>9. call'[w] = d /\ call'[Other(w)] = o
  BY <1>0, <1>3
<1> HIDE DEF d, o
<1>10. \A v \in Workers : Sound(v, call'[v]) /\ call'[v] \in Call
  BY <1>0, <1>5, <1>6, <1>7, <1>8, <1>9
<1>11. call' \in [Workers -> Call]
  BY <1>3, <1>10
<1>12. CallsOK'
  BY <1>10, <1>11 DEF CallsOK, Sound, Rests
<1>13. due' \in [Workers -> BOOLEAN]
  BY DEF Begin, ReqInv, RestOK
<1> QED BY <1>12, <1>13 DEF Begin, ReqInv, RestOK, env, cloud

LEMMA GetPoolKeeps ==
    ASSUME ReqInv, GetPool
    PROVE  ReqInv'
<1> DEFINE c == call["ensure"]
           a == Asking(c, "try", "pool", None)
           l == [c EXCEPT !.pc = "list"]
<1>1. "ensure" \in Workers
  BY DEF Workers
<1>2. Sound("ensure", c) /\ c \in Call /\ ~Rests(c) /\ c.pc = "pool"
  BY <1>1 DEF ReqInv, CallsOK, Sound, GetPool, Rests
<1>3. l \in Call /\ l.pc = "list" /\ l.op = c.op /\ l.alg = c.alg
  BY <1>2 DEF Call
<1>4. a \in Call /\ a.pc = "try" /\ a.op = "pool" /\ a.alg = c.alg
  BY <1>2, AskingCall
<1>5. Goto("ensure", l) \/ Goto("ensure", a)
  BY DEF GetPool
<1>6. UNCHANGED <<env, due, cloud>>
  BY DEF GetPool
<1> HIDE DEF a, l
<1>7. Sound("ensure", l)
  BY <1>2, <1>3 DEF Sound
<1>8. Sound("ensure", a)
  BY <1>2, <1>4 DEF Sound
<1> QED BY <1>1, <1>5, <1>6, <1>7, <1>8, GotoKeeps

LEMMA ListKeeps ==
    ASSUME ReqInv, NEW w \in Workers, List(w)
    PROVE  ReqInv'
<1> DEFINE c == call[w]
           d == [c EXCEPT !.pc = "sync", !.have = members]
<1>1. Sound(w, c) /\ c \in Call /\ c.pc = "list" /\ members \in SUBSET Nodes
  BY DEF ReqInv, CallsOK, RestOK, Sound, List
<1>2. d \in Call /\ d.pc = "sync" /\ d.op = c.op /\ d.alg = c.alg
  BY <1>1 DEF Call
<1>3. (Goto(w, d) /\ UNCHANGED <<env, due, cloud>>) \/ Fails(w)
  BY DEF List
<1> HIDE DEF d
<1>4. Sound(w, d)
  BY <1>1, <1>2 DEF Sound, Rests
<1> QED BY <1>3, <1>4, GotoKeeps, FailsKeeps

LEMMA NextMemberKeeps ==
    ASSUME ReqInv, NEW w \in Workers, NEW m \in Nodes, NextMember(w, m)
    PROVE  ReqInv'
<1> DEFINE c == call[w]
           a == Asking(c, "try", "add", m)
           r == Asking(c, "try", "remove", m)
<1>1. Sound(w, c) /\ c \in Call /\ c.pc = "sync"
  BY DEF ReqInv, CallsOK, Sound, NextMember
<1>2. /\ a \in Call /\ a.pc = "try" /\ a.op = "add" /\ a.node = m
      /\ a.alg = c.alg /\ a.want = c.want /\ a.have = c.have
  BY <1>1, AskingFor
<1>3. /\ r \in Call /\ r.pc = "try" /\ r.op = "remove" /\ r.node = m
      /\ r.alg = c.alg /\ r.want = c.want /\ r.have = c.have
  BY <1>1, AskingFor
<1>4. UNCHANGED <<env, due, cloud>>
  BY DEF NextMember
<1>5. \/ m \in c.want \ c.have /\ Goto(w, a)
      \/ c.want \subseteq c.have /\ m \in c.have \ c.want /\ Goto(w, r)
  BY DEF NextMember
<1> HIDE DEF a, r
<1>6. m \in c.want \ c.have => Sound(w, a)
  BY <1>1, <1>2 DEF Sound, Rests
<1>7. c.want \subseteq c.have /\ m \in c.have \ c.want => Sound(w, r)
  BY <1>1, <1>3 DEF Sound, Rests
<1> QED BY <1>4, <1>5, <1>6, <1>7, GotoKeeps

LEMMA DoneKeeps ==
    ASSUME ReqInv, NEW w \in Workers, Done(w)
    PROVE  ReqInv'
<1>1. Goto(w, Ended(call[w])) /\ UNCHANGED <<env, due, cloud>>
  BY DEF Done
<1>2. Sound(w, Ended(call[w]))
  BY EndedIsSound DEF ReqInv, CallsOK
<1> QED BY <1>1, <1>2, GotoKeeps

LEMMA ConflictKeeps ==
    ASSUME ReqInv, NEW w \in Workers, Conflict(w)
    PROVE  ReqInv'
<1> DEFINE c == call[w]
           d == [c EXCEPT !.tries = @ + 1, !.named = c.op # "pool"]
<1>1. Sound(w, c) /\ c \in Call /\ c.pc = "try"
  BY DEF ReqInv, CallsOK, Sound, Conflict
<1>2. CASE c.tries + 1 < Steps /\ Goto(w, d) /\ UNCHANGED <<env, due, cloud>>
  <2>1. c.tries \in 0 .. Steps
    BY <1>1 DEF Call
  <2>2. c.tries + 1 \in 0 .. Steps
    BY <1>2, <2>1, StepsAssumption
  <2>3. /\ d \in Call /\ d.pc = "try" /\ d.op = c.op /\ d.node = c.node
        /\ d.alg = c.alg /\ d.want = c.want /\ d.have = c.have
    BY <1>1, <2>2 DEF Call
  <2> HIDE DEF d
  <2>4. Sound(w, d)
    BY <1>1, <2>3 DEF Sound, Rests
  <2> QED BY <1>2, <2>4, GotoKeeps
<1>3. CASE FailsOrPanics(w)
  BY <1>3, FailsKeeps, RestartsKeeps DEF FailsOrPanics
<1> QED BY <1>2, <1>3 DEF Conflict

\* What an accepted request leaves in the call.
AppliedHave(c) ==
    CASE c.op = "add" -> c.have \cup {c.node}
      [] c.op = "remove" -> c.have \ {c.node}
      [] OTHER -> c.have

LEMMA AppliedCall ==
    ASSUME NEW w \in Workers, NEW c, Sound(w, c), c.pc = "try"
    PROVE  LET d == [c EXCEPT !.pc = "reply", !.have = AppliedHave(c)]
           IN  /\ Sound(w, d)
               /\ d.pc = "reply" /\ d.op = c.op /\ d.alg = c.alg /\ d.want = c.want
               /\ d.have = AppliedHave(c) /\ d.alone = c.alone
<1> DEFINE d == [c EXCEPT !.pc = "reply", !.have = AppliedHave(c)]
<1>1. c \in Call
  BY DEF Sound
<1>2. c.node \in Nodes \/ c.op \notin {"add", "remove"}
  BY DEF Sound
<1>3. AppliedHave(c) \in SUBSET Nodes
  BY <1>1, <1>2 DEF AppliedHave, Call
<1>4. /\ d \in Call
      /\ d.pc = "reply" /\ d.op = c.op /\ d.alg = c.alg /\ d.want = c.want
      /\ d.have = AppliedHave(c) /\ d.alone = c.alone
  BY <1>1, <1>3 DEF Call
<1> HIDE DEF d
<1>5. Sound(w, d)
  BY <1>4 DEF Sound, Rests
<1> QED BY <1>4, <1>5 DEF d

LEMMA ApplyGoes ==
    ASSUME NEW w \in Workers, Apply(w)
    PROVE  Goto(w, [call[w] EXCEPT !.pc = "reply", !.have = AppliedHave(call[w])])
BY DEF Apply, AppliedHave

LEMMA ApplyKeeps ==
    ASSUME ReqInv, NEW w \in Workers, Apply(w)
    PROVE  ReqInv'
<1> DEFINE c == call[w]
<1>1. Sound(w, c) /\ c \in Call /\ c.pc = "try"
  BY DEF ReqInv, CallsOK, Sound, Apply
<1>2. CallsOK'
  BY <1>1, AppliedCall, ApplyGoes, SoundStep DEF ReqInv
<1>3. alg' \in Algs
  BY <1>1 DEF Apply, ReqInv, RestOK, Sound, Rests
<1>4. members' \in SUBSET Nodes
  BY <1>1 DEF Apply, ReqInv, RestOK, Sound
<1>5. status' = "PENDING" /\ by' = w /\ UNCHANGED <<env, due>>
  BY DEF Apply
<1> QED BY <1>2, <1>3, <1>4, <1>5 DEF ReqInv, RestOK, env

LEMMA GoneKeeps ==
    ASSUME ReqInv, NEW w \in Workers, Gone(w)
    PROVE  ReqInv'
<1> DEFINE c == call[w]
           a == Asking(c, "sync", "none", None)
           d == [a EXCEPT !.have = @ \ {c.node}]
<1>1. Sound(w, c) /\ c \in Call /\ c.pc = "try" /\ ~Rests(c)
  BY DEF ReqInv, CallsOK, Sound, Gone, Rests
<1>2. a \in Call /\ a.pc = "sync" /\ a.op = "none" /\ a.alg = c.alg
  BY <1>1, AskingCall
<1>3. Goto(w, d) /\ UNCHANGED <<env, due, cloud>>
  BY DEF Gone
<1> HIDE DEF a
<1>4. d \in Call /\ d.pc = "sync" /\ d.op = "none" /\ d.alg = c.alg
  BY <1>2 DEF Call
<1> HIDE DEF d
<1>5. Sound(w, d)
  BY <1>1, <1>4 DEF Sound
<1> QED BY <1>3, <1>5, GotoKeeps

LEMMA ReplyKeeps ==
    ASSUME ReqInv, NEW w \in Workers, Reply(w)
    PROVE  ReqInv'
<1> DEFINE c == call[w]
           d == [c EXCEPT !.pc = "wait"]
<1>1. Sound(w, c) /\ c \in Call /\ c.pc = "reply"
  BY DEF ReqInv, CallsOK, Sound, Reply
<1>2. d \in Call /\ d.pc = "wait" /\ d.op = c.op /\ d.alg = c.alg
  BY <1>1 DEF Call
<1>3. Goto(w, d) /\ UNCHANGED <<env, due, cloud>>
  BY DEF Reply
<1> HIDE DEF d
<1>4. Sound(w, d)
  BY <1>1, <1>2 DEF Sound, Rests
<1> QED BY <1>3, <1>4, GotoKeeps

LEMMA PollKeeps ==
    ASSUME ReqInv, NEW w \in Workers, Poll(w)
    PROVE  ReqInv'
<1> DEFINE c == call[w]
           d == Asking(c, absPc(c), "none", None)
<1>1. Sound(w, c) /\ c.pc = "wait" /\ ~Rests(c)
  BY DEF ReqInv, CallsOK, Poll, Rests
<1>2. absPc(c) \in {"pool", "list", "sync"}
  BY <1>1 DEF absPc
<1>3. Sound(w, d)
  BY <1>1, <1>2, AskingNothing
<1>4. (Goto(w, d) /\ UNCHANGED <<env, due, cloud>>) \/ Fails(w)
  BY DEF Poll
<1> HIDE DEF d
<1> QED BY <1>3, <1>4, GotoKeeps, FailsKeeps

\* The endings that leave the pool alone.
LEMMA EndingKeeps ==
    ASSUME ReqInv, NEW w \in Workers, PoolLost(w) \/ Deadline(w) \/ RequestFails(w) \/ Restart
    PROVE  ReqInv'
BY FailsKeeps, RestartsKeeps DEF PoolLost, Deadline, RequestFails, Restart, FailsOrPanics

LEMMA OthersKeep ==
    ASSUME ReqInv, Settle \/ OthersAct \/ Edits
    PROVE  ReqInv'
<1>1. UNCHANGED call
  BY DEF Settle, OthersAct, Edits
<1>2. CallsOK'
  BY <1>1 DEF ReqInv, CallsOK, Sound, Rests
<1>3. RestOK'
  <2>1. CASE Settle
    BY <2>1 DEF Settle, ReqInv, RestOK, env
  <2>2. CASE OthersAct
    BY <2>2 DEF OthersAct, ReqInv, RestOK, env
  <2>3. CASE Edits /\ Atomic!EditService
    <3>1. /\ wantAlg' \in Algs /\ edits' = edits + 1 /\ edits < MaxEdits
          /\ due' = [due EXCEPT !["ensure"] = TRUE]
          /\ UNCHANGED <<nodes, alg, members, stable, status, by>>
      BY <2>3 DEF Edits, Atomic!EditService
    <3>2. edits' \in 0 .. MaxEdits
      BY <3>1, StepsAssumption DEF ReqInv, RestOK
    <3> QED BY <3>1, <3>2 DEF ReqInv, RestOK
  <2>4. CASE Edits /\ Atomic!NodesChange
    <3>1. /\ nodes' \in SUBSET Nodes /\ edits' = edits + 1 /\ edits < MaxEdits
          /\ stable' = stable \cap nodes'
          /\ due' = [due EXCEPT !["update"] = TRUE]
          /\ UNCHANGED <<wantAlg, alg, members, status, by>>
      BY <2>4 DEF Edits, Atomic!NodesChange
    <3>2. edits' \in 0 .. MaxEdits
      BY <3>1, StepsAssumption DEF ReqInv, RestOK
    <3> QED BY <3>1, <3>2 DEF ReqInv, RestOK
  <2> QED BY <2>1, <2>2, <2>3, <2>4 DEF Edits
<1> QED BY <1>2, <1>3 DEF ReqInv

LEMMA ReqInvInvariant == Spec => []ReqInv
<1>1. Init => ReqInv
  BY StepsAssumption DEF Init, ReqInv, CallsOK, RestOK, Sound, Call, Workers, Rests
<1>2. ASSUME ReqInv, [Next]_vars
      PROVE  ReqInv'
  <2>1. ASSUME NEW w \in Workers, Step(w)
        PROVE  ReqInv'
    BY <1>2, <2>1, GetPoolKeeps, ListKeeps, NextMemberKeeps, DoneKeeps, ConflictKeeps, ApplyKeeps,
       GoneKeeps, ReplyKeeps, PollKeeps, EndingKeeps DEF Step
  <2>2. CASE UNCHANGED vars
    BY <1>2, <2>2 DEF vars, ReqInv, CallsOK, RestOK, Sound, Rests
  <2>3. CASE Restart
    BY <1>2, <2>3, RestartsKeeps DEF Restart
  <2> QED BY <1>2, <2>1, <2>2, <2>3, BeginKeeps, EndingKeeps, OthersKeep DEF Next
<1> QED BY <1>1, <1>2, PTL DEF Spec

\* Every variable has its type, throughout every behaviour.
THEOREM TypeCorrect == Spec => []TypeOK
<1>1. ReqInv => TypeOK
  BY DEF ReqInv, CallsOK, RestOK, Sound, TypeOK, Workers
<1> QED BY <1>1, ReqInvInvariant, PTL

-----------------------------------------------------------------------------
\* A call moves on and the cloud stays: the call may leave its wait only if the
\* load balancer does not work for it.
LEMMA OwnGoto ==
    ASSUME NoSelfConflict, call \in [Workers -> Call], NEW w \in Workers, NEW d, Goto(w, d),
           UNCHANGED cloud, by = w => d.pc \in {"reply", "wait"}
    PROVE  NoSelfConflict'
<1>1. \A v \in Workers : v # w => call'[v] = call[v]
  BY DEF Goto
<1>2. call'[w] = d
  BY DEF Goto
<1>3. ASSUME NEW v \in Workers, by' = v
      PROVE  status' = "PENDING" /\ call'[v].pc \in {"reply", "wait"}
  BY <1>1, <1>2, <1>3 DEF NoSelfConflict, cloud
<1> QED BY <1>3 DEF NoSelfConflict

LEMMA OwnFails ==
    ASSUME NoSelfConflict, call \in [Workers -> Call], NEW w \in Workers, Fails(w)
    PROVE  NoSelfConflict'
<1>1. \A v \in Workers : v # w => call'[v] = call[v]
  BY DEF Fails
<1>2. status' = status /\ by' = IF by = w THEN "other" ELSE by
  BY DEF Fails, Abandoned
<1>3. ASSUME NEW v \in Workers, by' = v
      PROVE  status' = "PENDING" /\ call'[v].pc \in {"reply", "wait"}
  <2>1. v # w /\ by = v
    BY <1>2, <1>3 DEF Workers
  <2> QED BY <1>1, <1>2, <2>1 DEF NoSelfConflict
<1> QED BY <1>3 DEF NoSelfConflict

LEMMA OwnRestarts ==
    ASSUME NoSelfConflict, Restarts
    PROVE  NoSelfConflict'
<1>1. by' \notin Workers
  BY DEF Restarts, Abandoned, Workers
<1> QED BY <1>1 DEF NoSelfConflict

\* A call never meets its own change: nothing it sends is refused because the
\* load balancer still works for it.
THEOREM NoSelfConflicts == Spec => []NoSelfConflict
<1>1. Init => NoSelfConflict
  BY DEF Init, NoSelfConflict, Workers
<1>2. ASSUME ReqInv, NoSelfConflict, [Next]_vars
      PROVE  NoSelfConflict'
  <2>0. call \in [Workers -> Call]
    BY <1>2 DEF ReqInv, CallsOK
  <2>1. ASSUME NEW w \in Workers, FailsOrPanics(w)
        PROVE  NoSelfConflict'
    BY <1>2, <2>0, <2>1, OwnFails, OwnRestarts DEF FailsOrPanics
  <2>2. ASSUME NEW w \in Workers, Step(w)
        PROVE  NoSelfConflict'
    <3>1. by = w => status = "PENDING" /\ call[w].pc \in {"reply", "wait"}
      BY <1>2 DEF NoSelfConflict
    <3>2. CASE w = "ensure" /\ GetPool
      <4>1. PICK d : Goto(w, d) /\ UNCHANGED cloud /\ call[w].pc = "pool"
        BY <3>2 DEF GetPool, cloud
      <4> QED BY <1>2, <2>0, <3>1, <4>1, OwnGoto
    <3>3. CASE List(w)
      <4>1. CASE Fails(w)
        BY <1>2, <2>0, <4>1, OwnFails
      <4>2. CASE \E d : Goto(w, d) /\ UNCHANGED cloud /\ call[w].pc = "list"
        BY <1>2, <2>0, <3>1, <4>2, OwnGoto
      <4> QED BY <3>3, <4>1, <4>2 DEF List, cloud
    <3>4. CASE \E m \in Nodes : NextMember(w, m)
      <4>1. PICK d : Goto(w, d) /\ UNCHANGED cloud /\ call[w].pc = "sync"
        BY <3>4 DEF NextMember, cloud
      <4> QED BY <1>2, <2>0, <3>1, <4>1, OwnGoto
    <3>5. CASE Done(w)
      <4>1. PICK d : Goto(w, d) /\ UNCHANGED cloud /\ call[w].pc = "sync"
        BY <3>5 DEF Done, cloud
      <4> QED BY <1>2, <2>0, <3>1, <4>1, OwnGoto
    <3>6. CASE Conflict(w)
      <4>1. CASE FailsOrPanics(w)
        BY <2>1, <4>1
      <4>2. CASE \E d : Goto(w, d) /\ UNCHANGED cloud /\ call[w].pc = "try"
        BY <1>2, <2>0, <3>1, <4>2, OwnGoto
      <4> QED BY <3>6, <4>1, <4>2 DEF Conflict, cloud
    <3>7. CASE Apply(w)
      <4>1. \A v \in Workers : v # w => call'[v] = call[v]
        BY <3>7 DEF Apply, Goto
      <4>2. call'[w].pc = "reply" /\ status' = "PENDING" /\ by' = w
        <5>1. call[w] \in Call
          BY <2>0
        <5> QED BY <2>0, <3>7, <5>1 DEF Apply, Goto, Call
      <4> QED BY <4>1, <4>2 DEF NoSelfConflict
    <3>8. CASE Gone(w)
      <4>1. PICK d : Goto(w, d) /\ UNCHANGED cloud /\ call[w].pc = "try"
        BY <3>8 DEF Gone, cloud
      <4> QED BY <1>2, <2>0, <3>1, <4>1, OwnGoto
    <3>9. CASE PoolLost(w)
      BY <2>1, <3>9 DEF PoolLost
    <3>10. CASE Reply(w)
      <4>1. [call[w] EXCEPT !.pc = "wait"].pc = "wait"
        BY <2>0 DEF Call
      <4> QED BY <1>2, <2>0, <3>10, <4>1, OwnGoto DEF Reply, cloud
    <3>11. CASE Poll(w)
      <4>1. CASE Fails(w)
        BY <1>2, <2>0, <4>1, OwnFails
      <4>2. CASE \E d : Goto(w, d) /\ UNCHANGED cloud /\ status = "ACTIVE"
        BY <1>2, <2>0, <3>1, <4>2, OwnGoto
      <4> QED BY <3>11, <4>1, <4>2 DEF Poll, cloud
    <3>12. CASE Deadline(w)
      BY <1>2, <2>0, <3>12, OwnFails DEF Deadline
    <3> QED BY <2>2, <3>2, <3>3, <3>4, <3>5, <3>6, <3>7, <3>8, <3>9, <3>10, <3>11, <3>12 DEF Step
  <2>3. ASSUME NEW w \in Workers, Begin(w)
        PROVE  NoSelfConflict'
    <3>1. by # w
      BY <1>2, <2>3 DEF NoSelfConflict, Begin, Rests
    <3>2. ASSUME NEW v \in Workers, v # w
          PROVE  call'[v].pc = call[v].pc
      <4>1. call'[v] = [call[v] EXCEPT !.alone = FALSE]
        BY <2>3, <3>2 DEF Begin
      <4> QED BY <2>0, <4>1 DEF Call
    <3>3. by' = by /\ status' = status
      BY <2>3 DEF Begin, cloud
    <3> QED BY <1>2, <3>1, <3>2, <3>3 DEF NoSelfConflict
  <2>4. ASSUME NEW w \in Workers, RequestFails(w)
        PROVE  NoSelfConflict'
    BY <1>2, <2>0, <2>1, <2>4, OwnFails DEF RequestFails
  <2>5. CASE Restart
    BY <1>2, <2>5, OwnRestarts DEF Restart
  <2>6. CASE Settle
    BY <2>6 DEF Settle, NoSelfConflict, Workers
  <2>7. CASE OthersAct
    BY <2>7 DEF OthersAct, NoSelfConflict, Workers
  <2>8. CASE Edits
    BY <1>2, <2>8 DEF Edits, NoSelfConflict
  <2>9. CASE UNCHANGED vars
    BY <1>2, <2>9 DEF vars, NoSelfConflict
  <2> QED BY <1>2, <2>2, <2>3, <2>4, <2>5, <2>6, <2>7, <2>8, <2>9 DEF Next
<1> QED BY <1>1, <1>2, ReqInvInvariant, PTL DEF Spec

-----------------------------------------------------------------------------
\* The record of PoolSync that a call's record stands for, field by field.
LEMMA AbsFields ==
    ASSUME NEW w \in Workers, CallsOK
    PROVE  /\ absCall[w] = absOf(call[w])
           /\ absCall[w].pc = absPc(call[w])
           /\ absCall[w].alg = call[w].alg
           /\ absCall[w].want = call[w].want
           /\ absCall[w].have = call[w].have
           /\ absCall[w].alone = call[w].alone
           /\ call[w] \in Call
           /\ Atomic!Rests(absCall[w]) <=> Rests(call[w])
BY AbsRests DEF absOf, CallsOK

\* A step that PoolSync does not see.
LEMMA GotoStutters ==
    ASSUME CallsOK, NEW w \in Workers, NEW d \in Call, Goto(w, d),
           UNCHANGED <<env, due, cloud>>, absOf(d) = absOf(call[w])
    PROVE  UNCHANGED Atomic!vars
<1>1. call' = [call EXCEPT ![w] = d] /\ call \in [Workers -> Call]
  BY DEF Goto, CallsOK
<1>2. \A v \in Workers : absOf(call'[v]) = absOf(call[v])
  BY <1>1
<1>3. absCall' = [v \in Workers |-> absOf(call'[v])]
  BY DEF absCall, absOf, absPc
<1>4. absCall' = absCall
  BY <1>2, <1>3 DEF absCall
<1> QED BY <1>4 DEF Atomic!vars, env, cloud

LEMMA FailsImplements ==
    ASSUME CallsOK, NEW w \in Workers, Fails(w), ~Rests(call[w])
    PROVE  Atomic!Fail(w)
<1> DEFINE d == Ended(call[w])
<1>1. /\ d \in Call /\ Goto(w, d) /\ call \in [Workers -> Call]
      /\ absOf(d) = Atomic!Ended(absCall[w]) /\ ~Atomic!Rests(absCall[w])
  BY EndedCall, AbsFields DEF Fails, Goto, CallsOK
<1>2. Atomic!Goto(w, Atomic!Ended(absCall[w]))
  BY <1>1, AbsMoves
<1>3. due' = [due EXCEPT !["ensure"] = TRUE] /\ UNCHANGED <<nodes, wantAlg, alg, members, stable, edits>>
  BY DEF Fails, env
<1> QED BY <1>1, <1>2, <1>3 DEF Atomic!Fail

LEMMA RestartsImplements ==
    ASSUME CallsOK, NEW w \in Workers, Restarts, ~Rests(call[w])
    PROVE  Atomic!Restart
<1>1. call' = [v \in Workers |-> Ended(call[v])]
  BY DEF Restarts
<1>2. absCall' = [v \in Workers |-> absOf(call'[v])]
  BY DEF absCall, absOf, absPc
<1>3. \A v \in Workers : absOf(call'[v]) = Atomic!Ended(absCall[v])
  BY <1>1, EndedCall, AbsFields
<1>4. absCall' = [v \in Workers |-> Atomic!Ended(absCall[v])]
  BY <1>2, <1>3
<1>5. ~Atomic!Rests(absCall[w]) /\ w \in Atomic!Workers /\ Atomic!Workers = Workers
  BY AbsFields DEF Atomic!Workers, Workers
<1>6. due' = [v \in Workers |-> TRUE] /\ UNCHANGED <<nodes, wantAlg, alg, members, stable, edits>>
  BY DEF Restarts, env
<1>7. \E v \in Atomic!Workers : ~Atomic!Rests(absCall[v])
  BY <1>5
<1> QED BY <1>4, <1>5, <1>6, <1>7 DEF Atomic!Restart

LEMMA EndsImplement ==
    ASSUME CallsOK, NEW w \in Workers, FailsOrPanics(w), ~Rests(call[w])
    PROVE  Atomic!Next
<1>1. w \in Atomic!Workers
  BY DEF Atomic!Workers, Workers
<1> QED BY <1>1, FailsImplements, RestartsImplements DEF FailsOrPanics, Atomic!Next

\* The first record of a call, and the flag of the other.
LEMMA BeginImplements ==
    ASSUME ReqInv, NEW w \in Workers, Begin(w)
    PROVE  Atomic!Begin(w)
<1> DEFINE pc == IF w = "ensure" THEN "wait" ELSE "list"
           first == IF w = "ensure" THEN "pool" ELSE "list"
           newAlg == IF w = "ensure" THEN wantAlg ELSE None
           a == Asking(call[w], pc, "none", None)
           alone == Rests(call[Other(w)])
           d == [a EXCEPT !.alg = newAlg, !.want = nodes, !.have = {}, !.alone = alone]
           absd == [pc |-> first, alg |-> newAlg, want |-> nodes, have |-> {}, alone |-> alone]
           Flag(c) == [c EXCEPT !.alone = FALSE]
<1>0. Other(w) \in Workers /\ CallsOK
  BY WorkersAreTwo DEF ReqInv
<1>1. call[w] \in Call /\ \A v \in Workers : call[v] \in Call
  BY <1>0, AbsFields
<1>2. a \in Call /\ a.pc = pc /\ a.op = "none"
  BY <1>1, AskingCall
<1>3. call' = [v \in Workers |-> CASE v = w -> d [] v # w -> Flag(call[v])]
  BY DEF Begin
<1>4. alone = Atomic!Rests(absCall[Atomic!Other(w)])
  <2>1. Atomic!Other(w) = Other(w)
    BY DEF Atomic!Other, Other
  <2>2. Atomic!Rests(absCall[Other(w)]) = Rests(call[Other(w)])
    BY <1>0, AbsFields DEF Atomic!Rests, Rests
  <2> QED BY <2>1, <2>2
<1> HIDE DEF a, alone, newAlg
<1>5. d.pc = pc /\ d.op = "none" /\ d.alg = newAlg /\ d.want = nodes /\ d.have = {} /\ d.alone = alone
  BY <1>2 DEF Call
<1> HIDE DEF d
<1>6. absPc(d) = first
  BY <1>5 DEF absPc
<1>7. absOf(d) = absd
  BY <1>5, <1>6 DEF absOf
<1>8. \A v \in Workers : absOf(Flag(call[v])) = [absCall[v] EXCEPT !.alone = FALSE]
  <2> SUFFICES ASSUME NEW v \in Workers
               PROVE  absOf(Flag(call[v])) = [absCall[v] EXCEPT !.alone = FALSE]
    OBVIOUS
  <2> DEFINE c == call[v]
             e == Flag(c)
  <2>1. c \in Call /\ absCall[v] = absOf(c)
    BY <1>0, AbsFields
  <2>2. /\ e \in Call
        /\ e.pc = c.pc /\ e.op = c.op /\ e.alg = c.alg
        /\ e.want = c.want /\ e.have = c.have /\ e.alone = FALSE
    BY <2>1 DEF Call
  <2> HIDE DEF e
  <2>3. absPc(e) = absPc(c)
    BY <2>2 DEF absPc
  <2>4. Becomes(absOf(c), absOf(e), absOf(c).pc, absOf(c).have, FALSE)
    BY <2>2, <2>3 DEF absOf, Becomes
  <2>5. absOf(e) = [absOf(c) EXCEPT !.alone = FALSE]
    BY <2>1, <2>2, <2>4, AbsType, AloneChanges
  <2> QED BY <2>1, <2>5 DEF e
<1>9. absCall' = [v \in Workers |-> absOf(call'[v])]
  BY DEF absCall, absOf, absPc
<1> HIDE DEF Flag
<1>10. \A v \in Workers : absOf(call'[v]) = CASE v = w -> absd
                                              [] v # w -> [absCall[v] EXCEPT !.alone = FALSE]
  BY <1>3, <1>7, <1>8
<1> HIDE DEF absd
<1>11. absCall' = [v \in Workers |-> CASE v = w -> absd
                                       [] v # w -> [absCall[v] EXCEPT !.alone = FALSE]]
  BY <1>9, <1>10
<1>12. absCall' = Atomic!Started(w, first)
  BY <1>4, <1>11 DEF Atomic!Started, absd, newAlg, Atomic!Workers, Workers
<1>13. Atomic!Rests(absCall[w])
  BY <1>0, AbsFields DEF Begin
<1>14. due[w] /\ due' = [due EXCEPT ![w] = FALSE] /\ UNCHANGED <<nodes, wantAlg, alg, members, stable, edits>>
  BY DEF Begin, env, cloud
<1> QED BY <1>12, <1>13, <1>14 DEF Atomic!Begin

-----------------------------------------------------------------------------
AbsPcs == {"idle", "pool", "update", "list", "sync"}

\* d stands for what c stands for, but for the pc and for have.
Sees(c, d, pc, have) ==
    /\ absPc(d) = pc /\ d.have = have
    /\ d.alg = c.alg /\ d.want = c.want /\ d.alone = c.alone

LEMMA AbsSees ==
    ASSUME NEW c, NEW d, NEW pc, NEW have, Sees(c, d, pc, have)
    PROVE  Becomes(absOf(c), absOf(d), pc, have, c.alone) /\ absOf(c).alone = c.alone
BY DEF Sees, absOf, Becomes

LEMMA AbsPcChange ==
    ASSUME NEW c \in Call, NEW d \in Call, NEW pc \in AbsPcs, Sees(c, d, pc, c.have)
    PROVE  absOf(d) = [absOf(c) EXCEPT !.pc = pc]
<1>1. absOf(c) \in Atomic!Call /\ absOf(d) \in Atomic!Call
  BY AbsType
<1>2. absOf(c).have = c.have
  BY DEF absOf
<1>3. Becomes(absOf(c), absOf(d), pc, absOf(c).have, absOf(c).alone)
  BY <1>2, AbsSees
<1> QED BY <1>1, <1>3, PcChanges

LEMMA AbsHaveChange ==
    ASSUME NEW c \in Call, NEW d \in Call, NEW have, Sees(c, d, absPc(c), have)
    PROVE  absOf(d) = [absOf(c) EXCEPT !.have = have]
<1>1. absOf(c) \in Atomic!Call /\ absOf(d) \in Atomic!Call
  BY AbsType
<1>2. absOf(c).pc = absPc(c)
  BY DEF absOf
<1>3. Becomes(absOf(c), absOf(d), absOf(c).pc, have, absOf(c).alone)
  BY <1>2, AbsSees
<1> QED BY <1>1, <1>3, HaveChanges

LEMMA AbsSame ==
    ASSUME NEW c, NEW d, Sees(c, d, absPc(c), c.have)
    PROVE  absOf(d) = absOf(c)
BY DEF absOf, Sees

LEMMA GetPoolImplements ==
    ASSUME ReqInv, GetPool
    PROVE  Atomic!GetPool
<1> DEFINE c == call["ensure"]
           a == Asking(c, "try", "pool", None)
           l == [c EXCEPT !.pc = "list"]
           pc == IF alg = c.alg THEN "list" ELSE "update"
           d == IF alg = c.alg THEN l ELSE a
<1>1. "ensure" \in Workers /\ CallsOK
  BY DEF Workers, ReqInv
<1>2. /\ c \in Call /\ c.pc = "pool"
      /\ absCall["ensure"] = absOf(c) /\ absCall["ensure"].pc = "pool" /\ absCall["ensure"].alg = c.alg
  BY <1>1, AbsFields DEF GetPool, absPc
<1>3. /\ l \in Call /\ l.pc = "list"
      /\ l.alg = c.alg /\ l.want = c.want /\ l.have = c.have /\ l.alone = c.alone
  BY <1>2 DEF Call
<1>4. /\ a \in Call /\ a.pc = "try" /\ a.op = "pool"
      /\ a.alg = c.alg /\ a.want = c.want /\ a.have = c.have /\ a.alone = c.alone
  BY <1>2, AskingCall
<1>5. Goto("ensure", d) /\ UNCHANGED <<env, due, cloud>>
  BY DEF GetPool
<1> HIDE DEF a, l
<1>6. /\ d \in Call /\ absPc(d) = pc
      /\ d.alg = c.alg /\ d.want = c.want /\ d.have = c.have /\ d.alone = c.alone
  BY <1>3, <1>4 DEF absPc
<1> HIDE DEF d
<1> HIDE DEF pc
<1>7. absOf(d) = [absOf(c) EXCEPT !.pc = pc]
  <2>1. Sees(c, d, pc, c.have) /\ pc \in AbsPcs
    BY <1>6 DEF Sees, AbsPcs, pc
  <2> QED BY <1>2, <1>6, <2>1, AbsPcChange
<1>8. Atomic!Goto("ensure", [absCall["ensure"] EXCEPT !.pc = pc])
  BY <1>1, <1>2, <1>5, <1>6, <1>7, AbsMoves DEF CallsOK
<1> QED BY <1>2, <1>5, <1>8 DEF Atomic!GetPool, env, cloud, pc

LEMMA ListImplements ==
    ASSUME ReqInv, NEW w \in Workers, List(w)
    PROVE  Atomic!List(w) \/ Atomic!Fail(w)
<1> DEFINE c == call[w]
           d == [c EXCEPT !.pc = "sync", !.have = members]
<1>1. /\ CallsOK /\ c \in Call /\ c.pc = "list" /\ ~Rests(c) /\ members \in SUBSET Nodes
      /\ absCall[w] = absOf(c) /\ absCall[w].pc = "list" /\ absCall[w].want = c.want
  BY AbsFields DEF List, absPc, Rests, ReqInv, RestOK
<1>2. CASE c.want # {} /\ Goto(w, d) /\ UNCHANGED <<env, due, cloud>>
  <2>1. /\ d \in Call /\ d.pc = "sync" /\ d.have = members
        /\ d.alg = c.alg /\ d.want = c.want /\ d.alone = c.alone
    BY <1>1 DEF Call
  <2> HIDE DEF d
  <2>2. absOf(d) = [absOf(c) EXCEPT !.pc = "sync", !.have = members]
    <3>1. Sees(c, d, "sync", members) /\ "sync" \in AbsPcs
      BY <2>1 DEF Sees, absPc, AbsPcs
    <3>2. absOf(c) \in Atomic!Call /\ absOf(d) \in Atomic!Call
      BY <1>1, <2>1, AbsType
    <3>3. Becomes(absOf(c), absOf(d), "sync", members, absOf(c).alone)
      BY <3>1, AbsSees
    <3> QED BY <3>2, <3>3 DEF Becomes, Atomic!Call
  <2>3. Atomic!Goto(w, [absCall[w] EXCEPT !.pc = "sync", !.have = members])
    BY <1>1, <1>2, <2>1, <2>2, AbsMoves DEF CallsOK
  <2> QED BY <1>1, <1>2, <2>3 DEF Atomic!List, env, cloud
<1>3. CASE Fails(w)
  BY <1>1, <1>3, FailsImplements
<1> QED BY <1>2, <1>3 DEF List

LEMMA NextMemberImplements ==
    ASSUME ReqInv, NEW w \in Workers, NEW m \in Nodes, NextMember(w, m)
    PROVE  UNCHANGED Atomic!vars
<1> DEFINE c == call[w]
<1>1. CallsOK /\ c \in Call /\ c.pc = "sync" /\ UNCHANGED <<env, due, cloud>>
  BY AbsFields DEF NextMember, ReqInv
<1>2. PICK op \in {"add", "remove"} : Goto(w, Asking(c, "try", op, m))
  BY DEF NextMember
<1> DEFINE d == Asking(c, "try", op, m)
<1>3. /\ d \in Call /\ d.pc = "try" /\ d.op = op
      /\ d.alg = c.alg /\ d.want = c.want /\ d.have = c.have /\ d.alone = c.alone
  BY <1>1, AskingFor
<1>4. Goto(w, d)
  BY <1>2
<1> HIDE DEF d
<1>5. absOf(d) = absOf(c)
  BY <1>1, <1>3, AbsSame DEF absPc, Sees
<1> QED BY <1>1, <1>3, <1>4, <1>5, GotoStutters

LEMMA DoneImplements ==
    ASSUME CallsOK, NEW w \in Workers, Done(w)
    PROVE  Atomic!Done(w)
<1> DEFINE d == Ended(call[w])
<1>1. /\ absCall[w].pc = "sync" /\ absCall[w].have = absCall[w].want
      /\ d \in Call /\ Goto(w, d) /\ call \in [Workers -> Call]
      /\ absOf(d) = Atomic!Ended(absCall[w])
  BY EndedCall, AbsFields DEF Done, absPc, CallsOK
<1>2. Atomic!Goto(w, Atomic!Ended(absCall[w]))
  BY <1>1, AbsMoves
<1> QED BY <1>1, <1>2 DEF Done, Atomic!Done, env, cloud

LEMMA ConflictImplements ==
    ASSUME ReqInv, NEW w \in Workers, Conflict(w)
    PROVE  Atomic!Next \/ UNCHANGED Atomic!vars
<1> DEFINE c == call[w]
           d == [c EXCEPT !.tries = @ + 1, !.named = c.op # "pool"]
<1>1. CallsOK /\ c \in Call /\ c.pc = "try" /\ ~Rests(c)
  BY AbsFields DEF Conflict, ReqInv, Rests
<1>2. CASE c.tries + 1 < Steps /\ Goto(w, d) /\ UNCHANGED <<env, due, cloud>>
  <2>1. c.tries \in 0 .. Steps
    BY <1>1 DEF Call
  <2>2. c.tries + 1 \in 0 .. Steps
    BY <1>2, <2>1, StepsAssumption
  <2>3. /\ d \in Call /\ d.pc = "try" /\ d.op = c.op
        /\ d.alg = c.alg /\ d.want = c.want /\ d.have = c.have /\ d.alone = c.alone
    BY <1>1, <2>2 DEF Call
  <2> HIDE DEF d
  <2>4. absOf(d) = absOf(c)
    BY <1>1, <2>3, AbsSame DEF absPc, Sees
  <2> QED BY <1>1, <1>2, <2>3, <2>4, GotoStutters
<1>3. CASE FailsOrPanics(w)
  BY <1>1, <1>3, EndsImplement
<1> QED BY <1>2, <1>3 DEF Conflict

LEMMA ApplyImplements ==
    ASSUME ReqInv, NEW w \in Workers, Apply(w)
    PROVE  Atomic!Next
<1> DEFINE c == call[w]
           have == AppliedHave(c)
           d == [c EXCEPT !.pc = "reply", !.have = have]
<1>1. /\ CallsOK /\ c \in Call /\ c.pc = "try" /\ Sound(w, c) /\ absCall[w] = absOf(c)
      /\ absCall[w].alg = c.alg /\ absCall[w].want = c.want /\ absCall[w].have = c.have
      /\ absCall[w].pc = IF c.op = "pool" THEN "update" ELSE "sync"
  BY AbsFields DEF Apply, ReqInv, CallsOK, absPc
<1>2. Goto(w, d)
  BY ApplyGoes
<1>3. /\ d \in Call /\ d.pc = "reply" /\ d.op = c.op /\ d.have = have
      /\ d.alg = c.alg /\ d.want = c.want /\ d.alone = c.alone
  <2>1. Sound(w, c) /\ c.pc = "try"
    BY <1>1
  <2>2. /\ Sound(w, d)
        /\ d.pc = "reply" /\ d.op = c.op /\ d.alg = c.alg /\ d.want = c.want
        /\ d.have = have /\ d.alone = c.alone
    <3> HIDE DEF c
    <3> QED BY <2>1, AppliedCall
  <2> HIDE DEF d
  <2>3. d \in Call
    BY <2>2 DEF Sound
  <2> QED BY <2>2, <2>3
<1>4. ~Overtaken(c) /\ UNCHANGED <<nodes, wantAlg, stable, edits, due>>
  BY DEF Apply, env
<1> HIDE DEF d
<1>5. Atomic!Goto(w, absOf(d))
  BY <1>1, <1>2, <1>3, AbsMoves DEF CallsOK
<1>6. w \in Atomic!Workers
  BY DEF Atomic!Workers, Workers
<1>7. CASE c.op = "pool"
  <2>1. w = "ensure" /\ have = c.have /\ absPc(d) = "list"
    BY <1>1, <1>3, <1>7 DEF Sound, AppliedHave, absPc
  <2>2. absOf(d) = [absCall[w] EXCEPT !.pc = "list"]
    <3>1. Sees(c, d, "list", c.have) /\ "list" \in AbsPcs
      BY <1>3, <2>1 DEF Sees, AbsPcs
    <3> QED BY <1>1, <1>3, <3>1, AbsPcChange
  <2>3. alg' = c.alg /\ UNCHANGED members
    BY <1>7 DEF Apply
  <2>4. Atomic!UpdatePool
    BY <1>1, <1>4, <1>5, <1>7, <2>1, <2>2, <2>3 DEF Atomic!UpdatePool
  <2> QED BY <2>4 DEF Atomic!Next
<1>8. CASE c.op = "add"
  <2>1. have = c.have \cup {c.node} /\ absPc(d) = "sync" /\ absPc(c) = "sync"
    BY <1>1, <1>3, <1>8 DEF AppliedHave, absPc
  <2>2. absOf(d) = [absCall[w] EXCEPT !.have = c.have \cup {c.node}]
    <3>1. Sees(c, d, absPc(c), c.have \cup {c.node})
      BY <1>3, <2>1 DEF Sees
    <3> QED BY <1>1, <1>3, <3>1, AbsHaveChange
  <2>3. members' = members \cup {c.node} /\ UNCHANGED alg
    BY <1>8 DEF Apply
  <2>4. c.node \in Nodes /\ c.node \in c.want \ c.have /\ c.node \notin members
    BY <1>1, <1>4, <1>8 DEF Sound, Overtaken
  <2>5. Atomic!Add(w, c.node)
    BY <1>1, <1>4, <1>5, <1>8, <2>2, <2>3, <2>4 DEF Atomic!Add
  <2> QED BY <1>6, <2>4, <2>5 DEF Atomic!Next
<1>9. CASE c.op = "remove"
  <2>1. have = c.have \ {c.node} /\ absPc(d) = "sync" /\ absPc(c) = "sync"
    BY <1>1, <1>3, <1>9 DEF AppliedHave, absPc
  <2>2. absOf(d) = [absCall[w] EXCEPT !.have = c.have \ {c.node}]
    <3>1. Sees(c, d, absPc(c), c.have \ {c.node})
      BY <1>3, <2>1 DEF Sees
    <3> QED BY <1>1, <1>3, <3>1, AbsHaveChange
  <2>3. members' = members \ {c.node} /\ UNCHANGED alg
    BY <1>9 DEF Apply
  <2>4. c.node \in Nodes /\ c.node \in c.have \ c.want /\ c.want \subseteq c.have
    BY <1>1, <1>9 DEF Sound
  <2>5. Atomic!Remove(w, c.node)
    BY <1>1, <1>4, <1>5, <1>9, <2>2, <2>3, <2>4 DEF Atomic!Remove
  <2> QED BY <1>6, <2>4, <2>5 DEF Atomic!Next
<1> QED BY <1>1, <1>7, <1>8, <1>9 DEF Sound, Call

LEMMA GoneImplements ==
    ASSUME ReqInv, NEW w \in Workers, Gone(w)
    PROVE  Atomic!Next
<1> DEFINE c == call[w]
           a == Asking(c, "sync", "none", None)
           d == [a EXCEPT !.have = @ \ {c.node}]
<1>1. /\ CallsOK /\ c \in Call /\ c.pc = "try" /\ c.op = "remove" /\ Sound(w, c)
      /\ absCall[w] = absOf(c) /\ absPc(c) = "sync"
      /\ absCall[w].want = c.want /\ absCall[w].have = c.have /\ absCall[w].pc = "sync"
      /\ c.node \notin members /\ members \in SUBSET Nodes
  BY AbsFields DEF Gone, Overtaken, ReqInv, CallsOK, RestOK, absPc
<1>2. /\ a \in Call /\ a.pc = "sync" /\ a.op = "none"
      /\ a.alg = c.alg /\ a.want = c.want /\ a.have = c.have /\ a.alone = c.alone
  BY <1>1, AskingCall
<1>3. Goto(w, d) /\ UNCHANGED <<env, due, cloud>>
  BY DEF Gone
<1> HIDE DEF a
<1>4. /\ d \in Call /\ d.pc = "sync" /\ d.have = c.have \ {c.node}
      /\ d.alg = c.alg /\ d.want = c.want /\ d.alone = c.alone
  BY <1>2 DEF Call
<1> HIDE DEF d
<1>5. absOf(d) = [absCall[w] EXCEPT !.have = c.have \ {c.node}]
  <2>1. Sees(c, d, absPc(c), c.have \ {c.node})
    BY <1>1, <1>4 DEF Sees, absPc
  <2> QED BY <1>1, <1>4, <2>1, AbsHaveChange
<1>6. Atomic!Goto(w, absOf(d))
  BY <1>1, <1>3, <1>4, AbsMoves DEF CallsOK
<1>7. c.node \in Nodes /\ c.node \in c.have \ c.want /\ c.want \subseteq c.have
  BY <1>1 DEF Sound
<1>8. members' = members \ {c.node}
  BY <1>1, <1>3 DEF cloud
<1>9. Atomic!Remove(w, c.node)
  BY <1>1, <1>3, <1>5, <1>6, <1>7, <1>8 DEF Atomic!Remove, env, cloud
<1>10. w \in Atomic!Workers
  BY DEF Atomic!Workers, Workers
<1> QED BY <1>7, <1>9, <1>10 DEF Atomic!Next

LEMMA ReplyImplements ==
    ASSUME ReqInv, NEW w \in Workers, Reply(w)
    PROVE  UNCHANGED Atomic!vars
<1> DEFINE c == call[w]
           d == [c EXCEPT !.pc = "wait"]
<1>1. CallsOK /\ c \in Call /\ c.pc = "reply" /\ Goto(w, d) /\ UNCHANGED <<env, due, cloud>>
  BY AbsFields DEF Reply, ReqInv
<1>2. /\ d \in Call /\ d.pc = "wait" /\ d.op = c.op
      /\ d.alg = c.alg /\ d.want = c.want /\ d.have = c.have /\ d.alone = c.alone
  BY <1>1 DEF Call
<1> HIDE DEF d
<1>3. absOf(d) = absOf(c)
  BY <1>1, <1>2, AbsSame DEF absPc, Sees
<1> QED BY <1>1, <1>2, <1>3, GotoStutters

LEMMA PollImplements ==
    ASSUME ReqInv, NEW w \in Workers, Poll(w)
    PROVE  Atomic!Fail(w) \/ UNCHANGED Atomic!vars
<1> DEFINE c == call[w]
           d == Asking(c, absPc(c), "none", None)
<1>1. CallsOK /\ c \in Call /\ c.pc = "wait" /\ ~Rests(c)
  BY AbsFields DEF Poll, Rests, ReqInv
<1>2. absPc(c) \in {"pool", "list", "sync"}
  BY <1>1 DEF absPc
<1>3. /\ d \in Call /\ d.pc = absPc(c)
      /\ d.alg = c.alg /\ d.want = c.want /\ d.have = c.have /\ d.alone = c.alone
  BY <1>1, <1>2, AskingCall
<1>4. (Goto(w, d) /\ UNCHANGED <<env, due, cloud>>) \/ Fails(w)
  BY DEF Poll
<1> HIDE DEF d
<1>5. absPc(d) = d.pc
  BY <1>2, <1>3 DEF absPc
<1>6. absOf(d) = absOf(c)
  BY <1>3, <1>5, AbsSame DEF Sees
<1> QED BY <1>1, <1>3, <1>4, <1>6, GotoStutters, FailsImplements

LEMMA EndingImplements ==
    ASSUME ReqInv, NEW w \in Workers, PoolLost(w) \/ Deadline(w) \/ RequestFails(w)
    PROVE  Atomic!Next
<1>1. ~Rests(call[w]) /\ CallsOK
  BY DEF PoolLost, Deadline, RequestFails, Rests, ReqInv
<1>2. FailsOrPanics(w)
  BY DEF PoolLost, Deadline, RequestFails, FailsOrPanics
<1> QED BY <1>1, <1>2, EndsImplement

LEMMA OthersImplement ==
    ASSUME Settle \/ OthersAct \/ Edits
    PROVE  Atomic!Next \/ UNCHANGED Atomic!vars
<1>1. CASE Settle \/ OthersAct
  BY <1>1 DEF Settle, OthersAct, Atomic!vars, absCall, env
<1>2. CASE Edits
  BY <1>2 DEF Edits, Atomic!Next
<1> QED BY <1>1, <1>2

\* What the calls do to the pool, one request at a time and with every retry,
\* is what the calls of PoolSync do.
THEOREM Implements == Spec => Refines
<1>1. Init => Atomic!Init
  <2> SUFFICES ASSUME Init PROVE Atomic!Init
    OBVIOUS
  <2> DEFINE first == [pc |-> "idle", op |-> "none", node |-> None, tries |-> 0, named |-> TRUE,
                       alg |-> None, want |-> {}, have |-> {}, alone |-> FALSE]
             afirst == [pc |-> "idle", alg |-> None, want |-> {}, have |-> {}, alone |-> FALSE]
  <2>1. call = [w \in Workers |-> first]
    BY DEF Init
  <2>2. absOf(first) = afirst
    BY DEF absOf, absPc
  <2> HIDE DEF first
  <2>3. absCall = [w \in Workers |-> afirst]
    BY <2>1, <2>2 DEF absCall
  <2> QED BY <2>3 DEF Init, Atomic!Init, Atomic!Workers, Workers
<1>2. ASSUME ReqInv, [Next]_vars
      PROVE  Atomic!Next \/ UNCHANGED Atomic!vars
  <2>1. ASSUME NEW w \in Workers, Step(w)
        PROVE  Atomic!Next \/ UNCHANGED Atomic!vars
    <3>1. w \in Atomic!Workers /\ CallsOK
      BY <1>2 DEF Atomic!Workers, Workers, ReqInv
    <3>2. CASE GetPool
      BY <1>2, <3>2, GetPoolImplements DEF Atomic!Next
    <3>3. CASE List(w)
      BY <1>2, <3>1, <3>3, ListImplements DEF Atomic!Next
    <3>4. CASE \E m \in Nodes : NextMember(w, m)
      BY <1>2, <3>4, NextMemberImplements
    <3>5. CASE Done(w)
      BY <3>1, <3>5, DoneImplements DEF Atomic!Next
    <3>6. CASE Poll(w)
      BY <1>2, <3>1, <3>6, PollImplements DEF Atomic!Next
    <3>7. CASE Conflict(w) \/ Apply(w) \/ Gone(w) \/ Reply(w) \/ PoolLost(w) \/ Deadline(w)
      BY <1>2, <3>7, ConflictImplements, ApplyImplements, GoneImplements, ReplyImplements,
         EndingImplements
    <3> QED BY <2>1, <3>2, <3>3, <3>4, <3>5, <3>6, <3>7 DEF Step
  <2>2. ASSUME NEW w \in Workers, Begin(w)
        PROVE  Atomic!Next
    <3>1. w \in Atomic!Workers
      BY DEF Atomic!Workers, Workers
    <3> QED BY <1>2, <2>2, <3>1, BeginImplements DEF Atomic!Next
  <2>3. CASE Restart
    <3>1. Atomic!Restart
      BY <1>2, <2>3, RestartsImplements DEF Restart, ReqInv
    <3> QED BY <3>1 DEF Atomic!Next
  <2>4. CASE UNCHANGED vars
    BY <2>4 DEF vars, Atomic!vars, absCall
  <2> QED BY <1>2, <2>1, <2>2, <2>3, <2>4, EndingImplements, OthersImplement DEF Next
<1>3. ReqInv /\ [Next]_vars => [Atomic!Next]_(Atomic!vars)
  BY <1>2
<1> QED BY <1>1, <1>3, ReqInvInvariant, PTL DEF Spec, Refines, Atomic!Spec

-----------------------------------------------------------------------------
\* What is proved of PoolSync holds of the calls that PoolRequests stands for.
Sync == INSTANCE PoolSyncProofs WITH call <- absCall

LEMMA SameModule == Refines => Sync!Spec
<1>1. Atomic!Init => Sync!Init
  BY DEF Atomic!Init, Sync!Init, Atomic!Workers, Sync!Workers
<1>2. Atomic!Next => Sync!Next
  BY DEF Atomic!Next, Sync!Next, Atomic!Workers, Sync!Workers, Atomic!Other, Sync!Other,
         Atomic!Rests, Sync!Rests, Atomic!Ended, Sync!Ended, Atomic!Started, Sync!Started,
         Atomic!Goto, Sync!Goto, Atomic!EditService, Sync!EditService,
         Atomic!NodesChange, Sync!NodesChange, Atomic!GetPool, Sync!GetPool,
         Atomic!UpdatePool, Sync!UpdatePool, Atomic!Begin, Sync!Begin, Atomic!List, Sync!List,
         Atomic!Add, Sync!Add, Atomic!Remove, Sync!Remove, Atomic!Done, Sync!Done,
         Atomic!Fail, Sync!Fail, Atomic!Restart, Sync!Restart
<1>3. Atomic!vars = Sync!vars
  BY DEF Atomic!vars, Sync!vars
<1>4. UNCHANGED Atomic!vars => UNCHANGED Sync!vars
  BY DEF Atomic!vars, Sync!vars
<1>5. [Atomic!Next]_(Atomic!vars) => [Sync!Next]_(Sync!vars)
  BY <1>2, <1>4
<1> QED BY <1>1, <1>5, PTL DEF Refines, Atomic!Spec, Sync!Spec

\* A node that was there all along keeps its place in the pool, whatever the
\* cloud answers and whenever.
THEOREM StableKept == Spec => StableServed
<1>1. [stable' \cap members \subseteq members']_(Sync!vars)
        => [stable' \cap members \subseteq members']_vars
  BY DEF Sync!vars
<1>2. Sync!StableServed => StableServed
  BY <1>1, PTL DEF StableServed, Sync!StableServed
<1> QED BY <1>2, Implements, SameModule, Sync!StableKept, PTL

\* What the promises of PoolSync mean for the calls and their requests.
LEMMA SameRests ==
    ASSUME CallsOK, NEW w \in Workers
    PROVE  /\ Sync!Rests(absCall[w]) <=> Rests(call[w])
           /\ absCall[w].alone = call[w].alone
           /\ Done(w) => Sync!Done(w)
           /\ w \in Sync!Workers
<1>1. Atomic!Done(w) => Sync!Done(w)
  BY DEF Atomic!Done, Sync!Done, Atomic!Goto, Sync!Goto, Atomic!Ended, Sync!Ended
<1> QED BY <1>1, AbsFields, DoneImplements DEF Atomic!Rests, Sync!Rests, Sync!Workers, Workers

\* A call during which no other ran, and which succeeds, leaves exactly what it
\* was given, whatever was retried, refused or lost on the way.
THEOREM AloneIsExact == Spec => AloneExact
<1> DEFINE Exact(w) == ( Done(w) /\ call[w].alone )
                          => ( members = call[w].want /\ (w = "ensure" => alg = call[w].alg) )
           SyncExact(w) == ( Sync!Done(w) /\ absCall[w].alone )
                              => ( members = absCall[w].want /\ (w = "ensure" => alg = absCall[w].alg) )
<1>1. ASSUME CallsOK, [\A w \in Sync!Workers : SyncExact(w)]_(Sync!vars)
      PROVE  [\A w \in Workers : Exact(w)]_vars
  <2>1. CASE \A w \in Sync!Workers : SyncExact(w)
    <3>1. ASSUME NEW w \in Workers, Done(w), call[w].alone
          PROVE  members = call[w].want /\ (w = "ensure" => alg = call[w].alg)
      BY <1>1, <2>1, <3>1, SameRests, AbsFields
    <3> QED BY <3>1
  <2>2. CASE UNCHANGED Sync!vars
    <3>1. ASSUME NEW w \in Workers, Done(w) PROVE FALSE
      <4>1. absCall[w].pc = "sync" /\ absCall'[w].pc = "idle"
        <5>1. Atomic!Done(w) /\ absCall[w].pc = "sync"
          BY <1>1, <3>1, DoneImplements DEF Atomic!Done
        <5>2. absCall' = [absCall EXCEPT ![w] = Atomic!Ended(absCall[w])]
          BY <5>1 DEF Atomic!Done, Atomic!Goto
        <5>3. absCall[w] = absOf(call[w]) /\ absCall = [v \in Workers |-> absOf(call[v])]
          BY DEF absCall
        <5> QED BY <5>1, <5>2, <5>3 DEF Atomic!Ended, absOf
      <4>2. absCall' = absCall
        BY <2>2 DEF Sync!vars
      <4> QED BY <4>1, <4>2
    <3> QED BY <3>1
  <2> QED BY <1>1, <2>1, <2>2
<1>2. []ReqInv /\ Sync!AloneExact => AloneExact
  <2>1. ReqInv => CallsOK
    BY DEF ReqInv
  <2> QED BY <1>1, <2>1, PTL DEF AloneExact, Sync!AloneExact
<1> QED BY <1>2, Implements, SameModule, ReqInvInvariant, Sync!AloneIsExact, PTL

\* A pool that has members is emptied only by calls that overlap.
THEOREM LastMemberIsKept == Spec => LastMemberKept
<1> DEFINE Kept == ( members # {} /\ members' = {} )
                      => \E w \in Workers : ~Rests(call[w]) /\ ~call[w].alone
           SyncKept == ( members # {} /\ members' = {} )
                          => \E w \in Sync!Workers : ~Sync!Rests(absCall[w]) /\ ~absCall[w].alone
<1>1. ASSUME CallsOK, [SyncKept]_(Sync!vars)
      PROVE  [Kept]_vars
  BY <1>1, SameRests DEF Sync!vars, Sync!Workers, Workers
<1>2. []ReqInv /\ Sync!LastMemberKept => LastMemberKept
  <2>1. ReqInv => CallsOK
    BY DEF ReqInv
  <2> QED BY <1>1, <2>1, PTL DEF LastMemberKept, Sync!LastMemberKept
<1> QED BY <1>2, Implements, SameModule, ReqInvInvariant, Sync!LastMemberIsKept, PTL

-----------------------------------------------------------------------------
(* Calls end: StepsLeft is a bound on the steps of a call, in linear form. *)

\* What is left to do for the members of S.
Size(S) == Cardinality(S) * (Steps + 3)

\* The members that are not yet as wanted.
Open(c) == (c.want \ c.have) \cup (c.have \ c.want)

\* More members are more to do, and each member is a request of its own.
LEMMA Sizes ==
    ASSUME IsFiniteSet(Nodes), NEW S \in SUBSET Nodes
    PROVE  /\ Size(S) \in Nat
           /\ Size(S) <= Size(Nodes)
           /\ \A m \in S : Size(S \ {m}) \in Nat /\ Size(S) = Size(S \ {m}) + Steps + 3
<1>1. PICK r \in Nat : r = Steps + 3
  BY StepsAssumption
<1>2. IsFiniteSet(S) /\ Cardinality(S) <= Cardinality(Nodes)
  BY FS_Subset
<1>3. Cardinality(S) \in Nat /\ Cardinality(Nodes) \in Nat
  BY <1>2, FS_CardinalityType
<1>4. \A i \in Nat : i * r \in Nat
  BY <1>1
<1>5. \A i, j \in Nat : i <= j => i * r <= j * r
  BY <1>1
<1>6. \A i \in Nat : (i + 1) * r = i * r + r
  BY <1>1
<1>7. ASSUME NEW m \in S
      PROVE  Size(S \ {m}) \in Nat /\ Size(S) = Size(S \ {m}) + Steps + 3
  <2>1. IsFiniteSet(S \ {m}) /\ Cardinality(S \ {m}) = Cardinality(S) - 1
    BY <1>2, FS_RemoveElement
  <2>2. PICK i \in Nat : i = Cardinality(S \ {m})
    BY <2>1, FS_CardinalityType
  <2>3. Cardinality(S) = i + 1
    BY <1>3, <2>1, <2>2
  <2>4. Size(S \ {m}) = i * r /\ Size(S) = i * r + r
    BY <1>1, <1>6, <2>2, <2>3 DEF Size
  <2> QED BY <1>1, <1>4, <2>4, StepsAssumption
<1> QED BY <1>1, <1>2, <1>3, <1>4, <1>5, <1>7 DEF Size

\* StepsLeft at each program counter.
LEMMA StepsLeftIs ==
    ASSUME IsFiniteSet(Nodes), NEW c \in Call
    PROVE  /\ c.pc = "idle" => StepsLeft(c) = 0
           /\ c.pc = "pool" => StepsLeft(c) = Size(Nodes) + Steps + 5
           /\ c.pc = "list" => StepsLeft(c) = Size(Nodes) + 2
           /\ c.pc = "sync" => StepsLeft(c) = Size(Open(c)) + 1
           /\ c.pc = "try" /\ c.op = "pool" => StepsLeft(c) = Size(Nodes) + Steps + 4 - c.tries
           /\ c.pc = "try" /\ c.op # "pool" => StepsLeft(c) = Size(Open(c)) - c.tries
           /\ c.pc = "reply" => StepsLeft(c) = (IF c.op = "none" THEN Size(Nodes) + Steps + 8
                                                ELSE IF c.op = "pool" THEN Size(Nodes) + 4
                                                ELSE Size(Open(c)) + 3)
           /\ c.pc = "wait" => StepsLeft(c) = (IF c.op = "none" THEN Size(Nodes) + Steps + 7
                                               ELSE IF c.op = "pool" THEN Size(Nodes) + 3
                                               ELSE Size(Open(c)) + 2)
<1>1. Open(c) \in SUBSET Nodes
  BY DEF Open, Call
<1>2. PICK n \in Nat : n = Size(Nodes)
  BY Sizes
<1>3. PICK o \in Nat : o = Size(Open(c))
  BY <1>1, Sizes
<1>4. Cardinality(Nodes) * (Steps + 3) = n /\ Cardinality(Open(c)) * (Steps + 3) = o
  BY <1>2, <1>3 DEF Size
<1>5. c.tries \in Nat /\ Steps \in Nat
  BY StepsAssumption DEF Call
<1>6. CASE c.pc \in {"idle", "pool", "list", "sync"}
  BY <1>2, <1>3, <1>4, <1>5, <1>6 DEF StepsLeft, Open
<1>7. CASE c.pc = "try"
  BY <1>2, <1>3, <1>4, <1>5, <1>7 DEF StepsLeft, Open
<1>8. CASE c.pc = "reply"
  BY <1>2, <1>3, <1>4, <1>5, <1>8 DEF StepsLeft, Open
<1>9. CASE c.pc = "wait"
  BY <1>2, <1>3, <1>4, <1>5, <1>9 DEF StepsLeft, Open
<1>10. c.pc \in {"idle", "pool", "list", "sync", "try", "reply", "wait"}
  BY DEF Call
<1> QED BY <1>6, <1>7, <1>8, <1>9, <1>10

\* No request was refused so often that it is not sent again.
TriesLeft(c) == c.tries < Steps

TriesInv == \A w \in Workers : TriesLeft(call[w])

\* What a step of a call does to it.
Nearer(c, d) == TriesLeft(d) /\ StepsLeft(d) < StepsLeft(c)

\* A call that does not rest has a step left.
LEMMA SomeLeft ==
    ASSUME IsFiniteSet(Nodes), NEW w \in Workers, NEW c, Sound(w, c), TriesLeft(c), ~Rests(c)
    PROVE  StepsLeft(c) > 0
<1>1. c \in Call /\ Open(c) \in SUBSET Nodes /\ c.tries \in Nat /\ Steps \in Nat
  BY StepsAssumption DEF Sound, Call, Open
<1>2. PICK n \in Nat : n = Size(Nodes)
  BY Sizes
<1>3. PICK o \in Nat : o = Size(Open(c))
  BY <1>1, Sizes
<1>4. CASE c.pc = "try" /\ c.op # "pool"
  <2>1. c.op \in {"add", "remove"}
    BY <1>1, <1>4 DEF Sound, Call
  <2>2. c.node \in Open(c)
    BY <1>4, <2>1 DEF Sound, Open
  <2>3. PICK p \in Nat : o = p + Steps + 3
    BY <1>1, <1>3, <2>2, Sizes
  <2>4. StepsLeft(c) = o - c.tries
    BY <1>1, <1>3, <1>4, StepsLeftIs
  <2> QED BY <1>1, <2>3, <2>4 DEF TriesLeft
<1>5. CASE c.pc = "try" /\ c.op = "pool"
  BY <1>1, <1>2, <1>5, StepsLeftIs DEF TriesLeft
<1>6. CASE c.pc \in {"pool", "list", "sync"}
  BY <1>1, <1>2, <1>3, <1>6, StepsLeftIs
<1>7. CASE c.pc \in {"reply", "wait"}
  BY <1>1, <1>2, <1>3, <1>7, StepsLeftIs
<1> QED BY <1>1, <1>4, <1>5, <1>6, <1>7 DEF Rests, Call

\* A call that ends comes to its end.
LEMMA EndedNearer ==
    ASSUME IsFiniteSet(Nodes), NEW w \in Workers, NEW c, Sound(w, c), TriesLeft(c), ~Rests(c)
    PROVE  Nearer(c, Ended(c))
<1>1. Ended(c) \in Call /\ Ended(c).pc = "idle"
  BY EndedCall DEF Sound
<1>2. Ended(c).tries = 0
  BY DEF Ended, Asking, Sound, Call
<1> QED BY <1>1, <1>2, SomeLeft, StepsLeftIs, StepsAssumption DEF Nearer, TriesLeft

\* A step of w: its call comes nearer to its end, the other stays.
OnlyNearer(w) ==
    /\ Nearer(call[w], call'[w])
    /\ \A v \in Workers \ {w} : call'[v] = call[v]

LEMMA GotoNearer ==
    ASSUME CallsOK, NEW w \in Workers, NEW d \in Call, Goto(w, d), Nearer(call[w], d)
    PROVE  OnlyNearer(w)
BY OneCallMoves DEF CallsOK, OnlyNearer

LEMMA FailsNearer ==
    ASSUME IsFiniteSet(Nodes), CallsOK, TriesInv, NEW w \in Workers, Fails(w), ~Rests(call[w])
    PROVE  OnlyNearer(w)
<1>1. Sound(w, call[w]) /\ TriesLeft(call[w]) /\ Ended(call[w]) \in Call
  BY EndedCall DEF CallsOK, TriesInv, Sound
<1>2. Goto(w, Ended(call[w]))
  BY DEF Fails, Goto
<1> QED BY <1>1, <1>2, EndedNearer, GotoNearer

\* Past a read of the pool or of its members.
LEMMA ReadsNearer ==
    ASSUME IsFiniteSet(Nodes), ReqInv, TriesInv, NEW w \in Workers,
           (w = "ensure" /\ GetPool) \/ List(w)
    PROVE  OnlyNearer(w)
<1> DEFINE c == call[w]
<1>1. /\ CallsOK /\ Sound(w, c) /\ c \in Call /\ TriesLeft(c) /\ members \in SUBSET Nodes
      /\ Steps \in Nat \ {0}
  BY StepsAssumption DEF ReqInv, CallsOK, RestOK, Sound, TriesInv
<1>2. PICK n \in Nat : n = Size(Nodes)
  BY Sizes
<1>3. ASSUME w = "ensure", GetPool, alg = c.alg
      PROVE  OnlyNearer(w)
  <2> DEFINE d == [c EXCEPT !.pc = "list"]
  <2>1. c.pc = "pool" /\ Goto(w, d)
    BY <1>3 DEF GetPool
  <2>2. d \in Call /\ d.pc = "list" /\ d.tries = c.tries
    BY <1>1 DEF Call
  <2>3. StepsLeft(c) = n + Steps + 5 /\ StepsLeft(d) = n + 2
    BY <1>1, <1>2, <2>1, <2>2, StepsLeftIs
  <2>4. Nearer(c, d)
    BY <1>1, <1>2, <2>2, <2>3 DEF Nearer, TriesLeft
  <2> QED BY <1>1, <2>1, <2>2, <2>4, GotoNearer
<1>4. ASSUME w = "ensure", GetPool, alg # c.alg
      PROVE  OnlyNearer(w)
  <2> DEFINE d == Asking(c, "try", "pool", None)
  <2>1. c.pc = "pool" /\ Goto(w, d)
    BY <1>4 DEF GetPool
  <2>2. d \in Call /\ d.pc = "try" /\ d.op = "pool"
    BY <1>1, AskingCall
  <2>3. d.tries = 0
    BY <1>1 DEF Asking, Call
  <2>4. Nearer(c, d)
    BY <1>1, <1>2, <2>1, <2>2, <2>3, StepsLeftIs DEF Nearer, TriesLeft
  <2> QED BY <1>1, <2>1, <2>2, <2>4, GotoNearer
<1>5. ASSUME List(w), c.want # {}
      PROVE  OnlyNearer(w)
  <2> DEFINE d == [c EXCEPT !.pc = "sync", !.have = members]
  <2>1. c.pc = "list" /\ Goto(w, d)
    BY <1>5 DEF List
  <2>2. d \in Call /\ d.pc = "sync" /\ d.tries = c.tries /\ Open(d) \in SUBSET Nodes
    BY <1>1 DEF Call, Open
  <2>3. PICK o \in Nat : o = Size(Open(d)) /\ o <= n
    BY <1>2, <2>2, Sizes
  <2>4. StepsLeft(c) = n + 2 /\ StepsLeft(d) = o + 1
    BY <1>1, <1>2, <2>1, <2>2, <2>3, StepsLeftIs
  <2>5. Nearer(c, d)
    BY <1>1, <2>2, <2>3, <2>4 DEF Nearer, TriesLeft
  <2> QED BY <1>1, <2>1, <2>2, <2>5, GotoNearer
<1>6. ASSUME List(w), c.want = {}
      PROVE  OnlyNearer(w)
  BY <1>1, <1>6, FailsNearer DEF List, Rests
<1> QED BY <1>3, <1>4, <1>5, <1>6

\* Into a request about a member, or past the last one.
LEMMA MembersNearer ==
    ASSUME IsFiniteSet(Nodes), ReqInv, TriesInv, NEW w \in Workers,
           (\E m \in Nodes : NextMember(w, m)) \/ Done(w)
    PROVE  OnlyNearer(w)
<1> DEFINE c == call[w]
<1>1. CallsOK /\ Sound(w, c) /\ c \in Call /\ TriesLeft(c) /\ Steps \in Nat \ {0}
  BY StepsAssumption DEF ReqInv, CallsOK, Sound, TriesInv
<1>2. ASSUME NEW m \in Nodes, NEW op \in {"add", "remove"}, c.pc = "sync", Goto(w, Asking(c, "try", op, m))
      PROVE  OnlyNearer(w)
  <2> DEFINE d == Asking(c, "try", op, m)
  <2>1. d \in Call /\ d.pc = "try" /\ d.op = op /\ d.want = c.want /\ d.have = c.have
    BY <1>1, AskingFor
  <2>2. d.tries = 0
    BY <1>1 DEF Asking, Call
  <2>3. Open(d) = Open(c) /\ Open(c) \in SUBSET Nodes
    BY <1>1, <2>1 DEF Open, Call
  <2>4. PICK o \in Nat : o = Size(Open(c))
    BY <2>3, Sizes
  <2>5. StepsLeft(c) = o + 1
    BY <1>1, <1>2, <2>4, StepsLeftIs
  <2>6. StepsLeft(d) = o - 0
    BY <2>1, <2>2, <2>3, <2>4, StepsLeftIs
  <2>7. Nearer(c, d)
    BY <1>1, <2>2, <2>4, <2>5, <2>6 DEF Nearer, TriesLeft
  <2> QED BY <1>1, <1>2, <2>1, <2>7, GotoNearer
<1>3. ASSUME NEW m \in Nodes, NextMember(w, m)
      PROVE  OnlyNearer(w)
  BY <1>2, <1>3 DEF NextMember
<1>4. ASSUME Done(w)
      PROVE  OnlyNearer(w)
  <2>1. ~Rests(c) /\ Goto(w, Ended(c)) /\ Ended(c) \in Call
    BY <1>1, <1>4, EndedCall DEF Done, Rests
  <2> QED BY <1>1, <2>1, EndedNearer, GotoNearer
<1> QED BY <1>3, <1>4

\* A request is refused.
LEMMA ConflictNearer ==
    ASSUME IsFiniteSet(Nodes), ReqInv, TriesInv, NEW w \in Workers, Conflict(w)
    PROVE  OnlyNearer(w) \/ Restarts
<1> DEFINE c == call[w]
           d == [c EXCEPT !.tries = @ + 1, !.named = c.op # "pool"]
<1>1. CallsOK /\ Sound(w, c) /\ c \in Call /\ TriesLeft(c) /\ Steps \in Nat \ {0} /\ c.tries \in Nat
  BY StepsAssumption DEF ReqInv, CallsOK, Sound, TriesInv, Call
<1>2. c.pc = "try"
  BY DEF Conflict
<1>3. CASE c.tries + 1 < Steps /\ Goto(w, d)
  <2>1. /\ d \in Call /\ d.pc = "try" /\ d.op = c.op /\ d.tries = c.tries + 1
        /\ d.want = c.want /\ d.have = c.have
    <3>1. PICK i \in 0 .. Steps : i = c.tries + 1
      BY <1>1, <1>3
    <3>2. PICK b \in BOOLEAN : b = (c.op # "pool")
      OBVIOUS
    <3>3. d = [c EXCEPT !.tries = i, !.named = b]
      BY <1>1, <3>1, <3>2 DEF Call
    <3> HIDE DEF d
    <3> QED BY <1>1, <1>2, <3>1, <3>3 DEF Call
  <2>2. Open(d) = Open(c) /\ Open(c) \in SUBSET Nodes
    BY <1>1, <2>1 DEF Open, Call
  <2>3. PICK o \in Nat, n \in Nat : o = Size(Open(c)) /\ n = Size(Nodes)
    BY <2>2, Sizes
  <2>4. \/ StepsLeft(c) = n + Steps + 4 - c.tries /\ StepsLeft(d) = n + Steps + 4 - d.tries
        \/ StepsLeft(c) = o - c.tries /\ StepsLeft(d) = o - d.tries
    <3>1. CASE c.op = "pool"
      BY <1>1, <1>2, <2>1, <2>3, <3>1, StepsLeftIs
    <3>2. CASE c.op # "pool"
      BY <1>1, <1>2, <2>1, <2>2, <2>3, <3>2, StepsLeftIs
    <3> QED BY <3>1, <3>2
  <2>5. Nearer(c, d)
    BY <1>1, <1>3, <2>1, <2>3, <2>4 DEF Nearer, TriesLeft
  <2> QED BY <1>1, <1>3, <2>1, <2>5, GotoNearer
<1>4. CASE FailsOrPanics(w)
  BY <1>1, <1>2, <1>4, FailsNearer DEF FailsOrPanics, Rests
<1> QED BY <1>3, <1>4 DEF Conflict

\* A request is accepted.
LEMMA ApplyNearer ==
    ASSUME IsFiniteSet(Nodes), ReqInv, TriesInv, NEW w \in Workers, Apply(w)
    PROVE  OnlyNearer(w)
<1> DEFINE c == call[w]
           d == [c EXCEPT !.pc = "reply", !.have = AppliedHave(c)]
<1>1. CallsOK /\ Sound(w, c) /\ c \in Call /\ TriesLeft(c) /\ Steps \in Nat \ {0} /\ c.tries \in Nat
  BY StepsAssumption DEF ReqInv, CallsOK, Sound, TriesInv, Call
<1>2. c.pc = "try" /\ Goto(w, d)
  BY ApplyGoes DEF Apply
<1>3. /\ Sound(w, d) /\ d.pc = "reply" /\ d.op = c.op /\ d.want = c.want /\ d.have = AppliedHave(c)
  BY <1>1, <1>2, AppliedCall
<1>4. d \in Call /\ d.tries = c.tries /\ Open(c) \in SUBSET Nodes
  BY <1>1, <1>3 DEF Sound, Call, Open
<1>5. CASE c.op = "pool"
  <2>1. PICK n \in Nat : n = Size(Nodes)
    BY Sizes
  <2>2. StepsLeft(c) = n + Steps + 4 - c.tries /\ StepsLeft(d) = n + 4
    BY <1>1, <1>2, <1>3, <1>4, <1>5, <2>1, StepsLeftIs
  <2>3. Nearer(c, d)
    BY <1>1, <1>4, <2>1, <2>2 DEF Nearer, TriesLeft
  <2> QED BY <1>1, <1>2, <1>4, <2>3, GotoNearer
<1>6. CASE c.op \in {"add", "remove"}
  <2>1. c.node \in Open(c) /\ Open(d) = Open(c) \ {c.node}
    BY <1>1, <1>2, <1>3, <1>6 DEF Sound, Open, AppliedHave
  <2>2. PICK p \in Nat : p = Size(Open(d)) /\ Size(Open(c)) = p + Steps + 3
    BY <1>4, <2>1, Sizes
  <2>3. StepsLeft(c) = p + Steps + 3 - c.tries
    BY <1>1, <1>2, <1>6, <2>2, StepsLeftIs
  <2>4. StepsLeft(d) = p + 3
    BY <1>3, <1>4, <1>6, <2>2, StepsLeftIs
  <2>5. Nearer(c, d)
    BY <1>1, <1>4, <2>2, <2>3, <2>4 DEF Nearer, TriesLeft
  <2> QED BY <1>1, <1>2, <1>4, <2>5, GotoNearer
<1> QED BY <1>1, <1>2, <1>5, <1>6 DEF Sound, Call

\* A member to remove is gone already.
LEMMA GoneNearer ==
    ASSUME IsFiniteSet(Nodes), ReqInv, TriesInv, NEW w \in Workers, Gone(w)
    PROVE  OnlyNearer(w)
<1> DEFINE c == call[w]
           a == Asking(c, "sync", "none", None)
           d == [a EXCEPT !.have = @ \ {c.node}]
<1>1. CallsOK /\ Sound(w, c) /\ c \in Call /\ TriesLeft(c) /\ Steps \in Nat \ {0} /\ c.tries \in Nat
  BY StepsAssumption DEF ReqInv, CallsOK, Sound, TriesInv, Call
<1>2. c.pc = "try" /\ c.op = "remove" /\ Goto(w, d)
  BY DEF Gone
<1>3. a \in Call /\ a.pc = "sync" /\ a.want = c.want /\ a.have = c.have
  BY <1>1, AskingCall
<1>4. a.tries = 0
  BY <1>1 DEF Asking, Call
<1>5. d \in Call /\ d.pc = "sync" /\ d.want = c.want /\ d.have = c.have \ {c.node} /\ d.tries = 0
  BY <1>3, <1>4 DEF Call
<1>6. Open(c) \in SUBSET Nodes /\ c.node \in Open(c) /\ Open(d) = Open(c) \ {c.node}
  BY <1>1, <1>2, <1>5 DEF Sound, Open, Call
<1>7. PICK p \in Nat : p = Size(Open(d)) /\ Size(Open(c)) = p + Steps + 3
  BY <1>6, Sizes
<1>8. StepsLeft(c) = p + Steps + 3 - c.tries
  BY <1>1, <1>2, <1>7, StepsLeftIs
<1>9. StepsLeft(d) = p + 1
  BY <1>5, <1>7, StepsLeftIs
<1>10. Nearer(c, d)
  BY <1>1, <1>5, <1>7, <1>8, <1>9 DEF Nearer, TriesLeft
<1> QED BY <1>1, <1>2, <1>5, <1>10, GotoNearer

\* The answer, and the end of the wait.
LEMMA WaitNearer ==
    ASSUME IsFiniteSet(Nodes), ReqInv, TriesInv, NEW w \in Workers, Reply(w) \/ Poll(w)
    PROVE  OnlyNearer(w)
<1> DEFINE c == call[w]
<1>1. CallsOK /\ Sound(w, c) /\ c \in Call /\ TriesLeft(c) /\ Steps \in Nat \ {0}
  BY StepsAssumption DEF ReqInv, CallsOK, Sound, TriesInv
<1>2. Open(c) \in SUBSET Nodes
  BY <1>1 DEF Open, Call
<1>3. PICK o \in Nat, n \in Nat : o = Size(Open(c)) /\ n = Size(Nodes)
  BY <1>2, Sizes
<1>4. ASSUME Reply(w)
      PROVE  OnlyNearer(w)
  <2> DEFINE d == [c EXCEPT !.pc = "wait"]
  <2>1. c.pc = "reply" /\ Goto(w, d)
    BY <1>4 DEF Reply
  <2>2. d \in Call /\ d.pc = "wait" /\ d.op = c.op /\ d.tries = c.tries /\ Open(d) = Open(c)
    BY <1>1 DEF Call, Open
  <2>3. StepsLeft(c) = (IF c.op = "none" THEN n + Steps + 8 ELSE IF c.op = "pool" THEN n + 4 ELSE o + 3)
    BY <1>1, <1>3, <2>1, StepsLeftIs
  <2>4. StepsLeft(d) = (IF c.op = "none" THEN n + Steps + 7 ELSE IF c.op = "pool" THEN n + 3 ELSE o + 2)
    BY <1>3, <2>2, StepsLeftIs
  <2>5. Nearer(c, d)
    BY <1>1, <1>3, <2>2, <2>3, <2>4 DEF Nearer, TriesLeft
  <2> QED BY <1>1, <2>1, <2>2, <2>5, GotoNearer
<1>5. ASSUME Poll(w), status = "ACTIVE"
      PROVE  OnlyNearer(w)
  <2> DEFINE pc == absPc(c)
             d == Asking(c, pc, "none", None)
  <2>1. c.pc = "wait" /\ Goto(w, d)
    BY <1>5 DEF Poll
  <2>2. pc = (IF c.op = "none" THEN "pool" ELSE IF c.op = "pool" THEN "list" ELSE "sync")
    BY <2>1 DEF absPc
  <2>3. d \in Call /\ d.pc = pc /\ d.want = c.want /\ d.have = c.have
    <3> HIDE DEF pc
    <3> QED BY <1>1, <2>2, AskingCall
  <2>4. d.tries = 0 /\ Open(d) = Open(c)
    BY <1>1, <2>3 DEF Asking, Call, Open
  <2>5. StepsLeft(c) = (IF c.op = "none" THEN n + Steps + 7 ELSE IF c.op = "pool" THEN n + 3 ELSE o + 2)
    BY <1>1, <1>3, <2>1, StepsLeftIs
  <2>6. StepsLeft(d) = (IF c.op = "none" THEN n + Steps + 5 ELSE IF c.op = "pool" THEN n + 2 ELSE o + 1)
    <3> HIDE DEF pc, d
    <3> QED BY <1>3, <2>2, <2>3, <2>4, StepsLeftIs
  <2>7. Nearer(c, d)
    BY <1>1, <1>3, <2>4, <2>5, <2>6 DEF Nearer, TriesLeft
  <2> QED BY <1>1, <2>1, <2>3, <2>7, GotoNearer
<1>6. ASSUME Poll(w), status # "ACTIVE"
      PROVE  OnlyNearer(w)
  BY <1>1, <1>6, FailsNearer DEF Poll, Rests
<1> QED BY <1>4, <1>5, <1>6

\* A call ends before its request is answered, or because of the answer.
LEMMA EndingNearer ==
    ASSUME IsFiniteSet(Nodes), ReqInv, TriesInv, NEW w \in Workers,
           PoolLost(w) \/ Deadline(w) \/ RequestFails(w)
    PROVE  OnlyNearer(w) \/ Restarts
<1>1. CallsOK /\ ~Rests(call[w])
  BY DEF ReqInv, PoolLost, Deadline, RequestFails, Rests
<1>2. Fails(w) \/ Restarts
  BY DEF PoolLost, Deadline, RequestFails, FailsOrPanics
<1> QED BY <1>1, <1>2, FailsNearer

\* What every step does to the call w.
Counted(w) ==
    /\ TriesLeft(call'[w])
    /\ \/ StepsLeft(call'[w]) < StepsLeft(call[w])
       \/ call'[w] = [call[w] EXCEPT !.alone = call'[w].alone]
       \/ Rests(call[w])

LEMMA StaysCounted ==
    ASSUME CallsOK, TriesInv, NEW w \in Workers, call'[w] = call[w]
    PROVE  Counted(w)
<1>1. call[w] \in Call
  BY DEF CallsOK
<1>2. call[w] = [call[w] EXCEPT !.alone = call[w].alone]
  BY <1>1 DEF Call
<1> QED BY <1>2 DEF Counted, TriesInv

LEMMA RestartCounted ==
    ASSUME IsFiniteSet(Nodes), CallsOK, TriesInv, NEW w \in Workers, Restarts
    PROVE  Counted(w)
<1>1. call'[w] = Ended(call[w]) /\ Sound(w, call[w]) /\ TriesLeft(call[w])
  BY DEF Restarts, CallsOK, TriesInv
<1>2. TriesLeft(Ended(call[w]))
  <2>1. Ended(call[w]).tries = 0
    BY <1>1 DEF Ended, Asking, Sound, Call
  <2> QED BY <2>1, StepsAssumption DEF TriesLeft
<1>3. ~Rests(call[w]) => Nearer(call[w], Ended(call[w]))
  BY <1>1, EndedNearer
<1> QED BY <1>1, <1>2, <1>3 DEF Counted, Nearer

LEMMA BeginCounted ==
    ASSUME CallsOK, TriesInv, NEW v \in Workers, Begin(v), NEW w \in Workers
    PROVE  Counted(w)
<1>1. call[w] \in Call /\ TriesLeft(call[w])
  BY DEF CallsOK, TriesInv
<1>2. CASE w = v
  <2>1. Rests(call[w])
    BY <1>2 DEF Begin
  <2>2. call'[w].tries = 0
    BY <1>1, <1>2 DEF Begin, Asking, Call
  <2> QED BY <2>1, <2>2, StepsAssumption DEF Counted, TriesLeft
<1>3. CASE w # v
  <2>1. call'[w] = [call[w] EXCEPT !.alone = FALSE]
    BY <1>3 DEF Begin
  <2>2. call'[w].alone = FALSE /\ call'[w].tries = call[w].tries
    BY <1>1, <2>1 DEF Call
  <2> QED BY <1>1, <2>1, <2>2 DEF Counted, TriesLeft
<1> QED BY <1>2, <1>3

\* Every step brings a call nearer to its end, or only tells it that it is not
\* alone, or finds it at rest.
LEMMA CountedStep ==
    ASSUME IsFiniteSet(Nodes), ReqInv, TriesInv, [Next]_vars, NEW w \in Workers
    PROVE  Counted(w)
<1>1. CallsOK
  BY DEF ReqInv
<1>2. ASSUME NEW v \in Workers, OnlyNearer(v)
      PROVE  Counted(w)
  BY <1>1, <1>2, StaysCounted DEF OnlyNearer, Nearer, Counted
<1>3. ASSUME NEW v \in Workers, Step(v)
      PROVE  OnlyNearer(v) \/ Restarts
  BY <1>3, ReadsNearer, MembersNearer, ConflictNearer, ApplyNearer, GoneNearer, WaitNearer,
     EndingNearer DEF Step
<1>4. ASSUME NEW v \in Workers, RequestFails(v)
      PROVE  OnlyNearer(v) \/ Restarts
  BY <1>4, EndingNearer
<1>5. CASE Restarts
  BY <1>1, <1>5, RestartCounted
<1>6. CASE Settle \/ OthersAct \/ Edits \/ UNCHANGED vars
  <2>1. call' = call
    BY <1>6 DEF Settle, OthersAct, Edits, vars
  <2> QED BY <1>1, <2>1, StaysCounted
<1>7. CASE Restart
  BY <1>5, <1>7 DEF Restart
<1> QED BY <1>1, <1>2, <1>3, <1>4, <1>5, <1>6, <1>7, BeginCounted DEF Next

LEMMA TriesHolds ==
    ASSUME IsFiniteSet(Nodes)
    PROVE  Spec => []TriesInv
<1>1. Init => TriesInv
  BY StepsAssumption DEF Init, TriesInv, TriesLeft
<1>2. ReqInv /\ TriesInv /\ [Next]_vars => TriesInv'
  <2> SUFFICES ASSUME ReqInv, TriesInv, [Next]_vars, NEW w \in Workers
               PROVE  TriesLeft(call'[w])
    BY DEF TriesInv, TriesLeft
  <2> QED BY CountedStep DEF Counted
<1> QED BY <1>1, <1>2, ReqInvInvariant, PTL DEF Spec

\* Every step of a call brings its end nearer and no step of anybody else puts
\* it off, for any finite number of nodes and any number of attempts
\* (reconcileMembers, retryOnConflict).
THEOREM CallsAreBounded ==
    ASSUME IsFiniteSet(Nodes)
    PROVE  Spec => CallsBounded
<1>1. ReqInv /\ TriesInv /\ [Next]_vars
        => [\A w \in Workers :
               \/ StepsLeft(call'[w]) < StepsLeft(call[w])
               \/ call'[w] = [call[w] EXCEPT !.alone = call'[w].alone]
               \/ Rests(call[w])]_vars
  BY CountedStep DEF Counted
<1> QED BY <1>1, ReqInvInvariant, TriesHolds, PTL DEF Spec, CallsBounded

-----------------------------------------------------------------------------
\* A node sync does not wait before its first request, nor does it read the pool.
Course(c) == c.pc # "pool" /\ (c.pc \in {"reply", "wait"} => c.op # "none")

CourseInv == Course(call["update"])

\* The conditions under which the actions of Step(w) can be taken: what they
\* say of the state before.  What else they say gives each primed variable a
\* value.
CanGoOn(w) ==
    LET c == call[w]
    IN  \/ w = "ensure" /\ c.pc = "pool"                                        \* GetPool
        \/ c.pc = "list"                                                        \* List
        \/ c.pc = "sync" /\ \E m \in Nodes : \/ m \in c.want \ c.have           \* NextMember
                                             \/ c.want \subseteq c.have /\ m \in c.have \ c.want
        \/ c.pc = "sync" /\ c.have = c.want                                     \* Done
        \/ /\ c.pc = "try" /\ c.named                                           \* Conflict
           /\ status # "ACTIVE" \/ (c.op = "add" /\ Overtaken(c))
           /\ c.tries + 1 < Steps \/ c.tries + 1 = Steps
        \/ c.pc = "try" /\ c.named /\ status = "ACTIVE" /\ ~Overtaken(c)        \* Apply
        \/ c.pc = "try" /\ c.op = "remove" /\ Overtaken(c)                      \* Gone
        \/ c.pc = "try" /\ ~c.named                                             \* PoolLost
        \/ c.pc = "reply"                                                       \* Reply
        \/ c.pc = "wait" /\ status \in {"ACTIVE", "ERROR"}                      \* Poll
        \/ c.pc = "wait" /\ status = "PENDING"                                  \* Deadline

RunningGoesOn == \A w \in Workers : ~Rests(call[w]) => CanGoOn(w)

\* What a step makes of a call keeps its course.
LEMMA CourseStep ==
    ASSUME CallsOK, CourseInv, NEW w \in Workers, Begin(w) \/ Step(w) \/ RequestFails(w)
    PROVE  CourseInv'
<1> DEFINE u == call["update"]
<1>1. "update" \in Workers /\ "ensure" \in Workers /\ u \in Call /\ call[w] \in Call /\ call \in [Workers -> Call]
  BY DEF Workers, CallsOK
<1>2. Sound("update", u) /\ Course(u)
  BY <1>1 DEF CallsOK, CourseInv
<1>3. ASSUME NEW d, Goto(w, d), w = "update" => Course(d)
      PROVE  CourseInv'
  <2>1. call'["update"] = IF w = "update" THEN d ELSE u
    BY <1>1, <1>3 DEF Goto
  <2> QED BY <1>2, <1>3, <2>1 DEF CourseInv
<1>4. ASSUME NEW c \in Call
      PROVE  Course(Ended(c)) /\ Ended(c) \in Call
  BY EndedCall DEF Course, Rests
<1>5. CASE Fails(w)
  <2>1. Goto(w, Ended(call[w]))
    BY <1>5 DEF Fails, Goto
  <2> QED BY <1>1, <1>3, <1>4, <2>1
<1>6. CASE Restarts
  <2>1. call'["update"] = Ended(u)
    BY <1>1, <1>6 DEF Restarts
  <2> QED BY <1>1, <1>4, <2>1 DEF CourseInv
<1>7. CASE FailsOrPanics(w)
  BY <1>5, <1>6, <1>7 DEF FailsOrPanics
<1>8. CASE Begin(w)
  <2>1. CASE w = "update"
    <3>1. call'["update"].pc = "list"
      BY <1>1, <1>8, <2>1 DEF Begin, Asking, Call
    <3> QED BY <3>1 DEF CourseInv, Course
  <2>2. CASE w # "update"
    <3>1. call'["update"] = [u EXCEPT !.alone = FALSE]
      BY <1>1, <1>8, <2>2 DEF Begin
    <3>2. call'["update"].pc = u.pc /\ call'["update"].op = u.op
      BY <1>1, <3>1 DEF Call
    <3> QED BY <1>2, <3>2 DEF CourseInv, Course
  <2> QED BY <2>1, <2>2
<1>9. CASE w = "ensure" /\ GetPool
  <2>1. PICK d : Goto("ensure", d)
    BY <1>9 DEF GetPool
  <2> QED BY <1>3, <1>9, <2>1
<1>10. CASE List(w)
  <2>1. CASE Fails(w)
    BY <1>5, <2>1
  <2>2. CASE Goto(w, [call[w] EXCEPT !.pc = "sync", !.have = members])
    <3>1. Course([call[w] EXCEPT !.pc = "sync", !.have = members])
      BY <1>1 DEF Course, Call
    <3> QED BY <1>3, <2>2, <3>1
  <2> QED BY <1>10, <2>1, <2>2 DEF List
<1>11. CASE \E m \in Nodes : NextMember(w, m)
  <2>1. PICK m \in Nodes, op \in {"add", "remove"} : Goto(w, Asking(call[w], "try", op, m))
    BY <1>11 DEF NextMember
  <2>2. Course(Asking(call[w], "try", op, m))
    BY <1>1, AskingFor DEF Course
  <2> QED BY <1>3, <2>1, <2>2
<1>12. CASE Done(w)
  BY <1>1, <1>3, <1>4, <1>12 DEF Done
<1>13. CASE Conflict(w)
  <2>1. CASE Goto(w, [call[w] EXCEPT !.tries = @ + 1, !.named = call[w].op # "pool"])
    <3> DEFINE d == [call[w] EXCEPT !.tries = @ + 1, !.named = call[w].op # "pool"]
    <3>1. d.pc = "try"
      BY <1>1, <1>13 DEF Conflict, Call
    <3>2. Course(d)
      BY <3>1 DEF Course
    <3> QED BY <1>3, <2>1, <3>2
  <2> QED BY <1>7, <1>13, <2>1 DEF Conflict
<1>14. CASE Apply(w)
  <2>1. PICK h : Goto(w, [call[w] EXCEPT !.pc = "reply", !.have = h])
    BY <1>1, <1>14 DEF Apply, Call
  <2>2. call[w].pc = "try"
    BY <1>14 DEF Apply
  <2>3. call[w].op # "none"
    BY <2>2 DEF CallsOK, Sound
  <2>4. Course([call[w] EXCEPT !.pc = "reply", !.have = h])
    BY <1>1, <2>3 DEF Course, Call
  <2> QED BY <1>3, <2>1, <2>4
<1>15. CASE Gone(w)
  <2>1. PICK h : Goto(w, [Asking(call[w], "sync", "none", None) EXCEPT !.have = h])
    BY <1>1, <1>15 DEF Gone
  <2>2. [Asking(call[w], "sync", "none", None) EXCEPT !.have = h].pc = "sync"
    BY <1>1 DEF Asking, Call
  <2> QED BY <1>3, <2>1, <2>2 DEF Course
<1>16. CASE PoolLost(w)
  BY <1>7, <1>16 DEF PoolLost
<1>17. CASE Reply(w)
  <2> DEFINE d == [call[w] EXCEPT !.pc = "wait"]
  <2>1. Goto(w, d) /\ call[w].pc = "reply"
    BY <1>17 DEF Reply
  <2>2. d.pc = "wait" /\ d.op = call[w].op
    BY <1>1 DEF Call
  <2>3. w = "update" => Course(d)
    BY <1>2, <2>1, <2>2 DEF Course
  <2> QED BY <1>3, <2>1, <2>3
<1>18. CASE Poll(w)
  <2>1. CASE Fails(w)
    BY <1>5, <2>1
  <2>2. CASE Goto(w, Asking(call[w], absPc(call[w]), "none", None))
    <3>1. call[w].pc = "wait"
      BY <1>18 DEF Poll
    <3>2. Asking(call[w], absPc(call[w]), "none", None).pc = absPc(call[w])
      BY <1>1 DEF Asking, Call
    <3>3. w = "update" => absPc(call[w]) = "sync"
      BY <1>1, <1>2, <3>1 DEF absPc, Course, Sound, Call
    <3>4. w = "update" => Course(Asking(call[w], absPc(call[w]), "none", None))
      BY <3>2, <3>3 DEF Course
    <3> QED BY <1>3, <2>2, <3>4
  <2> QED BY <1>18, <2>1, <2>2 DEF Poll
<1>19. CASE Deadline(w) \/ RequestFails(w)
  BY <1>5, <1>7, <1>19 DEF Deadline, RequestFails
<1> QED BY <1>8, <1>9, <1>10, <1>11, <1>12, <1>13, <1>14, <1>15, <1>16, <1>17, <1>18, <1>19 DEF Step

LEMMA CourseHolds == Spec => []CourseInv
<1>1. Init => CourseInv
  BY DEF Init, CourseInv, Course, Workers
<1>2. ReqInv /\ CourseInv /\ [Next]_vars => CourseInv'
  <2> SUFFICES ASSUME CallsOK, CourseInv, [Next]_vars
               PROVE  CourseInv'
    BY DEF ReqInv
  <2>1. CASE Restart
    <3>1. call'["update"] = Ended(call["update"]) /\ call["update"] \in Call
      BY <2>1 DEF Restart, Restarts, Workers, CallsOK
    <3> QED BY <3>1, EndedCall DEF CourseInv, Course, Rests
  <2>2. CASE Settle \/ OthersAct \/ Edits \/ UNCHANGED vars
    <3>1. call' = call
      BY <2>2 DEF Settle, OthersAct, Edits, vars
    <3> QED BY <3>1 DEF CourseInv
  <2> QED BY <2>1, <2>2, CourseStep DEF Next
<1> QED BY <1>1, <1>2, ReqInvInvariant, PTL DEF Spec

\* A call that runs can always go on, whatever the load balancer and the other
\* call do: it is refused at most Steps times, a member that the other call was
\* faster with is passed over, and a wait ends (waitForActive, retryOnConflict).
THEOREM SomeStepIsLeft ==
    ASSUME IsFiniteSet(Nodes)
    PROVE  Spec => []RunningGoesOn
<1>1. ASSUME ReqInv, TriesInv, CourseInv, NEW w \in Workers, ~Rests(call[w])
      PROVE  CanGoOn(w)
  <2> DEFINE c == call[w]
  <2>1. c \in Call /\ Sound(w, c) /\ TriesLeft(c) /\ status \in {"ACTIVE", "PENDING", "ERROR"}
    BY <1>1 DEF ReqInv, CallsOK, TriesInv, RestOK
  <2>2. c.pc \in {"pool", "list", "sync", "try", "reply", "wait"}
    BY <1>1, <2>1 DEF Call, Rests
  <2>3. CASE c.pc = "pool"
    BY <1>1, <2>3 DEF CanGoOn, CourseInv, Course, Workers
  <2>4. CASE c.pc = "sync"
    <3>1. c.want \subseteq Nodes /\ c.have \subseteq Nodes
      BY <2>1 DEF Call
    <3>2. CASE c.have = c.want
      BY <2>4, <3>2 DEF CanGoOn
    <3>3. CASE c.have # c.want
      <4>1. PICK m \in Nodes : m \in c.want \ c.have \/ (c.want \subseteq c.have /\ m \in c.have \ c.want)
        BY <3>1, <3>3
      <4> QED BY <2>4, <4>1 DEF CanGoOn
    <3> QED BY <3>2, <3>3
  <2>5. CASE c.pc = "try"
    <3>1. c.tries \in Nat /\ c.tries < Steps /\ Steps \in Nat
      BY <2>1, StepsAssumption DEF Call, TriesLeft
    <3>2. c.tries + 1 < Steps \/ c.tries + 1 = Steps
      BY <3>1
    <3>3. Overtaken(c) => c.op \in {"add", "remove"}
      BY DEF Overtaken
    <3> QED BY <2>5, <3>2, <3>3 DEF CanGoOn
  <2>6. CASE c.pc \in {"list", "reply", "wait"}
    BY <2>1, <2>6 DEF CanGoOn
  <2> QED BY <2>2, <2>3, <2>4, <2>5, <2>6
<1>2. ReqInv /\ TriesInv /\ CourseInv => RunningGoesOn
  BY <1>1 DEF RunningGoesOn
<1> QED BY <1>2, ReqInvInvariant, TriesHolds, CourseHolds, PTL
=============================================================================
