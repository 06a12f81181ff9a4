---------------------------- MODULE PoolRequests ----------------------------
(***************************************************************************)
(* The overlapping calls of PoolSync with the requests they are made of.   *)
(* A load balancer takes one change at a time: from the moment it accepts  *)
(* a change until it is ACTIVE again it answers every other with 409.  Each *)
(* change goes through mutate: retryOnConflict sends the request, up to    *)
(* Steps times while the answer is 409, and waitForActive then polls until *)
(* the load balancer is ACTIVE, in ERROR, or five minutes are over.        *)
(*                                                                         *)
(* Backoff and poll intervals are not modelled: a step may come at any     *)
(* time, so the deadline may pass whenever the load balancer is not ready. *)
(* A request whose answer is lost was either applied before or never is.   *)
(***************************************************************************)
EXTENDS Integers, FiniteSets

CONSTANTS Nodes, Algs, MaxEdits,
    Steps,      \* how often retryOnConflict sends a request (6 in the code)
    None        \* no setting, and the target of a request that is not about a member

ASSUME StepsAssumption == Steps \in Nat \ {0} /\ MaxEdits \in Nat /\ None \notin Nodes \cup Algs

VARIABLES
    nodes, wantAlg, alg, members, due, stable, edits,   \* as in PoolSync
    call,       \* the call of each kind, with the request it is about to make
    status,     \* the provisioning status of the load balancer
    by          \* history: whose change a PENDING load balancer works on

vars == <<nodes, wantAlg, alg, members, due, stable, edits, call, status, by>>

env == <<nodes, wantAlg, stable, edits>>
cloud == <<alg, members, status, by>>

Workers == {"ensure", "update"}
Other(w) == IF w = "ensure" THEN "update" ELSE "ensure"

-----------------------------------------------------------------------------
\* pc is "try" when a request is to be sent, "reply" when it was applied and
\* the answer is under way, "wait" in waitForActive.  op, node and tries are
\* the request, what it is about and how often it was refused; named tells
\* whether the variable pool of ensurePool still holds the pool.
Call == [pc : {"idle", "pool", "list", "sync", "try", "reply", "wait"},
         op : {"none", "pool", "add", "remove"}, node : Nodes \cup {None},
         tries : 0 .. Steps, named : BOOLEAN,
         alg : Algs \cup {None}, want : SUBSET Nodes, have : SUBSET Nodes, alone : BOOLEAN]

Rests(c) == c.pc = "idle"

\* The call of PoolSync that a call stands for.  An accepted request counts as
\* done, one that is not accepted as not begun.
absPc(c) ==
    CASE c.pc \in {"idle", "pool", "list", "sync"} -> c.pc
      [] c.pc = "try" -> IF c.op = "pool" THEN "update" ELSE "sync"
      [] c.pc \in {"reply", "wait"} ->
           (CASE c.op = "none" -> "pool" [] c.op = "pool" -> "list" [] OTHER -> "sync")

absOf(c) == [pc |-> absPc(c), alg |-> c.alg, want |-> c.want, have |-> c.have, alone |-> c.alone]

absCall == [w \in Workers |-> absOf(call[w])]

Atomic == INSTANCE PoolSync WITH call <- absCall

TypeOK ==
    /\ nodes \in SUBSET Nodes /\ stable \in SUBSET Nodes /\ members \in SUBSET Nodes
    /\ wantAlg \in Algs /\ alg \in Algs
    /\ due \in [Workers -> BOOLEAN]
    /\ edits \in 0 .. MaxEdits
    /\ call \in [Workers -> Call]
    /\ Rests(call["ensure"]) \/ call["ensure"].alg \in Algs
    /\ status \in {"ACTIVE", "PENDING", "ERROR"}
    /\ by \in Workers \cup {"other", "nobody"}

Asking(c, pc, op, node) == [c EXCEPT !.pc = pc, !.op = op, !.node = node, !.tries = 0, !.named = TRUE]

Init ==
    /\ nodes \in SUBSET Nodes /\ members \in SUBSET Nodes
    /\ wantAlg \in Algs /\ alg \in Algs
    /\ due = [w \in Workers |-> TRUE]
    /\ stable = nodes
    /\ edits = 0
    /\ call = [w \in Workers |->
                 [pc |-> "idle", op |-> "none", node |-> None, tries |-> 0, named |-> TRUE,
                  alg |-> None, want |-> {}, have |-> {}, alone |-> FALSE]]
    /\ status = "ACTIVE" /\ by = "nobody"

-----------------------------------------------------------------------------
\* How a call ends.  A change the cloud still works on is nobody's then.
Ended(c) == [Asking(c, "idle", "none", None) EXCEPT !.alg = None, !.want = {}, !.have = {}, !.alone = FALSE]

Abandoned(W) == by' = IF by \in W THEN "other" ELSE by

Fails(w) ==
    /\ call' = [call EXCEPT ![w] = Ended(@)]
    /\ due' = [due EXCEPT !["ensure"] = TRUE]
    /\ Abandoned({w})
    /\ UNCHANGED <<env, alg, members, status>>

Restarts ==
    /\ call' = [w \in Workers |-> Ended(call[w])]
    /\ due' = [w \in Workers |-> TRUE]
    /\ Abandoned(Workers)
    /\ UNCHANGED <<env, alg, members, status>>

\* pools.Update failed: its result, which holds no pool, is what the variable
\* pool was set to.  The message of the error, or the next attempt, reads
\* pool.ID: that ends the process if the SDK returned nil, and names no pool
\* otherwise.
FailsOrPanics(w) == Fails(w) \/ (call[w].op = "pool" /\ Restarts)

Goto(w, c) == call' = [call EXCEPT ![w] = c]

-----------------------------------------------------------------------------
\* EnsureLoadBalancer waits for ACTIVE before it touches anything.
Begin(w) ==
    /\ Rests(call[w])
    /\ due[w]
    /\ due' = [due EXCEPT ![w] = FALSE]
    /\ call' = [v \in Workers |->
                  CASE v = w -> [Asking(call[w], IF w = "ensure" THEN "wait" ELSE "list", "none", None)
                                   EXCEPT !.alg = IF w = "ensure" THEN wantAlg ELSE None, !.want = nodes, !.have = {},
                                          !.alone = Rests(call[Other(w)])]
                    [] v # w -> [call[v] EXCEPT !.alone = FALSE]]
    /\ UNCHANGED <<env, cloud>>

\* ensurePool reads the pool and decides whether it needs an update.
GetPool ==
    LET c == call["ensure"]
    IN  /\ c.pc = "pool"
        /\ Goto("ensure", IF alg = c.alg THEN [c EXCEPT !.pc = "list"]
                                         ELSE Asking(c, "try", "pool", None))
        /\ UNCHANGED <<env, due, cloud>>

\* reconcileMembers lists the members; it is an error to want none.
List(w) ==
    LET c == call[w]
    IN  /\ c.pc = "list"
        /\ \/ /\ c.want # {}
              /\ Goto(w, [c EXCEPT !.pc = "sync", !.have = members])
              /\ UNCHANGED <<env, due, cloud>>
           \/ c.want = {} /\ Fails(w)

RemovesListed(w, m) ==
    LET c == call[w]
    IN  /\ c.pc = "sync"
        /\ \/ m \in c.want \ c.have /\ Goto(w, Asking(c, "try", "add", m))
           \/ /\ c.want \subseteq c.have
              /\ m \in c.have
              /\ Goto(w, Asking(c, "try", "remove", m))
        /\ UNCHANGED <<env, due, cloud>>

RemovesFirst(w, m) ==
    LET c == call[w]
    IN  /\ c.pc = "sync"
        /\ \/ m \in c.want \ c.have /\ Goto(w, Asking(c, "try", "add", m))
           \/ m \in c.have \ c.want /\ Goto(w, Asking(c, "try", "remove", m))
        /\ UNCHANGED <<env, due, cloud>>

\* The two loops of reconcileMembers, in the order the maps happen to have.
NextMember(w, m) ==
    LET c == call[w]
    IN  /\ c.pc = "sync"
        /\ \/ m \in c.want \ c.have /\ Goto(w, Asking(c, "try", "add", m))
           \/ /\ c.want \subseteq c.have
              /\ m \in c.have \ c.want
              /\ Goto(w, Asking(c, "try", "remove", m))
        /\ UNCHANGED <<env, due, cloud>>

AddsOnly(w) ==
    LET c == call[w]
    IN  /\ c.pc = "sync"
        /\ c.want \subseteq c.have
        /\ Goto(w, Ended(c))
        /\ UNCHANGED <<env, due, cloud>>

Done(w) ==
    LET c == call[w]
    IN  /\ c.pc = "sync"
        /\ c.have = c.want
        /\ Goto(w, Ended(c))
        /\ UNCHANGED <<env, due, cloud>>

-----------------------------------------------------------------------------
\* The member a request would add or remove is not in the pool the way the
\* call believes, because the other call was faster.
Overtaken(c) == (c.op = "add" /\ c.node \in members) \/ (c.op = "remove" /\ c.node \notin members)

RetriesForever(w) ==
    LET c == call[w]
    IN  /\ c.pc = "try" /\ c.named
        /\ status # "ACTIVE" \/ (c.op = "add" /\ Overtaken(c))
        /\ Goto(w, [c EXCEPT !.tries = @ + 1, !.named = c.op # "pool"])
        /\ UNCHANGED <<env, due, cloud>>

GivesUpSilently(w) ==
    LET c == call[w]
    IN  /\ c.pc = "try" /\ c.named
        /\ status # "ACTIVE" \/ (c.op = "add" /\ Overtaken(c))
        /\ IF c.tries + 1 < Steps THEN Goto(w, [c EXCEPT !.tries = @ + 1]) 
                                  ELSE Goto(w, [c EXCEPT !.pc = "wait"])
        /\ UNCHANGED <<env, due, cloud>>

\* The answer is 409: the load balancer is busy, or the member exists.  The
\* last of the attempts fails.
Conflict(w) ==
    LET c == call[w]
    IN  /\ c.pc = "try" /\ c.named
        /\ status # "ACTIVE" \/ (c.op = "add" /\ Overtaken(c))
        /\ \/ /\ c.tries + 1 < Steps
              /\ Goto(w, [c EXCEPT !.tries = @ + 1, !.named = c.op # "pool"])
              /\ UNCHANGED <<env, due, cloud>>
           \/ c.tries + 1 = Steps /\ FailsOrPanics(w)

\* The cloud accepts the request, applies it and is busy.
Apply(w) ==
    LET c == call[w]
    IN  /\ c.pc = "try" /\ c.named
        /\ status = "ACTIVE"
        /\ ~Overtaken(c)
        /\ alg' = IF c.op = "pool" THEN c.alg ELSE alg
        /\ members' = CASE c.op = "add" -> members \cup {c.node}
                        [] c.op = "remove" -> members \ {c.node}
                        [] OTHER -> members
        /\ Goto(w, [c EXCEPT !.pc = "reply",
                             !.have = CASE c.op = "add" -> @ \cup {c.node}
                                        [] c.op = "remove" -> @ \ {c.node}
                                        [] OTHER -> @])
        /\ status' = "PENDING" /\ by' = w
        /\ UNCHANGED <<env, due>>

\* The member to remove is gone: a 404, which ends mutate before its wait and
\* which reconcileMembers takes for success.
Gone(w) ==
    LET c == call[w]
    IN  /\ c.pc = "try" /\ c.op = "remove" /\ Overtaken(c)
        /\ Goto(w, [Asking(c, "sync", "none", None) EXCEPT !.have = @ \ {c.node}])
        /\ UNCHANGED <<env, due, cloud>>

\* The attempt after a refused pools.Update names no pool.
PoolLost(w) == call[w].pc = "try" /\ ~call[w].named /\ FailsOrPanics(w)

DoesNotWait(w) ==
    /\ call[w].pc = "reply"
    /\ Goto(w, Asking(call[w], absPc(call[w]), "none", None))
    /\ UNCHANGED <<env, due, cloud>>

\* The answer arrives, and mutate goes on to waitForActive.
Reply(w) ==
    /\ call[w].pc = "reply"
    /\ Goto(w, [call[w] EXCEPT !.pc = "wait"])
    /\ UNCHANGED <<env, due, cloud>>

ListsAgain(w) ==
    LET c == call[w]
    IN  /\ c.pc = "wait"
        /\ \/ /\ status = "ACTIVE"
              /\ Goto(w, Asking(c, IF c.op = "none" THEN "pool" ELSE "list", "none", None))
              /\ UNCHANGED <<env, due, cloud>>
           \/ status = "ERROR" /\ Fails(w)

\* A poll of waitForActive that ends it.
Poll(w) ==
    LET c == call[w]
    IN  /\ c.pc = "wait"
        /\ \/ /\ status = "ACTIVE"
              /\ Goto(w, Asking(c, absPc(c), "none", None))
              /\ UNCHANGED <<env, due, cloud>>
           \/ status = "ERROR" /\ Fails(w)

WaitsForever(w) == FALSE

\* Five minutes without an end of the wait.
Deadline(w) == call[w].pc = "wait" /\ status = "PENDING" /\ Fails(w)

\* A request fails in another way, or its answer is lost.
RequestFails(w) ==
    \/ call[w].pc \in {"pool", "list", "wait"} /\ Fails(w)
    \/ call[w].pc \in {"try", "reply"} /\ FailsOrPanics(w)

\* The process is stopped.
Restart == (\E w \in Workers : ~Rests(call[w])) /\ Restarts

-----------------------------------------------------------------------------
\* The cloud finishes the change it works on, or gives up on it.
Settle ==
    /\ status = "PENDING"
    /\ status' \in {"ACTIVE", "ERROR"}
    /\ by' = "nobody"
    /\ UNCHANGED <<env, alg, members, due, call>>

\* The load balancer recovers, or somebody else changes it (a Service that
\* shares it, the user, the cloud itself).
OthersAct ==
    /\ \/ status = "ERROR" /\ status' = "ACTIVE" /\ by' = "nobody"
       \/ status = "ACTIVE" /\ status' = "PENDING" /\ by' = "other"
    /\ UNCHANGED <<env, alg, members, due, call>>

\* The Service and the nodes change as in PoolSync.
Edits == UNCHANGED <<call, status, by>> /\ (Atomic!EditService \/ Atomic!NodesChange)

\* What a call does by itself once its requests are answered.
Step(w) ==
    \/ w = "ensure" /\ GetPool
    \/ List(w) \/ (\E m \in Nodes : NextMember(w, m)) \/ Done(w)
    \/ Conflict(w) \/ Apply(w) \/ Gone(w) \/ PoolLost(w) \/ Reply(w) \/ Poll(w) \/ Deadline(w)

Next ==
    \/ \E w \in Workers : Begin(w) \/ Step(w) \/ RequestFails(w)
    \/ Restart \/ Settle \/ OthersAct \/ Edits

Spec == Init /\ [][Next]_vars

-----------------------------------------------------------------------------
\* With all retries, waits and lost answers, the calls do no more to the pool
\* than the calls of PoolSync, whose requests are single steps (mutate,
\* retryOnConflict, waitForActive).
Refines == Atomic!Spec

\* A node that was there all along never loses its place in the pool (see
\* PoolSync, reconcileMembers).
StableServed == [][stable' \cap members \subseteq members']_vars

\* A call during which no other ran, and which succeeds, leaves exactly the
\* members and the settings it was given, whatever was retried and whichever
\* answers it had to do without (reconcileMembers, ensurePool, mutate).
AloneExact ==
    [][\A w \in Workers :
         ( Done(w) /\ call[w].alone )
           => ( members = call[w].want /\ (w = "ensure" => alg = call[w].alg) )]_vars

\* A pool that has members is emptied only by calls that overlap (see PoolSync,
\* reconcileMembers).
LastMemberKept ==
    [][ ( members # {} /\ members' = {} )
          => \E w \in Workers : ~Rests(call[w]) /\ ~call[w].alone ]_vars

\* A call sends no further request while the load balancer still works on its
\* last one: only others can make it busy.  A removal that found the member
\* gone waits for nothing, and need not (mutate).
NoSelfConflict ==
    \A w \in Workers : by = w => status = "PENDING" /\ call[w].pc \in {"reply", "wait"}

\* How many steps a call has left at most, while others only refuse it.
StepsLeft(c) ==
    LET Request == Steps + 3
        Members(S) == 1 + Cardinality(S) * Request
        Open == (c.want \ c.have) \cup (c.have \ c.want)
        Listing == Members(Nodes) + 1
        Ahead == CASE c.op = "none" -> Listing + Request + 1
                   [] c.op = "pool" -> Listing
                   [] OTHER -> Members(Open)
    IN  CASE c.pc = "idle" -> 0
          [] c.pc = "pool" -> Listing + Request
          [] c.pc = "list" -> Listing
          [] c.pc = "sync" -> Members(Open)
          [] c.pc = "try" -> (IF c.op = "pool" THEN Listing + Request ELSE Members(Open)) - 1 - c.tries
          [] c.pc = "reply" -> Ahead + 2
          [] c.pc = "wait" -> Ahead + 1

\* Every step of a call brings its end nearer, and no step of anybody else puts
\* it off: calls that undo each other's work do not keep each other going, and
\* a busy load balancer is not asked again and again (reconcileMembers,
\* retryOnConflict).
CallsBounded ==
    [][\A w \in Workers :
         \/ StepsLeft(call'[w]) < StepsLeft(call[w])
         \/ call'[w] = [call[w] EXCEPT !.alone = call'[w].alone]
         \/ Rests(call[w])]_vars

\* No call waits for something that may never come: not for a load balancer to
\* become ACTIVE, and not for the other call (waitForActive).
NeverStuck == \A w \in Workers : ~Rests(call[w]) => ENABLED Step(w)

\* "Mutating calls are retried on 409 Conflict" (docs/loadbalancer.md): each
\* attempt is the same request.  ensurePool breaks that for pools.Update.
RetryNamesPool == \A w \in Workers : call[w].pc = "try" => call[w].named
=============================================================================
