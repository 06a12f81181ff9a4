------------------------------ MODULE PoolSync ------------------------------
(***************************************************************************)
(* The two calls of the service controller that write the backends of one  *)
(* port of a Service, when they overlap.  "ensure" is EnsureLoadBalancer,   *)
(* which the controller calls when the Service changes: it brings the      *)
(* algorithm of the port's pool up to date (ensurePool, the pool exists)   *)
(* and then its members (reconcileMembers).  "update" is                   *)
(* UpdateLoadBalancer, which the controller calls when nodes come or go:   *)
(* members only.  The controller never runs two calls of one kind at a     *)
(* time for a Service, but it does run a node sync next to a service sync. *)
(*                                                                         *)
(* Here every request to the cloud takes effect or is refused in one step. *)
(* PoolRequests has the retries, the busy load balancer and the waits      *)
(* between the requests, and implements this module.                       *)
(*                                                                         *)
(* A node stands for its member, address and NodePort; nodes without an    *)
(* address get none and are left out.  alg stands for everything           *)
(* pools.Update changes: the algorithm and the session persistence.        *)
(***************************************************************************)
EXTENDS Integers, FiniteSets

CONSTANTS
    Nodes,      \* the nodes that are ever part of the cluster
    Algs,       \* the settings a pool can have
    MaxEdits,   \* bound: changes of the Service and of the node set
    None        \* no setting: the call does not bring one

VARIABLES
    nodes,      \* the nodes the controller sees now
    wantAlg,    \* the pool settings of the Service object
    alg,        \* the settings of the pool in the cloud
    members,    \* the members of the pool in the cloud
    due,        \* which calls the controller will make
    call,       \* the call of each kind that runs
    stable,     \* history: the nodes that were there all along
    edits       \* changes so far

vars == <<nodes, wantAlg, alg, members, due, call, stable, edits>>

Workers == {"ensure", "update"}
Other(w) == IF w = "ensure" THEN "update" ELSE "ensure"

-----------------------------------------------------------------------------
\* want is the node set the call was given, have the listed members with what
\* its loops did since; alone is history: no other call ran at the same time.
Call == [pc : {"idle", "pool", "update", "list", "sync"}, alg : Algs \cup {None},
         want : SUBSET Nodes, have : SUBSET Nodes, alone : BOOLEAN]

Rests(c) == c.pc = "idle"

TypeOK ==
    /\ nodes \in SUBSET Nodes
    /\ wantAlg \in Algs
    /\ alg \in Algs
    /\ members \in SUBSET Nodes
    /\ due \in [Workers -> BOOLEAN]
    /\ call \in [Workers -> Call]
    /\ Rests(call["ensure"]) \/ call["ensure"].alg \in Algs
    /\ stable \in SUBSET Nodes
    /\ edits \in Nat

\* A pool that an earlier call left behind, and a controller that starts.
Init ==
    /\ nodes \in SUBSET Nodes
    /\ wantAlg \in Algs
    /\ alg \in Algs
    /\ members \in SUBSET Nodes
    /\ due = [w \in Workers |-> TRUE]
    /\ call = [w \in Workers |->
                 [pc |-> "idle", alg |-> None, want |-> {}, have |-> {}, alone |-> FALSE]]
    /\ stable = nodes
    /\ edits = 0

-----------------------------------------------------------------------------
\* The user changes the pool settings of the Service.
EditService ==
    /\ edits < MaxEdits
    /\ wantAlg' \in Algs \ {wantAlg}
    /\ edits' = edits + 1
    /\ due' = [due EXCEPT !["ensure"] = TRUE]
    /\ UNCHANGED <<nodes, alg, members, call, stable>>

\* Nodes join, leave, or become (un)ready.
NodesChange ==
    /\ edits < MaxEdits
    /\ nodes' \in SUBSET Nodes \ {nodes}
    /\ stable' = stable \cap nodes'
    /\ edits' = edits + 1
    /\ due' = [due EXCEPT !["update"] = TRUE]
    /\ UNCHANGED <<wantAlg, alg, members, call>>

\* What a call that starts was given, and the flag of the one it overlaps.
Started(w, first) ==
    [v \in Workers |->
        CASE v = w -> [pc |-> first, alg |-> IF w = "ensure" THEN wantAlg ELSE None, want |-> nodes, have |-> {},
                       alone |-> Rests(call[Other(w)])]
          [] v # w -> [call[v] EXCEPT !.alone = FALSE]]

\* The controller reads the Service and the nodes and makes the call.
Begin(w) ==
    /\ Rests(call[w])
    /\ due[w]
    /\ due' = [due EXCEPT ![w] = FALSE]
    /\ call' = Started(w, IF w = "ensure" THEN "pool" ELSE "list")
    /\ UNCHANGED <<nodes, wantAlg, alg, members, stable, edits>>

Goto(w, c) == call' = [call EXCEPT ![w] = c]

\* ensurePool finds the settings of the pool different, or as they should be.
GetPool ==
    LET c == call["ensure"]
    IN  /\ c.pc = "pool"
        /\ Goto("ensure", [c EXCEPT !.pc = IF alg = c.alg THEN "list" ELSE "update"])
        /\ UNCHANGED <<nodes, wantAlg, alg, members, due, stable, edits>>

UpdatePool ==
    LET c == call["ensure"]
    IN  /\ c.pc = "update"
        /\ alg' = c.alg
        /\ Goto("ensure", [c EXCEPT !.pc = "list"])
        /\ UNCHANGED <<nodes, wantAlg, members, due, stable, edits>>

\* reconcileMembers lists the members once; without a usable node it fails.
List(w) ==
    LET c == call[w]
    IN  /\ c.pc = "list"
        /\ c.want # {}
        /\ Goto(w, [c EXCEPT !.pc = "sync", !.have = members])
        /\ UNCHANGED <<nodes, wantAlg, alg, members, due, stable, edits>>

\* The first loop of reconcileMembers: a wanted member the list lacked.  The
\* cloud refuses one that the other call has added since, see Fail.
Add(w, m) ==
    LET c == call[w]
    IN  /\ c.pc = "sync"
        /\ m \in c.want \ c.have
        /\ m \notin members
        /\ members' = members \cup {m}
        /\ Goto(w, [c EXCEPT !.have = @ \cup {m}])
        /\ UNCHANGED <<nodes, wantAlg, alg, due, stable, edits>>

\* Its second loop, after the first: a listed member that is not wanted.  One
\* that is already gone is a 404, which is tolerated.
Remove(w, m) ==
    LET c == call[w]
    IN  /\ c.pc = "sync"
        /\ c.want \subseteq c.have
        /\ m \in c.have \ c.want
        /\ members' = members \ {m}
        /\ Goto(w, [c EXCEPT !.have = @ \ {m}])
        /\ UNCHANGED <<nodes, wantAlg, alg, due, stable, edits>>

\* The record of a call that has ended.
Ended(c) == [c EXCEPT !.pc = "idle", !.alg = None, !.want = {}, !.have = {}, !.alone = FALSE]

Done(w) ==
    LET c == call[w]
    IN  /\ c.pc = "sync"
        /\ c.have = c.want
        /\ Goto(w, Ended(c))
        /\ UNCHANGED <<nodes, wantAlg, alg, members, due, stable, edits>>

\* A call that ends with an error is made again by the service sync, whichever
\* kind it was.
Fail(w) ==
    /\ ~Rests(call[w])
    /\ Goto(w, Ended(call[w]))
    /\ due' = [due EXCEPT !["ensure"] = TRUE]
    /\ UNCHANGED <<nodes, wantAlg, alg, members, stable, edits>>

\* The process ends, in a panic or otherwise; the next one syncs everything.
Restart ==
    /\ \E w \in Workers : ~Rests(call[w])
    /\ call' = [w \in Workers |-> Ended(call[w])]
    /\ due' = [w \in Workers |-> TRUE]
    /\ UNCHANGED <<nodes, wantAlg, alg, members, stable, edits>>

Next ==
    \/ EditService
    \/ NodesChange
    \/ GetPool
    \/ UpdatePool
    \/ \E w \in Workers : Begin(w) \/ List(w) \/ Done(w) \/ Fail(w)
    \/ \E w \in Workers, m \in Nodes : Add(w, m) \/ Remove(w, m)
    \/ Restart

Spec == Init /\ [][Next]_vars

-----------------------------------------------------------------------------
\* A node that was there all along never loses its place in the pool, however
\* the calls overlap, fail and restart: no call that runs was given a node set
\* without it (reconcileMembers, EnsureLoadBalancer, UpdateLoadBalancer).
StableServed == [][stable' \cap members \subseteq members']_vars

\* A call during which no other ran, and which succeeds, leaves exactly the
\* members for the nodes it was given and, for EnsureLoadBalancer, the pool
\* settings it was given; so a listing at the start is enough, and the loops
\* need not list again (reconcileMembers, ensurePool).
AloneExact ==
    [][\A w \in Workers :
         ( Done(w) /\ call[w].alone )
           => ( members = call[w].want /\ (w = "ensure" => alg = call[w].alg) )]_vars

\* A pool that has members is emptied only by calls that overlap: one call adds
\* the new members before it removes the old ones, and refuses an empty node
\* set (reconcileMembers).
LastMemberKept ==
    [][ ( members # {} /\ members' = {} )
          => \E w \in Workers : ~Rests(call[w]) /\ ~call[w].alone]_vars

\* "Node changes: members are added/removed to match the current node set":
\* with no call running and none due the members are those of the nodes
\* (docs/loadbalancer.md; reconcileMembers).
NodesMatched ==
    ( nodes # {} /\ \A w \in Workers : Rests(call[w]) /\ ~due[w] ) => members = nodes
=============================================================================
