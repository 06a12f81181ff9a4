------------------------------ MODULE Identity ------------------------------
(***************************************************************************)
(* The identity provider that every call of the load balancer asks for a   *)
(* client.  The provider authenticates at its first use and keeps the      *)
(* client, under a mutex.  With a password the client carries a token that *)
(* expires; a goroutine refreshes it at the ticks of a ticker.  With AK/SK *)
(* each request is signed and there is no token and no goroutine.          *)
(*                                                                         *)
(* One unit of the clock stands for an hour.  IAM answers at once unless a *)
(* fault is spent on making it slow while the goroutine waits.  The SDK's  *)
(* own reauthentication after a 401 is not modelled: it can only make the  *)
(* token younger.                                                          *)
(***************************************************************************)
EXTENDS Integers

CONSTANTS
    Callers,    \* the workers of the controller that ask for a client
    Loop,       \* the goroutine of the token cache
    Interval,   \* between two refreshes (23 hours)
    Life,       \* of a token (24 hours)
    MaxFaults   \* bound: failed and slow requests

Procs == Callers \cup {Loop}
Free == "free"

ASSUME IdentityAssumption ==
    /\ Loop \notin Callers /\ Free \notin Procs
    /\ Interval \in Nat \ {0} /\ Life \in Nat /\ Interval < Life
    /\ MaxFaults \in Nat

VARIABLES
    method,     \* how the provider authenticates
    client,     \* the cached client: the number of its session, 0 if none
    holder,     \* who holds the mutex during a request; Free if nobody
    pc, got,    \* where everyone is, and the client they were given last
    sessions,   \* history: authentications that succeeded
    age,        \* of the client's token, at most Life
    timer, tick,        \* of the ticker: time to its next tick, a tick nobody took
    stopped,    \* the stop channel is closed
    missed,     \* history: a refresh of this token failed or was slow
    faults      \* failed and slow requests so far

vars == <<method, client, holder, pc, got, sessions, age, timer, tick, stopped, missed, faults>>
auth == <<method, client, sessions, age, missed>>
clock == <<timer, tick, stopped>>

Labels == {"new", "idle", "select", "lock", "auth", "reauth", "ended"}

TypeOK ==
    /\ method \in {"password", "aksk"}
    /\ client \in Nat /\ sessions \in Nat
    /\ holder \in Procs \cup {Free}
    /\ pc \in [Procs -> Labels]
    /\ got \in [Procs -> Nat]
    /\ age \in 0 .. Life
    /\ timer \in 1 .. Interval
    /\ tick \in BOOLEAN /\ stopped \in BOOLEAN /\ missed \in BOOLEAN
    /\ faults \in 0 .. MaxFaults

\* NewOTC has chosen the provider; nobody has authenticated yet.
Init ==
    /\ method \in {"password", "aksk"}
    /\ client = 0 /\ sessions = 0
    /\ holder = Free
    /\ pc = [p \in Procs |-> IF p = Loop THEN "new" ELSE "idle"]
    /\ got = [p \in Procs |-> 0]
    /\ age = 0
    /\ timer = Interval /\ tick = FALSE /\ stopped = FALSE
    /\ missed = FALSE
    /\ faults = 0

Goto(p, label) == pc' = [pc EXCEPT ![p] = label]

-----------------------------------------------------------------------------
\* WithTokenCache: the goroutine starts, unless there are no tokens to refresh.
Initialize ==
    /\ pc[Loop] = "new"
    /\ Goto(Loop, IF method = "aksk" THEN "ended" ELSE "select")
    /\ UNCHANGED <<auth, clock, holder, got, faults>>

\* A call of the load balancer wants a service client.
GetServiceClient(c) ==
    /\ pc[c] = "idle"
    /\ pc[Loop] # "new"
    /\ Goto(c, "lock")
    /\ UNCHANGED <<auth, clock, holder, got, faults>>

\* GetProvider returns the client n: a caller goes on with it, the goroutine
\* calls its ReauthFunc.
Returns(p, n) ==
    /\ got' = [got EXCEPT ![p] = n]
    /\ Goto(p, IF p = Loop THEN "reauth" ELSE "idle")

UnlocksEarly(p) ==
    /\ pc[p] = "lock"
    /\ holder = Free
    /\ \/ client # 0 /\ Returns(p, client)
       \/ client = 0 /\ Goto(p, "auth") /\ UNCHANGED got
    /\ UNCHANGED <<auth, clock, holder, faults>>

\* GetProvider gets the mutex: it returns the cached client, or authenticates
\* and keeps the mutex for as long as that takes.
GetProvider(p) ==
    /\ pc[p] = "lock"
    /\ holder = Free
    /\ \/ client # 0 /\ Returns(p, client) /\ UNCHANGED holder
       \/ client = 0 /\ holder' = p /\ Goto(p, "auth") /\ UNCHANGED got
    /\ UNCHANGED <<auth, clock, faults>>

Authenticated(p) ==
    /\ pc[p] = "auth"
    /\ sessions' = sessions + 1
    /\ client' = sessions'
    /\ age' = 0 /\ missed' = FALSE
    /\ Returns(p, sessions')
    /\ holder' = Free
    /\ UNCHANGED <<method, clock, faults>>

KeepsMutex(p) ==
    /\ pc[p] = "auth"
    /\ faults < MaxFaults /\ faults' = faults + 1
    /\ Goto(p, IF p = Loop THEN "select" ELSE "idle")
    /\ UNCHANGED <<auth, clock, holder, got>>

\* The error is returned and nothing is kept; the goroutine waits for the next
\* tick.
AuthenticationFails(p) ==
    /\ pc[p] = "auth"
    /\ faults < MaxFaults /\ faults' = faults + 1
    /\ Goto(p, IF p = Loop THEN "select" ELSE "idle")
    /\ holder' = Free
    /\ UNCHANGED <<auth, clock, got>>

-----------------------------------------------------------------------------
\* The select of refreshLoop takes one of the channels that are ready.
TakeTick ==
    /\ pc[Loop] = "select"
    /\ tick /\ tick' = FALSE
    /\ Goto(Loop, "lock")
    /\ UNCHANGED <<auth, holder, got, timer, stopped, faults>>

StopSeenFirst ==
    /\ pc[Loop] = "new"
    /\ stopped
    /\ Goto(Loop, "ended")
    /\ UNCHANGED <<auth, clock, holder, got, faults>>

TakeStop ==
    /\ pc[Loop] = "select"
    /\ stopped
    /\ Goto(Loop, "ended")
    /\ UNCHANGED <<auth, clock, holder, got, faults>>

CachedIsEnough ==
    /\ pc[Loop] = "reauth"
    /\ Goto(Loop, "select")
    /\ UNCHANGED <<auth, clock, holder, got, faults>>

Refreshed ==
    /\ pc[Loop] = "reauth"
    /\ age' = 0 /\ missed' = FALSE
    /\ Goto(Loop, "select")
    /\ UNCHANGED <<method, client, sessions, clock, holder, got, faults>>

EndsOnError ==
    /\ pc[Loop] = "reauth"
    /\ faults < MaxFaults /\ faults' = faults + 1
    /\ missed' = TRUE
    /\ Goto(Loop, "ended")
    /\ UNCHANGED <<method, client, sessions, age, clock, holder, got>>

\* A refresh that fails is logged, and the old token kept.
RefreshFails ==
    /\ pc[Loop] = "reauth"
    /\ faults < MaxFaults /\ faults' = faults + 1
    /\ missed' = TRUE
    /\ Goto(Loop, "select")
    /\ UNCHANGED <<method, client, sessions, age, clock, holder, got>>

-----------------------------------------------------------------------------
\* The goroutine is where it waits for the ticker.
LoopRests == pc[Loop] = "ended" \/ (pc[Loop] = "select" /\ ~tick)

Passes == /\ age' = IF age < Life THEN age + 1 ELSE age
          /\ timer' = IF timer = 1 THEN Interval ELSE timer - 1
          /\ tick' = (tick \/ timer = 1)

TickerRunsOut ==
    /\ LoopRests
    /\ age' = IF age < Life THEN age + 1 ELSE age
    /\ timer' = timer - 1
    /\ tick' = (tick \/ timer = 1)
    /\ UNCHANGED <<method, client, sessions, holder, pc, got, stopped, missed, faults>>

\* An hour passes.  The channel of a ticker holds one tick; more are dropped.
Hour ==
    /\ LoopRests
    /\ Passes
    /\ UNCHANGED <<method, client, sessions, holder, pc, got, stopped, missed, faults>>

\* An hour passes before the goroutine gets the mutex or an answer.
SlowHour ==
    /\ pc[Loop] # "new" /\ ~LoopRests
    /\ faults < MaxFaults /\ faults' = faults + 1
    /\ missed' = TRUE
    /\ Passes
    /\ UNCHANGED <<method, client, sessions, holder, pc, got, stopped>>

\* The controller manager shuts down.
Stop ==
    /\ ~stopped /\ stopped' = TRUE
    /\ UNCHANGED <<auth, holder, pc, got, timer, tick, faults>>

Next ==
    \/ Initialize
    \/ \E c \in Callers : GetServiceClient(c)
    \/ \E p \in Procs : GetProvider(p) \/ Authenticated(p) \/ AuthenticationFails(p)
    \/ TakeTick \/ TakeStop \/ Refreshed \/ RefreshFails
    \/ Hour \/ SlowHour \/ Stop

Spec == Init /\ [][Next]_vars

\* Go's mutex and select starve nobody, IAM answers, and the clock goes on.
FairSpec ==
    /\ Spec
    /\ WF_vars(Initialize)
    /\ \A p \in Procs : /\ SF_vars(GetProvider(p))
                        /\ WF_vars(Authenticated(p) \/ AuthenticationFails(p))
    /\ WF_vars(TakeTick) /\ SF_vars(TakeStop)
    /\ WF_vars(Refreshed \/ RefreshFails)
    /\ WF_vars(Hour)

-----------------------------------------------------------------------------
\* However many calls come first at the same time, and whichever of their
\* attempts fail, IAM sees one successful authentication, and everyone works
\* with the client it made (GetProvider).
OneSession ==
    /\ sessions <= 1
    /\ \A p \in Procs : got[p] \in {0, client}

\* "Proactively refreshes the authentication token before it expires": a token
\* expires only if the refresh due during its life failed or was held up, or
\* the goroutine was stopped; wherever between two ticks the token was made
\* (refreshLoop).
Fresh ==
    (method = "password" /\ client # 0 /\ age = Life) => (missed \/ stopped)

\* Nobody waits for ever for a client, even if the one who holds the mutex
\* fails, as long as IAM answers (GetProvider).
CallsReturn == \A c \in Callers : pc[c] = "lock" ~> pc[c] = "idle"

\* A closed stop channel ends the goroutine, in the middle of a refresh and next
\* to a tick that is ready (refreshLoop).
RefreshStops == stopped ~> pc[Loop] = "ended"

\* Failures are not kept: however IAM failed, the goroutine has a fresh token
\* again sooner or later, even if no request is ever made (refreshLoop,
\* GetProvider).
Heals == (method = "password" /\ []~stopped) => []<>(client # 0 /\ age < Life)
=============================================================================
