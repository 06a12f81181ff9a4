--------------------------- MODULE IdentityProofs ---------------------------
(***************************************************************************)
(* Proofs about Identity, for any number of callers, any interval shorter  *)
(* than a token's life and any number of faults.                           *)
(***************************************************************************)
EXTENDS Identity, TLAPS

\* The mutex is what makes the session unique: only its holder authenticates,
\* and only while there is no client.
SessionInv ==
    /\ client \in {0, 1} /\ sessions = client
    /\ \A p \in Procs : got[p] \in {0, client}
    /\ \A p \in Procs : pc[p] = "auth" => holder = p /\ client = 0

\* A token that no refresh has missed is never older than what is left until
\* the next tick allows; while the goroutine works on a tick the clock stands.
TimeInv ==
    (method = "password" /\ client # 0 /\ ~missed /\ ~stopped) =>
        /\ age <= Interval
        /\ LoopRests => age + timer <= Interval

\* There is a goroutine unless requests are signed, or it was stopped.
LoopInv ==
    /\ pc[Loop] = "new" => client = 0 /\ \A c \in Callers : pc[c] = "idle"
    /\ (pc[Loop] = "ended" /\ method = "password") => stopped
    /\ \A c \in Callers : pc[c] \in {"idle", "lock", "auth"}
    /\ pc[Loop] # "idle"

IdInv == TypeOK /\ SessionInv /\ LoopInv /\ TimeInv

LEMMA Moves ==
    ASSUME TypeOK, NEW p \in Procs, NEW label, Goto(p, label)
    PROVE  /\ pc'[p] = label
           /\ \A q \in Procs : q # p => pc'[q] = pc[q]
BY DEF Goto, TypeOK

-----------------------------------------------------------------------------
LEMMA GotoTyped ==
    ASSUME TypeOK, NEW p \in Procs, NEW label \in Labels, Goto(p, label)
    PROVE  pc' \in [Procs -> Labels]
BY DEF Goto, TypeOK

LEMMA ReturnsTyped ==
    ASSUME TypeOK, NEW p \in Procs, NEW n \in Nat, Returns(p, n)
    PROVE  pc' \in [Procs -> Labels] /\ got' \in [Procs -> Nat]
<1>1. got' \in [Procs -> Nat]
  BY DEF Returns, TypeOK
<1>2. PICK label \in Labels : Goto(p, label)
  BY DEF Returns, Labels
<1> QED BY <1>1, <1>2, GotoTyped

LEMMA HourTyped ==
    ASSUME TypeOK, Passes
    PROVE  age' \in 0 .. Life /\ timer' \in 1 .. Interval /\ tick' \in BOOLEAN
<1>1. age' \in 0 .. Life
  BY IdentityAssumption DEF Passes, TypeOK
<1>2. timer' \in 1 .. Interval
  BY IdentityAssumption DEF Passes, TypeOK
<1>3. tick' \in BOOLEAN
  BY DEF Passes, TypeOK
<1> QED BY <1>1, <1>2, <1>3

LEMMA TypeKept ==
    ASSUME TypeOK, [Next]_vars
    PROVE  TypeOK'
<1> USE DEF auth, clock
<1>0. Loop \in Procs /\ Free \in Procs \cup {Free} /\ \A c \in Callers : c \in Procs
  BY DEF Procs
<1>1. CASE Initialize
  <2>1. pc' \in [Procs -> Labels]
    BY <1>0, <1>1, GotoTyped DEF Initialize, Labels
  <2> QED BY <1>1, <2>1 DEF Initialize, TypeOK
<1>2. ASSUME NEW c \in Callers, GetServiceClient(c) PROVE TypeOK'
  <2>1. pc' \in [Procs -> Labels]
    BY <1>0, <1>2, GotoTyped DEF GetServiceClient, Labels
  <2> QED BY <1>2, <2>1 DEF GetServiceClient, TypeOK
<1>3. ASSUME NEW p \in Procs, GetProvider(p) PROVE TypeOK'
  <2>1. CASE client # 0 /\ Returns(p, client) /\ UNCHANGED holder
    <3>1. pc' \in [Procs -> Labels] /\ got' \in [Procs -> Nat]
      BY <2>1, ReturnsTyped DEF TypeOK
    <3> QED BY <1>3, <2>1, <3>1 DEF GetProvider, TypeOK
  <2>2. CASE client = 0 /\ holder' = p /\ Goto(p, "auth") /\ UNCHANGED got
    <3>1. pc' \in [Procs -> Labels]
      BY <2>2, GotoTyped DEF Labels
    <3> QED BY <1>3, <2>2, <3>1 DEF GetProvider, TypeOK
  <2> QED BY <1>3, <2>1, <2>2 DEF GetProvider
<1>4. ASSUME NEW p \in Procs, Authenticated(p) PROVE TypeOK'
  <2>1. sessions' \in Nat /\ client' \in Nat /\ age' \in 0 .. Life
    BY <1>4, IdentityAssumption DEF Authenticated, TypeOK
  <2>2. pc' \in [Procs -> Labels] /\ got' \in [Procs -> Nat]
    BY <1>4, <2>1, ReturnsTyped DEF Authenticated
  <2> QED BY <1>0, <1>4, <2>1, <2>2 DEF Authenticated, TypeOK
<1>5. ASSUME NEW p \in Procs, AuthenticationFails(p) PROVE TypeOK'
  <2>1. pc' \in [Procs -> Labels]
    BY <1>5, GotoTyped DEF AuthenticationFails, Labels
  <2>2. faults' \in 0 .. MaxFaults
    BY <1>5, IdentityAssumption DEF AuthenticationFails, TypeOK
  <2> QED BY <1>0, <1>5, <2>1, <2>2 DEF AuthenticationFails, TypeOK
<1>6. CASE TakeTick \/ TakeStop \/ Refreshed \/ RefreshFails
  <2>1. pc' \in [Procs -> Labels]
    <3>1. \E label \in {"lock", "ended", "select"} : Goto(Loop, label)
      BY <1>6 DEF TakeTick, TakeStop, Refreshed, RefreshFails
    <3>2. PICK label \in Labels : Goto(Loop, label)
      BY <3>1 DEF Labels
    <3> QED BY <1>0, <3>2, GotoTyped
  <2>2. age' \in 0 .. Life /\ faults' \in 0 .. MaxFaults /\ missed' \in BOOLEAN
    <3>1. CASE TakeTick \/ TakeStop
      BY <3>1 DEF TakeTick, TakeStop, TypeOK
    <3>2. CASE Refreshed
      <4>1. age' = 0 /\ 0 \in 0 .. Life /\ missed' = FALSE /\ faults' = faults
        BY <3>2, IdentityAssumption DEF Refreshed
      <4> QED BY <4>1 DEF TypeOK
    <3>3. CASE RefreshFails
      BY <3>3, IdentityAssumption DEF RefreshFails, TypeOK
    <3> QED BY <1>6, <3>1, <3>2, <3>3
  <2> QED BY <1>6, <2>1, <2>2 DEF TakeTick, TakeStop, Refreshed, RefreshFails, TypeOK
<1>7. CASE Hour
  BY <1>7, HourTyped DEF Hour, TypeOK
<1>8. CASE SlowHour
  <2>1. faults' \in 0 .. MaxFaults
    BY <1>8, IdentityAssumption DEF SlowHour, TypeOK
  <2> QED BY <1>8, <2>1, HourTyped DEF SlowHour, TypeOK
<1>9. CASE Stop
  BY <1>9 DEF Stop, TypeOK
<1>10. CASE UNCHANGED vars
  BY <1>10 DEF vars, TypeOK
<1> QED BY <1>1, <1>2, <1>3, <1>4, <1>5, <1>6, <1>7, <1>8, <1>9, <1>10 DEF Next

LEMMA SessionKept ==
    ASSUME TypeOK, SessionInv, [Next]_vars
    PROVE  SessionInv'
<1> USE DEF auth, clock
<1>1. CASE Initialize
  BY <1>1, Moves DEF Initialize, SessionInv, Procs
<1>2. ASSUME NEW c \in Callers, GetServiceClient(c) PROVE SessionInv'
  BY <1>2, Moves DEF GetServiceClient, SessionInv, Procs
<1>3. ASSUME NEW p \in Procs, GetProvider(p) PROVE SessionInv'
  <2>1. CASE client # 0 /\ Returns(p, client) /\ UNCHANGED holder
    <3>1. \A q \in Procs : pc'[q] = "auth" => pc[q] = "auth"
      BY <2>1, Moves DEF Returns
    <3>2. \A q \in Procs : got'[q] \in {got[q], client}
      BY <2>1 DEF Returns, TypeOK
    <3> QED BY <1>3, <2>1, <3>1, <3>2 DEF GetProvider, SessionInv
  <2>2. CASE client = 0 /\ holder' = p /\ Goto(p, "auth") /\ UNCHANGED got
    <3>1. \A q \in Procs : pc'[q] = "auth" => q = p
      <4>1. \A q \in Procs : pc[q] # "auth"
        BY <1>3, IdentityAssumption DEF GetProvider, SessionInv
      <4> QED BY <2>2, <4>1, Moves
    <3> QED BY <1>3, <2>2, <3>1 DEF GetProvider, SessionInv
  <2> QED BY <1>3, <2>1, <2>2 DEF GetProvider
<1>4. ASSUME NEW p \in Procs, Authenticated(p) PROVE SessionInv'
  <2>1. client = 0 /\ sessions = 0 /\ holder = p
    BY <1>4 DEF Authenticated, SessionInv
  <2>2. client' = 1 /\ sessions' = 1
    BY <1>4, <2>1 DEF Authenticated
  <2>3. \A q \in Procs : got'[q] \in {0, client'}
    <3>1. \A q \in Procs : got[q] = 0
      BY <2>1 DEF SessionInv
    <3> QED BY <1>4, <2>2, <3>1 DEF Authenticated, Returns, TypeOK
  <2>4. \A q \in Procs : pc'[q] # "auth"
    <3>1. \A q \in Procs : q # p => pc[q] # "auth"
      BY <2>1 DEF SessionInv
    <3> QED BY <1>4, <3>1, Moves DEF Authenticated, Returns
  <2> QED BY <2>2, <2>3, <2>4 DEF SessionInv
<1>5. ASSUME NEW p \in Procs, AuthenticationFails(p) PROVE SessionInv'
  <2>1. \A q \in Procs : pc'[q] # "auth"
    <3>1. \A q \in Procs : q # p => pc[q] # "auth"
      BY <1>5 DEF SessionInv, AuthenticationFails
    <3> QED BY <1>5, <3>1, Moves DEF AuthenticationFails
  <2> QED BY <1>5, <2>1 DEF AuthenticationFails, SessionInv
<1>6. CASE TakeTick \/ TakeStop \/ Refreshed \/ RefreshFails
  <2>1. \A q \in Procs : pc'[q] = "auth" => pc[q] = "auth"
    BY <1>6, Moves DEF TakeTick, TakeStop, Refreshed, RefreshFails, Procs
  <2> QED BY <1>6, <2>1 DEF TakeTick, TakeStop, Refreshed, RefreshFails, SessionInv
<1>7. CASE Hour \/ SlowHour \/ Stop
  BY <1>7 DEF Hour, SlowHour, Stop, SessionInv
<1>8. CASE UNCHANGED vars
  BY <1>8 DEF vars, SessionInv
<1> QED BY <1>1, <1>2, <1>3, <1>4, <1>5, <1>6, <1>7, <1>8 DEF Next

LEMMA LoopKept ==
    ASSUME TypeOK, SessionInv, LoopInv, [Next]_vars
    PROVE  LoopInv'
<1> USE IdentityAssumption DEF auth, clock
<1>1. CASE Initialize
  BY <1>1, Moves DEF Initialize, LoopInv, Procs, TypeOK
<1>2. ASSUME NEW c \in Callers, GetServiceClient(c) PROVE LoopInv'
  BY <1>2, Moves DEF GetServiceClient, LoopInv, Procs
<1>3. ASSUME NEW p \in Procs, GetProvider(p) PROVE LoopInv'
  <2>1. pc'[p] \in IF p = Loop THEN {"auth", "reauth"} ELSE {"idle", "auth"}
    BY <1>3, Moves DEF GetProvider, Returns
  <2>2. \A q \in Procs : q # p => pc'[q] = pc[q]
    BY <1>3, Moves DEF GetProvider, Returns
  <2> QED BY <1>3, <2>1, <2>2 DEF GetProvider, LoopInv, Procs
<1>4. ASSUME NEW p \in Procs, Authenticated(p) PROVE LoopInv'
  <2>1. pc'[p] = IF p = Loop THEN "reauth" ELSE "idle"
    BY <1>4, Moves DEF Authenticated, Returns
  <2>2. \A q \in Procs : q # p => pc'[q] = pc[q]
    BY <1>4, Moves DEF Authenticated, Returns
  <2>3. pc[Loop] # "new"
    <3>1. pc[p] = "auth"
      BY <1>4 DEF Authenticated
    <3> QED BY <3>1 DEF LoopInv, Procs
  <2> QED BY <1>4, <2>1, <2>2, <2>3 DEF Authenticated, LoopInv, Procs
<1>5. ASSUME NEW p \in Procs, AuthenticationFails(p) PROVE LoopInv'
  <2>1. pc'[p] = IF p = Loop THEN "select" ELSE "idle"
    BY <1>5, Moves DEF AuthenticationFails
  <2>2. \A q \in Procs : q # p => pc'[q] = pc[q]
    BY <1>5, Moves DEF AuthenticationFails
  <2> QED BY <1>5, <2>1, <2>2 DEF AuthenticationFails, LoopInv, Procs
<1>6. CASE TakeTick \/ TakeStop \/ Refreshed \/ RefreshFails
  <2>1. Loop \in Procs /\ \A c \in Callers : c \in Procs /\ c # Loop
    BY DEF Procs
  <2>2. \A c \in Callers : pc'[c] = pc[c]
    BY <1>6, <2>1, Moves DEF TakeTick, TakeStop, Refreshed, RefreshFails
  <2>3. pc'[Loop] \in {"lock", "ended", "select"} /\ (pc'[Loop] = "ended" => stopped')
    BY <1>6, <2>1, Moves DEF TakeTick, TakeStop, Refreshed, RefreshFails
  <2>4. method' = method /\ client' = client
    BY <1>6 DEF TakeTick, TakeStop, Refreshed, RefreshFails
  <2> QED BY <2>2, <2>3, <2>4 DEF LoopInv
<1>7. CASE Hour \/ SlowHour \/ Stop
  BY <1>7 DEF Hour, SlowHour, Stop, LoopInv
<1>8. CASE UNCHANGED vars
  BY <1>8 DEF vars, LoopInv
<1> QED BY <1>1, <1>2, <1>3, <1>4, <1>5, <1>6, <1>7, <1>8 DEF Next

LEMMA TimeKept ==
    ASSUME TypeOK, SessionInv, LoopInv, TimeInv, [Next]_vars
    PROVE  TimeInv'
<1> USE IdentityAssumption DEF auth, clock
<1> DEFINE Due == age <= Interval /\ (LoopRests => age + timer <= Interval)
<1> SUFFICES ASSUME method' = "password", client' # 0, ~missed', ~stopped'
             PROVE  Due'
  BY DEF TimeInv
<1>0. Loop \in Procs /\ \A c \in Callers : c \in Procs /\ c # Loop
  BY DEF Procs
<1>1. CASE Initialize
  BY <1>1 DEF Initialize, LoopInv
<1>2. ASSUME NEW c \in Callers, GetServiceClient(c) PROVE Due'
  <2>1. pc'[Loop] = pc[Loop]
    BY <1>0, <1>2, Moves DEF GetServiceClient
  <2> QED BY <1>2, <2>1 DEF GetServiceClient, TimeInv, LoopRests
<1>3. ASSUME NEW p \in Procs, GetProvider(p) PROVE Due'
  <2>1. pc'[Loop] = pc[Loop] \/ pc'[Loop] \in {"auth", "reauth"}
    BY <1>0, <1>3, Moves DEF GetProvider, Returns
  <2> QED BY <1>3, <2>1 DEF GetProvider, TimeInv, LoopRests
<1>4. ASSUME NEW p \in Procs, Authenticated(p) PROVE Due'
  BY <1>4 DEF Authenticated, TypeOK
<1>5. ASSUME NEW p \in Procs, AuthenticationFails(p) PROVE Due'
  <2>1. client = 0
    BY <1>5 DEF AuthenticationFails, SessionInv
  <2> QED BY <1>5, <2>1 DEF AuthenticationFails
<1>6. CASE TakeTick
  <2>1. pc'[Loop] = "lock"
    BY <1>0, <1>6, Moves DEF TakeTick
  <2> QED BY <1>6, <2>1 DEF TakeTick, TimeInv, LoopRests
<1>7. CASE TakeStop
  BY <1>7 DEF TakeStop
<1>8. CASE Refreshed
  BY <1>8 DEF Refreshed, TypeOK
<1>9. CASE RefreshFails \/ SlowHour
  BY <1>9 DEF RefreshFails, SlowHour
<1>10. CASE Hour
  <2>1. age + timer <= Interval
    BY <1>10 DEF Hour, TimeInv
  <2>2. age' = age + 1 /\ age' <= Interval
    BY <1>10, <2>1 DEF Hour, Passes, TypeOK
  <2>3. CASE timer = 1
    <3>1. tick' /\ pc' = pc
      BY <1>10, <2>3 DEF Hour, Passes
    <3>2. pc[Loop] # "ended"
      BY <1>10 DEF LoopInv, Hour
    <3> QED BY <2>2, <3>1, <3>2 DEF LoopRests
  <2>4. CASE timer # 1
    BY <1>10, <2>1, <2>2, <2>4 DEF Hour, Passes, TypeOK
  <2> QED BY <2>3, <2>4
<1>11. CASE Stop
  BY <1>11 DEF Stop
<1>12. CASE UNCHANGED vars
  BY <1>12 DEF vars, TimeInv, LoopRests
<1> HIDE DEF Due
<1> QED BY <1>1, <1>2, <1>3, <1>4, <1>5, <1>6, <1>7, <1>8, <1>9, <1>10, <1>11, <1>12 DEF Next

LEMMA IdInvInvariant == Spec => []IdInv
<1>1. Init => IdInv
  <2> SUFFICES ASSUME Init PROVE IdInv
    OBVIOUS
  <2>1. pc \in [Procs -> Labels] /\ \A p \in Procs : pc[p] # "auth"
    BY DEF Init, Labels
  <2>2. TypeOK
    <3>1. 0 \in 0 .. Life /\ 0 \in 0 .. MaxFaults /\ Interval \in 1 .. Interval
      BY IdentityAssumption
    <3>2. holder \in Procs \cup {Free} /\ got \in [Procs -> Nat]
      BY DEF Init
    <3> QED BY <2>1, <3>1, <3>2 DEF Init, TypeOK
  <2>3. LoopInv
    BY IdentityAssumption DEF Init, LoopInv, Procs
  <2>4. SessionInv /\ TimeInv
    BY <2>1 DEF Init, SessionInv, TimeInv
  <2> QED BY <2>2, <2>3, <2>4 DEF IdInv
<1>2. IdInv /\ [Next]_vars => IdInv'
  BY TypeKept, SessionKept, LoopKept, TimeKept DEF IdInv
<1> QED BY <1>1, <1>2, PTL DEF Spec

-----------------------------------------------------------------------------
\* Every variable has its type, throughout every behaviour.
THEOREM TypeCorrect == Spec => []TypeOK
<1>1. IdInv => TypeOK
  BY DEF IdInv
<1> QED BY <1>1, IdInvInvariant, PTL

\* IAM sees one successful authentication, whoever asks when (GetProvider).
THEOREM OneSessionOnly == Spec => []OneSession
<1>1. IdInv => OneSession
  BY DEF IdInv, SessionInv, OneSession
<1> QED BY <1>1, IdInvInvariant, PTL

\* A token does not expire before its refresh, wherever between two ticks it
\* was made, unless that refresh fails, is held up or is stopped (refreshLoop).
THEOREM AlwaysFresh == Spec => []Fresh
<1>1. IdInv => Fresh
  BY IdentityAssumption DEF IdInv, TypeOK, TimeInv, Fresh
<1> QED BY <1>1, IdInvInvariant, PTL
=============================================================================
