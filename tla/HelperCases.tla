---------------------------- MODULE HelperCases ----------------------------
(***************************************************************************)
(* The pure functions of ElbHelpers on all small inputs: every initial     *)
(* state is one input, and the invariants compare the function with a      *)
(* reference definition that is written independently of the code.         *)
(***************************************************************************)
EXTENDS ElbHelpers, Settings

CONSTANTS
    Entries,     \* source ranges
    MaxLen,      \* bound on the length of lists
    MaxSeconds,  \* bound on session affinity timeouts
    MaxName      \* the length at which names are cut (255 in the code)

ASSUME CasesAssumption == MaxLen \in Nat /\ MaxSeconds \in Nat /\ MaxName \in Nat \ {0}

VARIABLES case, input

vars == <<case, input>>

Lists(S) == UNION {[1 .. n -> S] : n \in 0 .. MaxLen}

AddressEntries == [type : {"InternalIP", "ExternalIP", "Hostname"}, address : {"", "a", "b"}]

\* Annotations of which at most two say something.
Said(texts) == { [k \in Annotations |-> CASE k = i -> x [] k = j /\ j # i -> y [] OTHER -> ""] :
                 i \in Annotations, j \in Annotations, x \in texts, y \in texts }

\* A [LoadBalancer] section that is complete, and one that is not there or has
\* an empty lb-algorithm.
Defaults == { [flavor |-> "l4", alg |-> "SOURCE_IP", zones |-> <<"z">>, enabled |-> FALSE, delay |-> 9],
              [flavor |-> "", alg |-> "ROUND_ROBIN", zones |-> <<>>, enabled |-> TRUE, delay |-> 5],
              [flavor |-> "", alg |-> "", zones |-> <<>>, enabled |-> TRUE, delay |-> 5] }

\* Two Services whose names may be parts of each other.
Letters == UNION {[1 .. n -> {"a", "b"}] : n \in 1 .. 3}
ServiceNames == [namespace : Letters, name : Letters]

Init ==
    \/ case = "ranges" /\ input \in [current : Lists(Entries), wanted : Lists(Entries \cup {""})]
    \/ case = "address" /\ input \in Lists(AddressEntries)
    \/ case = "persistence"
       /\ input \in [affinity : {"None", "ClientIP"}, timeout : {Unset} \cup 1 .. MaxSeconds]
    \/ case = "settings" /\ input \in [defaults : Defaults, ann : Said(Texts)]
    \/ case = "config" /\ input \in [file : [Fields -> {"", "f"}], env : [Fields -> {"", "e"}]]
    \/ case = "names" /\ input \in [mine : ServiceNames, other : ServiceNames]

Next == UNCHANGED vars

Spec == Init /\ [][Next]_vars

-----------------------------------------------------------------------------
\* For lists without repetitions, ipListEqual tells whether the group already
\* lets in exactly the wanted ranges, in any order (ipListEqual,
\* normalizeRanges).
ListsEqualAsSets ==
    case = "ranges" =>
        LET wanted == normalizeRanges(input.wanted)
        IN  ( Cardinality(Range(wanted)) = Len(wanted)
              /\ Cardinality(Range(input.current)) = Len(input.current) )
            => (ipListEqual(input.current, wanted)
                  <=> Range(input.current) = Range(input.wanted) \ {""})

\* The persistence never ends before the affinity timeout, unless it is at the
\* longest the cloud allows, and never lasts a minute longer than needed
\* (desiredPersistence).
PersistenceCovers ==
    case = "persistence" =>
        LET minutes == desiredPersistence(input)
        IN  /\ (input.affinity = "None") <=> (minutes = Unset)
            /\ minutes > 0 => /\ minutes <= 60
                              /\ minutes * 60 >= input.timeout \/ minutes = 60
                              /\ (minutes - 1) * 60 < input.timeout

\* The scan of nodeAddress over the addresses, one at a time: it stops at an
\* internal address and remembers the first external one.
First(node, type) ==
    LET found[i \in 0 .. Len(node)] ==
            IF i = 0 THEN ""
            ELSE IF found[i - 1] = "" /\ node[i].type = type THEN node[i].address
            ELSE found[i - 1]
    IN  found[Len(node)]

Scan(node) ==
    IF First(node, "InternalIP") # "" THEN First(node, "InternalIP") ELSE First(node, "ExternalIP")

\* The address a member gets is the one the scan of the node's addresses finds
\* (nodeAddress).
AddressScanned == case = "address" => nodeAddress(input) = Scan(input)

\* Settings that are accepted are fit for every port of a Service: a pool gets
\* an algorithm, HTTP probes a path and a method, a load balancer its EIPs from
\* one place, whatever the configuration leaves out (settingsForService,
\* reconcileMonitor, createLoadBalancer).
SettingsUsable ==
    case = "settings" =>
        \A s \in settingsForService(input.defaults, input.ann), protocol \in {"TCP", "UDP"} :
            LET hc == [protocol |-> s.protocol, path |-> s.path, method |-> "", params |-> s.delay]
                monitor == desiredMonitor([policy |-> "Cluster", hc |-> hc], [protocol |-> protocol])
            IN  /\ s.alg # "" /\ s.idle >= 0
                /\ s.eipIDs = <<>> \/ s.eipBandwidth = 0
                /\ monitor.type \in (IF protocol = "UDP" THEN {"UDP_CONNECT"} ELSE {"TCP", "HTTP"})
                /\ (monitor.type = "HTTP") <=> (monitor.path # "" /\ monitor.method # "")

\* A Service that cannot be read, and therefore neither synced nor deleted, can
\* be helped: taking annotations away never makes one unreadable, and a Service
\* without any is readable (settingsForService).
RemovalReadable ==
    case = "settings" =>
        LET Readable(ann) == settingsForService(input.defaults, ann) # {}
            Without(K) == [k \in Annotations |-> IF k \in K THEN "" ELSE input.ann[k]]
        IN  /\ Readable(Without(Annotations))
            /\ Readable(input.ann) => \A k \in Annotations : Readable(Without({k}))

\* What a complete file says is used as it is: the environment replaces no part
\* of the credentials, and changes the method only where it completes a pair of
\* AK/SK, which comes first; a pair may come half from the file and half from
\* the environment.  No configuration that is accepted fails later, in the
\* provider's constructor (applyEnvFallbacks, validate, NewIdentityProvider).
EnvOnlyCompletes ==
    case = "config" =>
        LET nothing == [f \in Fields |-> ""]
            alone == NewOTC(input.file, nothing)
            both == NewOTC(input.file, input.env)
        IN  /\ (both = {}) <=> (ReadConfig(input.file, input.env) = {})
            /\ alone # {} => \/ both = alone
                             \/ \A p \in both, q \in alone : /\ p.method = "aksk" /\ q.method = "password"
                                                           /\ "e" \in Range(p.with)
            /\ alone # {} => both # {}

\* The name of a resource that is not cut tells its Service: no other Service's
\* prefix matches it, whether that one's own name is cut or not, and no two
\* Services share a load balancer (GetLoadBalancerName and the prefix tests of
\* reconcile, EnsureLoadBalancerDeleted and deleteIPGroup).
NamesTellApart ==
    case = "names" =>
        LET name == childName(input.mine, "TCP_80", MaxName)
        IN  Last(name) = "TCP_80" =>
              /\ namedAfter(input.other, name, MaxName) <=> input.other = input.mine
              /\ (GetLoadBalancerName(input.other, MaxName) = GetLoadBalancerName(input.mine, MaxName))
                    <=> input.other = input.mine
=============================================================================
