# Verification of cloud-provider-opentelekomcloud

TLA+ models of the Open Telekom Cloud provider for Kubernetes, the TLC runs that
check them and the theorems that TLAPS proves about them. Line numbers refer to
the repository's sources.

## 1. The system

### Components

| Component | State | Operations | Behaviour that is hard to test |
|---|---|---|---|
| **ELB controller** `pkg/elb/elb.go` | none between calls; everything is read back from the ELBv3 API | `EnsureLoadBalancer`, `UpdateLoadBalancer`, `EnsureLoadBalancerDeleted`, `GetLoadBalancer` | dozens of API calls per sync, each may fail or lose its reply; listings that go stale; load balancers shared between Services and with users |
| **IP address groups** `pkg/elb/ipgroups.go` | as above | `reconcileIPGroup`, `attachIPGroup`, `deleteIPGroup` | a group is only reachable through the listener it is attached to |
| **Service settings** `pkg/elb/annotations.go` | none | `settingsForService` | an object that was accepted can become unreadable, also for its deletion |
| **Retry and wait** `elb.go:854-893` | poll and backoff counters | `waitForActive`, `retryOnConflict`, `mutate` | a change that took effect is reported as failed; a busy load balancer that refuses everybody |
| **Identity providers** `pkg/identity` | cached provider client under a mutex; ticker of the token cache | `GetProvider`, `GetServiceClient`, `WithTokenCache`, `refreshLoop` | concurrent first use; a refresh that fails; stop and tick at once |
| **Configuration** `pkg/config` | none | `ReadConfig`, `AuthMethod`, `validate` | file and environment mixed field by field |
| **Cloud provider, main program** `pkg/opentelekomcloud`, `cmd` | the identity provider, replaced by `Initialize` | `NewOTC`, `Initialize`, `LoadBalancer` | the load balancer must not capture the provider that is replaced |
| **Service controller** (k8s.io/cloud-provider) | a queue of Service keys, node syncs | calls the ELB controller, retries on error, removes the finalizer | external |
| **ELBv3, EIP, IAM** | the cloud's resources | REST calls | external |

### Interaction

The service controller takes the key of a Service from its queue and calls
`EnsureLoadBalancer`, or `GetLoadBalancer` and then `EnsureLoadBalancerDeleted`.
When the node set changes it calls `UpdateLoadBalancer`. A call that returns an
error is made again later. The ELB controller obtains a client from the current
identity provider, finds the load balancer by id annotation or by name, lists
its listeners once, and then works through ports or listeners with one API call
after the other. Ownership is a convention of names: the listeners and groups of
a Service start with the name of the Service's load balancer and `_`.

### What makes it correct

* ELB controller, next to itself: a node sync and a service sync of one Service that
  overlap may disagree for a while, but a node that stays keeps its place, nobody
  waits for nobody, and a call that ran alone and succeeded did what it was asked to.
* Retry and wait: a request that is sent again is the same request; a call never trips
  over its own change; every wait ends.
* ELB controller: when all syncs of a Service have succeeded, the cloud is what
  the Service and the nodes ask for; failures leave nothing the retry cannot
  repair; nobody's listener is deleted or changed by another Service; a shared
  load balancer is kept; a deleted Service leaves nothing; a call that
  runs alone never empties a pool while it moves it to other nodes (overlapping ones may);
  a service sync attaches backends only behind the whitelist.
* IP groups: exactly the listed ranges may connect; foreign groups stay.
* EIPs: those of the user are never released, automatic ones by a deletion that asks for it and by nothing else.
* Identity: one authentication at a time, a token never older than the refresh
  interval as long as refreshes succeed, at most one late refresh after stop.
* Configuration: file before environment, AK/SK before password; a configuration that is
  accepted does not fail later.
* Settings and names: accepted settings fit every port; whoever cannot delete a Service
  can repair it; a name tells its Service.

The hazards, each at its line and with the properties that cover it, are listed
in `PROJECT.json`.

## 2. The modules

| Module | What it is |
|---|---|
| `ElbHelpers` | the pure functions of `pkg/elb`: member addresses, the monitor a port wants, persistence minutes, `ipListEqual` |
| `Settings` | what the provider makes of annotations, of the configuration and of names |
| `HelperCases` | `ElbHelpers` and `Settings` against reference definitions on all small inputs |
| `LoadBalancer` | the ELB controller with IP groups and EIPs, the ELBv3/EIP APIs, the service controller's queue, users and faults |
| `LoadBalancerProperties` | types, invariants, action properties, liveness, the fair specification |
| `MCLoadBalancer` | the instances for TLC |
| `PoolSync` | abstract: a service sync and a node sync of one Service that overlap on one pool, each request a single step |
| `PoolRequests` | detailed: the same calls through `mutate`, `retryOnConflict` and `waitForActive`; implements `PoolSync` |
| `MCPoolRequests` | the symmetry of its nodes for TLC |
| `Identity` | the identity provider, its callers, the token cache, IAM and the clock |
| `LoadBalancerProofs` | `Spec => []TypeOK`, `Spec => ForeignListenersSurvive`, `Spec => []SharedBalancersKept` |
| `CallProofs` | what a call may do at each step and to which listener; `Spec => OnlyOwnListeners`, `Spec => NeverDrained` |
| `DeletionProofs` | EIPs, and what a deletion leaves behind: listeners, groups, refused requests |
| `ServedProofs` | `Spec => []WhitelistBeforeBackends`, `Spec => []SettledMeansServed` |
| `PoolSyncProofs` | the three safety properties of `PoolSync` |
| `PoolRequestsProofs` | the refinement and the properties that follow from it, `Spec => CallsBounded`, and that a running call can go on |
| `IdentityProofs` | one session, and no token that expires unnoticed |
| `HelperProofs` | the invariants of `HelperCases`, and the lemmas about lists, numbers and names that they rest on |

Definitions that stand right before another one with the same parameters are plausible
bugs of it. In the older modules their names end in `Mutant`, in the newer ones they say
what the bug does (`DoesNotWait`, `KeepsMutex`). They are used by no specification and
show that a property would notice the bug.

### State and actions of `LoadBalancer`

*The cloud.* `balancers` is the set of load balancers; the one that carries the
name of Service `s` is called `s`, those that id annotations may name are
`SharedLBs`. `listener[<<lb, key>>]` is a listener with its pool, members and
monitor: ELBv3 has at most one listener per protocol and port, one default pool
per listener and one monitor per pool, so the place identifies the resource.
`group` and `eip` are IP address groups and public IPs. The owner of a listener
stands for the prefix of its name.

*The cluster.* `spec`, `nodes`, `phase` are the Service objects, the nodes, and
whether a Service is live, being deleted or gone. `queue[s]` holds the syncs owed
to `s`: `"service"` (ensure or delete) and `"nodes"` (update).

*The call in progress.* `call[s]` has the program counter and the local
variables of the call for `s`. Each action makes at most one API request, so calls of
different Services interleave at every request. `existing` is the listing taken
at the start (`elb.go:295`), `mon` the MonitorID of the pool object that was read,
`grp` the group at hand, `have` the members listed, `todo` the listeners still to
be torn down, `eips` the public IPs the load balancer had when it was found.
All of these are snapshots and can be stale when used, as in the code.

| Actions | Code |
|---|---|
| `EnsureLoadBalancer`, `UpdateLoadBalancer`, `EnsureLoadBalancerDeleted`, `Rejected` | the entry points up to the first request; `Rejected` is a call whose arguments fail validation |
| `GetLoadBalancer`, `FoundLoadBalancer`, `MissingLoadBalancer`, `CreateLoadBalancer`, `waitForActive`, `ListListeners` | `elb.go:83-101, 124-142, 295, 362-400, 721-747, 855-870` |
| `CreateListener`, `UpdateIdleTimeout`, `KeepListener` | `elb.go:305-325` |
| `ReconcileIPGroup`, `DisableIPGroup`, `UpdateIPGroup`, `CreateIPGroup`, `AttachIPGroup` | `ipgroups.go:17-106` |
| `GetPool`, `UpdatePool`, `CreatePool`, `FindPoolOfPort` | `elb.go:449-499, 749-765` |
| `ListMembers`, `AddMember`, `RemoveMember`, `MembersDone` | `elb.go:502-563`; any order within the additions and within the removals, as Go iterates over maps |
| `ReconcileMonitor`, `DeleteMonitor`, `CreateMonitor`, `UpdateMonitor` | `elb.go:566-670` |
| `PickListener`, `DropFindPool`, `DropMonitor`, `DropListMembers`, `DropMember`, `DropPool`, `DropListener`, `DropIPGroup`, `SweepDone` | `elb.go:224-240, 345-358, 674-716`, `ipgroups.go:110-135` |
| `DeleteLoadBalancer`, `ReleaseEip`, `Return` | `elb.go:242-289` |
| `Refused` | the cloud rejects the request in its present state, or a check of the code returns an error |
| `Abort` | a request fails for another reason, or takes effect and loses its reply, or the wait after it fails (`mutate`, `elb.go:888`) |
| `Crash` | the process restarts: all calls are lost, every Service is queued |
| `EditService`, `DeleteService`, `RecreateService`, `NodesChange` | users and the cluster |

`Abort` can happen at every step of a call, before the request of that step. A
request that takes effect and is then reported as failed is the step followed by
`Abort`.

### State and actions of `PoolSync` and `PoolRequests`

The service controller never runs two syncs of one Service at a time, and neither two node
syncs, but it runs a node sync next to a service sync. Both end in `reconcileMembers` for
each port. `PoolSync` has one port, its pool and these two calls: `call["ensure"]` and
`call["update"]`, with the node set each was given (`want`), the members it listed with its
own changes since (`have`), and whether any other call ran during it (`alone`, a
history variable). A failed call of either kind is put back as a service sync. Both calls
find the pool there; a Service whose first sync still runs has no node sync that gets this far.

| `PoolRequests` | Code | In `PoolSync` |
|---|---|---|
| `Begin` | `elb.go:113-142` (wait for ACTIVE), `158-187` | `Begin` |
| `GetPool` | `elb.go:452-465` | stutters or `GetPool` |
| `List`, `NextMember`, `Done` | `elb.go:507-563` | `List` or `Fail`, stutters, `Done` |
| `Apply` | the cloud accepts the request of a closure given to `mutate` | `UpdatePool`, `Add`, `Remove` |
| `Conflict`, `PoolLost` | `retryOnConflict`, `elb.go:466-473` | stutters, `Fail` or `Restart` |
| `Gone` | a 404 on removal, `elb.go:557` | `Remove` |
| `Reply`, `Poll`, `Deadline` | `mutate`, `waitForActive` | stutters, `GetPool` or `Fail` |
| `RequestFails` | any other answer, or none | `Fail` or `Restart` |
| `Settle`, `OthersAct` | the cloud's provisioning status, other users of the load balancer | stutters |

The refinement mapping `absCall` says that a request counts as done when the cloud accepts
it: the answer, the wait and their failures come after that. So a step of `PoolRequests`
may be a failure to the caller and a success to the cloud, and the abstract call fails after
its step, never instead of it.

### State and actions of `Identity`

`client` is the cached client (the number of its session), `holder` the mutex, `pc` where each
worker and the refresh goroutine are, `age`, `timer` and `tick` the token and the ticker in
hours. `GetProvider` is the critical section of both providers (`password.go:66-80`,
`aksk.go:64-78`); `Authenticated` and `AuthenticationFails` are the answer of IAM in it;
`TakeTick`, `TakeStop`, `Refreshed` and `RefreshFails` are `refreshLoop`
(`token_cache.go:47-72`), whose `select` picks any channel that is ready. `Hour` passes only
while the goroutine rests; IAM or a mutex that makes it wait longer costs a fault
(`SlowHour`). `method` is what `NewOTC` chose (`Settings` says how); with AK/SK
`WithTokenCache` starts no goroutine.

### Abstractions

* Lookups that read one object and decide (`listeners.Get` then `pools.Get`) are
  one step when nothing is changed in between by the call.
* 409 answers and the polls in between are part of the step that finally succeeds,
  or of the `Abort` that ends the call.
* In `LoadBalancer` names are not cut; `Settings` has what cutting does.
* The delay, timeout and retries of a monitor are one value, since the code only
  copies and compares them together.
* In `LoadBalancer` the calls of one Service do not overlap. In `PoolSync` and
  `PoolRequests` they do, for the pool of one port.
* How the service controller repeats a node sync that failed is not in the repository.
  `LoadBalancer` makes another node sync due, so that nothing but that node sync repairs the members;
  `PoolSync` and `PoolRequests` make a service sync due, which may overlap the next node sync.
* The times between attempts and polls are not modelled: in `PoolRequests` the deadline of a
  wait may pass whenever the load balancer is still busy.
* `alg` in `PoolSync` stands for all that `pools.Update` changes.
* In `Settings` annotation values are a table of texts with what `strconv` and `strings` make
  of them, and names are sequences of letters. Several annotations that the code handles
  alike are one.
* The reauthentication of the SDK after a 401 is left out of `Identity`: it can only
  make a token younger.
* Deletions overlap nothing of their own Service in any module.
* Pools and groups are changed by nobody but the controller; the user's listeners
  exist from the start. The user's listeners have no pool and no group.
* Load balancers appear in listings as soon as they are created.

## 3. The runs

All instances use one or two Services with one to eight versions of the Service
object each. `MaxEdits` bounds edits, deletions, recreations and node changes
together, `MaxFaults` failing requests and restarts together, `MaxAutoEips` the
automatic EIPs alive at once for one Service. Two edits are enough for
create-edit-delete and create-delete-recreate around one sync, and one fault at
any step for each of them; the third group and the second automatic EIP are what
an interrupted call can leave behind, or a deletion keep, and the next creation needs. Deadlock is checked
everywhere: `Quiet` is the only step of a system with nothing to do.

| Run | Instance | What it shows |
|---|---|---|
| `lifecycle` | 1 Service, 2 nodes, 2 ports, an automatic EIP to keep, to release or none, 2 edits, 1 fault | `SettledMeansServed`, `WhitelistBeforeBackends`, `NeverDrained`, `GoneLeavesNoListener`, `TeardownNeverRefused`, `ReleasedOnRequest`, `TypeOK` for a load balancer of its own |
| `shared` | 2 Services and the user on one load balancer, ports of their own, 2 edits | the same under interleaving, `OnlyOwnListeners`, `GoneLeavesNoGroup` |
| `ownership` | 2 Services that want the same port, one moving between load balancers, the other colliding with the user; user EIPs, automatic ones, `eip-keep`; no faults | `ForeignListenersSurvive`, `SharedBalancersKept`, the inductive `OwnershipInv` of the proof, `UserEipsKept`, `GoneLeavesNoEip` |
| `liveness` | 1 Service, also moving between load balancers, 1 node, 2 edits, 1 fault | `EventuallyServed`, `DeletionCompletes` |
| `helpers` | lists up to length 3, all timeouts up to 3700 s, any two annotations, every file and environment, names cut at 8 letters | the pure functions equal their reference definitions; `SettingsUsable`, `RemovalReadable`, `EnvOnlyCompletes`, `NamesTellApart` |
| `members` | 2 nodes, 2 pool settings, 1 change, 2 attempts | `Refines` and the properties of `PoolSync` on the detailed calls, `NoSelfConflict`, `NeverStuck`, `CallsBounded` |
| `identity` | 2 callers, refresh every 3 hours, tokens of 4, 3 faults | `OneSession`, `Fresh`, `CallsReturn`, `RefreshStops`, `Heals` |

In `members` the pool starts with any members and any settings, and both calls are due: one
change is enough for a call that started before it to meet one that started after it. Two
attempts have the case of a first refusal and that of the last one. In `identity` the
interval is one hour shorter than the life of a token, as in the code (23 and 24): the
theorem covers every pair with that order. Three faults fail the
authentication twice and then a refresh. `MaxName` is 8: `kube_service_<cluster>_` is two letters, so
names are cut within the namespace, at the `_`, within the name, or not at all.

`CallsBounded` says that calls end without fairness: each step of a call lowers a bound on
the steps it has left, and no step of another call raises it. `NeverStuck` says that a call
can always take a step. Together with the fairness below they are the liveness of the
calls: none runs for ever.

`SettledMeansServed` and `EventuallyServed` compare the cloud with `Served`, which is
written from the Service object and the nodes and not from the actions. Two
limits are in it: persistence, once on, stays on, which the docs say
(`docs/loadbalancer.md:71`), and an idle timeout that is removed stays, which they do not: line 58
only says that no annotation keeps the default of the cloud. The code sends an idle timeout when one is
asked for (`elb.go:314`), so a listener that had another one keeps it.

`ReleasedOnRequest` is about the version that a deletion is given. In `lifecycle` the versions before
it may have asked for an automatic EIP to keep, for one to release or for none, and a fault may
interrupt the creation or any earlier deletion.

### Disagreements with the documentation

Each of these runs checks one property that the documentation states and that the
code violates; the details are in `PROJECT.json` under `findings`.

| Run | Property | What happens |
|---|---|---|
| `eip_leak` | `GoneLeavesNoEip` | the deletion fails after the load balancer is gone and before its automatic EIP is released; the retry finds no load balancer and succeeds |
| `eip_switch` | `UserEipsKept` | `eip-ids` is edited to `eip-bandwidth` on a live Service; on deletion the user's EIP is released |
| `collision` | `OnlyOwnListeners` | a listener of the user with the wanted protocol and port is adopted and changed |
| `node_overlap` | `NodesMatched` | a service sync with the node list of before a change finishes after the node sync that the change caused; both succeed, the members are wrong and nothing is due |
| `pool_retry` | `RetryNamesPool` | after a 409 the next attempt of `pools.Update` reads the id of the pool from the result of the refused one |

The passing runs check the same properties where the code keeps them: EIPs without faults,
`OnlyOwnListeners` without contention for a port, `StableServed` and `AloneExact` for
overlapping calls.

### Known limits

The passing runs avoid these cases, in which the code does not do what one might expect:

* Source ranges edited from `[a, b]` to `[a, a]` leave `b` in the group: `ipListEqual`
  (`ipgroups.go:155`) compares lengths and then looks for each wanted range. The run `helpers`
  therefore compares lists without repetitions.
* An IP group whose attachment, or whose deletion, is interrupted is never found again
  (`ipgroups.go:81`): `GoneLeavesNoGroup` is checked without faults.
* After the id annotation is changed, what was made on the load balancer it named before, or
  on the Service's own one, stays (`elb.go:721`): `GoneLeavesNoListener` is checked without
  such edits, and `GoneLeavesNoEip` counts only EIPs that no load balancer has.
* Whether an automatic EIP is released is decided by the version of the Service that is deleted
  (`elb.go:250`): an object edited from `eip-bandwidth` to something else leaves it, so
  `GoneLeavesNoEip` is about Services whose versions with a load balancer of their own all ask for release.
* Names that agree in their first 255 bytes are one load balancer, and the listeners of a name
  that was cut at 255 are not recognised (`elb.go:79`, `230`, `348`): `NamesTellApart` is about
  names that are not cut.
* While IAM is silent `GetProvider` holds the mutex without a timeout: everybody waits.

### Fairness

`FairSpec` assumes:

* `WF(Step(s))`: a started call goes on. Go schedules the goroutine, every request has
  an outcome, and every wait has a deadline (`elb.go:856`, five minutes) or a bounded
  number of attempts (`elb.go:874`).
* `SF` of the three entry points for each Service: the service controller puts a
  failed key back with a bounded backoff and works on every key of its queue; an entry
  point is disabled while a call runs or the object fails validation, so it is
  enabled again and again and not continuously.

`Identity!FairSpec` assumes:

* `SF(GetProvider(p))`: Go's `sync.Mutex` hands itself to a waiter that starves.
* `SF(TakeStop)`, `WF(TakeTick)`: a `select` picks uniformly among the channels that are
  ready, and the stop channel, once closed, is ready for ever.
* `WF(Authenticated \/ AuthenticationFails)`, `WF(Refreshed \/ RefreshFails)`: IAM answers,
  with success or failure. The code sets no timeout (`password.go:46`), so this is an
  assumption about IAM and the network, and not about the code.
* `WF(Hour)`: the clock goes on.

`PoolRequests` needs no fairness.

Nothing is assumed of users, nodes, `Abort` and `Crash`; they end because they are
bounded, which stands for faults that stop eventually. `EventuallyServed` is conditional on an object
that can be realised (`Servable`: annotations that parse, TCP or UDP ports with a
NodePort, an addressable node, a load balancer that exists or can be created).

## 4. The proofs

Assumptions on the constants (in `LoadBalancer`, evaluated by TLC in every run):
`NamesAssumption` (Services, load balancers and the user have different names, `None` is
none of them), `CloudAssumption` (the user's listeners are on load balancers that
exist and that Services may name), `SpecsAssumption` (Service objects have the right
shape, ports within `Keys`, and not both `eip-ids` and `eip-bandwidth`, which
`annotations.go:149` refuses), `NodesAssumption`, `BoundsAssumption`. The sets may
be of any size.

* **`TypeCorrect`: `Spec => []TypeOK`.** `TypeOK` is inductive because `CallOK` ties
  the local variables of a call to its program counter: a call past
  `findLoadBalancer` works on the load balancer that its Service object names, a call in the
  loop is at a port the object has, and a group is known where it is attached.
  Without it nothing says that `listener[Slot(s)]` is in the function's domain.
  One lemma per group of actions, one step per action.
* **`OwnershipHolds`: `Spec => []OwnershipInv`**, and from it **`ForeignSafe`:
  `Spec => ForeignListenersSurvive`.** A call decides from its listing whose listeners
  it deletes, and the listing is old when it does. `OwnershipInv` says why that is
  safe: what was listed as the Service's own is still there and its own, because
  only its own call could have removed it, and that call has not come to it yet
  (`key \notin todo`); and a load balancer without an id annotation carries
  only listeners of its Service. `OthersKept`, `OwnKept` and `OnlyOwnAdded` summarise
  what a step does to owners; `OwnStep` and `SameStage` reduce each action to the
  few conditions on its call that can fail.
* **`SharedKept`: `Spec => []SharedBalancersKept`.** The strengthening is that a call at
  `deleteLB` has no id annotation; only `SweepDone` leads there.

The theorems that follow are about more than one call, and some hold only if users respect
a rule that the code relies on and does not check. Each rule is a definition at the end of
`LoadBalancerProperties` with its reason, and a hypothesis of exactly the theorems that
need it:

| Hypothesis | Why the code needs it |
|---|---|
| `PortsDisjoint` | `reconcile` takes whatever listener is at a wanted port (`elb.go:305`) |
| `UserPortsFree` | for the same reason; the run `collision` shows what happens otherwise |
| `PortsDistinct`, `RangesDistinct` | a listing is a map from port to listener; `ipListEqual` does not see repetitions |
| `OneBalancer` | after the id annotation is edited the old load balancer is never looked at |
| `EipsApart` | `releaseEips` releases what was bound, the user's EIPs too (the run `eip_switch`), and fails if the user's EIP is bound again by then |
| `MaxFaults = 0` | an EIP or a group can be lost by an interruption; the run `eip_leak` shows it |

The instance of `lifecycle` meets all of them but `MaxFaults = 0`, and the one of `shared` meets all,
with two Services, the user and source ranges on one load balancer; `ownership` meets `EipsApart` with
user EIPs, automatic ones and ones to keep.

* **`StageHolds`, `PlaceHolds`** (`CallProofs`): which operation may be at which program
  counter and in which phase of the Service; and that a call works on a listener only where
  its object wants one, or where it listed one of its own. `PlaceInv` also has that every
  listener stands on a load balancer that exists, and on one that some version of its owner names.
  All that follows starts from these two. `Touch` and `CallStepOf` summarise what any step
  of a call does to the cloud, so that each invariant is disturbed by one listener, one
  group or one EIP at a time.
* **`OnlyOwnChanged`: `Spec => OnlyOwnListeners`**, with `PortsDisjoint` and `UserPortsFree`: a
  listener at a place that only one Service wants is that Service's.
* **`PoolsNeverDrained`: `Spec => NeverDrained`.** `HaveInv`: what the call lists as members
  is what the pool has, as long as no other Service works there (`Alone`), which on a load
  balancer of its own is always.
* **EIPs** (`DeletionProofs`): `OnlyAskedReleases: Spec => ReleasedOnRequest` for any edits, faults and
  restarts, `UserEipsNeverReleased` (with `EipsApart`) and
  `NoEipLeft` (with `MaxFaults = 0`). `EipInv` says whose the EIPs are that a deletion has listed, and
  that it only comes to releasing them if its object asks for it. `ReleaseInv`: by then the load balancer is
  gone, and the automatic EIPs it had are bound to nothing, so that none is refused.
  `LeakInv`: an automatic EIP that is not bound is known to the deletion that is about to release it;
  a fault at that moment loses it.
* **`NoListenerLeft`: `Spec => []GoneLeavesNoListener`**, with `OneBalancer` and any number of faults. `RemainInv`:
  what a deletion has not yet torn down is in `todo` or at hand, nothing new appears since no
  sync runs while the Service is being deleted; `CleanInv`: past that, neither a load balancer nor a listener is left.
* **`NeverRefused`: `Spec => []TeardownNeverRefused`**, with `PortsDisjoint` and `EipsApart`. `DropInv` says what is down
  already at each step of `deleteListener`, and `GroupInv` that a group of a Service is
  bound by no listener but the one it is named after, so that the group is free once that is down.
* **`NoGroupLeft`: `Spec => []GoneLeavesNoGroup`.** `SeenInv`: what a call has listed of its own
  listeners is still so. `OrphanInv`: a group without a listener is known to the call that is about
  to attach or delete it; with a fault there is no such call.
* **`WhitelistFirst`: `Spec => []WhitelistBeforeBackends`** (`ServedProofs`). `GuardInv` follows the
  whitelist through `reconcileIPGroup`. That a list which `ipListEqual` accepts has the same ranges
  is `SameRanges`, an argument about cardinalities.
* **`SettledServed`: `Spec => []SettledMeansServed`**, with `PortsDisjoint`, `PortsDistinct` and
  `RangesDistinct`, for any number of edits, node changes, faults and restarts. `WorkInv`
  follows idle timeout, pool, members and monitor of the port at hand; `PortDone` says that a call
  that leaves a port has made all of it as its object asks. `ThroughInv` keeps that for
  the ports behind it, `SweptInv` says that the sweep takes exactly what no port wants, and
  `CourseInv` that no port is skipped. `SyncInv` then ties the cloud to the queue: when no service sync is
  owed, a call in progress has the present object or the cloud is as the object wants it; when no
  node sync is owed either, the members are those of the present nodes. A change by a user puts a
  sync into the queue in the same step, a call that fails puts itself back, and the calls of others do
  not touch the Service's listeners. That is the whole of the reconciliation argument.

* **`PoolSyncProofs`: `Spec => StableServed`, `AloneExact`, `LastMemberKept`.** The
  strengthening `SyncInv`: a call was given every node that is stable; a call that runs alone
  knows the members exactly; and past `update` the pool has the settings that
  `call["ensure"]` brought, since no other call changes them.
* **`Implements`: `Spec => Refines`** (`PoolRequestsProofs`), for any nodes, settings and number of
  attempts. Each action has a lemma of its own that names the abstract step. The
  strengthening `ReqInv` says what a request in progress is about: a member to add is wanted
  and not known, a member to remove is known and not wanted, and everything wanted is known
  by then. Without it `Apply` need not be an `Add` or a `Remove`. The three properties of
  `PoolSync` follow for the detailed calls from the refinement, by naming the instance.
* **`NoSelfConflicts`: `Spec => []NoSelfConflict`.** A call leaves `reply` and `wait` only when
  the load balancer is no longer busy with its change, or when it gives the change up.
* **`CallsAreBounded`: `Spec => CallsBounded`**, for finitely many nodes. `StepsLeft` is linear in the
  number of members that are not as wanted (`Sizes`); each accepted request makes that number
  smaller by one, and its attempts cost less than what a member is worth, as long as no request was refused
  `Steps` times (`TriesInv`).
* **`SomeStepIsLeft`** says what `NeverStuck` says without `ENABLED`: a call that runs always meets the
  conditions of one of its own actions, which `CanGoOn` lists one by one. It rests on `TriesInv` (no request
  has been refused `Steps` times) and on `CourseInv` (a node sync neither waits before its first
  request nor reads the pool, so `GetPool`, which only service syncs have, is never what it would need). That an
  action whose conditions hold can be taken is not proved, but visible: what else it says gives each
  primed variable a value.
* **`OneSessionOnly`: `Spec => []OneSession`** (`IdentityProofs`): whoever authenticates holds
  the mutex and has seen no client since.
* **`AlwaysFresh`: `Spec => []Fresh`**, from `Interval < Life`. The strengthening is that
  the age of the token and the time to the next tick add up to the interval at most, as long
  as nothing was missed, and that time does not pass while a tick is pending; so a
  token made between two ticks is refreshed in time without the ticker being reset.
* **The pure functions** (`HelperProofs`). The run `helpers` tries all small inputs; the proofs are about all.
  What a loop over a list computes needs induction, and the induction theorems of the library have
  operators as parameters. `Induction` is therefore proved for sets of numbers, from the pigeonhole principle: were a
  number missing from a set that has 0 and with `n` also `n + 1`, the successor function would
  take a finite set one to one into a smaller one. `Loop` follows, that a recursive function over
  `0 .. n` exists and obeys its equations, and from it what `normalizeRanges` and `First` compute.
  `LeastNumber` does the same for `Min`.
  * **`ListsEqual`**, **`ComparesSets`**: with lists that repeat nothing, equal lengths and one
    inclusion are the equality of sets. The hypothesis is needed, see the known limits.
  * **`AddressIsScanned`**: the least index that qualifies is where the scan stops.
  * **`PersistenceLastsEnough`**: the arithmetic of rounding up to minutes and cutting at 1 and 60.
  * **`EnvironmentCompletes`**, **`AcceptedSettingsUsable`**, **`RemovalLeavesReadable`**: the cases of
    files, environments and annotations. The arguments use no more of the annotations than how
    each is read (`ReadableIfLegible`): they hold for any number of them at once, and not only
    for the two of the run, and over any `[LoadBalancer]` section. The tables of texts and the
    fields are those of `Settings`.
  * **`NamesTellServicesApart`**, **`TellApart`**: a name that still ends in its key was not cut (`KeyKept`), and
    after the cluster's prefix it has exactly one `_` before its key, which tells namespace from name (`Separator`);
    so a prefix that ends in `_` fits only its own Service, whether or not the other name is cut. The length
    at which names are cut is any, the names are of any length and over any letters but `_`, which Kubernetes forbids in them.

`ServedProofs` uses `NormalizedRanges` of this module, so that `RangesDistinct` says no more of
`normalizeRanges` than that no range is listed twice.

Only model-checked: `NeverStuck` as it stands, since it is about `ENABLED`, and liveness (`EventuallyServed`,
`DeletionCompletes`, and the three of `Identity`): fairness is out of the prover's reach.

## 5. Plan

Done: the ELB controller, overlapping calls, retries and waits with their refinement, identity,
settings, configuration and names; proofs of all safety properties of `LoadBalancer`, `PoolSync`,
`PoolRequests` (`NeverStuck` by its guards) and `Identity`, and of all invariants of the pure functions. In this order remain:

1. An abstract contract of a Service (absent, being realised, served, gone) that
   `LoadBalancer` implements.
2. A deletion that overlaps a node sync of the same Service, as a third kind of call of
   `PoolSync` and `PoolRequests`: `deleteListener` lists the members once.
3. Load balancers that appear in the listing late, so that a lost reply of
   `loadbalancers.Create` can make a second one.

## 6. Not modelled

* `pkg/identity/service_client.go` and `buildTransport`: endpoints and TLS settings, no state.
* `pkg/config/clouds.go`: a loader of `clouds.yaml` that the cloud provider does not call;
  the INI parser of `ReadConfig` is a library.
* The methods of `pkg/opentelekomcloud` that report what is not implemented.
* `cmd/cloud-controller-manager`: flags and start-up of the framework.
* Manifests, images, the example, `hack`, smoke and e2e tests: no state of the program.
* Logging, descriptions, bandwidth names, error texts, and the status that a sync reports (`lbStatus`).
