# A verification of mockernetes

Mockernetes is a mock Kubernetes API server: kubectl talks to it over mTLS, it
keeps resources in memory, and controllers pretend that pods start, run and are
replaced. These TLA+ modules model the parts of it where goroutines meet: pods
and their transition sequences, the watch of pods, the ReplicaSet controller, and
the Deployment controller on top of it. TLC checks the modules on small
instances, TLAPS proves the safety properties for every value of the constants.

Paths below are relative to `src/internal/`.

## The system

| Component | State | Operations | Meets |
|---|---|---|---|
| Store (`storage/`) | five flat maps, name to JSON, one RWMutex | create, get, list, update, delete; each one lock region | everybody |
| PodController (`controllers/pod_controller.go`) | `stopCh`; one startup goroutine per pod | `OnPodCreated` (Pending), `OnPodStarted` (Running, after the delay), `Stop` | POST pods, ReplicaSet controller, pod table |
| TransitionManager (same file) | `active`: namespace/name to sequence, a mutex; one goroutine per sequence | `StartTransition`, `CancelTransition`, `runTransitionSequence`, `applyState`, Get/List | POST and DELETE pods, simulate, `deletePod` |
| TemplateRegistry (same file) | `templates`: namespace/name to states | register, get, remove, list | POST and DELETE pods, simulate |
| ReplicaSetController (`controllers/replicaset_controller.go`) | `reconciling` and its mutex; one loop goroutine | `reconcileReplicaSet`, status, create and delete pods, `OnReplicaSetCreated/Deleted` | pod and ReplicaSet tables, PodController |
| DeploymentController (`controllers/deployment_controller.go`) | `reconciling` and its mutex; one loop goroutine | `reconcileDeployment`, create and scale a ReplicaSet, status, `OnDeploymentCreated` | Deployment and ReplicaSet tables, ReplicaSetController |
| Pod watch (`WatchPods` in `apis/pods.go`) | a ticker and the request's context; one goroutine per watch | list and send, every tick, until the client is gone | pod table |
| Other API handlers (`apis/`) | none; one goroutine per request | POST, GET, DELETE | store, controllers |
| Server, auth, resources, discovery | fixed at start | wiring, TLS, JSON structs | - |

What is hard in it:

* Locks are held for one map operation. Everything larger - an update of a pod
  (get, then update), `StartTransition` (cancel, verify, insert), a reconcile
  (count, status, scale), a DELETE (find, cancel, remove, delete) - is several
  regions that interleave with everybody else's.
* Goroutines outlive what they were started for: a startup goroutine captures
  the pod it was posted with, a cancelled sequence still runs its deferred
  clean-up, a reconcile works on a copy of a ReplicaSet or a Deployment listed
  earlier, a watch sends what it listed a while ago.
* The Deployment controller calls the ReplicaSet controller in the middle of its
  own reconcile, so one goroutine holds a key of each guard, while the other
  controller's loop and other requests reconcile and write the same ReplicaSet.
* Pods and ReplicaSets are stored by name alone, sequences, templates and
  reconciles are keyed by namespace and name.
* Errors are mostly ignored or logged, so later rounds have to repair them.

What makes the components correct: the table of sequences tells the truth about
the goroutines; a cancelled sequence stops; a pod holds its own spec, creation
time and status and moves forward only; deleted pods stay deleted; a key is
reconciled by one goroutine at a time; a ReplicaSet gets as many pods as asked
for, no more at any time and no fewer in the end; deleting it leaves nothing; a
Deployment comes to have its ReplicaSet with its replicas; a client that watches
pods is never sent an old version after a newer one, comes to see the last, and
leaves no goroutine behind.
`PROJECT.json` lists the hazards line by line with the properties that face them.

## The modules

### TransitionManager

The table `active`, the goroutines `seq` and the callers `caller`. One action is
one lock region, one store call or one `select`:

| Code | Actions |
|---|---|
| `StartTransition` | `StartCall`, `StartCancel`, `StartVerify`, `StartInsert` |
| `CancelTransition` | `CancelCall`, and inside `StartCancel` |
| `runTransitionSequence` | `SeqCheck` (head of the loop), `SeqWait` (timer or `ctx.Done`), `SeqCleanup` (deferred delete) |
| `applyState` | `SeqGet`, `SeqPut` |

The store is the set of names it holds, created and deleted by anybody. A
sequence is the number of states it lists; delays are not counted, a timer may
fire at any time. An early return of `StartTransition` for an empty name or list
changes nothing and is left out. `late` is an auxiliary count of the pod updates
made after the cancellation.

### PodLifecycle

Composes the table of sequences (an instance of TransitionManager, whose lock
regions and goroutine steps it uses) with the pod store, POST and DELETE of
pods, the PodController's startup goroutines and the template registry. A
record in `pods` says which POST the spec and the creation time come from,
whether owner references are there, and which goroutine wrote which status.
Incarnation `i` of a name is the `i`-th successful POST; its sequence and its
startup goroutine carry the same number. `clean` is auxiliary: nothing left of
earlier pods of the name could still write when the pod was posted.

| Code | Actions |
|---|---|
| `apis.CreatePod` | `PostPod`, `PostLookup`, then `PostCancel`, `PostVerify`, `PostInsert` or `PostPendingGet`, `PostPendingPut` |
| `createPodForReplicaSet` | `CreatePodForReplicaSet`, `PostPendingGet`, `PostPendingPut` |
| startup goroutine, `OnPodStarted` | `TimerFire`, `TimerPut`, `TimerStop` |
| `applyState` in the store | `SeqGet`, `SeqPut` |
| `apis.DeletePod` | `DeletePod`, `DeleteCancel`, `DeleteTemplate`, `DeleteStore` |
| `deletePod` of the ReplicaSet controller | `DeletePodOfReplicaSet`, then the same |
| `SimulatePod`, `CancelPodTransition` | the same names, and `SimCancel` |
| `Stop` | `Stop`, `TimerStop` |

`deletePod` looks nothing up: its pod was in a list made before, so
`DeletePodOfReplicaSet` only asks that a pod of that name with an owner was posted
once, and may meet no pod, or the next one. Its namespace is always "default"; the
action allows any, which is more than the code does.

The module is shown to implement two others. `TM` is TransitionManager with this
state seen through a refinement mapping: the handlers of the API are its callers,
the names of the stored pods its store (`ImplementsTransitionManager`). `PT` is
PodTable (`ImplementsPodTable`).

### PodTable

The abstract specification of the pods API: a table, the POSTs so far, and for
each POST an agent with the last status it came to. `Post` adds a row, `Delete`
takes it away, and an agent either writes its next status into the row of its
name (`Write`) or comes to it without writing (`Skip`), which it may only do when
there is no row, or, with Running, once the default controller is stopped (`Halt`).
There are no locks, handlers, timers or sequences in it: PodLifecycle's many actions
are each one of these five or nothing. What the code does *not* promise is in it too:
an agent outlives its pod and may write the next one of the name, with a template
even with an older spec.

### PodWatch

The goroutines of `WatchPods` (`watch`), the version and the namespace of each
stored pod, and a clock of versions. `WatchPods` is the request with its first
list, `Send` one event, `Tick` the ticker with the next list, `Done` the
disconnection noticed in the `select`, `Disconnect` the client. `asof`
is auxiliary: the clock when the round was listed. Writes are of any
pod at any time: who writes what is PodLifecycle's business. A pod without a
namespace passes every filter, as in the code. The type of an event (ADDED in the
first round, MODIFIED after it) is left out: it depends on nothing the watch knows
of a pod. DELETED is never sent, although `apis/pods.go:243` lists it; a client
learns of a deletion by no event at all, so nothing is stated about it.

### ReplicaSetController

The ReplicaSet table, the owners of the stored pods, the map `reconciling`, the
loop goroutine and the request goroutines. `Enter` and `Exit` are the two
critical sections of the guard, `Count` the list of pods, `GetRS` and `PutRS`
the status update, `CreatePod`, `CreateClash` and `DeletePod` one round each of
the scaling loops; `Tick` and `LoopNext` are the background loop over its copies;
`PostRS`, `DeleteRS`, `DeleteList`, `DeletePods`, `DeleteStored` the handlers.
`KillPod` is a client's DELETE of a pod. A new pod's name comes from the clock in
nanoseconds: it is no name a goroutine still holds, but it may clash with a
stored one (`CreateClash`). `Surplus` is any subset of the right size, since
the list of pods comes from a Go map.

Assumptions about clients: a ReplicaSet has a spec (`updateReplicaSetReplicas` sets
the number only in a spec that is a map, so that one without would stay unscaled);
spec.replicas, when present, is a number from 0 up
(from a JSON body it is a float64); nobody posts a pod that names a ReplicaSet
as its owner or puts a template on a ReplicaSet's pod. `cap` is auxiliary: the
largest number of replicas ever asked for under a name. So is `calm`: the names
whose pods nobody but their reconcile changed since it counted them, and for which
no creation failed.

The module is shown to implement Provisioning (`ImplementsProvisioning`), with the
plan of a name seen in the goroutine that has counted its pods (`planned`).

### Provisioning

The abstract specification of what happens to the pods of a ReplicaSet in one
namespace: owners, and for each name a plan. `Look` counts the pods and takes a
goal, `Decide` and `Select` turn that into so many pods to add or these pods to
drop, `Add`, `Fail` and `Drop` work it off, `Finish` ends it, and `Lose` is any
other disappearance of pods - a client's DELETE, or the handler that deletes the
ReplicaSet. There are no loops, handlers, copies, keys or status in it. Nobody
plans for a name that has a plan, and no pod appears but by plan; `Balanced` says
what a plan is worth: the pods kept and those to come never exceed its goal, and
are exactly as many while the name is calm.

### DeploymentController

Extends ReplicaSetController, whose actions it takes over whole, with the
Deployment table, the second guard and the second loop. A goroutine has two
frames: `dth[t]` is where it is in `reconcileDeployment`, `th[t]` where it is in a
`reconcileReplicaSet` called from there or from a handler of its own.

| Code | Actions |
|---|---|
| `reconcileDeployment` | `DEnter`, `DFind`, `DExit` |
| `createReplicaSetForDeployment` | `DCreate` |
| `updateReplicaSetReplicas` | `DGetRS`, `DPutRS` |
| `updateDeploymentStatus` | `DGetDeploy`, `DPutDeploy` |
| `reconcileLoop`, `reconcileAll`, `Stop` | `DTick`, `DLoopNext`, `DStop`, `DLoopExit` |
| `apis.CreateDeployment`, `OnDeploymentCreated` | `PostDeployment`, then `DEnter` |
| the ReplicaSet controller and its handlers | `RSThreadStep`, `RSHandlerStep`, `RSLoopStep`, `PostReplicaSet`, `DeleteReplicaSet`, `DeleteClientPod` |

`OnReplicaSetCreated` puts the goroutine into the second frame; `getStatus` waits
until it has returned. The spec it gets holds an int32 where
`reconcileReplicaSet` looks for a float64, which reads as one replica
(`ReadAsInt32`); what the store returns went through JSON and is a float64. A
ReplicaSet that is scaled is written back with the namespace "default" (`DPutRS`).
Deployments are never deleted: `OnDeploymentDeleted` has no caller and the API no
DELETE. The ReplicaSet's name is the Deployment's with a hash of its template,
which nothing changes, so the two are one name here. `cap` counts what clients and
Deployments asked for, and the one replica of that reconcile.

It implements Provisioning as well: a reconcile within a reconcile is still the
only one that plans.

### Configurations and proofs

`MCTransitionManager`, `MCPodLifecycle`, `MCReplicaSetController`,
`MCDeploymentController` and `MCPodWatch` are the instances for TLC, with the
symmetry sets for those that need no fairness. Each module's theorems are in
modules of their own: `TransitionManagerProofs`, `PodLifecycleProofs` and
`PodHistoryProofs`, `PodWatchProofs`, `ProvisioningProofs`,
`ReplicaSetControllerProofs` and `ReplicaSetProvisionProofs`, and
`DeploymentControllerProofs`.

An operator defined just before one that the actions use, with the same
parameters (`KeptTable` before `CleanedTable`, `UpsertPod` before `UpdatePod`), is
a mutation: the same code with a plausible bug. Put in the place of the other it
makes TLC refute the property it is listed for, which shows that the property
says something about the code.

## The runs

Runs that pass:

| Run | Checks | Shows |
|---|---|---|
| TMCheck | `TypeOK`, `ActiveIsLive`, `AtMostOneLate`, `SequencesFinish` | listed sequences are live and not cancelled; a cancelled one writes at most once more; no goroutine of a sequence is left behind |
| PodSafety | `TypeOK`, `CleanPodIsItsOwn`, `NoneLeftBehind`, `CleanPodAdvances`, `ImplementsPodTable` | only leftovers of a deleted pod can disturb a pod; a clean pod that is not at its last status has somebody at work for it; refinement: for every pod, disturbed or not, the table behaves as PodTable, so nothing brings a deleted pod back and no status is repeated, lost or out of order |
| PodSettle | `PodsSettle`, `ImplementsTransitionManager` | every POST gets its pod to Running or to the end of its template; refinement: the server uses the table of sequences as TransitionManager says |
| PodWatch | `TypeOK`, `NothingMissed`, `SeenNeverGoesBack`, `WatchersCatchUp`, `WatchEnds` | a client never sees a pod go back, a finished round has skipped no pod left alone since it began; the client comes to see the last version, and its goroutine ends when it goes away |
| RSCheck | `TypeOK`, `OneReconcilePerKey`, `NoOverProvision`, `ScalesAsAsked`, `Converges`, `OrphansOnlyByCrossing`, `ImplementsProvisioning` | the guard works; never more pods than asked for; a reconcile ends with what its copy asks for, though it counts once and scales later; once clients rest, pods and status agree with the spec for good; a deleted ReplicaSet leaves no pod unless its deletion crossed a reconcile; refinement: pods come only by the one plan of their name |
| DeployCheck | `DTypeOK`, `GuardsHold`, `PodsBounded`, `ScalesAsAsked`, `SpecLostOnlyByOvertaking`, `DeploymentsSettle`, `ImplementsProvisioning` | both guards work, one nested in the other; never more pods than asked for, and reconciles scale as asked and as Provisioning says with two controllers too; a status update keeps the stored spec unless a deletion or a scaling overtakes it; a Deployment settles with its ReplicaSet, its own or a client's, with pods and both status |

Runs that refute what a comment in the code says (each is a finding in
`PROJECT.json`, with the line and the words):

| Run | Refutes | The behaviour |
|---|---|---|
| TMExisting | `OneRunningPerPod` | start A; start B, which cancels A and is listed; A's clean-up deletes B's entry; start C with CancelExisting: B is not found, B and C both write the pod |
| PodStaleTimer | `RunningAfterOwnDelay` | post, delete, post again: the first pod's goroutine makes the second pod Running |
| RSOrphans | `NoOrphans` | the loop creates pods of a ReplicaSet after DELETE listed them; nobody owns them |
| RSStatusWrite | `StatusUpdateKeepsSpec` | delete and post between the get and the update of a status: the old replicas overwrite the new |
| DeployScale | `ScaleUpKeepsPods` | a Deployment of two replicas is posted; the ReplicaSet loop creates two pods; the reconcile the Deployment controller asks for reads one replica and deletes one of them |
| DeployNamespace | `OneReconcilePerReplicaSet` | a client posts a ReplicaSet under the Deployment's name in another namespace; scaling moves it to "default", and it is reconciled under two keys at once |

`CleanPodIsItsOwn` and `CleanPodAdvances` are limited to pods posted when nothing
of an earlier pod of the name was left over, and not by choice: without that,
a startup goroutine or a sequence of the earlier pod overwrites spec, creation
time and status. `ImplementsPodTable` says what remains true then. In the same
way `OrphansOnlyByCrossing` says what remains true of RSOrphans: the pods are left
only when a DELETE that has listed them meets a reconcile of the name, under way
or in the copies the loop still holds; and `SpecLostOnlyByOvertaking` of
RSStatusWrite: the spec is lost only when, between the get and the update of a
status, the ReplicaSet is gone or another goroutine is in
`updateReplicaSetReplicas` for it. That one is stated of DeploymentController,
where everybody who writes ReplicaSets is there: a status update may undo a
scaling with nothing deleted, and of ReplicaSetController alone the property would
say less than it seems to. Both are implications between always-formulas, one name at a time,
so that they need no history variable. `DeploymentsSettle` has such a hypothesis too: with
a ReplicaSet a client posted under the Deployment's name, status updates and
scalings that overtake each other for ever would leave it unscaled for ever, so
there they must come to an end of it; a ReplicaSet of the controller's own needs
no hypothesis. `ScalesAsAsked` and `ImplementsProvisioning`
are about one namespace: in two, two goroutines may plan for one name
(DeployNamespace).

### Bounds

* TransitionManager: two callers, two sequences of two states of one pod, the
  least with a caller between the regions of the other, a successor beside a
  cancelled sequence, and a cancelled sequence with something left to apply.
  TMExisting needs three sequences and one caller.
* PodLifecycle: one pod name, two POSTs, two request goroutines: a pod, its
  successor, and a request beside them. PodSafety takes templates of two states,
  the least at which one can be skipped or applied out of order, and lets the
  controller stop; PodSettle takes templates of one. One namespace suffices, as
  only `DeletePod` through another path tells two apart, and what it does - a pod
  deleted, its sequence left alone - happens also when the sequence is started
  after the DELETE looked for one. The proofs have any number of all of these.
* PodWatch: one watch (watches share nothing but the table, which none of them
  changes), of any namespace, two pods in two namespaces or none, five writes: a
  pod can be deleted, posted anew and written between the list of a round and its
  events, and the other pod too.
* ReplicaSetController: one name, three POSTs, up to two replicas, three pod
  names, the loop and one request goroutine, one lost pod and one clash, and the
  loop may stop. The POSTs leave room for a ReplicaSet, its deletion and a
  successor with other replicas, twice. Three names leave a free one while two
  pods are stored; a pod counted and then lost is replaced under another name.
  More request goroutines only in the proofs, and in DeployCheck.
* DeploymentController: the same with one POST of a ReplicaSet, the second loop
  and a request goroutine, so that three goroutines reconcile; one event beside
  the Deployments' own (a ReplicaSet posted or deleted, a pod deleted, the
  Deployment loop stopped) and one clash: each event alone is met by every
  interleaving of the controllers. DeployNamespace needs two namespaces.

`MaxStates`, `MaxCreates`, `MaxVersions`, `MaxReplicas`, `MaxPosts`, `MaxKills`,
`MaxClashes` and `MaxEvents` are bounds of the models; the code has none. In
RSCheck and DeployCheck the loops may stop, in PodWatch the clients go away, and
the system comes to rest: deadlock is not checked there. Every other run
checks it.

### Fairness

`TMCheck`, `PodSettle`, `RSCheck`, `DeployCheck` and `PodWatch` assume weak
fairness of each goroutine once started - the Go scheduler, `time.After` and the
tickers justify it - and of the loops' ticks while nobody stops them. The mutexes
are held for one map operation, so a step that is enabled stays so or is overtaken
by one of the same goroutine. In DeploymentController fairness is per goroutine
(`Goroutine`), not per action: a goroutine that does one thing at a time is owed
no more. `Done` of PodWatch is strongly fair: it is enabled at the end of each
round only, where `select` chooses at random among the ready cases, so a
goroutine that always finds its ticker ready too still takes it some time. No
client is assumed to send or to end anything.

## The proofs

The only assumptions are the named ASSUMEs of the modules about their constants
(disjoint markers, finite sets of pod names, natural bounds, lengths of templates
within their bound), which TLC evaluates too. `PROJECT.json` lists the theorems;
every invariant, action property and refinement of the passing runs is among them.

**TransitionManagerProofs.** `TypeCorrect`, `ListedSequencesLive`
(`Spec => []ActiveIsLive`) and `CancelledWritesOnce` (`Spec => []AtMostOneLate`)
from the invariant `IndInv`. `ActiveIsLive` is not inductive alone: that an entry
is removed before its sequence is done needs that a cancelled sequence is no
longer listed, and that a sequence not yet started is listed nowhere.
`AtMostOneLate` needs that a cancelled sequence which already wrote late stands
before its next poll of `ctx.Done`.

`Ends` - a sequence that cleans up has come to its last state or was cancelled - is
in `IndInv` for the modules above.

**PodLifecycleProofs.** `LifecycleTypes` (`Spec => []TypeOK`) and
`ManagerImplemented` (`Spec => ImplementsTransitionManager`). The invariant `LInv`
is the types of this module's own variables; `IndInv` of TransitionManager, cited
through an INSTANCE of its proofs; `Roles`, that a POST is worked on by its
handler, then by either the startup goroutine or a sequence, never two of them;
and `ReadFirst`, that a sequence about to write has read a pod. Refinement and
invariant rest on each other and are proved in one step: an action of the server
is a step of the manager (or none it sees) because its handlers are in their
roles, and the manager's invariant is kept because it is one. `ServerListsLive` and
`ServerWritesOnce` read `ActiveIsLive` and `AtMostOneLate` off it for the whole
server.

**PodHistoryProofs.** `TableImplemented` (`Spec => ImplementsPodTable`) adds
`FromPosts` to `LInv`: what is stored for a name, or was read of it by anybody,
came from POSTs of that name. `CleanOwnership` (`Spec => []CleanPodIsItsOwn`) adds
`HasLatest` and `CleanOwn`: of a name whose latest POST was clean, the agents of
all earlier POSTs are done and start nothing any more, and what the latest one's
goroutines have read and will write back is its own. `CleanAdvances` (`Spec =>
CleanPodAdvances`) adds `CleanTrack`: the stored pod has the status its agent came
to last, and the creation time its agent will put back. Without them a state
in which an old goroutine holds an old pod would not be excluded, and its next
write would break the properties. `NoPodStuck` (`Spec => []NoneLeftBehind`) adds
`CleanKept`: the stored pod is in the status its agent came to, unless that is a
default controller stopped in between; once it has a status its own goroutine wrote
it; and it has been taken on by a handler, a startup goroutine or a sequence. With
`Ends` it follows that a goroutine which is done left its pod at the end. It is the
safety half of `PodsSettle`, which then only needs goroutines to be scheduled.

**PodWatchProofs.** `WatchTypes` and `NeverBack` (`Spec => SeenNeverGoesBack`).
`WInv` says what a watch has still to send is one version of each pod, no older
than the one it sent before and no newer than what is stored (`Pending`), and that
nothing was sent that was never written (`Sent`). It is kept because a list is only
taken when the one before is used up. `RoundsComplete` (`Spec => []NothingMissed`)
adds `Covered`: a pod not written since the round was listed has been sent as it is
stored, or is still to be sent so. What is left to `WatchersCatchUp` is that rounds
go on.

**ProvisioningProofs.** `PlansBalanced` (`Spec => []Balanced`), abstractly: while a
plan is worked off, the pods to keep are those it saw and those it added, less
those lost.

**ReplicaSetControllerProofs**, for any number of namespaces, names, pods,
handlers and replicas. `TypeCorrect` rests on `ControlOK`: a goroutine at work has
a copy, one about to write has read a spec, one about to create has a round to go.
Every action changes one goroutine (`StepThreads`), and the lemma of each action
says how. `MutualExclusion` (`Spec => []OneReconcilePerKey`) needs the equality
between the marked keys and those being reconciled, not only their uniqueness:
it is what makes a key found unmarked safe to take, and what `Exit` restores.
`OnlyCrossingsOrphan` (`Spec => OrphansOnlyByCrossing`) is proved for one name at a
time. `Cleaned` says that a handler which has listed the pods of the name holds all
there still are, and that of a name not stored there is no pod, no copy and no
reconcile; a step keeps it in any state in which nothing crosses, and PTL turns
that into the implication between two always-formulas. `Faithful` - the spec
somebody is about to write back is the stored one - is kept by every step of this
module but a POST that meets an update (`FaithfulStep`); the theorem comes below.

**ReplicaSetProvisionProofs**, for one namespace and any number of the rest:
`ProvisionBound` (`Spec => []NoOverProvision`). The strengthening is `Provision`:
copies, stored specs and specs about to be written back ask for no more than
`cap`; the pods counted by a reconcile include all there are, as nobody else can
add any while the key is marked (`OneReconcilePerKey`) and everybody can only
remove some; and, while pods are created, those there are and those to come stay
within `cap`. With two namespaces the statement is false: the guard is keyed by
namespace and name, the pods are counted by name.

The refinement, `ProvisioningImplemented` (`Spec => ImplementsProvisioning`), rests
on `RInv`: types, control, `OneReconcilePerKey`, and `Carried` - what a goroutine
has counted or is to delete is empty outside its stage (`Tidy`), and those pods
belong to the name or to nobody (`Claim`; a pod deleted by somebody else is not
created anew for another name while it is held). In one namespace the key is the
name, so at most one goroutine plans for a name (`SolePlanner`) and the CHOOSE in
`planned` is that goroutine; each step of it is a step of the plan (`CountLooks`,
`ScaledPlans`, `CreateAdds`, `ClashFails`, `DeleteDrops`, `ExitFinishes`), each step
of anybody else leaves the plans alone or loses pods (`QuietPlans`, `LosePlans`).
`ReconcileScales` (`Spec => []ScalesAsAsked`) is then `Balanced` of the
abstract specification, cited through an instance of its proofs (`PVP`), for a plan
with nothing left to do: a property of the code from a theorem about the
specification. That Namespaces is a singleton is a hypothesis of these theorems and
no ASSUME: the code has many namespaces, and with two the statements are false.

**DeploymentControllerProofs.** `DTypeCorrect` (`DSpec => []DTypeOK`) and
`GuardsCorrect` (`DSpec => []GuardsHold`). `DInv` holds the types and control of
both frames, and `Nested`: a goroutine is in `reconcileReplicaSet` only where
`reconcileDeployment` waits for it. Each step is, to the ReplicaSet controller, a
step of its own, none, or a call of `OnReplicaSetCreated` by a goroutine that was
idle there (`Called`, lemma `StepIsRS`): for the first two the lemmas of
ReplicaSetControllerProofs are cited, and only the call is argued anew.
`PodsBound` (`DSpec => []PodsBounded`, in one namespace) does the same with
`Provision`, and `DeploymentsProvision` and `DeploymentScales` with the refinement:
a call of `OnReplicaSetCreated` changes neither owners nor plans.
`OnlyOvertakingLosesSpec` (`DSpec => SpecLostOnlyByOvertaking`) is proved for one
name at a time, like `OnlyCrossingsOrphan`: a spec changes by a POST or a creation,
which find the name free, or by a scaling (`Called`), and while nothing overtakes
nobody is updating the name then; every other step keeps `Faithful`.

Only model-checked: everything under fairness (`SequencesFinish`, `PodsSettle`,
`Converges`, `DeploymentsSettle`, `WatchersCatchUp`, `WatchEnds`), since the
provers do not reason about ENABLED. `NoneLeftBehind`, `NothingMissed`,
`ScalesAsAsked` and `AtMostOneLate` are what these need of safety, and are proved.

## Not modelled

* Discovery, the stubs of `corev1.go`, auth, server wiring, the certificate script:
  fixed at start, or fixed answers. The wiring creates the controllers before it
  serves, which is the initial state of every module.
* Namespaces and ConfigMaps: create and list on a table of their own, one lock
  region per request; nothing else reads them and no property is about them.
* Code without callers: `OnPodCompleted`, `OnPodFailed`, `OnDeploymentDeleted`,
  `DeleteDeployment`, `UpdatePodFromJSON`.
* The fields of specs and statuses, conditions and container states, the
  formatting of tables. That sequences of one template share, and write, the maps
  of its container states (`pod_controller.go:594`) is a race on their content,
  which the models abstract to the number of the state.
* The owner references and annotations that `applyState` drops
  (`pod_controller.go:537`): PodLifecycle models that they go, ReplicaSetController
  assumes no template on a ReplicaSet's pod.
* `SimulatePod` asks whether a template exists before it registers one: only the
  words of its answer depend on it.
* What a client of a watch may conclude of a pod it hears nothing of any more:
  deleted, or given another namespace by a template (`apis/pods.go:275`).
