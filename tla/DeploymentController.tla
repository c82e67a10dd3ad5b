------------------------ MODULE DeploymentController ------------------------
(***************************************************************************)
(* The Deployment controller (controllers/deployment_controller.go), its   *)
(* background loop and the API handler that calls it (apis/deployments.go) *)
(* on top of ReplicaSetController: it creates and scales ReplicaSets in    *)
(* the store and calls OnReplicaSetCreated, so that its goroutines run     *)
(* reconcileReplicaSet nested in reconcileDeployment, a guard within a     *)
(* guard.                                                                  *)
(*                                                                         *)
(* A goroutine has two frames: dth is where it is in reconcileDeployment,  *)
(* th where it is in reconcileReplicaSet, or idle. The name of a           *)
(* Deployment's ReplicaSet is built from its own name and a hash of its    *)
(* template; as nothing changes a template the two are one name here.      *)
(* OnDeploymentDeleted has no caller: Deployments are never deleted.       *)
(***************************************************************************)
EXTENDS ReplicaSetController

CONSTANTS
    DLoop,        \* the goroutine of the Deployment controller's loop
    NoDeploy,     \* "not stored"
    Default,      \* the namespace "default"
    MaxEvents     \* bound: other requests of clients, and stops of a loop

DeployRecords == [ns : Namespaces, replicas : 0..MaxReplicas, status : -1..MaxReplicas]

ASSUME DLoopAssumption == DLoop \in Handlers
ASSUME NoDeployAssumption == NoDeploy \notin DeployRecords \cup RSRecords
ASSUME DefaultAssumption == Default \in Namespaces
ASSUME MaxEventsAssumption == MaxEvents \in Nat
ASSUME MaxReplicasAssumption == MaxReplicas >= 1

VARIABLES
    deploys,       \* store.deployData
    dReconciling,  \* dc.reconciling
    dth,           \* where each goroutine is in reconcileDeployment
    dTodo,         \* the loop's copies of Deployments still to reconcile
    dStopped,      \* dc.stopCh is closed
    events         \* other requests of clients, and stops of a loop, so far

rsVars == <<rs, pods, reconciling, th, todo, stopped, used, cap, calm>>
dVars == <<deploys, dReconciling, dth, dTodo, dStopped, events>>
allVars == <<rsVars, dVars>>

(* The request goroutines; DLoop only ever calls OnReplicaSetCreated.      *)
Clients == Handlers \ {DLoop}

DPcs == {"idle", "loop", "exited", "enter", "find", "create", "getRS", "putRS",
         "getStatus", "putStatus", "exit"}
DRest == [pc |-> "idle", arg |-> NoDeploy, read |-> NoDeploy]
DThreadStates == [pc : DPcs, arg : Copies \cup {NoDeploy},
                  read : RSRecords \cup DeployRecords \cup {NoDeploy}]

Deployed(n) == deploys[n] # NoDeploy
InDeploy(t) ==
    dth[t].pc \in {"find", "create", "getRS", "putRS", "getStatus", "putStatus", "exit"}

DTypeOK ==
    /\ TypeOK
    /\ deploys \in [RSNames -> DeployRecords \cup {NoDeploy}]
    /\ dReconciling \subseteq Keys
    /\ dth \in [Handlers -> DThreadStates]
    /\ dTodo \subseteq Copies
    /\ dStopped \in BOOLEAN
    /\ events \in 0..MaxEvents

DInit ==
    /\ Init
    /\ deploys = [n \in RSNames |-> NoDeploy]
    /\ dReconciling = {}
    /\ dth = [t \in Handlers |-> IF t = DLoop THEN [DRest EXCEPT !.pc = "loop"] ELSE DRest]
    /\ dTodo = {}
    /\ dStopped = FALSE
    /\ events = 0

-----------------------------------------------------------------------------
(* reconcileDeployment, one store call or critical section at a time. The  *)
(* name, namespace and replicas are those of the copy t works on.          *)
Target(t) == dth[t].arg.name
Desired(t) == dth[t].arg.replicas
Goto(t, pc) == dth' = [dth EXCEPT ![t] = [@ EXCEPT !.pc = pc]]

NeverDHeld(k) == FALSE
DHeld(k) == k \in dReconciling
DReturn(t) == [DRest EXCEPT !.pc = IF t = DLoop THEN "loop" ELSE "idle"]

DEnter(t) ==
    LET k == Key(dth[t].arg) IN
    /\ dth[t].pc = "enter"
    /\ \/ /\ DHeld(k)
          /\ dth' = [dth EXCEPT ![t] = DReturn(t)]
          /\ UNCHANGED dReconciling
       \/ /\ ~DHeld(k)
          /\ Goto(t, "find")
          /\ dReconciling' = dReconciling \cup {k}
    /\ UNCHANGED <<rsVars, deploys, dTodo, dStopped, events>>

(* Is there a ReplicaSet, and does it have the replicas the copy asks for? *)
NeverScales(t) ==
    /\ dth[t].pc = "find"
    /\ Goto(t, IF Stored(Target(t)) THEN "getStatus" ELSE "create")
    /\ UNCHANGED <<rsVars, deploys, dReconciling, dTodo, dStopped, events>>

DFind(t) ==
    LET n == Target(t) IN
    /\ dth[t].pc = "find"
    /\ Goto(t, CASE ~Stored(n) -> "create"
                 [] Stored(n) /\ rs[n].replicas # Desired(t) -> "getRS"
                 [] OTHER -> "getStatus")
    /\ UNCHANGED <<rsVars, deploys, dReconciling, dTodo, dStopped, events>>

(* The spec handed to OnReplicaSetCreated holds the replicas as an int32.  *)
(* reconcileReplicaSet understands a float64 only, which is what the store *)
(* gives back: here it falls back to one replica. cap counts that one too. *)
ReadAsInt32(replicas) == 1

OnReplicaSetCreated(t, n, ns) ==
    /\ th' = [th EXCEPT ![t] = [@ EXCEPT !.pc = "enter",
                 !.arg = [name |-> n, ns |-> ns, replicas |-> ReadAsInt32(Desired(t))]]]
    /\ cap' = [cap EXCEPT ![n] = Larger(@, Larger(Desired(t), ReadAsInt32(Desired(t))))]

(* createReplicaSetForDeployment: an error when somebody created it first, *)
(* and then the status is not written either.                              *)
DCreate(t) ==
    LET n == Target(t) IN
    /\ dth[t].pc = "create"
    /\ \/ /\ Stored(n)
          /\ Goto(t, "exit")
          /\ UNCHANGED <<rs, th, cap>>
       \/ /\ ~Stored(n)
          /\ rs' = [rs EXCEPT ![n] = [ns |-> dth[t].arg.ns, replicas |-> Desired(t),
                                      status |-> -1]]
          /\ OnReplicaSetCreated(t, n, dth[t].arg.ns)
          /\ Goto(t, "getStatus")
    /\ UNCHANGED <<pods, reconciling, todo, stopped, used, calm>>
    /\ UNCHANGED <<deploys, dReconciling, dTodo, dStopped, events>>

(* updateReplicaSetReplicas reads the ReplicaSet again ...                 *)
DGetRS(t) ==
    LET n == Target(t) IN
    /\ dth[t].pc = "getRS"
    /\ dth' = [dth EXCEPT ![t] = IF Stored(n)
                                 THEN [@ EXCEPT !.pc = "putRS", !.read = rs[n]]
                                 ELSE [@ EXCEPT !.pc = "exit"]]
    /\ UNCHANGED <<rsVars, deploys, dReconciling, dTodo, dStopped, events>>

(* ... and writes it back with the new number, the status it read, and the *)
(* namespace "default", whatever its own was. (The number is only set in a *)
(* ReplicaSet that has a spec: clients are taken to post no other.)        *)
DPutRS(t) ==
    LET n == Target(t) IN
    /\ dth[t].pc = "putRS"
    /\ \/ /\ Stored(n)
          /\ rs' = [rs EXCEPT ![n] = [ns |-> Default, replicas |-> Desired(t),
                                      status |-> dth[t].read.status]]
          /\ OnReplicaSetCreated(t, n, Default)
          /\ dth' = [dth EXCEPT ![t] = [@ EXCEPT !.pc = "getStatus", !.read = NoDeploy]]
       \/ /\ ~Stored(n)
          /\ dth' = [dth EXCEPT ![t] = [@ EXCEPT !.pc = "exit", !.read = NoDeploy]]
          /\ UNCHANGED <<rs, th, cap>>
    /\ UNCHANGED <<pods, reconciling, todo, stopped, used, calm>>
    /\ UNCHANGED <<deploys, dReconciling, dTodo, dStopped, events>>

(* updateDeploymentStatus, once OnReplicaSetCreated has returned. It notes *)
(* the replicas of the copy, not those there are.                          *)
DGetDeploy(t) ==
    LET n == Target(t) IN
    /\ dth[t].pc = "getStatus" /\ th[t].pc = "idle"
    /\ dth' = [dth EXCEPT ![t] = IF Deployed(n)
                                 THEN [@ EXCEPT !.pc = "putStatus", !.read = deploys[n]]
                                 ELSE [@ EXCEPT !.pc = "exit"]]
    /\ UNCHANGED <<rsVars, deploys, dReconciling, dTodo, dStopped, events>>

UpdateDeployment(n, d) == deploys' = IF Deployed(n) THEN [deploys EXCEPT ![n] = d] ELSE deploys

DPutDeploy(t) ==
    /\ dth[t].pc = "putStatus"
    /\ UpdateDeployment(Target(t), [ns |-> dth[t].arg.ns,
                                    replicas |-> dth[t].read.replicas,
                                    status |-> Desired(t)])
    /\ dth' = [dth EXCEPT ![t] = [@ EXCEPT !.pc = "exit", !.read = NoDeploy]]
    /\ UNCHANGED <<rsVars, dReconciling, dTodo, dStopped, events>>

(* The deferred function, after an error too.                              *)
KeptDKeys(k) == dReconciling
ReleasedDKeys(k) == dReconciling \ {k}

DExit(t) ==
    /\ dth[t].pc = "exit"
    /\ dReconciling' = ReleasedDKeys(Key(dth[t].arg))
    /\ dth' = [dth EXCEPT ![t] = DReturn(t)]
    /\ UNCHANGED <<rsVars, deploys, dTodo, dStopped, events>>

DReconcileStep(t) ==
    \/ DEnter(t) \/ DFind(t) \/ DCreate(t) \/ DGetRS(t) \/ DPutRS(t)
    \/ DGetDeploy(t) \/ DPutDeploy(t) \/ DExit(t)

-----------------------------------------------------------------------------
(* What disturbs the controllers besides Deployments is bounded in number. *)
Event == events < MaxEvents /\ events' = events + 1

(* reconcileLoop and reconcileAll, over copies of the stored Deployments.  *)
DCopyOf(n) == [name |-> n, ns |-> deploys[n].ns, replicas |-> deploys[n].replicas]

DTick ==
    /\ dth[DLoop].pc = "loop" /\ dTodo = {}
    /\ dTodo' = {DCopyOf(n) : n \in {m \in RSNames : Deployed(m)}}
    /\ UNCHANGED <<rsVars, deploys, dReconciling, dth, dStopped, events>>

DLoopNext ==
    /\ dth[DLoop].pc = "loop"
    /\ \E a \in dTodo :
         /\ dth' = [dth EXCEPT ![DLoop] = [@ EXCEPT !.pc = "enter", !.arg = a]]
         /\ dTodo' = dTodo \ {a}
    /\ UNCHANGED <<rsVars, deploys, dReconciling, dStopped, events>>

DStop ==
    /\ CanStop /\ ~dStopped
    /\ dStopped' = TRUE
    /\ Event
    /\ UNCHANGED <<rsVars, deploys, dReconciling, dth, dTodo>>

DLoopExit ==
    /\ dth[DLoop].pc = "loop" /\ dTodo = {} /\ dStopped
    /\ dth' = [dth EXCEPT ![DLoop].pc = "exited"]
    /\ UNCHANGED <<rsVars, deploys, dReconciling, dTodo, dStopped, events>>

-----------------------------------------------------------------------------
(* Requests. A request goroutine is free when it is in neither frame.      *)
PostDeployment(t, a) ==
    /\ th[t].pc = "idle" /\ dth[t].pc = "idle"
    /\ ~Deployed(a.name)
    /\ deploys' = [deploys EXCEPT ![a.name] =
                     [ns |-> a.ns, replicas |-> a.replicas, status |-> -1]]
    /\ dth' = [dth EXCEPT ![t] = [@ EXCEPT !.pc = "enter", !.arg = a]]
    /\ UNCHANGED <<rsVars, dReconciling, dTodo, dStopped, events>>

PostReplicaSet(t, a) ==
    /\ dth[t].pc = "idle"
    /\ PostRS(t, a)
    /\ Event
    /\ UNCHANGED <<deploys, dReconciling, dth, dTodo, dStopped>>

DeleteReplicaSet(t, n, ns) ==
    /\ dth[t].pc = "idle"
    /\ DeleteRS(t, n, ns)
    /\ Event
    /\ UNCHANGED <<deploys, dReconciling, dth, dTodo, dStopped>>

DRequest(t) ==
    \/ \E a \in Copies : PostDeployment(t, a) \/ PostReplicaSet(t, a)
    \/ \E n \in RSNames, ns \in Namespaces : DeleteReplicaSet(t, n, ns)

(* What the ReplicaSet controller and its handlers do as before.           *)
RSThreadStep(t) == ReconcileStep(t) /\ UNCHANGED dVars
RSHandlerStep(t) == HandlerStep(t) /\ UNCHANGED dVars
RSLoopStep == (Tick \/ LoopNext) /\ UNCHANGED dVars
DeleteClientPod(p) ==
    KillPod(p) /\ Event /\ UNCHANGED <<deploys, dReconciling, dth, dTodo, dStopped>>

DNext ==
    \/ \E t \in Clients : DRequest(t)
    \/ \E t \in Handlers : DReconcileStep(t) \/ RSHandlerStep(t)
    \/ \E t \in Threads : RSThreadStep(t)
    \/ \E p \in PodIds : DeleteClientPod(p)
    \/ RSLoopStep \/ DTick \/ DLoopNext \/ DStop \/ DLoopExit

DSpec == DInit /\ [][DNext]_allVars

(* Both tickers tick and every goroutine is scheduled; a goroutine does    *)
(* one thing at a time. Clients owe nothing.                               *)
Goroutine(t) ==
    \/ RSThreadStep(t)
    \/ t = Loop /\ RSLoopStep
    \/ t \in Handlers /\ (DReconcileStep(t) \/ RSHandlerStep(t))
    \/ t = DLoop /\ (DTick \/ DLoopNext)
DFairness == \A t \in Threads : WF_allVars(Goroutine(t))
DFairSpec == DSpec /\ DFairness

-----------------------------------------------------------------------------
(* The two guards work, one nested in the other: the keys marked by each   *)
(* controller are those its goroutines reconcile, one goroutine per key,   *)
(* although reconcileReplicaSet is now entered from the loops of both      *)
(* controllers and from two handlers, and is skipped or fails in between.  *)
GuardsHold ==
    /\ OneReconcilePerKey
    /\ dReconciling = {Key(dth[t].arg) : t \in {u \in Handlers : InDeploy(u)}}
    /\ \A t, u \in Handlers :
         InDeploy(t) /\ InDeploy(u) /\ Key(dth[t].arg) = Key(dth[u].arg) => t = u

(* In one namespace a ReplicaSet never has more pods than the most that    *)
(* was asked for under its name by clients and Deployments, or one.        *)
PodsBounded == NoOverProvision

(* What remains true of updateReplicaSetStatus, which writes back the spec *)
(* it read: that is still the stored spec, as long as, while somebody is   *)
(* between the get and the update for a name, its ReplicaSet is not gone   *)
(* and nobody else is in updateReplicaSetReplicas for it. Deleting and     *)
(* posting it, creating and scaling it for a Deployment, and status        *)
(* updates under other keys do no harm at any other time.                  *)
Scales(t, n) == dth[t].pc = "putRS" /\ Target(t) = n
Overtaken(n) ==
    /\ \E t \in Threads : Updates(t, n)
    /\ ~Stored(n) \/ \E t \in Handlers : Scales(t, n)
SpecLostOnlyByOvertaking ==
    \A n \in RSNames :
        []~Overtaken(n) =>
            [](\A t \in Threads : Updates(t, n) /\ Stored(n) =>
                                    th[t].read.replicas = rs[n].replicas)

(* Left alone by clients, a Deployment comes to have its ReplicaSet, with  *)
(* its replicas in the spec, as many pods, and both status saying so, for  *)
(* good: a ReplicaSet deleted is created again, one a client posted under  *)
(* its name is scaled, the pods a deletion left behind are counted again,  *)
(* and the single pod of the first reconcile is made up for. A ReplicaSet  *)
(* a client posted may miss every scaling, if a status update that read    *)
(* before it undoes each of them: then the two must come to an end of      *)
(* overtaking each other.                                                  *)
Settled(n) ==
    /\ Stored(n)
    /\ rs[n].replicas = deploys[n].replicas
    /\ rs[n].status = deploys[n].replicas
    /\ deploys[n].status = deploys[n].replicas
    /\ Cardinality(Owned(n)) = deploys[n].replicas
DeploymentsSettle ==
    \A n \in RSNames :
        <>[](used.posts = 0 \/ ~Overtaken(n)) =>
            <>[](Deployed(n) /\ ~stopped /\ ~dStopped => Settled(n))

(* What the comment in reconcileReplicaSet says: it scales up or down as   *)
(* needed. No pod is deleted while the stored ReplicaSet asks for as many  *)
(* as there are. The code does not keep it: the reconcile that the         *)
(* Deployment controller asks for works with one replica, and deletes the  *)
(* pods the loop has created meanwhile.                                    *)
ScaleUpKeepsPods ==
    [][\A t \in Threads :
         LET n == th[t].arg.name IN
         DeletePod(t) /\ Stored(n) => Cardinality(Owned(n)) > rs[n].replicas]_allVars

(* What the comment of the guard in reconcileReplicaSet says: no           *)
(* concurrent reconciliation of the same ReplicaSet, which for the store   *)
(* is its name. The code does not keep it: the guard goes by the namespace *)
(* too, and scaling moves the ReplicaSet to the namespace "default".       *)
OneReconcilePerReplicaSet ==
    \A t, u \in Threads :
        InReconcile(t) /\ InReconcile(u) /\ th[t].arg.name = th[u].arg.name => t = u
=============================================================================
