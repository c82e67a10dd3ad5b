----------------------- MODULE ReplicaSetController -----------------------
(***************************************************************************)
(* The ReplicaSet controller (controllers/replicaset_controller.go), its   *)
(* background loop, the API handlers that call it (apis/replicasets.go)    *)
(* and the two tables of the store it reads and writes.                    *)
(*                                                                         *)
(* One action is one store call or one critical section of reconcileMu.    *)
(* A pod is its name and the ReplicaSet its owner reference names; what    *)
(* happens to its status is PodLifecycle's business.                       *)
(***************************************************************************)
EXTENDS Integers, FiniteSets, FiniteSetsExt

CONSTANTS
    Namespaces,    \* namespaces, "" already read as "default"
    RSNames,       \* names of ReplicaSets: the store is flat, as for pods
    PodIds,        \* names of pods
    Handlers,      \* request goroutines of the API server
    Loop,          \* the goroutine of reconcileLoop
    NoRS,          \* "not stored"
    NoOwner,       \* "no such pod"
    MaxReplicas,   \* bound: the largest spec.replicas posted
    MaxPosts,      \* bound: successful POSTs of ReplicaSets
    MaxKills,      \* bound: pods deleted by clients
    MaxClashes,    \* bound: creations that meet a name in use
    CanStop        \* whether Stop may be called

Threads == Handlers \cup {Loop}
Keys == Namespaces \X RSNames

(* What spec.replicas comes to once reconcileReplicaSet has read it: 1 when *)
(* the field is absent. status is the number of pods last recorded.        *)
RSRecords == [ns : Namespaces, replicas : 0..MaxReplicas,
              status : -1..Cardinality(PodIds)]

ASSUME LoopAssumption == Loop \notin Handlers
ASSUME NoRSAssumption == NoRS \notin RSRecords
ASSUME NoOwnerAssumption == NoOwner \notin RSNames
ASSUME BoundsAssumption ==
    /\ MaxReplicas \in Nat /\ MaxPosts \in Nat
    /\ MaxKills \in Nat /\ MaxClashes \in Nat
    /\ CanStop \in BOOLEAN
ASSUME PodIdsAssumption == IsFiniteSet(PodIds)

VARIABLES
    rs,           \* store.rsData
    pods,         \* store.podData: the owner of each stored pod
    reconciling,  \* rsc.reconciling
    th,           \* where each goroutine is
    todo,         \* the loop's copies of ReplicaSets still to reconcile
    stopped,      \* stopCh is closed
    used,         \* the bounds used up: posts, kills, clashes
    cap,          \* auxiliary: the most replicas ever posted under a name
    calm          \* auxiliary: names nobody disturbed since they were counted

vars == <<rs, pods, reconciling, th, todo, stopped, used, cap, calm>>

(* A copy of a ReplicaSet, as reconcileReplicaSet gets it.                 *)
Copies == [name : RSNames, ns : Namespaces, replicas : 0..MaxReplicas]

Pcs == {"idle", "loop", "exited",                          \* between calls
        "enter", "count", "getRS", "putRS", "create", "delete", "exit",
        "dList", "dPods", "dRS"}                           \* DELETE handler

Rest == [pc |-> "idle", arg |-> NoRS, counted |-> {}, read |-> NoRS,
         left |-> 0, victims |-> {}]
ThreadStates == [pc : Pcs, arg : Copies \cup {NoRS}, counted : SUBSET PodIds,
                 read : RSRecords \cup {NoRS}, left : 0..MaxReplicas,
                 victims : SUBSET PodIds]

Key(a) == <<a.ns, a.name>>
Owned(n) == {p \in PodIds : pods[p] = n}
Stored(n) == rs[n] # NoRS
InReconcile(t) ==
    th[t].pc \in {"count", "getRS", "putRS", "create", "delete", "exit"}

TypeOK ==
    /\ rs \in [RSNames -> RSRecords \cup {NoRS}]
    /\ pods \in [PodIds -> RSNames \cup {NoOwner}]
    /\ reconciling \subseteq Keys
    /\ th \in [Threads -> ThreadStates]
    /\ todo \subseteq Copies
    /\ stopped \in BOOLEAN
    /\ used \in [posts : 0..MaxPosts, kills : 0..MaxKills, clashes : 0..MaxClashes]
    /\ cap \in [RSNames -> 0..MaxReplicas]
    /\ calm \subseteq RSNames

Init ==
    /\ rs = [n \in RSNames |-> NoRS]
    /\ pods = [p \in PodIds |-> NoOwner]
    /\ reconciling = {}
    /\ th = [t \in Threads |-> IF t = Loop THEN [Rest EXCEPT !.pc = "loop"] ELSE Rest]
    /\ todo = {}
    /\ stopped = FALSE
    /\ used = [posts |-> 0, kills |-> 0, clashes |-> 0]
    /\ cap = [n \in RSNames |-> 0]
    /\ calm = {}

(* Pods of a name were taken away behind the back of its reconcile.        *)
Disturbed == calm' = {n \in calm : Owned(n)' = Owned(n)}

-----------------------------------------------------------------------------
(* reconcileReplicaSet, one store call or critical section at a time.      *)

(* The guard against a second reconcile of the same key: it is skipped.    *)
NeverHeld(k) == FALSE
Held(k) == k \in reconciling

(* A handler answers its request after the call, the loop goes on.         *)
Return(t) == [Rest EXCEPT !.pc = IF t = Loop THEN "loop" ELSE "idle"]

Enter(t) ==
    LET k == Key(th[t].arg) IN
    /\ th[t].pc = "enter"
    /\ \/ /\ Held(k)
          /\ th' = [th EXCEPT ![t] = Return(t)]
          /\ UNCHANGED reconciling
       \/ /\ ~Held(k)
          /\ th' = [th EXCEPT ![t].pc = "count"]
          /\ reconciling' = reconciling \cup {k}
    /\ UNCHANGED <<rs, pods, todo, stopped, used, cap, calm>>

(* getPodsForReplicaSet: by owner name and kind; namespaces do not matter. *)
Count(t) ==
    /\ th[t].pc = "count"
    /\ th' = [th EXCEPT ![t] = [@ EXCEPT !.pc = "getRS",
                                          !.counted = Owned(th[t].arg.name)]]
    /\ UNCHANGED <<rs, pods, reconciling, todo, stopped, used, cap>>
    /\ calm' = calm \cup {th[t].arg.name}

(* How many pods to create for a desired and a counted number.             *)
MissingUnchecked(desired, current) == desired - current
MissingPlusOne(desired, current) ==
    IF current <= desired THEN desired - current + 1 ELSE 0
Missing(desired, current) == IF current < desired THEN desired - current ELSE 0

(* The pods to delete: the first ones of a list in the order of a map.     *)
Surplus(desired, counted) ==
    IF Cardinality(counted) > desired
    THEN kSubset(Cardinality(counted) - desired, counted)
    ELSE {{}}

(* After the status write the pods counted before it decide what to do,    *)
(* with the replicas of the copy: neither is read again.                   *)
Scale(t) ==
    LET desired == th[t].arg.replicas
        current == Cardinality(th[t].counted)
    IN  \E victims \in Surplus(desired, th[t].counted) :
          th' = [th EXCEPT ![t] =
                  [pc |-> IF current < desired THEN "create"
                          ELSE IF current > desired THEN "delete" ELSE "exit",
                   arg |-> th[t].arg, counted |-> {}, read |-> NoRS,
                   left |-> Missing(desired, current), victims |-> victims]]

(* updateReplicaSetStatus reads the ReplicaSet again, copy or no copy; the  *)
(* error of a missing one is ignored.                                      *)
FromCopy(t) == [ns |-> th[t].arg.ns, replicas |-> th[t].arg.replicas, status |-> -1]
FromStore(t) == rs[th[t].arg.name]

GetRS(t) ==
    LET n == th[t].arg.name IN
    /\ th[t].pc = "getRS"
    /\ \/ /\ Stored(n)
          /\ th' = [th EXCEPT ![t] = [@ EXCEPT !.pc = "putRS", !.read = FromStore(t)]]
       \/ /\ ~Stored(n)
          /\ Scale(t)
    /\ UNCHANGED <<rs, pods, reconciling, todo, stopped, used, cap, calm>>

(* The update rebuilds the ReplicaSet: namespace of the copy, spec as read, *)
(* status from the count; it fails, unnoticed, when it is gone by now.     *)
WithStatus(t) == [ns |-> th[t].arg.ns, replicas |-> th[t].read.replicas,
                  status |-> Cardinality(th[t].counted)]

PutRS(t) ==
    LET n == th[t].arg.name IN
    /\ th[t].pc = "putRS"
    /\ rs' = IF Stored(n) THEN [rs EXCEPT ![n] = WithStatus(t)] ELSE rs
    /\ Scale(t)
    /\ UNCHANGED <<pods, reconciling, todo, stopped, used, cap, calm>>

(* One round of the loop that creates pods. Names are built from the clock: *)
(* a name is not used again while a goroutine still holds a former pod of  *)
(* that name, but a coarse clock may give the name of a stored pod, and    *)
(* that error only shortens the round.                                     *)
Mentioned(p) == \E u \in Threads : p \in th[u].counted \cup th[u].victims

CreateRound(t) ==
    LET left == th[t].left - 1
    IN  th' = [th EXCEPT ![t] = [@ EXCEPT !.left = left,
                                           !.pc = IF left = 0 THEN "exit" ELSE "create"]]

CreatePod(t) ==
    /\ th[t].pc = "create"
    /\ \E p \in PodIds :
         /\ pods[p] = NoOwner /\ ~Mentioned(p)
         /\ pods' = [pods EXCEPT ![p] = th[t].arg.name]
    /\ CreateRound(t)
    /\ UNCHANGED <<rs, reconciling, todo, stopped, used, cap, calm>>

CreateClash(t) ==
    /\ th[t].pc = "create"
    /\ \E p \in PodIds : pods[p] = th[t].arg.name
    /\ used.clashes < MaxClashes
    /\ used' = [used EXCEPT !.clashes = @ + 1]
    /\ CreateRound(t)
    /\ UNCHANGED <<rs, pods, reconciling, todo, stopped, cap>>
    /\ calm' = calm \ {th[t].arg.name}

(* One round of a loop that deletes pods, of a reconcile or of the DELETE  *)
(* handler: deleting a pod that is gone by now is an error only logged.    *)
DeleteRound(t, next) ==
    \E p \in th[t].victims :
        LET victims == th[t].victims \ {p} IN
        /\ pods' = [pods EXCEPT ![p] = NoOwner]
        /\ th' = [th EXCEPT ![t] = [@ EXCEPT !.victims = victims,
                                             !.pc = IF victims = {} THEN next
                                                    ELSE th[t].pc]]

DeletePod(t) ==
    /\ th[t].pc = "delete"
    /\ DeleteRound(t, "exit")
    /\ UNCHANGED <<rs, reconciling, todo, stopped, used, cap, calm>>

(* The deferred function releases the key on every way out.                *)
KeptKeys(k) == reconciling
ReleasedKeys(k) == reconciling \ {k}

Exit(t) ==
    /\ th[t].pc = "exit"
    /\ reconciling' = ReleasedKeys(Key(th[t].arg))
    /\ th' = [th EXCEPT ![t] = Return(t)]
    /\ UNCHANGED <<rs, pods, todo, stopped, used, cap>>
    /\ calm' = calm \ {th[t].arg.name}

ReconcileStep(t) ==
    \/ Enter(t) \/ Count(t) \/ GetRS(t) \/ PutRS(t)
    \/ CreatePod(t) \/ CreateClash(t) \/ DeletePod(t) \/ Exit(t)

-----------------------------------------------------------------------------
(* reconcileLoop: every tick the loop copies the stored ReplicaSets and    *)
(* reconciles the copies one after the other, in the order of a map.       *)
CopyOf(n) == [name |-> n, ns |-> rs[n].ns, replicas |-> rs[n].replicas]

Tick ==
    /\ th[Loop].pc = "loop" /\ todo = {}
    /\ todo' = {CopyOf(n) : n \in {m \in RSNames : Stored(m)}}
    /\ UNCHANGED <<rs, pods, reconciling, th, stopped, used, cap, calm>>

LoopNext ==
    /\ th[Loop].pc = "loop"
    /\ \E a \in todo :
         /\ th' = [th EXCEPT ![Loop] = [@ EXCEPT !.pc = "enter", !.arg = a]]
         /\ todo' = todo \ {a}
    /\ UNCHANGED <<rs, pods, reconciling, stopped, used, cap, calm>>

Stop ==
    /\ CanStop /\ ~stopped
    /\ stopped' = TRUE
    /\ UNCHANGED <<rs, pods, reconciling, th, todo, used, cap, calm>>

LoopExit ==
    /\ th[Loop].pc = "loop" /\ todo = {} /\ stopped
    /\ th' = [th EXCEPT ![Loop].pc = "exited"]
    /\ UNCHANGED <<rs, pods, reconciling, todo, stopped, used, cap, calm>>

-----------------------------------------------------------------------------
(* The handlers. POST stores the ReplicaSet and reconciles it before it    *)
(* answers (OnReplicaSetCreated); a name in use is a 409.                  *)
Larger(a, b) == IF a > b THEN a ELSE b

PostOverwrites(t, a) ==
    /\ th[t].pc = "idle"
    /\ used.posts < MaxPosts
    /\ used' = [used EXCEPT !.posts = @ + 1]
    /\ rs' = [rs EXCEPT ![a.name] = [ns |-> a.ns, replicas |-> a.replicas, status |-> -1]]
    /\ cap' = [cap EXCEPT ![a.name] = Larger(@, a.replicas)]
    /\ th' = [th EXCEPT ![t] = [@ EXCEPT !.pc = "enter", !.arg = a]]
    /\ UNCHANGED <<pods, reconciling, todo, stopped, calm>>

PostRS(t, a) ==
    /\ th[t].pc = "idle"
    /\ ~Stored(a.name)
    /\ used.posts < MaxPosts
    /\ used' = [used EXCEPT !.posts = @ + 1]
    /\ rs' = [rs EXCEPT ![a.name] = [ns |-> a.ns, replicas |-> a.replicas, status |-> -1]]
    /\ cap' = [cap EXCEPT ![a.name] = Larger(@, a.replicas)]
    /\ th' = [th EXCEPT ![t] = [@ EXCEPT !.pc = "enter", !.arg = a]]
    /\ UNCHANGED <<pods, reconciling, todo, stopped, calm>>

(* DELETE: lists the owned pods and deletes them (OnReplicaSetDeleted),    *)
(* then deletes the ReplicaSet; a ReplicaSet that is not stored is a 404.  *)
(* The reconciling map is not consulted.                                   *)
DeleteUnnotified(t, n, ns) ==
    /\ th[t].pc = "idle"
    /\ Stored(n)
    /\ th' = [th EXCEPT ![t] = [@ EXCEPT !.pc = "dRS",
                          !.arg = [name |-> n, ns |-> ns, replicas |-> 0]]]
    /\ UNCHANGED <<rs, pods, reconciling, todo, stopped, used, cap, calm>>

DeleteRS(t, n, ns) ==
    /\ th[t].pc = "idle"
    /\ Stored(n)
    /\ th' = [th EXCEPT ![t] = [@ EXCEPT !.pc = "dList",
                          !.arg = [name |-> n, ns |-> ns, replicas |-> 0]]]
    /\ UNCHANGED <<rs, pods, reconciling, todo, stopped, used, cap, calm>>

DeleteList(t) ==
    LET victims == Owned(th[t].arg.name) IN
    /\ th[t].pc = "dList"
    /\ th' = [th EXCEPT ![t] = [@ EXCEPT !.pc = IF victims = {} THEN "dRS" ELSE "dPods",
                                         !.victims = victims]]
    /\ UNCHANGED <<rs, pods, reconciling, todo, stopped, used, cap, calm>>

DeletePods(t) ==
    /\ th[t].pc = "dPods"
    /\ DeleteRound(t, "dRS")
    /\ UNCHANGED <<rs, reconciling, todo, stopped, used, cap>>
    /\ Disturbed

DeleteStored(t) ==
    /\ th[t].pc = "dRS"
    /\ rs' = [rs EXCEPT ![th[t].arg.name] = NoRS]
    /\ th' = [th EXCEPT ![t] = Rest]
    /\ UNCHANGED <<pods, reconciling, todo, stopped, used, cap, calm>>

(* A client deletes a pod of a ReplicaSet (apis/pods.go DeletePod).        *)
KillPod(p) ==
    /\ pods[p] # NoOwner
    /\ used.kills < MaxKills
    /\ used' = [used EXCEPT !.kills = @ + 1]
    /\ pods' = [pods EXCEPT ![p] = NoOwner]
    /\ UNCHANGED <<rs, reconciling, th, todo, stopped, cap>>
    /\ Disturbed

Request(t) ==
    \/ \E a \in Copies : PostRS(t, a)
    \/ \E n \in RSNames, ns \in Namespaces : DeleteRS(t, n, ns)

HandlerStep(t) == DeleteList(t) \/ DeletePods(t) \/ DeleteStored(t)

Next ==
    \/ \E t \in Threads : ReconcileStep(t)
    \/ \E t \in Handlers : Request(t) \/ HandlerStep(t)
    \/ \E p \in PodIds : KillPod(p)
    \/ Tick \/ LoopNext \/ Stop \/ LoopExit

Spec == Init /\ [][Next]_vars

(* The ticker ticks and goroutines are scheduled; clients owe nothing.     *)
Fairness ==
    /\ WF_vars(Tick) /\ WF_vars(LoopNext)
    /\ \A t \in Threads : WF_vars(ReconcileStep(t))
    /\ \A t \in Handlers : WF_vars(HandlerStep(t))
FairSpec == Spec /\ Fairness

-----------------------------------------------------------------------------
(* The guard of reconcileReplicaSet works: the keys marked are exactly     *)
(* those being reconciled, each by one goroutine - whatever returns early, *)
(* fails or is skipped in between, by the loop or by a handler.            *)
OneReconcilePerKey ==
    /\ reconciling = {Key(th[t].arg) : t \in {u \in Threads : InReconcile(u)}}
    /\ \A t, u \in Threads :
         InReconcile(t) /\ InReconcile(u) /\ Key(th[t].arg) = Key(th[u].arg) => t = u

(* A ReplicaSet never has more pods than the largest number of replicas    *)
(* ever asked for under its name, although counts, copies and specs are    *)
(* stale when they are used and clients delete and post it meanwhile. It   *)
(* takes a name to stay in one namespace: the guard is per namespace and   *)
(* name, the pods are counted by name alone.                               *)
NoOverProvision == \A n \in RSNames : Cardinality(Owned(n)) <= cap[n]

(* A reconcile leaves no more pods than its copy asks for, and exactly as  *)
(* many unless pods of the name were lost, or a creation failed, since it  *)
(* counted them - although it counts once, writes a status in between and  *)
(* then scales round by round, with other goroutines at work. In a single  *)
(* namespace, as above.                                                    *)
ScalesAsAsked ==
    \A t \in Threads : th[t].pc = "exit" =>
        LET a == th[t].arg IN
        /\ Cardinality(Owned(a.name)) <= a.replicas
        /\ a.name \in calm => Cardinality(Owned(a.name)) = a.replicas

(* In a single namespace the pods of a name behave as Provisioning says,   *)
(* where the plan for a name is what its reconcile has counted and not yet *)
(* created or deleted.                                                     *)
PlanOf(t) ==
    [stage |-> IF th[t].pc \in {"getRS", "putRS"} THEN "looked" ELSE "acting",
     goal |-> th[t].arg.replicas, seen |-> th[t].counted, add |-> th[t].left,
     drop |-> th[t].victims, calm |-> th[t].arg.name \in calm]
Plans(t, n) ==
    th[t].pc \in {"getRS", "putRS", "create", "delete", "exit"} /\ th[t].arg.name = n
NoPlan == [stage |-> "none", goal |-> 0, seen |-> {}, add |-> 0, drop |-> {},
           calm |-> FALSE]

planned == [n \in RSNames |-> IF \E t \in Threads : Plans(t, n)
                              THEN PlanOf(CHOOSE t \in Threads : Plans(t, n))
                              ELSE NoPlan]

PV == INSTANCE Provisioning WITH owner <- pods, plan <- planned
ImplementsProvisioning == PV!Spec

(* When clients come to rest, every stored ReplicaSet comes to have        *)
(* exactly the replicas its stored spec asks for, and its status comes to  *)
(* say so, for good: lost pods are replaced, surplus ones deleted, and no  *)
(* failed creation or skipped reconcile goes unrepaired - unless the loop  *)
(* is stopped.                                                             *)
Converges ==
    \A n \in RSNames :
        <>[](Stored(n) /\ ~stopped => /\ Cardinality(Owned(n)) = rs[n].replicas
                                     /\ rs[n].status = rs[n].replicas)

(* What the comment of OnReplicaSetDeleted says: it cleans up after a      *)
(* deleted ReplicaSet. When nothing is under way, no pod names an owner    *)
(* that is not stored. The code does not keep it: a reconcile may create   *)
(* pods after the handler listed them, and nothing reconciles them again.  *)
Quiet == todo = {} /\ \A t \in Threads : th[t].pc \in {"idle", "loop", "exited"}
NoOrphans == Quiet => \A n \in RSNames : ~Stored(n) => Owned(n) = {}

(* What remains true of it: a deleted ReplicaSet leaves no pod, now or      *)
(* later, as long as no DELETE of the name that has listed the pods meets  *)
(* a reconcile of the name, under way or to come from the loop's copies -  *)
(* however many handlers delete and post it, and whichever of its pods     *)
(* somebody else deletes first.                                            *)
Reconciles(t, n) == (th[t].pc = "enter" \/ InReconcile(t)) /\ th[t].arg.name = n
Deletes(t, n) == th[t].pc \in {"dPods", "dRS"} /\ th[t].arg.name = n
Crossing(n) ==
    /\ \E t \in Threads : Deletes(t, n)
    /\ (\E a \in todo : a.name = n) \/ (\E t \in Threads : Reconciles(t, n))
OrphansOnlyByCrossing ==
    \A n \in RSNames : []~Crossing(n) => [](~Stored(n) => Owned(n) = {})

(* What the comment of updateReplicaSetStatus says: it updates the status. *)
(* The spec of the stored ReplicaSet stays what it is. The code does not   *)
(* keep it: the spec it read may be that of a ReplicaSet deleted meanwhile. *)
StatusUpdateKeepsSpec ==
    [][\A t \in Threads : \A n \in RSNames :
         PutRS(t) /\ Stored(n) => rs'[n].replicas = rs[n].replicas]_vars

(* t is between the get and the update of a status of n.                   *)
Updates(t, n) == th[t].pc = "putRS" /\ th[t].arg.name = n
=============================================================================
