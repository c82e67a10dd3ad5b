--------------------- MODULE DeploymentControllerProofs ---------------------
(* Types and guards of DeploymentController, proved for any number of      *)
(* Deployments, ReplicaSets, pods and request goroutines. What the         *)
(* ReplicaSet controller's own steps keep is cited from its proofs.        *)
EXTENDS DeploymentController, ReplicaSetProvisionProofs

(* A goroutine at work has a copy to work on and has read what it writes.  *)
DBusy(x) == x.pc \notin {"idle", "loop", "exited"}
DControlled(x) == /\ DBusy(x) => x.arg \in Copies
                  /\ x.pc = "putRS" => x.read \in RSRecords
                  /\ x.pc = "putStatus" => x.read \in DeployRecords
DControlOK == \A t \in Handlers : DControlled(dth[t])

(* The two frames of a goroutine: it is in reconcileReplicaSet, or serves  *)
(* another request, only while reconcileDeployment waits for it, or is not *)
(* entered.                                                                *)
Nested == \A t \in Handlers : dth[t].pc \notin {"idle", "getStatus"} => th[t].pc = "idle"

DInv == DTypeOK /\ ControlOK /\ DControlOK /\ Nested

DOneThread(t) == /\ dth' = [dth EXCEPT ![t] = dth'[t]]
                 /\ dth'[t] \in DThreadStates
                 /\ DControlled(dth'[t])

LEMMA Frames == vars = rsVars /\ DLoop \in Threads /\ Handlers \subseteq Threads
    BY DLoopAssumption DEF vars, rsVars, Threads

LEMMA DInitInv == DInit => DInv
<1> SUFFICES ASSUME DInit PROVE DInv
    OBVIOUS
<1>1. TypeOK /\ ControlOK
    BY TypeInit, ControlInit DEF DInit
<1>2. DRest \in DThreadStates /\ [DRest EXCEPT !.pc = "loop"] \in DThreadStates
    BY DEF DRest, DThreadStates, DPcs
<1>3. dth \in [Handlers -> DThreadStates]
    BY <1>2 DEF DInit
<1>4. DTypeOK
  <2>1. deploys \in [RSNames -> DeployRecords \cup {NoDeploy}] /\ events \in 0..MaxEvents
    BY MaxEventsAssumption DEF DInit
  <2>2. dReconciling \subseteq Keys /\ dTodo \subseteq Copies /\ dStopped \in BOOLEAN
    BY DEF DInit
  <2> QED
    BY <1>1, <1>3, <2>1, <2>2 DEF DTypeOK
<1>5. \A t \in Handlers : dth[t].pc \in {"idle", "loop"} /\ th[t].pc = "idle"
    BY LoopAssumption DEF DInit, Init, DRest, Rest, Threads
<1>6. DControlOK /\ Nested
    BY <1>5 DEF DControlOK, DControlled, DBusy, Nested
<1> QED
    BY <1>1, <1>4, <1>6 DEF DInv

-----------------------------------------------------------------------------
(* The frame of reconcileDeployment, step by step.                         *)

(* A move to another place in reconcileDeployment that keeps the copy.     *)
LEMMA GotoThread ==
    ASSUME DInv, NEW t \in Handlers, DBusy(dth[t]),
           NEW pc \in DPcs \ {"putRS", "putStatus"},
           NEW r \in {dth[t].read, NoDeploy},
           dth' = [dth EXCEPT ![t] = [@ EXCEPT !.pc = pc, !.read = r]]
    PROVE  DOneThread(t) /\ dth'[t].pc = pc /\ dth'[t].arg = dth[t].arg
<1> DEFINE x == [dth[t] EXCEPT !.pc = pc, !.read = r]
<1>1. dth[t] \in DThreadStates /\ dth[t].arg \in Copies
    BY DEF DInv, DTypeOK, DControlOK, DControlled
<1>2. dth' = [dth EXCEPT ![t] = x] /\ dth'[t] = x
    BY DEF DInv, DTypeOK
<1>3. x \in DThreadStates /\ x.pc = pc /\ x.arg = dth[t].arg
    BY <1>1 DEF DThreadStates
<1> QED
    BY <1>1, <1>2, <1>3 DEF DOneThread, DControlled

(* A move that keeps what was read too.                                    *)
LEMMA KeepThread ==
    ASSUME DInv, NEW t \in Handlers, DBusy(dth[t]),
           NEW pc \in DPcs \ {"putRS", "putStatus"},
           dth' = [dth EXCEPT ![t] = [@ EXCEPT !.pc = pc]]
    PROVE  DOneThread(t) /\ dth'[t].pc = pc /\ dth'[t].arg = dth[t].arg
<1>1. dth[t] \in DThreadStates
    BY DEF DInv, DTypeOK
<1>2. [dth[t] EXCEPT !.pc = pc] = [dth[t] EXCEPT !.pc = pc, !.read = dth[t].read]
    BY <1>1 DEF DThreadStates
<1>3. dth' = [dth EXCEPT ![t] = [@ EXCEPT !.pc = pc, !.read = dth[t].read]]
    BY <1>2
<1> QED
    BY <1>3, GotoThread

(* A move with what was read of a ReplicaSet or a Deployment.              *)
LEMMA ReadThread ==
    ASSUME DInv, NEW t \in Handlers, DBusy(dth[t]),
           NEW pc \in {"putRS", "putStatus"}, NEW r,
           pc = "putRS" => r \in RSRecords, pc = "putStatus" => r \in DeployRecords,
           dth' = [dth EXCEPT ![t] = [@ EXCEPT !.pc = pc, !.read = r]]
    PROVE  DOneThread(t) /\ dth'[t].pc = pc /\ dth'[t].arg = dth[t].arg
<1> DEFINE x == [dth[t] EXCEPT !.pc = pc, !.read = r]
<1>1. dth[t] \in DThreadStates /\ dth[t].arg \in Copies
    BY DEF DInv, DTypeOK, DControlOK, DControlled
<1>2. dth' = [dth EXCEPT ![t] = x] /\ dth'[t] = x
    BY DEF DInv, DTypeOK
<1>3. r \in RSRecords \cup DeployRecords
    OBVIOUS
<1>4. x \in DThreadStates /\ x.pc = pc /\ x.arg = dth[t].arg /\ x.read = r
    BY <1>1, <1>3 DEF DThreadStates, DPcs
<1> QED
    BY <1>1, <1>2, <1>4 DEF DOneThread, DControlled

LEMMA ReturnThread ==
    ASSUME DInv, NEW t \in Handlers, dth' = [dth EXCEPT ![t] = DReturn(t)]
    PROVE  DOneThread(t) /\ ~DBusy(dth'[t])
<1>1. DReturn(t) \in DThreadStates /\ DReturn(t).pc \in {"idle", "loop"}
    BY DEF DReturn, DRest, DThreadStates, DPcs
<1>2. dth'[t] = DReturn(t)
    BY DEF DInv, DTypeOK
<1> QED
    BY <1>1, <1>2 DEF DOneThread, DControlled, DBusy

LEMMA StartThread ==
    ASSUME DInv, NEW t \in Handlers, NEW a \in Copies,
           dth' = [dth EXCEPT ![t] = [@ EXCEPT !.pc = "enter", !.arg = a]]
    PROVE  DOneThread(t) /\ dth'[t].pc = "enter"
<1> DEFINE x == [dth[t] EXCEPT !.pc = "enter", !.arg = a]
<1>1. dth[t] \in DThreadStates
    BY DEF DInv, DTypeOK
<1>2. dth' = [dth EXCEPT ![t] = x] /\ dth'[t] = x
    BY DEF DInv, DTypeOK
<1>3. x \in DThreadStates /\ x.pc = "enter" /\ x.arg = a
    BY <1>1 DEF DThreadStates, DPcs
<1> QED
    BY <1>2, <1>3 DEF DOneThread, DControlled

-----------------------------------------------------------------------------
(* What each step is to the ReplicaSet controller: a step of its own, or   *)
(* none, or a call of OnReplicaSetCreated by a goroutine that was in no    *)
(* reconcile of a ReplicaSet, with nothing else disturbed.                 *)
Called(t) ==
    /\ th[t].pc = "idle" /\ th'[t].pc = "enter"
    /\ OneThread(t)
    /\ th'[t].left = th[t].left /\ th'[t].counted = th[t].counted
    /\ th'[t].victims = th[t].victims
    /\ rs' \in [RSNames -> RSRecords \cup {NoRS}]
    /\ cap' \in [RSNames -> 0..MaxReplicas]
    /\ \A n \in RSNames : cap[n] <= cap'[n]
    /\ \A n \in RSNames : rs'[n] = rs[n] \/ (Stored(n)' /\ rs'[n].replicas <= cap'[n])
    /\ \A n \in RSNames : rs'[n] = rs[n] \/ ~Stored(n) \/ Scales(t, n)
    /\ th'[t].arg.replicas <= cap'[th'[t].arg.name]
    /\ UNCHANGED <<pods, reconciling, todo, stopped, used, calm>>

LEMMA CallCreated ==
    ASSUME DInv, NEW t \in Handlers, DBusy(dth[t]), th[t].pc = "idle",
           NEW ns \in Namespaces, NEW status \in -1..Cardinality(PodIds),
           LET n == Target(t) IN
           /\ rs' = [rs EXCEPT ![n] = [ns |-> ns, replicas |-> Desired(t), status |-> status]]
           /\ OnReplicaSetCreated(t, n, ns)
           /\ ~Stored(n) \/ Scales(t, n),
           UNCHANGED <<pods, reconciling, todo, stopped, used, calm>>
    PROVE  Called(t)
<1> DEFINE n == Target(t)
           a == [name |-> n, ns |-> ns, replicas |-> ReadAsInt32(Desired(t))]
           r == [ns |-> ns, replicas |-> Desired(t), status |-> status]
           most == Larger(cap[n], Larger(Desired(t), ReadAsInt32(Desired(t))))
<1>1. n \in RSNames /\ Desired(t) \in 0..MaxReplicas
    BY DEF DInv, DControlOK, DControlled, Target, Desired, Copies
<1>2. a \in Copies
    BY <1>1, BoundsAssumption, MaxReplicasAssumption DEF Copies, ReadAsInt32
<1>3. t \in Threads
    BY DEF Threads
<1>4. th' = [th EXCEPT ![t] = [@ EXCEPT !.pc = "enter", !.arg = a]]
    BY DEF OnReplicaSetCreated
<1>5. OneThread(t) /\ th'[t].pc = "enter" /\ th'[t].arg = a
    BY <1>2, <1>3, <1>4, CallThread DEF DInv, DTypeOK
<1> DEFINE x == [th[t] EXCEPT !.pc = "enter", !.arg = a]
<1>12. /\ th'[t].left = th[t].left /\ th'[t].counted = th[t].counted
       /\ th'[t].victims = th[t].victims
  <2>1. th'[t] = x /\ th[t] \in ThreadStates
    BY <1>3, <1>4 DEF DInv, DTypeOK, TypeOK
  <2>2. x.left = th[t].left /\ x.counted = th[t].counted /\ x.victims = th[t].victims
    BY <2>1 DEF ThreadStates
  <2> QED
    BY <2>1, <2>2
<1>6. r \in RSRecords
    BY <1>1 DEF RSRecords
<1>7. /\ most \in 0..MaxReplicas /\ cap[n] <= most
      /\ Desired(t) <= most /\ ReadAsInt32(Desired(t)) <= most
    BY <1>1, BoundsAssumption, MaxReplicasAssumption
    DEF DInv, DTypeOK, TypeOK, Larger, ReadAsInt32
<1>8. cap' = [cap EXCEPT ![n] = most] /\ rs' = [rs EXCEPT ![n] = r]
    BY DEF OnReplicaSetCreated
<1> HIDE DEF most, r
<1>9. /\ cap' \in [RSNames -> 0..MaxReplicas] /\ cap'[n] = most
      /\ rs' \in [RSNames -> RSRecords \cup {NoRS}] /\ rs'[n] = r
      /\ \A m \in RSNames \ {n} : cap'[m] = cap[m] /\ rs'[m] = rs[m]
    BY <1>1, <1>6, <1>7, <1>8 DEF DInv, DTypeOK, TypeOK
<1>10. ASSUME NEW m \in RSNames
       PROVE  /\ cap[m] <= cap'[m]
              /\ rs'[m] = rs[m] \/ (Stored(m)' /\ rs'[m].replicas <= cap'[m])
  <2>1. CASE m = n
    BY <1>6, <1>7, <1>9, <2>1, NoRSAssumption DEF Stored, r
  <2>2. CASE m # n
    <3>1. cap'[m] = cap[m] /\ rs'[m] = rs[m] /\ cap[m] \in Nat
      BY <1>9, <2>2, BoundsAssumption DEF DInv, DTypeOK, TypeOK
    <3> QED
      BY <3>1
  <2> QED
    BY <2>1, <2>2
<1>11. th'[t].arg.replicas <= cap'[th'[t].arg.name]
  <2>1. a.name = n /\ a.replicas = ReadAsInt32(Desired(t))
    OBVIOUS
  <2> QED
    BY <1>5, <1>7, <1>9, <2>1
<1>13. \A m \in RSNames : rs'[m] = rs[m] \/ ~Stored(m) \/ Scales(t, m)
    BY <1>9
<1> QED
    BY <1>5, <1>9, <1>10, <1>11, <1>12, <1>13 DEF Called

LEMMA CreateCalls ==
    ASSUME DInv, NEW t \in Handlers, DCreate(t)
    PROVE  UNCHANGED rsVars \/ Called(t)
<1>1. /\ DBusy(dth[t]) /\ th[t].pc = "idle" /\ dth[t].arg.ns \in Namespaces
      /\ UNCHANGED <<pods, reconciling, todo, stopped, used, calm>>
    BY DEF DCreate, DInv, DControlOK, DControlled, DBusy, Nested, Copies
<1>2. CASE Stored(Target(t))
    BY <1>2 DEF DCreate, rsVars
<1>3. CASE ~Stored(Target(t))
  <2>1. -1 \in -1..Cardinality(PodIds)
    BY PodIdsAssumption, FS_CardinalityType
  <2> QED
    BY <1>1, <1>3, <2>1, CallCreated DEF DCreate
<1> QED
    BY <1>2, <1>3

LEMMA PutCalls ==
    ASSUME DInv, NEW t \in Handlers, DPutRS(t)
    PROVE  UNCHANGED rsVars \/ Called(t)
<1>1. /\ DBusy(dth[t]) /\ th[t].pc = "idle"
      /\ dth[t].read.status \in -1..Cardinality(PodIds)
      /\ UNCHANGED <<pods, reconciling, todo, stopped, used, calm>>
    BY DEF DPutRS, DInv, DControlOK, DControlled, DBusy, Nested, RSRecords
<1>2. CASE Stored(Target(t))
  <2>1. Scales(t, Target(t))
    BY DEF DPutRS, Scales
  <2> QED
    BY <1>1, <1>2, <2>1, CallCreated, DefaultAssumption DEF DPutRS
<1>3. CASE ~Stored(Target(t))
    BY <1>3 DEF DPutRS, rsVars
<1> QED
    BY <1>2, <1>3

LEMMA StepIsRS ==
    ASSUME DInv, [DNext]_allVars
    PROVE  [Next]_vars \/ \E t \in Handlers : Called(t)
<1>1. UNCHANGED rsVars => UNCHANGED vars
    BY DEF rsVars, vars
<1>2. ASSUME NEW t \in Handlers, DReconcileStep(t)
      PROVE  UNCHANGED rsVars \/ Called(t)
  <2>1. CASE DCreate(t) \/ DPutRS(t)
    BY <2>1, CreateCalls, PutCalls
  <2>2. CASE DEnter(t) \/ DFind(t) \/ DGetRS(t) \/ DGetDeploy(t) \/ DPutDeploy(t) \/ DExit(t)
    BY <2>2 DEF DEnter, DFind, DGetRS, DGetDeploy, DPutDeploy, DExit
  <2> QED
    BY <1>2, <2>1, <2>2 DEF DReconcileStep
<1>3. ASSUME NEW t \in Clients, DRequest(t) PROVE UNCHANGED rsVars \/ Next
  <2>1. ASSUME NEW a \in Copies, PostDeployment(t, a) PROVE UNCHANGED rsVars
    BY <2>1 DEF PostDeployment
  <2>2. ASSUME NEW a \in Copies, PostReplicaSet(t, a) PROVE Next
    BY <2>2 DEF PostReplicaSet, Next, Request, Clients
  <2>3. ASSUME NEW n \in RSNames, NEW ns \in Namespaces, DeleteReplicaSet(t, n, ns)
        PROVE  Next
    BY <2>3 DEF DeleteReplicaSet, Next, Request, Clients
  <2> QED
    BY <1>3, <2>1, <2>2, <2>3 DEF DRequest
<1>4. CASE \/ \E t \in Handlers : RSHandlerStep(t)
           \/ \E t \in Threads : RSThreadStep(t)
           \/ \E p \in PodIds : DeleteClientPod(p)
           \/ RSLoopStep
    BY <1>4 DEF RSHandlerStep, RSThreadStep, DeleteClientPod, RSLoopStep, Next
<1>5. CASE DTick \/ DLoopNext \/ DStop \/ DLoopExit \/ UNCHANGED allVars
    BY <1>1, <1>5 DEF DTick, DLoopNext, DStop, DLoopExit, allVars
<1> QED
    BY <1>1, <1>2, <1>3, <1>4, <1>5 DEF DNext

LEMMA RSTypeStep == DInv /\ [DNext]_allVars => TypeOK' /\ ControlOK'
<1> SUFFICES ASSUME DInv, [DNext]_allVars PROVE TypeOK' /\ ControlOK'
    OBVIOUS
<1>1. TypeOK /\ ControlOK
    BY DEF DInv, DTypeOK
<1>2. CASE [Next]_vars
    BY <1>1, <1>2, TypeStep
<1>3. ASSUME NEW t \in Handlers, Called(t) PROVE TypeOK' /\ ControlOK'
  <2>1. t \in Threads /\ OneThread(t)
    BY <1>3 DEF Called, Threads
  <2>2. th' \in [Threads -> ThreadStates] /\ ControlOK'
    BY <1>1, <2>1, ThreadsStep
  <2> QED
    BY <1>1, <1>3, <2>2 DEF Called, TypeOK
<1> QED
    BY <1>2, <1>3, StepIsRS

-----------------------------------------------------------------------------
(* What each step is to the frames of reconcileDeployment.                 *)
LEMMA ReconcileThread ==
    ASSUME DInv, NEW t \in Handlers, DReconcileStep(t)
    PROVE  DOneThread(t) /\ DBusy(dth[t])
<1> USE DEF DBusy, DPcs
<1>1. dth[t] \in DThreadStates /\ (DBusy(dth[t]) => dth[t].arg \in Copies)
    BY DEF DInv, DTypeOK, DControlOK, DControlled
<1>2. CASE DEnter(t)
    BY <1>2, ReturnThread, KeepThread DEF DEnter, Goto
<1>3. CASE DFind(t)
    BY <1>3, KeepThread DEF DFind, Goto
<1>4. CASE DCreate(t)
    BY <1>4, KeepThread DEF DCreate, Goto
<1>5. CASE DGetRS(t)
  <2>1. dth[t].pc = "getRS" /\ Target(t) \in RSNames
    BY <1>1, <1>5 DEF DGetRS, Target, Copies
  <2>2. CASE Stored(Target(t))
    <3>1. rs[Target(t)] \in RSRecords
      BY <2>1, <2>2 DEF Stored, DInv, DTypeOK, TypeOK
    <3> QED
      BY <1>5, <2>1, <2>2, <3>1, ReadThread DEF DGetRS
  <2>3. CASE ~Stored(Target(t))
    BY <1>5, <2>1, <2>3, KeepThread DEF DGetRS
  <2> QED
    BY <2>2, <2>3
<1>6. CASE DPutRS(t)
    BY <1>6, GotoThread DEF DPutRS
<1>7. CASE DGetDeploy(t)
  <2>1. dth[t].pc = "getStatus" /\ Target(t) \in RSNames
    BY <1>1, <1>7 DEF DGetDeploy, Target, Copies
  <2>2. CASE Deployed(Target(t))
    <3>1. deploys[Target(t)] \in DeployRecords
      BY <2>1, <2>2 DEF Deployed, DInv, DTypeOK
    <3> QED
      BY <1>7, <2>1, <2>2, <3>1, ReadThread DEF DGetDeploy
  <2>3. CASE ~Deployed(Target(t))
    BY <1>7, <2>1, <2>3, KeepThread DEF DGetDeploy
  <2> QED
    BY <2>2, <2>3
<1>8. CASE DPutDeploy(t)
    BY <1>8, GotoThread DEF DPutDeploy
<1>9. CASE DExit(t)
    BY <1>9, ReturnThread DEF DExit
<1> QED
    BY <1>2, <1>3, <1>4, <1>5, <1>6, <1>7, <1>8, <1>9 DEF DReconcileStep

LEMMA LoopExitThread ==
    ASSUME DInv, DLoopExit
    PROVE  DOneThread(DLoop) /\ ~DBusy(dth'[DLoop])
<1> DEFINE x == [dth[DLoop] EXCEPT !.pc = "exited"]
<1>1. dth[DLoop] \in DThreadStates
    BY DLoopAssumption DEF DInv, DTypeOK
<1>2. dth' = [dth EXCEPT ![DLoop] = x] /\ dth'[DLoop] = x
    BY DLoopAssumption DEF DLoopExit, DInv, DTypeOK
<1>3. x \in DThreadStates /\ x.pc = "exited"
    BY <1>1 DEF DThreadStates, DPcs
<1> QED
    BY <1>2, <1>3 DEF DOneThread, DControlled, DBusy

LEMMA LoopNextThread ==
    ASSUME DInv, DLoopNext
    PROVE  DOneThread(DLoop) /\ dth'[DLoop].pc = "enter"
<1>1. PICK a \in dTodo : dth' = [dth EXCEPT ![DLoop] = [@ EXCEPT !.pc = "enter", !.arg = a]]
    BY DEF DLoopNext
<1>2. a \in Copies
    BY DEF DInv, DTypeOK
<1> QED
    BY <1>1, <1>2, StartThread, DLoopAssumption

(* Every step leaves these frames alone or moves one, of a goroutine that  *)
(* is not in reconcileReplicaSet when it gets to a place where it must not *)
(* be.                                                                     *)
DMoved(t) == DOneThread(t) /\ (th'[t].pc = "idle" \/ dth'[t].pc = "getStatus")

LEMMA ReconcileMoves ==
    ASSUME DInv, NEW t \in Handlers, DReconcileStep(t)
    PROVE  DMoved(t)
<1>1. DOneThread(t)
  BY ReconcileThread
<1>2. dth[t].pc # "getStatus" => th[t].pc = "idle"
  BY ReconcileThread DEF DInv, Nested, DBusy
<1>3. CASE DCreate(t) \/ DPutRS(t)
  <2>1. th' = th \/ dth'[t].pc = "getStatus"
    <3>1. dth \in [Handlers -> DThreadStates]
      BY DEF DInv, DTypeOK
    <3>2. CASE DCreate(t)
      BY <3>1, <3>2 DEF DCreate, Goto, DThreadStates
    <3>3. CASE DPutRS(t)
      BY <3>1, <3>3 DEF DPutRS, DThreadStates
    <3> QED
      BY <1>3, <3>2, <3>3
  <2>2. dth[t].pc # "getStatus"
    BY <1>3 DEF DCreate, DPutRS
  <2> QED
    BY <1>1, <1>2, <2>1, <2>2 DEF DMoved
<1>4. CASE DGetDeploy(t)
  BY <1>1, <1>4 DEF DMoved, DGetDeploy, rsVars
<1>5. CASE DEnter(t) \/ DFind(t) \/ DGetRS(t) \/ DPutDeploy(t) \/ DExit(t)
  BY <1>1, <1>2, <1>5 DEF DMoved, DEnter, DFind, DGetRS, DPutDeploy, DExit, rsVars
<1> QED
  BY <1>3, <1>4, <1>5 DEF DReconcileStep

LEMMA StepFrames ==
    ASSUME DInv, [DNext]_allVars
    PROVE  dth' = dth \/ \E t \in Handlers : DMoved(t)
<1>1. ASSUME NEW t \in Handlers, DReconcileStep(t) PROVE DMoved(t)
    BY <1>1, ReconcileMoves
<1>2. ASSUME NEW t \in Clients, NEW a \in Copies, PostDeployment(t, a) PROVE DMoved(t)
  <2>1. t \in Handlers
    BY DEF Clients
  <2> QED
    BY <1>2, <2>1, StartThread DEF PostDeployment, DMoved, rsVars
<1>3. ASSUME DLoopNext \/ DLoopExit PROVE DMoved(DLoop)
  <2>1. th[DLoop].pc = "idle" /\ th' = th
    BY <1>3, DLoopAssumption DEF DLoopNext, DLoopExit, DInv, Nested, rsVars
  <2> QED
    BY <1>3, <2>1, LoopNextThread, LoopExitThread DEF DMoved
<1>4. CASE \/ \E t \in Clients :
                \/ \E a \in Copies : PostReplicaSet(t, a)
                \/ \E n \in RSNames, ns \in Namespaces : DeleteReplicaSet(t, n, ns)
           \/ \E t \in Handlers : RSHandlerStep(t)
           \/ \E t \in Threads : RSThreadStep(t)
           \/ \E p \in PodIds : DeleteClientPod(p)
           \/ RSLoopStep \/ DTick \/ DStop \/ UNCHANGED allVars
    BY <1>4 DEF PostReplicaSet, DeleteReplicaSet, RSHandlerStep, RSThreadStep,
                DeleteClientPod, RSLoopStep, DTick, DStop, dVars, allVars
<1>5. DLoop \in Handlers /\ Clients \subseteq Handlers
    BY DLoopAssumption DEF Clients
<1> QED
    BY <1>1, <1>2, <1>3, <1>4, <1>5 DEF DNext, DRequest

(* A step of a reconcile, or of a DELETE, is a step of one goroutine that  *)
(* is in one.                                                              *)
LEMMA RSStepThread ==
    ASSUME TypeOK, NEW t \in Threads, ReconcileStep(t) \/ HandlerStep(t)
    PROVE  th[t].pc # "idle" /\ \A u \in Threads \ {t} : th'[u] = th[u]
<1>1. CASE Enter(t) \/ Count(t) \/ GetRS(t) \/ PutRS(t)
    BY <1>1 DEF Enter, Count, GetRS, PutRS, Scale, TypeOK
<1>2. CASE CreatePod(t) \/ CreateClash(t)
    BY <1>2 DEF CreatePod, CreateClash, CreateRound, TypeOK
<1>3. CASE DeletePod(t) \/ DeletePods(t)
    BY <1>3 DEF DeletePod, DeletePods, DeleteRound, TypeOK
<1>4. CASE Exit(t) \/ DeleteList(t) \/ DeleteStored(t)
    BY <1>4 DEF Exit, DeleteList, DeleteStored, TypeOK
<1> QED
    BY <1>1, <1>2, <1>3, <1>4 DEF ReconcileStep, HandlerStep

LEMMA NestedStep == DInv /\ [DNext]_allVars => Nested'
<1> SUFFICES ASSUME DInv, [DNext]_allVars PROVE Nested'
    OBVIOUS
<1>1. TypeOK /\ Nested /\ Handlers \subseteq Threads /\ DLoop \in Handlers
    BY DLoopAssumption DEF DInv, DTypeOK, Threads
<1>2. ASSUME NEW t \in Handlers, DMoved(t), \A u \in Handlers \ {t} : th'[u] = th[u]
      PROVE  Nested'
    BY <1>1, <1>2 DEF Nested, DMoved, DOneThread, DInv, DTypeOK
<1>3. ASSUME dth' = dth, NEW t \in Threads, \A u \in Threads \ {t} : th'[u] = th[u],
             t \in Handlers => dth[t].pc \in {"idle", "getStatus"}
      PROVE  Nested'
    BY <1>1, <1>3 DEF Nested
<1>4. CASE th' = th
    BY <1>1, <1>2, <1>4, StepFrames DEF Nested
<1>5. ASSUME NEW t \in Handlers, DReconcileStep(t) PROVE Nested'
  <2>1. DMoved(t)
    BY <1>5, ReconcileMoves
  <2>2. CASE DCreate(t) \/ DPutRS(t)
    <3>1. \A u \in Handlers \ {t} : th'[u] = th[u]
      BY <1>1, <2>2 DEF DCreate, DPutRS, OnReplicaSetCreated, TypeOK
    <3> QED
      BY <1>2, <2>1, <3>1
  <2>3. CASE DEnter(t) \/ DFind(t) \/ DGetRS(t) \/ DGetDeploy(t) \/ DPutDeploy(t) \/ DExit(t)
    BY <1>4, <2>3 DEF DEnter, DFind, DGetRS, DGetDeploy, DPutDeploy, DExit, rsVars
  <2> QED
    BY <1>5, <2>2, <2>3 DEF DReconcileStep
<1>6. ASSUME NEW t \in Clients, DRequest(t) PROVE Nested'
  <2>1. t \in Handlers /\ t \in Threads
    BY <1>1 DEF Clients
  <2>2. ASSUME NEW a \in Copies, PostDeployment(t, a) PROVE Nested'
    BY <1>4, <2>2 DEF PostDeployment, rsVars
  <2>3. ASSUME NEW a \in Copies, PostReplicaSet(t, a) PROVE Nested'
    <3>1. \A u \in Threads \ {t} : th'[u] = th[u]
      BY <1>1, <2>3 DEF PostReplicaSet, PostRS, TypeOK
    <3> QED
      BY <1>3, <2>1, <2>3, <3>1 DEF PostReplicaSet
  <2>4. ASSUME NEW n \in RSNames, NEW ns \in Namespaces, DeleteReplicaSet(t, n, ns)
        PROVE  Nested'
    <3>1. \A u \in Threads \ {t} : th'[u] = th[u]
      BY <1>1, <2>4 DEF DeleteReplicaSet, DeleteRS, TypeOK
    <3> QED
      BY <1>3, <2>1, <2>4, <3>1 DEF DeleteReplicaSet
  <2> QED
    BY <1>6, <2>2, <2>3, <2>4 DEF DRequest
<1>7. ASSUME NEW t \in Threads, RSThreadStep(t) \/ (t \in Handlers /\ RSHandlerStep(t))
      PROVE  Nested'
  <2>1. th[t].pc # "idle" /\ \A u \in Threads \ {t} : th'[u] = th[u]
    BY <1>1, <1>7, RSStepThread DEF RSThreadStep, RSHandlerStep
  <2>2. t \in Handlers => dth[t].pc \in {"idle", "getStatus"}
    BY <1>1, <2>1 DEF Nested
  <2> QED
    BY <1>3, <1>7, <2>1, <2>2 DEF RSThreadStep, RSHandlerStep, dVars
<1>8. CASE RSLoopStep
  <2>1. \A u \in Threads \ {Loop} : th'[u] = th[u]
    BY <1>1, <1>8 DEF RSLoopStep, Tick, LoopNext, TypeOK
  <2> QED
    BY <1>3, <1>8, <2>1, LoopAssumption DEF RSLoopStep, dVars, Threads
<1>9. CASE \/ \E p \in PodIds : DeleteClientPod(p)
           \/ DTick \/ DLoopNext \/ DStop \/ DLoopExit \/ UNCHANGED allVars
    BY <1>4, <1>9 DEF DeleteClientPod, KillPod, DTick, DLoopNext, DStop, DLoopExit,
                      allVars, rsVars
<1> QED
    BY <1>1, <1>5, <1>6, <1>7, <1>8, <1>9 DEF DNext

LEMMA DInvStep == DInv /\ [DNext]_allVars => DInv'
<1> SUFFICES ASSUME DInv, [DNext]_allVars PROVE DInv'
    OBVIOUS
<1>1. TypeOK' /\ ControlOK' /\ Nested'
    BY RSTypeStep, NestedStep
<1>2. dth' \in [Handlers -> DThreadStates] /\ DControlOK'
  <2>1. CASE dth' = dth
    BY <2>1 DEF DInv, DTypeOK, DControlOK
  <2>2. ASSUME NEW t \in Handlers, DMoved(t)
        PROVE  dth' \in [Handlers -> DThreadStates] /\ DControlOK'
    BY <2>2 DEF DMoved, DOneThread, DInv, DTypeOK, DControlOK
  <2> QED
    BY <2>1, <2>2, StepFrames
<1> DEFINE Others == /\ deploys' \in [RSNames -> DeployRecords \cup {NoDeploy}]
                     /\ dReconciling' \subseteq Keys
                     /\ dTodo' \subseteq Copies
                     /\ dStopped' \in BOOLEAN
                     /\ events' \in 0..MaxEvents
<1>3. ASSUME UNCHANGED <<deploys, dReconciling, dTodo, dStopped>>,
             Event \/ UNCHANGED events
      PROVE  Others
    BY <1>3, MaxEventsAssumption DEF Event, DInv, DTypeOK
<1>4. ASSUME NEW t \in Handlers, DReconcileStep(t) PROVE Others
  <2>1. dth[t].arg \in Copies
    BY <1>4, ReconcileThread DEF DInv, DControlOK, DControlled
  <2>2. CASE DEnter(t)
    <3>1. Key(dth[t].arg) \in Keys
      BY <2>1 DEF Key, Keys, Copies
    <3> QED
      BY <2>2, <3>1 DEF DEnter, DInv, DTypeOK
  <2>3. CASE DPutDeploy(t)
    <3> DEFINE d == [ns |-> dth[t].arg.ns, replicas |-> dth[t].read.replicas,
                     status |-> Desired(t)]
    <3>1. dth[t].read \in DeployRecords
      BY <2>3 DEF DPutDeploy, DInv, DControlOK, DControlled
    <3>2. d \in DeployRecords
      BY <2>1, <3>1, BoundsAssumption DEF DeployRecords, Copies, Desired
    <3>3. deploys' \in [RSNames -> DeployRecords \cup {NoDeploy}]
      BY <2>3, <3>2 DEF DPutDeploy, UpdateDeployment, DInv, DTypeOK
    <3> QED
      BY <2>3, <3>3 DEF DPutDeploy, DInv, DTypeOK
  <2>4. CASE DExit(t)
    BY <2>4 DEF DExit, ReleasedDKeys, DInv, DTypeOK
  <2>5. CASE DFind(t) \/ DCreate(t) \/ DGetRS(t) \/ DPutRS(t) \/ DGetDeploy(t)
    BY <1>3, <2>5 DEF DFind, DCreate, DGetRS, DPutRS, DGetDeploy
  <2> QED
    BY <1>4, <2>2, <2>3, <2>4, <2>5 DEF DReconcileStep
<1>5. ASSUME NEW t \in Clients, NEW a \in Copies, PostDeployment(t, a) PROVE Others
  <2>1. [ns |-> a.ns, replicas |-> a.replicas, status |-> -1] \in DeployRecords
    BY BoundsAssumption DEF DeployRecords, Copies
  <2>2. deploys' \in [RSNames -> DeployRecords \cup {NoDeploy}]
    BY <1>5, <2>1 DEF PostDeployment, DInv, DTypeOK, Copies
  <2> QED
    BY <1>5, <2>2 DEF PostDeployment, DInv, DTypeOK
<1>6. ASSUME DTick PROVE Others
  <2>1. ASSUME NEW n \in RSNames, Deployed(n) PROVE DCopyOf(n) \in Copies
    <3>1. deploys[n] \in DeployRecords
      BY <2>1 DEF Deployed, DInv, DTypeOK
    <3> QED
      BY <3>1 DEF DCopyOf, Copies, DeployRecords
  <2>2. dTodo' \subseteq Copies
    BY <1>6, <2>1 DEF DTick
  <2> QED
    BY <1>6, <2>2 DEF DTick, DInv, DTypeOK
<1>7. ASSUME DLoopNext PROVE Others
    BY <1>7 DEF DLoopNext, DInv, DTypeOK
<1>8. ASSUME DStop PROVE Others
  <2>1. events' \in 0..MaxEvents
    BY <1>8, MaxEventsAssumption DEF DStop, Event, DInv, DTypeOK
  <2> QED
    BY <1>8, <2>1 DEF DStop, DInv, DTypeOK
<1>9. ASSUME NEW t \in Clients,
             \/ \E a \in Copies : PostReplicaSet(t, a)
             \/ \E n \in RSNames, ns \in Namespaces : DeleteReplicaSet(t, n, ns)
      PROVE  Others
    BY <1>3, <1>9 DEF PostReplicaSet, DeleteReplicaSet
<1>10. ASSUME \/ \E t \in Handlers : RSHandlerStep(t)
              \/ \E t \in Threads : RSThreadStep(t)
              \/ \E p \in PodIds : DeleteClientPod(p)
              \/ RSLoopStep \/ DLoopExit \/ UNCHANGED allVars
       PROVE  Others
    BY <1>3, <1>10 DEF RSHandlerStep, RSThreadStep, DeleteClientPod, RSLoopStep,
                       DLoopExit, dVars, allVars
<1> HIDE DEF Others
<1>11. ASSUME NEW t \in Clients, DRequest(t) PROVE Others
    BY <1>5, <1>9, <1>11 DEF DRequest
<1>12. Others
    BY <1>4, <1>6, <1>7, <1>8, <1>10, <1>11 DEF DNext
<1> USE DEF Others
<1>13. DTypeOK'
    BY <1>1, <1>2, <1>12 DEF DTypeOK
<1> QED
    BY <1>1, <1>2, <1>13 DEF DInv

(* The variables keep their types: no goroutine calls into the ReplicaSet  *)
(* controller while it is still in there, works without a copy, or writes  *)
(* back a ReplicaSet or a Deployment it never read.                        *)
THEOREM DTypeCorrect == DSpec => []DTypeOK
<1>1. DInv /\ [DNext]_allVars => DInv'
    BY DInvStep
<1>2. DInv => DTypeOK
    BY DEF DInv
<1> QED
    BY DInitInv, <1>1, <1>2, PTL DEF DSpec

-----------------------------------------------------------------------------
(* The guard of reconcileDeployment, argued as that of reconcileReplicaSet *)
(* is in MutexStep.                                                        *)
DOneReconcilePerKey ==
    /\ dReconciling = {Key(dth[t].arg) : t \in {u \in Handlers : InDeploy(u)}}
    /\ \A t, u \in Handlers :
         InDeploy(t) /\ InDeploy(u) /\ Key(dth[t].arg) = Key(dth[u].arg) => t = u

LEMMA DMutexKept ==
    ASSUME DInv, DOneReconcilePerKey, NEW t \in Handlers, DOneThread(t),
           dReconciling' = dReconciling, InDeploy(t)' <=> InDeploy(t),
           InDeploy(t) => dth'[t].arg = dth[t].arg
    PROVE  DOneReconcilePerKey'
<1>1. \A u \in Handlers : /\ InDeploy(u)' <=> InDeploy(u)
                          /\ InDeploy(u) => dth'[u].arg = dth[u].arg
    BY DEF DOneThread, DInv, DTypeOK, InDeploy
<1>2. {Key(dth'[u].arg) : u \in {v \in Handlers : InDeploy(v)'}}
        = {Key(dth[u].arg) : u \in {v \in Handlers : InDeploy(v)}}
    BY <1>1
<1> QED
    BY <1>1, <1>2 DEF DOneReconcilePerKey

LEMMA DEnterMutex ==
    ASSUME DInv, DOneReconcilePerKey, NEW t \in Handlers, DEnter(t)
    PROVE  DOneReconcilePerKey'
<1> DEFINE k == Key(dth[t].arg)
<1>1. dth[t].pc = "enter" /\ DBusy(dth[t]) /\ ~InDeploy(t)
    BY DEF DEnter, DBusy, InDeploy
<1>2. CASE DHeld(k)
  <2>1. DOneThread(t) /\ ~DBusy(dth'[t]) /\ dReconciling' = dReconciling
    BY <1>2, ReturnThread DEF DEnter
  <2> QED
    BY <1>1, <2>1, DMutexKept DEF DBusy, InDeploy
<1>3. CASE ~DHeld(k)
  <2>1. /\ DOneThread(t) /\ dth'[t].pc = "find" /\ dth'[t].arg = dth[t].arg
        /\ dReconciling' = dReconciling \cup {k} /\ k \notin dReconciling
    BY <1>1, <1>3, KeepThread DEF DEnter, Goto, DHeld, DPcs
  <2>2. \A u \in Handlers : /\ InDeploy(u)' <=> InDeploy(u) \/ u = t
                            /\ dth'[u].arg = dth[u].arg
    BY <1>1, <2>1 DEF DOneThread, DInv, DTypeOK, InDeploy
  <2>3. {Key(dth'[u].arg) : u \in {v \in Handlers : InDeploy(v)'}}
          = {Key(dth[u].arg) : u \in {v \in Handlers : InDeploy(v)}} \cup {k}
    BY <2>2
  <2>4. \A u \in Handlers : InDeploy(u) => Key(dth[u].arg) # k
    BY <2>1 DEF DOneReconcilePerKey
  <2>5. ASSUME NEW u \in Handlers, NEW v \in Handlers, InDeploy(u)', InDeploy(v)',
               Key(dth'[u].arg) = Key(dth'[v].arg)
        PROVE  u = v
    <3>1. Key(dth[u].arg) = Key(dth[v].arg)
      BY <2>2, <2>5
    <3>2. (InDeploy(u) \/ u = t) /\ (InDeploy(v) \/ v = t)
      BY <2>2, <2>5
    <3>3. InDeploy(u) /\ InDeploy(v) => u = v
      BY <3>1 DEF DOneReconcilePerKey
    <3> QED
      BY <2>4, <3>1, <3>2, <3>3
  <2> QED
    BY <2>1, <2>3, <2>5 DEF DOneReconcilePerKey
<1> QED
    BY <1>2, <1>3

LEMMA DExitMutex ==
    ASSUME DInv, DOneReconcilePerKey, NEW t \in Handlers, DExit(t)
    PROVE  DOneReconcilePerKey'
<1>1. /\ InDeploy(t) /\ DOneThread(t) /\ ~DBusy(dth'[t])
      /\ dReconciling' = dReconciling \ {Key(dth[t].arg)}
    BY ReturnThread DEF DExit, ReleasedDKeys, InDeploy
<1>2. \A u \in Handlers : /\ InDeploy(u)' <=> InDeploy(u) /\ u # t
                          /\ u # t => dth'[u] = dth[u]
    BY <1>1 DEF DOneThread, DInv, DTypeOK, DBusy, InDeploy
<1>3. \A u \in Handlers : InDeploy(u) /\ u # t => Key(dth[u].arg) # Key(dth[t].arg)
    BY <1>1 DEF DOneReconcilePerKey
<1>4. {Key(dth'[u].arg) : u \in {v \in Handlers : InDeploy(v)'}}
        = {Key(dth[u].arg) : u \in {v \in Handlers : InDeploy(v)}} \ {Key(dth[t].arg)}
    BY <1>2, <1>3
<1> QED
    BY <1>1, <1>2, <1>4 DEF DOneReconcilePerKey

LEMMA DMutexStep ==
    ASSUME DInv, DOneReconcilePerKey, [DNext]_allVars
    PROVE  DOneReconcilePerKey'
<1>1. ASSUME NEW t \in Handlers, DReconcileStep(t) PROVE DOneReconcilePerKey'
  <2>1. DOneThread(t) /\ DBusy(dth[t]) /\ dth \in [Handlers -> DThreadStates]
    BY <1>1, ReconcileThread DEF DInv, DTypeOK
  <2>2. CASE DFind(t) \/ DCreate(t) \/ DGetRS(t) \/ DPutRS(t) \/ DGetDeploy(t) \/ DPutDeploy(t)
    <3>1. InDeploy(t) /\ dReconciling' = dReconciling
      BY <2>2 DEF DFind, DCreate, DGetRS, DPutRS, DGetDeploy, DPutDeploy, InDeploy
    <3>2. CASE DFind(t) \/ DCreate(t)
      <4>1. InDeploy(t)' /\ dth'[t].arg = dth[t].arg
        BY <2>1, <3>2 DEF DFind, DCreate, Goto, InDeploy, DThreadStates
      <4> QED
        BY <2>1, <3>1, <4>1, DMutexKept
    <3>3. CASE DGetRS(t) \/ DGetDeploy(t)
      <4>1. InDeploy(t)' /\ dth'[t].arg = dth[t].arg
        BY <2>1, <3>3 DEF DGetRS, DGetDeploy, InDeploy, DThreadStates
      <4> QED
        BY <2>1, <3>1, <4>1, DMutexKept
    <3>4. CASE DPutRS(t) \/ DPutDeploy(t)
      <4>1. InDeploy(t)' /\ dth'[t].arg = dth[t].arg
        BY <2>1, <3>4 DEF DPutRS, DPutDeploy, InDeploy, DThreadStates
      <4> QED
        BY <2>1, <3>1, <4>1, DMutexKept
    <3> QED
      BY <2>2, <3>2, <3>3, <3>4
  <2> QED
    BY <1>1, <2>2, DEnterMutex, DExitMutex DEF DReconcileStep
<1>2. ASSUME NEW t \in Clients, NEW a \in Copies, PostDeployment(t, a)
      PROVE  DOneReconcilePerKey'
  <2>1. t \in Handlers /\ ~InDeploy(t) /\ dReconciling' = dReconciling
    BY <1>2 DEF Clients, PostDeployment, InDeploy
  <2>2. DOneThread(t) /\ ~InDeploy(t)'
    BY <1>2, <2>1, StartThread DEF PostDeployment, InDeploy
  <2> QED
    BY <2>1, <2>2, DMutexKept
<1>3. ASSUME DLoopNext \/ DLoopExit PROVE DOneReconcilePerKey'
  <2>1. DLoop \in Handlers /\ ~InDeploy(DLoop) /\ dReconciling' = dReconciling
    BY <1>3, DLoopAssumption DEF DLoopNext, DLoopExit, InDeploy
  <2>2. DOneThread(DLoop) /\ ~InDeploy(DLoop)'
    BY <1>3, LoopNextThread, LoopExitThread DEF InDeploy, DBusy
  <2> QED
    BY <2>1, <2>2, DMutexKept
<1>4. ASSUME UNCHANGED <<dth, dReconciling>> PROVE DOneReconcilePerKey'
    BY <1>4 DEF DOneReconcilePerKey, InDeploy
<1>5. ASSUME \/ \E t \in Clients :
                   \/ \E a \in Copies : PostReplicaSet(t, a)
                   \/ \E n \in RSNames, ns \in Namespaces : DeleteReplicaSet(t, n, ns)
             \/ \E t \in Handlers : RSHandlerStep(t)
             \/ \E t \in Threads : RSThreadStep(t)
             \/ \E p \in PodIds : DeleteClientPod(p)
             \/ RSLoopStep \/ DTick \/ DStop \/ UNCHANGED allVars
      PROVE  DOneReconcilePerKey'
    BY <1>4, <1>5 DEF PostReplicaSet, DeleteReplicaSet, RSHandlerStep, RSThreadStep,
                      DeleteClientPod, RSLoopStep, DTick, DStop, dVars, allVars
<1> QED
    BY <1>1, <1>2, <1>3, <1>5 DEF DNext, DRequest

LEMMA RSMutexStep ==
    ASSUME DInv, OneReconcilePerKey, [DNext]_allVars
    PROVE  OneReconcilePerKey'
<1>1. TypeOK /\ ControlOK
    BY DEF DInv, DTypeOK
<1>2. CASE [Next]_vars
    BY <1>1, <1>2, MutexStep
<1>3. ASSUME NEW t \in Handlers, Called(t) PROVE OneReconcilePerKey'
    BY <1>1, <1>3, MutexKept DEF Called, InReconcile, Threads
<1> QED
    BY <1>2, <1>3, StepIsRS

LEMMA RSMutexInit == DInit => OneReconcilePerKey
    BY MutexInit DEF DInit

(* Both guards: the keys each controller has marked are those its          *)
(* goroutines reconcile, one goroutine per key, for any number of request  *)
(* goroutines beside the two loops.                                        *)
THEOREM GuardsCorrect == DSpec => []GuardsHold
<1> DEFINE Inv == DInv /\ OneReconcilePerKey /\ DOneReconcilePerKey
<1>1. DInit => Inv
  <2> SUFFICES ASSUME DInit PROVE Inv
    OBVIOUS
  <2>1. \A t \in Handlers : ~InDeploy(t)
    BY DEF DInit, DRest, InDeploy
  <2>2. dReconciling = {}
    BY DEF DInit
  <2> QED
    BY <2>1, <2>2, DInitInv, RSMutexInit DEF DOneReconcilePerKey
<1>2. Inv /\ [DNext]_allVars => Inv'
    BY DInvStep, RSMutexStep, DMutexStep
<1>3. Inv => GuardsHold
    BY DEF GuardsHold, DOneReconcilePerKey
<1> HIDE DEF Inv
<1> QED
    BY <1>1, <1>2, <1>3, PTL DEF DSpec

-----------------------------------------------------------------------------
(* The Deployment controller never makes a ReplicaSet have more pods than  *)
(* were asked for under its name: a call of OnReplicaSetCreated raises     *)
(* what was asked for; the rest is the ReplicaSet controller's argument.   *)
LEMMA CalledProvision ==
    ASSUME DInv, TypeOK', Provision, NEW t \in Handlers, Called(t)
    PROVE  Provision'
<1>1. TypeOK /\ ControlOK /\ t \in Threads
    BY DEF DInv, DTypeOK, Threads
<1>2. \A n \in RSNames : Owned(n)' = Owned(n)
    BY DEF Called, Owned
<1>3. \A n \in RSNames : cap[n] <= cap'[n] /\ cap[n] \in Nat /\ cap'[n] \in Nat
    BY <1>1, BoundsAssumption DEF Called, TypeOK
<1>4. ASSUME NEW a \in todo' PROVE a.replicas <= cap'[a.name]
  <2>1. a \in Copies /\ a.replicas <= cap[a.name]
    BY <1>1, <1>4 DEF Called, Provision, TypeOK
  <2>2. a.name \in RSNames /\ a.replicas \in Nat
    BY <2>1, BoundsAssumption DEF Copies
  <2> QED
    BY <1>3, <2>1, <2>2
<1>5. ASSUME NEW n \in RSNames, Stored(n)' PROVE rs'[n].replicas <= cap'[n]
  <2>1. CASE rs'[n] = rs[n]
    <3>1. Stored(n) /\ rs[n].replicas <= cap[n]
      BY <1>5, <2>1 DEF Stored, Provision
    <3>2. rs[n].replicas \in Nat
      BY <1>1, <3>1, BoundsAssumption DEF Stored, TypeOK, RSRecords
    <3> QED
      BY <1>3, <2>1, <3>1, <3>2
  <2> QED
    BY <2>1 DEF Called
<1>6. Frugal(t)'
    BY DEF Called, Frugal, InReconcile
<1> QED
    BY <1>1, <1>2, <1>3, <1>4, <1>5, <1>6, ShrinkingStep DEF Called

(* However the loops of both controllers and their handlers interleave,    *)
(* with a first reconcile that works with one replica and copies that are  *)
(* stale when they are used, no ReplicaSet gets more pods than the most    *)
(* that was asked for under its name.                                      *)
THEOREM PodsBound ==
    ASSUME \E ns : Namespaces = {ns}
    PROVE  DSpec => []PodsBounded
<1> DEFINE Inv == DInv /\ OneReconcilePerKey /\ Provision
<1>1. DInit => Inv
  <2> SUFFICES ASSUME DInit PROVE Inv
    OBVIOUS
  <2>1. \A t \in Threads : th[t].pc \in {"idle", "loop"}
    BY DEF DInit, Init, Rest
  <2>2. OneReconcilePerKey
    BY <2>1 DEF DInit, Init, OneReconcilePerKey, InReconcile
  <2>3. \A t \in Threads : Frugal(t)
    BY <2>1 DEF Frugal, InReconcile
  <2>4. ASSUME NEW n \in RSNames PROVE Cardinality(Owned(n)) <= cap[n]
    <3>1. Owned(n) = {} /\ cap[n] = 0
      BY NoOwnerAssumption DEF DInit, Init, Owned
    <3> QED
      BY <3>1, FS_EmptySet
  <2>5. todo = {} /\ \A n \in RSNames : ~Stored(n)
    BY DEF DInit, Init, Stored
  <2> QED
    BY <2>2, <2>3, <2>4, <2>5, DInitInv DEF Provision, NoOverProvision
<1>2. Inv /\ [DNext]_allVars => Inv'
  <2> SUFFICES ASSUME Inv, [DNext]_allVars PROVE Inv'
    OBVIOUS
  <2>1. DInv' /\ OneReconcilePerKey'
    BY DInvStep, RSMutexStep
  <2>2. TypeOK /\ TypeOK' /\ ControlOK
    BY <2>1 DEF DInv, DTypeOK
  <2>3. Provision'
    BY <2>2, StepIsRS, ProvisionStep, CalledProvision
  <2> QED
    BY <2>1, <2>3
<1>3. Inv => PodsBounded
    BY DEF PodsBounded, Provision
<1> HIDE DEF Inv
<1> QED
    BY <1>1, <1>2, <1>3, PTL DEF DSpec

-----------------------------------------------------------------------------
(* Both controllers together do to the pods what Provisioning says: a call *)
(* of OnReplicaSetCreated plans nothing, it only comes to a reconcile.     *)
DRInv == DInv /\ RInv

LEMMA DRInvInit == DInit => DRInv /\ PVP!Init
<1>1. DInit => Init
    BY DEF DInit
<1> QED
    BY <1>1, DInitInv, RInvInit, PlansInit DEF DRInv

LEMMA CalledMoved ==
    ASSUME RInv, NEW t \in Handlers, Called(t)
    PROVE  t \in Threads /\ Moved(t) /\ \A m : ~Plans(t, m) /\ ~Plans(t, m)'
<1>1. t \in Threads
    BY DEF Threads
<1>2. th[t].left = 0 /\ th[t].counted = {} /\ th[t].victims = {}
    BY <1>1 DEF Called, RInv, Carried, Tidy
<1>3. th'[t].left = 0 /\ th'[t].counted = {} /\ th'[t].victims = {}
    BY <1>2 DEF Called
<1>4. Moved(t)
    BY <1>1, <1>3, Unloaded DEF Called, Moved, Tidy
<1>5. th[t].pc \notin PlanPcs /\ th'[t].pc \notin PlanPcs
    BY DEF Called, PlanPcs
<1> QED
    BY <1>1, <1>4, <1>5, Idles

LEMMA DRStep ==
    ASSUME DRInv, [DNext]_allVars
    PROVE  DRInv'
<1>1. DInv'
    BY DInvStep DEF DRInv
<1>2. CASE [Next]_vars
    BY <1>1, <1>2, RStep DEF DRInv
<1>3. ASSUME NEW t \in Handlers, Called(t) PROVE DRInv'
  <2>1. TypeOK' /\ ControlOK' /\ OneReconcilePerKey'
    BY RSTypeStep, RSMutexStep DEF DRInv, RInv
  <2>2. pods' = pods /\ t \in Threads /\ Moved(t)
    BY <1>3, CalledMoved DEF Called, DRInv
  <2>3. Carried'
    BY <2>2, CarriedKept DEF DRInv
  <2> QED
    BY <1>1, <2>1, <2>3 DEF DRInv, RInv
<1> QED
    BY <1>2, <1>3, StepIsRS DEF DRInv

LEMMA DRefineStep ==
    ASSUME \E ns : Namespaces = {ns}, DRInv, DRInv', [DNext]_allVars
    PROVE  [PVP!Next]_(PVP!pVars)
<1>1. CASE [Next]_vars
    BY <1>1, RefineStep DEF DRInv
<1>2. ASSUME NEW t \in Handlers, Called(t) PROVE UNCHANGED PVP!pVars
  <2>1. pods' = pods /\ calm' = calm /\ t \in Threads
    BY <1>2, CalledMoved DEF Called, DRInv
  <2>2. OneThread(t) /\ \A m : ~Plans(t, m) /\ ~Plans(t, m)'
    BY <1>2, CalledMoved DEF Called, DRInv
  <2> QED
    BY <2>1, <2>2, QuietPlans DEF DRInv
<1> QED
    BY <1>1, <1>2, StepIsRS DEF DRInv

LEMMA DRefines ==
    ASSUME \E ns : Namespaces = {ns}
    PROVE  DSpec => PVP!Spec
<1>1. DInit => DRInv /\ PVP!Init
    BY DRInvInit
<1>2. DRInv /\ [DNext]_allVars => DRInv'
    BY DRStep
<1>3. DRInv /\ DRInv' /\ [DNext]_allVars => [PVP!Next]_(PVP!pVars)
    BY DRefineStep
<1> QED
    BY <1>1, <1>2, <1>3, PTL DEF DSpec, PVP!Spec

(* In a single namespace the two controllers, their loops and handlers     *)
(* together, keep to Provisioning: what the Deployment controller asks for *)
(* makes nobody plan beside a reconcile that is under way.                 *)
THEOREM DeploymentsProvision ==
    ASSUME \E ns : Namespaces = {ns}
    PROVE  DSpec => ImplementsProvisioning
BY DRefines, SameSpec, PTL DEF ImplementsProvisioning

(* And so a reconcile the Deployment controller asked for, with a single   *)
(* replica or with stale ones, still ends with what its copy asks for.     *)
THEOREM DeploymentScales ==
    ASSUME \E ns : Namespaces = {ns}
    PROVE  DSpec => []ScalesAsAsked
<1>1. DInit => DRInv
    BY DRInvInit
<1>2. DRInv /\ [DNext]_allVars => DRInv'
    BY DRStep
<1>3. PVP!Spec => []PVP!Balanced
    BY ProvisionConstants, PVP!PlansBalanced
<1>4. DRInv /\ PVP!Balanced => ScalesAsAsked
    BY BalancedScales DEF DRInv
<1> QED
    BY <1>1, <1>2, <1>3, <1>4, DRefines, PTL DEF DSpec

-----------------------------------------------------------------------------
(* The spec a status update writes back, with the Deployment controller    *)
(* writing specs beside it: what it writes was not stored, or is scaled.   *)
LEMMA CalledFaithful ==
    ASSUME DInv, NEW n \in RSNames, Faithful(n), ~Overtaken(n),
           NEW t \in Handlers, Called(t)
    PROVE  Faithful(n)'
<1>1. t \in Threads /\ OneThread(t) /\ th'[t].pc # "putRS" /\ TypeOK
    BY DEF Threads, Called, DInv, DTypeOK
<1>2. CASE rs'[n] = rs[n]
    BY <1>1, <1>2, FaithfulKept
<1>3. CASE rs'[n] # rs[n]
  <2>1. \A u \in Threads : ~Updates(u, n)
    BY <1>3 DEF Called, Overtaken
  <2>2. \A u \in Threads : u # t => th'[u] = th[u]
    BY <1>1 DEF OneThread, TypeOK
  <2>3. \A u \in Threads : ~Updates(u, n)'
    BY <1>1, <2>1, <2>2 DEF Updates
  <2> QED
    BY <2>3 DEF Faithful
<1> QED
    BY <1>2, <1>3

LEMMA DFaithfulStep ==
    ASSUME DInv, NEW n \in RSNames, Faithful(n), ~Overtaken(n), [DNext]_allVars
    PROVE  Faithful(n)'
<1>1. TypeOK /\ ControlOK /\ (Stored(n) \/ \A u \in Threads : ~Updates(u, n))
    BY DEF DInv, DTypeOK, Overtaken
<1> QED
    BY <1>1, StepIsRS, FaithfulStep, CalledFaithful

LEMMA NameFaithful ==
    ASSUME NEW n \in RSNames
    PROVE  DSpec => ([]~Overtaken(n) => []Faithful(n))
<1>1. DInit => DInv /\ Faithful(n)
  <2>1. DInit => Faithful(n)
    BY DEF DInit, Init, Faithful, Stored
  <2> QED
    BY <2>1, DInitInv
<1>2. DInv /\ [DNext]_allVars => DInv'
    BY DInvStep
<1>3. DInv /\ Faithful(n) /\ ~Overtaken(n) /\ [DNext]_allVars => Faithful(n)'
    BY DFaithfulStep
<1> QED
    BY <1>1, <1>2, <1>3, PTL DEF DSpec

(* A status update writes back the spec that is stored, unless between its *)
(* get and its update the ReplicaSet was deleted, or somebody else was in  *)
(* updateReplicaSetReplicas for it: with both controllers and any number   *)
(* of handlers, names and namespaces, no other order of steps loses one.   *)
THEOREM OnlyOvertakingLosesSpec == DSpec => SpecLostOnlyByOvertaking
<1>1. \A n \in RSNames : DSpec => ([]~Overtaken(n) => []Faithful(n))
    BY NameFaithful
<1> QED
    BY <1>1 DEF SpecLostOnlyByOvertaking, Faithful
=============================================================================
