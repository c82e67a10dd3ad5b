-------------------- MODULE ReplicaSetControllerProofs --------------------
(* Invariants of ReplicaSetController, proved for any number of            *)
(* ReplicaSets, pods, request goroutines and replicas.                     *)
EXTENDS ReplicaSetController, FiniteSetTheorems, TLAPS

(* Counts of pods are numbers between 0 and the number of pod names.       *)
LEMMA CountType ==
    ASSUME NEW S \in SUBSET PodIds
    PROVE  /\ IsFiniteSet(S)
           /\ Cardinality(S) \in 0..Cardinality(PodIds)
<1>1. IsFiniteSet(S) /\ Cardinality(S) <= Cardinality(PodIds)
    BY PodIdsAssumption, FS_Subset
<1> QED
    BY <1>1, PodIdsAssumption, FS_CardinalityType

LEMMA TypeInit == Init => TypeOK
<1> SUFFICES ASSUME Init PROVE TypeOK
    OBVIOUS
<1>1. Rest \in ThreadStates /\ [Rest EXCEPT !.pc = "loop"] \in ThreadStates
    BY BoundsAssumption DEF Rest, ThreadStates, Pcs
<1>2. th \in [Threads -> ThreadStates]
    BY <1>1 DEF Init
<1>3. used \in [posts : 0..MaxPosts, kills : 0..MaxKills, clashes : 0..MaxClashes]
    BY BoundsAssumption DEF Init
<1>4. cap \in [RSNames -> 0..MaxReplicas]
    BY BoundsAssumption DEF Init
<1> QED
    BY <1>2, <1>3, <1>4 DEF Init, TypeOK

(* What Scale leaves in the thread that decides how to scale.              *)
LEMMA ScaleFields ==
    ASSUME TypeOK, NEW t \in Threads, th[t].arg \in Copies, Scale(t)
    PROVE  LET desired == th[t].arg.replicas
               current == Cardinality(th[t].counted)
           IN  /\ th' = [th EXCEPT ![t] = th'[t]]
               /\ th'[t] \in ThreadStates
               /\ th'[t].pc \in {"create", "delete", "exit"}
               /\ th'[t].arg = th[t].arg
               /\ th'[t].pc = "create" => /\ current < desired
                                          /\ th'[t].left = desired - current
<1> DEFINE desired == th[t].arg.replicas
           current == Cardinality(th[t].counted)
<1>1. /\ th[t].counted \in SUBSET PodIds /\ current \in Nat /\ desired \in 0..MaxReplicas
    BY CountType DEF TypeOK, ThreadStates, Copies
<1>2. PICK victims \in Surplus(desired, th[t].counted) :
        th' = [th EXCEPT ![t] =
                  [pc |-> IF current < desired THEN "create"
                          ELSE IF current > desired THEN "delete" ELSE "exit",
                   arg |-> th[t].arg, counted |-> {}, read |-> NoRS,
                   left |-> Missing(desired, current), victims |-> victims]]
    BY DEF Scale
<1>3. victims \in SUBSET PodIds
    BY <1>1, <1>2 DEF Surplus, kSubset
<1>4. /\ Missing(desired, current) \in 0..MaxReplicas
      /\ current < desired => Missing(desired, current) = desired - current
    BY <1>1, BoundsAssumption DEF Missing
<1> DEFINE next == IF current < desired THEN "create"
                   ELSE IF current > desired THEN "delete" ELSE "exit"
           state == [pc |-> next, arg |-> th[t].arg, counted |-> {}, read |-> NoRS,
                     left |-> Missing(desired, current), victims |-> victims]
<1>5. th' = [th EXCEPT ![t] = state]
    BY <1>2
<1>6. next \in {"create", "delete", "exit"} /\ (next = "create" => current < desired)
    OBVIOUS
<1>7. th'[t] = state
    BY <1>5 DEF TypeOK
<1> HIDE DEF next
<1>8. state \in ThreadStates
    BY <1>3, <1>4, <1>6 DEF ThreadStates, Pcs
<1> QED
  <2>1. state.pc = next /\ state.arg = th[t].arg /\ state.left = Missing(desired, current)
    OBVIOUS
  <2> QED
    BY <1>4, <1>5, <1>6, <1>7, <1>8, <2>1

(* Control facts the types rest on: a goroutine at work has a copy to work *)
(* on, a spec to write back has been read, a round to go is counted.       *)
Busy(x) == x.pc \notin {"idle", "loop", "exited"}
Controlled(x) == /\ Busy(x) => x.arg \in Copies
                 /\ x.pc = "putRS" => x.read \in RSRecords
                 /\ x.pc = "create" => x.left > 0
ControlOK == \A t \in Threads : Controlled(th[t])

(* Every step of a goroutine changes that goroutine alone, and leaves it   *)
(* in a well-typed, controlled state.                                      *)
OneThread(t) == /\ th' = [th EXCEPT ![t] = th'[t]]
                /\ th'[t] \in ThreadStates
                /\ Controlled(th'[t])

LEMMA EnterThread ==
    ASSUME TypeOK, ControlOK, NEW t \in Threads, Enter(t)
    PROVE  /\ OneThread(t)
           /\ th[t].arg \in Copies
           /\ \/ reconciling' = reconciling /\ ~Busy(th'[t])
              \/ /\ Key(th[t].arg) \notin reconciling
                 /\ reconciling' = reconciling \cup {Key(th[t].arg)}
                 /\ th'[t].pc = "count" /\ th'[t].arg = th[t].arg
<1>1. th[t].arg \in Copies /\ th[t] \in ThreadStates
    BY DEF Enter, ControlOK, Controlled, Busy, TypeOK
<1>2. CASE Held(Key(th[t].arg))
  <2>1. th' = [th EXCEPT ![t] = Return(t)] /\ reconciling' = reconciling
    BY <1>2 DEF Enter
  <2>2. Return(t) \in ThreadStates /\ Return(t).pc \in {"loop", "idle"}
    BY BoundsAssumption DEF Return, Rest, ThreadStates, Pcs
  <2>3. th'[t] = Return(t)
    BY <2>1 DEF TypeOK
  <2> QED
    BY <1>1, <2>1, <2>2, <2>3 DEF OneThread, Controlled, Busy
<1>3. CASE ~Held(Key(th[t].arg))
  <2>1. th' = [th EXCEPT ![t] = [th[t] EXCEPT !.pc = "count"]]
        /\ reconciling' = reconciling \cup {Key(th[t].arg)}
    BY <1>3 DEF Enter, TypeOK
  <2>2. [th[t] EXCEPT !.pc = "count"] \in ThreadStates
        /\ [th[t] EXCEPT !.pc = "count"].arg = th[t].arg
        /\ [th[t] EXCEPT !.pc = "count"].pc = "count"
    BY <1>1 DEF ThreadStates, Pcs
  <2>3. th'[t] = [th[t] EXCEPT !.pc = "count"]
    BY <2>1 DEF TypeOK
  <2> QED
    BY <1>1, <1>3, <2>1, <2>2, <2>3 DEF OneThread, Controlled, Held
<1> QED
    BY <1>2, <1>3

LEMMA CountThread ==
    ASSUME TypeOK, ControlOK, NEW t \in Threads, Count(t)
    PROVE  /\ OneThread(t)
           /\ th'[t].pc = "getRS" /\ th'[t].arg = th[t].arg
           /\ th'[t].counted = Owned(th[t].arg.name)
<1> DEFINE x == [th[t] EXCEPT !.pc = "getRS", !.counted = Owned(th[t].arg.name)]
<1>1. th[t].arg \in Copies /\ th[t] \in ThreadStates
    BY DEF Count, ControlOK, Controlled, Busy, TypeOK
<1>2. th' = [th EXCEPT ![t] = x] /\ th'[t] = x
    BY DEF Count, TypeOK
<1>3. /\ x \in ThreadStates /\ x.pc = "getRS" /\ x.arg = th[t].arg
      /\ x.counted = Owned(th[t].arg.name)
    BY <1>1 DEF ThreadStates, Pcs, Owned
<1> QED
    BY <1>1, <1>2, <1>3 DEF OneThread, Controlled

LEMMA ScaleThread ==
    ASSUME TypeOK, NEW t \in Threads, th[t].arg \in Copies, Scale(t)
    PROVE  OneThread(t) /\ th'[t].arg = th[t].arg
<1>1. Cardinality(th[t].counted) \in Nat /\ th[t].arg.replicas \in Nat
    BY CountType, BoundsAssumption DEF TypeOK, ThreadStates, Copies
<1> QED
    BY <1>1, ScaleFields DEF OneThread, Controlled

LEMMA GetRSThread ==
    ASSUME TypeOK, ControlOK, NEW t \in Threads, GetRS(t)
    PROVE  /\ OneThread(t)
           /\ th'[t].arg = th[t].arg
           /\ \/ /\ th'[t].pc = "putRS" /\ th'[t].counted = th[t].counted
                 /\ th'[t].read = rs[th[t].arg.name] /\ Stored(th[t].arg.name)
              \/ Scale(t)
<1> DEFINE n == th[t].arg.name
           x == [th[t] EXCEPT !.pc = "putRS", !.read = rs[n]]
<1>1. th[t].arg \in Copies /\ th[t] \in ThreadStates /\ n \in RSNames
    BY DEF GetRS, ControlOK, Controlled, Busy, TypeOK, Copies
<1>2. CASE Stored(n)
  <2>1. th' = [th EXCEPT ![t] = x] /\ th'[t] = x
    BY <1>2 DEF GetRS, FromStore, TypeOK
  <2>2. rs[n] \in RSRecords
    BY <1>1, <1>2 DEF TypeOK, Stored
  <2>3. /\ x \in ThreadStates /\ x.pc = "putRS" /\ x.arg = th[t].arg
        /\ x.read = rs[n] /\ x.counted = th[t].counted
    BY <1>1, <2>2 DEF ThreadStates, Pcs
  <2> QED
    BY <1>1, <1>2, <2>1, <2>2, <2>3 DEF OneThread, Controlled
<1>3. CASE ~Stored(n)
  <2>1. Scale(t)
    BY <1>3 DEF GetRS
  <2> QED
    BY <1>1, <2>1, ScaleThread
<1> QED
    BY <1>2, <1>3

LEMMA PutRSThread ==
    ASSUME TypeOK, ControlOK, NEW t \in Threads, PutRS(t)
    PROVE  /\ OneThread(t)
           /\ th[t].arg \in Copies
           /\ th'[t].arg = th[t].arg
           /\ Scale(t)
           /\ WithStatus(t) \in RSRecords
           /\ WithStatus(t).replicas = th[t].read.replicas
           /\ rs' = IF Stored(th[t].arg.name)
                    THEN [rs EXCEPT ![th[t].arg.name] = WithStatus(t)] ELSE rs
<1>1. th[t].arg \in Copies /\ th[t].read \in RSRecords /\ th[t] \in ThreadStates
    BY DEF PutRS, ControlOK, Controlled, Busy, TypeOK
<1>2. Cardinality(th[t].counted) \in -1..Cardinality(PodIds)
    BY <1>1, CountType, PodIdsAssumption, FS_CardinalityType DEF ThreadStates
<1>3. WithStatus(t) \in RSRecords /\ WithStatus(t).replicas = th[t].read.replicas
    BY <1>1, <1>2 DEF WithStatus, RSRecords, Copies
<1>4. Scale(t)
    BY DEF PutRS
<1> QED
    BY <1>1, <1>3, <1>4, ScaleThread DEF PutRS

LEMMA CreateRoundThread ==
    ASSUME TypeOK, ControlOK, NEW t \in Threads, th[t].pc = "create", CreateRound(t)
    PROVE  /\ OneThread(t)
           /\ th[t].arg \in Copies
           /\ th'[t].arg = th[t].arg
           /\ th'[t].pc \in {"create", "exit"}
           /\ th'[t].left = th[t].left - 1
<1> DEFINE left == th[t].left - 1
           next == IF left = 0 THEN "exit" ELSE "create"
           x == [th[t] EXCEPT !.left = left, !.pc = next]
<1>1. th[t].arg \in Copies /\ th[t].left > 0 /\ th[t] \in ThreadStates
    BY DEF ControlOK, Controlled, Busy, TypeOK
<1>2. left \in 0..MaxReplicas /\ next \in {"create", "exit"} /\ (next = "create" => left > 0)
    BY <1>1, BoundsAssumption DEF ThreadStates
<1>3. th' = [th EXCEPT ![t] = x] /\ th'[t] = x
    BY DEF CreateRound, TypeOK
<1> HIDE DEF left, next
<1>4. x \in ThreadStates /\ x.pc = next /\ x.arg = th[t].arg /\ x.left = left
    BY <1>1, <1>2 DEF ThreadStates, Pcs
<1>5. OneThread(t)
    BY <1>1, <1>2, <1>3, <1>4 DEF OneThread, Controlled
<1> QED
    BY <1>1, <1>2, <1>3, <1>4, <1>5 DEF left

LEMMA DeleteRoundThread ==
    ASSUME TypeOK, ControlOK, NEW t \in Threads, th[t].pc \in {"delete", "dPods"},
           NEW next \in {"exit", "dRS"}, DeleteRound(t, next)
    PROVE  /\ OneThread(t)
           /\ th[t].arg \in Copies
           /\ th'[t].arg = th[t].arg
           /\ th'[t].pc \in {th[t].pc, next}
           /\ pods' \in [PodIds -> RSNames \cup {NoOwner}]
           /\ \A p \in PodIds : pods'[p] \in {pods[p], NoOwner}
<1>1. th[t].arg \in Copies /\ th[t] \in ThreadStates /\ th[t].victims \in SUBSET PodIds
    BY DEF ControlOK, Controlled, Busy, TypeOK, ThreadStates
<1>2. PICK p \in th[t].victims :
        /\ pods' = [pods EXCEPT ![p] = NoOwner]
        /\ th' = [th EXCEPT ![t] = [@ EXCEPT !.victims = th[t].victims \ {p},
                                             !.pc = IF th[t].victims \ {p} = {} THEN next
                                                    ELSE th[t].pc]]
    BY DEF DeleteRound
<1> DEFINE rest == th[t].victims \ {p}
           pc == IF rest = {} THEN next ELSE th[t].pc
           x == [th[t] EXCEPT !.victims = rest, !.pc = pc]
<1>3. rest \in SUBSET PodIds /\ pc \in {th[t].pc, next} /\ pc \in {"delete", "dPods", "exit", "dRS"}
    BY <1>1
<1>4. th' = [th EXCEPT ![t] = x] /\ th'[t] = x
    BY <1>2 DEF TypeOK
<1> HIDE DEF rest, pc
<1>5. x \in ThreadStates /\ x.pc = pc /\ x.arg = th[t].arg
    BY <1>1, <1>3 DEF ThreadStates, Pcs
<1>6. OneThread(t)
    BY <1>1, <1>3, <1>4, <1>5 DEF OneThread, Controlled
<1>7. /\ pods' \in [PodIds -> RSNames \cup {NoOwner}]
      /\ \A q \in PodIds : pods'[q] \in {pods[q], NoOwner}
    BY <1>1, <1>2 DEF TypeOK
<1> QED
    BY <1>1, <1>3, <1>4, <1>5, <1>6, <1>7

LEMMA ExitThread ==
    ASSUME TypeOK, ControlOK, NEW t \in Threads, Exit(t)
    PROVE  /\ OneThread(t)
           /\ th[t].arg \in Copies
           /\ ~Busy(th'[t])
           /\ reconciling' = reconciling \ {Key(th[t].arg)}
<1>1. Return(t) \in ThreadStates /\ Return(t).pc \in {"loop", "idle"}
    BY BoundsAssumption DEF Return, Rest, ThreadStates, Pcs
<1>2. th' = [th EXCEPT ![t] = Return(t)] /\ th'[t] = Return(t)
    BY DEF Exit, TypeOK
<1> QED
    BY <1>1, <1>2 DEF Exit, ReleasedKeys, OneThread, Controlled, Busy, ControlOK

LEMMA CallThread ==
    ASSUME TypeOK, NEW t \in Threads, NEW a \in Copies, NEW pc \in {"enter", "dList"},
           th' = [th EXCEPT ![t] = [@ EXCEPT !.pc = pc, !.arg = a]]
    PROVE  OneThread(t) /\ th'[t].pc = pc /\ th'[t].arg = a
<1> DEFINE x == [th[t] EXCEPT !.pc = pc, !.arg = a]
<1>1. th[t] \in ThreadStates
    BY DEF TypeOK
<1>2. th' = [th EXCEPT ![t] = x] /\ th'[t] = x
    BY DEF TypeOK
<1>3. x \in ThreadStates /\ x.pc = pc /\ x.arg = a
    BY <1>1 DEF ThreadStates, Pcs
<1> QED
    BY <1>2, <1>3 DEF OneThread, Controlled

LEMMA DeleteListThread ==
    ASSUME TypeOK, ControlOK, NEW t \in Threads, DeleteList(t)
    PROVE  OneThread(t) /\ th'[t].pc \in {"dRS", "dPods"}
<1> DEFINE victims == Owned(th[t].arg.name)
           pc == IF victims = {} THEN "dRS" ELSE "dPods"
           x == [th[t] EXCEPT !.pc = pc, !.victims = victims]
<1>1. th[t].arg \in Copies /\ th[t] \in ThreadStates
    BY DEF DeleteList, ControlOK, Controlled, Busy, TypeOK
<1>2. th' = [th EXCEPT ![t] = x] /\ th'[t] = x
    BY DEF DeleteList, TypeOK
<1>3. victims \in SUBSET PodIds /\ pc \in {"dRS", "dPods"}
    BY DEF Owned
<1> HIDE DEF victims, pc
<1>4. x \in ThreadStates /\ x.pc = pc /\ x.arg = th[t].arg
    BY <1>1, <1>3 DEF ThreadStates, Pcs
<1> QED
    BY <1>1, <1>2, <1>3, <1>4 DEF OneThread, Controlled

-----------------------------------------------------------------------------
(* Types and control, together.                                            *)
LEMMA ThreadsStep ==
    ASSUME TypeOK, ControlOK,
           th' = th \/ \E t \in Threads : OneThread(t)
    PROVE  th' \in [Threads -> ThreadStates] /\ ControlOK'
<1>1. CASE th' = th
    BY <1>1 DEF TypeOK, ControlOK
<1>2. ASSUME NEW t \in Threads, OneThread(t)
      PROVE  th' \in [Threads -> ThreadStates] /\ ControlOK'
    BY <1>2 DEF TypeOK, ControlOK, OneThread
<1> QED
    BY <1>1, <1>2

(* Every step either leaves the goroutines alone or moves one of them.     *)
LEMMA StepThreads ==
    ASSUME TypeOK, ControlOK, [Next]_vars
    PROVE  th' = th \/ \E t \in Threads : OneThread(t)
<1>1. ASSUME NEW t \in Threads, ReconcileStep(t) PROVE OneThread(t)
  <2>1. CASE DeletePod(t)
    BY <2>1, DeleteRoundThread DEF DeletePod
  <2>2. CASE CreatePod(t) \/ CreateClash(t)
    BY <2>2, CreateRoundThread DEF CreatePod, CreateClash
  <2> QED
    BY <1>1, <2>1, <2>2, EnterThread, CountThread, GetRSThread, PutRSThread, ExitThread
    DEF ReconcileStep
<1>2. ASSUME NEW t \in Handlers, Request(t) PROVE OneThread(t)
  <2>1. ASSUME NEW a \in Copies, PostRS(t, a) PROVE OneThread(t)
    BY <2>1, CallThread DEF PostRS, Threads
  <2>2. ASSUME NEW n \in RSNames, NEW ns \in Namespaces, DeleteRS(t, n, ns)
        PROVE  OneThread(t)
    <3>1. [name |-> n, ns |-> ns, replicas |-> 0] \in Copies
      BY BoundsAssumption DEF Copies
    <3> QED
      BY <2>2, <3>1, CallThread DEF DeleteRS, Threads
  <2> QED
    BY <1>2, <2>1, <2>2 DEF Request
<1>3. ASSUME NEW t \in Handlers, HandlerStep(t) PROVE OneThread(t)
  <2>1. t \in Threads
    BY DEF Threads
  <2>2. CASE DeletePods(t)
    BY <2>1, <2>2, DeleteRoundThread DEF DeletePods
  <2>3. CASE DeleteStored(t)
    <3>1. Rest \in ThreadStates /\ Rest.pc = "idle"
      BY BoundsAssumption DEF Rest, ThreadStates, Pcs
    <3>2. th' = [th EXCEPT ![t] = Rest] /\ th'[t] = Rest
      BY <2>1, <2>3 DEF DeleteStored, TypeOK
    <3> QED
      BY <3>1, <3>2 DEF OneThread, Controlled, Busy
  <2> QED
    BY <1>3, <2>1, <2>2, <2>3, DeleteListThread DEF HandlerStep
<1>4. ASSUME LoopNext PROVE OneThread(Loop)
  <2>1. PICK a \in todo : th' = [th EXCEPT ![Loop] = [@ EXCEPT !.pc = "enter", !.arg = a]]
    BY <1>4 DEF LoopNext
  <2> QED
    BY <2>1, CallThread DEF TypeOK, Threads
<1>5. ASSUME LoopExit PROVE OneThread(Loop)
  <2> DEFINE x == [th[Loop] EXCEPT !.pc = "exited"]
  <2>1. Loop \in Threads /\ th[Loop] \in ThreadStates
    BY DEF Threads, TypeOK
  <2>2. th' = [th EXCEPT ![Loop] = x] /\ th'[Loop] = x
    BY <1>5, <2>1 DEF LoopExit, TypeOK
  <2>3. x \in ThreadStates /\ x.pc = "exited"
    BY <2>1 DEF ThreadStates, Pcs
  <2> QED
    BY <2>2, <2>3 DEF OneThread, Controlled, Busy
<1>6. CASE (\E p \in PodIds : KillPod(p)) \/ Tick \/ Stop \/ UNCHANGED vars
    BY <1>6 DEF KillPod, Tick, Stop, vars
<1>7. Loop \in Threads /\ Handlers \subseteq Threads
    BY DEF Threads
<1> QED
    BY <1>1, <1>2, <1>3, <1>4, <1>5, <1>6, <1>7 DEF Next

LEMMA CalmStep ==
    ASSUME TypeOK, ControlOK, [Next]_vars
    PROVE  calm' \subseteq RSNames
<1>1. ASSUME NEW t \in Threads, ReconcileStep(t) PROVE calm' \subseteq RSNames
  <2>1. CASE Count(t)
    <3>1. th[t].arg.name \in RSNames
      BY <2>1 DEF Count, ControlOK, Controlled, Busy, Copies
    <3> QED
      BY <2>1, <3>1 DEF Count, TypeOK
  <2>2. CASE CreateClash(t) \/ Exit(t)
    BY <2>2 DEF CreateClash, Exit, TypeOK
  <2>3. CASE Enter(t) \/ GetRS(t) \/ PutRS(t) \/ CreatePod(t) \/ DeletePod(t)
    BY <2>3 DEF Enter, GetRS, PutRS, CreatePod, DeletePod, TypeOK
  <2> QED
    BY <1>1, <2>1, <2>2, <2>3 DEF ReconcileStep
<1>2. CASE (\E t \in Handlers : DeletePods(t)) \/ \E p \in PodIds : KillPod(p)
    BY <1>2 DEF DeletePods, KillPod, Disturbed, TypeOK
<1>3. ASSUME NEW t \in Handlers, Request(t) \/ DeleteList(t) \/ DeleteStored(t)
      PROVE  calm' \subseteq RSNames
    BY <1>3 DEF Request, PostRS, DeleteRS, DeleteList, DeleteStored, TypeOK
<1>4. CASE Tick \/ LoopNext \/ Stop \/ LoopExit \/ UNCHANGED vars
    BY <1>4 DEF Tick, LoopNext, Stop, LoopExit, vars, TypeOK
<1> QED
    BY <1>1, <1>2, <1>3, <1>4 DEF Next, HandlerStep

LEMMA TypeStep == TypeOK /\ ControlOK /\ [Next]_vars => TypeOK' /\ ControlOK'
<1> SUFFICES ASSUME TypeOK, ControlOK, [Next]_vars PROVE TypeOK' /\ ControlOK'
    OBVIOUS
<1>1. th' \in [Threads -> ThreadStates] /\ ControlOK'
    BY StepThreads, ThreadsStep
<1> DEFINE Others == /\ rs' \in [RSNames -> RSRecords \cup {NoRS}]
                     /\ pods' \in [PodIds -> RSNames \cup {NoOwner}]
                     /\ reconciling' \subseteq Keys
                     /\ todo' \subseteq Copies
                     /\ stopped' \in BOOLEAN
                     /\ used' \in [posts : 0..MaxPosts, kills : 0..MaxKills,
                                   clashes : 0..MaxClashes]
                     /\ cap' \in [RSNames -> 0..MaxReplicas]
<1>2. ASSUME NEW t \in Threads, ReconcileStep(t) PROVE Others
  <2>1. CASE Enter(t)
    <3>1. Key(th[t].arg) \in Keys
      BY <2>1, EnterThread DEF Key, Keys, Copies
    <3> QED
      BY <2>1, <3>1, EnterThread DEF Enter, TypeOK
  <2>2. CASE Count(t) \/ GetRS(t)
    BY <2>2 DEF Count, GetRS, TypeOK
  <2>3. CASE PutRS(t)
    BY <2>3, PutRSThread DEF PutRS, TypeOK, Copies
  <2>4. CASE CreatePod(t)
    <3>1. th[t].arg.name \in RSNames
      BY <2>4 DEF CreatePod, ControlOK, Controlled, Busy, Copies
    <3> QED
      BY <2>4, <3>1 DEF CreatePod, TypeOK
  <2>5. CASE CreateClash(t)
    BY <2>5, BoundsAssumption DEF CreateClash, TypeOK
  <2>6. CASE DeletePod(t)
    BY <2>6, DeleteRoundThread DEF DeletePod, TypeOK
  <2>7. CASE Exit(t)
    BY <2>7, ExitThread DEF Exit, TypeOK
  <2> QED
    BY <1>2, <2>1, <2>2, <2>3, <2>4, <2>5, <2>6, <2>7 DEF ReconcileStep
<1>3. ASSUME NEW t \in Handlers, NEW a \in Copies, PostRS(t, a) PROVE Others
  <2>1. [ns |-> a.ns, replicas |-> a.replicas, status |-> -1] \in RSRecords
    BY PodIdsAssumption, FS_CardinalityType DEF Copies, RSRecords
  <2>2. a.name \in RSNames /\ a.replicas \in 0..MaxReplicas
    BY DEF Copies
  <2>3. Larger(cap[a.name], a.replicas) \in 0..MaxReplicas
    BY <2>2 DEF Larger, TypeOK
  <2>4. used' \in [posts : 0..MaxPosts, kills : 0..MaxKills, clashes : 0..MaxClashes]
    BY <1>3, BoundsAssumption DEF PostRS, TypeOK
  <2>5. cap' \in [RSNames -> 0..MaxReplicas]
    BY <1>3, <2>2, <2>3 DEF PostRS, TypeOK
  <2>6. rs' \in [RSNames -> RSRecords \cup {NoRS}]
    BY <1>3, <2>1, <2>2 DEF PostRS, TypeOK
  <2> QED
    BY <1>3, <2>4, <2>5, <2>6 DEF PostRS, TypeOK
<1>4. ASSUME NEW t \in Handlers, HandlerStep(t) PROVE Others
  <2>1. t \in Threads
    BY DEF Threads
  <2>2. CASE DeleteList(t)
    BY <2>2 DEF DeleteList, TypeOK
  <2>3. CASE DeletePods(t)
    BY <2>1, <2>3, DeleteRoundThread DEF DeletePods, TypeOK
  <2>4. CASE DeleteStored(t)
    BY <2>4 DEF DeleteStored, TypeOK
  <2> QED
    BY <1>4, <2>2, <2>3, <2>4 DEF HandlerStep
<1>5. ASSUME NEW p \in PodIds, KillPod(p) PROVE Others
  <2>1. used' \in [posts : 0..MaxPosts, kills : 0..MaxKills, clashes : 0..MaxClashes]
    BY <1>5, BoundsAssumption DEF KillPod, TypeOK
  <2> QED
    BY <1>5, <2>1 DEF KillPod, TypeOK
<1>6. ASSUME Tick PROVE Others
  <2>1. ASSUME NEW n \in RSNames, Stored(n) PROVE CopyOf(n) \in Copies
    BY <2>1 DEF CopyOf, Copies, Stored, TypeOK, RSRecords
  <2> QED
    BY <1>6, <2>1 DEF Tick, TypeOK
<1>7. ASSUME \/ LoopNext \/ Stop \/ LoopExit \/ UNCHANGED vars
             \/ \E t \in Handlers, n \in RSNames, ns \in Namespaces : DeleteRS(t, n, ns)
      PROVE  Others
    BY <1>7 DEF LoopNext, Stop, LoopExit, DeleteRS, vars, TypeOK
<1> HIDE DEF Others
<1>8. Others
    BY <1>2, <1>3, <1>4, <1>5, <1>6, <1>7 DEF Next, Request
<1> QED
    BY <1>1, <1>8, CalmStep DEF Others, TypeOK

LEMMA ControlInit == Init => ControlOK
    BY DEF Init, ControlOK, Controlled, Busy, Rest

(* The variables keep their types: no goroutine works without a copy of a  *)
(* ReplicaSet, writes back what it never read, or creates a negative       *)
(* number of pods.                                                         *)
THEOREM TypeCorrect == Spec => []TypeOK
<1>1. Init => TypeOK /\ ControlOK
    BY TypeInit, ControlInit
<1>2. (TypeOK /\ ControlOK) /\ [Next]_vars => (TypeOK /\ ControlOK)'
    BY TypeStep
<1> QED
    BY <1>1, <1>2, PTL DEF Spec

-----------------------------------------------------------------------------
(* Mutual exclusion of the reconciles of a key.                            *)

(* A step that moves no goroutine into or out of a reconcile keeps it.     *)
LEMMA MutexKept ==
    ASSUME TypeOK, OneReconcilePerKey, NEW t \in Threads, OneThread(t),
           reconciling' = reconciling, InReconcile(t)' <=> InReconcile(t),
           InReconcile(t) => th'[t].arg = th[t].arg
    PROVE  OneReconcilePerKey'
<1>1. \A u \in Threads : /\ InReconcile(u)' <=> InReconcile(u)
                         /\ InReconcile(u) => th'[u].arg = th[u].arg
    BY DEF OneThread, TypeOK, InReconcile
<1>2. {Key(th'[u].arg) : u \in {v \in Threads : InReconcile(v)'}}
        = {Key(th[u].arg) : u \in {v \in Threads : InReconcile(v)}}
    BY <1>1
<1> QED
    BY <1>1, <1>2 DEF OneReconcilePerKey

LEMMA MutexStep ==
    ASSUME TypeOK, ControlOK, OneReconcilePerKey, [Next]_vars
    PROVE  OneReconcilePerKey'
<1> USE DEF InReconcile
<1>1. ASSUME NEW t \in Threads, ReconcileStep(t) PROVE OneReconcilePerKey'
  <2>1. CASE Enter(t)
    <3>1. th[t].pc = "enter" /\ OneThread(t) /\ th[t].arg \in Copies
      BY <2>1, EnterThread DEF Enter
    <3>2. CASE reconciling' = reconciling /\ ~Busy(th'[t])
      BY <3>1, <3>2, MutexKept DEF Busy
    <3>3. CASE /\ Key(th[t].arg) \notin reconciling
               /\ reconciling' = reconciling \cup {Key(th[t].arg)}
               /\ th'[t].pc = "count" /\ th'[t].arg = th[t].arg
      <4>1. \A u \in Threads : /\ InReconcile(u)' <=> InReconcile(u) \/ u = t
                               /\ th'[u].arg = th[u].arg
        BY <3>1, <3>3 DEF OneThread, TypeOK
      <4>2. {Key(th'[u].arg) : u \in {v \in Threads : InReconcile(v)'}}
              = {Key(th[u].arg) : u \in {v \in Threads : InReconcile(v)}}
                  \cup {Key(th[t].arg)}
        BY <4>1
      <4>3. \A u \in Threads : InReconcile(u) => Key(th[u].arg) \in reconciling
        BY DEF OneReconcilePerKey
      <4>4. ASSUME NEW u \in Threads, NEW v \in Threads, InReconcile(u)', InReconcile(v)',
                   Key(th'[u].arg) = Key(th'[v].arg)
            PROVE  u = v
        <5>1. Key(th[u].arg) = Key(th[v].arg)
          BY <4>1, <4>4
        <5>2. CASE InReconcile(u) /\ InReconcile(v)
          BY <5>1, <5>2 DEF OneReconcilePerKey
        <5>3. CASE u = t \/ v = t
          BY <3>1, <3>3, <4>1, <4>3, <4>4, <5>1, <5>3
        <5> QED
          BY <4>1, <4>4, <5>2, <5>3
      <4>5. reconciling' = {Key(th'[u].arg) : u \in {v \in Threads : InReconcile(v)'}}
        BY <3>3, <4>2 DEF OneReconcilePerKey
      <4> QED
        BY <4>4, <4>5 DEF OneReconcilePerKey
    <3> QED
      BY <2>1, <3>2, <3>3, EnterThread
  <2>2. CASE Exit(t)
    <3>1. /\ th[t].pc = "exit" /\ OneThread(t) /\ ~Busy(th'[t])
          /\ reconciling' = reconciling \ {Key(th[t].arg)}
      BY <2>2, ExitThread DEF Exit
    <3>2. \A u \in Threads : /\ InReconcile(u)' <=> InReconcile(u) /\ u # t
                             /\ u # t => th'[u] = th[u]
      BY <3>1 DEF OneThread, TypeOK, Busy
    <3>3. \A u \in Threads : InReconcile(u) /\ u # t => Key(th[u].arg) # Key(th[t].arg)
      BY <3>1 DEF OneReconcilePerKey
    <3>4. {Key(th'[u].arg) : u \in {v \in Threads : InReconcile(v)'}}
            = {Key(th[u].arg) : u \in {v \in Threads : InReconcile(v)}} \ {Key(th[t].arg)}
      BY <3>2, <3>3
    <3> QED
      BY <3>1, <3>2, <3>4 DEF OneReconcilePerKey
  <2>3. CASE Count(t)
    BY <2>3, CountThread, MutexKept DEF Count
  <2>4. CASE GetRS(t)
    <3>1. th[t].pc = "getRS" /\ th[t].arg \in Copies /\ reconciling' = reconciling
      BY <2>4 DEF GetRS, ControlOK, Controlled, Busy
    <3>2. OneThread(t) /\ th'[t].arg = th[t].arg
      BY <2>4, GetRSThread
    <3>3. th'[t].pc \in {"putRS", "create", "delete", "exit"}
      BY <2>4, <3>1, GetRSThread, ScaleFields
    <3> QED
      BY <3>1, <3>2, <3>3, MutexKept
  <2>5. CASE PutRS(t)
    <3>1. th[t].pc = "putRS" /\ reconciling' = reconciling
      BY <2>5 DEF PutRS
    <3>2. th'[t].pc \in {"create", "delete", "exit"}
      BY <2>5, PutRSThread, ScaleFields
    <3> QED
      BY <2>5, <3>1, <3>2, PutRSThread, MutexKept
  <2>6. CASE CreatePod(t) \/ CreateClash(t)
    BY <2>6, CreateRoundThread, MutexKept DEF CreatePod, CreateClash
  <2>7. CASE DeletePod(t)
    BY <2>7, DeleteRoundThread, MutexKept DEF DeletePod
  <2> QED
    BY <1>1, <2>1, <2>2, <2>3, <2>4, <2>5, <2>6, <2>7 DEF ReconcileStep
<1>2. ASSUME NEW t \in Threads, OneThread(t), reconciling' = reconciling,
             ~InReconcile(t), ~InReconcile(t)'
      PROVE  OneReconcilePerKey'
    BY <1>2, MutexKept
<1>3. ASSUME NEW t \in Handlers, Request(t) \/ HandlerStep(t) PROVE OneReconcilePerKey'
  <2>1. t \in Threads
    BY DEF Threads
  <2>2. ASSUME NEW a \in Copies, PostRS(t, a) PROVE OneReconcilePerKey'
    BY <1>2, <2>1, <2>2, CallThread DEF PostRS
  <2>3. ASSUME NEW n \in RSNames, NEW ns \in Namespaces, DeleteRS(t, n, ns)
        PROVE  OneReconcilePerKey'
    <3>1. [name |-> n, ns |-> ns, replicas |-> 0] \in Copies
      BY BoundsAssumption DEF Copies
    <3> QED
      BY <1>2, <2>1, <2>3, <3>1, CallThread DEF DeleteRS
  <2>4. CASE DeleteList(t)
    BY <1>2, <2>1, <2>4, DeleteListThread DEF DeleteList
  <2>5. CASE DeletePods(t)
    BY <1>2, <2>1, <2>5, DeleteRoundThread DEF DeletePods
  <2>6. CASE DeleteStored(t)
    <3>1. OneThread(t)
      <4>1. Rest \in ThreadStates /\ Rest.pc = "idle"
        BY BoundsAssumption DEF Rest, ThreadStates, Pcs
      <4>2. th' = [th EXCEPT ![t] = Rest] /\ th'[t] = Rest
        BY <2>1, <2>6 DEF DeleteStored, TypeOK
      <4> QED
        BY <4>1, <4>2 DEF OneThread, Controlled, Busy
    <3>2. th'[t].pc = "idle"
      BY <2>1, <2>6 DEF DeleteStored, TypeOK, Rest
    <3> QED
      BY <1>2, <2>1, <2>6, <3>1, <3>2 DEF DeleteStored
  <2> QED
    BY <1>3, <2>2, <2>3, <2>4, <2>5, <2>6 DEF Request, HandlerStep
<1>4. ASSUME LoopNext PROVE OneReconcilePerKey'
  <2>1. PICK a \in todo : th' = [th EXCEPT ![Loop] = [@ EXCEPT !.pc = "enter", !.arg = a]]
    BY <1>4 DEF LoopNext
  <2>2. a \in Copies /\ Loop \in Threads
    BY DEF TypeOK, Threads
  <2> QED
    BY <1>2, <1>4, <2>1, <2>2, CallThread DEF LoopNext
<1>5. ASSUME LoopExit PROVE OneReconcilePerKey'
  <2> DEFINE x == [th[Loop] EXCEPT !.pc = "exited"]
  <2>1. Loop \in Threads /\ th[Loop] \in ThreadStates
    BY DEF Threads, TypeOK
  <2>2. th' = [th EXCEPT ![Loop] = x] /\ th'[Loop] = x
    BY <1>5, <2>1 DEF LoopExit, TypeOK
  <2>3. x \in ThreadStates /\ x.pc = "exited"
    BY <2>1 DEF ThreadStates, Pcs
  <2>4. OneThread(Loop)
    BY <2>2, <2>3 DEF OneThread, Controlled, Busy
  <2> QED
    BY <1>2, <1>5, <2>1, <2>2, <2>3, <2>4 DEF LoopExit
<1>6. CASE (\E p \in PodIds : KillPod(p)) \/ Tick \/ Stop \/ UNCHANGED vars
    BY <1>6 DEF KillPod, Tick, Stop, vars, OneReconcilePerKey
<1> QED
    BY <1>1, <1>3, <1>4, <1>5, <1>6 DEF Next

LEMMA MutexInit == Init => OneReconcilePerKey
<1> SUFFICES ASSUME Init PROVE OneReconcilePerKey
    OBVIOUS
<1>1. \A t \in Threads : th[t].pc \in {"idle", "loop"}
    BY DEF Init, Rest
<1>2. \A t \in Threads : ~InReconcile(t)
    BY <1>1 DEF InReconcile
<1> QED
    BY <1>2 DEF Init, OneReconcilePerKey

(* The guard of reconcileReplicaSet: a key is marked exactly while one     *)
(* goroutine reconciles it, for any number of handlers beside the loop.    *)
THEOREM MutualExclusion == Spec => []OneReconcilePerKey
<1> DEFINE Inv == TypeOK /\ ControlOK /\ OneReconcilePerKey
<1>1. Init => Inv
    BY TypeInit, ControlInit, MutexInit
<1>2. Inv /\ [Next]_vars => Inv'
    BY TypeStep, MutexStep
<1>3. Inv => OneReconcilePerKey
    OBVIOUS
<1> HIDE DEF Inv
<1> QED
    BY <1>1, <1>2, <1>3, PTL DEF Spec

-----------------------------------------------------------------------------
(* What a deletion of a name leaves, as long as it crosses no reconcile: a *)
(* handler that has listed the pods still holds all there are, and of a    *)
(* name that is not stored there is no pod and nobody who would make one.  *)
Left(t) == IF th[t].pc = "dPods" THEN th[t].victims ELSE {}

Cleaned(n) ==
    /\ ~Stored(n) => /\ Owned(n) = {}
                     /\ \A a \in todo : a.name # n
                     /\ \A t \in Threads : ~Reconciles(t, n)
    /\ \A t \in Threads : Deletes(t, n) => Owned(n) \subseteq Left(t)

LEMMA CleanedKept ==
    ASSUME TypeOK, NEW n \in RSNames, Cleaned(n), NEW t \in Threads, OneThread(t),
           ~Stored(n)' => /\ ~Stored(n) /\ todo' \subseteq todo
                          /\ Reconciles(t, n)' => \/ Reconciles(t, n)
                                                  \/ \E a \in todo : a.name = n,
           Owned(n)' \subseteq Owned(n),
           Deletes(t, n)' => Owned(n)' \subseteq Left(t)'
    PROVE  Cleaned(n)'
<1>1. \A u \in Threads : u # t => th'[u] = th[u]
    BY DEF OneThread, TypeOK
<1>2. ASSUME NEW u \in Threads, u # t
      PROVE  /\ Reconciles(u, n)' => Reconciles(u, n)
             /\ Deletes(u, n)' => Deletes(u, n) /\ Left(u)' = Left(u)
    BY <1>1, <1>2 DEF Reconciles, InReconcile, Deletes, Left
<1>3. ASSUME ~Stored(n)'
      PROVE  /\ Owned(n)' = {}
             /\ \A a \in todo' : a.name # n
             /\ \A u \in Threads : ~Reconciles(u, n)'
    BY <1>2, <1>3 DEF Cleaned
<1>4. ASSUME NEW u \in Threads, Deletes(u, n)'
      PROVE  Owned(n)' \subseteq Left(u)'
    BY <1>2, <1>4 DEF Cleaned
<1> QED
    BY <1>3, <1>4 DEF Cleaned

(* A reconcile goes on with the copy it has, or ends.                      *)
LEMMA OnwardCleaned ==
    ASSUME TypeOK, NEW n \in RSNames, Cleaned(n), NEW t \in Threads, OneThread(t),
           th[t].pc = "enter" \/ InReconcile(t),
           th'[t].pc \notin {"dPods", "dRS"},
           ~Busy(th'[t]) \/ th'[t].arg = th[t].arg,
           ~Stored(n)' => ~Stored(n), Owned(n)' \subseteq Owned(n), todo' = todo
    PROVE  Cleaned(n)'
<1>1. Reconciles(t, n)' => Reconciles(t, n)
    BY DEF Reconciles, InReconcile, Busy
<1>2. ~Deletes(t, n)'
    BY DEF Deletes
<1> QED
    BY <1>1, <1>2, CleanedKept

LEMMA ReconcileCleaned ==
    ASSUME TypeOK, ControlOK, NEW n \in RSNames, Cleaned(n), ~Crossing(n),
           NEW t \in Threads, ReconcileStep(t)
    PROVE  Cleaned(n)'
<1>1. CASE Enter(t)
  <2>1. OneThread(t) /\ (~Busy(th'[t]) \/ (th'[t].pc = "count" /\ th'[t].arg = th[t].arg))
    BY <1>1, EnterThread
  <2>2. th[t].pc = "enter" /\ rs' = rs /\ pods' = pods /\ todo' = todo
    BY <1>1 DEF Enter
  <2> QED
    BY <2>1, <2>2, OnwardCleaned DEF Busy, Stored, Owned
<1>2. CASE Count(t)
  <2>1. OneThread(t) /\ th'[t].pc = "getRS" /\ th'[t].arg = th[t].arg
    BY <1>2, CountThread
  <2>2. InReconcile(t) /\ rs' = rs /\ pods' = pods /\ todo' = todo
    BY <1>2 DEF Count, InReconcile
  <2> QED
    BY <2>1, <2>2, OnwardCleaned DEF Stored, Owned
<1>3. CASE GetRS(t)
  <2>1. InReconcile(t) /\ rs' = rs /\ pods' = pods /\ todo' = todo /\ th[t].arg \in Copies
    BY <1>3 DEF GetRS, InReconcile, ControlOK, Controlled, Busy
  <2>2. OneThread(t) /\ th'[t].arg = th[t].arg
        /\ th'[t].pc \in {"putRS", "create", "delete", "exit"}
    BY <1>3, <2>1, GetRSThread, ScaleFields
  <2> QED
    BY <2>1, <2>2, OnwardCleaned DEF Stored, Owned
<1>4. CASE PutRS(t)
  <2>1. InReconcile(t) /\ pods' = pods /\ todo' = todo
    BY <1>4 DEF PutRS, InReconcile
  <2>2. /\ OneThread(t) /\ th[t].arg \in Copies /\ th'[t].arg = th[t].arg /\ Scale(t)
        /\ WithStatus(t) \in RSRecords
        /\ rs' = IF Stored(th[t].arg.name)
                 THEN [rs EXCEPT ![th[t].arg.name] = WithStatus(t)] ELSE rs
    BY <1>4, PutRSThread
  <2>3. th'[t].pc \in {"create", "delete", "exit"}
    BY <2>2, ScaleFields
  <2>4. ~Stored(n)' => ~Stored(n)
    BY <2>2, NoRSAssumption DEF Stored, TypeOK
  <2> QED
    BY <2>1, <2>2, <2>3, <2>4, OnwardCleaned DEF Owned
<1>5. CASE CreatePod(t) \/ CreateClash(t)
  <2>1. /\ InReconcile(t) /\ th[t].pc = "create" /\ rs' = rs /\ todo' = todo
        /\ OneThread(t) /\ th'[t].arg = th[t].arg /\ th'[t].pc \in {"create", "exit"}
    BY <1>5, CreateRoundThread DEF CreatePod, CreateClash, InReconcile
  <2>2. CASE Owned(n)' \subseteq Owned(n)
    BY <2>1, <2>2, OnwardCleaned DEF Stored
  <2>3. CASE CreatePod(t) /\ th[t].arg.name = n
    <3>1. Reconciles(t, n)
      BY <2>1, <2>3 DEF Reconciles
    <3>2. Stored(n)' /\ \A u \in Threads : ~Deletes(u, n)
      BY <2>1, <3>1 DEF Cleaned, Crossing, Stored
    <3>3. \A u \in Threads : th'[u] = th[u] \/ th'[u].pc \in {"create", "exit"}
      BY <2>1 DEF OneThread, TypeOK
    <3>4. \A u \in Threads : ~Deletes(u, n)'
      BY <3>2, <3>3 DEF Deletes
    <3> QED
      BY <3>2, <3>4 DEF Cleaned
  <2>4. CASE CreatePod(t) /\ th[t].arg.name # n
    <3>1. Owned(n)' \subseteq Owned(n)
      BY <2>4 DEF CreatePod, Owned, TypeOK
    <3> QED
      BY <2>2, <3>1
  <2>5. CASE CreateClash(t)
    BY <2>2, <2>5 DEF CreateClash, Owned
  <2> QED
    BY <1>5, <2>3, <2>4, <2>5
<1>6. CASE DeletePod(t)
  <2>1. /\ th[t].pc = "delete" /\ DeleteRound(t, "exit") /\ rs' = rs /\ todo' = todo
    BY <1>6 DEF DeletePod
  <2>2. /\ OneThread(t) /\ th'[t].arg = th[t].arg /\ th'[t].pc \in {"delete", "exit"}
        /\ \A p \in PodIds : pods'[p] \in {pods[p], NoOwner}
    BY <2>1, DeleteRoundThread
  <2>3. Owned(n)' \subseteq Owned(n)
    BY <2>2, NoOwnerAssumption DEF Owned
  <2> QED
    BY <2>1, <2>2, <2>3, OnwardCleaned DEF Stored, InReconcile
<1>7. CASE Exit(t)
  <2>1. OneThread(t) /\ ~Busy(th'[t])
    BY <1>7, ExitThread
  <2>2. InReconcile(t) /\ rs' = rs /\ pods' = pods /\ todo' = todo
    BY <1>7 DEF Exit, InReconcile
  <2> QED
    BY <2>1, <2>2, OnwardCleaned DEF Busy, Stored, Owned
<1> QED
    BY <1>1, <1>2, <1>3, <1>4, <1>5, <1>6, <1>7 DEF ReconcileStep

(* A handler that lists the pods holds all of them; each round that takes  *)
(* one away leaves it with the rest.                                       *)
LEMMA ListCleaned ==
    ASSUME TypeOK, ControlOK, NEW n \in RSNames, Cleaned(n), NEW t \in Threads, DeleteList(t)
    PROVE  Cleaned(n)'
<1> DEFINE victims == Owned(th[t].arg.name)
           pc == IF victims = {} THEN "dRS" ELSE "dPods"
<1>1. OneThread(t) /\ th'[t].pc \in {"dRS", "dPods"} /\ th[t] \in ThreadStates
    BY DeleteListThread DEF TypeOK
<1>2. th'[t] = [th[t] EXCEPT !.pc = pc, !.victims = victims]
    BY DEF DeleteList, TypeOK
<1>3. pc = "dRS" => victims = {}
    OBVIOUS
<1>4. rs' = rs /\ pods' = pods /\ todo' = todo
    BY DEF DeleteList
<1>5. Owned(n)' = Owned(n)
    BY <1>4 DEF Owned
<1>6. th[t].arg.name = n => victims = Owned(n)
    OBVIOUS
<1> HIDE DEF victims, pc
<1>7. th'[t].pc = pc /\ th'[t].arg = th[t].arg /\ th'[t].victims = victims
    BY <1>1, <1>2 DEF ThreadStates
<1>8. Deletes(t, n)' => Owned(n)' \subseteq Left(t)'
    BY <1>1, <1>3, <1>5, <1>6, <1>7 DEF Deletes, Left
<1>9. ~Reconciles(t, n)'
    BY <1>1 DEF Reconciles, InReconcile
<1> QED
    BY <1>1, <1>4, <1>5, <1>8, <1>9, CleanedKept DEF Stored

LEMMA RoundCleaned ==
    ASSUME TypeOK, ControlOK, NEW n \in RSNames, Cleaned(n), NEW t \in Threads, DeletePods(t)
    PROVE  Cleaned(n)'
<1>1. th[t].pc = "dPods" /\ DeleteRound(t, "dRS") /\ rs' = rs /\ todo' = todo
    BY DEF DeletePods
<1>2. /\ OneThread(t) /\ th'[t].pc \in {"dPods", "dRS"} /\ th'[t].arg = th[t].arg
      /\ \A p \in PodIds : pods'[p] \in {pods[p], NoOwner}
    BY <1>1, DeleteRoundThread
<1>3. th[t] \in ThreadStates /\ th[t].victims \in SUBSET PodIds
    BY DEF TypeOK, ThreadStates
<1>4. PICK p \in th[t].victims :
        /\ pods' = [pods EXCEPT ![p] = NoOwner]
        /\ th' = [th EXCEPT ![t] = [@ EXCEPT !.victims = th[t].victims \ {p},
                                             !.pc = IF th[t].victims \ {p} = {} THEN "dRS"
                                                    ELSE th[t].pc]]
    BY <1>1 DEF DeleteRound
<1> DEFINE rest == th[t].victims \ {p}
           pc == IF rest = {} THEN "dRS" ELSE th[t].pc
<1>5. th'[t] = [th[t] EXCEPT !.victims = rest, !.pc = pc]
    BY <1>4 DEF TypeOK
<1>6. /\ pc = "dRS" => rest = {}
      /\ Owned(n) \subseteq th[t].victims => Owned(n)' \subseteq rest
  <2>1. pc = "dRS" => rest = {}
    BY <1>1
  <2>2. p \notin Owned(n)' /\ Owned(n)' \subseteq Owned(n)
    BY <1>2, <1>3, <1>4, NoOwnerAssumption DEF Owned, TypeOK
  <2> QED
    BY <2>1, <2>2
<1> HIDE DEF rest, pc
<1>7. th'[t].pc = pc /\ th'[t].victims = rest
    BY <1>3, <1>5 DEF ThreadStates
<1>8. Owned(n)' \subseteq Owned(n)
    BY <1>2, NoOwnerAssumption DEF Owned
<1>9. Deletes(t, n)' => Owned(n)' \subseteq Left(t)'
  <2>1. Deletes(t, n)' => Owned(n) \subseteq th[t].victims
    BY <1>1, <1>2 DEF Deletes, Cleaned, Left
  <2> QED
    BY <1>2, <1>6, <1>7, <2>1 DEF Left
<1>10. ~Reconciles(t, n)'
    BY <1>2 DEF Reconciles, InReconcile
<1> QED
    BY <1>1, <1>2, <1>8, <1>9, <1>10, CleanedKept DEF Stored

(* It then removes a ReplicaSet that has no pod, and, as nothing crosses,  *)
(* nobody is left who works for the name.                                  *)
LEMMA StoredCleaned ==
    ASSUME TypeOK, ControlOK, NEW n \in RSNames, Cleaned(n), ~Crossing(n),
           NEW t \in Threads, DeleteStored(t)
    PROVE  Cleaned(n)'
<1>1. /\ th[t].pc = "dRS" /\ pods' = pods /\ todo' = todo
      /\ rs' = [rs EXCEPT ![th[t].arg.name] = NoRS]
      /\ th' = [th EXCEPT ![t] = Rest] /\ th'[t] = Rest
    BY DEF DeleteStored, TypeOK
<1>2. Rest \in ThreadStates /\ Rest.pc = "idle"
    BY BoundsAssumption DEF Rest, ThreadStates, Pcs
<1>3. OneThread(t) /\ ~Deletes(t, n)' /\ ~Reconciles(t, n)'
    BY <1>1, <1>2 DEF OneThread, Controlled, Busy, Deletes, Reconciles, InReconcile
<1>4. Owned(n)' = Owned(n)
    BY <1>1 DEF Owned
<1>5. CASE th[t].arg.name = n
  <2>1. Deletes(t, n) /\ Left(t) = {}
    BY <1>1, <1>5 DEF Deletes, Left
  <2>2. /\ Owned(n) = {}
        /\ \A a \in todo : a.name # n
        /\ \A u \in Threads : ~Reconciles(u, n)
    BY <2>1 DEF Cleaned, Crossing
  <2>3. \A u \in Threads : u # t => th'[u] = th[u]
    BY <1>1 DEF TypeOK
  <2>4. \A u \in Threads : ~Reconciles(u, n)'
    BY <1>3, <2>2, <2>3 DEF Reconciles, InReconcile
  <2>5. \A u \in Threads : Owned(n)' \subseteq Left(u)'
    BY <1>4, <2>2
  <2> QED
    BY <1>1, <1>4, <2>2, <2>4, <2>5 DEF Cleaned
<1>6. CASE th[t].arg.name # n
  <2>1. ~Stored(n)' => ~Stored(n)
    BY <1>1, <1>6 DEF Stored, TypeOK
  <2> QED
    BY <1>1, <1>3, <1>4, <2>1, CleanedKept
<1> QED
    BY <1>5, <1>6

LEMMA RequestCleaned ==
    ASSUME TypeOK, ControlOK, NEW n \in RSNames, Cleaned(n), NEW t \in Handlers, Request(t)
    PROVE  Cleaned(n)'
<1>1. t \in Threads
    BY DEF Threads
<1>2. ASSUME NEW a \in Copies, PostRS(t, a) PROVE Cleaned(n)'
  <2>1. OneThread(t) /\ th'[t].pc = "enter" /\ th'[t].arg = a
    BY <1>1, <1>2, CallThread DEF PostRS
  <2> DEFINE new == [ns |-> a.ns, replicas |-> a.replicas, status |-> -1]
  <2>2. /\ rs' = [rs EXCEPT ![a.name] = new] /\ pods' = pods /\ todo' = todo
    BY <1>2 DEF PostRS
  <2>3. new # NoRS
    <3>1. IsFiniteSet(PodIds) /\ Cardinality(PodIds) \in Nat
      BY PodIdsAssumption, FS_CardinalityType
    <3>2. new \in RSRecords
      BY <3>1 DEF RSRecords, Copies
    <3> QED
      BY <3>2, NoRSAssumption
  <2> HIDE DEF new
  <2>4. ~Stored(n)' => ~Stored(n) /\ a.name # n
    BY <2>2, <2>3 DEF Stored, TypeOK
  <2>5. Reconciles(t, n)' => a.name = n
    BY <2>1 DEF Reconciles
  <2>6. Owned(n)' = Owned(n) /\ ~Deletes(t, n)'
    BY <2>1, <2>2 DEF Owned, Deletes
  <2> QED
    BY <1>1, <2>1, <2>2, <2>4, <2>5, <2>6, CleanedKept
<1>3. ASSUME NEW m \in RSNames, NEW ns \in Namespaces, DeleteRS(t, m, ns)
      PROVE  Cleaned(n)'
  <2>1. [name |-> m, ns |-> ns, replicas |-> 0] \in Copies
    BY BoundsAssumption DEF Copies
  <2>2. OneThread(t) /\ th'[t].pc = "dList" /\ rs' = rs /\ pods' = pods /\ todo' = todo
    BY <1>1, <1>3, <2>1, CallThread DEF DeleteRS
  <2>3. ~Reconciles(t, n)' /\ ~Deletes(t, n)'
    BY <2>2 DEF Reconciles, InReconcile, Deletes
  <2> QED
    BY <1>1, <2>2, <2>3, CleanedKept DEF Stored, Owned
<1> QED
    BY <1>2, <1>3 DEF Request

(* The loop copies what is stored, and reconciles what it copied.          *)
LEMMA LoopCleaned ==
    ASSUME TypeOK, ControlOK, NEW n \in RSNames, Cleaned(n),
           Tick \/ LoopNext \/ LoopExit \/ Stop \/ UNCHANGED vars
    PROVE  Cleaned(n)'
<1>1. Loop \in Threads /\ rs' = rs /\ pods' = pods
    BY DEF Threads, Tick, LoopNext, LoopExit, Stop, vars
<1>2. Owned(n)' = Owned(n) /\ (Stored(n)' <=> Stored(n))
    BY <1>1 DEF Owned, Stored
<1>3. CASE Tick
  <2>1. th' = th /\ todo' = {CopyOf(m) : m \in {k \in RSNames : Stored(k)}}
    BY <1>3 DEF Tick
  <2>2. \A m : CopyOf(m).name = m
    BY DEF CopyOf
  <2>3. ~Stored(n) => \A a \in todo' : a.name # n
    BY <2>1, <2>2
  <2>4. \A u \in Threads : /\ Reconciles(u, n)' <=> Reconciles(u, n)
                           /\ Deletes(u, n)' <=> Deletes(u, n)
                           /\ Left(u)' = Left(u)
    BY <2>1 DEF Reconciles, InReconcile, Deletes, Left
  <2> QED
    BY <1>2, <2>3, <2>4 DEF Cleaned
<1>4. CASE LoopNext
  <2>1. PICK a \in todo :
          /\ th' = [th EXCEPT ![Loop] = [@ EXCEPT !.pc = "enter", !.arg = a]]
          /\ todo' = todo \ {a}
    BY <1>4 DEF LoopNext
  <2>2. OneThread(Loop) /\ th'[Loop].pc = "enter" /\ th'[Loop].arg = a
    BY <1>1, <2>1, CallThread DEF TypeOK
  <2>3. /\ Reconciles(Loop, n)' => \E b \in todo : b.name = n
        /\ ~Deletes(Loop, n)'
    BY <2>2 DEF Reconciles, Deletes
  <2> QED
    BY <1>1, <1>2, <2>1, <2>2, <2>3, CleanedKept
<1>5. CASE LoopExit
  <2> DEFINE x == [th[Loop] EXCEPT !.pc = "exited"]
  <2>1. th' = [th EXCEPT ![Loop] = x] /\ th'[Loop] = x /\ todo' = todo
    BY <1>1, <1>5 DEF LoopExit, TypeOK
  <2>2. x \in ThreadStates /\ x.pc = "exited"
    BY <1>1 DEF TypeOK, ThreadStates, Pcs
  <2>3. OneThread(Loop) /\ ~Deletes(Loop, n)' /\ ~Reconciles(Loop, n)'
    BY <2>1, <2>2 DEF OneThread, Controlled, Busy, Deletes, Reconciles, InReconcile
  <2> QED
    BY <1>1, <1>2, <2>1, <2>3, CleanedKept
<1>6. CASE Stop \/ UNCHANGED vars
  <2>1. th' = th /\ todo' = todo
    BY <1>6 DEF Stop, vars
  <2>2. \A u \in Threads : /\ Reconciles(u, n)' <=> Reconciles(u, n)
                           /\ Deletes(u, n)' <=> Deletes(u, n)
                           /\ Left(u)' = Left(u)
    BY <2>1 DEF Reconciles, InReconcile, Deletes, Left
  <2> QED
    BY <1>2, <2>1, <2>2 DEF Cleaned
<1> QED
    BY <1>3, <1>4, <1>5, <1>6

LEMMA KillCleaned ==
    ASSUME TypeOK, NEW n \in RSNames, Cleaned(n), NEW p \in PodIds, KillPod(p)
    PROVE  Cleaned(n)'
<1>1. th' = th /\ todo' = todo /\ rs' = rs /\ pods' = [pods EXCEPT ![p] = NoOwner]
    BY DEF KillPod
<1>2. Owned(n)' \subseteq Owned(n) /\ (Stored(n)' <=> Stored(n))
    BY <1>1, NoOwnerAssumption DEF Owned, Stored, TypeOK
<1>3. \A u \in Threads : /\ Reconciles(u, n)' <=> Reconciles(u, n)
                         /\ Deletes(u, n)' <=> Deletes(u, n)
                         /\ Left(u)' = Left(u)
    BY <1>1 DEF Reconciles, InReconcile, Deletes, Left
<1> QED
    BY <1>1, <1>2, <1>3 DEF Cleaned

LEMMA CleanedStep ==
    ASSUME TypeOK, ControlOK, NEW n \in RSNames, Cleaned(n), ~Crossing(n), [Next]_vars
    PROVE  Cleaned(n)'
<1>1. Handlers \subseteq Threads
    BY DEF Threads
<1>2. CASE \E t \in Threads : ReconcileStep(t)
    BY <1>2, ReconcileCleaned
<1>3. CASE \E t \in Handlers : Request(t)
    BY <1>3, RequestCleaned
<1>4. CASE \E t \in Handlers : HandlerStep(t)
    BY <1>1, <1>4, ListCleaned, RoundCleaned, StoredCleaned DEF HandlerStep
<1>5. CASE \E p \in PodIds : KillPod(p)
    BY <1>5, KillCleaned
<1>6. CASE Tick \/ LoopNext \/ LoopExit \/ Stop \/ UNCHANGED vars
    BY <1>6, LoopCleaned
<1> QED
    BY <1>2, <1>3, <1>4, <1>5, <1>6 DEF Next

LEMMA CleanedInit ==
    ASSUME Init, NEW n \in RSNames
    PROVE  Cleaned(n)
<1>1. \A t \in Threads : th[t].pc \in {"idle", "loop"}
    BY DEF Init, Rest
<1>2. \A t \in Threads : ~Reconciles(t, n) /\ ~Deletes(t, n)
    BY <1>1 DEF Reconciles, InReconcile, Deletes
<1>3. Owned(n) = {} /\ todo = {}
    BY NoOwnerAssumption DEF Init, Owned
<1> QED
    BY <1>2, <1>3 DEF Cleaned

LEMMA NameCleaned ==
    ASSUME NEW n \in RSNames
    PROVE  Spec => ([]~Crossing(n) => [](~Stored(n) => Owned(n) = {}))
<1>1. Init => TypeOK /\ ControlOK /\ Cleaned(n)
    BY TypeInit, ControlInit, CleanedInit
<1>2. TypeOK /\ ControlOK /\ [Next]_vars => TypeOK' /\ ControlOK'
    BY TypeStep
<1>3. TypeOK /\ ControlOK /\ Cleaned(n) /\ ~Crossing(n) /\ [Next]_vars => Cleaned(n)'
    BY CleanedStep
<1>4. Cleaned(n) => (~Stored(n) => Owned(n) = {})
    BY DEF Cleaned
<1> QED
    BY <1>1, <1>2, <1>3, <1>4, PTL DEF Spec

(* A deleted ReplicaSet leaves no pod unless a deletion meets a reconcile  *)
(* of the name after it has listed the pods, for any number of handlers,   *)
(* names, namespaces and pods: the only way the controller has to orphan.  *)
THEOREM OnlyCrossingsOrphan == Spec => OrphansOnlyByCrossing
<1>1. \A n \in RSNames : Spec => ([]~Crossing(n) => [](~Stored(n) => Owned(n) = {}))
    BY NameCleaned
<1> QED
    BY <1>1 DEF OrphansOnlyByCrossing

-----------------------------------------------------------------------------
(* The spec somebody is about to write back is the one stored. It stays so *)
(* in every step of the ReplicaSet controller and of its handlers, unless  *)
(* a POST stores the name while somebody updates its status; the theorem,  *)
(* DeploymentController's, is proved where the other writers are known.    *)
Faithful(n) ==
    \A t \in Threads : Updates(t, n) /\ Stored(n) => th[t].read.replicas = rs[n].replicas

LEMMA FaithfulKept ==
    ASSUME TypeOK, NEW n \in RSNames, Faithful(n), NEW t \in Threads, OneThread(t),
           th'[t].pc # "putRS", rs'[n] = rs[n]
    PROVE  Faithful(n)'
<1>1. \A u \in Threads : u # t => th'[u] = th[u]
    BY DEF OneThread, TypeOK
<1> QED
    BY <1>1 DEF Faithful, Updates, Stored

LEMMA ReconcileFaithful ==
    ASSUME TypeOK, ControlOK, NEW n \in RSNames, Faithful(n),
           NEW t \in Threads, ReconcileStep(t)
    PROVE  Faithful(n)'
<1>1. CASE Enter(t)
  <2>1. OneThread(t) /\ (~Busy(th'[t]) \/ th'[t].pc = "count")
    BY <1>1, EnterThread
  <2> QED
    BY <1>1, <2>1, FaithfulKept DEF Enter, Busy
<1>2. CASE Count(t)
    BY <1>2, CountThread, FaithfulKept DEF Count
<1>3. CASE GetRS(t)
  <2>1. /\ rs' = rs /\ th[t].arg \in Copies
        /\ OneThread(t) /\ th'[t].arg = th[t].arg
    BY <1>3, GetRSThread DEF GetRS, ControlOK, Controlled, Busy
  <2>2. CASE Scale(t)
    <3>1. th'[t].pc # "putRS"
      BY <2>1, <2>2, ScaleFields
    <3> QED
      BY <2>1, <3>1, FaithfulKept
  <2>3. CASE th'[t].read = rs[th[t].arg.name]
    <3>1. \A u \in Threads : u # t => th'[u] = th[u]
      BY <2>1 DEF OneThread, TypeOK
    <3>2. \A u \in Threads : u # t /\ Updates(u, n)' => Updates(u, n)
      BY <3>1 DEF Updates
    <3> QED
      BY <2>1, <2>3, <3>1, <3>2 DEF Faithful, Updates, Stored
  <2> QED
    BY <1>3, <2>2, <2>3, GetRSThread
<1>4. CASE PutRS(t)
  <2>1. /\ OneThread(t) /\ th[t].arg \in Copies /\ Scale(t)
        /\ WithStatus(t) \in RSRecords /\ WithStatus(t).replicas = th[t].read.replicas
        /\ rs' = IF Stored(th[t].arg.name)
                 THEN [rs EXCEPT ![th[t].arg.name] = WithStatus(t)] ELSE rs
    BY <1>4, PutRSThread
  <2>2. th'[t].pc # "putRS"
    BY <2>1, ScaleFields
  <2>3. CASE rs'[n] = rs[n]
    BY <2>1, <2>2, <2>3, FaithfulKept
  <2>4. CASE rs'[n] # rs[n]
    <3>1. th[t].arg.name = n /\ Stored(n) /\ rs'[n] = WithStatus(t)
      BY <2>1, <2>4 DEF TypeOK
    <3>2. th[t].read.replicas = rs[n].replicas
      BY <1>4, <3>1 DEF Faithful, Updates, PutRS
    <3>3. \A u \in Threads : u # t => th'[u] = th[u]
      BY <2>1 DEF OneThread, TypeOK
    <3>4. \A u \in Threads : Updates(u, n)' => u # t /\ Updates(u, n) /\ th'[u].read = th[u].read
      BY <2>2, <3>3 DEF Updates
    <3> QED
      BY <2>1, <3>1, <3>2, <3>4 DEF Faithful
  <2> QED
    BY <2>3, <2>4
<1>5. CASE CreatePod(t) \/ CreateClash(t)
  <2>1. OneThread(t) /\ th'[t].pc \in {"create", "exit"} /\ rs' = rs
    BY <1>5, CreateRoundThread DEF CreatePod, CreateClash
  <2> QED
    BY <2>1, FaithfulKept
<1>6. CASE DeletePod(t)
  <2>1. th[t].pc = "delete" /\ DeleteRound(t, "exit") /\ rs' = rs
    BY <1>6 DEF DeletePod
  <2>2. OneThread(t) /\ th'[t].pc \in {"delete", "exit"}
    BY <2>1, DeleteRoundThread
  <2> QED
    BY <2>1, <2>2, FaithfulKept
<1>7. CASE Exit(t)
    BY <1>7, ExitThread, FaithfulKept DEF Exit, Busy
<1> QED
    BY <1>1, <1>2, <1>3, <1>4, <1>5, <1>6, <1>7 DEF ReconcileStep

(* A spec comes by a POST, and then nobody is updating.                    *)
LEMMA RequestFaithful ==
    ASSUME TypeOK, ControlOK, NEW n \in RSNames, Faithful(n),
           Stored(n) \/ \A u \in Threads : ~Updates(u, n),
           NEW t \in Handlers, Request(t)
    PROVE  Faithful(n)'
<1>1. t \in Threads
    BY DEF Threads
<1>2. ASSUME NEW a \in Copies, PostRS(t, a) PROVE Faithful(n)'
  <2>1. OneThread(t) /\ th'[t].pc = "enter"
    BY <1>1, <1>2, CallThread DEF PostRS
  <2>2. CASE a.name = n
    <3>1. \A u \in Threads : ~Updates(u, n)
      BY <1>2, <2>2 DEF PostRS
    <3>2. \A u \in Threads : u # t => th'[u] = th[u]
      BY <2>1 DEF OneThread, TypeOK
    <3>3. \A u \in Threads : ~Updates(u, n)'
      BY <2>1, <3>1, <3>2 DEF Updates
    <3> QED
      BY <3>3 DEF Faithful
  <2>3. CASE a.name # n
    <3>1. rs'[n] = rs[n]
      BY <1>2, <2>3 DEF PostRS, TypeOK
    <3> QED
      BY <1>1, <2>1, <3>1, FaithfulKept
  <2> QED
    BY <2>2, <2>3
<1>3. ASSUME NEW m \in RSNames, NEW ns \in Namespaces, DeleteRS(t, m, ns)
      PROVE  Faithful(n)'
  <2>1. [name |-> m, ns |-> ns, replicas |-> 0] \in Copies
    BY BoundsAssumption DEF Copies
  <2>2. OneThread(t) /\ th'[t].pc = "dList" /\ rs' = rs
    BY <1>1, <1>3, <2>1, CallThread DEF DeleteRS
  <2> QED
    BY <1>1, <2>2, FaithfulKept
<1> QED
    BY <1>2, <1>3 DEF Request

LEMMA HandlerFaithful ==
    ASSUME TypeOK, ControlOK, NEW n \in RSNames, Faithful(n),
           NEW t \in Threads, HandlerStep(t)
    PROVE  Faithful(n)'
<1>1. CASE DeleteList(t)
  <2>1. OneThread(t) /\ th'[t].pc \in {"dRS", "dPods"} /\ rs' = rs
    BY <1>1, DeleteListThread DEF DeleteList
  <2> QED
    BY <2>1, FaithfulKept
<1>2. CASE DeletePods(t)
  <2>1. th[t].pc = "dPods" /\ DeleteRound(t, "dRS") /\ rs' = rs
    BY <1>2 DEF DeletePods
  <2>2. OneThread(t) /\ th'[t].pc \in {"dPods", "dRS"}
    BY <2>1, DeleteRoundThread
  <2> QED
    BY <2>1, <2>2, FaithfulKept
<1>3. CASE DeleteStored(t)
  <2>1. /\ rs' = [rs EXCEPT ![th[t].arg.name] = NoRS]
        /\ th' = [th EXCEPT ![t] = Rest] /\ th'[t] = Rest
    BY <1>3 DEF DeleteStored, TypeOK
  <2>2. Rest \in ThreadStates /\ Rest.pc = "idle"
    BY BoundsAssumption DEF Rest, ThreadStates, Pcs
  <2>3. OneThread(t) /\ th'[t].pc # "putRS"
    BY <2>1, <2>2 DEF OneThread, Controlled, Busy
  <2>4. CASE rs'[n] = rs[n]
    BY <2>3, <2>4, FaithfulKept
  <2>5. CASE rs'[n] # rs[n]
    <3>1. rs'[n] = NoRS
      BY <2>1, <2>5 DEF TypeOK
    <3> QED
      BY <3>1 DEF Faithful, Stored
  <2> QED
    BY <2>4, <2>5
<1> QED
    BY <1>1, <1>2, <1>3 DEF HandlerStep

LEMMA FaithfulStep ==
    ASSUME TypeOK, ControlOK, NEW n \in RSNames, Faithful(n),
           Stored(n) \/ \A u \in Threads : ~Updates(u, n), [Next]_vars
    PROVE  Faithful(n)'
<1>1. Handlers \subseteq Threads /\ Loop \in Threads
    BY DEF Threads
<1>2. CASE LoopNext
  <2>1. PICK a \in todo : th' = [th EXCEPT ![Loop] = [@ EXCEPT !.pc = "enter", !.arg = a]]
    BY <1>2 DEF LoopNext
  <2>2. OneThread(Loop) /\ th'[Loop].pc = "enter"
    BY <1>1, <2>1, CallThread DEF TypeOK
  <2> QED
    BY <1>1, <1>2, <2>2, FaithfulKept DEF LoopNext
<1>3. CASE LoopExit
  <2> DEFINE x == [th[Loop] EXCEPT !.pc = "exited"]
  <2>1. th' = [th EXCEPT ![Loop] = x] /\ th'[Loop] = x /\ rs' = rs
    BY <1>1, <1>3 DEF LoopExit, TypeOK
  <2>2. x \in ThreadStates /\ x.pc = "exited"
    BY <1>1 DEF TypeOK, ThreadStates, Pcs
  <2>3. OneThread(Loop) /\ th'[Loop].pc # "putRS"
    BY <2>1, <2>2 DEF OneThread, Controlled, Busy
  <2> QED
    BY <1>1, <2>1, <2>3, FaithfulKept
<1>4. CASE (\E p \in PodIds : KillPod(p)) \/ Tick \/ Stop \/ UNCHANGED vars
  <2>1. th' = th /\ rs' = rs
    BY <1>4 DEF KillPod, Tick, Stop, vars
  <2> QED
    BY <2>1 DEF Faithful, Updates, Stored
<1> QED
    BY <1>1, <1>2, <1>3, <1>4, ReconcileFaithful, RequestFaithful, HandlerFaithful DEF Next
=============================================================================
