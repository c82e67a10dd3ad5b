--------------------- MODULE ReplicaSetProvisionProofs ---------------------
(* A ReplicaSet is never given more pods than were ever asked for, proved  *)
(* for any number of pods, handlers and replicas, in one namespace.        *)
EXTENDS ReplicaSetControllerProofs

(* What a goroutine carries from one step to the next stays within what    *)
(* was asked for under the name: the replicas it read, and, while it is    *)
(* the one that reconciles the name, the pods there are and are to come.   *)
Frugal(t) ==
    LET a == th[t].arg IN
    /\ th[t].pc = "enter" \/ InReconcile(t) => a.replicas <= cap[a.name]
    /\ th[t].pc = "putRS" => th[t].read.replicas <= cap[a.name]
    /\ th[t].pc \in {"getRS", "putRS"} => Owned(a.name) \subseteq th[t].counted
    /\ th[t].pc = "create" => Cardinality(Owned(a.name)) + th[t].left <= cap[a.name]

Provision ==
    /\ \A a \in todo : a.replicas <= cap[a.name]
    /\ \A n \in RSNames : Stored(n) => rs[n].replicas <= cap[n]
    /\ \A t \in Threads : Frugal(t)
    /\ NoOverProvision

LEMMA OwnedType ==
    ASSUME NEW n
    PROVE  /\ Owned(n) \in SUBSET PodIds /\ IsFiniteSet(Owned(n))
           /\ Cardinality(Owned(n)) \in Nat
<1>1. Owned(n) \in SUBSET PodIds
    BY DEF Owned
<1> QED
    BY <1>1, CountType

LEMMA OwnedShrinks ==
    ASSUME NEW n, Owned(n)' \subseteq Owned(n)
    PROVE  Cardinality(Owned(n)') <= Cardinality(Owned(n)) /\ Cardinality(Owned(n)') \in Nat
<1>1. IsFiniteSet(Owned(n))
    BY OwnedType
<1> QED
    BY <1>1, FS_Subset, FS_CardinalityType

(* A goroutine that did not move is as frugal as before when pods were     *)
(* only removed, or when those added are of no name it is working on.      *)
LEMMA BystanderFrugal ==
    ASSUME TypeOK, TypeOK', ControlOK, NEW u \in Threads, Frugal(u), th'[u] = th[u],
           \A n \in RSNames : cap[n] <= cap'[n],
           \/ th[u].pc \notin {"getRS", "putRS", "create"}
           \/ Owned(th[u].arg.name)' \subseteq Owned(th[u].arg.name)
    PROVE  Frugal(u)'
<1> DEFINE a == th[u].arg
<1>1. CASE th[u].pc \notin {"getRS", "putRS", "create", "enter"} /\ ~InReconcile(u)
    BY <1>1 DEF Frugal, InReconcile
<1>2. CASE th[u].pc \in {"getRS", "putRS", "create", "enter"} \/ InReconcile(u)
  <2>1. a \in Copies
    BY <1>2 DEF ControlOK, Controlled, Busy, InReconcile
  <2>2. /\ a.name \in RSNames /\ a.replicas \in Nat /\ cap[a.name] \in Nat /\ cap'[a.name] \in Nat
        /\ cap[a.name] <= cap'[a.name]
    BY <2>1, BoundsAssumption DEF Copies, TypeOK
  <2>3. a.replicas <= cap[a.name]
    BY <1>2 DEF Frugal, InReconcile
  <2>4. a.replicas <= cap'[a.name]
    BY <2>2, <2>3
  <2>5. th[u].pc = "putRS" => th[u].read.replicas <= cap'[a.name]
    <3>1. ASSUME th[u].pc = "putRS" PROVE th[u].read.replicas <= cap'[a.name]
      <4>1. th[u].read.replicas \in Nat /\ th[u].read.replicas <= cap[a.name]
        BY <3>1, BoundsAssumption DEF Frugal, ControlOK, Controlled, RSRecords
      <4> QED
        BY <4>1, <2>2
    <3> QED
      BY <3>1
  <2>6. th[u].pc \in {"getRS", "putRS"} => Owned(a.name)' \subseteq th[u].counted
    BY DEF Frugal
  <2>7. ASSUME th[u].pc = "create"
        PROVE  Cardinality(Owned(a.name)') + th[u].left <= cap'[a.name]
    <3>1. Cardinality(Owned(a.name)) + th[u].left <= cap[a.name]
      BY <2>7 DEF Frugal
    <3>2. /\ Cardinality(Owned(a.name)') <= Cardinality(Owned(a.name))
          /\ Cardinality(Owned(a.name)') \in Nat /\ Cardinality(Owned(a.name)) \in Nat
      BY <2>7, OwnedShrinks, OwnedType
    <3>3. th[u].left \in Nat
      BY BoundsAssumption DEF TypeOK, ThreadStates
    <3> QED
      BY <3>1, <3>2, <3>3, <2>2
  <2> QED
    BY <2>4, <2>5, <2>6, <2>7 DEF Frugal, InReconcile
<1> QED
    BY <1>1, <1>2

(* A step that only removes pods keeps every bound, provided the goroutine *)
(* that moved stays frugal and what was asked for is not forgotten.        *)
LEMMA ShrinkingStep ==
    ASSUME TypeOK, TypeOK', ControlOK, Provision,
           \A n \in RSNames : Owned(n)' \subseteq Owned(n),
           \A n \in RSNames : cap[n] <= cap'[n],
           \A a \in todo' : a.replicas <= cap'[a.name],
           \A n \in RSNames : Stored(n)' => rs'[n].replicas <= cap'[n],
           th' = th \/ \E t \in Threads : OneThread(t) /\ Frugal(t)'
    PROVE  Provision'
<1>1. ASSUME NEW n \in RSNames PROVE Cardinality(Owned(n)') <= cap'[n]
  <2>1. Cardinality(Owned(n)) <= cap[n] /\ cap[n] <= cap'[n] /\ cap[n] \in Nat /\ cap'[n] \in Nat
    BY BoundsAssumption DEF Provision, NoOverProvision, TypeOK
  <2>2. /\ Cardinality(Owned(n)') <= Cardinality(Owned(n))
        /\ Cardinality(Owned(n)') \in Nat /\ Cardinality(Owned(n)) \in Nat
    BY OwnedShrinks, OwnedType
  <2> QED
    BY <2>1, <2>2
<1>2. ASSUME NEW u \in Threads, th'[u] = th[u] PROVE Frugal(u)'
  <2>1. CASE th[u].pc \notin {"getRS", "putRS", "create"}
    BY <1>2, <2>1, BystanderFrugal DEF Provision
  <2>2. CASE th[u].pc \in {"getRS", "putRS", "create"}
    <3>1. th[u].arg.name \in RSNames
      BY <2>2 DEF ControlOK, Controlled, Busy, Copies
    <3> QED
      BY <1>2, <3>1, BystanderFrugal DEF Provision
  <2> QED
    BY <2>1, <2>2
<1>3. \A u \in Threads : Frugal(u)'
  <2>1. CASE th' = th
    BY <1>2, <2>1
  <2>2. ASSUME NEW t \in Threads, OneThread(t), Frugal(t)' PROVE \A u \in Threads : Frugal(u)'
    <3>1. \A u \in Threads : u # t => th'[u] = th[u]
      BY <2>2 DEF OneThread, TypeOK
    <3> QED
      BY <1>2, <2>2, <3>1
  <2> QED
    BY <2>1, <2>2
<1> QED
    BY <1>1, <1>3 DEF Provision, NoOverProvision

-----------------------------------------------------------------------------
(* The goroutine that moves, step by step.                                 *)

(* Nothing but the replicas of its copy is asked of most of its states.    *)
LEMMA MovedFrugal ==
    ASSUME Provision, NEW t \in Threads, th[t].pc = "enter" \/ InReconcile(t),
           th'[t].arg = th[t].arg, cap' = cap,
           th'[t].pc \in {"count", "delete", "exit"}
    PROVE  Frugal(t)'
<1>1. th[t].arg.replicas <= cap[th[t].arg.name]
    BY DEF Provision, Frugal
<1> QED
    BY <1>1 DEF Frugal

LEMMA OutsideFrugal ==
    ASSUME NEW t \in Threads,
           th'[t].pc \in {"idle", "loop", "exited", "dList", "dPods", "dRS"}
    PROVE  Frugal(t)'
BY DEF Frugal, InReconcile

(* The pods counted before are at least those there are, so what is        *)
(* missing from the desired number may be created.                         *)
LEMMA ScaleFrugal ==
    ASSUME TypeOK, Provision, NEW t \in Threads, th[t].arg \in Copies,
           th[t].pc \in {"getRS", "putRS"}, Scale(t), pods' = pods, cap' = cap
    PROVE  Frugal(t)'
<1> DEFINE a == th[t].arg
           current == Cardinality(th[t].counted)
<1>1. /\ th'[t].pc \in {"create", "delete", "exit"}
      /\ th'[t].arg = a
      /\ th'[t].pc = "create" => current < a.replicas /\ th'[t].left = a.replicas - current
    BY ScaleFields
<1>2. CASE th'[t].pc # "create"
    BY <1>1, <1>2, MovedFrugal DEF InReconcile
<1>3. CASE th'[t].pc = "create"
  <2>1. a.replicas <= cap[a.name] /\ Owned(a.name) \subseteq th[t].counted
    BY DEF Provision, Frugal, InReconcile
  <2>2. th[t].counted \in SUBSET PodIds
    BY DEF TypeOK, ThreadStates
  <2>3. /\ Cardinality(Owned(a.name)) <= current
        /\ Cardinality(Owned(a.name)) \in Nat /\ current \in Nat
    BY <2>1, <2>2, CountType, FS_Subset, OwnedType
  <2>4. a.replicas \in Nat /\ cap[a.name] \in Nat
    BY BoundsAssumption DEF Copies, TypeOK
  <2>5. Cardinality(Owned(a.name)) + (a.replicas - current) <= cap[a.name]
    BY <2>1, <2>3, <2>4
  <2>6. Owned(th[t].arg.name)' = Owned(a.name)
    BY <1>1 DEF Owned
  <2> QED
    BY <1>1, <1>3, <2>1, <2>5, <2>6 DEF Frugal
<1> QED
    BY <1>2, <1>3

(* A step that leaves pods, ReplicaSets, copies and cap alone.             *)
LEMMA QuietStep ==
    ASSUME TypeOK, TypeOK', ControlOK, Provision, UNCHANGED <<rs, pods, cap>>,
           todo' \subseteq todo,
           th' = th \/ \E t \in Threads : OneThread(t) /\ Frugal(t)'
    PROVE  Provision'
<1>1. \A n \in RSNames : Owned(n)' \subseteq Owned(n)
    BY DEF Owned
<1>2. \A n \in RSNames : cap[n] <= cap'[n]
    BY BoundsAssumption DEF TypeOK
<1>3. \A n \in RSNames : Stored(n)' => rs'[n].replicas <= cap'[n]
    BY DEF Provision, Stored
<1>4. \A a \in todo' : a.replicas <= cap'[a.name]
    BY DEF Provision
<1> QED
    BY <1>1, <1>2, <1>3, <1>4, ShrinkingStep

LEMMA EnterProvision ==
    ASSUME TypeOK, TypeOK', ControlOK, Provision, NEW t \in Threads, Enter(t)
    PROVE  Provision'
<1>1. OneThread(t) /\ th[t].pc = "enter"
    BY EnterThread DEF Enter
<1>2. Frugal(t)'
  <2>1. CASE ~Busy(th'[t])
    BY <2>1, OutsideFrugal DEF Busy
  <2>2. CASE th'[t].pc = "count" /\ th'[t].arg = th[t].arg
    BY <1>1, <2>2, MovedFrugal DEF Enter
  <2> QED
    BY <2>1, <2>2, EnterThread
<1> QED
    BY <1>1, <1>2, QuietStep DEF Enter

LEMMA CountProvision ==
    ASSUME TypeOK, TypeOK', ControlOK, Provision, NEW t \in Threads, Count(t)
    PROVE  Provision'
<1>1. /\ OneThread(t) /\ th[t].pc = "count" /\ UNCHANGED <<pods, cap>>
      /\ th'[t].pc = "getRS" /\ th'[t].arg = th[t].arg
      /\ th'[t].counted = Owned(th[t].arg.name)
    BY CountThread DEF Count
<1>2. th[t].arg.replicas <= cap[th[t].arg.name]
    BY <1>1 DEF Provision, Frugal, InReconcile
<1>3. Owned(th[t].arg.name)' = th'[t].counted
    BY <1>1 DEF Owned
<1>4. Frugal(t)'
    BY <1>1, <1>2, <1>3 DEF Frugal
<1> QED
    BY <1>1, <1>4, QuietStep DEF Count

LEMMA GetRSProvision ==
    ASSUME TypeOK, TypeOK', ControlOK, Provision, NEW t \in Threads, GetRS(t)
    PROVE  Provision'
<1>1. /\ OneThread(t) /\ th[t].pc = "getRS" /\ UNCHANGED <<pods, cap>>
      /\ th'[t].arg = th[t].arg /\ th[t].arg \in Copies
    BY GetRSThread DEF GetRS, ControlOK, Controlled, Busy
<1>2. CASE Scale(t)
  <2>1. Frugal(t)'
    BY <1>1, <1>2, ScaleFrugal
  <2> QED
    BY <1>1, <2>1, QuietStep DEF GetRS
<1>3. CASE /\ th'[t].pc = "putRS" /\ th'[t].counted = th[t].counted
           /\ th'[t].read = rs[th[t].arg.name] /\ Stored(th[t].arg.name)
  <2>1. /\ th[t].arg.replicas <= cap[th[t].arg.name]
        /\ Owned(th[t].arg.name) \subseteq th[t].counted
    BY <1>1 DEF Provision, Frugal, InReconcile
  <2>2. rs[th[t].arg.name].replicas <= cap[th[t].arg.name]
    BY <1>1, <1>3 DEF Provision, Copies
  <2>3. Owned(th[t].arg.name)' = Owned(th[t].arg.name)
    BY <1>1 DEF Owned
  <2>4. Frugal(t)'
    BY <1>1, <1>3, <2>1, <2>2, <2>3 DEF Frugal
  <2> QED
    BY <1>1, <2>4, QuietStep DEF GetRS
<1> QED
    BY <1>2, <1>3, GetRSThread

LEMMA PutRSProvision ==
    ASSUME TypeOK, TypeOK', ControlOK, Provision, NEW t \in Threads, PutRS(t)
    PROVE  Provision'
<1> DEFINE n == th[t].arg.name
<1>1. /\ OneThread(t) /\ th[t].pc = "putRS" /\ UNCHANGED <<pods, cap, todo>>
      /\ th[t].arg \in Copies /\ Scale(t)
    BY PutRSThread DEF PutRS
<1>2. Frugal(t)'
    BY <1>1, ScaleFrugal
<1>3. WithStatus(t).replicas <= cap[n]
    BY <1>1, PutRSThread DEF Provision, Frugal
<1>4. ASSUME NEW m \in RSNames, Stored(m)' PROVE rs'[m].replicas <= cap'[m]
  <2>1. rs' = IF Stored(n) THEN [rs EXCEPT ![n] = WithStatus(t)] ELSE rs
    BY PutRSThread
  <2>2. CASE m = n /\ Stored(n)
    BY <1>1, <1>3, <2>1, <2>2 DEF TypeOK
  <2>3. CASE ~(m = n /\ Stored(n))
    BY <1>1, <1>4, <2>1, <2>3 DEF TypeOK, Provision, Stored
  <2> QED
    BY <2>2, <2>3
<1>5. /\ \A m \in RSNames : Owned(m)' \subseteq Owned(m)
      /\ \A m \in RSNames : cap[m] <= cap'[m]
      /\ \A a \in todo' : a.replicas <= cap'[a.name]
    BY <1>1, BoundsAssumption DEF Owned, TypeOK, Provision
<1> QED
    BY <1>1, <1>2, <1>4, <1>5, ShrinkingStep

(* The one step that adds a pod: a round fewer is left, and in a single    *)
(* namespace no other goroutine reconciles the name.                       *)
LEMMA CreatePodProvision ==
    ASSUME TypeOK, TypeOK', ControlOK, OneReconcilePerKey, Provision,
           \E ns : Namespaces = {ns}, NEW t \in Threads, CreatePod(t)
    PROVE  Provision'
<1> DEFINE n == th[t].arg.name
<1>1. /\ OneThread(t) /\ th[t].pc = "create" /\ UNCHANGED <<rs, cap, todo>>
      /\ th[t].arg \in Copies /\ th'[t].arg = th[t].arg
      /\ th'[t].pc \in {"create", "exit"} /\ th'[t].left = th[t].left - 1
    BY CreateRoundThread DEF CreatePod
<1>2. n \in RSNames /\ th[t].left > 0 /\ th[t].left \in Nat /\ cap[n] \in Nat
    BY <1>1, BoundsAssumption DEF Copies, ControlOK, Controlled, TypeOK, ThreadStates
<1>3. PICK p \in PodIds : pods[p] = NoOwner /\ pods' = [pods EXCEPT ![p] = n]
    BY DEF CreatePod
<1>4. Owned(n)' = Owned(n) \cup {p} /\ p \notin Owned(n)
  <2>1. n # NoOwner
    BY <1>2, NoOwnerAssumption
  <2>2. \A q \in PodIds : pods'[q] = IF q = p THEN n ELSE pods[q]
    BY <1>3 DEF TypeOK
  <2>3. Owned(n)' = {q \in PodIds : pods'[q] = n}
    BY <1>1 DEF Owned
  <2>4. Owned(n) = {q \in PodIds : pods[q] = n}
    BY DEF Owned
  <2> HIDE DEF n
  <2> QED
    BY <1>3, <2>1, <2>2, <2>3, <2>4
<1>5. Cardinality(Owned(n)') = Cardinality(Owned(n)) + 1
    BY <1>4, OwnedType, FS_AddElement
<1>6. /\ Cardinality(Owned(n)) + th[t].left <= cap[n] /\ Cardinality(Owned(n)) \in Nat
      /\ th[t].arg.replicas <= cap[n]
    BY <1>1, OwnedType DEF Provision, Frugal, InReconcile
<1>7. /\ Cardinality(Owned(n)') + th'[t].left <= cap[n]
      /\ Cardinality(Owned(n)') <= cap[n]
    BY <1>1, <1>2, <1>5, <1>6
<1>8. \A m \in RSNames : m # n => Owned(m)' = Owned(m)
    BY <1>2, <1>3, NoOwnerAssumption DEF Owned, TypeOK
<1>9. Frugal(t)'
    BY <1>1, <1>6, <1>7 DEF Frugal
<1>10. ASSUME NEW u \in Threads, u # t PROVE Frugal(u)'
  <2>1. th'[u] = th[u]
    BY <1>1, <1>10 DEF OneThread, TypeOK
  <2>2. \A m \in RSNames : cap[m] <= cap'[m]
    BY <1>1, BoundsAssumption DEF TypeOK
  <2>3. CASE th[u].pc \notin {"getRS", "putRS", "create"}
    BY <2>1, <2>2, <2>3, BystanderFrugal DEF Provision
  <2>4. CASE th[u].pc \in {"getRS", "putRS", "create"}
    <3>1. th[u].arg \in Copies
      BY <2>4 DEF ControlOK, Controlled, Busy
    <3>2. Key(th[u].arg) # Key(th[t].arg)
      BY <1>1, <1>10, <2>4 DEF OneReconcilePerKey, InReconcile
    <3>3. th[u].arg.name # n /\ th[u].arg.name \in RSNames
      BY <1>1, <3>1, <3>2 DEF Key, Copies
    <3>4. Owned(th[u].arg.name)' = Owned(th[u].arg.name)
      BY <1>8, <2>1, <3>3
    <3> QED
      BY <2>1, <2>2, <3>4, BystanderFrugal DEF Provision
  <2> QED
    BY <2>3, <2>4
<1>11. NoOverProvision'
  <2>1. ASSUME NEW m \in RSNames PROVE Cardinality(Owned(m)') <= cap'[m]
    BY <1>1, <1>7, <1>8 DEF Provision, NoOverProvision
  <2> QED
    BY <2>1 DEF NoOverProvision
<1>12. /\ \A a \in todo' : a.replicas <= cap'[a.name]
       /\ \A m \in RSNames : Stored(m)' => rs'[m].replicas <= cap'[m]
    BY <1>1 DEF Provision, Stored
<1> QED
    BY <1>9, <1>10, <1>11, <1>12 DEF Provision

LEMMA CreateClashProvision ==
    ASSUME TypeOK, TypeOK', ControlOK, Provision, NEW t \in Threads, CreateClash(t)
    PROVE  Provision'
<1> DEFINE n == th[t].arg.name
<1>1. /\ OneThread(t) /\ th[t].pc = "create" /\ UNCHANGED <<pods, rs, cap, todo>>
      /\ th[t].arg \in Copies /\ th'[t].arg = th[t].arg
      /\ th'[t].pc \in {"create", "exit"} /\ th'[t].left = th[t].left - 1
    BY CreateRoundThread DEF CreateClash
<1>2. n \in RSNames /\ th[t].left \in Nat /\ cap[n] \in Nat
    BY <1>1, BoundsAssumption DEF Copies, TypeOK, ThreadStates
<1>3. /\ Cardinality(Owned(n)) + th[t].left <= cap[n] /\ Cardinality(Owned(n)) \in Nat
      /\ th[t].arg.replicas <= cap[n]
    BY <1>1, OwnedType DEF Provision, Frugal, InReconcile
<1>4. Cardinality(Owned(n)) + th'[t].left <= cap[n]
    BY <1>1, <1>2, <1>3
<1>5. Owned(n)' = Owned(n)
    BY <1>1 DEF Owned
<1>6. Frugal(t)'
    BY <1>1, <1>3, <1>4, <1>5 DEF Frugal
<1> QED
    BY <1>1, <1>6, QuietStep

LEMMA ExitProvision ==
    ASSUME TypeOK, TypeOK', ControlOK, Provision, NEW t \in Threads, Exit(t)
    PROVE  Provision'
<1>1. OneThread(t) /\ Frugal(t)'
    BY ExitThread, OutsideFrugal DEF Busy
<1> QED
    BY <1>1, QuietStep DEF Exit

(* Steps that delete pods.                                                 *)
LEMMA DeletingStep ==
    ASSUME TypeOK, TypeOK', ControlOK, Provision, UNCHANGED <<rs, cap, todo>>,
           \A p \in PodIds : pods'[p] \in {pods[p], NoOwner},
           th' = th \/ \E t \in Threads : OneThread(t) /\ Frugal(t)'
    PROVE  Provision'
<1>1. \A n \in RSNames : Owned(n)' \subseteq Owned(n)
    BY NoOwnerAssumption DEF Owned
<1>2. \A n \in RSNames : cap[n] <= cap'[n]
    BY BoundsAssumption DEF TypeOK
<1> QED
    BY <1>1, <1>2, ShrinkingStep DEF Provision, Stored

LEMMA RoundProvision ==
    ASSUME TypeOK, TypeOK', ControlOK, Provision, NEW t \in Threads,
           DeletePod(t) \/ DeletePods(t)
    PROVE  Provision'
<1>1. CASE DeletePod(t)
  <2>1. /\ OneThread(t) /\ th'[t].arg = th[t].arg /\ th'[t].pc \in {"delete", "exit"}
        /\ \A p \in PodIds : pods'[p] \in {pods[p], NoOwner}
    BY <1>1, DeleteRoundThread DEF DeletePod
  <2>2. th[t].pc = "delete" /\ UNCHANGED <<rs, cap, todo>>
    BY <1>1 DEF DeletePod
  <2>3. Frugal(t)'
    BY <2>1, <2>2, MovedFrugal DEF InReconcile
  <2> QED
    BY <2>1, <2>2, <2>3, DeletingStep
<1>2. CASE DeletePods(t)
  <2>1. /\ OneThread(t) /\ th'[t].pc \in {"dPods", "dRS"}
        /\ \A p \in PodIds : pods'[p] \in {pods[p], NoOwner}
    BY <1>2, DeleteRoundThread DEF DeletePods
  <2>2. UNCHANGED <<rs, cap, todo>>
    BY <1>2 DEF DeletePods
  <2> QED
    BY <2>1, <2>2, OutsideFrugal, DeletingStep
<1> QED
    BY <1>1, <1>2

LEMMA PostProvision ==
    ASSUME TypeOK, TypeOK', ControlOK, Provision, NEW t \in Threads, NEW a \in Copies,
           PostRS(t, a)
    PROVE  Provision'
<1>1. /\ OneThread(t) /\ th'[t].pc = "enter" /\ th'[t].arg = a /\ UNCHANGED <<pods, todo>>
    BY CallThread DEF PostRS
<1>2. a.name \in RSNames /\ a.replicas \in Nat /\ cap[a.name] \in Nat
    BY BoundsAssumption DEF Copies, TypeOK
<1>3. /\ cap' = [cap EXCEPT ![a.name] = Larger(cap[a.name], a.replicas)]
      /\ rs' = [rs EXCEPT ![a.name] = [ns |-> a.ns, replicas |-> a.replicas, status |-> -1]]
    BY DEF PostRS
<1>4. \A n \in RSNames : cap[n] <= cap'[n] /\ cap[n] \in Nat /\ cap'[n] \in Nat
    BY <1>2, <1>3, BoundsAssumption DEF Larger, TypeOK
<1>5. a.replicas <= cap'[a.name]
    BY <1>2, <1>3 DEF Larger, TypeOK
<1>6. ASSUME NEW n \in RSNames, Stored(n)' PROVE rs'[n].replicas <= cap'[n]
  <2>1. CASE n = a.name
    BY <1>3, <1>5, <2>1 DEF TypeOK
  <2>2. CASE n # a.name
    BY <1>3, <1>6, <2>2 DEF TypeOK, Provision, Stored
  <2> QED
    BY <2>1, <2>2
<1>7. ASSUME NEW b \in todo' PROVE b.replicas <= cap'[b.name]
  <2>1. b \in Copies /\ b.replicas <= cap[b.name]
    BY <1>1, <1>7 DEF Provision, TypeOK
  <2>2. b.name \in RSNames /\ b.replicas \in Nat
    BY <2>1, BoundsAssumption DEF Copies
  <2> QED
    BY <1>4, <2>1, <2>2
<1>8. Frugal(t)'
    BY <1>1, <1>5 DEF Frugal, InReconcile
<1>9. \A n \in RSNames : Owned(n)' \subseteq Owned(n)
    BY <1>1 DEF Owned
<1> QED
    BY <1>1, <1>4, <1>6, <1>7, <1>8, <1>9, ShrinkingStep

LEMMA DeleteProvision ==
    ASSUME TypeOK, TypeOK', ControlOK, Provision, NEW t \in Threads,
           DeleteList(t) \/ DeleteStored(t)
              \/ \E n \in RSNames, ns \in Namespaces : DeleteRS(t, n, ns)
    PROVE  Provision'
<1>1. CASE DeleteList(t)
  <2>1. OneThread(t) /\ Frugal(t)'
    BY <1>1, DeleteListThread, OutsideFrugal
  <2> QED
    BY <1>1, <2>1, QuietStep DEF DeleteList
<1>2. CASE DeleteStored(t)
  <2>1. Rest \in ThreadStates /\ Rest.pc = "idle"
    BY BoundsAssumption DEF Rest, ThreadStates, Pcs
  <2>2. th' = [th EXCEPT ![t] = Rest] /\ th'[t] = Rest
    BY <1>2 DEF DeleteStored, TypeOK
  <2>3. OneThread(t)
    BY <2>1, <2>2 DEF OneThread, Controlled, Busy
  <2>4. Frugal(t)'
    BY <2>1, <2>2, OutsideFrugal
  <2>5. \A n \in RSNames : Owned(n)' \subseteq Owned(n)
    BY <1>2 DEF DeleteStored, Owned
  <2>6. UNCHANGED <<todo, cap>> /\ \A n \in RSNames : cap[n] <= cap'[n]
    BY <1>2, BoundsAssumption DEF DeleteStored, TypeOK
  <2>7. \A n \in RSNames : rs'[n] \in {rs[n], NoRS}
    BY <1>2 DEF DeleteStored, TypeOK
  <2>8. \A n \in RSNames : Stored(n)' => rs'[n].replicas <= cap'[n]
    BY <2>6, <2>7 DEF Provision, Stored
  <2>9. \A a \in todo' : a.replicas <= cap'[a.name]
    BY <2>6 DEF Provision
  <2> QED
    BY <2>3, <2>4, <2>5, <2>6, <2>8, <2>9, ShrinkingStep
<1>3. ASSUME NEW n \in RSNames, NEW ns \in Namespaces, DeleteRS(t, n, ns)
      PROVE  Provision'
  <2>1. [name |-> n, ns |-> ns, replicas |-> 0] \in Copies
    BY BoundsAssumption DEF Copies
  <2>2. OneThread(t) /\ th'[t].pc = "dList"
    BY <1>3, <2>1, CallThread DEF DeleteRS
  <2> QED
    BY <1>3, <2>2, OutsideFrugal, QuietStep DEF DeleteRS
<1> QED
    BY <1>1, <1>2, <1>3

LEMMA LoopProvision ==
    ASSUME TypeOK, TypeOK', ControlOK, Provision,
           Tick \/ LoopNext \/ Stop \/ LoopExit \/ UNCHANGED vars
    PROVE  Provision'
<1>1. CASE Tick
  <2>1. UNCHANGED <<rs, pods, th, cap>>
    BY <1>1 DEF Tick
  <2>2. ASSUME NEW n \in RSNames, Stored(n)
        PROVE  CopyOf(n).replicas <= cap[CopyOf(n).name]
    BY <2>2 DEF CopyOf, Provision
  <2>3. \A a \in todo' : a.replicas <= cap'[a.name]
    BY <1>1, <2>1, <2>2 DEF Tick
  <2>4. \A n \in RSNames : Owned(n)' \subseteq Owned(n)
    BY <2>1 DEF Owned
  <2>5. \A n \in RSNames : cap[n] <= cap'[n]
    BY <2>1, BoundsAssumption DEF TypeOK
  <2>6. \A n \in RSNames : Stored(n)' => rs'[n].replicas <= cap'[n]
    BY <2>1 DEF Provision, Stored
  <2> QED
    BY <2>1, <2>3, <2>4, <2>5, <2>6, ShrinkingStep
<1>2. CASE LoopNext
  <2>1. PICK a \in todo : /\ th' = [th EXCEPT ![Loop] = [@ EXCEPT !.pc = "enter", !.arg = a]]
                          /\ todo' = todo \ {a}
    BY <1>2 DEF LoopNext
  <2>2. a \in Copies /\ Loop \in Threads /\ a.replicas <= cap[a.name]
    BY DEF TypeOK, Threads, Provision
  <2>3. OneThread(Loop) /\ th'[Loop].pc = "enter" /\ th'[Loop].arg = a
    BY <2>1, <2>2, CallThread
  <2>4. UNCHANGED <<rs, pods, cap>>
    BY <1>2 DEF LoopNext
  <2>5. Frugal(Loop)'
    BY <2>2, <2>3, <2>4 DEF Frugal, InReconcile
  <2> QED
    BY <2>1, <2>2, <2>3, <2>4, <2>5, QuietStep
<1>3. CASE LoopExit
  <2> DEFINE x == [th[Loop] EXCEPT !.pc = "exited"]
  <2>1. Loop \in Threads /\ th[Loop] \in ThreadStates
    BY DEF Threads, TypeOK
  <2>2. th' = [th EXCEPT ![Loop] = x] /\ th'[Loop] = x
    BY <1>3, <2>1 DEF LoopExit, TypeOK
  <2>3. x \in ThreadStates /\ x.pc = "exited"
    BY <2>1 DEF ThreadStates, Pcs
  <2>4. OneThread(Loop) /\ Frugal(Loop)'
    BY <2>1, <2>2, <2>3, OutsideFrugal DEF OneThread, Controlled, Busy
  <2> QED
    BY <1>3, <2>1, <2>4, QuietStep DEF LoopExit
<1>4. CASE Stop \/ UNCHANGED vars
    BY <1>4, QuietStep DEF Stop, vars
<1> QED
    BY <1>1, <1>2, <1>3, <1>4

LEMMA ProvisionStep ==
    ASSUME TypeOK, TypeOK', ControlOK, OneReconcilePerKey, Provision,
           \E ns : Namespaces = {ns}, [Next]_vars
    PROVE  Provision'
<1>1. ASSUME NEW t \in Threads, ReconcileStep(t) PROVE Provision'
  <2>1. CASE CreatePod(t)
    BY <2>1, CreatePodProvision
  <2>2. CASE ~CreatePod(t)
    BY <1>1, <2>2, EnterProvision, CountProvision, GetRSProvision, PutRSProvision,
       CreateClashProvision, RoundProvision, ExitProvision
    DEF ReconcileStep
  <2> QED
    BY <2>1, <2>2
<1>2. ASSUME NEW t \in Handlers, Request(t) \/ HandlerStep(t) PROVE Provision'
  <2>1. t \in Threads
    BY DEF Threads
  <2> QED
    BY <1>2, <2>1, PostProvision, DeleteProvision, RoundProvision DEF Request, HandlerStep
<1>3. ASSUME NEW p \in PodIds, KillPod(p) PROVE Provision'
  <2>1. UNCHANGED <<rs, cap, todo, th>> /\ \A q \in PodIds : pods'[q] \in {pods[q], NoOwner}
    BY <1>3 DEF KillPod, TypeOK
  <2> QED
    BY <2>1, DeletingStep
<1> QED
    BY <1>1, <1>2, <1>3, LoopProvision DEF Next

(* However stale the counts, copies and specs the reconciles work with, a  *)
(* ReplicaSet never gets more pods than were ever asked for under its      *)
(* name: the goroutine that counts them is the only one that adds any, and *)
(* what it adds is what was missing when it counted.                       *)
THEOREM ProvisionBound ==
    ASSUME \E ns : Namespaces = {ns}
    PROVE  Spec => []NoOverProvision
<1> DEFINE Inv == TypeOK /\ ControlOK /\ OneReconcilePerKey /\ Provision
<1>1. Init => Inv
  <2> SUFFICES ASSUME Init PROVE Inv
    OBVIOUS
  <2>1. TypeOK /\ ControlOK
    BY TypeInit, ControlInit
  <2>2. \A t \in Threads : th[t].pc \in {"idle", "loop"}
    BY DEF Init, Rest
  <2>3. OneReconcilePerKey
    BY <2>2 DEF Init, OneReconcilePerKey, InReconcile
  <2>4. \A t \in Threads : Frugal(t)
    BY <2>2 DEF Frugal, InReconcile
  <2>5. ASSUME NEW n \in RSNames PROVE Cardinality(Owned(n)) <= cap[n]
    <3>1. Owned(n) = {}
      BY NoOwnerAssumption DEF Init, Owned
    <3> QED
      BY <3>1, FS_EmptySet DEF Init
  <2>6. \A n \in RSNames : ~Stored(n)
    BY DEF Init, Stored
  <2> QED
    BY <2>1, <2>3, <2>4, <2>5, <2>6 DEF Init, Provision, NoOverProvision
<1>2. Inv /\ [Next]_vars => Inv'
    BY TypeStep, MutexStep, ProvisionStep
<1>3. Inv => NoOverProvision
    BY DEF Provision
<1> HIDE DEF Inv
<1> QED
    BY <1>1, <1>2, <1>3, PTL DEF Spec
-----------------------------------------------------------------------------
(* The refinement of Provisioning.                                         *)

(* Provisioning again, with what is proved of it.                          *)
PVP == INSTANCE ProvisioningProofs WITH owner <- pods, plan <- planned

LEMMA Counts ==
    ASSUME NEW S
    PROVE  PV!Cardinality(S) = Cardinality(S) /\ PVP!Cardinality(S) = Cardinality(S)
BY DEF PV!Cardinality, PVP!Cardinality, Cardinality

LEMMA SameSpec == PVP!Spec => PV!Spec
<1>1. PVP!Init => PV!Init
    BY DEF PV!Init, PVP!Init, PV!NoPlan, PVP!NoPlan
<1>2. ASSUME NEW n, NEW add, NEW drop, NEW c
      PROVE  PVP!Act(n, add, drop, c) => PV!Act(n, add, drop, c)
    BY DEF PV!Act, PVP!Act
<1>3. ASSUME NEW n \in RSNames, NEW goal \in 0..MaxReplicas, PVP!Look(n, goal)
      PROVE  PV!Look(n, goal)
    BY <1>3 DEF PV!Look, PVP!Look, PV!PodsOf, PVP!PodsOf
<1>4. ASSUME NEW n \in RSNames, PVP!Decide(n) PROVE PV!Decide(n)
    BY <1>2, <1>4, Counts DEF PV!Decide, PVP!Decide
<1>5. ASSUME NEW n \in RSNames, PVP!Select(n) PROVE PV!Select(n)
    BY <1>2, <1>5, Counts DEF PV!Select, PVP!Select
<1>6. ASSUME NEW n \in RSNames, PVP!Add(n) \/ PVP!Fail(n) \/ PVP!Drop(n)
      PROVE  PV!Add(n) \/ PV!Fail(n) \/ PV!Drop(n)
    BY <1>2, <1>6 DEF PV!Add, PVP!Add, PV!Fail, PVP!Fail, PV!Drop, PVP!Drop
<1>7. ASSUME NEW n \in RSNames, PVP!Finish(n) \/ PVP!Lose(n)
      PROVE  PV!Finish(n) \/ PV!Lose(n)
    BY <1>7 DEF PV!Finish, PVP!Finish, PV!Lose, PVP!Lose, PV!PodsOf, PVP!PodsOf,
                PV!NoPlan, PVP!NoPlan
<1>8. UNCHANGED PVP!pVars => UNCHANGED PV!pVars
    BY DEF PV!pVars, PVP!pVars
<1>9. [PVP!Next]_(PVP!pVars) => [PV!Next]_(PV!pVars)
    BY <1>3, <1>4, <1>5, <1>6, <1>7, <1>8 DEF PV!Next, PVP!Next
<1> QED
    BY <1>1, <1>9, PTL DEF PV!Spec, PVP!Spec

(* A goroutine carries pods it counted, a number to create, or pods to     *)
(* delete only where it uses them, and what it carries nobody took over.   *)
Tidy(x) == /\ x.pc # "create" => x.left = 0
           /\ x.pc \notin {"getRS", "putRS"} => x.counted = {}
           /\ x.pc \notin {"delete", "dPods"} => x.victims = {}
Claim(t) == \A p \in th[t].counted \cup th[t].victims : pods[p] \in {th[t].arg.name, NoOwner}
Carried == \A t \in Threads : Tidy(th[t]) /\ Claim(t)

RInv == TypeOK /\ ControlOK /\ OneReconcilePerKey /\ Carried

(* What deciding how to scale leaves for the goroutine to do.              *)
Scaled(t) ==
    LET goal == th[t].arg.replicas
        seen == th[t].counted
    IN  /\ th'[t].arg = th[t].arg /\ th'[t].counted = {}
        /\ th'[t].pc \in {"create", "delete", "exit"}
        /\ \/ /\ Cardinality(seen) <= goal
              /\ th'[t].left = goal - Cardinality(seen) /\ th'[t].victims = {}
           \/ /\ Cardinality(seen) > goal
              /\ th'[t].left = 0 /\ th'[t].victims \in SUBSET seen
              /\ Cardinality(th'[t].victims) = Cardinality(seen) - goal

LEMMA ScaleScaled ==
    ASSUME TypeOK, NEW t \in Threads, th[t].arg \in Copies, Scale(t)
    PROVE  Scaled(t) /\ Tidy(th'[t])
<1> DEFINE goal == th[t].arg.replicas
           seen == th[t].counted
           current == Cardinality(seen)
<1>1. seen \in SUBSET PodIds /\ current \in Nat /\ goal \in Nat
    BY CountType, BoundsAssumption DEF TypeOK, ThreadStates, Copies
<1>2. PICK victims \in Surplus(goal, seen) :
        th' = [th EXCEPT ![t] =
                  [pc |-> IF current < goal THEN "create"
                          ELSE IF current > goal THEN "delete" ELSE "exit",
                   arg |-> th[t].arg, counted |-> {}, read |-> NoRS,
                   left |-> Missing(goal, current), victims |-> victims]]
    BY DEF Scale
<1> DEFINE next == IF current < goal THEN "create"
                   ELSE IF current > goal THEN "delete" ELSE "exit"
           left == Missing(goal, current)
           state == [pc |-> next, arg |-> th[t].arg, counted |-> {}, read |-> NoRS,
                     left |-> left, victims |-> victims]
<1>3. th'[t] = state
    BY <1>2 DEF TypeOK
<1>4. /\ current <= goal => left = goal - current
      /\ current > goal => left = 0
      /\ next # "create" => left = 0
      /\ next \in {"create", "delete", "exit"}
    BY <1>1 DEF Missing
<1>5. /\ current <= goal => victims = {}
      /\ current > goal => victims \in SUBSET seen /\ Cardinality(victims) = current - goal
    BY <1>1, <1>2 DEF Surplus, kSubset
<1>6. next # "delete" => victims = {}
    BY <1>1, <1>5
<1> HIDE DEF next, left
<1>7. /\ state.pc = next /\ state.arg = th[t].arg /\ state.counted = {}
      /\ state.left = left /\ state.victims = victims
    OBVIOUS
<1> HIDE DEF state
<1>8. Tidy(th'[t])
    BY <1>3, <1>4, <1>6, <1>7 DEF Tidy
<1>9. /\ th'[t].pc \in {"create", "delete", "exit"} /\ th'[t].arg = th[t].arg
      /\ th'[t].counted = {} /\ th'[t].left = left /\ th'[t].victims = victims
    BY <1>3, <1>4, <1>7
<1>10. \/ /\ current <= goal /\ left = goal - current /\ victims = {}
       \/ /\ current > goal /\ left = 0 /\ victims \in SUBSET seen
          /\ Cardinality(victims) = current - goal
    BY <1>1, <1>4, <1>5
<1> QED
    BY <1>8, <1>9, <1>10 DEF Scaled

(* A goroutine that moved carries what it may.                             *)
Moved(t) == OneThread(t) /\ Tidy(th'[t]) /\ Claim(t)'

LEMMA Unloaded ==
    ASSUME NEW t \in Threads, th'[t].counted = {}, th'[t].victims = {}
    PROVE  Claim(t)'
BY DEF Claim

(* Whoever carries no more than before, for the same name, may still.      *)
LEMMA ClaimKept ==
    ASSUME TypeOK, NEW t \in Threads, Claim(t), th'[t].arg = th[t].arg,
           th'[t].counted \cup th'[t].victims \subseteq th[t].counted \cup th[t].victims,
           \A p \in PodIds : pods'[p] \in {pods[p], NoOwner}
    PROVE  Claim(t)'
<1>1. th[t].counted \in SUBSET PodIds /\ th[t].victims \in SUBSET PodIds
    BY DEF TypeOK, ThreadStates
<1> QED
    BY <1>1 DEF Claim

LEMMA EnterMoved ==
    ASSUME RInv, NEW t \in Threads, Enter(t)
    PROVE  Moved(t) /\ th'[t].pc \in {"idle", "loop", "count"}
<1>1. /\ th[t].pc = "enter" /\ OneThread(t) /\ th[t] \in ThreadStates
      /\ th[t].left = 0 /\ th[t].counted = {} /\ th[t].victims = {}
    BY EnterThread DEF Enter, RInv, Carried, Tidy, TypeOK
<1>2. CASE Held(Key(th[t].arg))
  <2>1. th'[t] = Return(t)
    BY <1>2 DEF Enter, RInv, TypeOK
  <2>2. /\ Return(t).pc \in {"idle", "loop"} /\ Return(t).left = 0
        /\ Return(t).counted = {} /\ Return(t).victims = {}
    BY DEF Return, Rest
  <2> QED
    BY <1>1, <2>1, <2>2, Unloaded DEF Moved, Tidy
<1>3. CASE ~Held(Key(th[t].arg))
  <2>1. th'[t] = [th[t] EXCEPT !.pc = "count"]
    BY <1>3 DEF Enter, RInv, TypeOK
  <2>2. /\ th'[t].pc = "count" /\ th'[t].left = 0
        /\ th'[t].counted = {} /\ th'[t].victims = {}
    BY <1>1, <2>1 DEF ThreadStates
  <2> QED
    BY <1>1, <2>2, Unloaded DEF Moved, Tidy
<1> QED
    BY <1>2, <1>3

LEMMA CountMoved ==
    ASSUME RInv, NEW t \in Threads, Count(t)
    PROVE  /\ Moved(t) /\ th'[t].pc = "getRS" /\ th'[t].arg = th[t].arg
           /\ th'[t].counted = Owned(th[t].arg.name)
           /\ th'[t].left = 0 /\ th'[t].victims = {}
<1>1. /\ OneThread(t) /\ th'[t].pc = "getRS" /\ th'[t].arg = th[t].arg
      /\ th'[t].counted = Owned(th[t].arg.name) /\ th[t].pc = "count" /\ pods' = pods
    BY CountThread DEF Count, RInv
<1>2. th[t] \in ThreadStates /\ th[t].left = 0 /\ th[t].victims = {}
    BY <1>1 DEF RInv, TypeOK, Carried, Tidy
<1>3. th'[t].left = 0 /\ th'[t].victims = {}
    BY <1>2 DEF Count, RInv, TypeOK, ThreadStates
<1>4. Claim(t)'
    BY <1>1, <1>3 DEF Claim, Owned
<1> QED
    BY <1>1, <1>3, <1>4 DEF Moved, Tidy

LEMMA ScaledMoved ==
    ASSUME RInv, NEW t \in Threads, th[t].pc \in {"getRS", "putRS"}, Scale(t), pods' = pods
    PROVE  Moved(t) /\ Scaled(t)
<1>1. th[t].arg \in Copies
    BY DEF RInv, ControlOK, Controlled, Busy
<1>2. OneThread(t) /\ Scaled(t) /\ Tidy(th'[t])
    BY <1>1, ScaleThread, ScaleScaled DEF RInv
<1>3. Claim(t)'
    BY <1>2, ClaimKept DEF Scaled, RInv, Carried
<1> QED
    BY <1>2, <1>3 DEF Moved

LEMMA GetRSMoved ==
    ASSUME RInv, NEW t \in Threads, GetRS(t)
    PROVE  /\ Moved(t) /\ th'[t].arg = th[t].arg
           /\ \/ /\ th'[t].pc = "putRS" /\ th'[t].counted = th[t].counted
                 /\ th'[t].left = th[t].left /\ th'[t].victims = th[t].victims
              \/ Scaled(t)
<1>1. /\ th[t].pc = "getRS" /\ pods' = pods /\ th[t] \in ThreadStates
      /\ th[t].left = 0 /\ th[t].victims = {} /\ Claim(t)
    BY DEF GetRS, RInv, TypeOK, Carried, Tidy
<1>2. CASE Stored(th[t].arg.name)
  <2>1. OneThread(t) /\ th'[t].arg = th[t].arg
    BY GetRSThread DEF RInv
  <2>2. /\ th'[t].pc = "putRS" /\ th'[t].counted = th[t].counted
        /\ th'[t].left = th[t].left /\ th'[t].victims = th[t].victims
    <3>1. th'[t] = [th[t] EXCEPT !.pc = "putRS", !.read = rs[th[t].arg.name]]
      BY <1>2 DEF GetRS, FromStore, RInv, TypeOK
    <3> QED
      BY <1>1, <3>1 DEF ThreadStates
  <2>3. Claim(t)'
    BY <1>1, <2>1, <2>2, ClaimKept DEF RInv
  <2> QED
    BY <1>1, <2>1, <2>2, <2>3 DEF Moved, Tidy
<1>3. CASE ~Stored(th[t].arg.name)
    BY <1>1, <1>3, ScaledMoved DEF GetRS, Scaled
<1> QED
    BY <1>2, <1>3

LEMMA CreateMoved ==
    ASSUME RInv, NEW t \in Threads, CreatePod(t) \/ CreateClash(t)
    PROVE  /\ Moved(t) /\ th[t].pc = "create" /\ th'[t].arg = th[t].arg
           /\ th'[t].pc \in {"create", "exit"}
           /\ th'[t].left = th[t].left - 1 /\ th[t].left > 0
           /\ th'[t].counted = {} /\ th'[t].victims = {}
<1>1. /\ th[t].pc = "create" /\ CreateRound(t)
    BY DEF CreatePod, CreateClash
<1>2. /\ OneThread(t) /\ th'[t].arg = th[t].arg /\ th'[t].pc \in {"create", "exit"}
      /\ th'[t].left = th[t].left - 1
    BY <1>1, CreateRoundThread DEF RInv
<1>3. /\ th[t] \in ThreadStates /\ th[t].left > 0 /\ th[t].left \in Nat
      /\ th[t].counted = {} /\ th[t].victims = {}
    BY <1>1, BoundsAssumption DEF RInv, ControlOK, Controlled, TypeOK, ThreadStates, Carried, Tidy
<1> DEFINE left == th[t].left - 1
           next == IF left = 0 THEN "exit" ELSE "create"
<1>4. th'[t] = [th[t] EXCEPT !.left = left, !.pc = next]
    BY <1>1 DEF CreateRound, RInv, TypeOK
<1>5. next # "create" => left = 0
    OBVIOUS
<1> HIDE DEF next, left
<1>6. /\ th'[t].counted = {} /\ th'[t].victims = {} /\ th'[t].left = left /\ th'[t].pc = next
    BY <1>3, <1>4 DEF ThreadStates
<1>7. Tidy(th'[t])
    BY <1>5, <1>6 DEF Tidy
<1> QED
    BY <1>1, <1>2, <1>3, <1>6, <1>7, Unloaded DEF Moved

LEMMA DeleteMoved ==
    ASSUME RInv, NEW t \in Threads, DeletePod(t) \/ DeletePods(t)
    PROVE  /\ Moved(t) /\ th'[t].arg = th[t].arg
           /\ th'[t].pc = th[t].pc
                \/ th'[t].pc = IF DeletePod(t) THEN "exit" ELSE "dRS"
           /\ th'[t].counted = {} /\ th'[t].left = 0
           /\ \E p \in th[t].victims : /\ th'[t].victims = th[t].victims \ {p}
                                       /\ p \in PodIds
                                       /\ pods' = [pods EXCEPT ![p] = NoOwner]
<1>1. ASSUME NEW next \in {"exit", "dRS"}, th[t].pc \in {"delete", "dPods"}, DeleteRound(t, next)
      PROVE  /\ Moved(t) /\ th'[t].arg = th[t].arg
             /\ th'[t].pc \in {th[t].pc, next}
             /\ th'[t].counted = {} /\ th'[t].left = 0
             /\ \E p \in th[t].victims : /\ th'[t].victims = th[t].victims \ {p}
                                         /\ p \in PodIds
                                         /\ pods' = [pods EXCEPT ![p] = NoOwner]
  <2>1. /\ OneThread(t) /\ th'[t].arg = th[t].arg /\ th'[t].pc \in {th[t].pc, next}
        /\ \A p \in PodIds : pods'[p] \in {pods[p], NoOwner}
    BY <1>1, DeleteRoundThread DEF RInv
  <2>2. /\ th[t] \in ThreadStates /\ th[t].victims \in SUBSET PodIds
        /\ th[t].left = 0 /\ th[t].counted = {} /\ Claim(t)
    BY <1>1 DEF RInv, TypeOK, ThreadStates, Carried, Tidy
  <2>3. PICK p \in th[t].victims :
          /\ pods' = [pods EXCEPT ![p] = NoOwner]
          /\ th' = [th EXCEPT ![t] = [@ EXCEPT !.victims = th[t].victims \ {p},
                                               !.pc = IF th[t].victims \ {p} = {} THEN next
                                                      ELSE th[t].pc]]
    BY <1>1 DEF DeleteRound
  <2> DEFINE rest == th[t].victims \ {p}
             pc == IF rest = {} THEN next ELSE th[t].pc
  <2>4. th'[t] = [th[t] EXCEPT !.victims = rest, !.pc = pc]
    BY <2>3 DEF RInv, TypeOK
  <2>5. pc \notin {"delete", "dPods"} => rest = {}
    BY <1>1
  <2>6. pc \in {"delete", "dPods", "exit", "dRS"}
    BY <1>1
  <2> HIDE DEF rest, pc
  <2>7. /\ th'[t].counted = {} /\ th'[t].left = 0 /\ th'[t].victims = rest /\ th'[t].pc = pc
    BY <2>2, <2>4 DEF ThreadStates
  <2>8. Tidy(th'[t])
    BY <2>5, <2>6, <2>7 DEF Tidy
  <2>9. Claim(t)'
    <3>1. th'[t].counted \cup th'[t].victims \subseteq th[t].counted \cup th[t].victims
      BY <2>2, <2>7 DEF rest
    <3> QED
      BY <2>1, <2>2, <3>1, ClaimKept DEF RInv
  <2> QED
    BY <2>1, <2>2, <2>3, <2>7, <2>8, <2>9 DEF Moved, rest
<1>2. CASE DeletePod(t)
    BY <1>1, <1>2 DEF DeletePod
<1>3. CASE DeletePods(t)
  <2>1. ~DeletePod(t) /\ th[t].pc = "dPods" /\ DeleteRound(t, "dRS")
    BY <1>3 DEF DeletePod, DeletePods
  <2> QED
    BY <1>1, <2>1
<1> QED
    BY <1>2, <1>3

LEMMA ExitMoved ==
    ASSUME RInv, NEW t \in Threads, Exit(t)
    PROVE  Moved(t) /\ th'[t].pc \in {"idle", "loop"}
<1>1. OneThread(t)
    BY ExitThread DEF RInv
<1>2. th'[t] = Return(t)
    BY DEF Exit, RInv, TypeOK
<1>3. /\ Return(t).pc \in {"idle", "loop"} /\ Return(t).left = 0
      /\ Return(t).counted = {} /\ Return(t).victims = {}
    BY DEF Return, Rest
<1> QED
    BY <1>1, <1>2, <1>3, Unloaded DEF Moved, Tidy

(* Calls and requests: nothing is carried yet.                             *)
LEMMA CallMoved ==
    ASSUME RInv, NEW t \in Threads, NEW a \in Copies, NEW pc \in {"enter", "dList"},
           th[t].pc \in {"idle", "loop"},
           th' = [th EXCEPT ![t] = [@ EXCEPT !.pc = pc, !.arg = a]]
    PROVE  Moved(t) /\ th'[t].pc = pc
<1>1. OneThread(t) /\ th'[t].pc = pc
    BY CallThread DEF RInv
<1>2. th[t] \in ThreadStates /\ th[t].left = 0 /\ th[t].counted = {} /\ th[t].victims = {}
    BY DEF RInv, TypeOK, Carried, Tidy
<1>3. th'[t].left = 0 /\ th'[t].counted = {} /\ th'[t].victims = {}
    BY <1>2 DEF RInv, TypeOK, ThreadStates
<1> QED
    BY <1>1, <1>3, Unloaded DEF Moved, Tidy

LEMMA RequestMoved ==
    ASSUME RInv, NEW t \in Handlers, Request(t)
    PROVE  Moved(t) /\ th[t].pc = "idle" /\ th'[t].pc \in {"enter", "dList"}
<1>1. t \in Threads
    BY DEF Threads
<1>2. ASSUME NEW a \in Copies, PostRS(t, a) PROVE Moved(t) /\ th[t].pc = "idle" /\ th'[t].pc = "enter"
    BY <1>1, <1>2, CallMoved DEF PostRS
<1>3. ASSUME NEW n \in RSNames, NEW ns \in Namespaces, DeleteRS(t, n, ns)
      PROVE  Moved(t) /\ th[t].pc = "idle" /\ th'[t].pc = "dList"
  <2>1. [name |-> n, ns |-> ns, replicas |-> 0] \in Copies
    BY BoundsAssumption DEF Copies
  <2> QED
    BY <1>1, <1>3, <2>1, CallMoved DEF DeleteRS
<1> QED
    BY <1>2, <1>3 DEF Request

LEMMA DeleteListMoved ==
    ASSUME RInv, NEW t \in Threads, DeleteList(t)
    PROVE  Moved(t) /\ th[t].pc = "dList" /\ th'[t].pc \in {"dRS", "dPods"}
<1> DEFINE victims == Owned(th[t].arg.name)
           pc == IF victims = {} THEN "dRS" ELSE "dPods"
<1>1. /\ OneThread(t) /\ th[t].pc = "dList" /\ pods' = pods /\ th[t] \in ThreadStates
      /\ th[t].left = 0 /\ th[t].counted = {}
    BY DeleteListThread DEF DeleteList, RInv, TypeOK, Carried, Tidy
<1>2. th'[t] = [th[t] EXCEPT !.pc = pc, !.victims = victims]
    BY DEF DeleteList, RInv, TypeOK
<1>3. pc \in {"dRS", "dPods"} /\ (pc # "dPods" => victims = {})
    OBVIOUS
<1>4. \A p \in victims : pods[p] = th[t].arg.name
    BY DEF Owned
<1> HIDE DEF victims, pc
<1>5. /\ th'[t].left = 0 /\ th'[t].counted = {} /\ th'[t].victims = victims
      /\ th'[t].pc = pc /\ th'[t].arg = th[t].arg
    BY <1>1, <1>2 DEF ThreadStates
<1>6. Claim(t)'
    BY <1>1, <1>4, <1>5 DEF Claim
<1>7. Tidy(th'[t])
    BY <1>3, <1>5 DEF Tidy
<1> QED
    BY <1>1, <1>3, <1>5, <1>6, <1>7 DEF Moved

LEMMA DeleteStoredMoved ==
    ASSUME RInv, NEW t \in Threads, DeleteStored(t)
    PROVE  Moved(t) /\ th[t].pc = "dRS" /\ th'[t].pc = "idle"
<1>1. th' = [th EXCEPT ![t] = Rest] /\ th'[t] = Rest /\ th[t].pc = "dRS"
    BY DEF DeleteStored, RInv, TypeOK
<1>2. /\ Rest \in ThreadStates /\ Rest.pc = "idle" /\ Rest.left = 0
      /\ Rest.counted = {} /\ Rest.victims = {}
    BY BoundsAssumption DEF Rest, ThreadStates, Pcs
<1> QED
    BY <1>1, <1>2, Unloaded DEF Moved, Tidy, OneThread, Controlled, Busy

LEMMA LoopMoved ==
    ASSUME RInv, LoopNext \/ LoopExit
    PROVE  Moved(Loop) /\ th[Loop].pc = "loop" /\ th'[Loop].pc \in {"enter", "exited"}
<1>1. Loop \in Threads /\ th[Loop].pc = "loop" /\ th[Loop] \in ThreadStates
    BY DEF Threads, LoopNext, LoopExit, RInv, TypeOK
<1>2. CASE LoopNext
  <2>1. PICK a \in todo : th' = [th EXCEPT ![Loop] = [@ EXCEPT !.pc = "enter", !.arg = a]]
    BY <1>2 DEF LoopNext
  <2>2. a \in Copies
    BY DEF RInv, TypeOK
  <2> QED
    BY <1>1, <2>1, <2>2, CallMoved
<1>3. CASE LoopExit
  <2> DEFINE x == [th[Loop] EXCEPT !.pc = "exited"]
  <2>1. th' = [th EXCEPT ![Loop] = x] /\ th'[Loop] = x
    BY <1>1, <1>3 DEF LoopExit, RInv, TypeOK
  <2>2. th[Loop].left = 0 /\ th[Loop].counted = {} /\ th[Loop].victims = {}
    BY <1>1 DEF RInv, Carried, Tidy
  <2>3. /\ x \in ThreadStates /\ x.pc = "exited" /\ x.left = 0
        /\ x.counted = {} /\ x.victims = {}
    BY <1>1, <2>2 DEF ThreadStates, Pcs
  <2> HIDE DEF x
  <2> QED
    BY <1>1, <2>1, <2>3, Unloaded DEF Moved, Tidy, OneThread, Controlled, Busy
<1> QED
    BY <1>2, <1>3

(* Pods are only taken away, or the new one is in nobody's hands, and the  *)
(* goroutine that moved carries what it may.                               *)
LEMMA CarriedKept ==
    ASSUME RInv, th' = th \/ \E t \in Threads : Moved(t),
           \A u \in Threads : \A p \in th[u].counted \cup th[u].victims :
             pods'[p] \in {pods[p], NoOwner}
    PROVE  Carried'
<1>1. ASSUME NEW u \in Threads, th'[u] = th[u] PROVE Tidy(th'[u]) /\ Claim(u)'
    BY <1>1 DEF RInv, Carried, Claim
<1>2. ASSUME NEW t \in Threads, Moved(t) PROVE Carried'
  <2>1. \A u \in Threads : u # t => th'[u] = th[u]
    BY <1>2 DEF Moved, OneThread, RInv, TypeOK
  <2> QED
    BY <1>1, <1>2, <2>1 DEF Moved, Carried
<1> QED
    BY <1>1, <1>2 DEF Carried

LEMMA RStep ==
    ASSUME RInv, [Next]_vars
    PROVE  RInv'
<1>1. TypeOK' /\ ControlOK' /\ OneReconcilePerKey'
    BY TypeStep, MutexStep DEF RInv
<1>2. \A u \in Threads : th[u].counted \in SUBSET PodIds /\ th[u].victims \in SUBSET PodIds
    BY DEF RInv, TypeOK, ThreadStates
<1>3. ASSUME th' = th \/ \E t \in Threads : Moved(t),
             \A p \in PodIds : pods'[p] \in {pods[p], NoOwner}
      PROVE  Carried'
    BY <1>2, <1>3, CarriedKept
<1>4. ASSUME NEW t \in Threads, ReconcileStep(t) PROVE Carried'
  <2>1. CASE Enter(t)
    BY <1>3, <2>1, EnterMoved DEF Enter
  <2>2. CASE Count(t)
    BY <1>3, <2>2, CountMoved DEF Count
  <2>3. CASE GetRS(t)
    BY <1>3, <2>3, GetRSMoved DEF GetRS
  <2>4. CASE PutRS(t)
    BY <1>3, <2>4, ScaledMoved DEF PutRS
  <2>5. CASE CreatePod(t)
    <3>1. Moved(t)
      BY <2>5, CreateMoved
    <3>2. PICK p \in PodIds : ~Mentioned(p) /\ pods' = [pods EXCEPT ![p] = th[t].arg.name]
      BY <2>5 DEF CreatePod
    <3>3. \A u \in Threads : \A q \in th[u].counted \cup th[u].victims : q # p /\ q \in PodIds
      BY <1>2, <3>2 DEF Mentioned
    <3>4. \A u \in Threads : \A q \in th[u].counted \cup th[u].victims : pods'[q] = pods[q]
      BY <3>2, <3>3 DEF RInv, TypeOK
    <3> QED
      BY <3>1, <3>4, CarriedKept
  <2>6. CASE CreateClash(t)
    BY <1>3, <2>6, CreateMoved DEF CreateClash
  <2>7. CASE DeletePod(t)
    BY <1>3, <2>7, DeleteMoved DEF RInv, TypeOK
  <2>8. CASE Exit(t)
    BY <1>3, <2>8, ExitMoved DEF Exit
  <2> QED
    BY <1>4, <2>1, <2>2, <2>3, <2>4, <2>5, <2>6, <2>7, <2>8 DEF ReconcileStep
<1>5. ASSUME NEW t \in Handlers, Request(t) \/ HandlerStep(t) PROVE Carried'
  <2>1. t \in Threads
    BY DEF Threads
  <2>2. CASE Request(t)
    <3>1. pods' = pods
      BY <2>2 DEF Request, PostRS, DeleteRS
    <3> QED
      BY <1>3, <2>1, <2>2, <3>1, RequestMoved
  <2>3. CASE DeleteList(t)
    BY <1>3, <2>1, <2>3, DeleteListMoved DEF DeleteList
  <2>4. CASE DeletePods(t)
    BY <1>3, <2>1, <2>4, DeleteMoved DEF RInv, TypeOK
  <2>5. CASE DeleteStored(t)
    BY <1>3, <2>1, <2>5, DeleteStoredMoved DEF DeleteStored
  <2> QED
    BY <1>5, <2>2, <2>3, <2>4, <2>5 DEF HandlerStep
<1>6. ASSUME NEW p \in PodIds, KillPod(p) PROVE Carried'
    BY <1>3, <1>6 DEF KillPod, RInv, TypeOK
<1>7. ASSUME LoopNext \/ LoopExit PROVE Carried'
  <2>1. Loop \in Threads /\ pods' = pods
    BY <1>7 DEF Threads, LoopNext, LoopExit
  <2>2. Moved(Loop)
    BY <1>7, LoopMoved
  <2>3. \A p \in PodIds : pods'[p] \in {pods[p], NoOwner}
    BY <2>1
  <2> QED
    BY <1>3, <2>1, <2>2, <2>3
<1>8. ASSUME Tick \/ Stop \/ UNCHANGED vars PROVE Carried'
  <2>1. th' = th /\ pods' = pods
    BY <1>8 DEF Tick, Stop, vars
  <2> QED
    BY <2>1 DEF Carried, RInv, Claim
<1> QED
    BY <1>1, <1>4, <1>5, <1>6, <1>7, <1>8 DEF Next, RInv

-----------------------------------------------------------------------------
(* What the plans of the names are. In a single namespace the guard leaves *)
(* one goroutine to plan for a name.                                       *)
LEMMA SolePlanner ==
    ASSUME \E ns : Namespaces = {ns}, TypeOK, ControlOK, OneReconcilePerKey,
           NEW t \in Threads, NEW u \in Threads, InReconcile(t), InReconcile(u),
           th[t].arg.name = th[u].arg.name
    PROVE  t = u
<1>1. th[t].arg \in Copies /\ th[u].arg \in Copies
    BY DEF ControlOK, Controlled, Busy, InReconcile
<1>2. Key(th[t].arg) = Key(th[u].arg)
    BY <1>1 DEF Key, Copies
<1> QED
    BY <1>2 DEF OneReconcilePerKey

LEMMA PlannedBy ==
    ASSUME \E ns : Namespaces = {ns}, TypeOK, ControlOK, OneReconcilePerKey,
           NEW t \in Threads, NEW n \in RSNames, Plans(t, n)
    PROVE  planned[n] = PlanOf(t)
<1> DEFINE c == CHOOSE u \in Threads : Plans(u, n)
<1>1. c \in Threads /\ Plans(c, n)
    OBVIOUS
<1>2. c = t
    BY <1>1, SolePlanner DEF Plans, InReconcile
<1> QED
    BY <1>2 DEF planned

(* The same a step later.                                                  *)
PlannedLaw ==
    TypeOK /\ ControlOK /\ OneReconcilePerKey =>
        \A t \in Threads, n \in RSNames : Plans(t, n) => planned[n] = PlanOf(t)

LEMMA PlannedByNext ==
    ASSUME \E ns : Namespaces = {ns}
    PROVE  PlannedLaw'
<1>1. PlannedLaw
    BY PlannedBy DEF PlannedLaw
<1> QED
    BY <1>1, PTL

LEMMA Unplanned ==
    ASSUME NEW n \in RSNames
    PROVE  /\ (\A t \in Threads : ~Plans(t, n)) => planned[n] = NoPlan
           /\ (\A t \in Threads : ~Plans(t, n)') => planned'[n] = NoPlan
BY DEF planned

(* The plan of a name does not change when its planner and it stay calm.   *)
SamePlans(n) == \A u \in Threads : /\ Plans(u, n)' <=> Plans(u, n)
                                   /\ Plans(u, n) => PlanOf(u)' = PlanOf(u)

LEMMA PlanKept ==
    ASSUME \E ns : Namespaces = {ns}, RInv, RInv', NEW n \in RSNames, SamePlans(n)
    PROVE  planned'[n] = planned[n]
<1>1. CASE \E u \in Threads : Plans(u, n)
  <2>1. PICK u \in Threads : Plans(u, n)
    BY <1>1
  <2>2. planned[n] = PlanOf(u)
    BY <2>1, PlannedBy DEF RInv
  <2>3. Plans(u, n)' /\ PlanOf(u)' = PlanOf(u)
    BY <2>1 DEF SamePlans
  <2>4. planned'[n] = PlanOf(u)'
    BY <2>3, PlannedByNext DEF PlannedLaw, RInv
  <2> QED
    BY <2>2, <2>3, <2>4
<1>2. CASE \A u \in Threads : ~Plans(u, n)
  <2>1. \A u \in Threads : ~Plans(u, n)'
    BY <1>2 DEF SamePlans
  <2> QED
    BY <1>2, <2>1, Unplanned
<1> QED
    BY <1>1, <1>2

(* A goroutine that stays where it is plans as before.                     *)
LEMMA SameThread ==
    ASSUME NEW u \in Threads, NEW n, th'[u] = th[u], n \in calm' <=> n \in calm
    PROVE  /\ Plans(u, n)' <=> Plans(u, n)
           /\ Plans(u, n) => PlanOf(u)' = PlanOf(u)
BY DEF Plans, PlanOf

LEMMA PlannedDomain ==
    /\ planned = [n \in RSNames |-> planned[n]]
    /\ planned' = [n \in RSNames |-> planned'[n]]
BY DEF planned

(* One name gets another plan.                                             *)
LEMMA PlanReplaced ==
    ASSUME \E ns : Namespaces = {ns}, RInv, RInv', NEW n \in RSNames,
           \A m \in RSNames \ {n} : SamePlans(m)
    PROVE  planned' = [planned EXCEPT ![n] = planned'[n]]
<1>1. \A m \in RSNames \ {n} : planned'[m] = planned[m]
    BY PlanKept
<1> QED
    BY <1>1, PlannedDomain

LEMMA PlansKept ==
    ASSUME \E ns : Namespaces = {ns}, RInv, RInv', \A m \in RSNames : SamePlans(m),
           pods' = pods
    PROVE  UNCHANGED PVP!pVars
<1>1. \A m \in RSNames : planned'[m] = planned[m]
    BY PlanKept
<1>2. planned' = planned
    BY <1>1, PlannedDomain
<1> QED
    BY <1>2 DEF PVP!pVars

(* Whoever plans for no name before and after its move changes no plan.    *)
LEMMA OthersMove ==
    ASSUME RInv, th' = th \/ \E t \in Threads : /\ OneThread(t)
                                                /\ \A m : ~Plans(t, m) /\ ~Plans(t, m)',
           NEW n, n \in calm' <=> n \in calm
    PROVE  SamePlans(n)
<1>1. CASE th' = th
    BY <1>1, SameThread DEF SamePlans
<1>2. ASSUME NEW t \in Threads, OneThread(t), \A m : ~Plans(t, m) /\ ~Plans(t, m)'
      PROVE  SamePlans(n)
  <2>1. \A u \in Threads : u # t => th'[u] = th[u]
    BY <1>2 DEF OneThread, RInv, TypeOK
  <2> QED
    BY <1>2, <2>1, SameThread DEF SamePlans
<1> QED
    BY <1>1, <1>2

(* The planner of a name moves: the plans of other names stay.             *)
LEMMA PlannerMoves ==
    ASSUME RInv, NEW t \in Threads, OneThread(t), NEW n, th[t].arg.name = n,
           th'[t].arg.name = n \/ \A m : ~Plans(t, m)',
           NEW m, m # n, m \in calm' <=> m \in calm
    PROVE  SamePlans(m)
<1>1. \A u \in Threads : u # t => th'[u] = th[u]
    BY DEF OneThread, RInv, TypeOK
<1>2. ~Plans(t, m) /\ ~Plans(t, m)'
    BY DEF Plans
<1> QED
    BY <1>1, <1>2, SameThread DEF SamePlans

LEMMA PlanType ==
    ASSUME TypeOK, ControlOK, NEW t \in Threads, NEW n \in RSNames, Plans(t, n)
    PROVE  PlanOf(t) \in PVP!Plans
<1>1. th[t].arg \in Copies /\ th[t] \in ThreadStates
    BY DEF Plans, ControlOK, Controlled, Busy, TypeOK
<1>2. /\ th[t].arg.replicas \in 0..MaxReplicas /\ th[t].counted \in SUBSET PodIds
      /\ th[t].left \in Nat /\ th[t].victims \in SUBSET PodIds
    BY <1>1, BoundsAssumption DEF ThreadStates, Copies
<1> QED
    BY <1>2 DEF PlanOf, PVP!Plans

LEMMA PlanTypeNext ==
    ASSUME NEW t \in Threads, NEW n \in RSNames
    PROVE  (TypeOK /\ ControlOK /\ Plans(t, n) => PlanOf(t) \in PVP!Plans)'
<1>1. TypeOK /\ ControlOK /\ Plans(t, n) => PlanOf(t) \in PVP!Plans
    BY PlanType
<1> QED
    BY <1>1, PTL

LEMMA PlanEquality ==
    ASSUME NEW x \in PVP!Plans, NEW y \in PVP!Plans, x.stage = y.stage, x.goal = y.goal,
           x.seen = y.seen, x.add = y.add, x.drop = y.drop, x.calm = y.calm
    PROVE  x = y
BY DEF PVP!Plans

LEMMA PlanOfFields ==
    ASSUME NEW t \in Threads
    PROVE  LET x == PlanOf(t) IN
           /\ th[t].pc \in {"getRS", "putRS"} => x.stage = "looked"
           /\ th[t].pc \notin {"getRS", "putRS"} => x.stage = "acting"
           /\ x.goal = th[t].arg.replicas /\ x.seen = th[t].counted /\ x.add = th[t].left
           /\ x.drop = th[t].victims /\ x.calm = (th[t].arg.name \in calm)
BY DEF PlanOf

LEMMA PlanOfFieldsNext ==
    ASSUME NEW t \in Threads
    PROVE  LET x == PlanOf(t)' IN
           /\ th'[t].pc \in {"getRS", "putRS"} => x.stage = "looked"
           /\ th'[t].pc \notin {"getRS", "putRS"} => x.stage = "acting"
           /\ x.goal = th'[t].arg.replicas /\ x.seen = th'[t].counted /\ x.add = th'[t].left
           /\ x.drop = th'[t].victims /\ x.calm = (th'[t].arg.name \in calm')
BY DEF PlanOf

-----------------------------------------------------------------------------
(* Every step is one of Provisioning, or none.                             *)
LEMMA QuietPlans ==
    ASSUME \E ns : Namespaces = {ns}, RInv, RInv', pods' = pods, calm' = calm,
           th' = th \/ \E t \in Threads : OneThread(t) /\ \A m : ~Plans(t, m) /\ ~Plans(t, m)'
    PROVE  UNCHANGED PVP!pVars
<1>1. \A m \in RSNames : SamePlans(m)
    BY OthersMove
<1> QED
    BY <1>1, PlansKept

LEMMA CountLooks ==
    ASSUME \E ns : Namespaces = {ns}, RInv, RInv', NEW t \in Threads, Count(t)
    PROVE  PVP!Next
<1>0. th[t].arg \in Copies
    BY DEF Count, RInv, ControlOK, Controlled, Busy
<1> PICK n \in RSNames : n = th[t].arg.name
    BY <1>0 DEF Copies
<1> DEFINE goal == th[t].arg.replicas
           x == [stage |-> "looked", goal |-> goal, seen |-> PVP!PodsOf(n),
                 add |-> 0, drop |-> {}, calm |-> TRUE]
<1>1. /\ th[t].pc = "count" /\ goal \in 0..MaxReplicas
      /\ pods' = pods /\ calm' = calm \cup {n}
    BY <1>0 DEF Count, Copies
<1>2. /\ OneThread(t) /\ th'[t].pc = "getRS" /\ th'[t].arg = th[t].arg
      /\ th'[t].counted = Owned(n) /\ th'[t].left = 0 /\ th'[t].victims = {}
    BY CountMoved DEF Moved
<1>3. \A u \in Threads : ~Plans(u, n)
    BY <1>1, SolePlanner DEF Plans, InReconcile, RInv
<1>4. planned[n] = NoPlan /\ planned[n].stage = "none"
    BY <1>1, <1>3, Unplanned DEF NoPlan
<1>5. Plans(t, n)'
    BY <1>2 DEF Plans
<1>6. planned'[n] = PlanOf(t)' /\ PlanOf(t)' \in PVP!Plans
    BY <1>1, <1>5, PlannedByNext, PlanTypeNext DEF PlannedLaw, RInv
<1>7. x \in PVP!Plans
    BY <1>1 DEF PVP!Plans, PVP!PodsOf
<1>8. PVP!PodsOf(n) = Owned(n)
    BY DEF PVP!PodsOf, Owned
<1>9. PlanOf(t)' = x
  <2>1. /\ PlanOf(t)'.stage = "looked" /\ PlanOf(t)'.goal = goal /\ PlanOf(t)'.seen = Owned(n)
        /\ PlanOf(t)'.add = 0 /\ PlanOf(t)'.drop = {}
    BY <1>2, PlanOfFieldsNext
  <2>2. n \in calm' /\ th'[t].arg.name = n
    BY <1>1, <1>2
  <2>3. PlanOf(t)'.calm = TRUE
    BY <2>2, PlanOfFieldsNext
  <2> QED
    BY <1>6, <1>7, <1>8, <2>1, <2>3, PlanEquality
<1>10. planned' = [planned EXCEPT ![n] = planned'[n]]
  <2>1. \A m \in RSNames \ {n} : SamePlans(m)
    BY <1>1, <1>2, PlannerMoves
  <2> QED
    BY <1>1, <2>1, PlanReplaced
<1>11. PVP!Look(n, goal)
    BY <1>1, <1>4, <1>6, <1>9, <1>10 DEF PVP!Look
<1> QED
    BY <1>1, <1>11 DEF PVP!Next

(* A planner that acts: its plan becomes what it carries now.              *)
LEMMA ActStep ==
    ASSUME \E ns : Namespaces = {ns}, RInv, RInv', NEW t \in Threads, NEW n \in RSNames,
           Plans(t, n), OneThread(t), th'[t].arg = th[t].arg,
           th'[t].pc \in {"create", "delete", "exit"}, th'[t].counted = {},
           \A m \in RSNames \ {n} : m \in calm' <=> m \in calm
    PROVE  /\ planned[n] = PlanOf(t)
           /\ PVP!Act(n, th'[t].left, th'[t].victims, n \in calm')
<1> DEFINE x == [stage |-> "acting", goal |-> planned[n].goal, seen |-> {},
                 add |-> th'[t].left, drop |-> th'[t].victims, calm |-> n \in calm']
<1>1. th[t].arg.name = n /\ th'[t].arg.name = n
    BY DEF Plans
<1>2. planned[n] = PlanOf(t) /\ PlanOf(t) \in PVP!Plans
    BY PlannedBy, PlanType DEF RInv
<1>3. Plans(t, n)'
    BY <1>1 DEF Plans
<1>4. planned'[n] = PlanOf(t)' /\ PlanOf(t)' \in PVP!Plans
    BY <1>3, PlannedByNext, PlanTypeNext DEF PlannedLaw, RInv
<1>5. /\ PlanOf(t)'.stage = "acting" /\ PlanOf(t)'.goal = th[t].arg.replicas
      /\ PlanOf(t)'.seen = {} /\ PlanOf(t)'.add = th'[t].left
      /\ PlanOf(t)'.drop = th'[t].victims
    BY PlanOfFieldsNext
<1>6. PlanOf(t)'.calm = (n \in calm')
    BY <1>1 DEF PlanOf
<1>7. planned[n].goal = th[t].arg.replicas
    BY <1>2, PlanOfFields
<1>8. x \in PVP!Plans
  <2>1. /\ th'[t].left = PlanOf(t)'.add /\ th'[t].victims = PlanOf(t)'.drop
        /\ planned[n].goal = PlanOf(t)'.goal
    BY <1>5, <1>7
  <2> QED
    BY <1>4, <2>1 DEF PVP!Plans
<1>9. PlanOf(t)' = x
    BY <1>4, <1>5, <1>6, <1>7, <1>8, PlanEquality
<1>10. planned' = [planned EXCEPT ![n] = planned'[n]]
  <2>1. \A m \in RSNames \ {n} : SamePlans(m)
    BY <1>1, PlannerMoves
  <2> QED
    BY <2>1, PlanReplaced
<1> QED
    BY <1>2, <1>4, <1>9, <1>10 DEF PVP!Act

LEMMA ScaledPlans ==
    ASSUME \E ns : Namespaces = {ns}, RInv, RInv', NEW t \in Threads,
           th[t].pc \in {"getRS", "putRS"}, OneThread(t), Scaled(t),
           pods' = pods, calm' = calm
    PROVE  PVP!Next
<1> DEFINE n == th[t].arg.name
           seen == th[t].counted
           goal == th[t].arg.replicas
<1>1. th[t].arg \in Copies /\ n \in RSNames
    BY DEF RInv, ControlOK, Controlled, Busy, Copies
<1>2. Plans(t, n)
    BY DEF Plans
<1>3. /\ planned[n] = PlanOf(t)
      /\ PVP!Act(n, th'[t].left, th'[t].victims, n \in calm')
    BY <1>1, <1>2, ActStep DEF Scaled
<1>4. /\ planned[n].stage = "looked" /\ planned[n].goal = goal /\ planned[n].seen = seen
      /\ planned[n].calm = (n \in calm')
    BY <1>3, PlanOfFields
<1>5. PVP!Act(n, th'[t].left, th'[t].victims, planned[n].calm)
    BY <1>3, <1>4
<1>6. CASE /\ Cardinality(seen) <= goal
           /\ th'[t].left = goal - Cardinality(seen) /\ th'[t].victims = {}
  <2>1. PVP!Decide(n)
    BY <1>4, <1>5, <1>6, Counts DEF PVP!Decide
  <2> QED
    BY <1>1, <2>1 DEF PVP!Next
<1>7. CASE /\ Cardinality(seen) > goal
           /\ th'[t].left = 0 /\ th'[t].victims \in SUBSET seen
           /\ Cardinality(th'[t].victims) = Cardinality(seen) - goal
  <2>1. PVP!Select(n)
    BY <1>4, <1>5, <1>7, Counts DEF PVP!Select
  <2> QED
    BY <1>1, <2>1 DEF PVP!Next
<1> QED
    BY <1>6, <1>7 DEF Scaled

LEMMA CreateAdds ==
    ASSUME \E ns : Namespaces = {ns}, RInv, RInv', NEW t \in Threads, CreatePod(t)
    PROVE  PVP!Next
<1>1. /\ OneThread(t) /\ th[t].pc = "create" /\ th'[t].arg = th[t].arg
      /\ th'[t].pc \in {"create", "exit"}
      /\ th'[t].left = th[t].left - 1 /\ th[t].left > 0
      /\ th'[t].counted = {} /\ th'[t].victims = {} /\ th[t].victims = {}
    BY CreateMoved DEF Moved, RInv, Carried, Tidy
<1> DEFINE n == th[t].arg.name
<1>2. n \in RSNames /\ Plans(t, n) /\ calm' = calm
    BY <1>1 DEF CreatePod, RInv, ControlOK, Controlled, Busy, Copies, Plans
<1>3. /\ planned[n] = PlanOf(t)
      /\ PVP!Act(n, th'[t].left, th'[t].victims, n \in calm')
    BY <1>1, <1>2, ActStep
<1>4. /\ planned[n].add = th[t].left /\ planned[n].drop = {}
      /\ planned[n].calm = (n \in calm')
    BY <1>1, <1>2, <1>3, PlanOfFields
<1>5. PVP!Act(n, planned[n].add - 1, planned[n].drop, planned[n].calm)
    BY <1>1, <1>3, <1>4
<1>6. PICK p \in PodIds : /\ pods[p] = NoOwner /\ ~Mentioned(p)
                          /\ pods' = [pods EXCEPT ![p] = n]
    BY DEF CreatePod
<1>7. ASSUME NEW m \in RSNames PROVE p \notin planned[m].drop
  <2>1. ASSUME NEW u \in Threads, Plans(u, m) PROVE p \notin planned[m].drop
    <3>1. planned[m].drop = th[u].victims
      BY <2>1, PlannedBy, PlanOfFields DEF RInv
    <3> QED
      BY <1>6, <3>1 DEF Mentioned
  <2>2. ASSUME \A u \in Threads : ~Plans(u, m) PROVE p \notin planned[m].drop
    BY <2>2, Unplanned DEF NoPlan
  <2> QED
    BY <2>1, <2>2
<1>8. PVP!Add(n)
    BY <1>1, <1>4, <1>5, <1>6, <1>7 DEF PVP!Add
<1> QED
    BY <1>2, <1>8 DEF PVP!Next

LEMMA ClashFails ==
    ASSUME \E ns : Namespaces = {ns}, RInv, RInv', NEW t \in Threads, CreateClash(t)
    PROVE  PVP!Next
<1>1. /\ OneThread(t) /\ th[t].pc = "create" /\ th'[t].arg = th[t].arg
      /\ th'[t].pc \in {"create", "exit"}
      /\ th'[t].left = th[t].left - 1 /\ th[t].left > 0
      /\ th'[t].counted = {} /\ th'[t].victims = {} /\ th[t].victims = {}
    BY CreateMoved DEF Moved, RInv, Carried, Tidy
<1> DEFINE n == th[t].arg.name
<1>2. n \in RSNames /\ Plans(t, n) /\ calm' = calm \ {n} /\ pods' = pods
    BY <1>1 DEF CreateClash, RInv, ControlOK, Controlled, Busy, Copies, Plans
<1>3. /\ planned[n] = PlanOf(t)
      /\ PVP!Act(n, th'[t].left, th'[t].victims, n \in calm')
    BY <1>1, <1>2, ActStep
<1>4. /\ planned[n].add = th[t].left /\ planned[n].drop = {}
      /\ (n \in calm') = FALSE
    BY <1>1, <1>2, <1>3, PlanOfFields
<1>5. PVP!Act(n, planned[n].add - 1, planned[n].drop, FALSE)
    BY <1>1, <1>3, <1>4
<1>6. PVP!Fail(n)
    BY <1>1, <1>2, <1>4, <1>5 DEF PVP!Fail
<1> QED
    BY <1>2, <1>6 DEF PVP!Next

LEMMA DeleteDrops ==
    ASSUME \E ns : Namespaces = {ns}, RInv, RInv', NEW t \in Threads, DeletePod(t)
    PROVE  PVP!Next
<1>1. /\ OneThread(t) /\ th[t].pc = "delete" /\ th'[t].arg = th[t].arg
      /\ th'[t].pc \in {"delete", "exit"} /\ calm' = calm
      /\ th'[t].counted = {} /\ th'[t].left = 0 /\ th[t].left = 0
    BY DeleteMoved DEF DeletePod, Moved, RInv, Carried, Tidy
<1>2. PICK p \in th[t].victims : /\ th'[t].victims = th[t].victims \ {p}
                                 /\ pods' = [pods EXCEPT ![p] = NoOwner]
    BY DeleteMoved
<1> DEFINE n == th[t].arg.name
<1>3. n \in RSNames /\ Plans(t, n)
    BY <1>1 DEF RInv, ControlOK, Controlled, Busy, Copies, Plans
<1>4. /\ planned[n] = PlanOf(t)
      /\ PVP!Act(n, th'[t].left, th'[t].victims, n \in calm')
    BY <1>1, <1>3, ActStep
<1>5. /\ planned[n].add = 0 /\ planned[n].drop = th[t].victims
      /\ planned[n].calm = (n \in calm')
    BY <1>1, <1>3, <1>4, PlanOfFields
<1>6. PVP!Act(n, planned[n].add, planned[n].drop \ {p}, planned[n].calm)
    BY <1>1, <1>2, <1>4, <1>5
<1>7. pods[p] \in {n, NoOwner}
    BY DEF RInv, Carried, Claim
<1>8. PVP!Drop(n)
    BY <1>2, <1>5, <1>6, <1>7 DEF PVP!Drop
<1> QED
    BY <1>3, <1>8 DEF PVP!Next

LEMMA ExitFinishes ==
    ASSUME \E ns : Namespaces = {ns}, RInv, RInv', NEW t \in Threads, Exit(t)
    PROVE  PVP!Next
<1>0. th[t].arg \in Copies
    BY DEF Exit, RInv, ControlOK, Controlled, Busy
<1> PICK n \in RSNames : n = th[t].arg.name
    BY <1>0 DEF Copies
<1>1. /\ OneThread(t) /\ th[t].pc = "exit" /\ th'[t].pc \in {"idle", "loop"}
      /\ pods' = pods /\ calm' = calm \ {n}
      /\ th[t].left = 0 /\ th[t].victims = {}
    BY ExitMoved DEF Exit, Moved, RInv, Carried, Tidy
<1>2. Plans(t, n) /\ \A m : ~Plans(t, m)'
    BY <1>1 DEF Plans
<1>3. planned[n] = PlanOf(t)
    BY <1>2, PlannedBy DEF RInv
<1>4. planned[n].stage = "acting" /\ planned[n].add = 0 /\ planned[n].drop = {}
    BY <1>1, <1>3, PlanOfFields
<1>5. \A u \in Threads : ~Plans(u, n)'
  <2>1. ASSUME NEW u \in Threads, u # t PROVE ~Plans(u, n)'
    <3>1. th'[u] = th[u]
      BY <1>1, <2>1 DEF OneThread, RInv, TypeOK
    <3>2. ~Plans(u, n)
      BY <1>1, <2>1, SolePlanner DEF Plans, InReconcile, RInv
    <3> QED
      BY <3>1, <3>2 DEF Plans
  <2> QED
    BY <1>2, <2>1
<1>6. planned'[n] = NoPlan /\ NoPlan = PVP!NoPlan
    BY <1>5, Unplanned DEF NoPlan, PVP!NoPlan
<1>7. planned' = [planned EXCEPT ![n] = planned'[n]]
  <2>1. \A m \in RSNames \ {n} : SamePlans(m)
    BY <1>1, <1>2, PlannerMoves
  <2> QED
    BY <2>1, PlanReplaced
<1>8. PVP!Finish(n)
    BY <1>1, <1>4, <1>6, <1>7 DEF PVP!Finish
<1> QED
    BY <1>8 DEF PVP!Next

(* A pod is taken away by somebody who plans for no name.                  *)
LEMMA LosePlans ==
    ASSUME \E ns : Namespaces = {ns}, RInv, RInv', Disturbed,
           NEW p \in PodIds, pods' = [pods EXCEPT ![p] = NoOwner],
           th' = th \/ \E t \in Threads : OneThread(t) /\ \A m : ~Plans(t, m) /\ ~Plans(t, m)'
    PROVE  [PVP!Next]_(PVP!pVars)
<1>1. \A m : m \in calm' <=> m \in calm /\ Owned(m)' = Owned(m)
    BY DEF Disturbed
<1>2. \A q \in PodIds : pods'[q] = IF q = p THEN NoOwner ELSE pods[q]
    BY DEF RInv, TypeOK
<1>3. CASE pods[p] = NoOwner
  <2>1. pods' = pods
    BY <1>2, <1>3 DEF RInv, TypeOK
  <2>2. \A m : Owned(m)' = Owned(m)
    BY <2>1 DEF Owned
  <2>3. calm' = calm
    BY <2>2 DEF Disturbed
  <2> QED
    BY <2>1, <2>3, QuietPlans
<1>4. CASE pods[p] # NoOwner
  <2> PICK n \in RSNames : n = pods[p]
    BY <1>4 DEF RInv, TypeOK
  <2>1. \A m \in RSNames \ {n} : Owned(m)' = Owned(m)
    BY <1>2, NoOwnerAssumption DEF Owned
  <2>2. p \in Owned(n) /\ p \notin Owned(n)'
    BY <1>2, NoOwnerAssumption DEF Owned
  <2>3. n \notin calm' /\ \A m \in RSNames \ {n} : m \in calm' <=> m \in calm
    BY <1>1, <2>1, <2>2
  <2>4. planned' = [planned EXCEPT ![n] = planned'[n]]
    <3>1. \A m \in RSNames \ {n} : SamePlans(m)
      BY <2>3, OthersMove
    <3> QED
      BY <3>1, PlanReplaced
  <2>5. planned'[n] = [planned[n] EXCEPT !.calm = FALSE]
    <3>1. \A u \in Threads : /\ Plans(u, n)' <=> Plans(u, n)
                             /\ Plans(u, n) => th'[u] = th[u]
      <4>1. CASE th' = th
        BY <4>1 DEF Plans
      <4>2. ASSUME NEW t \in Threads, OneThread(t), \A m : ~Plans(t, m) /\ ~Plans(t, m)',
                   NEW u \in Threads
            PROVE  /\ Plans(u, n)' <=> Plans(u, n)
                   /\ Plans(u, n) => th'[u] = th[u]
        <5>1. u # t => th'[u] = th[u]
          BY <4>2 DEF OneThread, RInv, TypeOK
        <5> QED
          BY <4>2, <5>1 DEF Plans
      <4> QED
        BY <4>1, <4>2
    <3>2. ASSUME NEW u \in Threads, Plans(u, n)
          PROVE  planned'[n] = [planned[n] EXCEPT !.calm = FALSE]
      <4>1. th'[u] = th[u] /\ Plans(u, n)' /\ th[u].arg.name = n
        BY <3>1, <3>2 DEF Plans
      <4>2. planned[n] = PlanOf(u) /\ PlanOf(u) \in PVP!Plans
        BY <3>2, PlannedBy, PlanType DEF RInv
      <4>3. planned'[n] = PlanOf(u)' /\ PlanOf(u)' \in PVP!Plans
        BY <4>1, PlannedByNext, PlanTypeNext DEF PlannedLaw, RInv
      <4> DEFINE x == PlanOf(u)
                 y == PlanOf(u)'
                 z == [x EXCEPT !.calm = FALSE]
      <4>4. /\ y.stage = x.stage /\ y.goal = x.goal /\ y.seen = x.seen /\ y.add = x.add
            /\ y.drop = x.drop
        BY <4>1 DEF PlanOf
      <4>5. y.calm = FALSE
        <5>1. y.calm = (th'[u].arg.name \in calm')
          BY PlanOfFieldsNext
        <5>2. th'[u].arg.name = n /\ ~(n \in calm')
          BY <2>3, <4>1
        <5>3. (th'[u].arg.name \in calm') = FALSE
          BY <5>2
        <5> QED
          BY <5>1, <5>3
      <4>6. x \in PVP!Plans /\ y \in PVP!Plans
        BY <4>2, <4>3
      <4> HIDE DEF x, y
      <4>7. /\ z \in PVP!Plans /\ z.stage = x.stage /\ z.goal = x.goal /\ z.seen = x.seen
            /\ z.add = x.add /\ z.drop = x.drop /\ z.calm = FALSE
        BY <4>6 DEF PVP!Plans
      <4>8. y = z
        BY <4>4, <4>5, <4>6, <4>7, PlanEquality
      <4> QED
        BY <4>2, <4>3, <4>8 DEF x, y
    <3>3. ASSUME \A u \in Threads : ~Plans(u, n)
          PROVE  planned'[n] = [planned[n] EXCEPT !.calm = FALSE]
      <4>1. \A u \in Threads : ~Plans(u, n)'
        BY <3>1, <3>3
      <4>2. planned[n] = NoPlan /\ planned'[n] = NoPlan
        BY <3>3, <4>1, Unplanned
      <4>3. NoPlan \in PVP!Plans /\ NoPlan.calm = FALSE
        BY BoundsAssumption DEF NoPlan, PVP!Plans
      <4>4. [NoPlan EXCEPT !.calm = FALSE] = NoPlan
        BY <4>3 DEF PVP!Plans
      <4> QED
        BY <4>2, <4>4
    <3> QED
      BY <3>2, <3>3
  <2>6. PVP!Lose(n)
    <3>1. p \in PVP!PodsOf(n)
      BY DEF PVP!PodsOf
    <3> QED
      BY <2>4, <2>5, <3>1 DEF PVP!Lose
  <2> QED
    BY <2>6 DEF PVP!Next
<1> QED
    BY <1>3, <1>4

(* A goroutine that plans for no name where it was nor where it is now.    *)
PlanPcs == {"getRS", "putRS", "create", "delete", "exit"}

LEMMA Idles ==
    ASSUME NEW t \in Threads, th[t].pc \notin PlanPcs, th'[t].pc \notin PlanPcs
    PROVE  \A m : ~Plans(t, m) /\ ~Plans(t, m)'
BY DEF PlanPcs, Plans

(* Reading the ReplicaSet before the status write changes no plan.         *)
LEMMA ReadKeepsPlan ==
    ASSUME \E ns : Namespaces = {ns}, RInv, RInv', NEW t \in Threads,
           th[t].pc = "getRS", th'[t].pc = "putRS", OneThread(t), th'[t].arg = th[t].arg,
           th'[t].counted = th[t].counted, th'[t].left = th[t].left,
           th'[t].victims = th[t].victims, pods' = pods, calm' = calm
    PROVE  UNCHANGED PVP!pVars
<1>1. ASSUME NEW m \in RSNames PROVE SamePlans(m)
  <2>1. \A u \in Threads : u # t => th'[u] = th[u]
    BY DEF OneThread, RInv, TypeOK
  <2>2. /\ Plans(t, m)' <=> Plans(t, m)
        /\ PlanOf(t)' = PlanOf(t)
    BY DEF Plans, PlanOf
  <2> QED
    BY <2>1, <2>2, SameThread DEF SamePlans
<1> QED
    BY <1>1, PlansKept

LEMMA RefineStep ==
    ASSUME \E ns : Namespaces = {ns}, RInv, RInv', [Next]_vars
    PROVE  [PVP!Next]_(PVP!pVars)
<1>1. ASSUME NEW t \in Threads, Moved(t), th[t].pc \notin PlanPcs, th'[t].pc \notin PlanPcs,
             pods' = pods, calm' = calm
      PROVE  UNCHANGED PVP!pVars
    BY <1>1, Idles, QuietPlans DEF Moved
<1>2. ASSUME NEW t \in Threads, ReconcileStep(t) PROVE [PVP!Next]_(PVP!pVars)
  <2>1. CASE Enter(t)
    BY <1>1, <2>1, EnterMoved DEF Enter, PlanPcs
  <2>2. CASE Count(t)
    BY <2>2, CountLooks
  <2>3. CASE GetRS(t)
    <3>1. Moved(t) /\ th[t].pc = "getRS" /\ pods' = pods /\ calm' = calm
      BY <2>3, GetRSMoved DEF GetRS
    <3>2. CASE Scaled(t)
      BY <3>1, <3>2, ScaledPlans DEF Moved
    <3>3. CASE ~Scaled(t)
      BY <2>3, <3>1, <3>3, GetRSMoved, ReadKeepsPlan DEF Moved
    <3> QED
      BY <3>2, <3>3
  <2>4. CASE PutRS(t)
    <3>1. th[t].pc = "putRS" /\ Scale(t) /\ pods' = pods /\ calm' = calm
      BY <2>4 DEF PutRS
    <3>2. Moved(t) /\ Scaled(t)
      BY <3>1, ScaledMoved
    <3> QED
      BY <3>1, <3>2, ScaledPlans DEF Moved
  <2>5. CASE CreatePod(t)
    BY <2>5, CreateAdds
  <2>6. CASE CreateClash(t)
    BY <2>6, ClashFails
  <2>7. CASE DeletePod(t)
    BY <2>7, DeleteDrops
  <2>8. CASE Exit(t)
    BY <2>8, ExitFinishes
  <2> QED
    BY <1>2, <2>1, <2>2, <2>3, <2>4, <2>5, <2>6, <2>7, <2>8 DEF ReconcileStep
<1>3. ASSUME NEW t \in Handlers, Request(t) \/ HandlerStep(t) PROVE [PVP!Next]_(PVP!pVars)
  <2>0. t \in Threads
    BY DEF Threads
  <2>1. CASE Request(t)
    <3>1. pods' = pods /\ calm' = calm
      BY <2>1 DEF Request, PostRS, DeleteRS
    <3> QED
      BY <1>1, <2>0, <2>1, <3>1, RequestMoved DEF PlanPcs
  <2>2. CASE DeleteList(t)
    BY <1>1, <2>0, <2>2, DeleteListMoved DEF DeleteList, PlanPcs
  <2>3. CASE DeletePods(t)
    <3>1. /\ Moved(t) /\ th[t].pc = "dPods" /\ Disturbed
          /\ th'[t].pc \in {"dPods", "dRS"}
          /\ \E p \in PodIds : pods' = [pods EXCEPT ![p] = NoOwner]
      BY <2>0, <2>3, DeleteMoved DEF DeletePods, DeletePod
    <3>2. \A m : ~Plans(t, m) /\ ~Plans(t, m)'
      BY <2>0, <3>1, Idles DEF PlanPcs
    <3> QED
      BY <2>0, <3>1, <3>2, LosePlans DEF Moved
  <2>4. CASE DeleteStored(t)
    BY <1>1, <2>0, <2>4, DeleteStoredMoved DEF DeleteStored, PlanPcs
  <2> QED
    BY <1>3, <2>1, <2>2, <2>3, <2>4 DEF HandlerStep
<1>4. ASSUME NEW p \in PodIds, KillPod(p) PROVE [PVP!Next]_(PVP!pVars)
    BY <1>4, LosePlans DEF KillPod
<1>5. ASSUME LoopNext \/ LoopExit PROVE [PVP!Next]_(PVP!pVars)
  <2>1. Loop \in Threads /\ pods' = pods /\ calm' = calm
    BY <1>5 DEF Threads, LoopNext, LoopExit
  <2>2. Moved(Loop) /\ th[Loop].pc \notin PlanPcs /\ th'[Loop].pc \notin PlanPcs
    BY <1>5, LoopMoved DEF PlanPcs
  <2> QED
    BY <1>1, <2>1, <2>2
<1>6. ASSUME Tick \/ Stop \/ UNCHANGED vars PROVE [PVP!Next]_(PVP!pVars)
  <2>1. th' = th /\ pods' = pods /\ calm' = calm
    BY <1>6 DEF Tick, Stop, vars
  <2> QED
    BY <2>1, QuietPlans
<1> QED
    BY <1>2, <1>3, <1>4, <1>5, <1>6 DEF Next

LEMMA RInvInit == Init => RInv
<1> SUFFICES ASSUME Init PROVE RInv
    OBVIOUS
<1>1. TypeOK /\ ControlOK /\ OneReconcilePerKey
    BY TypeInit, ControlInit, MutexInit
<1>2. \A t \in Threads : /\ th[t].left = 0 /\ th[t].counted = {} /\ th[t].victims = {}
    BY DEF Init, Rest
<1> QED
    BY <1>1, <1>2 DEF RInv, Carried, Tidy, Claim

LEMMA PlansInit == Init => PVP!Init
<1> SUFFICES ASSUME Init PROVE PVP!Init
    OBVIOUS
<1>1. \A t \in Threads : th[t].pc \in {"idle", "loop"}
    BY DEF Init, Rest
<1>2. \A n \in RSNames : planned[n] = NoPlan
    BY <1>1, Unplanned DEF Plans
<1>3. planned = [n \in RSNames |-> PVP!NoPlan]
    BY <1>2, PlannedDomain DEF NoPlan, PVP!NoPlan
<1> QED
    BY <1>3 DEF PVP!Init, Init

-----------------------------------------------------------------------------
(* The exit of a reconcile, by what Provisioning promises of its plan.     *)
LEMMA BalancedScales ==
    ASSUME \E ns : Namespaces = {ns}, RInv, PVP!Balanced
    PROVE  ScalesAsAsked
<1> SUFFICES ASSUME NEW t \in Threads, th[t].pc = "exit"
             PROVE  /\ Cardinality(Owned(th[t].arg.name)) <= th[t].arg.replicas
                    /\ th[t].arg.name \in calm
                         => Cardinality(Owned(th[t].arg.name)) = th[t].arg.replicas
    BY DEF ScalesAsAsked
<1> DEFINE n == th[t].arg.name
           x == planned[n]
           kept == PVP!PodsOf(n) \ x.drop
<1>1. n \in RSNames /\ th[t].arg.replicas \in Nat
    BY BoundsAssumption DEF RInv, ControlOK, Controlled, Busy, Copies
<1>2. x = PlanOf(t)
    BY <1>1, PlannedBy DEF RInv, Plans
<1>3. /\ x.stage = "acting" /\ x.goal = th[t].arg.replicas /\ x.add = 0 /\ x.drop = {}
      /\ x.calm = (n \in calm)
    BY <1>2, PlanOfFields DEF RInv, Carried, Tidy
<1>4. kept = Owned(n)
    BY <1>3 DEF PVP!PodsOf, Owned
<1>5. /\ PVP!Cardinality(kept) + x.add <= x.goal
      /\ x.calm => PVP!Cardinality(kept) + x.add = x.goal
    BY <1>1, <1>3 DEF PVP!Balanced
<1>6. PVP!Cardinality(kept) = Cardinality(Owned(n)) /\ Cardinality(Owned(n)) \in Nat
    BY <1>4, Counts, OwnedType DEF RInv
<1> HIDE DEF kept, x
<1>7. PVP!Cardinality(kept) + x.add = Cardinality(Owned(n))
    BY <1>3, <1>6
<1>8. Cardinality(Owned(n)) <= th[t].arg.replicas
    BY <1>3, <1>5, <1>7
<1>9. ASSUME n \in calm PROVE Cardinality(Owned(n)) = th[t].arg.replicas
  <2>1. x.calm
    BY <1>3, <1>9
  <2> QED
    BY <1>3, <1>5, <1>7, <2>1
<1> QED
    BY <1>8, <1>9

LEMMA ProvisionConstants == PVP!PConstants
<1>1. PVP!IsFiniteSet(PodIds)
    BY PodIdsAssumption DEF PVP!IsFiniteSet, IsFiniteSet
<1> QED
    BY <1>1, NoOwnerAssumption, BoundsAssumption DEF PVP!PConstants

LEMMA Refines ==
    ASSUME \E ns : Namespaces = {ns}
    PROVE  Spec => PVP!Spec
<1>1. Init => RInv /\ PVP!Init
    BY RInvInit, PlansInit
<1>2. RInv /\ [Next]_vars => RInv'
    BY RStep
<1>3. RInv /\ RInv' /\ [Next]_vars => [PVP!Next]_(PVP!pVars)
    BY RefineStep
<1> QED
    BY <1>1, <1>2, <1>3, PTL DEF Spec, PVP!Spec

(* In a single namespace the controller's loop and handlers do to the pods *)
(* of every ReplicaSet what Provisioning says, whatever they are doing     *)
(* between the count of the pods and the end of the reconcile.             *)
THEOREM ProvisioningImplemented ==
    ASSUME \E ns : Namespaces = {ns}
    PROVE  Spec => ImplementsProvisioning
BY Refines, SameSpec, PTL DEF ImplementsProvisioning

(* In a single namespace a reconcile ends with no more pods than its copy  *)
(* asks for, and with exactly as many when its name was left alone: what   *)
(* Balanced of Provisioning comes to for a plan that is worked off.        *)
THEOREM ReconcileScales ==
    ASSUME \E ns : Namespaces = {ns}
    PROVE  Spec => []ScalesAsAsked
<1>1. Init => RInv
    BY RInvInit
<1>2. RInv /\ [Next]_vars => RInv'
    BY RStep
<1>3. PVP!Spec => []PVP!Balanced
    BY ProvisionConstants, PVP!PlansBalanced
<1>4. RInv /\ PVP!Balanced => ScalesAsAsked
    BY BalancedScales
<1> QED
    BY <1>1, <1>2, <1>3, <1>4, Refines, PTL DEF Spec
=============================================================================
