---------------------------- MODULE Provisioning ----------------------------
(***************************************************************************)
(* What the ReplicaSet controller promises about the pods of a ReplicaSet  *)
(* in one namespace, whatever its loops, handlers, copies and counts are   *)
(* doing: the abstract specification ReplicaSetController and              *)
(* DeploymentController implement.                                         *)
(*                                                                         *)
(* A reconcile looks at the pods of a name once and then plans what to do  *)
(* to come to a goal: so many pods to add, or these pods to drop. Until    *)
(* the plan is worked off nobody else plans for the name, and pods are     *)
(* only added by plan. Pods are lost at any time - to clients, or to the   *)
(* deletion of the ReplicaSet - and then the plan goes on, but is calm no  *)
(* more.                                                                   *)
(***************************************************************************)
EXTENDS Integers, FiniteSets

CONSTANTS
    RSNames,     \* names of ReplicaSets
    PodIds,      \* names of pods
    NoOwner,     \* "no such pod"
    MaxReplicas  \* bound: the largest goal

VARIABLES
    owner,  \* the ReplicaSet of each pod
    plan    \* what is left to do for each name

pVars == <<owner, plan>>

PodsOf(n) == {p \in PodIds : owner[p] = n}

(* seen: the pods looked at, until it is decided what to do with them.     *)
(* calm: since then nobody else touched the pods of the name, and no       *)
(* creation failed.                                                        *)
Plans == [stage : {"none", "looked", "acting"}, goal : 0..MaxReplicas,
          seen : SUBSET PodIds, add : Nat, drop : SUBSET PodIds, calm : BOOLEAN]
NoPlan == [stage |-> "none", goal |-> 0, seen |-> {}, add |-> 0, drop |-> {},
           calm |-> FALSE]

Init ==
    /\ owner = [p \in PodIds |-> NoOwner]
    /\ plan = [n \in RSNames |-> NoPlan]

Look(n, goal) ==
    /\ plan[n].stage = "none"
    /\ plan' = [plan EXCEPT ![n] = [stage |-> "looked", goal |-> goal, seen |-> PodsOf(n),
                                    add |-> 0, drop |-> {}, calm |-> TRUE]]
    /\ UNCHANGED owner

Act(n, add, drop, calm) ==
    plan' = [plan EXCEPT ![n] = [stage |-> "acting", goal |-> plan[n].goal, seen |-> {},
                                 add |-> add, drop |-> drop, calm |-> calm]]

(* Pods seen decide what is missing and what is too much, those lost by    *)
(* now included.                                                           *)
Decide(n) ==
    /\ plan[n].stage = "looked"
    /\ Cardinality(plan[n].seen) <= plan[n].goal
    /\ Act(n, plan[n].goal - Cardinality(plan[n].seen), {}, plan[n].calm)
    /\ UNCHANGED owner

Select(n) ==
    /\ plan[n].stage = "looked"
    /\ Cardinality(plan[n].seen) > plan[n].goal
    /\ \E drop \in SUBSET plan[n].seen :
         /\ Cardinality(drop) = Cardinality(plan[n].seen) - plan[n].goal
         /\ Act(n, 0, drop, plan[n].calm)
    /\ UNCHANGED owner

(* A new pod has a name nobody is about to drop.                           *)
Add(n) ==
    /\ plan[n].add > 0
    /\ \E p \in PodIds :
         /\ owner[p] = NoOwner /\ \A m \in RSNames : p \notin plan[m].drop
         /\ owner' = [owner EXCEPT ![p] = n]
    /\ Act(n, plan[n].add - 1, plan[n].drop, plan[n].calm)

(* A creation fails: the plan does without that pod.                       *)
Fail(n) ==
    /\ plan[n].add > 0
    /\ Act(n, plan[n].add - 1, plan[n].drop, FALSE)
    /\ UNCHANGED owner

(* A pod to drop may have been lost before; nobody else's is dropped.      *)
Drop(n) ==
    \E p \in plan[n].drop :
        /\ owner[p] \in {n, NoOwner}
        /\ owner' = [owner EXCEPT ![p] = NoOwner]
        /\ Act(n, plan[n].add, plan[n].drop \ {p}, plan[n].calm)

Finish(n) ==
    /\ plan[n].stage = "acting" /\ plan[n].add = 0 /\ plan[n].drop = {}
    /\ plan' = [plan EXCEPT ![n] = NoPlan]
    /\ UNCHANGED owner

Lose(n) ==
    /\ \E p \in PodsOf(n) : owner' = [owner EXCEPT ![p] = NoOwner]
    /\ plan' = [plan EXCEPT ![n].calm = FALSE]

Next ==
    \E n \in RSNames :
        \/ \E goal \in 0..MaxReplicas : Look(n, goal)
        \/ Decide(n) \/ Select(n)
        \/ Add(n) \/ Fail(n) \/ Drop(n) \/ Finish(n) \/ Lose(n)

Spec == Init /\ [][Next]_pVars

-----------------------------------------------------------------------------
(* A plan never overshoots: the pods it keeps, with those it still adds,   *)
(* are no more than its goal, and are the goal exactly while nobody else   *)
(* touches the pods. Until it is made, no pod goes unseen.                 *)
Balanced ==
    \A n \in RSNames :
        LET x == plan[n]
            kept == PodsOf(n) \ x.drop
        IN  /\ x.stage = "looked" => /\ PodsOf(n) \subseteq x.seen
                                     /\ x.calm => PodsOf(n) = x.seen
            /\ x.stage = "acting" => /\ Cardinality(kept) + x.add <= x.goal
                                     /\ x.calm => /\ Cardinality(kept) + x.add = x.goal
                                                  /\ x.drop \subseteq PodsOf(n)
=============================================================================
