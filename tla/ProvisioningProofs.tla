------------------------- MODULE ProvisioningProofs -------------------------
(* What a plan of Provisioning promises, proved for any number of names,   *)
(* pods and goals.                                                         *)
EXTENDS Provisioning, FiniteSetTheorems, TLAPS

PTypeOK ==
    /\ owner \in [PodIds -> RSNames \cup {NoOwner}]
    /\ plan \in [RSNames -> Plans]

PConstants == IsFiniteSet(PodIds) /\ NoOwner \notin RSNames /\ MaxReplicas \in Nat

(* Nothing is added or dropped before it is decided what to do.            *)
Undecided == \A n \in RSNames : plan[n].stage # "acting" => plan[n].add = 0 /\ plan[n].drop = {}

(* Balanced for one name.                                                  *)
Even(n) ==
    LET x == plan[n]
        kept == PodsOf(n) \ x.drop
    IN  /\ x.stage = "looked" => /\ PodsOf(n) \subseteq x.seen
                                 /\ x.calm => PodsOf(n) = x.seen
        /\ x.stage = "acting" => /\ Cardinality(kept) + x.add <= x.goal
                                 /\ x.calm => /\ Cardinality(kept) + x.add = x.goal
                                              /\ x.drop \subseteq PodsOf(n)

PInv == PTypeOK /\ Undecided /\ \A n \in RSNames : Even(n)

LEMMA PodSets ==
    ASSUME PConstants, NEW S \in SUBSET PodIds
    PROVE  IsFiniteSet(S) /\ Cardinality(S) \in Nat
BY FS_Subset, FS_CardinalityType DEF PConstants

LEMMA PlanFields ==
    ASSUME PTypeOK, NEW n \in RSNames
    PROVE  /\ plan[n].stage \in {"none", "looked", "acting"}
           /\ plan[n].goal \in 0..MaxReplicas /\ plan[n].calm \in BOOLEAN
           /\ plan[n].add \in Nat
           /\ plan[n].seen \in SUBSET PodIds /\ plan[n].drop \in SUBSET PodIds
BY DEF PTypeOK, Plans

(* A name whose pods and whose plan a step leaves alone.                   *)
LEMMA EvenKept ==
    ASSUME NEW m \in RSNames, Even(m), PodsOf(m)' = PodsOf(m), plan'[m] = plan[m]
    PROVE  Even(m)'
BY DEF Even

(* The plan of one name is replaced, its pods and those of others as said. *)
LEMMA OnePlan ==
    ASSUME PInv, NEW n \in RSNames, NEW x \in Plans,
           plan' = [plan EXCEPT ![n] = x],
           owner' \in [PodIds -> RSNames \cup {NoOwner}],
           \A m \in RSNames \ {n} : PodsOf(m)' = PodsOf(m),
           x.stage # "acting" => x.add = 0 /\ x.drop = {},
           plan'[n] = x => Even(n)'
    PROVE  PInv'
<1>1. PTypeOK'
    BY DEF PInv, PTypeOK
<1>2. plan'[n] = x /\ \A m \in RSNames \ {n} : plan'[m] = plan[m]
    BY DEF PInv, PTypeOK
<1>3. \A m \in RSNames : Even(m)'
    BY <1>2, EvenKept DEF PInv
<1>4. Undecided'
    BY <1>2 DEF PInv, Undecided
<1> QED
    BY <1>1, <1>3, <1>4 DEF PInv

LEMMA LookBalanced ==
    ASSUME PConstants, PInv, NEW n \in RSNames, NEW goal \in 0..MaxReplicas, Look(n, goal)
    PROVE  PInv'
<1> DEFINE x == [stage |-> "looked", goal |-> goal, seen |-> PodsOf(n),
                 add |-> 0, drop |-> {}, calm |-> TRUE]
<1>1. x \in Plans
    BY DEF Plans, PodsOf
<1>2. plan' = [plan EXCEPT ![n] = x] /\ \A m \in RSNames : PodsOf(m)' = PodsOf(m)
    BY DEF Look, PodsOf
<1>3. plan'[n] = x => Even(n)'
    BY <1>2 DEF Even
<1> QED
    BY <1>1, <1>2, <1>3, OnePlan DEF Look, PInv, PTypeOK

(* What is decided for a name becomes its plan.                            *)
LEMMA ActBalanced ==
    ASSUME PConstants, PInv, NEW n \in RSNames, plan[n].stage # "none",
           NEW add \in Nat, NEW drop \in SUBSET PodIds, NEW calm \in BOOLEAN,
           Act(n, add, drop, calm),
           owner' \in [PodIds -> RSNames \cup {NoOwner}],
           \A m \in RSNames \ {n} : PodsOf(m)' = PodsOf(m),
           NEW kept, kept = PodsOf(n)' \ drop,
           Cardinality(kept) + add <= plan[n].goal,
           calm => Cardinality(kept) + add = plan[n].goal,
           calm => drop \subseteq PodsOf(n)'
    PROVE  PInv'
<1> DEFINE x == [stage |-> "acting", goal |-> plan[n].goal, seen |-> {},
                 add |-> add, drop |-> drop, calm |-> calm]
<1>1. plan[n].goal \in 0..MaxReplicas
    BY PlanFields DEF PInv
<1>2. x \in Plans
    BY <1>1 DEF Plans
<1>3. plan' = [plan EXCEPT ![n] = x]
    BY DEF Act
<1>4. plan'[n] = x => Even(n)'
    BY DEF Even
<1> QED
    BY <1>2, <1>3, <1>4, OnePlan

LEMMA DecideBalanced ==
    ASSUME PConstants, PInv, NEW n \in RSNames, Decide(n) \/ Select(n)
    PROVE  PInv'
<1> DEFINE seen == plan[n].seen
           goal == plan[n].goal
           calm == plan[n].calm
<1>1. /\ plan[n].stage = "looked" /\ goal \in Nat /\ calm \in BOOLEAN
      /\ seen \in SUBSET PodIds
    BY PlanFields, PConstants DEF Decide, Select, PInv, PConstants
<1>2. PodsOf(n) \subseteq seen /\ (calm => PodsOf(n) = seen)
    BY <1>1 DEF PInv, Even
<1>3. /\ IsFiniteSet(seen) /\ Cardinality(seen) \in Nat
      /\ \A m \in RSNames : PodsOf(m)' = PodsOf(m)
      /\ owner' \in [PodIds -> RSNames \cup {NoOwner}]
    BY <1>1, PodSets DEF Decide, Select, PodsOf, PInv, PTypeOK
<1>4. CASE Cardinality(seen) <= goal /\ Act(n, goal - Cardinality(seen), {}, calm)
  <2>1. /\ Cardinality(PodsOf(n)) <= Cardinality(seen) /\ Cardinality(PodsOf(n)) \in Nat
      BY <1>2, <1>3, FS_Subset, FS_CardinalityType
  <2>2. goal - Cardinality(seen) \in Nat
      BY <1>1, <1>3, <1>4
  <2>3. /\ Cardinality(PodsOf(n)) + (goal - Cardinality(seen)) <= goal
        /\ calm => Cardinality(PodsOf(n)) + (goal - Cardinality(seen)) = goal
      BY <1>1, <1>2, <1>3, <2>1
  <2>4. PodsOf(n) = PodsOf(n)' \ {}
      BY <1>3
  <2> QED
      BY <1>1, <1>3, <1>4, <2>2, <2>3, <2>4, ActBalanced
<1>5. ASSUME NEW drop \in SUBSET seen, Cardinality(seen) > goal,
             Cardinality(drop) = Cardinality(seen) - goal, Act(n, 0, drop, calm)
      PROVE  PInv'
  <2> DEFINE kept == PodsOf(n) \ drop
  <2>1. /\ IsFiniteSet(seen \ drop) /\ IsFiniteSet(drop)
        /\ Cardinality(seen \ drop) = Cardinality(seen) - Cardinality(drop)
      <3>1. IsFiniteSet(drop) /\ IsFiniteSet(seen \ drop)
          BY <1>3, FS_Subset
      <3>2. seen \cap drop = drop
          OBVIOUS
      <3> QED
          BY <1>3, <3>1, <3>2, FS_Difference
  <2>2. Cardinality(seen \ drop) = goal
      BY <1>1, <1>3, <1>5, <2>1
  <2>3. Cardinality(kept) <= goal /\ Cardinality(kept) \in Nat
      <3>1. kept \subseteq seen \ drop
          BY <1>2
      <3> QED
          BY <2>1, <2>2, <3>1, FS_Subset, FS_CardinalityType
  <2>4. calm => Cardinality(kept) = goal /\ drop \subseteq PodsOf(n)
      BY <1>2, <2>2
  <2>5. kept = PodsOf(n)' \ drop
      BY <1>3
  <2>6. drop \in SUBSET PodIds
      BY <1>1
  <2>7. /\ Cardinality(kept) + 0 <= goal
        /\ calm => Cardinality(kept) + 0 = goal
        /\ calm => drop \subseteq PodsOf(n)'
      BY <1>3, <2>3, <2>4
  <2> HIDE DEF kept
  <2> QED
      BY <1>1, <1>3, <1>5, <2>5, <2>6, <2>7, ActBalanced
<1> QED
    BY <1>4, <1>5 DEF Decide, Select

(* Whoever adds or drops pods has decided to.                              *)
LEMMA Acting ==
    ASSUME PConstants, PInv, NEW n \in RSNames, plan[n].add > 0 \/ plan[n].drop # {}
    PROVE  /\ plan[n].stage = "acting"
           /\ plan[n].goal \in Nat /\ plan[n].add \in Nat /\ plan[n].calm \in BOOLEAN
           /\ plan[n].drop \in SUBSET PodIds
           /\ Cardinality(PodsOf(n) \ plan[n].drop) \in Nat
           /\ Cardinality(PodsOf(n) \ plan[n].drop) + plan[n].add <= plan[n].goal
           /\ plan[n].calm => /\ Cardinality(PodsOf(n) \ plan[n].drop) + plan[n].add = plan[n].goal
                              /\ plan[n].drop \subseteq PodsOf(n)
<1>1. plan[n].stage = "acting"
    BY PlanFields DEF PInv, Undecided
<1>2. PodsOf(n) \ plan[n].drop \in SUBSET PodIds
    BY DEF PodsOf
<1> QED
    BY <1>1, <1>2, PlanFields, PodSets DEF PInv, Even, PConstants

LEMMA AddBalanced ==
    ASSUME PConstants, PInv, NEW n \in RSNames, Add(n)
    PROVE  PInv'
<1> DEFINE drop == plan[n].drop
           kept == PodsOf(n) \ drop
           next == PodsOf(n)' \ drop
<1>1. PICK p \in PodIds :
        /\ owner[p] = NoOwner /\ \A m \in RSNames : p \notin plan[m].drop
        /\ owner' = [owner EXCEPT ![p] = n]
    BY DEF Add
<1>2. \A q \in PodIds : owner'[q] = IF q = p THEN n ELSE owner[q]
    BY <1>1 DEF PInv, PTypeOK
<1>3. /\ PodsOf(n)' = PodsOf(n) \cup {p} /\ p \notin PodsOf(n)
      /\ \A m \in RSNames \ {n} : PodsOf(m)' = PodsOf(m)
    BY <1>1, <1>2 DEF PodsOf, PConstants
<1>4. next = kept \cup {p} /\ p \notin kept /\ IsFiniteSet(kept)
  <2>1. kept \in SUBSET PodIds
    BY DEF PodsOf
  <2> QED
    BY <1>1, <1>3, <2>1, PodSets
<1>5. Cardinality(next) = Cardinality(kept) + 1
    BY <1>4, FS_AddElement
<1>6. owner' \in [PodIds -> RSNames \cup {NoOwner}]
    BY <1>1 DEF PInv, PTypeOK
<1>7. /\ plan[n].add > 0 /\ Act(n, plan[n].add - 1, drop, plan[n].calm)
    BY DEF Add
<1>8. plan[n].add - 1 \in Nat /\ plan[n].stage # "none"
  <2>1. plan[n].add \in Nat /\ plan[n].stage = "acting"
    BY <1>7, Acting
  <2> QED
    BY <1>7, <2>1
<1>9. /\ Cardinality(next) + (plan[n].add - 1) <= plan[n].goal
      /\ plan[n].calm => Cardinality(next) + (plan[n].add - 1) = plan[n].goal
    BY <1>5, <1>7, Acting
<1>10. plan[n].calm => drop \subseteq PodsOf(n)'
    BY <1>3, <1>7, Acting
<1>11. drop \in SUBSET PodIds /\ plan[n].calm \in BOOLEAN
    BY <1>7, Acting
<1> QED
    BY <1>3, <1>6, <1>7, <1>8, <1>9, <1>10, <1>11, ActBalanced

LEMMA FailBalanced ==
    ASSUME PConstants, PInv, NEW n \in RSNames, Fail(n)
    PROVE  PInv'
<1>1. plan[n].add > 0 /\ Act(n, plan[n].add - 1, plan[n].drop, FALSE)
    BY DEF Fail
<1>2. \A m \in RSNames : PodsOf(m)' = PodsOf(m)
    BY DEF Fail, PodsOf
<1>3. owner' \in [PodIds -> RSNames \cup {NoOwner}]
    BY DEF Fail, PInv, PTypeOK
<1>4. /\ plan[n].add - 1 \in Nat /\ plan[n].stage # "none" /\ plan[n].drop \in SUBSET PodIds
      /\ Cardinality(PodsOf(n) \ plan[n].drop) + (plan[n].add - 1) <= plan[n].goal
  <2>1. /\ plan[n].add \in Nat /\ plan[n].stage = "acting" /\ plan[n].drop \in SUBSET PodIds
        /\ Cardinality(PodsOf(n) \ plan[n].drop) \in Nat /\ plan[n].goal \in Nat
        /\ Cardinality(PodsOf(n) \ plan[n].drop) + plan[n].add <= plan[n].goal
    BY <1>1, Acting
  <2> QED
    BY <1>1, <2>1
<1>5. PodsOf(n) \ plan[n].drop = PodsOf(n)' \ plan[n].drop
    BY <1>2
<1> QED
    BY <1>1, <1>2, <1>3, <1>4, <1>5, ActBalanced

LEMMA DropBalanced ==
    ASSUME PConstants, PInv, NEW n \in RSNames, Drop(n)
    PROVE  PInv'
<1> DEFINE drop == plan[n].drop
           kept == PodsOf(n) \ drop
<1>1. PICK p \in drop :
        /\ owner[p] \in {n, NoOwner}
        /\ owner' = [owner EXCEPT ![p] = NoOwner]
        /\ Act(n, plan[n].add, drop \ {p}, plan[n].calm)
    BY DEF Drop
<1>2. drop # {} /\ p \in PodIds /\ plan[n].stage # "none" /\ drop \in SUBSET PodIds
    BY <1>1, Acting
<1>3. \A q \in PodIds : owner'[q] = IF q = p THEN NoOwner ELSE owner[q]
    BY <1>1 DEF PInv, PTypeOK
<1>4. /\ PodsOf(n)' = PodsOf(n) \ {p}
      /\ \A m \in RSNames \ {n} : PodsOf(m)' = PodsOf(m)
    BY <1>1, <1>3 DEF PodsOf, PConstants
<1>5. kept = PodsOf(n)' \ (drop \ {p})
  <2>1. CASE owner[p] = n
    BY <1>1, <1>4
  <2>2. CASE owner[p] = NoOwner
    <3>1. p \notin PodsOf(n)
      BY <2>2 DEF PodsOf, PConstants
    <3> QED
      BY <1>1, <1>4, <3>1
  <2> QED
    BY <1>1, <2>1, <2>2
<1>6. owner' \in [PodIds -> RSNames \cup {NoOwner}]
    BY <1>1 DEF PInv, PTypeOK
<1>7. /\ plan[n].add \in Nat /\ plan[n].calm \in BOOLEAN /\ drop \ {p} \in SUBSET PodIds
      /\ Cardinality(kept) + plan[n].add <= plan[n].goal
      /\ plan[n].calm => Cardinality(kept) + plan[n].add = plan[n].goal
    BY <1>2, Acting
<1>8. plan[n].calm => drop \ {p} \subseteq PodsOf(n)'
    BY <1>2, <1>4, Acting
<1> HIDE DEF kept
<1> QED
    BY <1>1, <1>2, <1>4, <1>5, <1>6, <1>7, <1>8, ActBalanced

LEMMA FinishBalanced ==
    ASSUME PConstants, PInv, NEW n \in RSNames, Finish(n)
    PROVE  PInv'
<1>1. plan' = [plan EXCEPT ![n] = NoPlan] /\ \A m \in RSNames : PodsOf(m)' = PodsOf(m)
    BY DEF Finish, PodsOf
<1>2. plan'[n] = NoPlan => Even(n)'
    BY DEF NoPlan, Even
<1>3. /\ NoPlan \in Plans /\ NoPlan.add = 0 /\ NoPlan.drop = {}
      /\ owner' \in [PodIds -> RSNames \cup {NoOwner}]
    BY DEF NoPlan, Plans, Finish, PInv, PTypeOK, PConstants
<1> QED
    BY <1>1, <1>2, <1>3, OnePlan

LEMMA LoseBalanced ==
    ASSUME PConstants, PInv, NEW n \in RSNames, Lose(n)
    PROVE  PInv'
<1> DEFINE x == [plan[n] EXCEPT !.calm = FALSE]
           drop == plan[n].drop
<1>1. PICK p \in PodsOf(n) : owner' = [owner EXCEPT ![p] = NoOwner]
    BY DEF Lose
<1>2. p \in PodIds /\ \A q \in PodIds : owner'[q] = IF q = p THEN NoOwner ELSE owner[q]
    BY <1>1 DEF PInv, PTypeOK, PodsOf
<1>3. /\ PodsOf(n)' = PodsOf(n) \ {p}
      /\ \A m \in RSNames \ {n} : PodsOf(m)' = PodsOf(m)
    BY <1>1, <1>2 DEF PodsOf, PConstants
<1>4. plan' = [plan EXCEPT ![n] = x]
    BY DEF Lose
<1>5. /\ x \in Plans /\ x.calm = FALSE
      /\ x.stage = plan[n].stage /\ x.goal = plan[n].goal /\ x.seen = plan[n].seen
      /\ x.add = plan[n].add /\ x.drop = drop
    BY DEF PInv, PTypeOK, Plans
<1>6. owner' \in [PodIds -> RSNames \cup {NoOwner}]
    BY <1>1 DEF PInv, PTypeOK
<1>7. plan[n].stage = "looked" => PodsOf(n)' \subseteq x.seen
    BY <1>3, <1>5 DEF PInv, Even
<1>8. ASSUME plan[n].stage = "acting"
      PROVE  Cardinality(PodsOf(n)' \ x.drop) + x.add <= x.goal
  <2>1. Cardinality(PodsOf(n) \ drop) + plan[n].add <= plan[n].goal
    BY <1>8 DEF PInv, Even
  <2>2. plan[n].goal \in Nat /\ plan[n].add \in Nat
    BY <1>8, PlanFields DEF PInv, PConstants
  <2>3. PodsOf(n) \ drop \in SUBSET PodIds /\ PodsOf(n)' \ drop \subseteq PodsOf(n) \ drop
    BY <1>3 DEF PodsOf
  <2>4. /\ Cardinality(PodsOf(n)' \ drop) <= Cardinality(PodsOf(n) \ drop)
        /\ Cardinality(PodsOf(n)' \ drop) \in Nat /\ Cardinality(PodsOf(n) \ drop) \in Nat
    BY <2>3, PodSets, FS_Subset, FS_CardinalityType
  <2> QED
    BY <1>5, <2>1, <2>2, <2>4
<1> HIDE DEF x
<1>9. plan'[n] = x => Even(n)'
    BY <1>5, <1>7, <1>8 DEF Even
<1>10. x.stage # "acting" => x.add = 0 /\ x.drop = {}
    BY <1>5 DEF PInv, Undecided
<1> QED
    BY <1>3, <1>4, <1>5, <1>6, <1>9, <1>10, OnePlan

LEMMA InitBalanced == PConstants /\ Init => PInv
<1> SUFFICES ASSUME PConstants, Init PROVE PInv
    OBVIOUS
<1>1. \A n \in RSNames : plan[n] = NoPlan
    BY DEF Init
<1>2. /\ NoPlan \in Plans /\ NoPlan.stage = "none"
      /\ NoPlan.add = 0 /\ NoPlan.drop = {}
    BY DEF NoPlan, Plans, PConstants
<1> QED
    BY <1>1, <1>2 DEF Init, PInv, PTypeOK, Undecided, Even

LEMMA NextBalanced == PConstants /\ PInv /\ [Next]_pVars => PInv'
<1> SUFFICES ASSUME PConstants, PInv, [Next]_pVars PROVE PInv'
    OBVIOUS
<1>1. CASE UNCHANGED pVars
    BY <1>1 DEF pVars, PInv, PTypeOK, Undecided, Even, PodsOf
<1> QED
    BY <1>1, LookBalanced, DecideBalanced, AddBalanced, FailBalanced, DropBalanced,
       FinishBalanced, LoseBalanced DEF Next

LEMMA BalancedIsEven == PInv => Balanced
    BY DEF PInv, Balanced, Even

(* A plan never overshoots its goal, and meets it when nobody disturbs it, *)
(* whatever is added, dropped and lost for other names meanwhile.          *)
THEOREM PlansBalanced ==
    ASSUME PConstants
    PROVE  Spec => []Balanced
<1>1. Init => PInv
    BY InitBalanced
<1>2. PInv /\ [Next]_pVars => PInv'
    BY NextBalanced
<1> QED
    BY <1>1, <1>2, BalancedIsEven, PTL DEF Spec
=============================================================================
