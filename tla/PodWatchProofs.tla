--------------------------- MODULE PodWatchProofs ---------------------------
(* No watch of PodWatch is ever sent an older version of a pod, and no     *)
(* round skips one, proved for any number of pods, watches and writes.     *)
EXTENDS PodWatch, TLAPS

(* What a watch has still to send of a pod is one version, no older than   *)
(* what it sent before and no newer than what is stored, if the pod still  *)
(* is; and no version was sent that was never written.                     *)
Pending(w) ==
    \A i \in watch[w].left :
        /\ watch[w].seen[i.name] <= i.ver
        /\ i.ver <= last
        /\ Stored(i.name) => i.ver <= pods[i.name].ver
        /\ \A j \in watch[w].left : j.name = i.name => j = i
Sent(w) ==
    \A n \in Names : /\ watch[w].seen[n] <= last
                     /\ Stored(n) => watch[w].seen[n] <= pods[n].ver

(* A pod the watch shows, not written since its list was taken, was sent   *)
(* as it is stored, or is still to be sent.                                *)
Listing(w, n) == Shown(watch[w].ns, n) /\ pods[n].ver <= watch[w].asof
Covered(w) ==
    /\ watch[w].asof <= last
    /\ watch[w].pc = "open" =>
         \A n \in Names : Listing(w, n) =>
             \/ watch[w].seen[n] = pods[n].ver
             \/ [name |-> n, ver |-> pods[n].ver] \in watch[w].left

Coherent(w) == Pending(w) /\ Sent(w) /\ Covered(w)

Ordered == /\ \A n \in Names : pods[n].ver <= last
           /\ \A w \in Watchers : Coherent(w)

WInv == TypeOK /\ Ordered

LEMMA InitInv == Init => WInv
<1> SUFFICES ASSUME Init PROVE WInv
    OBVIOUS
<1>1. TypeOK
    BY MaxVersionsAssumption DEF Init, TypeOK, Watch, Spaces
<1>2. Ordered
    BY DEF Init, Ordered, Coherent, Pending, Sent, Covered, NoPod, Stored
<1> QED
    BY <1>1, <1>2 DEF WInv

(* What is listed is stored: one version of each pod, of the pod's name.   *)
LEMMA ListedStored ==
    ASSUME TypeOK, NEW ns, NEW i \in Listed(ns)
    PROVE  /\ i \in Items /\ Stored(i.name) /\ i.ver = pods[i.name].ver
           /\ \A j \in Listed(ns) : j.name = i.name => j = i
<1>1. PICK n \in Names : Shown(ns, n) /\ i = [name |-> n, ver |-> pods[n].ver]
    BY DEF Listed
<1>2. pods[n] \in Versions
    BY <1>1 DEF Shown, Stored, TypeOK
<1>3. i \in Items /\ i.name = n /\ i.ver = pods[n].ver
    BY <1>1, <1>2 DEF Items, Versions
<1>4. ASSUME NEW j \in Listed(ns), j.name = i.name PROVE j = i
  <2>1. PICK m \in Names : j = [name |-> m, ver |-> pods[m].ver]
    BY DEF Listed
  <2>2. j.name = m
    BY <2>1
  <2> QED
    BY <1>1, <1>3, <1>4, <2>1, <2>2
<1> QED
    BY <1>1, <1>3, <1>4 DEF Shown

(* A step of one watch, from the record it leaves behind.                  *)
LEMMA WatchStep ==
    ASSUME WInv, NEW w \in Watchers, NEW x \in Watch,
           watch' = [watch EXCEPT ![w] = x], UNCHANGED <<pods, last>>,
           Coherent(w)'
    PROVE  WInv'
<1>1. \A u \in Watchers : u # w => watch'[u] = watch[u]
    BY DEF WInv, TypeOK
<1>2. ASSUME NEW u \in Watchers, u # w PROVE Coherent(u)'
  <2>1. watch'[u] = watch[u] /\ Coherent(u)
    BY <1>1, <1>2 DEF WInv, Ordered
  <2> QED
    BY <2>1 DEF Coherent, Pending, Sent, Covered, Listing, Shown, Stored
<1>3. TypeOK'
    BY DEF WInv, TypeOK
<1> QED
    BY <1>2, <1>3 DEF WInv, Ordered

(* A list taken when nothing is left to send of the one before.            *)
LEMMA ListStep ==
    ASSUME WInv, NEW w \in Watchers, NEW x \in Watch,
           watch' = [watch EXCEPT ![w] = x], UNCHANGED <<pods, last>>,
           x.left = Listed(x.ns), x.seen = watch[w].seen, x.asof = last
    PROVE  WInv'
<1>1. watch'[w] = x
    BY DEF WInv, TypeOK
<1>2. Sent(w)'
    BY <1>1 DEF WInv, Ordered, Coherent, Sent, Stored
<1>3. ASSUME NEW i \in x.left
      PROVE  /\ x.seen[i.name] <= i.ver /\ i.ver <= last
             /\ Stored(i.name) => i.ver <= pods[i.name].ver
             /\ \A j \in x.left : j.name = i.name => j = i
  <2>1. /\ i \in Items /\ Stored(i.name) /\ i.ver = pods[i.name].ver
        /\ \A j \in x.left : j.name = i.name => j = i
    BY <1>3, ListedStored DEF WInv
  <2>2. i.name \in Names /\ i.ver \in Nat
    BY <2>1, MaxVersionsAssumption DEF Items
  <2> QED
    BY <2>1, <2>2 DEF WInv, Ordered, Coherent, Sent
<1>4. Pending(w)'
    BY <1>1, <1>3 DEF Pending, Stored
<1>5. Covered(w)'
  <2>1. \A n \in Names : Shown(x.ns, n) => [name |-> n, ver |-> pods[n].ver] \in x.left
    BY DEF Listed
  <2>2. last \in Nat
    BY MaxVersionsAssumption DEF WInv, TypeOK
  <2> QED
    BY <1>1, <2>1, <2>2 DEF Covered, Listing, Shown, Stored
<1> QED
    BY <1>2, <1>4, <1>5, WatchStep DEF Coherent

LEMMA SendStep ==
    ASSUME WInv, NEW w \in Watchers, Send(w)
    PROVE  /\ WInv'
           /\ \A n \in Names : watch'[w].seen[n] >= watch[w].seen[n]
<1>1. PICK i \in watch[w].left :
        watch' = [watch EXCEPT
                    ![w].left = watch[w].left \ {i},
                    ![w].seen = [watch[w].seen EXCEPT ![i.name] = i.ver]]
    BY DEF Send
<1> DEFINE seen == [watch[w].seen EXCEPT ![i.name] = i.ver]
           x == [watch[w] EXCEPT !.left = watch[w].left \ {i}, !.seen = seen]
<1>2. watch[w] \in Watch /\ i \in Items /\ UNCHANGED <<pods, last>>
    BY DEF WInv, TypeOK, Watch, Send
<1>3. i.name \in Names /\ i.ver \in 1..MaxVersions /\ i.ver \in Nat
    BY <1>2, MaxVersionsAssumption DEF Items
<1>4. watch' = [watch EXCEPT ![w] = x] /\ watch'[w] = x
    BY <1>1 DEF WInv, TypeOK
<1>5. /\ seen \in [Names -> 0..MaxVersions] /\ seen[i.name] = i.ver
      /\ \A n \in Names : n # i.name => seen[n] = watch[w].seen[n]
    BY <1>2, <1>3 DEF Watch
<1> HIDE DEF seen
<1>6. /\ x \in Watch /\ x.left = watch[w].left \ {i} /\ x.seen = seen
      /\ x.pc = watch[w].pc /\ x.ns = watch[w].ns /\ x.asof = watch[w].asof
    BY <1>2, <1>5 DEF Watch
<1> HIDE DEF x
<1>7. Pending(w) /\ Sent(w) /\ Covered(w)
    BY DEF WInv, Ordered, Coherent
<1>8. \A j \in x.left : j \in Items /\ j.name # i.name
    BY <1>2, <1>6, <1>7 DEF Pending, Watch
<1>9. Pending(w)'
    BY <1>2, <1>4, <1>5, <1>6, <1>7, <1>8 DEF Pending, Stored, Items
<1>10. Sent(w)'
    BY <1>2, <1>3, <1>4, <1>5, <1>6, <1>7 DEF Sent, Pending, Stored
<1>11. \A n \in Names : x.seen[n] >= watch[w].seen[n]
  <2>1. \A n \in Names : watch[w].seen[n] \in Nat
    BY <1>2, MaxVersionsAssumption DEF Watch
  <2>2. watch[w].seen[i.name] <= i.ver
    BY <1>7 DEF Pending
  <2>3. ASSUME NEW n \in Names PROVE x.seen[n] >= watch[w].seen[n]
    <3>1. CASE n = i.name
      BY <1>3, <1>5, <1>6, <2>1, <2>2, <3>1
    <3>2. CASE n # i.name
      BY <1>5, <1>6, <2>1, <3>2
    <3> QED
      BY <3>1, <3>2
  <2> QED
    BY <2>3
<1>12. Covered(w)'
  <2>1. ASSUME NEW n \in Names, watch[w].pc = "open", Listing(w, n)
        PROVE  x.seen[n] = pods[n].ver \/ [name |-> n, ver |-> pods[n].ver] \in x.left
    <3>1. \/ watch[w].seen[n] = pods[n].ver
          \/ [name |-> n, ver |-> pods[n].ver] \in watch[w].left
      BY <1>7, <2>1 DEF Covered
    <3>2. Stored(n) /\ pods[n].ver \in Nat /\ watch[w].seen[n] \in Nat
      BY <1>2, <2>1, MaxVersionsAssumption DEF Listing, Shown, Stored, WInv, TypeOK, Versions, Watch
    <3>3. CASE n # i.name
      BY <1>5, <1>6, <3>1, <3>3
    <3>4. CASE n = i.name
      <4>1. watch[w].seen[n] <= i.ver /\ i.ver <= pods[n].ver
        BY <1>7, <3>2, <3>4 DEF Pending
      <4>2. watch[w].seen[n] = pods[n].ver => i.ver = pods[n].ver
        BY <1>3, <3>2, <4>1
      <4>3. [name |-> n, ver |-> pods[n].ver] \in watch[w].left => i.ver = pods[n].ver
        BY <1>7, <3>4 DEF Pending
      <4> QED
        BY <1>5, <1>6, <3>1, <3>4, <4>2, <4>3
    <3> QED
      BY <3>3, <3>4
  <2> QED
    BY <1>2, <1>4, <1>6, <1>7, <2>1 DEF Covered, Listing, Shown, Stored
<1> QED
    BY <1>2, <1>4, <1>6, <1>9, <1>10, <1>11, <1>12, WatchStep DEF Coherent

LEMMA WriteStep ==
    ASSUME WInv, NEW n \in Names, NEW ns \in Spaces, WritePod(n, ns)
    PROVE  WInv'
<1> DEFINE p == [ver |-> last + 1, ns |-> ns]
<1>1. /\ last \in Nat /\ last' = last + 1 /\ last' \in 0..MaxVersions
      /\ last + 1 \in 1..MaxVersions /\ watch' = watch
    BY MaxVersionsAssumption DEF WritePod, WInv, TypeOK
<1>2. p \in Versions /\ p.ver = last + 1
    BY <1>1 DEF Versions
<1>3. pods' = [pods EXCEPT ![n] = p]
    BY DEF WritePod
<1> HIDE DEF p
<1>4. /\ pods' \in [Names -> Versions \cup {NoPod}] /\ pods'[n] = p
      /\ \A m \in Names : m # n => pods'[m] = pods[m]
    BY <1>2, <1>3 DEF WInv, TypeOK
<1>5. \A m \in Names : pods[m].ver \in Nat /\ pods[m].ver <= last
    BY MaxVersionsAssumption DEF WInv, TypeOK, Ordered, Versions, NoPod
<1>6. \A m \in Names : pods'[m].ver <= last'
  <2>1. ASSUME NEW m \in Names PROVE pods'[m].ver <= last'
    BY <1>1, <1>2, <1>4, <1>5
  <2> QED
    BY <2>1
<1>7. ASSUME NEW w \in Watchers PROVE Coherent(w)'
  <2>1. watch[w] \in Watch /\ Pending(w) /\ Sent(w) /\ Covered(w)
    BY DEF WInv, TypeOK, Ordered, Coherent
  <2>2. /\ \A i \in watch[w].left : i.name \in Names /\ i.ver \in Nat
        /\ \A m \in Names : watch[w].seen[m] \in Nat
    BY <2>1, MaxVersionsAssumption DEF Watch, Items
  <2>3. Pending(w)'
    BY <1>1, <1>2, <1>4, <2>1, <2>2 DEF Pending, Stored
  <2>4. Sent(w)'
    BY <1>1, <1>2, <1>4, <2>1, <2>2 DEF Sent, Stored
  <2>5. watch[w].asof \in Nat /\ watch[w].asof <= last
    BY <2>1, MaxVersionsAssumption DEF Watch, Covered
  <2>6. \A m \in Names : Listing(w, m)' => m # n /\ Listing(w, m)
    BY <1>1, <1>2, <1>4, <2>5 DEF Listing, Shown, Stored
  <2>7. Covered(w)'
    BY <1>1, <1>4, <2>1, <2>5, <2>6 DEF Covered
  <2> QED
    BY <2>3, <2>4, <2>7 DEF Coherent
<1> QED
    BY <1>1, <1>4, <1>6, <1>7 DEF WInv, TypeOK, Ordered

LEMMA DeleteStep ==
    ASSUME WInv, NEW n \in Names, DeletePod(n)
    PROVE  WInv'
<1>1. /\ pods' \in [Names -> Versions \cup {NoPod}] /\ pods'[n] = NoPod
      /\ \A m \in Names : m # n => pods'[m] = pods[m]
      /\ UNCHANGED <<last, watch>>
    BY DEF DeletePod, WInv, TypeOK
<1>2. \A m \in Names : pods'[m].ver <= last
    BY <1>1 DEF WInv, TypeOK, Ordered, NoPod
<1>3. ASSUME NEW w \in Watchers PROVE Coherent(w)'
  <2>1. watch[w] \in Watch /\ Pending(w) /\ Sent(w) /\ Covered(w)
    BY DEF WInv, TypeOK, Ordered, Coherent
  <2>2. \A i \in watch[w].left : i.name \in Names
    BY <2>1 DEF Watch, Items
  <2>3. (Pending(w) /\ Sent(w))'
    BY <1>1, <2>1, <2>2 DEF Pending, Sent, Stored
  <2>4. \A m \in Names : Listing(w, m)' => m # n /\ Listing(w, m)
    BY <1>1 DEF Listing, Shown, Stored
  <2>5. Covered(w)'
    BY <1>1, <2>1, <2>4 DEF Covered
  <2> QED
    BY <2>3, <2>5 DEF Coherent
<1> QED
    BY <1>1, <1>2, <1>3 DEF WInv, TypeOK, Ordered

(* The steps of a watch that sends nothing.                                *)
LEMMA QuietWatchStep ==
    ASSUME WInv, NEW w \in Watchers,
           (\E ns \in Spaces : WatchPods(w, ns)) \/ Tick(w) \/ Done(w) \/ Disconnect(w)
    PROVE  WInv' /\ watch'[w].seen = watch[w].seen
<1>1. /\ watch[w] \in Watch /\ watch \in [Watchers -> Watch]
      /\ \A ns : Listed(ns) \subseteq Items
    BY ListedStored DEF WInv, TypeOK
<1>2. ASSUME NEW x \in Watch, watch' = [watch EXCEPT ![w] = x], UNCHANGED <<pods, last>>,
             x.left = Listed(x.ns), x.seen = watch[w].seen, x.asof = last
      PROVE  WInv' /\ watch'[w].seen = watch[w].seen
    BY <1>1, <1>2, ListStep
<1>3. ASSUME NEW ns \in Spaces, WatchPods(w, ns)
      PROVE  WInv' /\ watch'[w].seen = watch[w].seen
  <2> DEFINE x == [watch[w] EXCEPT !.pc = "open", !.ns = ns, !.left = Listed(ns),
                               !.asof = last]
  <2>1. x \in Watch /\ x.left = Listed(x.ns) /\ x.seen = watch[w].seen /\ x.asof = last
    BY <1>1 DEF Watch, WInv, TypeOK
  <2>2. watch' = [watch EXCEPT ![w] = x] /\ UNCHANGED <<pods, last>>
    BY <1>3 DEF WatchPods
  <2> QED
    BY <1>2, <2>1, <2>2
<1>4. CASE Tick(w)
  <2> DEFINE x == [watch[w] EXCEPT !.left = Listed(watch[w].ns), !.asof = last]
  <2>1. x \in Watch /\ x.left = Listed(x.ns) /\ x.seen = watch[w].seen /\ x.asof = last
    BY <1>1 DEF Watch, WInv, TypeOK
  <2>2. watch' = [watch EXCEPT ![w] = x] /\ UNCHANGED <<pods, last>>
    BY <1>4 DEF Tick, RoundOver, Again
  <2> QED
    BY <1>2, <2>1, <2>2
<1>5. ASSUME NEW x \in Watch, watch' = [watch EXCEPT ![w] = x], UNCHANGED <<pods, last>>,
             x.left = watch[w].left, x.seen = watch[w].seen, x.ns = watch[w].ns,
             x.asof = watch[w].asof, x.pc = "open" => watch[w].pc = "open"
      PROVE  WInv' /\ watch'[w].seen = watch[w].seen
  <2>1. watch'[w] = x
    BY <1>1, <1>5
  <2>2. (Pending(w) /\ Sent(w))'
    BY <1>5, <2>1 DEF WInv, Ordered, Coherent, Pending, Sent, Stored
  <2>3. Covered(w)'
    BY <1>5, <2>1 DEF WInv, Ordered, Coherent, Covered, Listing, Shown, Stored
  <2> QED
    BY <1>5, <2>1, <2>2, <2>3, WatchStep DEF Coherent
<1>6. CASE Done(w)
  <2> DEFINE x == [watch[w] EXCEPT !.pc = "ended"]
  <2>1. /\ x \in Watch /\ x.left = watch[w].left /\ x.seen = watch[w].seen
        /\ x.ns = watch[w].ns /\ x.asof = watch[w].asof
        /\ x.pc = "open" => watch[w].pc = "open"
    BY <1>1 DEF Watch
  <2>2. watch' = [watch EXCEPT ![w] = x] /\ UNCHANGED <<pods, last>>
    BY <1>6 DEF Done
  <2> QED
    BY <1>5, <2>1, <2>2
<1>7. CASE Disconnect(w)
  <2> DEFINE x == [watch[w] EXCEPT !.gone = TRUE]
  <2>1. /\ x \in Watch /\ x.left = watch[w].left /\ x.seen = watch[w].seen
        /\ x.ns = watch[w].ns /\ x.asof = watch[w].asof
        /\ x.pc = "open" => watch[w].pc = "open"
    BY <1>1 DEF Watch
  <2>2. watch' = [watch EXCEPT ![w] = x] /\ UNCHANGED <<pods, last>>
    BY <1>7 DEF Disconnect
  <2> QED
    BY <1>5, <2>1, <2>2
<1> QED
    BY <1>3, <1>4, <1>6, <1>7

LEMMA NextStep ==
    ASSUME WInv, [Next]_vars
    PROVE  /\ WInv'
           /\ \A w \in Watchers, n \in Names : watch'[w].seen[n] >= watch[w].seen[n]
<1> DEFINE Forward == \A w \in Watchers, n \in Names : watch'[w].seen[n] >= watch[w].seen[n]
<1>1. \A w \in Watchers, n \in Names : watch[w].seen[n] \in Nat
    BY MaxVersionsAssumption DEF WInv, TypeOK, Watch
<1>2. ASSUME watch' = watch PROVE WInv' /\ Forward
  <2>1. Forward
    BY <1>1, <1>2
  <2>2. WInv'
    <3>1. CASE UNCHANGED vars
      BY <3>1 DEF vars, WInv, TypeOK, Ordered, Coherent, Pending, Sent,
                       Covered, Listing, Shown, Stored
    <3>2. ASSUME Next PROVE WInv'
      <4>1. ASSUME NEW w \in Watchers,
                   \/ \E ns \in Spaces : WatchPods(w, ns)
                   \/ Send(w) \/ Tick(w) \/ Done(w) \/ Disconnect(w)
            PROVE  WInv'
        BY <4>1, SendStep, QuietWatchStep
      <4> QED
        BY <3>2, <4>1, WriteStep, DeleteStep DEF Next
    <3> QED
      BY <3>1, <3>2
  <2> QED
    BY <2>1, <2>2
<1>3. ASSUME NEW w \in Watchers,
             \/ \E ns \in Spaces : WatchPods(w, ns)
             \/ Send(w) \/ Tick(w) \/ Done(w) \/ Disconnect(w)
      PROVE  WInv' /\ Forward
  <2>1. \A u \in Watchers : u # w => watch'[u] = watch[u]
    BY <1>3 DEF WatchPods, Send, Tick, Done, Disconnect, WInv, TypeOK
  <2>2. WInv' /\ \A n \in Names : watch'[w].seen[n] >= watch[w].seen[n]
    BY <1>1, <1>3, SendStep, QuietWatchStep
  <2> QED
    BY <1>1, <2>1, <2>2
<1> HIDE DEF Forward
<1>4. ASSUME NEW n \in Names, DeletePod(n) \/ \E ns \in Spaces : WritePod(n, ns)
      PROVE  WInv' /\ Forward
    BY <1>2, <1>4 DEF DeletePod, WritePod
<1>5. WInv' /\ Forward
    BY <1>2, <1>3, <1>4 DEF Next, vars
<1> QED
    BY <1>5 DEF Forward

(* The variables keep their types.                                         *)
THEOREM WatchTypes == Spec => []TypeOK
<1>1. WInv /\ [Next]_vars => WInv'
    BY NextStep
<1>2. WInv => TypeOK
    BY DEF WInv
<1> QED
    BY InitInv, <1>1, <1>2, PTL DEF Spec

(* A finished round has sent every pod it shows that was not written since *)
(* its list was taken, although each event is stale when it is sent.       *)
THEOREM RoundsComplete == Spec => []NothingMissed
<1>1. WInv /\ [Next]_vars => WInv'
    BY NextStep
<1>2. WInv => NothingMissed
    BY DEF WInv, Ordered, Coherent, Covered, Listing, NothingMissed, RoundOver
<1> QED
    BY InitInv, <1>1, <1>2, PTL DEF Spec

(* A client never sees a pod go back in time, however stale its list.      *)
THEOREM NeverBack == Spec => SeenNeverGoesBack
<1>1. WInv /\ [Next]_vars => WInv'
    BY NextStep
<1>2. WInv /\ [Next]_vars =>
        [\A w \in Watchers, n \in Names : watch'[w].seen[n] >= watch[w].seen[n]]_vars
    BY NextStep
<1> QED
    BY InitInv, <1>1, <1>2, PTL DEF Spec, SeenNeverGoesBack
=============================================================================
