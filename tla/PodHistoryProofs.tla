--------------------------- MODULE PodHistoryProofs ---------------------------
(* What a client may rely on as a pod's history goes on, proved for any    *)
(* number of pods, requests and states: the server implements PodTable,    *)
(* and a pod posted when nothing was left over for its name is its own.    *)
EXTENDS PodLifecycleProofs

(* What is stored for a name, or was read of it, came from POSTs of that   *)
(* name; goroutines that have not started have read nothing.               *)
From(n, p) == p # NoPod => p.inc \in Posts(n) /\ p.ct \in Posts(n) \cup {0}
FromPosts ==
    /\ \A n \in Names : From(n, pods[n])
    /\ \A i \in DOMAIN incs : From(NameOf(i), seqRead[i]) /\ From(NameOf(i), timer[i].read)
    /\ \A i \in Incs \ DOMAIN incs : seqRead[i] = NoPod /\ timer[i].read = NoPod

HInv == LInv /\ FromPosts

-----------------------------------------------------------------------------
(* POSTs are only added.                                                   *)
LEMMA PostsGrow ==
    ASSUME LInv, NEW t \in Threads, NEW k \in Keys, NEW owned \in BOOLEAN,
           NEW pc \in {"lookup", "pendingGet"}, CreatePod(t, k, owned, pc)
    PROVE  \E i \in Incs :
             /\ i = Len(incs) + 1 /\ DOMAIN incs' = DOMAIN incs \cup {i} /\ i \notin DOMAIN incs
             /\ Posts(k[2])' = Posts(k[2]) \cup {i}
             /\ \A n \in Names : n # k[2] => Posts(n)' = Posts(n)
             /\ \A j \in DOMAIN incs : NameOf(j)' = NameOf(j)
             /\ NameOf(i)' = k[2]
<1> PICK i \in Incs : i = Len(incs) + 1
    BY CreateView
<1>1. /\ DOMAIN incs' = DOMAIN incs \cup {i} /\ i \notin DOMAIN incs
      /\ \A j \in DOMAIN incs : incs'[j] = incs[j]
      /\ incs'[i].key = k
    BY CreateView
<1>2. NameOf(i)' = k[2] /\ \A j \in DOMAIN incs : NameOf(j)' = NameOf(j)
    BY <1>1 DEF NameOf, KeyOf
<1>3. \A n : Posts(n)' = {j \in DOMAIN incs' : NameOf(j)' = n}
    BY DEF Posts
<1>4. \A n : Posts(n)' = Posts(n) \cup {j \in {i} : n = k[2]}
    BY <1>1, <1>2, <1>3 DEF Posts
<1>5. \A n : n # k[2] => Posts(n)' = Posts(n)
    BY <1>4
<1>6. Posts(k[2])' = Posts(k[2]) \cup {i}
    BY <1>4
<1> QED
    BY <1>1, <1>2, <1>5, <1>6

LEMMA PostsSame ==
    ASSUME UNCHANGED incs
    PROVE  /\ \A n : Posts(n)' = Posts(n)
           /\ \A i : NameOf(i)' = NameOf(i)
           /\ \A n, p : From(n, p) <=> (p # NoPod => p.inc \in Posts(n)'
                                                /\ p.ct \in Posts(n)' \cup {0})
    BY DEF Posts, NameOf, KeyOf, From

(* Writing a pod that came from POSTs of its name.                         *)
LEMMA UpdateFrom ==
    ASSUME HInv, UNCHANGED incs, NEW n \in Names, NEW p \in PodRecords, UpdatePod(n, p),
           From(n, p)
    PROVE  \A m \in Names : From(m, pods'[m])
    BY UpdateKeeps DEF HInv, FromPosts

LEMMA FromKept ==
    ASSUME HInv, UNCHANGED incs,
           \A n \in Names : From(n, pods'[n]),
           \A i \in DOMAIN incs : /\ seqRead'[i] = seqRead[i] \/ From(NameOf(i), seqRead'[i])
                                  /\ \/ timer'[i].read = timer[i].read
                                     \/ From(NameOf(i), timer'[i].read),
           \A i \in Incs \ DOMAIN incs : /\ seqRead'[i] = seqRead[i]
                                         /\ timer'[i].read = timer[i].read
    PROVE  FromPosts'
<1>1. \A n : Posts(n)' = Posts(n)
    BY PostsSame
<1>2. \A n \in Names : From(n, pods[n])'
    BY <1>1 DEF From
<1>3. \A i \in DOMAIN incs : From(NameOf(i), seqRead'[i]) /\ From(NameOf(i), timer'[i].read)
    BY DEF HInv, FromPosts
<1>4. \A i \in DOMAIN incs' : From(NameOf(i), seqRead[i])' /\ From(NameOf(i), timer[i].read)'
    BY <1>1, <1>3, PostsSame DEF From
<1>5. \A i \in Incs \ DOMAIN incs' : seqRead'[i] = NoPod /\ timer'[i].read = NoPod
    BY DEF HInv, FromPosts
<1> QED
    BY <1>2, <1>4, <1>5 DEF FromPosts

(* The writers, with what they write: the startup goroutine ...            *)
LEMMA RunningFrom ==
    ASSUME HInv, NEW i \in Incs, timer[i].pc # "none"
    PROVE  /\ i \in DOMAIN incs /\ NameOf(i) \in Names /\ i \in Posts(NameOf(i))
           /\ From(NameOf(i), RunningPod(i, timer[i].read))
           /\ RunningPod(i, timer[i].read) \in PodRecords
<1>1. i \in DOMAIN incs /\ NameOf(i) \in Names /\ i \in Posts(NameOf(i))
    BY IncTypes DEF HInv, LInv, Roles, Posts
<1>2. timer[i].read.ct \in Posts(NameOf(i)) \cup {0}
    BY <1>1 DEF HInv, FromPosts, From, NoPod
<1>3. Stamp(i, incs[i].owned) \in Posts(NameOf(i)) \cup {0}
    BY <1>1 DEF Stamp
<1> QED
    BY <1>1, <1>2, <1>3, RunningRecord DEF HInv, From

(* ... the handler of a POST ...                                           *)
LEMMA PendingFrom ==
    ASSUME HInv, NEW t \in Threads, h[t].pc = "pendingPut"
    PROVE  LET i == h[t].inc IN
           /\ i \in DOMAIN incs /\ NameOf(i) \in Names /\ i \in Posts(NameOf(i))
           /\ From(NameOf(i), PendingPod(i, h[t].read))
           /\ PendingPod(i, h[t].read) \in PodRecords
           /\ seq[i].pc = "none" /\ timer[i].pc = "none" /\ i \in Incs
<1>1. Posting(t) /\ LInv
    BY DEF Posting, CreatePcs, HInv
<1>2. h[t].inc \in DOMAIN incs /\ NameOf(h[t].inc) \in Names /\ h[t].inc \in Incs
    BY <1>1, HandlerTypes
<1>3. h[t].inc \in Posts(NameOf(h[t].inc))
    BY <1>2 DEF Posts
<1> QED
    BY <1>1, <1>2, <1>3, PendingRecord DEF From, LInv, Roles

(* ... and a sequence.                                                     *)
LEMMA AppliedFrom ==
    ASSUME HInv, NEW s \in Incs, seq[s].pc = "put"
    PROVE  /\ s \in DOMAIN incs /\ NameOf(s) \in Names /\ s \in Posts(NameOf(s))
           /\ From(NameOf(s), AppliedPod(s, seqRead[s]))
           /\ AppliedPod(s, seqRead[s]) \in PodRecords
           /\ seq[s].key = KeyOf(s)
<1>1. s \in DOMAIN incs /\ NameOf(s) \in Names /\ s \in Posts(NameOf(s)) /\ seq[s].key = KeyOf(s)
    BY IncTypes DEF HInv, LInv, Roles, Posts
<1>2. seqRead[s] # NoPod /\ From(NameOf(s), seqRead[s])
    BY <1>1 DEF HInv, FromPosts, LInv, ReadFirst
<1> QED
    BY <1>1, <1>2, AppliedRecord DEF HInv, From

LEMMA FromCreate ==
    ASSUME HInv, NEW t \in Threads, NEW k \in Keys, NEW owned \in BOOLEAN,
           NEW pc \in {"lookup", "pendingGet"}, CreatePod(t, k, owned, pc)
    PROVE  FromPosts'
<1> PICK i \in Incs :
        /\ i = Len(incs) + 1 /\ DOMAIN incs' = DOMAIN incs \cup {i} /\ i \notin DOMAIN incs
        /\ Posts(k[2])' = Posts(k[2]) \cup {i}
        /\ \A n \in Names : n # k[2] => Posts(n)' = Posts(n)
        /\ \A j \in DOMAIN incs : NameOf(j)' = NameOf(j)
        /\ NameOf(i)' = k[2]
    BY PostsGrow DEF HInv
<1> DEFINE p == [NoPod EXCEPT !.inc = i, !.ct = Stamp(i, owned), !.owned = owned]
<1>1. k[2] \in Names /\ pods' = [pods EXCEPT ![k[2]] = p] /\ UNCHANGED <<seqRead, timer>>
    BY DEF CreatePod, Keys
<1>2. p.inc = i /\ p.ct \in {0, i}
    BY DEF NoPod, Stamp
<1> HIDE DEF p
<1>3. \A n \in Names : Posts(n) \subseteq Posts(n)'
    OBVIOUS
<1>4. \A n \in Names : From(n, pods[n])'
  <2>1. From(k[2], pods[k[2]])'
    <3>1. pods'[k[2]] = p
      BY <1>1 DEF HInv, LInv, OwnTypes
    <3> QED
      BY <1>2, <3>1 DEF From
  <2>2. ASSUME NEW n \in Names, n # k[2] PROVE From(n, pods[n])'
    <3>1. pods'[n] = pods[n] /\ From(n, pods[n])
      BY <1>1, <2>2 DEF HInv, LInv, OwnTypes, FromPosts
    <3> QED
      BY <1>3, <3>1 DEF From
  <2> QED
    BY <2>1, <2>2
<1>5. ASSUME NEW j \in DOMAIN incs'
      PROVE  From(NameOf(j), seqRead[j])' /\ From(NameOf(j), timer[j].read)'
  <2>1. CASE j = i
    BY <1>1, <2>1 DEF HInv, FromPosts, From
  <2>2. CASE j \in DOMAIN incs
    <3>1. NameOf(j) \in Names /\ NameOf(j)' = NameOf(j)
          /\ From(NameOf(j), seqRead[j]) /\ From(NameOf(j), timer[j].read)
      BY <2>2, IncTypes DEF HInv, FromPosts
    <3> QED
      BY <1>1, <1>3, <3>1 DEF From
  <2> QED
    BY <1>5, <2>1, <2>2
<1>6. \A j \in Incs \ DOMAIN incs' : seqRead'[j] = NoPod /\ timer'[j].read = NoPod
    BY <1>1 DEF HInv, FromPosts
<1> QED
    BY <1>4, <1>5, <1>6 DEF FromPosts

LEMMA FromStep == HInv /\ [Next]_vars => FromPosts'
<1> SUFFICES ASSUME HInv, [Next]_vars PROVE FromPosts'
    OBVIOUS
<1>0. \A n \in Names : From(n, pods[n])
    BY DEF HInv, FromPosts
<1>1. ASSUME UNCHANGED <<pods, seqRead, timer, incs>> PROVE FromPosts'
    BY <1>0, <1>1, FromKept
<1>2. ASSUME NEW t \in Threads, Request(t) PROVE FromPosts'
    BY <1>1, <1>2, FromCreate
    DEF Request, PostPod, CreatePodForReplicaSet, DeletePod,
        DeletePodOfReplicaSet, DeleteBegins, CancelPodTransition, SimulatePod
<1>3. ASSUME NEW t \in Threads, HandlerStep(t) PROVE FromPosts'
  <2>1. CASE PostPendingPut(t)
    <3> DEFINE i == h[t].inc
    <3>1. UNCHANGED <<seqRead, incs>> /\ UpdatePod(NameOf(i), PendingPod(i, h[t].read))
          /\ timer' \in {timer, Startup(i)} /\ h[t].pc = "pendingPut"
      BY <2>1 DEF PostPendingPut
    <3>2. \A n \in Names : From(n, pods'[n])
      BY <3>1, PendingFrom, UpdateFrom
    <3>3. \A j \in Incs : timer'[j].read = timer[j].read
      BY <3>1 DEF Startup, HInv, LInv, OwnTypes, Timers
    <3> QED
      BY <3>1, <3>2, <3>3, IncTypes, FromKept DEF HInv
  <2>2. CASE DeleteStore(t)
    <3>1. \A n \in Names : pods'[n] \in {pods[n], NoPod}
      BY <2>2 DEF DeleteStore, RemovePod, HInv, LInv, OwnTypes
    <3>2. \A n \in Names : From(n, pods'[n])
      BY <1>0, <3>1 DEF From
    <3> QED
      BY <2>2, <3>2, FromKept DEF DeleteStore
  <2> QED
    BY <1>1, <1>3, <2>1, <2>2
    DEF HandlerStep, PostLookup, PostCancel, PostVerify, PostInsert, PostPendingGet,
        DeleteCancel, DeleteTemplate, SimCancel
<1>4. ASSUME NEW i \in Incs, TimerStep(i) \/ TimerStop(i) PROVE FromPosts'
  <2>1. i \in DOMAIN incs /\ NameOf(i) \in Names
    BY <1>4, RunningFrom DEF TimerStep, TimerFire, TimerPut, TimerStop
  <2>2. UNCHANGED <<seqRead, incs>>
    BY <1>4 DEF TimerStep, TimerFire, TimerPut, TimerStop
  <2>3. ASSUME NEW x, timer' = [timer EXCEPT ![i] = x], From(NameOf(i), x.read),
               \A n \in Names : From(n, pods'[n])
        PROVE  FromPosts'
    <3>1. timer'[i] = x /\ \A j \in Incs : j # i => timer'[j] = timer[j]
      BY <2>3 DEF HInv, LInv, OwnTypes
    <3> QED
      BY <2>1, <2>2, <2>3, <3>1, IncTypes, FromKept DEF HInv
  <2>4. CASE TimerFire(i)
    BY <1>0, <2>1, <2>3, <2>4 DEF TimerFire
  <2>5. CASE TimerPut(i)
    <3>1. \A n \in Names : From(n, pods'[n])
      BY <2>1, <2>2, <2>5, RunningFrom, UpdateFrom DEF TimerPut
    <3> QED
      BY <2>3, <2>5, <3>1 DEF TimerPut, From
  <2>6. CASE TimerStop(i)
    <3> DEFINE x == [timer[i] EXCEPT !.pc = "done"]
    <3>1. x.read = timer[i].read
      BY DEF HInv, LInv, OwnTypes, Timers
    <3>2. From(NameOf(i), x.read)
      BY <2>1, <3>1 DEF HInv, FromPosts
    <3>3. timer' = [timer EXCEPT ![i] = x] /\ UNCHANGED pods
      BY <2>6 DEF TimerStop
    <3> HIDE DEF x
    <3> QED
      BY <1>0, <2>3, <3>2, <3>3
  <2> QED
    BY <1>4, <2>4, <2>5, <2>6 DEF TimerStep
<1>5. ASSUME NEW s \in Incs, SeqStep(s) PROVE FromPosts'
  <2>1. UNCHANGED <<timer, incs>>
    BY <1>5 DEF SeqStep, SeqControl, SeqGet, SeqPut
  <2>2. CASE SeqControl(s)
    BY <1>1, <2>2 DEF SeqControl
  <2>3. ASSUME NEW x, seqRead' = [seqRead EXCEPT ![s] = x], From(NameOf(s), x),
               s \in DOMAIN incs, \A n \in Names : From(n, pods'[n])
        PROVE  FromPosts'
    <3>1. seqRead'[s] = x /\ \A j \in Incs : j # s => seqRead'[j] = seqRead[j]
      BY <2>3 DEF HInv, LInv, OwnTypes
    <3> QED
      BY <2>1, <2>3, <3>1, IncTypes, FromKept DEF HInv
  <2>4. CASE SeqGet(s)
    <3>1. s \in DOMAIN incs /\ NameOf(s) \in Names
      BY <2>4, IncTypes DEF SeqGet, HInv, LInv, Roles
    <3> QED
      BY <1>0, <2>3, <2>4, <3>1 DEF SeqGet
  <2>5. CASE SeqPut(s)
    <3>1. s \in DOMAIN incs /\ \A n \in Names : From(n, pods'[n])
      BY <2>1, <2>5, AppliedFrom, UpdateFrom DEF SeqPut
    <3> QED
      BY <2>3, <2>5, <3>1 DEF SeqPut, From
  <2> QED
    BY <1>5, <2>2, <2>4, <2>5 DEF SeqStep
<1>6. CASE Stop \/ UNCHANGED vars
    BY <1>1, <1>6 DEF Stop, vars
<1> QED
    BY <1>2, <1>3, <1>4, <1>5, <1>6 DEF Next

LEMMA HInvInit == Init => HInv
<1> SUFFICES ASSUME Init PROVE HInv
    OBVIOUS
<1>1. DOMAIN incs = {}
    BY DEF Init
<1> QED
    BY <1>1, LInvInit DEF Init, HInv, FromPosts, From

LEMMA HInvAlways == Spec => []HInv
<1>1. HInv /\ [Next]_vars => HInv'
    BY LInvStep, FromStep DEF HInv
<1> QED
    BY <1>1, HInvInit, PTL DEF Spec

-----------------------------------------------------------------------------
(* The table as PodTable sees it.                                          *)
Table == [n \in Names |-> Row(pods[n])]
Posted == [i \in DOMAIN incs |-> NameOf(i)]
Agents == [i \in Incs |-> Progress(i)]

LEMMA RowOf ==
    ASSUME NEW p \in PodRecords \cup {NoPod}
    PROVE  Row(p) = PT!NoRow <=> p = NoPod
<1>1. CASE p = NoPod
    BY <1>1 DEF Row, NoPod, PT!NoRow
<1>2. CASE p \in PodRecords
  <2>1. p.inc # 0 /\ NoPod.inc = 0
    BY <1>2, MaxCreatesAssumption DEF PodRecords, Incs, NoPod
  <2>2. Row(p).inc = p.inc /\ PT!NoRow.inc = 0
    BY DEF Row, PT!NoRow
  <2> QED
    BY <2>1, <2>2
<1> QED
    BY <1>1, <1>2

LEMMA PresentStored ==
    ASSUME LInv, NEW n \in Names
    PROVE  PT!Present(n) <=> Stored(n)
    BY RowOf DEF PT!Present, Stored, LInv, OwnTypes

LEMMA PostsOfPosted ==
    ASSUME NEW n
    PROVE  PT!PostsOf(n) = Posts(n)
    BY DEF PT!PostsOf, Posts

(* A goroutine that comes to its pod's next status.                        *)
LEMMA Advances ==
    ASSUME HInv, UNCHANGED <<incs, stopped>>, NEW i \in DOMAIN incs, NEW kind \in {"default", "template"},
           NEW step \in Nat,
           Progress(i).step = step, Progress(i).kind \in {"none", kind},
           step < PT!Last(kind),
           Progress(i)' = [kind |-> kind, step |-> step + 1],
           \A j \in Incs : j # i => Progress(j)' = Progress(j)
    PROVE  PT!Advance(i, kind) /\ Agents[i].step = step
<1>1. i \in Incs
    BY IncTypes DEF HInv
<1>2. Agents' = [j \in Incs |-> Progress(j)']
    BY DEF Agents
<1>3. Agents' = [Agents EXCEPT ![i] = [kind |-> kind, step |-> Agents[i].step + 1]]
    BY <1>1, <1>2 DEF Agents
<1>4. Posted' = Posted
    BY DEF Posted, NameOf, KeyOf
<1> QED
    BY <1>1, <1>3, <1>4 DEF PT!Advance, Agents, Posted

(* It writes the pod if there is one, or skips the status.                 *)
LEMMA WriteOrSkip ==
    ASSUME HInv, UNCHANGED <<incs, stopped>>, NEW i \in DOMAIN incs, NEW kind \in {"default", "template"},
           NEW step \in Nat,
           Progress(i).step = step, Progress(i).kind \in {"none", kind},
           step < PT!Last(kind),
           Progress(i)' = [kind |-> kind, step |-> step + 1],
           \A j \in Incs : j # i => Progress(j)' = Progress(j),
           NEW p \in PodRecords, UpdatePod(NameOf(i), p), From(NameOf(i), p),
           p.kind = kind, p.step = step + 1, p.by = i, kind = "default" => p.inc = i
    PROVE  [PT!Next]_(PT!ptVars)
<1> DEFINE n == NameOf(i)
<1>1. PT!Advance(i, kind) /\ Agents[i].step = step
    BY Advances
<1>2. n \in Names /\ Posted[i] = n
    BY IncTypes DEF HInv, Posted
<1>3. CASE Stored(n)
  <2> DEFINE row == [inc |-> p.inc, ct |-> p.ct, kind |-> kind,
                     step |-> Agents[i].step + 1, by |-> i]
  <2>1. p.inc \in PT!PostsOf(n) /\ p.ct \in PT!PostsOf(n) \cup {0}
    <3>1. p # NoPod
      BY MaxCreatesAssumption DEF PodRecords, NoPod, Incs
    <3> QED
      BY <3>1, PostsOfPosted DEF From
  <2>2. Row(p) = row
    BY <1>1 DEF Row
  <2>3. Table' = [Table EXCEPT ![n] = row]
    <3>1. \A m \in Names : pods'[m] = IF m = n THEN p ELSE pods[m]
      BY <1>2, <1>3, UpdateKeeps DEF HInv
    <3>2. Table' = [m \in Names |-> Row(pods'[m])]
      BY DEF Table, Row
    <3> QED
      BY <1>2, <2>2, <3>1, <3>2 DEF Table
  <2>4. PT!Present(n)
    BY <1>2, <1>3, PresentStored DEF HInv
  <2>5. /\ PT!Advance(i, kind) /\ PT!Present(Posted[i])
        /\ \E inc \in PT!PostsOf(Posted[i]), ct \in PT!PostsOf(Posted[i]) \cup {0} :
           /\ kind = "default" => inc = i
           /\ Table' = [Table EXCEPT ![Posted[i]] =
                          [inc |-> inc, ct |-> ct, kind |-> kind,
                           step |-> Agents[i].step + 1, by |-> i]]
    BY <1>1, <1>2, <2>1, <2>3, <2>4
  <2>6. PT!Write(i, kind)
    BY <2>5 DEF PT!Write, Table, Posted, Agents
  <2> QED
    BY <2>6 DEF PT!Next
<1>4. CASE ~Stored(n)
  <2>1. ~PT!Present(n)
    BY <1>2, <1>4, PresentStored DEF HInv
  <2>2. Table' = Table
    BY <1>4 DEF UpdatePod, Table, Row
  <2>3. PT!Skip(i, kind)
    BY <1>1, <1>2, <2>1, <2>2 DEF PT!Skip, Table, Posted
  <2> QED
    BY <2>3 DEF PT!Next
<1> QED
    BY <1>3, <1>4

(* Nothing PodTable sees.                                                  *)
LEMMA NotSeen ==
    ASSUME UNCHANGED <<pods, incs, stopped>>, \A i \in Incs : Progress(i)' = Progress(i)
    PROVE  UNCHANGED PT!ptVars
<1>1. Table' = Table /\ Posted' = Posted
    BY DEF Table, Posted, Row, NameOf, KeyOf
<1>2. Agents' = Agents
    BY DEF Agents
<1> QED
    BY <1>1, <1>2 DEF PT!ptVars, Table, Posted, Agents

LEMMA SameProgress ==
    ASSUME \A i \in Incs : seq'[i].next = seq[i].next /\ timer'[i].pc = timer[i].pc
    PROVE  \A i \in Incs : Progress(i)' = Progress(i)
    BY DEF Progress

LEMMA PosIsSeq ==
    ASSUME LInv
    PROVE  Posted \in Seq(Names) /\ Len(Posted) = Len(incs)
<1>1. Posted \in [1..Len(incs) -> Names] /\ Len(incs) \in Nat
    BY IncTypes DEF Posted
<1> QED
    BY <1>1

LEMMA CreateSeen ==
    ASSUME HInv, NEW t \in Threads, NEW k \in Keys, NEW owned \in BOOLEAN,
           NEW pc \in {"lookup", "pendingGet"}, CreatePod(t, k, owned, pc)
    PROVE  [PT!Next]_(PT!ptVars)
<1> PICK i \in Incs :
        /\ i = Len(incs) + 1 /\ DOMAIN incs' = DOMAIN incs \cup {i} /\ i \notin DOMAIN incs
        /\ \A j \in DOMAIN incs : NameOf(j)' = NameOf(j)
        /\ NameOf(i)' = k[2]
    BY PostsGrow DEF HInv
<1> PICK n \in Names : n = k[2]
    BY DEF Keys
<1> DEFINE ct == Stamp(i, owned)
           p == [NoPod EXCEPT !.inc = i, !.ct = ct, !.owned = owned]
           row == [inc |-> i, ct |-> ct, kind |-> "none", step |-> 0, by |-> 0]
<1>1. /\ n \in Names /\ ~Stored(n) /\ pods' = [pods EXCEPT ![n] = p]
      /\ UNCHANGED <<seq, timer, stopped>>
    BY DEF CreatePod, Keys
<1>2. Posted' = Append(Posted, n)
  <2>1. Posted \in Seq(Names) /\ Len(Posted) = Len(incs) /\ DOMAIN incs = 1..Len(incs)
        /\ Len(incs) \in Nat
    BY PosIsSeq, IncTypes DEF HInv
  <2>2. Posted' = [j \in DOMAIN incs' |-> NameOf(j)']
    BY DEF Posted
  <2>3. DOMAIN incs' = 1..(Len(incs) + 1)
    BY <2>1
  <2>4. \A j \in DOMAIN incs' : NameOf(j)' = IF j = i THEN n ELSE Posted[j]
    BY DEF Posted
  <2> DEFINE q == [j \in 1..(Len(incs) + 1) |-> IF j = i THEN n ELSE Posted[j]]
  <2>5. Posted' = q
    BY <2>2, <2>3, <2>4
  <2>6. Append(Posted, n) = q
    BY <1>1, <2>1 
  <2> QED
    BY <2>5, <2>6
<1>3. ct \in {0, i}
    BY DEF Stamp
<1> HIDE DEF ct
<1>4. Row(p) = row
  <2>1. p.inc = i /\ p.ct = ct /\ p.kind = "none" /\ p.step = 0 /\ p.by = 0
    BY DEF NoPod
  <2> QED
    BY <2>1 DEF Row
<1> HIDE DEF p, row
<1>5. Table' = [Table EXCEPT ![n] = row]
  <2>1. \A m \in Names : pods'[m] = IF m = n THEN p ELSE pods[m]
    BY <1>1 DEF HInv, LInv, OwnTypes
  <2>2. Table' = [m \in Names |-> Row(pods'[m])]
    BY DEF Table, Row
  <2>3. \A m \in Names : Row(pods'[m]) = IF m = n THEN row ELSE Row(pods[m])
    BY <1>4, <2>1
  <2>4. Table' = [m \in Names |-> IF m = n THEN row ELSE Table[m]]
    BY <2>2, <2>3 DEF Table
  <2> QED
    BY <2>4 DEF Table
<1>6. UNCHANGED Agents
    BY <1>1 DEF Agents, Progress
<1>7. ~PT!Present(n)
    BY <1>1, PresentStored DEF HInv
<1>8. Len(Posted) + 1 = i /\ i <= MaxCreates
    BY PosIsSeq, MaxCreatesAssumption DEF HInv, Incs
<1>9. \E c \in {0, i} : Table' = [Table EXCEPT ![n] =
                                       [inc |-> i, ct |-> c, kind |-> "none",
                                        step |-> 0, by |-> 0]]
    BY <1>3, <1>5 DEF row
<1>10. PT!Post(n)
    BY <1>1, <1>2, <1>6, <1>7, <1>8, <1>9 DEF PT!Post, Table, Posted, Agents
<1> QED
    BY <1>1, <1>10 DEF PT!Next

LEMMA PendingSeen ==
    ASSUME HInv, NEW t \in Threads, PostPendingPut(t)
    PROVE  [PT!Next]_(PT!ptVars)
<1> PICK i \in DOMAIN incs : i = h[t].inc
    BY PendingFrom DEF PostPendingPut
<1> DEFINE p == PendingPod(i, h[t].read)
<1>1. /\ UNCHANGED <<seq, incs, stopped>> /\ UpdatePod(NameOf(i), p)
      /\ timer' = IF Stored(NameOf(i)) THEN Startup(i) ELSE timer
    BY DEF PostPendingPut
<1>2. /\ seq[i].pc = "none" /\ timer[i].pc = "none" /\ seq[i].next = 1 /\ i \in Incs
      /\ NameOf(i) \in Names /\ From(NameOf(i), p) /\ p \in PodRecords
      /\ p.inc = i /\ p.by = i /\ p.step = 1 /\ p.kind = "default"
    BY PendingFrom, PendingRecord DEF PostPendingPut, HInv, LInv, Roles
<1> HIDE DEF p
<1>3. CASE Stored(NameOf(i))
  <2>1. timer'[i].pc = "wait" /\ \A j \in Incs : j # i => timer'[j] = timer[j]
    BY <1>1, <1>2, <1>3 DEF Startup, HInv, LInv, OwnTypes, Timers
  <2>2. Progress(i).step = 0 /\ Progress(i).kind \in {"none", "default"}
    BY <1>2 DEF Progress
  <2>3. Progress(i)' = [kind |-> "default", step |-> 0 + 1]
    BY <1>1, <1>2, <2>1 DEF Progress
  <2>4. \A j \in Incs : j # i => Progress(j)' = Progress(j)
    BY <1>1, <2>1 DEF Progress
  <2>5. 0 < PT!Last("default")
    BY DEF PT!Last
  <2> QED
    BY <1>1, <1>2, <2>2, <2>3, <2>4, <2>5, WriteOrSkip
<1>4. CASE ~Stored(NameOf(i))
    BY <1>1, <1>4, NotSeen, SameProgress DEF UpdatePod
<1> QED
    BY <1>3, <1>4

LEMMA DeleteSeen ==
    ASSUME HInv, NEW t \in Threads, DeleteStore(t)
    PROVE  [PT!Next]_(PT!ptVars)
<1>1. h[t].pc = "delStore" /\ h[t].key[2] \in Names
    BY HandlerTypes DEF DeleteStore, Keys, HInv
<1> PICK n \in Names : n = h[t].key[2]
    BY <1>1
<1>2. pods' = [pods EXCEPT ![n] = NoPod] /\ UNCHANGED <<seq, timer, incs, stopped>>
    BY DEF DeleteStore, RemovePod
<1>3. Table' = [Table EXCEPT ![n] = PT!NoRow]
  <2>1. Row(NoPod) = PT!NoRow
    BY DEF Row, NoPod, PT!NoRow
  <2>2. \A m \in Names : pods'[m] = IF m = n THEN NoPod ELSE pods[m]
    BY <1>2 DEF HInv, LInv, OwnTypes
  <2>3. \A m \in Names : Row(pods'[m]) = IF m = n THEN PT!NoRow ELSE Row(pods[m])
    BY <2>1, <2>2
  <2>4. Table' = [m \in Names |-> Row(pods'[m])]
    BY DEF Table, Row
  <2>5. Table' = [m \in Names |-> IF m = n THEN PT!NoRow ELSE Table[m]]
    BY <2>3, <2>4 DEF Table
  <2> QED
    BY <2>5 DEF Table
<1>4. Posted' = Posted
    BY <1>2 DEF Posted, NameOf, KeyOf
<1>5. Agents' = Agents
    BY <1>2 DEF Agents, Progress
<1>6. PT!Delete(n)
    BY <1>2, <1>3, <1>4, <1>5 DEF PT!Delete, Table, Posted, Agents
<1> QED
    BY <1>6 DEF PT!Next

LEMMA TimerSeen ==
    ASSUME HInv, NEW i \in Incs, TimerStep(i) \/ TimerStop(i)
    PROVE  [PT!Next]_(PT!ptVars)
<1>1. /\ i \in DOMAIN incs /\ NameOf(i) \in Names /\ timer[i].pc \in {"wait", "put"}
      /\ UNCHANGED <<seq, incs, stopped>>
    BY RunningFrom DEF TimerStep, TimerFire, TimerPut, TimerStop
<1>2. seq[i].next = 1
    BY <1>1 DEF HInv, LInv, Roles
<1>3. Progress(i).step = 1 /\ Progress(i).kind = "default"
    BY <1>1, <1>2 DEF Progress
<1>4. ASSUME NEW x, timer' = [timer EXCEPT ![i] = x]
      PROVE  /\ \A j \in Incs : j # i => Progress(j)' = Progress(j)
             /\ x.pc = "done" => Progress(i)' = [kind |-> "default", step |-> 1 + 1]
             /\ x.pc = "put" => Progress(i)' = Progress(i)
  <2>1. timer'[i] = x /\ \A j \in Incs : j # i => timer'[j] = timer[j]
    BY <1>4 DEF HInv, LInv, OwnTypes
  <2> QED
    BY <1>1, <1>2, <2>1 DEF Progress
<1>5. 1 < PT!Last("default")
    BY DEF PT!Last
<1>6. CASE TimerFire(i)
  <2> DEFINE x == [pc |-> "put", read |-> pods[NameOf(i)]]
  <2>1. timer' = [timer EXCEPT ![i] = x] /\ UNCHANGED pods /\ x.pc = "put"
    BY <1>6 DEF TimerFire
  <2> HIDE DEF x
  <2>2. \A j \in Incs : Progress(j)' = Progress(j)
    BY <1>4, <2>1
  <2> QED
    BY <1>1, <2>1, <2>2, NotSeen
<1>7. CASE TimerPut(i)
  <2> DEFINE x == [pc |-> "done", read |-> NoPod]
             p == RunningPod(i, timer[i].read)
  <2>1. timer' = [timer EXCEPT ![i] = x] /\ UpdatePod(NameOf(i), p) /\ x.pc = "done"
    BY <1>7 DEF TimerPut
  <2> HIDE DEF x
  <2>2. /\ Progress(i)' = [kind |-> "default", step |-> 1 + 1]
        /\ \A j \in Incs : j # i => Progress(j)' = Progress(j)
    BY <1>4, <2>1
  <2>3. /\ p \in PodRecords /\ From(NameOf(i), p)
        /\ p.inc = i /\ p.by = i /\ p.step = 1 + 1 /\ p.kind = "default"
    BY <1>1, RunningFrom, RunningRecord DEF HInv
  <2> HIDE DEF p
  <2> QED
    BY <1>1, <1>3, <1>5, <2>1, <2>2, <2>3, WriteOrSkip
<1>8. CASE TimerStop(i)
  <2> DEFINE x == [timer[i] EXCEPT !.pc = "done"]
  <2>1. timer' = [timer EXCEPT ![i] = x] /\ UNCHANGED pods
    BY <1>8 DEF TimerStop
  <2>2. x.pc = "done"
    BY DEF HInv, LInv, OwnTypes, Timers
  <2> HIDE DEF x
  <2>3. /\ Progress(i)' = [kind |-> "default", step |-> 1 + 1]
        /\ \A j \in Incs : j # i => Progress(j)' = Progress(j)
    BY <1>4, <2>1, <2>2
  <2>4. PT!Advance(i, "default") /\ Agents[i].step = 1
    BY <1>1, <1>3, <1>5, <2>3, Advances
  <2>5. Table' = Table
    BY <2>1 DEF Table, Row
  <2>6. PT!Skip(i, "default")
    BY <1>8, <2>4, <2>5 DEF TimerStop, PT!Skip, Table, Agents
  <2> QED
    BY <1>1, <2>6 DEF PT!Next, Posted
<1> QED
    BY <1>6, <1>7, <1>8 DEF TimerStep

(* A sequence in its loop has no startup goroutine beside it.              *)
LEMMA SeqProgress ==
    ASSUME HInv, NEW s \in Incs, seq[s].pc \in {"get", "put"}, UNCHANGED <<timer, incs>>,
           NEW x, seq' = [seq EXCEPT ![s] = x], x.next = seq[s].next + 1
    PROVE  LET step == seq[s].next - 1 IN
           /\ step \in Nat /\ s \in DOMAIN incs
           /\ Progress(s).step = step /\ Progress(s).kind \in {"none", "template"}
           /\ step < PT!Last("template")
           /\ Progress(s)' = [kind |-> "template", step |-> step + 1]
           /\ \A j \in Incs : j # s => Progress(j)' = Progress(j)
<1>1. /\ seq[s].next \in Nat \ {0} /\ seq[s].next <= MaxStates
      /\ timer[s].pc = "none" /\ s \in DOMAIN incs /\ MaxStates \in Nat
    BY SeqTypes, MaxStatesAssumption DEF HInv, LInv, Roles
<1>2. seq'[s] = x /\ \A j \in Incs : j # s => seq'[j] = seq[j]
    BY SeqTypes DEF HInv
<1>3. \A j \in Incs : j # s => Progress(j)' = Progress(j)
    BY <1>2 DEF Progress
<1>4. Progress(s)' = [kind |-> "template", step |-> seq[s].next - 1 + 1]
    BY <1>1, <1>2 DEF Progress
<1>5. Progress(s).step = seq[s].next - 1 /\ Progress(s).kind \in {"none", "template"}
    BY <1>1 DEF Progress
<1> QED
    BY <1>1, <1>3, <1>4, <1>5 DEF PT!Last

LEMMA SeqSeen ==
    ASSUME HInv, NEW s \in Incs, SeqStep(s)
    PROVE  [PT!Next]_(PT!ptVars)
<1>1. seq \in [Incs -> TMP!SeqStates] /\ UNCHANGED <<timer, incs, stopped>>
    BY SeqTypes DEF HInv, SeqStep, SeqControl, SeqGet, SeqPut
<1>2. /\ TM!NextState(seq[s]).next = seq[s].next + 1
      /\ \A n : [TM!NextState(seq[s]) EXCEPT !.late = n].next = seq[s].next + 1
    BY <1>1 DEF TM!NextState, TMP!SeqStates
<1>3. CASE SeqControl(s)
  <2>1. PICK pc \in {"wait", "get", "cleanup", "done"} : seq' = [seq EXCEPT ![s].pc = pc]
    BY <1>3 DEF SeqControl, TM!SeqCheck, TM!SeqWait, TM!SeqCleanup
  <2>2. \A i \in Incs : seq'[i].next = seq[i].next
    BY <1>1, <2>1 DEF TMP!SeqStates
  <2>3. UNCHANGED <<pods, incs, stopped>> /\ \A i \in Incs : Progress(i)' = Progress(i)
    BY <1>1, <1>3, <2>2, SameProgress DEF SeqControl
  <2> QED
    BY <2>3, NotSeen
<1>4. CASE SeqGet(s)
  <2>1. /\ seq[s].pc = "get" /\ UNCHANGED pods /\ seq[s].key = KeyOf(s)
        /\ s \in DOMAIN incs /\ NameOf(s) \in Names
    BY <1>4, IncTypes DEF SeqGet, HInv, LInv, Roles
  <2>2. CASE Stored(NameOf(s))
    <3>1. seq' = [seq EXCEPT ![s] = [seq[s] EXCEPT !.pc = "put"]]
      BY <1>4, <2>1, <2>2 DEF SeqGet, TM!SeqGet, TM!NameOf, NameOf
    <3>2. \A i \in Incs : seq'[i].next = seq[i].next
      BY <1>1, <3>1 DEF TMP!SeqStates
    <3>3. UNCHANGED <<pods, incs, stopped>> /\ \A i \in Incs : Progress(i)' = Progress(i)
      BY <1>1, <2>1, <3>2, SameProgress
    <3> QED
      BY <3>3, NotSeen
  <2>3. CASE ~Stored(NameOf(s))
    <3> DEFINE step == seq[s].next - 1
    <3>1. seq' = [seq EXCEPT ![s] = TM!NextState(seq[s])]
      BY <1>4, <2>1, <2>3 DEF SeqGet, TM!SeqGet, TM!OnMissingPod, TM!NameOf, NameOf
    <3>2. PT!Advance(s, "template")
      BY <1>1, <1>2, <2>1, <3>1, SeqProgress, Advances
    <3>3. ~PT!Present(Posted[s])
      BY <2>1, <2>3, PresentStored DEF HInv, Posted
    <3>4. Table' = Table
      BY <2>1 DEF Table, Row
    <3>5. PT!Skip(s, "template")
      BY <3>2, <3>3, <3>4 DEF PT!Skip, Table, Posted
    <3> QED
      BY <2>1, <3>5 DEF PT!Next, Posted
  <2> QED
    BY <2>2, <2>3
<1>5. CASE SeqPut(s)
  <2> DEFINE p == AppliedPod(s, seqRead[s])
             step == seq[s].next - 1
  <2>1. PICK n : seq' = [seq EXCEPT ![s] = [TM!NextState(seq[s]) EXCEPT !.late = n]]
    BY <1>5 DEF SeqPut, TM!SeqPut
  <2>2. seq[s].pc = "put" /\ UpdatePod(NameOf(s), p)
    BY <1>5 DEF SeqPut
  <2>3. /\ p \in PodRecords /\ From(NameOf(s), p)
        /\ p.kind = "template" /\ p.step = seq[s].next /\ p.by = s
    BY <2>2, AppliedFrom, AppliedRecord DEF HInv
  <2>4. /\ step \in Nat /\ s \in DOMAIN incs
        /\ Progress(s).step = step /\ Progress(s).kind \in {"none", "template"}
        /\ step < PT!Last("template")
        /\ Progress(s)' = [kind |-> "template", step |-> step + 1]
        /\ \A j \in Incs : j # s => Progress(j)' = Progress(j)
    BY <1>1, <1>2, <2>1, <2>2, SeqProgress
  <2>5. step + 1 = seq[s].next
    BY <1>1 DEF TMP!SeqStates
  <2> HIDE DEF p, step
  <2> QED
    BY <1>1, <2>2, <2>3, <2>4, <2>5, WriteOrSkip
<1> QED
    BY <1>3, <1>4, <1>5 DEF SeqStep

LEMMA TableStep == HInv /\ [Next]_vars => [PT!Next]_(PT!ptVars)
<1> SUFFICES ASSUME HInv, [Next]_vars PROVE [PT!Next]_(PT!ptVars)
    OBVIOUS
<1>1. seq \in [Incs -> TMP!SeqStates] /\ LInv
    BY SeqTypes DEF HInv
<1>2. ASSUME UNCHANGED <<pods, seq, timer, incs, stopped>> PROVE UNCHANGED PT!ptVars
    BY <1>2, NotSeen, SameProgress
<1>3. ASSUME NEW t \in Threads, Request(t) PROVE [PT!Next]_(PT!ptVars)
    BY <1>2, <1>3, CreateSeen
    DEF Request, PostPod, CreatePodForReplicaSet, DeletePod,
        DeletePodOfReplicaSet, DeleteBegins, CancelPodTransition, SimulatePod
<1>4. ASSUME NEW t \in Threads, HandlerStep(t) PROVE [PT!Next]_(PT!ptVars)
  <2>1. CASE PostCancel(t) \/ DeleteCancel(t) \/ SimCancel(t)
    <3>1. UNCHANGED <<pods, timer, incs, stopped>> /\ \E k : TM!CancelTransition(k)
      BY <2>1 DEF PostCancel, DeleteCancel, SimCancel, TM!StartCancel
    <3>2. \A i \in Incs : seq'[i].next = seq[i].next
      BY <1>1, <3>1 DEF TM!CancelTransition, TMP!SeqStates
    <3> QED
      BY <3>1, <3>2, NotSeen, SameProgress
  <2>2. CASE PostInsert(t)
    <3>1. h[t].inc \in Incs /\ seq[h[t].inc].next = 1
      BY <1>1, <2>2, HandlerTypes DEF PostInsert, Posting, CreatePcs, LInv, Roles
    <3>2. UNCHANGED <<pods, timer, incs, stopped>>
      BY <2>2 DEF PostInsert
    <3>3. \A i \in Incs : seq'[i].next = seq[i].next
      BY <1>1, <2>2, <3>1 DEF PostInsert, TM!InsertActive
    <3> QED
      BY <3>2, <3>3, NotSeen, SameProgress
  <2> QED
    BY <1>2, <1>4, <2>1, <2>2, PendingSeen, DeleteSeen
    DEF HandlerStep, PostLookup, PostVerify, PostPendingGet, DeleteTemplate
<1>5. CASE Stop
  <2>1. UNCHANGED <<pods, seq, timer, incs>> /\ ~stopped /\ stopped' = TRUE
    BY <1>5 DEF Stop
  <2>2. Table' = Table /\ Posted' = Posted /\ Agents' = Agents
    BY <2>1 DEF Table, Posted, Agents, Row, NameOf, KeyOf, Progress
  <2>3. PT!Halt
    BY <2>1, <2>2 DEF PT!Halt, Table, Posted, Agents
  <2> QED
    BY <2>3 DEF PT!Next
<1>6. CASE UNCHANGED vars
    BY <1>2, <1>6 DEF vars
<1> QED
    BY <1>3, <1>4, <1>5, <1>6, TimerSeen, SeqSeen DEF Next

LEMMA TableInit == Init => PT!Init
<1> SUFFICES ASSUME Init PROVE PT!Init
    OBVIOUS
<1>1. Row(NoPod) = PT!NoRow
    BY DEF Row, NoPod, PT!NoRow
<1>2. Table = [n \in Names |-> PT!NoRow]
    BY <1>1 DEF Init, Table
<1>3. Posted = <<>>
    BY DEF Init, Posted
<1>4. Agents = [i \in Incs |-> PT!Unstarted]
    BY DEF Init, Agents, Progress, PT!Unstarted
<1> QED
    BY <1>2, <1>3, <1>4 DEF PT!Init, Init, Table, Posted, Agents, Incs

(* Whatever handlers, timers and sequences do, to its clients the table of *)
(* pods behaves as PodTable says: only a POST adds a pod, its statuses are *)
(* written once and in order, and none is skipped while there is a pod to  *)
(* write.                                                                  *)
THEOREM TableImplemented == Spec => ImplementsPodTable
    BY TableInit, TableStep, HInvAlways, PTL DEF Spec, ImplementsPodTable, PT!Spec

-----------------------------------------------------------------------------
(* A pod posted when nothing was left over for its name: only its own POST *)
(* works for it, and what was stored for it or read of it is its own.      *)
Latest(n, c) == c \in Posts(n) /\ \A j \in Posts(n) : j <= c
HasLatest == \A n \in Names : Posts(n) # {} => \E c \in DOMAIN incs : Latest(n, c)

Clean(n, c) == Latest(n, c) /\ incs[c].clean
Own(p, c) ==
    p # NoPod => /\ p.inc = c
                 /\ p.ct \in {0, c} /\ p.by \in {0, c}
                 /\ p.kind = "template" => ~p.owned
                 /\ p.kind # "template" => p.owned = incs[c].owned
OthersDone(n, c) == \A j \in Posts(n) : j # c => ~Unfinished(j)
OwnReads(c) == /\ Own(seqRead[c], c) /\ Own(timer[c].read, c)
               /\ \A t \in Threads : Posting(t) /\ h[t].inc = c => Own(h[t].read, c)
CleanOwn ==
    \A n \in Names : \A c \in DOMAIN incs :
        Clean(n, c) => OthersDone(n, c) /\ Own(pods[n], c) /\ OwnReads(c)

CInv == HInv /\ HasLatest /\ CleanOwn

LEMMA CurrentIsLatest ==
    ASSUME LInv, NEW n \in Names, NEW c, Latest(n, c)
    PROVE  Current(n) = c
<1>1. \A j \in Posts(n) : j \in Nat
    BY IncTypes DEF Posts
<1>2. c \in Posts(n) /\ \A j \in Posts(n) : c >= j
    BY <1>1 DEF Latest
<1>3. Current(n) \in Posts(n) /\ \A j \in Posts(n) : Current(n) >= j
    BY <1>2 DEF Current, Max
<1> QED
    BY <1>1, <1>2, <1>3

(* Who still works for a pod of a clean name works for the stored one.     *)
LEMMA WriterIsOwn ==
    ASSUME CInv, NEW n \in Names, NEW c \in DOMAIN incs, Clean(n, c),
           NEW i \in DOMAIN incs, NameOf(i) = n, Unfinished(i)
    PROVE  i = c
    BY DEF CInv, CleanOwn, OthersDone, Posts

LEMMA CleanName ==
    ASSUME NEW n, NEW c, Clean(n, c)
    PROVE  NameOf(c) = n /\ c \in DOMAIN incs
    BY DEF Clean, Latest, Posts

LEMMA OwnersOf ==
    ASSUME CInv, NEW c \in DOMAIN incs, NEW p \in PodRecords \cup {NoPod}, Own(p, c)
    PROVE  OwnersKept(c, p) = incs[c].owned
<1>1. incs[c].owned \in BOOLEAN /\ p.owned \in BOOLEAN
    BY IncTypes, ReadFields DEF CInv, HInv, IncRecords
<1>2. p.owned => incs[c].owned
  <2>1. CASE p = NoPod
    <3>1. ~p.owned
      BY <2>1 DEF NoPod
    <3> QED
      BY <3>1
  <2>2. CASE p # NoPod /\ p.kind = "template"
    BY <2>2, Zenon DEF Own
  <2>3. CASE p # NoPod /\ p.kind # "template"
    BY <2>3 DEF Own
  <2> QED
    BY <2>1, <2>2, <2>3
<1> QED
    BY <1>1, <1>2 DEF OwnersKept

(* Nobody starts to work for an earlier POST.                              *)
LEMMA NoneRestarts ==
    ASSUME LInv, UNCHANGED incs, HandlersKept,
           \A j \in DOMAIN incs : TM!Live(j)' => Unfinished(j),
           \A j \in DOMAIN incs : timer'[j].pc \in {"wait", "put"} => Unfinished(j)
    PROVE  \A j \in DOMAIN incs : Unfinished(j)' => Unfinished(j)
    BY DEF Unfinished, HandlersKept, Posting

LEMMA OwnKept ==
    ASSUME CInv, UNCHANGED incs,
           \A j \in DOMAIN incs : Unfinished(j)' => Unfinished(j),
           \A n \in Names : \A c \in DOMAIN incs : Clean(n, c) =>
             /\ pods'[n] \in {pods[n], NoPod} \/ Own(pods'[n], c)
             /\ seqRead'[c] = seqRead[c] \/ Own(seqRead'[c], c)
             /\ timer'[c].read = timer[c].read \/ Own(timer'[c].read, c)
             /\ \A t \in Threads : h'[t].pc \in CreatePcs /\ h'[t].inc = c =>
                  \/ Posting(t) /\ h[t].inc = c /\ h'[t].read = h[t].read
                  \/ Own(h'[t].read, c)
    PROVE  HasLatest' /\ CleanOwn'
<1>1. \A n : Posts(n)' = Posts(n)
    BY PostsSame
<1>2. HasLatest'
    BY <1>1 DEF CInv, HasLatest, Latest
<1>3. ASSUME NEW n \in Names, NEW c \in DOMAIN incs', Clean(n, c)'
      PROVE  OthersDone(n, c)' /\ Own(pods[n], c)' /\ OwnReads(c)'
  <2>1. c \in DOMAIN incs /\ Clean(n, c)
    BY <1>1, <1>3 DEF Clean, Latest
  <2>2. OthersDone(n, c) /\ Own(pods[n], c) /\ OwnReads(c)
    BY <2>1 DEF CInv, CleanOwn
  <2>3. \A j \in Posts(n) : j \in DOMAIN incs
    BY DEF Posts
  <2>4. OthersDone(n, c)'
    BY <1>1, <2>2, <2>3 DEF OthersDone
  <2>5. Own(NoPod, c)
    BY DEF Own
  <2>6. Own(pods'[n], c) /\ Own(seqRead'[c], c) /\ Own(timer'[c].read, c)
        /\ \A t \in Threads : h'[t].pc \in CreatePcs /\ h'[t].inc = c => Own(h'[t].read, c)
    BY <2>1, <2>2, <2>5 DEF OwnReads
  <2> QED
    BY <2>4, <2>6 DEF Own, OwnReads, Posting
<1> QED
    BY <1>2, <1>3 DEF CleanOwn

LEMMA CleanCreate ==
    ASSUME CInv, NEW t \in Threads, NEW k \in Keys, NEW owned \in BOOLEAN,
           NEW pc \in {"lookup", "pendingGet"}, CreatePod(t, k, owned, pc)
    PROVE  HasLatest' /\ CleanOwn'
<1> PICK i \in Incs :
        /\ i = Len(incs) + 1 /\ DOMAIN incs' = DOMAIN incs \cup {i} /\ i \notin DOMAIN incs
        /\ Posts(k[2])' = Posts(k[2]) \cup {i}
        /\ \A n \in Names : n # k[2] => Posts(n)' = Posts(n)
        /\ \A j \in DOMAIN incs : NameOf(j)' = NameOf(j)
        /\ NameOf(i)' = k[2]
    BY PostsGrow DEF CInv, HInv
<1> PICK m \in Names : m = k[2]
    BY DEF Keys
<1> DEFINE p == [NoPod EXCEPT !.inc = i, !.ct = Stamp(i, owned), !.owned = owned]
           x == [pc |-> pc, inc |-> i, len |-> 0, read |-> NoPod]
<1>1. /\ pods' = [pods EXCEPT ![m] = p] /\ h' = [h EXCEPT ![t] = x] /\ h[t] = Idle
      /\ UNCHANGED <<seq, seqRead, timer>>
    BY DEF CreatePod
<1>2. /\ \A j \in DOMAIN incs : incs'[j] = incs[j] /\ j \in Nat /\ j <= i
      /\ i \in Nat
      /\ incs'[i].owned = owned /\ incs'[i].clean = (\A j \in Posts(m) : ~Unfinished(j))
  <2>1. Len(incs) \in Nat /\ DOMAIN incs = 1..Len(incs)
    BY IncTypes DEF CInv, HInv
  <2>2. \A j \in DOMAIN incs : j \in Nat /\ j <= i
    BY <2>1
  <2>3. /\ \A j \in DOMAIN incs : incs'[j] = incs[j]
        /\ incs'[i].owned = owned /\ incs'[i].clean = (\A j \in Posts(m) : ~Unfinished(j))
    BY CreateView DEF CInv, HInv
  <2> QED
    BY <2>1, <2>2, <2>3
<1>3. p.inc = i /\ p.ct \in {0, i} /\ p.by = 0 /\ p.kind = "none" /\ p.owned = owned
    BY DEF NoPod, Stamp
<1>4. x.inc = i /\ x.read = NoPod /\ x.pc \in CreatePcs
    BY DEF CreatePcs
<1> HIDE DEF p, x
<1>5. /\ pods'[m] = p /\ \A n \in Names : n # m => pods'[n] = pods[n]
      /\ h'[t] = x /\ \A u \in Threads : u # t => h'[u] = h[u]
    BY <1>1 DEF CInv, HInv, LInv, OwnTypes
<1>6. \A n : Posts(n) \subseteq DOMAIN incs
    BY DEF Posts
<1>7. \A u \in Threads : Posting(u) => h[u].inc \in DOMAIN incs
    BY HandlerTypes DEF CInv, HInv
<1>8. \A j \in DOMAIN incs : Unfinished(j)' => Unfinished(j)
    BY <1>1, <1>4, <1>5 DEF Unfinished, TM!Live
<1>9. HasLatest'
  <2>1. Latest(m, i)'
    BY <1>2, <1>6 DEF Latest
  <2>2. ASSUME NEW n \in Names, n # m, Posts(n)' # {}
        PROVE  \E c \in DOMAIN incs' : Latest(n, c)'
    BY <2>2 DEF Latest, CInv, HasLatest
  <2> QED
    BY <2>1, <2>2 DEF HasLatest
<1>10. ASSUME NEW n \in Names, NEW c \in DOMAIN incs', Clean(n, c)'
       PROVE  OthersDone(n, c)' /\ Own(pods[n], c)' /\ OwnReads(c)'
  <2>1. CASE n = m
    <3>1. c = i
      <4>1. i \in Posts(n)'
        BY <2>1
      <4>2. i <= c
        BY <1>10, <4>1 DEF Clean, Latest
      <4> QED
        BY <1>2, <4>2
    <3>2. \A j \in Posts(m) : ~Unfinished(j)
      BY <1>2, <1>10, <3>1 DEF Clean
    <3>3. OthersDone(n, c)'
      BY <1>6, <1>8, <2>1, <3>1, <3>2 DEF OthersDone
    <3>4. Own(pods[n], c)'
      BY <1>2, <1>3, <1>5, <2>1, <3>1 DEF Own
    <3>5. seqRead'[i] = NoPod /\ timer'[i].read = NoPod
      BY <1>1 DEF CInv, HInv, FromPosts
    <3>6. \A u \in Threads : Posting(u)' /\ h'[u].inc = i => h'[u].read = NoPod
      BY <1>4, <1>5, <1>7 DEF Posting
    <3>7. OwnReads(c)'
      BY <3>1, <3>5, <3>6 DEF OwnReads, Own
    <3> QED
      BY <3>3, <3>4, <3>7
  <2>2. CASE n # m
    <3>1. c \in DOMAIN incs /\ Clean(n, c) /\ incs'[c] = incs[c] /\ c # i
      BY <1>2, <1>6, <1>10, <2>2 DEF Clean, Latest
    <3>2. OthersDone(n, c) /\ Own(pods[n], c) /\ OwnReads(c)
      BY <3>1 DEF CInv, CleanOwn
    <3>3. OthersDone(n, c)'
      BY <1>6, <1>8, <2>2, <3>2 DEF OthersDone
    <3>4. Own(pods[n], c)'
      BY <1>5, <2>2, <3>1, <3>2 DEF Own
    <3>5. \A u \in Threads : Posting(u)' /\ h'[u].inc = c => Posting(u) /\ h'[u] = h[u]
      BY <1>4, <1>5, <3>1 DEF Posting
    <3>6. OwnReads(c)'
      BY <1>1, <3>1, <3>2, <3>5 DEF OwnReads, Own
    <3> QED
      BY <3>3, <3>4, <3>6
  <2> QED
    BY <2>1, <2>2
<1> QED
    BY <1>9, <1>10 DEF CleanOwn

(* The owner of a clean pod is what its own goroutines read and write.     *)
LEMMA CleanParts ==
    ASSUME CInv, NEW n \in Names, NEW c \in DOMAIN incs, Clean(n, c)
    PROVE  /\ NameOf(c) = n /\ c \in Incs
           /\ Own(pods[n], c) /\ Own(seqRead[c], c) /\ Own(timer[c].read, c)
           /\ \A t \in Threads : Posting(t) /\ h[t].inc = c => Own(h[t].read, c)
    BY CleanName, IncTypes DEF CInv, HInv, CleanOwn, OwnReads

LEMMA WriteOwn ==
    ASSUME CInv, NEW i \in DOMAIN incs, Unfinished(i), NEW p \in PodRecords,
           UpdatePod(NameOf(i), p),
           NEW n \in Names, NEW c \in DOMAIN incs, Clean(n, c),
           i = c => Own(p, c)
    PROVE  pods'[n] = pods[n] \/ Own(pods'[n], c)
<1>1. NameOf(i) \in Names /\ LInv
    BY IncTypes DEF CInv, HInv
<1>2. pods'[n] = IF n = NameOf(i) /\ Stored(n) THEN p ELSE pods[n]
    BY <1>1, UpdateKeeps
<1>3. CASE n = NameOf(i)
    BY <1>2, <1>3, WriterIsOwn
<1>4. CASE n # NameOf(i)
    BY <1>2, <1>4
<1> QED
    BY <1>3, <1>4

LEMMA UnfinishedSeq ==
    ASSUME LInv, NEW s \in Incs, TM!SeqStep(s)
    PROVE  TM!Live(s) /\ \A j \in Incs : j # s => seq'[j] = seq[j]
<1>1. TM!Live(s)
    BY DEF TM!SeqStep, TM!SeqCheck, TM!SeqWait, TM!SeqGet, TM!SeqPut, TM!SeqCleanup, TM!Live
<1>2. \E x : seq' = [seq EXCEPT ![s] = x]
    BY DEF TM!SeqStep, TM!SeqCheck, TM!SeqWait, TM!SeqGet, TM!SeqPut, TM!SeqCleanup
<1> QED
    BY <1>1, <1>2, SeqTypes

(* Where nothing is read or written.                                       *)
LEMMA OwnSame ==
    ASSUME CInv, UNCHANGED <<pods, seqRead, timer, incs>>,
           \A t \in Threads : h'[t].pc \in CreatePcs =>
             Posting(t) /\ h'[t].inc = h[t].inc /\ h'[t].read = h[t].read,
           \A j \in DOMAIN incs : TM!Live(j)' => Unfinished(j)
    PROVE  HasLatest' /\ CleanOwn'
<1>1. \A j \in DOMAIN incs : Unfinished(j)' => Unfinished(j)
    BY DEF Unfinished, Posting
<1> QED
    BY <1>1, OwnKept

LEMMA CleanHandler ==
    ASSUME CInv, NEW t \in Threads, HandlerStep(t)
    PROVE  HasLatest' /\ CleanOwn'
<1>0. LInv /\ DOMAIN incs \subseteq Incs /\ h \in [Threads -> Handlers]
    BY IncTypes DEF CInv, HInv, LInv, OwnTypes
<1>1. ASSUME NEW x, h' = [h EXCEPT ![t] = x],
             x.pc \in CreatePcs => Posting(t) /\ x.inc = h[t].inc /\ x.read = h[t].read
      PROVE  \A u \in Threads : h'[u].pc \in CreatePcs =>
                Posting(u) /\ h'[u].inc = h[u].inc /\ h'[u].read = h[u].read
    BY <1>0, <1>1 DEF Posting
<1>2. Idle.pc \notin CreatePcs
    BY DEF Idle, CreatePcs
<1>3. ASSUME UNCHANGED seq PROVE \A j \in DOMAIN incs : TM!Live(j)' => Unfinished(j)
    BY <1>3 DEF TM!Live, Unfinished
<1>4. CASE PostLookup(t)
  <2> DEFINE len == GetTemplate(KeyOf(h[t].inc))
             x == [h[t] EXCEPT !.pc = AfterLookup(len), !.len = len]
  <2>1. h[t] \in [pc : CreatePcs, inc : Incs, len : 0..MaxStates,
                  read : PodRecords \cup {NoPod}] /\ Posting(t)
    BY <1>0, <1>4, HandlerTypes DEF PostLookup, Posting, CreatePcs
  <2>2. h' = [h EXCEPT ![t] = x] /\ UNCHANGED <<pods, seqRead, timer, incs, seq>>
    BY <1>4 DEF PostLookup
  <2> HIDE DEF len
  <2>3. x.inc = h[t].inc /\ x.read = h[t].read
    BY <2>1
  <2> HIDE DEF x
  <2> QED
    BY <1>1, <1>3, <2>1, <2>2, <2>3, OwnSame
<1>5. CASE PostCancel(t) \/ PostVerify(t)
  <2> DEFINE x(pc) == [h[t] EXCEPT !.pc = pc]
  <2>1. h[t] \in [pc : CreatePcs, inc : Incs, len : 0..MaxStates,
                  read : PodRecords \cup {NoPod}] /\ Posting(t)
    BY <1>0, <1>5, HandlerTypes DEF PostCancel, PostVerify, Posting, CreatePcs
  <2>2. \A pc : x(pc).inc = h[t].inc /\ x(pc).read = h[t].read
    BY <2>1
  <2>3. /\ \/ h' = [h EXCEPT ![t] = x("verify")]
           \/ h' = [h EXCEPT ![t] = x("insert")]
           \/ h' = [h EXCEPT ![t] = Idle]
        /\ UNCHANGED <<pods, seqRead, timer, incs>>
    BY <1>5 DEF PostCancel, PostVerify
  <2>4. \A j \in DOMAIN incs : TM!Live(j)' => Unfinished(j)
    BY <1>0, <1>3, <1>5, CancelKeepsSeqs
    DEF PostCancel, PostVerify, TM!StartCancel, TM!Live, Unfinished
  <2> HIDE DEF x
  <2>5. \A u \in Threads : h'[u].pc \in CreatePcs =>
            Posting(u) /\ h'[u].inc = h[u].inc /\ h'[u].read = h[u].read
    BY <1>1, <1>2, <2>1, <2>2, <2>3
  <2> QED
    BY <2>3, <2>4, <2>5, OwnSame
<1>6. CASE PostInsert(t)
  <2>1. Posting(t) /\ UNCHANGED <<pods, seqRead, timer, incs>> /\ h' = [h EXCEPT ![t] = Idle]
    BY <1>6 DEF PostInsert, Posting, CreatePcs
  <2>2. Unfinished(h[t].inc)
    BY <2>1 DEF Unfinished, Posting
  <2>3. \A j \in Incs : j # h[t].inc => seq'[j] = seq[j]
    BY <1>0, <1>6, SeqTypes DEF PostInsert, TM!InsertActive
  <2>4. \A j \in DOMAIN incs : TM!Live(j)' => Unfinished(j)
    BY <1>0, <2>2, <2>3 DEF TM!Live, Unfinished
  <2> QED
    BY <1>1, <1>2, <2>1, <2>4, OwnSame
<1>7. CASE PostPendingGet(t)
  <2> DEFINE i == h[t].inc
             x == [h[t] EXCEPT !.pc = "pendingPut", !.read = pods[NameOf(i)]]
  <2>1. h[t] \in [pc : CreatePcs, inc : Incs, len : 0..MaxStates,
                  read : PodRecords \cup {NoPod}] /\ Posting(t)
    BY <1>0, <1>7, HandlerTypes DEF PostPendingGet, Posting, CreatePcs
  <2>2. h' = [h EXCEPT ![t] = x] /\ UNCHANGED <<pods, seqRead, timer, incs, seq>>
    BY <1>7 DEF PostPendingGet
  <2>3. x.inc = i /\ x.read = pods[NameOf(i)]
    BY <2>1
  <2> HIDE DEF x
  <2>4. h'[t] = x /\ \A u \in Threads : u # t => h'[u] = h[u]
    BY <1>0, <2>2
  <2>5. HandlersKept
    BY <1>0, <1>7, <2>1, <2>3, <2>4 DEF HandlersKept, Posting, LInv, Roles, PostPendingGet
  <2>6. \A j \in DOMAIN incs : Unfinished(j)' => Unfinished(j)
    BY <1>0, <1>3, <2>2, <2>5, NoneRestarts DEF Unfinished
  <2>7. ASSUME NEW n \in Names, NEW c \in DOMAIN incs, Clean(n, c),
               NEW u \in Threads, h'[u].pc \in CreatePcs, h'[u].inc = c
        PROVE  \/ Posting(u) /\ h[u].inc = c /\ h'[u].read = h[u].read
               \/ Own(h'[u].read, c)
    BY <2>3, <2>4, <2>7, CleanParts DEF Posting
  <2> QED
    BY <2>2, <2>6, <2>7, OwnKept
<1>8. CASE PostPendingPut(t)
  <2> DEFINE i == h[t].inc
             p == PendingPod(i, h[t].read)
  <2>1. /\ UpdatePod(NameOf(i), p) /\ UNCHANGED <<seqRead, incs, seq>>
        /\ timer' \in {timer, Startup(i)} /\ h' = [h EXCEPT ![t] = Idle]
    BY <1>8 DEF PostPendingPut
  <2>2. /\ i \in DOMAIN incs /\ p \in PodRecords /\ i \in Incs
        /\ p.inc = i /\ p.ct = i /\ p.by = i /\ p.kind = "default"
        /\ p.owned = OwnersKept(i, h[t].read) /\ h[t].read \in PodRecords \cup {NoPod}
        /\ Posting(t)
    BY <1>0, <1>8, PendingFrom, PendingRecord, HandlerTypes
    DEF PostPendingPut, CInv, Posting, CreatePcs
  <2> HIDE DEF p
  <2>3. Unfinished(i)
    BY <2>2 DEF Unfinished, Posting
  <2>4. \A j \in Incs : timer'[j].read = timer[j].read /\ (j # i => timer'[j] = timer[j])
    BY <2>1 DEF Startup, CInv, HInv, LInv, OwnTypes, Timers
  <2>5. \A u \in Threads : h'[u].pc \in CreatePcs =>
            Posting(u) /\ h'[u].inc = h[u].inc /\ h'[u].read = h[u].read
    BY <1>1, <1>2, <2>1
  <2>6. \A j \in DOMAIN incs : Unfinished(j)' => Unfinished(j)
    BY <1>0, <2>1, <2>3, <2>4, <2>5 DEF Unfinished, TM!Live, Posting
  <2>7. ASSUME NEW n \in Names, NEW c \in DOMAIN incs, Clean(n, c)
        PROVE  pods'[n] = pods[n] \/ Own(pods'[n], c)
    <3>1. i = c => Own(p, c)
      BY <2>2, <2>7, CleanParts, OwnersOf DEF Own
    <3> QED
      BY <2>1, <2>2, <2>3, <2>7, <3>1, WriteOwn
  <2> QED
    BY <1>0, <2>1, <2>4, <2>5, <2>6, <2>7, OwnKept
<1>9. CASE DeleteCancel(t) \/ DeleteTemplate(t) \/ SimCancel(t)
  <2> DEFINE x(pc) == [h[t] EXCEPT !.pc = pc]
  <2>1. h[t] \in [pc : {"delCancel", "delTemplate", "delStore", "simCancel"}, key : Keys]
    BY <1>0, <1>9, HandlerTypes DEF DeleteCancel, DeleteTemplate, SimCancel
  <2>2. \A pc \in {"delTemplate", "delStore"} : x(pc).pc \notin CreatePcs
    BY <2>1 DEF CreatePcs
  <2>3. /\ \/ h' = [h EXCEPT ![t] = x("delTemplate")]
           \/ h' = [h EXCEPT ![t] = x("delStore")]
           \/ h' = [h EXCEPT ![t] = Idle]
        /\ UNCHANGED <<pods, seqRead, timer, incs>>
    BY <1>9 DEF DeleteCancel, DeleteTemplate, SimCancel
  <2>4. \A j \in DOMAIN incs : TM!Live(j)' => Unfinished(j)
    BY <1>0, <1>3, <1>9, CancelKeepsSeqs
    DEF DeleteCancel, DeleteTemplate, SimCancel, TM!Live, Unfinished
  <2> HIDE DEF x
  <2>5. \A u \in Threads : h'[u].pc \in CreatePcs =>
            Posting(u) /\ h'[u].inc = h[u].inc /\ h'[u].read = h[u].read
    BY <1>1, <1>2, <2>2, <2>3
  <2> QED
    BY <2>3, <2>4, <2>5, OwnSame
<1>10. CASE DeleteStore(t)
  <2>1. h' = [h EXCEPT ![t] = Idle] /\ UNCHANGED <<seqRead, timer, incs, seq>>
        /\ \A n \in Names : pods'[n] \in {pods[n], NoPod}
    BY <1>10 DEF DeleteStore, RemovePod, CInv, HInv, LInv, OwnTypes
  <2>2. \A u \in Threads : h'[u].pc \in CreatePcs =>
            Posting(u) /\ h'[u].inc = h[u].inc /\ h'[u].read = h[u].read
    BY <1>1, <1>2, <2>1
  <2>3. \A j \in DOMAIN incs : Unfinished(j)' => Unfinished(j)
    BY <2>1, <2>2 DEF Unfinished, TM!Live, Posting
  <2> QED
    BY <2>1, <2>2, <2>3, OwnKept
<1> QED
    BY <1>4, <1>5, <1>6, <1>7, <1>8, <1>9, <1>10 DEF HandlerStep

LEMMA CleanTimer ==
    ASSUME CInv, NEW i \in Incs, TimerStep(i) \/ TimerStop(i)
    PROVE  HasLatest' /\ CleanOwn'
<1>0. HInv /\ LInv /\ DOMAIN incs \subseteq Incs
    BY IncTypes DEF CInv, HInv
<1>1. /\ i \in DOMAIN incs /\ timer[i].pc \in {"wait", "put"}
      /\ UNCHANGED <<seq, seqRead, h, incs>> /\ Unfinished(i)
    BY <1>0, RunningFrom DEF TimerStep, TimerFire, TimerPut, TimerStop, Unfinished
<1>2. ASSUME NEW x, timer' = [timer EXCEPT ![i] = x],
             x.read = timer[i].read \/ \A n \in Names : Clean(n, i) => Own(x.read, i),
             \A n \in Names : \A c \in DOMAIN incs :
                Clean(n, c) => pods'[n] = pods[n] \/ Own(pods'[n], c)
      PROVE  HasLatest' /\ CleanOwn'
  <2>1. timer'[i] = x /\ \A j \in Incs : j # i => timer'[j] = timer[j]
    BY <1>0, <1>2 DEF LInv, OwnTypes
  <2>2. \A j \in DOMAIN incs : Unfinished(j)' => Unfinished(j)
    BY <1>0, <1>1, <2>1 DEF Unfinished, TM!Live
  <2>3. \A n \in Names : \A c \in DOMAIN incs :
            Clean(n, c) => timer'[c].read = timer[c].read \/ Own(timer'[c].read, c)
    BY <1>0, <1>2, <2>1
  <2> QED
    BY <1>1, <1>2, <2>2, <2>3, OwnKept DEF Posting
<1>3. CASE TimerFire(i)
  <2> DEFINE x == [pc |-> "put", read |-> pods[NameOf(i)]]
  <2>1. timer' = [timer EXCEPT ![i] = x] /\ UNCHANGED pods /\ x.read = pods[NameOf(i)]
    BY <1>3 DEF TimerFire
  <2> HIDE DEF x
  <2>2. \A n \in Names : Clean(n, i) => Own(x.read, i)
    BY <1>1, <2>1, CleanParts
  <2> QED
    BY <1>2, <2>1, <2>2
<1>4. CASE TimerPut(i)
  <2> DEFINE x == [pc |-> "done", read |-> NoPod]
             read == timer[i].read
             p == RunningPod(i, read)
  <2>1. /\ timer' = [timer EXCEPT ![i] = x] /\ UpdatePod(NameOf(i), p)
        /\ x.read = NoPod
    BY <1>4 DEF TimerPut
  <2>2. /\ p \in PodRecords /\ read \in PodRecords \cup {NoPod}
        /\ p.inc = i /\ p.by = i /\ p.kind = "default" /\ p.owned = OwnersKept(i, read)
        /\ p.ct = IF read.ct # 0 THEN read.ct ELSE Stamp(i, incs[i].owned)
    BY <1>0, <1>1, RunningRecord DEF LInv, OwnTypes, Timers
  <2> HIDE DEF x, p
  <2>3. ASSUME NEW n \in Names, NEW c \in DOMAIN incs, Clean(n, c)
        PROVE  pods'[n] = pods[n] \/ Own(pods'[n], c)
    <3>1. ASSUME i = c PROVE Own(p, c)
      <4>1. Own(read, c)
        BY <2>3, <3>1, CleanParts
      <4>2. p.owned = incs[c].owned
        BY <2>2, <3>1, <4>1, OwnersOf
      <4>3. p.ct \in {0, c}
        BY <2>2, <3>1, <4>1 DEF Own, NoPod, Stamp
      <4> QED
        BY <2>2, <3>1, <4>2, <4>3 DEF Own
    <3> QED
      BY <1>1, <2>1, <2>2, <2>3, <3>1, WriteOwn
  <2>4. Own(x.read, i)
    BY <2>1 DEF Own
  <2> QED
    BY <1>2, <2>1, <2>3, <2>4
<1>5. CASE TimerStop(i)
  <2> DEFINE x == [timer[i] EXCEPT !.pc = "done"]
  <2>1. timer' = [timer EXCEPT ![i] = x] /\ UNCHANGED pods
    BY <1>5 DEF TimerStop
  <2>2. x.read = timer[i].read
    BY <1>0 DEF LInv, OwnTypes, Timers
  <2> HIDE DEF x
  <2> QED
    BY <1>2, <2>1, <2>2
<1> QED
    BY <1>3, <1>4, <1>5 DEF TimerStep

LEMMA CleanSeq ==
    ASSUME CInv, NEW s \in Incs, SeqStep(s)
    PROVE  HasLatest' /\ CleanOwn'
<1>0. HInv /\ LInv /\ DOMAIN incs \subseteq Incs
    BY IncTypes DEF CInv, HInv
<1>1. UNCHANGED <<timer, h, incs>> /\ TM!SeqStep(s)
    BY DEF SeqStep, SeqControl, SeqGet, SeqPut, TM!SeqStep
<1>2. TM!Live(s) /\ \A j \in Incs : j # s => seq'[j] = seq[j]
    BY <1>0, <1>1, UnfinishedSeq
<1>3. s \in DOMAIN incs /\ Unfinished(s) /\ NameOf(s) \in Names
    BY <1>0, <1>2, IncTypes DEF LInv, Roles, TM!Live, Unfinished
<1>4. \A j \in DOMAIN incs : Unfinished(j)' => Unfinished(j)
    BY <1>0, <1>1, <1>2, <1>3 DEF Unfinished, TM!Live
<1>5. ASSUME NEW x, seqRead' = [seqRead EXCEPT ![s] = x] \/ UNCHANGED seqRead,
             \A n \in Names : Clean(n, s) => Own(x, s),
             \A n \in Names : \A c \in DOMAIN incs :
                Clean(n, c) => pods'[n] = pods[n] \/ Own(pods'[n], c)
      PROVE  HasLatest' /\ CleanOwn'
  <2>1. \A j \in Incs : seqRead'[j] = seqRead[j] \/ (j = s /\ seqRead'[j] = x)
    BY <1>0, <1>5 DEF LInv, OwnTypes
  <2>2. \A n \in Names : \A c \in DOMAIN incs :
            Clean(n, c) => seqRead'[c] = seqRead[c] \/ Own(seqRead'[c], c)
    BY <1>0, <1>5, <2>1
  <2> QED
    BY <1>1, <1>4, <1>5, <2>2, OwnKept DEF Posting
<1>6. CASE SeqControl(s)
    BY <1>5, <1>6 DEF SeqControl, Own
<1>7. CASE SeqGet(s)
  <2>1. UNCHANGED pods /\ seqRead' = [seqRead EXCEPT ![s] = pods[NameOf(s)]]
    BY <1>7 DEF SeqGet
  <2>2. \A n \in Names : Clean(n, s) => Own(pods[NameOf(s)], s)
    BY <1>3, CleanParts
  <2> QED
    BY <1>5, <2>1, <2>2
<1>8. CASE SeqPut(s)
  <2> DEFINE p == AppliedPod(s, seqRead[s])
  <2>1. /\ UpdatePod(NameOf(s), p) /\ seqRead' = [seqRead EXCEPT ![s] = NoPod]
        /\ seq[s].pc = "put"
    BY <1>8 DEF SeqPut
  <2>2. /\ p \in PodRecords /\ p.inc = seqRead[s].inc /\ p.ct = seqRead[s].ct
        /\ p.by = s /\ p.kind = "template" /\ ~p.owned /\ seqRead[s] # NoPod
    BY <1>0, <2>1, AppliedRecord DEF LInv, ReadFirst
  <2> HIDE DEF p
  <2>3. ASSUME NEW n \in Names, NEW c \in DOMAIN incs, Clean(n, c)
        PROVE  pods'[n] = pods[n] \/ Own(pods'[n], c)
    <3>1. s = c => Own(p, c)
      BY <2>2, <2>3, CleanParts DEF Own
    <3> QED
      BY <1>3, <2>1, <2>2, <2>3, <3>1, WriteOwn
  <2> QED
    BY <1>5, <2>1, <2>3 DEF Own
<1> QED
    BY <1>6, <1>7, <1>8 DEF SeqStep

LEMMA CleanStep == CInv /\ [Next]_vars => CInv'
<1> SUFFICES ASSUME CInv, [Next]_vars PROVE CInv'
    OBVIOUS
<1>1. HInv'
    BY LInvStep, FromStep DEF CInv, HInv
<1>2. ASSUME UNCHANGED <<pods, seqRead, timer, incs, seq>>,
             \A t \in Threads : h'[t].pc \in CreatePcs =>
               Posting(t) /\ h'[t].inc = h[t].inc /\ h'[t].read = h[t].read
      PROVE  HasLatest' /\ CleanOwn'
    BY <1>2, OwnSame DEF TM!Live, Unfinished
<1>3. ASSUME NEW t \in Threads, Request(t) PROVE HasLatest' /\ CleanOwn'
  <2>1. ASSUME NEW k \in Keys, NEW owned \in BOOLEAN, PostPod(t, k, owned)
        PROVE  HasLatest' /\ CleanOwn'
    BY <2>1, CleanCreate DEF PostPod
  <2>2. ASSUME NEW k \in Keys, CreatePodForReplicaSet(t, k) PROVE HasLatest' /\ CleanOwn'
    BY <2>2, CleanCreate DEF CreatePodForReplicaSet
  <2>3. ASSUME NEW k \in Keys,
             DeletePod(t, k) \/ DeletePodOfReplicaSet(t, k) \/ CancelPodTransition(t, k)
        PROVE  HasLatest' /\ CleanOwn'
    <3> DEFINE x(pc) == [pc |-> pc, key |-> k]
    <3>1. \A pc \in {"delCancel", "simCancel"} : x(pc).pc \notin CreatePcs
      BY DEF CreatePcs
    <3>2. /\ \/ h' = [h EXCEPT ![t] = x("delCancel")]
             \/ h' = [h EXCEPT ![t] = x("simCancel")]
          /\ UNCHANGED <<pods, seqRead, timer, incs, seq>>
      BY <2>3 DEF DeletePod, DeletePodOfReplicaSet, DeleteBegins, CancelPodTransition
    <3> HIDE DEF x
    <3> QED
      BY <1>2, <3>1, <3>2 DEF CInv, HInv, LInv, OwnTypes, Posting
  <2>4. ASSUME NEW k \in Keys, NEW len \in Lens, SimulatePod(t, k, len)
        PROVE  HasLatest' /\ CleanOwn'
    BY <1>2, <2>4 DEF SimulatePod, Posting
  <2> QED
    BY <1>3, <2>1, <2>2, <2>3, <2>4 DEF Request
<1>4. ASSUME Stop \/ UNCHANGED vars PROVE HasLatest' /\ CleanOwn'
  <2>1. UNCHANGED <<pods, seqRead, timer, incs, seq, h>>
    BY <1>4 DEF Stop, vars
  <2> QED
    BY <1>2, <2>1 DEF Posting
<1>5. ASSUME NEW t \in Threads, HandlerStep(t) PROVE HasLatest' /\ CleanOwn'
    BY <1>5, CleanHandler
<1>6. ASSUME NEW i \in Incs, TimerStep(i) \/ TimerStop(i) \/ SeqStep(i)
      PROVE  HasLatest' /\ CleanOwn'
    BY <1>6, CleanTimer, CleanSeq
<1>7. HasLatest' /\ CleanOwn'
    BY <1>3, <1>4, <1>5, <1>6 DEF Next
<1> QED
    BY <1>1, <1>7 DEF CInv

LEMMA CInvAlways == Spec => []CInv
<1>1. Init => CInv
  <2>1. Init => DOMAIN incs = {}
    BY DEF Init
  <2> QED
    BY <2>1, HInvInit DEF CInv, HasLatest, CleanOwn, Posts
<1> QED
    BY <1>1, CleanStep, PTL DEF Spec

(* A pod posted when no goroutine was left over for its name holds its own *)
(* spec, creation time and status, and its owner references, for as long   *)
(* as it is stored.                                                        *)
THEOREM CleanOwnership == Spec => []CleanPodIsItsOwn
<1>1. CInv => CleanPodIsItsOwn
  <2> SUFFICES ASSUME CInv, NEW n \in Names, Stored(n), incs[Current(n)].clean
               PROVE  /\ pods[n].inc = Current(n)
                      /\ pods[n].ct \in {0, Current(n)}
                      /\ pods[n].by \in {0, Current(n)}
                      /\ pods[n].kind # "template" => pods[n].owned = incs[Current(n)].owned
      BY DEF CleanPodIsItsOwn
  <2>1. PICK c \in DOMAIN incs : Latest(n, c)
    BY DEF CInv, HInv, FromPosts, From, Stored, HasLatest
  <2>2. Current(n) = c
    BY <2>1, CurrentIsLatest DEF CInv, HInv
  <2>3. Own(pods[n], c)
    BY <2>1, <2>2 DEF CInv, CleanOwn, Clean
  <2> QED
    BY <2>2, <2>3 DEF Own, Stored
<1> QED
    BY <1>1, CInvAlways, PTL

-----------------------------------------------------------------------------
(* The stored pod of a clean name keeps up with its goroutine: it has the  *)
(* status the goroutine came to last, and the time stamp it will put back. *)
Track(n, c) ==
    Stored(n) =>
      /\ pods[n].kind = Progress(c).kind /\ pods[n].step <= Progress(c).step
      /\ timer[c].pc \in {"wait", "put"} => pods[n].ct = c
      /\ timer[c].pc = "put" => timer[c].read.ct = c
      /\ seq[c].pc = "put" => seqRead[c].ct = pods[n].ct
CleanTrack == \A n \in Names : \A c \in DOMAIN incs : Clean(n, c) => Track(n, c)
TInv == CInv /\ CleanTrack

Forward(n) ==
    Stored(n) /\ Stored(n)' =>
        /\ pods'[n].step >= pods[n].step
        /\ pods[n].kind # "none" => pods'[n].kind = pods[n].kind
        /\ pods[n].ct # 0 => pods'[n].ct = pods[n].ct
Onward == \A n \in Names : \A c \in DOMAIN incs : Clean(n, c) => Track(n, c)' /\ Forward(n)

LEMMA StoredFields ==
    ASSUME LInv, NEW n \in Names, Stored(n)
    PROVE  pods[n] \in PodRecords /\ pods[n].step \in Nat
<1>1. pods[n] \in PodRecords
    BY DEF LInv, OwnTypes, Stored
<1>2. 0..(MaxStates + 2) \subseteq Nat
    BY MaxStatesAssumption
<1> QED
    BY <1>1, <1>2 DEF PodRecords

(* Nothing happens to the pod.                                             *)
LEMMA Quiet ==
    ASSUME TInv, NEW n \in Names, NEW c \in DOMAIN incs, Clean(n, c),
           pods'[n] \in {pods[n], NoPod}, Progress(c)' = Progress(c),
           timer'[c].pc \in {"wait", "put"} => timer'[c] = timer[c],
           seq'[c].pc = "put" => seq[c].pc = "put" /\ seqRead'[c] = seqRead[c]
    PROVE  Track(n, c)' /\ Forward(n)
<1>1. Stored(n)' => Stored(n) /\ pods'[n] = pods[n]
    BY DEF Stored
<1>2. Track(n, c)
    BY DEF TInv, CleanTrack
<1>3. Track(n, c)'
    BY <1>1, <1>2 DEF Track
<1>4. Stored(n) => pods[n].step \in Nat
    BY StoredFields DEF TInv, CInv, HInv
<1> QED
    BY <1>1, <1>3, <1>4 DEF Forward

(* Another POST's goroutine at work.                                       *)
LEMMA OtherQuiet ==
    ASSUME TInv, NEW n \in Names, NEW c \in DOMAIN incs, Clean(n, c),
           NEW i \in DOMAIN incs, i # c, Unfinished(i),
           NEW p \in PodRecords, UpdatePod(NameOf(i), p) \/ UNCHANGED pods,
           timer'[c] = timer[c], seq'[c] = seq[c], seqRead'[c] = seqRead[c]
    PROVE  Track(n, c)' /\ Forward(n)
<1>1. NameOf(i) \in Names /\ NameOf(i) # n
    BY IncTypes, WriterIsOwn DEF TInv, CInv, HInv
<1>2. pods'[n] = pods[n]
    BY <1>1, UpdateKeeps DEF TInv, CInv, HInv
<1>3. Progress(c)' = Progress(c)
    BY DEF Progress
<1> QED
    BY <1>2, <1>3, Quiet

(* Its own goroutine comes to the next status and writes it.               *)
LEMMA NextStatus ==
    ASSUME TInv, NEW n \in Names, NEW c \in DOMAIN incs, Clean(n, c),
           NEW p \in PodRecords, UpdatePod(n, p), NEW step \in Nat,
           Progress(c).step = step, Progress(c).kind \in {"none", p.kind},
           Progress(c)' = [kind |-> p.kind, step |-> step + 1],
           p.step = step + 1,
           Stored(n) /\ pods[n].ct # 0 => p.ct = pods[n].ct,
           timer'[c].pc \in {"wait", "put"} => timer'[c].pc = "wait" /\ p.ct = c,
           seq'[c].pc # "put"
    PROVE  Track(n, c)' /\ Forward(n)
<1>1. pods'[n] = IF Stored(n) THEN p ELSE pods[n]
    BY UpdateKeeps DEF TInv, CInv, HInv
<1>2. CASE Stored(n)
  <2>1. pods'[n] = p /\ Track(n, c) /\ pods[n].step \in Nat
    BY <1>1, <1>2, StoredFields DEF TInv, CInv, HInv, CleanTrack
  <2>2. pods[n].step <= step /\ pods[n].kind = Progress(c).kind
    BY <1>2, <2>1 DEF Track
  <2>3. Track(n, c)'
    BY <2>1 DEF Track
  <2>4. p.step >= pods[n].step
    BY <2>1, <2>2
  <2> QED
    BY <1>2, <2>1, <2>2, <2>3, <2>4 DEF Forward
<1>3. CASE ~Stored(n)
  <2>1. ~Stored(n)'
    BY <1>1, <1>3 DEF Stored
  <2> QED
    BY <1>3, <2>1 DEF Track, Forward
<1> QED
    BY <1>2, <1>3

LEMMA OnwardPending ==
    ASSUME TInv, NEW t \in Threads, PostPendingPut(t),
           NEW n \in Names, NEW c \in DOMAIN incs, Clean(n, c)
    PROVE  Track(n, c)' /\ Forward(n)
<1>0. CInv /\ HInv /\ LInv
    BY DEF TInv, CInv, HInv
<1> PICK i \in DOMAIN incs : i = h[t].inc
    BY <1>0, PendingFrom DEF PostPendingPut
<1> DEFINE p == PendingPod(i, h[t].read)
<1>1. /\ UNCHANGED <<seq, seqRead, incs>> /\ UpdatePod(NameOf(i), p)
      /\ timer' = IF Stored(NameOf(i)) THEN Startup(i) ELSE timer
    BY DEF PostPendingPut
<1>2. /\ seq[i].pc = "none" /\ timer[i].pc = "none" /\ seq[i].next = 1 /\ i \in Incs
      /\ p \in PodRecords /\ p.ct = i /\ p.step = 1 /\ p.kind = "default"
    BY <1>0, PendingFrom, PendingRecord DEF PostPendingPut, LInv, Roles
<1>3. Unfinished(i) /\ c \in Incs /\ NameOf(c) = n
    BY <1>0, IncTypes, CleanName DEF Unfinished, PostPendingPut, CreatePcs
<1> HIDE DEF p
<1>4. CASE i # c
  <2>1. timer'[c] = timer[c]
    BY <1>0, <1>1, <1>2, <1>3, <1>4 DEF Startup, LInv, OwnTypes
  <2> QED
    BY <1>1, <1>2, <1>3, <1>4, <2>1, OtherQuiet
<1>5. CASE i = c /\ Stored(n)
  <2>1. timer'[i].pc = "wait"
    BY <1>0, <1>1, <1>2, <1>3, <1>5 DEF Startup, LInv, OwnTypes, Timers
  <2>2. Progress(i).step = 0 /\ Progress(i).kind = "none"
    BY <1>2 DEF Progress
  <2>3. Progress(i)' = [kind |-> "default", step |-> 0 + 1]
    BY <1>1, <1>2, <2>1 DEF Progress
  <2>4. pods[n].ct \in {0, c}
    BY <1>0, <1>5, CleanParts DEF Own, Stored
  <2> QED
    BY <1>1, <1>2, <1>3, <1>5, <2>1, <2>2, <2>3, <2>4, NextStatus
<1>6. CASE i = c /\ ~Stored(n)
  <2>1. pods' = pods
    BY <1>1, <1>3, <1>6 DEF UpdatePod
  <2>2. ~Stored(n)'
    BY <1>6, <2>1 DEF Stored
  <2> QED
    BY <1>6, <2>2 DEF Track, Forward
<1> QED
    BY <1>4, <1>5, <1>6

LEMMA OnwardTimer ==
    ASSUME TInv, NEW i \in Incs, TimerStep(i) \/ TimerStop(i),
           NEW n \in Names, NEW c \in DOMAIN incs, Clean(n, c)
    PROVE  Track(n, c)' /\ Forward(n)
<1>0. CInv /\ HInv /\ LInv
    BY DEF TInv, CInv, HInv
<1> DEFINE read == timer[i].read
           p == RunningPod(i, read)
<1>1. /\ i \in DOMAIN incs /\ timer[i].pc \in {"wait", "put"} /\ NameOf(i) \in Names
      /\ UNCHANGED <<seq, seqRead, incs>> /\ Unfinished(i) /\ p \in PodRecords
    BY <1>0, RunningFrom DEF TimerStep, TimerFire, TimerPut, TimerStop, Unfinished
<1>2. seq[i].next = 1 /\ seq[i].pc = "none"
    BY <1>1, <1>0 DEF LInv, Roles
<1>3. Progress(i).step = 1 /\ Progress(i).kind = "default"
    BY <1>1, <1>2 DEF Progress
<1>4. c \in Incs /\ NameOf(c) = n /\ Track(n, c)
    BY <1>0, IncTypes, CleanName DEF TInv, CleanTrack
<1>5. UpdatePod(NameOf(i), p) \/ UNCHANGED pods
    BY DEF TimerStep, TimerFire, TimerPut, TimerStop
<1>6. \E x : timer' = [timer EXCEPT ![i] = x]
    BY DEF TimerStep, TimerFire, TimerPut, TimerStop
<1>7. p.kind = "default" /\ p.step = 2
      /\ p.ct = IF read.ct # 0 THEN read.ct ELSE Stamp(i, incs[i].owned)
    BY <1>0, <1>1, RunningRecord
<1> HIDE DEF p
<1>8. CASE i # c
  <2>1. timer'[c] = timer[c]
    BY <1>0, <1>4, <1>6, <1>8 DEF LInv, OwnTypes
  <2> QED
    BY <1>1, <1>5, <1>8, <2>1, OtherQuiet
<1>9. CASE i = c
  <2>1. CASE TimerFire(i)
    <3>1. timer'[c].pc = "put" /\ timer'[c].read = pods[n] /\ UNCHANGED pods
          /\ timer[c].pc = "wait"
      BY <1>0, <1>4, <1>9, <2>1 DEF TimerFire, LInv, OwnTypes
    <3>2. Progress(c)' = Progress(c)
      BY <1>1, <1>9, <3>1 DEF Progress
    <3>3. Stored(n)' = Stored(n) /\ (Stored(n) => pods[n].step \in Nat)
      BY <1>0, <3>1, StoredFields DEF Stored
    <3>4. Track(n, c)'
      BY <1>2, <1>1, <1>4, <1>9, <3>1, <3>2, <3>3 DEF Track
    <3> QED
      BY <3>1, <3>3, <3>4 DEF Forward
  <2>2. CASE TimerPut(i)
    <3>1. timer'[c].pc = "done" /\ UpdatePod(n, p) /\ timer[c].pc = "put"
      BY <1>0, <1>4, <1>9, <2>2 DEF TimerPut, LInv, OwnTypes, p
    <3>2. Progress(c)' = [kind |-> "default", step |-> 1 + 1]
      BY <1>1, <1>2, <1>9, <3>1 DEF Progress
    <3>3. Stored(n) => p.ct = pods[n].ct
      <4>1. c # 0
        BY <1>4, MaxCreatesAssumption DEF Incs
      <4> QED
        BY <1>4, <1>7, <1>9, <3>1, <4>1 DEF Track
    <3>4. timer'[c].pc \notin {"wait", "put"} /\ seq'[c].pc # "put"
      BY <1>1, <1>2, <1>9, <3>1
    <3>5. p.step = 1 + 1 /\ p.kind = "default" /\ p \in PodRecords
      BY <1>1, <1>7
    <3>6. Progress(c).step = 1 /\ Progress(c).kind \in {"none", p.kind} /\ 1 \in Nat
      BY <1>3, <1>9, <3>5
    <3> QED
      BY <3>1, <3>2, <3>3, <3>4, <3>5, <3>6, NextStatus
  <2>3. CASE TimerStop(i)
    <3>1. timer'[c].pc = "done" /\ UNCHANGED pods
      BY <1>0, <1>4, <1>9, <2>3 DEF TimerStop, LInv, OwnTypes, Timers
    <3>2. Progress(c)' = [kind |-> "default", step |-> 2]
      BY <1>1, <1>2, <1>9, <3>1 DEF Progress
    <3>3. Stored(n)' = Stored(n) /\ (Stored(n) => pods[n].step \in Nat)
      BY <1>0, <3>1, StoredFields DEF Stored
    <3>4. Stored(n) => pods[n].kind = "default" /\ pods[n].step <= 2
      BY <1>3, <1>4, <1>9, <3>3 DEF Track
    <3>5. seq'[c].pc # "put"
      BY <1>1, <1>2, <1>9
    <3>6. Track(n, c)'
      BY <3>1, <3>2, <3>3, <3>4, <3>5 DEF Track
    <3> QED
      BY <3>1, <3>3, <3>6 DEF Forward
  <2> QED
    BY <2>1, <2>2, <2>3 DEF TimerStep
<1> QED
    BY <1>8, <1>9

LEMMA OnwardSeq ==
    ASSUME TInv, NEW s \in Incs, SeqStep(s),
           NEW n \in Names, NEW c \in DOMAIN incs, Clean(n, c)
    PROVE  Track(n, c)' /\ Forward(n)
<1>0. CInv /\ HInv /\ LInv /\ seq \in [Incs -> TMP!SeqStates] /\ DOMAIN incs \subseteq Incs
    BY SeqTypes, IncTypes DEF TInv, CInv, HInv
<1>1. UNCHANGED <<timer, h, incs>> /\ TM!SeqStep(s)
    BY DEF SeqStep, SeqControl, SeqGet, SeqPut, TM!SeqStep
<1>2. TM!Live(s) /\ \A j \in Incs : j # s => seq'[j] = seq[j]
    BY <1>0, <1>1, UnfinishedSeq
<1>3. /\ s \in DOMAIN incs /\ Unfinished(s) /\ NameOf(s) \in Names
      /\ timer[s].pc = "none" /\ seq[s].key = KeyOf(s)
    BY <1>0, <1>2, IncTypes DEF LInv, Roles, TM!Live, Unfinished
<1>4. NameOf(c) = n /\ c \in Incs /\ Track(n, c) /\ timer'[c] = timer[c]
    BY <1>0, <1>1, CleanName DEF TInv, CleanTrack
<1>5. \A j \in Incs : j # s => seqRead'[j] = seqRead[j]
    BY <1>0 DEF SeqStep, SeqControl, SeqGet, SeqPut, LInv, OwnTypes
<1>6. CASE s # c
  <2>1. PICK p \in PodRecords : UpdatePod(NameOf(s), p) \/ UNCHANGED pods
    <3>1. CASE SeqPut(s)
      BY <1>0, <3>1, AppliedRecord DEF SeqPut
    <3>2. CASE SeqControl(s) \/ SeqGet(s)
      <4>1. [NoPod EXCEPT !.inc = s] \in PodRecords
        <5>1. 0 \in 0..MaxCreates /\ 0 \in 0..(MaxStates + 2)
          BY MaxCreatesAssumption, MaxStatesAssumption
        <5> QED
          BY <5>1 DEF NoPod, PodRecords
      <4> QED
        BY <3>2, <4>1 DEF SeqControl, SeqGet
    <3> QED
      BY <3>1, <3>2 DEF SeqStep
  <2> QED
    BY <1>2, <1>3, <1>4, <1>5, <1>6, <2>1, OtherQuiet
<1>7. CASE s = c /\ SeqControl(s)
  <2>1. PICK pc \in {"wait", "get", "cleanup", "done"} : seq' = [seq EXCEPT ![s].pc = pc]
    BY <1>7 DEF SeqControl, TM!SeqCheck, TM!SeqWait, TM!SeqCleanup
  <2>2. seq'[s].next = seq[s].next /\ seq'[s].pc # "put"
    BY <1>0, <2>1 DEF TMP!SeqStates
  <2>3. Progress(c)' = Progress(c)
    BY <1>4, <1>7, <2>2 DEF Progress
  <2> QED
    BY <1>4, <1>7, <2>2, <2>3, Quiet DEF SeqControl
<1>8. CASE s = c /\ SeqGet(s)
  <2>1. UNCHANGED pods /\ seqRead' = [seqRead EXCEPT ![s] = pods[n]] /\ seq[s].pc = "get"
    BY <1>4, <1>8 DEF SeqGet
  <2>2. Stored(n)' = Stored(n) /\ (Stored(n) => pods[n].step \in Nat)
    BY <1>0, <2>1, StoredFields DEF Stored
  <2>3. CASE Stored(n)
    <3>1. seq' = [seq EXCEPT ![s] = [seq[s] EXCEPT !.pc = "put"]]
      BY <1>3, <1>4, <1>8, <2>3 DEF SeqGet, TM!SeqGet, TM!NameOf, NameOf
    <3>2. seq'[s].next = seq[s].next
      BY <1>0, <3>1 DEF TMP!SeqStates
    <3>3. Progress(c)' = Progress(c)
      BY <1>4, <1>8, <3>2 DEF Progress
    <3>4. seqRead'[c].ct = pods[n].ct
      BY <1>0, <1>8, <2>1 DEF LInv, OwnTypes
    <3>5. Track(n, c)'
      BY <1>4, <1>3, <1>8, <2>1, <2>3, <3>3, <3>4 DEF Track
    <3> QED
      BY <2>1, <2>2, <3>5 DEF Forward
  <2>4. CASE ~Stored(n)
    BY <2>2, <2>4 DEF Track, Forward
  <2> QED
    BY <2>3, <2>4
<1>9. CASE s = c /\ SeqPut(s)
  <2> DEFINE p == AppliedPod(s, seqRead[s])
             step == seq[s].next - 1
  <2>1. PICK late : seq' = [seq EXCEPT ![s] = [TM!NextState(seq[s]) EXCEPT !.late = late]]
    BY <1>9 DEF SeqPut, TM!SeqPut
  <2> DEFINE x == [TM!NextState(seq[s]) EXCEPT !.late = late]
  <2>2. x.next = seq[s].next + 1 /\ x.pc = "check"
    BY <1>0 DEF TM!NextState, TMP!SeqStates
  <2>3. seq[s].pc = "put" /\ UpdatePod(n, p)
    BY <1>4, <1>9 DEF SeqPut
  <2>4. /\ p \in PodRecords /\ p.kind = "template" /\ p.step = seq[s].next
        /\ p.ct = seqRead[s].ct
    BY <1>0, <2>3, AppliedRecord
  <2> HIDE DEF x
  <2>5. /\ step \in Nat
        /\ Progress(s).step = step /\ Progress(s).kind \in {"none", "template"}
        /\ Progress(s)' = [kind |-> "template", step |-> step + 1]
    BY <1>0, <1>1, <2>1, <2>2, <2>3, SeqProgress DEF x
  <2>6. step + 1 = seq[s].next
    BY <1>0 DEF TMP!SeqStates
  <2>7. seq'[c].pc # "put" /\ timer'[c].pc \notin {"wait", "put"}
    BY <1>0, <1>3, <1>4, <1>9, <2>1, <2>2 DEF x
  <2>8. Stored(n) => p.ct = pods[n].ct
    BY <1>4, <1>9, <2>3, <2>4 DEF Track
  <2>9. p.kind = "template" /\ p.step = step + 1
    BY <2>4, <2>6
  <2> HIDE DEF p, step
  <2> QED
    BY <1>9, <2>3, <2>4, <2>5, <2>7, <2>8, <2>9, NextStatus
<1> QED
    BY <1>6, <1>7, <1>8, <1>9 DEF SeqStep

(* A POST of another name, or the one that makes the pod.                  *)
LEMMA TrackCreate ==
    ASSUME TInv, NEW t \in Threads, NEW k \in Keys, NEW owned \in BOOLEAN,
           NEW pc \in {"lookup", "pendingGet"}, CreatePod(t, k, owned, pc)
    PROVE  CleanTrack' /\ \A n \in Names : Forward(n)
<1>0. CInv /\ HInv /\ LInv
    BY DEF TInv, CInv, HInv
<1>kept. \A j \in DOMAIN incs : incs'[j] = incs[j]
  <2>1. LInv
    BY <1>0
  <2>2. LInv => \A j \in DOMAIN incs : incs'[j] = incs[j]
    BY CreateView
  <2> QED
    BY <2>1, <2>2
<1> PICK i \in Incs :
        /\ i = Len(incs) + 1 /\ DOMAIN incs' = DOMAIN incs \cup {i} /\ i \notin DOMAIN incs
        /\ Posts(k[2])' = Posts(k[2]) \cup {i}
        /\ \A n \in Names : n # k[2] => Posts(n)' = Posts(n)
        /\ \A j \in DOMAIN incs : NameOf(j)' = NameOf(j)
        /\ NameOf(i)' = k[2]
    BY <1>0, PostsGrow
<1> PICK m \in Names : m = k[2]
    BY DEF Keys
<1> DEFINE p == [NoPod EXCEPT !.inc = i, !.ct = Stamp(i, owned), !.owned = owned]
<1>1. /\ pods' = [pods EXCEPT ![m] = p] /\ ~Stored(m)
      /\ UNCHANGED <<seq, seqRead, timer>>
    BY DEF CreatePod
<1>2. p.kind = "none" /\ p.step = 0
    BY DEF NoPod
<1> HIDE DEF p
<1>3. pods'[m] = p /\ \A n \in Names : n # m => pods'[n] = pods[n]
    BY <1>0, <1>1 DEF LInv, OwnTypes
<1>5. \A j \in Incs : Progress(j)' = Progress(j)
    BY <1>1 DEF Progress
<1>6. ASSUME NEW n \in Names, NEW c \in DOMAIN incs', Clean(n, c)' PROVE Track(n, c)'
  <2>1. CASE n = m
    <3>1. c = i
      <4>1. i \in Posts(n)' /\ c \in Posts(n)'
        BY <1>6, <2>1 DEF Clean, Latest
      <4>2. i <= c
        BY <1>6, <4>1 DEF Clean, Latest
      <4>3. \A j \in DOMAIN incs : j \in Nat /\ j < i
        BY <1>0, IncTypes
      <4> QED
        BY <4>2, <4>3, MaxCreatesAssumption DEF Incs
    <3>2. timer[i].pc = "none" /\ seq[i].pc = "none" /\ seq[i].next = 1
      BY <1>0 DEF LInv, Roles
    <3>3. Progress(i).kind = "none" /\ Progress(i).step = 0
      BY <3>2 DEF Progress
    <3> QED
      BY <1>1, <1>2, <1>3, <1>5, <2>1, <3>1, <3>2, <3>3 DEF Track
  <2>2. CASE n # m
    <3>1. c \in DOMAIN incs /\ Clean(n, c) /\ c \in Incs
      BY <1>0, <1>kept, <1>6, <2>2, IncTypes DEF Clean, Latest, Posts
    <3>2. Track(n, c) /\ pods'[n] = pods[n]
      BY <1>3, <2>2, <3>1 DEF TInv, CleanTrack
    <3> QED
      BY <1>1, <1>5, <3>1, <3>2 DEF Track, Stored
  <2> QED
    BY <2>1, <2>2
<1>7. ASSUME NEW n \in Names PROVE Forward(n)
  <2>1. CASE n = m
    BY <1>1, <2>1 DEF Forward
  <2>2. CASE n # m
    <3>1. pods'[n] = pods[n] /\ (Stored(n) => pods[n].step \in Nat)
      BY <1>0, <1>3, <2>2, StoredFields
    <3> QED
      BY <3>1 DEF Forward
  <2> QED
    BY <2>1, <2>2
<1> QED
    BY <1>6, <1>7 DEF CleanTrack

LEMMA OnwardStep ==
    ASSUME TInv, [Next]_vars,
           ~ \E t \in Threads, k \in Keys, owned \in BOOLEAN, pc \in {"lookup", "pendingGet"} :
                CreatePod(t, k, owned, pc)
    PROVE  Onward /\ UNCHANGED incs
<1>0. CInv /\ HInv /\ LInv /\ seq \in [Incs -> TMP!SeqStates] /\ DOMAIN incs \subseteq Incs
    BY SeqTypes, IncTypes DEF TInv, CInv, HInv
<1>1. ASSUME UNCHANGED <<seqRead, timer>>, \A n \in Names : pods'[n] \in {pods[n], NoPod},
             \A i \in Incs : /\ seq'[i].next = seq[i].next
                             /\ seq'[i].pc = "put" => seq[i].pc = "put"
      PROVE  Onward
  <2>1. \A i \in Incs : Progress(i)' = Progress(i)
    BY <1>1 DEF Progress
  <2> QED
    BY <1>0, <1>1, <2>1, Quiet DEF Onward
<1>2. ASSUME UNCHANGED <<seqRead, timer, pods, seq>> PROVE Onward
    BY <1>1, <1>2
<1>3. ASSUME NEW t \in Threads, Request(t) PROVE Onward /\ UNCHANGED incs
  <2>1. ASSUME NEW k \in Keys, NEW owned \in BOOLEAN, PostPod(t, k, owned) PROVE FALSE
    BY <2>1 DEF PostPod
  <2>2. ASSUME NEW k \in Keys, CreatePodForReplicaSet(t, k) PROVE FALSE
    BY <2>2 DEF CreatePodForReplicaSet
  <2> QED
    BY <1>2, <1>3, <2>1, <2>2 DEF Request, DeletePod,
        DeletePodOfReplicaSet, DeleteBegins, CancelPodTransition, SimulatePod
<1>4. ASSUME NEW t \in Threads, HandlerStep(t) PROVE Onward /\ UNCHANGED incs
  <2>1. CASE PostPendingPut(t)
    BY <2>1, OnwardPending DEF Onward, PostPendingPut
  <2>2. CASE DeleteStore(t)
    <3>1. \A n \in Names : pods'[n] \in {pods[n], NoPod}
      BY <1>0, <2>2 DEF DeleteStore, RemovePod, LInv, OwnTypes
    <3> QED
      BY <1>1, <2>2, <3>1 DEF DeleteStore
  <2>3. CASE PostCancel(t) \/ DeleteCancel(t) \/ SimCancel(t)
    <3>1. UNCHANGED <<pods, seqRead, timer, incs>> /\ \E k : TM!CancelTransition(k)
      BY <2>3 DEF PostCancel, DeleteCancel, SimCancel, TM!StartCancel
    <3>2. \A i \in Incs : seq'[i].next = seq[i].next /\ seq'[i].pc = seq[i].pc
      BY <1>0, <3>1 DEF TM!CancelTransition, TMP!SeqStates
    <3> QED
      BY <1>1, <3>1, <3>2
  <2>4. CASE PostInsert(t)
    <3>1. h[t].inc \in Incs /\ seq[h[t].inc].next = 1
      BY <1>0, <2>4, HandlerTypes DEF PostInsert, Posting, CreatePcs, LInv, Roles
    <3>2. UNCHANGED <<pods, seqRead, timer, incs>>
      BY <2>4 DEF PostInsert
    <3>3. \A i \in Incs : /\ seq'[i].next = seq[i].next
                          /\ seq'[i].pc = "put" => seq[i].pc = "put"
      BY <1>0, <2>4, <3>1 DEF PostInsert, TM!InsertActive
    <3> QED
      BY <1>1, <3>2, <3>3
  <2> QED
    BY <1>2, <1>4, <2>1, <2>2, <2>3, <2>4
    DEF HandlerStep, PostLookup, PostVerify, PostPendingGet, DeleteTemplate
<1>5. ASSUME NEW i \in Incs, TimerStep(i) \/ TimerStop(i) PROVE Onward /\ UNCHANGED incs
    BY <1>5, OnwardTimer DEF Onward, TimerStep, TimerFire, TimerPut, TimerStop
<1>6. ASSUME NEW s \in Incs, SeqStep(s) PROVE Onward /\ UNCHANGED incs
    BY <1>6, OnwardSeq DEF Onward, SeqStep, SeqControl, SeqGet, SeqPut
<1>7. ASSUME Stop \/ UNCHANGED vars PROVE Onward /\ UNCHANGED incs
    BY <1>2, <1>7 DEF Stop, vars
<1> QED
    BY <1>3, <1>4, <1>5, <1>6, <1>7 DEF Next

LEMMA TrackStep ==
    ASSUME TInv, [Next]_vars
    PROVE  CleanTrack' /\ \A n \in Names : \A c \in DOMAIN incs : Clean(n, c) => Forward(n)
<1>1. CASE \E t \in Threads, k \in Keys, owned \in BOOLEAN, pc \in {"lookup", "pendingGet"} :
              CreatePod(t, k, owned, pc)
    BY <1>1, TrackCreate
<1>2. CASE ~ \E t \in Threads, k \in Keys, owned \in BOOLEAN,
                pc \in {"lookup", "pendingGet"} : CreatePod(t, k, owned, pc)
  <2>1. Onward /\ UNCHANGED incs
    BY <1>2, OnwardStep
  <2>2. \A n, c : Clean(n, c)' <=> Clean(n, c)
    BY <2>1, PostsSame DEF Clean, Latest
  <2> QED
    BY <2>1, <2>2 DEF Onward, CleanTrack
<1> QED
    BY <1>1, <1>2

LEMMA TInvAlways == Spec => []TInv
<1>1. Init => CleanTrack
    BY DEF Init, CleanTrack
<1>2. TInv /\ [Next]_vars => CleanTrack'
    BY TrackStep
<1> QED
    BY <1>1, <1>2, CInvAlways, PTL DEF Spec, TInv

(* Such a pod's life only moves forward, through Pending and Running or    *)
(* the states of its template in order, and keeps its creationTimestamp.   *)
THEOREM CleanAdvances == Spec => CleanPodAdvances
<1> DEFINE A == \A n \in Names :
                  Stored(n) /\ incs[Current(n)].clean /\ Stored(n)' =>
                     /\ pods'[n].step >= pods[n].step
                     /\ pods[n].kind # "none" => pods'[n].kind = pods[n].kind
                     /\ pods[n].ct # 0 => pods'[n].ct = pods[n].ct
<1>1. TInv /\ [Next]_vars => A
  <2> SUFFICES ASSUME TInv, [Next]_vars, NEW n \in Names, Stored(n), Stored(n)',
                      incs[Current(n)].clean
               PROVE  Forward(n)
      BY DEF Forward
  <2>0. CInv /\ HInv /\ LInv
    BY DEF TInv, CInv, HInv
  <2>1. PICK c \in DOMAIN incs : Latest(n, c)
    BY <2>0 DEF CInv, HInv, FromPosts, From, Stored, HasLatest
  <2>2. Current(n) = c
    BY <2>0, <2>1, CurrentIsLatest
  <2>3. Clean(n, c)
    BY <2>1, <2>2 DEF Clean
  <2> QED
    BY <2>3, TrackStep
<1>2. Spec => [][A]_vars
  <2> HIDE DEF A
  <2> QED
    BY <1>1, TInvAlways, PTL DEF Spec
<1> QED
    BY <1>2 DEF CleanPodAdvances

-----------------------------------------------------------------------------
(* The stored pod of a clean name has the very status its POST came to,    *)
(* written on its own behalf, and somebody has taken the POST over: its    *)
(* handler, then the startup goroutine or a sequence. Only a startup       *)
(* goroutine that was stopped ends without its status.                     *)
Taken(c) == \/ timer[c].pc # "none"
            \/ seq[c].pc # "none"
            \/ \E t \in Threads : Posting(t) /\ h[t].inc = c
Kept(n, c) ==
    Stored(n) =>
      /\ pods[n].step = Progress(c).step \/ (stopped /\ timer[c].pc = "done")
      /\ pods[n].kind # "none" => pods[n].by = c
      /\ Taken(c)
CleanKept == \A n \in Names : \A c \in DOMAIN incs : Clean(n, c) => Kept(n, c)
SInv == TInv /\ CleanKept

LEMMA SInvParts ==
    ASSUME SInv
    PROVE  /\ CInv /\ HInv /\ LInv
           /\ seq \in [Incs -> TMP!SeqStates] /\ timer \in [Incs -> Timers]
           /\ h \in [Threads -> Handlers] /\ DOMAIN incs \subseteq Incs
    BY SeqTypes, IncTypes DEF SInv, TInv, CInv, HInv, LInv, OwnTypes

(* Who has taken a POST over does not put it down while there is a pod.    *)
LEMMA TakenKept ==
    ASSUME SInv, NEW n \in Names, NEW c \in DOMAIN incs, Clean(n, c), Stored(n),
           timer[c].pc # "none" => timer'[c].pc # "none",
           seq[c].pc # "none" => seq'[c].pc # "none",
           \A t \in Threads : Posting(t) /\ h[t].inc = c =>
              Taken(c)'
    PROVE  Taken(c)'
    BY DEF SInv, CleanKept, Kept, Taken

(* Nothing happens to the pod.                                             *)
LEMMA QuietKept ==
    ASSUME SInv, NEW n \in Names, NEW c \in DOMAIN incs, Clean(n, c),
           pods'[n] \in {pods[n], NoPod}, Stored(n)' => Progress(c)'.step = Progress(c).step,
           stopped => stopped', timer[c].pc = "done" => timer'[c].pc = "done",
           Stored(n) /\ Stored(n)' => Taken(c)'
    PROVE  Kept(n, c)'
<1>1. Stored(n)' => Stored(n) /\ pods'[n] = pods[n]
    BY DEF Stored
<1>2. Kept(n, c)
    BY DEF SInv, CleanKept
<1> QED
    BY <1>1, <1>2 DEF Kept

(* Its own goroutine writes the status it came to.                         *)
LEMMA WrittenKept ==
    ASSUME SInv, NEW n \in Names, NEW c \in DOMAIN incs, Clean(n, c),
           NEW p \in PodRecords, UpdatePod(n, p), p.by = c,
           Stored(n) => Progress(c)'.step = p.step /\ Taken(c)'
    PROVE  Kept(n, c)'
<1>1. pods'[n] = IF Stored(n) THEN p ELSE pods[n]
    BY UpdateKeeps, SInvParts
<1>2. Stored(n)' => Stored(n)
    BY <1>1 DEF Stored
<1> QED
    BY <1>1, <1>2 DEF Kept

(* Another POST's goroutine at work.                                       *)
LEMMA OtherKept ==
    ASSUME SInv, NEW n \in Names, NEW c \in DOMAIN incs, Clean(n, c),
           NEW i \in DOMAIN incs, i # c, Unfinished(i),
           NEW p \in PodRecords, UpdatePod(NameOf(i), p) \/ UNCHANGED pods,
           timer'[c] = timer[c], seq'[c] = seq[c], UNCHANGED stopped,
           \A t \in Threads : Posting(t) /\ h[t].inc = c => h'[t] = h[t]
    PROVE  Kept(n, c)'
<1>1. NameOf(i) \in Names /\ NameOf(i) # n
    BY IncTypes, WriterIsOwn, SInvParts
<1>2. pods'[n] = pods[n]
    BY <1>1, UpdateKeeps, SInvParts
<1>3. Progress(c)' = Progress(c)
    BY DEF Progress
<1>4. Stored(n) => Taken(c)'
  <2>1. \A t \in Threads : Posting(t) /\ h[t].inc = c => Taken(c)'
    BY DEF Taken, Posting
  <2> QED
    BY <2>1, TakenKept
<1> QED
    BY <1>2, <1>3, <1>4, QuietKept

(* A handler, other than the one that writes Pending.                      *)
LEMMA KeptHandler ==
    ASSUME SInv, NEW t \in Threads, HandlerStep(t), ~PostPendingPut(t),
           NEW n \in Names, NEW c \in DOMAIN incs, Clean(n, c)
    PROVE  Kept(n, c)'
<1>0. CInv /\ HInv /\ LInv /\ seq \in [Incs -> TMP!SeqStates] /\ DOMAIN incs \subseteq Incs
      /\ h \in [Threads -> Handlers]
    BY SInvParts
<1>1. UNCHANGED <<timer, stopped, incs>> /\ c \in Incs /\ NameOf(c) = n
    BY <1>0, CleanName
    DEF HandlerStep, PostLookup, PostCancel, PostVerify, PostInsert, PostPendingGet,
        DeleteCancel, DeleteTemplate, DeleteStore, SimCancel
<1>2. pods'[n] \in {pods[n], NoPod}
    BY <1>0 DEF HandlerStep, PostLookup, PostCancel, PostVerify, PostInsert, PostPendingGet,
        DeleteCancel, DeleteTemplate, DeleteStore, RemovePod, SimCancel, LInv, OwnTypes
<1>3. /\ seq'[c].next = seq[c].next
      /\ seq[c].pc # "none" => seq'[c].pc # "none"
  <2>1. CASE PostInsert(t)
    <3>1. h[t].inc \in Incs /\ seq[h[t].inc].next = 1
      BY <1>0, <2>1, HandlerTypes DEF PostInsert, Posting, CreatePcs, LInv, Roles
    <3> QED
      BY <1>0, <1>1, <2>1, <3>1 DEF PostInsert, TM!InsertActive
  <2>2. CASE \E k : TM!CancelTransition(k)
    BY <1>0, <1>1, <2>2 DEF TM!CancelTransition, TMP!SeqStates
  <2>3. CASE UNCHANGED seq
    BY <2>3
  <2> QED
    BY <2>1, <2>2, <2>3
    DEF HandlerStep, PostLookup, PostCancel, PostVerify, PostPendingGet, TM!StartCancel,
        DeleteCancel, DeleteTemplate, DeleteStore, SimCancel
<1>4. Progress(c)' = Progress(c)
    BY <1>1, <1>3 DEF Progress
<1>5. ASSUME Stored(n), NEW u \in Threads, Posting(u), h[u].inc = c PROVE Taken(c)'
  <2>1. \A v \in Threads : v # t => h'[v] = h[v]
    BY <1>0 DEF HandlerStep, PostLookup, PostCancel, PostVerify, PostInsert,
        PostPendingGet, DeleteCancel, DeleteTemplate, DeleteStore, SimCancel
  <2>2. CASE u # t
    BY <1>5, <2>1, <2>2 DEF Taken, Posting
  <2>3. CASE u = t /\ PostInsert(t)
    <3>1. seq'[c].pc = "check"
      BY <1>0, <1>1, <1>5, <2>3 DEF PostInsert, TM!InsertActive
    <3> QED
      BY <3>1 DEF Taken
  <2>4. ASSUME NEW x, h' = [h EXCEPT ![t] = x], x.pc \in CreatePcs, x.inc = h[t].inc, u = t
        PROVE  Taken(c)'
    <3>1. h'[t] = x
      BY <1>0, <2>4
    <3> QED
      BY <1>5, <2>4, <3>1 DEF Taken, Posting
  <2>5. h[t] \in [pc : CreatePcs, inc : Incs, len : 0..MaxStates,
                  read : PodRecords \cup {NoPod}] \/ u # t
    BY <1>0, <1>5, HandlerTypes
  <2>6. CASE u = t /\ PostLookup(t)
    <3> DEFINE len == GetTemplate(KeyOf(h[t].inc))
               x == [h[t] EXCEPT !.pc = AfterLookup(len), !.len = len]
    <3>1. h' = [h EXCEPT ![t] = x]
      BY <2>6 DEF PostLookup
    <3>2. AfterLookup(len) \in CreatePcs
      BY DEF AfterLookup, CreatePcs
    <3> HIDE DEF len
    <3>3. x.pc \in CreatePcs /\ x.inc = h[t].inc
      BY <2>5, <2>6, <3>2
    <3> HIDE DEF x
    <3> QED
      BY <2>4, <2>6, <3>1, <3>3
  <2>7. CASE u = t /\ (PostCancel(t) \/ PostVerify(t))
    <3> DEFINE x(pc) == [h[t] EXCEPT !.pc = pc]
    <3>1. h' = [h EXCEPT ![t] = x("verify")] \/ h' = [h EXCEPT ![t] = x("insert")]
      BY <1>1, <1>5, <2>7 DEF PostCancel, PostVerify
    <3>2. \A pc : x(pc).pc = pc /\ x(pc).inc = h[t].inc
      BY <2>5, <2>7
    <3>3. "verify" \in CreatePcs /\ "insert" \in CreatePcs
      BY DEF CreatePcs
    <3> HIDE DEF x
    <3> QED
      BY <2>4, <2>7, <3>1, <3>2, <3>3
  <2>8. CASE u = t /\ PostPendingGet(t)
    <3> DEFINE x == [h[t] EXCEPT !.pc = "pendingPut", !.read = pods[NameOf(h[t].inc)]]
    <3>1. h' = [h EXCEPT ![t] = x]
      BY <2>8 DEF PostPendingGet
    <3>2. x.pc \in CreatePcs /\ x.inc = h[t].inc
      BY <2>5, <2>8 DEF CreatePcs
    <3> HIDE DEF x
    <3> QED
      BY <2>4, <2>8, <3>1, <3>2
  <2>9. CASE u = t /\ (DeleteCancel(t) \/ DeleteTemplate(t) \/ DeleteStore(t) \/ SimCancel(t))
    BY <1>5, <2>9 DEF Posting, CreatePcs, DeleteCancel, DeleteTemplate, DeleteStore, SimCancel
  <2> QED
    BY <2>2, <2>3, <2>6, <2>7, <2>8, <2>9 DEF HandlerStep
<1>6. Stored(n) => Taken(c)'
  <2>1. timer[c].pc # "none" => timer'[c].pc # "none"
    BY <1>1
  <2> QED
    BY <1>3, <1>5, <2>1, TakenKept
<1> QED
    BY <1>1, <1>2, <1>4, <1>6, QuietKept

LEMMA KeptPending ==
    ASSUME SInv, NEW t \in Threads, PostPendingPut(t),
           NEW n \in Names, NEW c \in DOMAIN incs, Clean(n, c)
    PROVE  Kept(n, c)'
<1>0. HInv /\ LInv /\ timer \in [Incs -> Timers] /\ h \in [Threads -> Handlers]
    BY SInvParts
<1> PICK i \in DOMAIN incs : i = h[t].inc
    BY <1>0, PendingFrom DEF PostPendingPut
<1> DEFINE p == PendingPod(i, h[t].read)
<1>1. /\ UNCHANGED <<seq, incs, stopped>> /\ UpdatePod(NameOf(i), p)
      /\ timer' = IF Stored(NameOf(i)) THEN Startup(i) ELSE timer
    BY DEF PostPendingPut
<1>2. /\ timer[i].pc = "none" /\ seq[i].next = 1 /\ i \in Incs
      /\ p \in PodRecords /\ p.by = i /\ p.step = 1
    BY <1>0, PendingFrom, PendingRecord DEF PostPendingPut, LInv, Roles
<1>3. Unfinished(i) /\ c \in Incs /\ NameOf(c) = n
    BY <1>0, IncTypes, CleanName DEF Unfinished, PostPendingPut, CreatePcs
<1> HIDE DEF p
<1>4. CASE i # c
  <2>1. timer'[c] = timer[c]
    BY <1>0, <1>1, <1>2, <1>3, <1>4 DEF Startup
  <2>2. \A u \in Threads : Posting(u) /\ h[u].inc = c => h'[u] = h[u]
    BY <1>0, <1>4 DEF PostPendingPut
  <2> QED
    BY <1>1, <1>2, <1>3, <1>4, <2>1, <2>2, OtherKept
<1>5. CASE i = c
  <2>1. ASSUME Stored(n) PROVE Progress(c)'.step = p.step /\ Taken(c)'
    <3>1. timer'[i].pc = "wait"
      BY <1>0, <1>1, <1>2, <1>3, <1>5, <2>1 DEF Startup, Timers
    <3>2. Progress(i)' = [kind |-> "default", step |-> 1]
      BY <1>1, <1>2, <3>1 DEF Progress
    <3> QED
      BY <1>2, <1>5, <3>1, <3>2 DEF Taken
  <2> QED
    BY <1>1, <1>2, <1>3, <1>5, <2>1, WrittenKept
<1> QED
    BY <1>4, <1>5

LEMMA KeptTimer ==
    ASSUME SInv, NEW i \in Incs, TimerStep(i) \/ TimerStop(i),
           NEW n \in Names, NEW c \in DOMAIN incs, Clean(n, c)
    PROVE  Kept(n, c)'
<1>0. HInv /\ LInv /\ timer \in [Incs -> Timers]
    BY SInvParts
<1> DEFINE p == RunningPod(i, timer[i].read)
<1>1. /\ i \in DOMAIN incs /\ timer[i].pc \in {"wait", "put"} /\ NameOf(i) \in Names
      /\ UNCHANGED <<seq, h, incs, stopped>> /\ Unfinished(i) /\ p \in PodRecords
    BY <1>0, RunningFrom DEF TimerStep, TimerFire, TimerPut, TimerStop, Unfinished
<1>2. seq[i].next = 1 /\ p.by = i /\ p.step = 2
    BY <1>0, <1>1, RunningRecord DEF LInv, Roles
<1>3. c \in Incs /\ NameOf(c) = n
    BY <1>0, IncTypes, CleanName
<1> HIDE DEF p
<1>4. CASE i # c
  <2>1. timer'[c] = timer[c] /\ (UpdatePod(NameOf(i), p) \/ UNCHANGED pods)
    BY <1>0, <1>3, <1>4 DEF TimerStep, TimerFire, TimerPut, TimerStop, p
  <2> QED
    BY <1>1, <1>4, <2>1, OtherKept
<1>5. CASE i = c /\ TimerFire(i)
  <2>1. timer'[c].pc = "put" /\ UNCHANGED pods /\ timer[c].pc = "wait"
    BY <1>0, <1>3, <1>5 DEF TimerFire
  <2>2. Progress(c)' = Progress(c)
    BY <1>1, <1>2, <1>5, <2>1 DEF Progress
  <2> QED
    BY <1>1, <2>1, <2>2, QuietKept DEF Taken
<1>6. CASE i = c /\ TimerPut(i)
  <2>1. timer'[c].pc = "done" /\ UpdatePod(n, p)
    BY <1>0, <1>3, <1>6 DEF TimerPut, p
  <2>2. Progress(c)' = [kind |-> "default", step |-> 2]
    BY <1>1, <1>2, <1>6, <2>1 DEF Progress
  <2> QED
    BY <1>1, <1>2, <1>6, <2>1, <2>2, WrittenKept DEF Taken
<1>7. CASE i = c /\ TimerStop(i)
  <2>1. timer'[c].pc = "done" /\ UNCHANGED pods /\ stopped
    BY <1>0, <1>3, <1>7 DEF TimerStop, Timers
  <2>2. Kept(n, c)
    BY DEF SInv, CleanKept
  <2> QED
    BY <1>1, <2>1, <2>2 DEF Kept, Taken, Stored
<1> QED
    BY <1>4, <1>5, <1>6, <1>7 DEF TimerStep

LEMMA KeptSeq ==
    ASSUME SInv, NEW s \in Incs, SeqStep(s),
           NEW n \in Names, NEW c \in DOMAIN incs, Clean(n, c)
    PROVE  Kept(n, c)'
<1>0. HInv /\ LInv /\ seq \in [Incs -> TMP!SeqStates]
    BY SInvParts
<1>1. UNCHANGED <<timer, h, incs, stopped>> /\ TM!SeqStep(s)
    BY DEF SeqStep, SeqControl, SeqGet, SeqPut, TM!SeqStep
<1>2. TM!Live(s) /\ \A j \in Incs : j # s => seq'[j] = seq[j]
    BY <1>0, <1>1, UnfinishedSeq
<1>3. /\ s \in DOMAIN incs /\ Unfinished(s) /\ NameOf(s) \in Names
      /\ timer[s].pc = "none" /\ seq[s].key = KeyOf(s) /\ seq[s].pc # "none"
    BY <1>0, <1>2, IncTypes DEF LInv, Roles, TM!Live, Unfinished
<1>4. c \in Incs /\ NameOf(c) = n
    BY <1>0, IncTypes, CleanName
<1>5. seq'[s].pc # "none"
    BY <1>0, <1>1, <1>3, StepKeepsSeqs DEF SeqsKept
<1>6. CASE s # c
  <2>1. PICK p \in PodRecords : UpdatePod(NameOf(s), p) \/ UNCHANGED pods
    <3>1. CASE SeqPut(s)
      BY <1>0, <3>1, AppliedRecord DEF SeqPut
    <3>2. CASE SeqControl(s) \/ SeqGet(s)
      <4>1. [NoPod EXCEPT !.inc = s] \in PodRecords
        <5>1. 0 \in 0..MaxCreates /\ 0 \in 0..(MaxStates + 2)
          BY MaxCreatesAssumption, MaxStatesAssumption
        <5> QED
          BY <5>1 DEF NoPod, PodRecords
      <4> QED
        BY <3>2, <4>1 DEF SeqControl, SeqGet
    <3> QED
      BY <3>1, <3>2 DEF SeqStep
  <2> QED
    BY <1>1, <1>2, <1>3, <1>4, <1>6, <2>1, OtherKept
<1>7. CASE s = c /\ SeqControl(s)
  <2>1. PICK pc \in {"wait", "get", "cleanup", "done"} : seq' = [seq EXCEPT ![s].pc = pc]
    BY <1>7 DEF SeqControl, TM!SeqCheck, TM!SeqWait, TM!SeqCleanup
  <2>2. seq'[s].next = seq[s].next
    BY <1>0, <2>1 DEF TMP!SeqStates
  <2>3. Progress(c)' = Progress(c) /\ UNCHANGED pods
    BY <1>1, <1>7, <2>2 DEF Progress, SeqControl
  <2> QED
    BY <1>1, <1>5, <1>7, <2>3, QuietKept DEF Taken
<1>8. CASE s = c /\ SeqGet(s)
  <2>1. UNCHANGED pods /\ seq[s].pc = "get"
    BY <1>8 DEF SeqGet
  <2>2. ASSUME Stored(n)' PROVE Progress(c)'.step = Progress(c).step
    <3>1. Stored(n)
      BY <2>1, <2>2 DEF Stored
    <3>2. seq' = [seq EXCEPT ![s] = [seq[s] EXCEPT !.pc = "put"]]
      BY <1>3, <1>4, <1>8, <3>1 DEF SeqGet, TM!SeqGet, TM!NameOf, NameOf
    <3>3. seq'[s].next = seq[s].next
      BY <1>0, <3>2 DEF TMP!SeqStates
    <3> QED
      BY <1>1, <1>8, <3>3 DEF Progress
  <2> QED
    BY <1>1, <1>5, <1>8, <2>1, <2>2, QuietKept DEF Taken
<1>9. CASE s = c /\ SeqPut(s)
  <2> DEFINE p == AppliedPod(s, seqRead[s])
  <2>1. PICK late : seq' = [seq EXCEPT ![s] = [TM!NextState(seq[s]) EXCEPT !.late = late]]
    BY <1>9 DEF SeqPut, TM!SeqPut
  <2>2. seq'[s].next = seq[s].next + 1
    BY <1>0, <2>1 DEF TM!NextState, TMP!SeqStates
  <2>3. seq[s].pc = "put" /\ UpdatePod(n, p)
    BY <1>4, <1>9 DEF SeqPut
  <2>4. p \in PodRecords /\ p.by = s /\ p.step = seq[s].next
    BY <1>0, <2>3, AppliedRecord
  <2> HIDE DEF p
  <2>5. seq[s].next \in Nat \ {0}
    BY <1>0 DEF TMP!SeqStates
  <2>6. Progress(s)'.step = p.step
    BY <2>2, <2>4, <2>5 DEF Progress
  <2> QED
    BY <1>5, <1>9, <2>3, <2>4, <2>6, WrittenKept DEF Taken
<1> QED
    BY <1>6, <1>7, <1>8, <1>9 DEF SeqStep

(* A POST of another name, or the one that makes the pod.                  *)
LEMMA KeptCreate ==
    ASSUME SInv, NEW t \in Threads, NEW k \in Keys, NEW owned \in BOOLEAN,
           NEW pc \in {"lookup", "pendingGet"}, CreatePod(t, k, owned, pc)
    PROVE  CleanKept'
<1>0. CInv /\ HInv /\ LInv /\ h \in [Threads -> Handlers] /\ DOMAIN incs \subseteq Incs
    BY SInvParts
<1>kept. \A j \in DOMAIN incs : incs'[j] = incs[j]
  <2>1. LInv => \A j \in DOMAIN incs : incs'[j] = incs[j]
    BY CreateView
  <2> QED
    BY <1>0, <2>1
<1> PICK i \in Incs :
        /\ i = Len(incs) + 1 /\ DOMAIN incs' = DOMAIN incs \cup {i} /\ i \notin DOMAIN incs
        /\ Posts(k[2])' = Posts(k[2]) \cup {i}
        /\ \A n \in Names : n # k[2] => Posts(n)' = Posts(n)
        /\ \A j \in DOMAIN incs : NameOf(j)' = NameOf(j)
        /\ NameOf(i)' = k[2]
    BY <1>0, PostsGrow
<1> PICK m \in Names : m = k[2]
    BY DEF Keys
<1> DEFINE p == [NoPod EXCEPT !.inc = i, !.ct = Stamp(i, owned), !.owned = owned]
           x == [pc |-> pc, inc |-> i, len |-> 0, read |-> NoPod]
<1>1. /\ pods' = [pods EXCEPT ![m] = p] /\ h' = [h EXCEPT ![t] = x] /\ h[t] = Idle
      /\ UNCHANGED <<seq, timer, stopped>>
    BY DEF CreatePod
<1>2. p.kind = "none" /\ p.step = 0 /\ x.inc = i /\ x.pc \in CreatePcs
    BY DEF NoPod, CreatePcs
<1> HIDE DEF p, x
<1>3. /\ pods'[m] = p /\ \A n \in Names : n # m => pods'[n] = pods[n]
      /\ h'[t] = x /\ \A u \in Threads : u # t => h'[u] = h[u]
    BY <1>0, <1>1 DEF LInv, OwnTypes
<1>4. \A j \in Incs : Progress(j)' = Progress(j)
    BY <1>1 DEF Progress
<1>5. ASSUME NEW n \in Names, NEW c \in DOMAIN incs', Clean(n, c)' PROVE Kept(n, c)'
  <2>1. CASE n = m
    <3>1. c = i
      <4>1. i \in Posts(n)' /\ c \in Posts(n)'
        BY <1>5, <2>1 DEF Clean, Latest
      <4>2. i <= c
        BY <1>5, <4>1 DEF Clean, Latest
      <4>3. \A j \in DOMAIN incs : j \in Nat /\ j < i
        BY <1>0, IncTypes
      <4> QED
        BY <4>2, <4>3, MaxCreatesAssumption DEF Incs
    <3>2. timer[i].pc = "none" /\ seq[i].pc = "none" /\ seq[i].next = 1
      BY <1>0 DEF LInv, Roles
    <3>3. Progress(i).step = 0
      BY <3>2 DEF Progress
    <3>4. Taken(i)'
      BY <1>2, <1>3 DEF Taken, Posting
    <3> QED
      BY <1>2, <1>3, <1>4, <2>1, <3>1, <3>3, <3>4 DEF Kept
  <2>2. CASE n # m
    <3>1. c \in DOMAIN incs /\ Clean(n, c) /\ c \in Incs
      BY <1>0, <1>kept, <1>5, <2>2, IncTypes DEF Clean, Latest, Posts
    <3>2. Kept(n, c) /\ pods'[n] = pods[n]
      BY <1>3, <2>2, <3>1 DEF SInv, CleanKept
    <3>3. Taken(c) => Taken(c)'
      <4>1. \A u \in Threads : Posting(u) => h'[u] = h[u]
        BY <1>1, <1>3 DEF Posting, Idle, CreatePcs
      <4> QED
        BY <1>1, <4>1 DEF Taken, Posting
    <3> QED
      BY <1>1, <1>4, <3>1, <3>2, <3>3 DEF Kept, Stored
  <2> QED
    BY <2>1, <2>2
<1> QED
    BY <1>5 DEF CleanKept

LEMMA KeptStep == SInv /\ [Next]_vars => CleanKept'
<1> SUFFICES ASSUME SInv, [Next]_vars PROVE CleanKept'
    OBVIOUS
<1>0. TInv /\ LInv
    BY SInvParts DEF SInv
<1>1. CASE \E t \in Threads, k \in Keys, owned \in BOOLEAN, pc \in {"lookup", "pendingGet"} :
              CreatePod(t, k, owned, pc)
    BY <1>1, KeptCreate
<1>2. ASSUME ~ \E t \in Threads, k \in Keys, owned \in BOOLEAN, pc \in {"lookup", "pendingGet"} :
                  CreatePod(t, k, owned, pc),
             NEW n \in Names, NEW c \in DOMAIN incs, Clean(n, c)
      PROVE  Kept(n, c)'
  <2>1. ASSUME UNCHANGED <<pods, timer, seq>>, stopped => stopped',
               \A u \in Threads : Posting(u) => h'[u] = h[u]
        PROVE  Kept(n, c)'
    <3>1. Progress(c)' = Progress(c)
      BY <2>1 DEF Progress
    <3>2. Stored(n) => Taken(c)'
      <4>1. \A u \in Threads : Posting(u) /\ h[u].inc = c => Taken(c)'
        BY <2>1 DEF Taken, Posting
      <4> QED
        BY <1>2, <2>1, <4>1, TakenKept
    <3> QED
      BY <1>2, <2>1, <3>1, <3>2, QuietKept
  <2>2. ASSUME NEW t \in Threads, Request(t) PROVE Kept(n, c)'
    <3>1. h[t] = Idle /\ UNCHANGED <<pods, timer, seq, stopped>>
      BY <1>2, <2>2 DEF Request, PostPod, CreatePodForReplicaSet, DeletePod,
          DeletePodOfReplicaSet, DeleteBegins, CancelPodTransition, SimulatePod
    <3>2. \A u \in Threads : u # t => h'[u] = h[u]
      BY <1>2, <2>2, SInvParts DEF Request, PostPod, CreatePodForReplicaSet, DeletePod,
          DeletePodOfReplicaSet, DeleteBegins, CancelPodTransition, SimulatePod
    <3>3. ~Posting(t)
      BY <3>1 DEF Posting, Idle, CreatePcs
    <3> QED
      BY <2>1, <3>1, <3>2, <3>3
  <2>3. ASSUME NEW t \in Threads, HandlerStep(t) PROVE Kept(n, c)'
    BY <1>2, <2>3, KeptHandler, KeptPending
  <2>4. ASSUME NEW i \in Incs, TimerStep(i) \/ TimerStop(i) \/ SeqStep(i) PROVE Kept(n, c)'
    BY <1>2, <2>4, KeptTimer, KeptSeq
  <2>5. CASE Stop \/ UNCHANGED vars
    BY <2>1, <2>5 DEF Stop, vars
  <2> QED
    BY <2>2, <2>3, <2>4, <2>5 DEF Next
<1>3. CASE ~ \E t \in Threads, k \in Keys, owned \in BOOLEAN, pc \in {"lookup", "pendingGet"} :
                CreatePod(t, k, owned, pc)
  <2>1. UNCHANGED incs
    BY <1>0, <1>3, OnwardStep
  <2>2. \A n, c : Clean(n, c)' <=> Clean(n, c)
    BY <2>1, PostsSame DEF Clean, Latest
  <2> QED
    BY <1>2, <1>3, <2>1, <2>2 DEF CleanKept
<1> QED
    BY <1>1, <1>3

LEMMA SInvAlways == Spec => []SInv
<1>1. Init => CleanKept
    BY DEF Init, CleanKept
<1>2. SInv /\ [Next]_vars => CleanKept'
    BY KeptStep
<1> QED
    BY <1>1, <1>2, TInvAlways, PTL DEF Spec, SInv

(* A clean pod that nobody works for any more is Running, or in the last   *)
(* state of its template; else a client cancelled its sequence, or the     *)
(* controller was stopped. What makes it so: the status of the pod is the  *)
(* one its own goroutine came to, and that goroutine only ends with its    *)
(* list exhausted, or cancelled, or stopped.                               *)
THEOREM NoPodStuck == Spec => []NoneLeftBehind
<1>1. SInv => NoneLeftBehind
  <2> SUFFICES ASSUME SInv, NEW n \in Names, Stored(n), incs[Current(n)].clean,
                      ~Unfinished(Current(n))
               PROVE  \/ Finished(Current(n))
                      \/ seq[Current(n)].cancelled
                      \/ stopped /\ pods[n].kind = "default"
      BY DEF NoneLeftBehind
  <2>0. CInv /\ HInv /\ LInv /\ seq \in [Incs -> TMP!SeqStates] /\ timer \in [Incs -> Timers]
        /\ DOMAIN incs \subseteq Incs
    BY SInvParts
  <2>1. PICK c \in DOMAIN incs : Latest(n, c)
    BY <2>0 DEF CInv, HInv, FromPosts, From, Stored, HasLatest
  <2>2. Current(n) = c
    BY <2>0, <2>1, CurrentIsLatest
  <2>3. Clean(n, c)
    BY <2>1, <2>2 DEF Clean
  <2>4. NameOf(c) = n /\ c \in Incs /\ Track(n, c) /\ Kept(n, c)
    BY <2>0, <2>3, CleanName DEF SInv, TInv, CleanTrack, CleanKept
  <2>5. timer[c].pc \in {"none", "done"} /\ seq[c].pc \in {"none", "done"}
        /\ \A t \in Threads : ~(Posting(t) /\ h[t].inc = c)
    BY <2>0, <2>2, <2>4 DEF Unfinished, Posting, TM!Live, Timers
  <2>6. CASE timer[c].pc = "done"
    <3>1. seq[c].next = 1
      BY <2>0, <2>4, <2>6 DEF LInv, Roles
    <3>2. Progress(c) = [kind |-> "default", step |-> 2]
      BY <2>6, <3>1 DEF Progress
    <3>3. pods[n].kind = "default" /\ (pods[n].step = 2 \/ stopped) /\ pods[n].by = c
      BY <2>4, <3>2 DEF Track, Kept
    <3> QED
      BY <2>2, <2>4, <3>3 DEF Finished
  <2>7. CASE seq[c].pc = "done" /\ ~seq[c].cancelled
    <3>1. timer[c].pc = "none"
      BY <2>0, <2>4, <2>7 DEF LInv, Roles
    <3>2. seq[c].next > seq[c].len /\ seq[c].next <= seq[c].len + 1
      BY <2>0, <2>4, <2>7 DEF LInv, TMP!IndInv, TMP!Ends
    <3>3. seq[c].len \in Nat \ {0} /\ seq[c].next \in Nat
      BY <2>0, <2>4 DEF TMP!SeqStates
    <3>4. seq[c].next > 1 /\ seq[c].next - 1 = seq[c].len
      BY <3>2, <3>3
    <3>5. Progress(c) = [kind |-> "template", step |-> seq[c].len]
      BY <3>4 DEF Progress
    <3>6. pods[n].kind = "template" /\ pods[n].step = seq[c].len /\ pods[n].by = c
      BY <2>4, <3>1, <3>5 DEF Track, Kept
    <3> QED
      BY <2>2, <2>4, <3>6 DEF Finished
  <2> QED
    BY <2>2, <2>4, <2>5, <2>6, <2>7 DEF Kept, Taken
<1> QED
    BY <1>1, SInvAlways, PTL

=============================================================================
