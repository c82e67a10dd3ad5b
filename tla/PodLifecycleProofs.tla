-------------------------- MODULE PodLifecycleProofs --------------------------
(* Types of PodLifecycle, and that it implements TransitionManager, proved *)
(* for any number of pods, requests and states. The types of the sequences *)
(* are cited from TransitionManager's own proofs: what is shown here is    *)
(* that every step of the server is a step of the manager.                 *)
EXTENDS PodLifecycle, SequenceTheorems, TLAPS

(* The same view of this state as TM, on the module with the proofs.       *)
TMP == INSTANCE TransitionManagerProofs WITH
        Seqs <- Incs, NoSeq <- 0, CancelFlags <- {TRUE},
        stored <- {n \in Names : Stored(n)},
        caller <- [t \in Threads |->
                     IF h[t].pc \in {"cancel", "verify", "insert"}
                     THEN [pc |-> h[t].pc, key |-> KeyOf(h[t].inc), len |-> h[t].len]
                     ELSE Idle]

IncRecords == [key : Keys, owned : BOOLEAN, clean : BOOLEAN]

OwnTypes ==
    /\ pods \in [Names -> PodRecords \cup {NoPod}]
    /\ seqRead \in [Incs -> PodRecords \cup {NoPod}]
    /\ timer \in [Incs -> Timers]
    /\ template \in [Keys -> 0..MaxStates]
    /\ h \in [Threads -> Handlers]
    /\ stopped \in BOOLEAN
    /\ incs \in Seq(IncRecords)
    /\ Len(incs) <= MaxCreates

(* Who works for a POST: its handler, then either the startup goroutine or *)
(* a sequence, for a POST that was numbered.                               *)
Posting(t) == h[t].pc \in CreatePcs
Roles ==
    /\ \A t \in Threads : Posting(t) =>
         /\ h[t].inc \in DOMAIN incs
         /\ seq[h[t].inc].pc = "none" /\ timer[h[t].inc].pc = "none"
         /\ \A u \in Threads : Posting(u) /\ h[u].inc = h[t].inc => u = t
    /\ \A t \in Threads : h[t].pc \in {"cancel", "verify", "insert"} => h[t].len > 0
    /\ \A i \in Incs : seq[i].pc # "none" =>
         i \in DOMAIN incs /\ seq[i].key = KeyOf(i) /\ timer[i].pc = "none"
    /\ \A i \in Incs : seq[i].pc = "none" => seq[i].next = 1
    /\ \A i \in Incs : timer[i].pc # "none" => i \in DOMAIN incs

(* A sequence only writes back a pod it has read.                          *)
ReadFirst == \A i \in Incs : seq[i].pc = "put" => seqRead[i] # NoPod

LInv == OwnTypes /\ TMP!IndInv /\ Roles /\ ReadFirst

-----------------------------------------------------------------------------
(* TM and TMP are one view.                                                *)
LEMMA SameTypes == TM!TypeOK <=> TMP!TypeOK
    BY DEF TM!TypeOK, TMP!TypeOK, TM!SeqStates, TMP!SeqStates, TM!SeqPcs, TMP!SeqPcs,
           TM!CallerStates, TMP!CallerStates, TM!Keys, TMP!Keys, TM!Idle, TMP!Idle

LEMMA SameInit == TM!Init <=> TMP!Init
    BY DEF TM!Init, TMP!Init, TM!Keys, TMP!Keys, TM!Idle, TMP!Idle

LEMMA SameNext == [TM!Next]_(TM!vars) <=> [TMP!Next]_(TMP!vars)
    BY DEF TM!Next, TMP!Next, TM!vars, TMP!vars, TM!Keys, TMP!Keys, TM!Idle, TMP!Idle,
           TM!CallerStep, TMP!CallerStep, TM!StartCall, TMP!StartCall,
           TM!StartCancel, TMP!StartCancel, TM!StartVerify, TMP!StartVerify,
           TM!StartInsert, TMP!StartInsert, TM!CancelCall, TMP!CancelCall,
           TM!CancelTransition, TMP!CancelTransition, TM!InsertActive, TMP!InsertActive,
           TM!NameOf, TMP!NameOf, TM!CleanedTable, TMP!CleanedTable,
           TM!SeqStep, TMP!SeqStep, TM!SeqCheck, TMP!SeqCheck, TM!SeqWait, TMP!SeqWait,
           TM!SeqGet, TMP!SeqGet, TM!SeqPut, TMP!SeqPut, TM!SeqCleanup, TMP!SeqCleanup,
           TM!LoopExit, TMP!LoopExit, TM!NextState, TMP!NextState,
           TM!OnMissingPod, TMP!OnMissingPod, TM!PodCreated, TMP!PodCreated,
           TM!PodDeleted, TMP!PodDeleted

(* What the manager's proofs assume of its constants holds here.           *)
LEMMA Premises == 0 \notin Incs /\ {TRUE} \subseteq BOOLEAN /\ MaxStates \in Nat \ {0}
    BY MaxCreatesAssumption, MaxStatesAssumption DEF Incs

LEMMA ManagerInit == TM!Init => TMP!IndInv
    BY SameInit, Premises, TMP!IndInit
    DEF TMP!NoSeqAssumption, TMP!MaxStatesAssumption, TMP!CancelFlagsAssumption

LEMMA ManagerStep == TMP!IndInv /\ [TM!Next]_(TM!vars) => TMP!IndInv'
<1> SUFFICES ASSUME TMP!IndInv, [TM!Next]_(TM!vars) PROVE TMP!IndInv'
    OBVIOUS
<1>1. /\ TMP!TypeOK /\ TMP!InRange /\ TMP!ActiveIsLive /\ TMP!LateIsLast
      /\ TMP!Ends /\ [TMP!Next]_(TMP!vars)
    BY SameNext DEF TMP!IndInv
<1>2. TMP!TypeOK'
    BY <1>1, Premises, TMP!TypeStep
    DEF TMP!NoSeqAssumption, TMP!MaxStatesAssumption, TMP!CancelFlagsAssumption
<1>3. TMP!InRange'
    BY <1>1, Premises, TMP!RangeStep
    DEF TMP!NoSeqAssumption, TMP!MaxStatesAssumption, TMP!CancelFlagsAssumption
<1>4. TMP!ActiveIsLive'
    BY <1>1, Premises, TMP!ActiveStep
    DEF TMP!NoSeqAssumption, TMP!MaxStatesAssumption, TMP!CancelFlagsAssumption
<1>5. TMP!LateIsLast'
    BY <1>1, Premises, TMP!LateStep
    DEF TMP!NoSeqAssumption, TMP!MaxStatesAssumption, TMP!CancelFlagsAssumption
<1>6. TMP!Ends'
    BY <1>1, Premises, TMP!EndsStep
    DEF TMP!NoSeqAssumption, TMP!MaxStatesAssumption, TMP!CancelFlagsAssumption
<1> QED
    BY <1>2, <1>3, <1>4, <1>5, <1>6 DEF TMP!IndInv

-----------------------------------------------------------------------------
(* What the types say of the parts.                                        *)

(* The sequences are numbered like the POSTs; a POST has a key.            *)
LEMMA IncTypes ==
    ASSUME LInv
    PROVE  /\ Len(incs) \in Nat /\ DOMAIN incs = 1..Len(incs) /\ DOMAIN incs \subseteq Incs
           /\ \A i \in DOMAIN incs : /\ incs[i] \in IncRecords
                                     /\ KeyOf(i) \in Keys /\ NameOf(i) \in Names
<1>1. Len(incs) \in Nat /\ DOMAIN incs = 1..Len(incs) /\ Len(incs) <= MaxCreates
    BY LenProperties DEF LInv, OwnTypes
<1>2. DOMAIN incs \subseteq Incs
    BY <1>1, MaxCreatesAssumption DEF Incs
<1>3. ASSUME NEW i \in DOMAIN incs
      PROVE  incs[i] \in IncRecords /\ KeyOf(i) \in Keys /\ NameOf(i) \in Names
  <2>1. incs[i] \in IncRecords
    BY <1>1, ElementOfSeq DEF LInv, OwnTypes
  <2> QED
    BY <2>1 DEF IncRecords, KeyOf, NameOf, Keys
<1> QED
    BY <1>1, <1>2, <1>3

LEMMA SeqTypes ==
    ASSUME LInv
    PROVE  /\ seq \in [Incs -> TMP!SeqStates]
           /\ \A i \in Incs : /\ seq[i].key \in Keys
                              /\ seq[i].len \in 1..MaxStates
                              /\ seq[i].next \in 1..(MaxStates + 1)
                              /\ seq[i].pc \in {"wait", "get", "put"} => seq[i].next <= seq[i].len
    BY DEF LInv, TMP!IndInv, TMP!TypeOK, TMP!InRange, TMP!SeqStates, TMP!Keys, Keys

(* A handler of a POST has its number, the length of the template it found *)
(* and the pod it read; the others have a key.                             *)
LEMMA HandlerTypes ==
    ASSUME LInv, NEW t \in Threads
    PROVE  /\ h[t] \in Handlers
           /\ Posting(t) =>
                /\ h[t] \in [pc : CreatePcs, inc : Incs, len : 0..MaxStates,
                             read : PodRecords \cup {NoPod}]
                /\ h[t].inc \in DOMAIN incs
                /\ NameOf(h[t].inc) \in Names /\ KeyOf(h[t].inc) \in Keys
           /\ h[t].pc \in {"delCancel", "delTemplate", "delStore", "simCancel"} =>
                h[t] \in [pc : {"delCancel", "delTemplate", "delStore", "simCancel"},
                          key : Keys]
           /\ h[t].pc = "idle" => h[t] = Idle
<1>1. h[t] \in Handlers
    BY DEF LInv, OwnTypes
<1>2. Posting(t) => h[t] \in [pc : CreatePcs, inc : Incs, len : 0..MaxStates,
                              read : PodRecords \cup {NoPod}]
    BY <1>1 DEF Handlers, Posting, CreatePcs
<1>3. h[t].pc \in {"delCancel", "delTemplate", "delStore", "simCancel"} =>
        h[t] \in [pc : {"delCancel", "delTemplate", "delStore", "simCancel"}, key : Keys]
    BY <1>1 DEF Handlers, CreatePcs
<1>4. h[t].pc = "idle" => h[t] = Idle
    BY <1>1 DEF Handlers, CreatePcs, Idle
<1>5. Posting(t) => h[t].inc \in DOMAIN incs
    BY DEF LInv, Roles
<1> QED
    BY <1>1, <1>2, <1>3, <1>4, <1>5, IncTypes

(* A handler moves on to a well-typed state.                               *)
LEMMA HandlerMoves ==
    ASSUME LInv, NEW t \in Threads, NEW x \in Handlers, h' = [h EXCEPT ![t] = x]
    PROVE  /\ h' \in [Threads -> Handlers] /\ h'[t] = x
           /\ \A u \in Threads : u # t => h'[u] = h[u]
    BY DEF LInv, OwnTypes

-----------------------------------------------------------------------------
(* Every step is a step of the manager, or none it sees.                   *)
View(t) == IF h[t].pc \in {"cancel", "verify", "insert"}
           THEN [pc |-> h[t].pc, key |-> KeyOf(h[t].inc), len |-> h[t].len]
           ELSE Idle
SameView == \A t \in Threads : View(t)' = View(t)
SameStored == \A n \in Names : Stored(n)' <=> Stored(n)

LEMMA Unseen ==
    ASSUME SameView, SameStored, UNCHANGED <<active, seq>>
    PROVE  UNCHANGED TM!vars
    BY DEF SameView, SameStored, View, TM!vars

(* A handler that is seen neither before nor after.                        *)
LEMMA OutOfView ==
    ASSUME LInv, NEW t \in Threads, NEW x \in Handlers, h' = [h EXCEPT ![t] = x],
           h[t].pc \notin {"cancel", "verify", "insert"},
           x.pc \notin {"cancel", "verify", "insert"},
           UNCHANGED incs
    PROVE  SameView
<1>1. h'[t] = x /\ \A u \in Threads : u # t => h'[u] = h[u]
    BY HandlerMoves
<1> QED
    BY <1>1 DEF SameView, View, KeyOf

LEMMA SameHandlers ==
    ASSUME UNCHANGED <<h, incs>>
    PROVE  SameView
    BY DEF SameView, View, KeyOf

(* An update keeps the set of names that are stored.                       *)
LEMMA UpdateKeeps ==
    ASSUME LInv, NEW n \in Names, NEW p \in PodRecords, UpdatePod(n, p)
    PROVE  /\ pods' \in [Names -> PodRecords \cup {NoPod}]
           /\ SameStored
           /\ \A m \in Names : pods'[m] = IF m = n /\ Stored(n) THEN p ELSE pods[m]
<1>1. p # NoPod
    BY MaxCreatesAssumption DEF PodRecords, NoPod, Incs
<1> QED
    BY <1>1 DEF UpdatePod, SameStored, Stored, LInv, OwnTypes

LEMMA CreateView ==
    ASSUME LInv, NEW t \in Threads, NEW k \in Keys, NEW owned \in BOOLEAN,
           NEW pc \in {"lookup", "pendingGet"}, CreatePod(t, k, owned, pc)
    PROVE  /\ Len(incs)' = Len(incs) + 1 /\ Len(incs) + 1 \in Incs
           /\ incs' \in Seq(IncRecords)
           /\ DOMAIN incs' = DOMAIN incs \cup {Len(incs) + 1}
           /\ Len(incs) + 1 \notin DOMAIN incs
           /\ \A i \in DOMAIN incs : incs'[i] = incs[i]
           /\ incs'[Len(incs) + 1].key = k /\ incs'[Len(incs) + 1].owned = owned
           /\ incs'[Len(incs) + 1].clean = (\A j \in Posts(k[2]) : ~Unfinished(j))
<1> DEFINE i == Len(incs) + 1
           e == [key |-> k, owned |-> owned, clean |-> \A j \in Posts(k[2]) : ~Unfinished(j)]
<1>1. /\ incs \in Seq(IncRecords) /\ Len(incs) \in Nat /\ DOMAIN incs = 1..Len(incs)
      /\ i <= MaxCreates
    BY IncTypes DEF LInv, OwnTypes, CreatePod
<1>2. (\A j \in Posts(k[2]) : ~Unfinished(j)) \in BOOLEAN
    OBVIOUS
<1>3. e \in IncRecords
    BY <1>2 DEF IncRecords
<1>4. incs' = Append(incs, e)
    BY DEF CreatePod
<1>5. e.key = k /\ e.owned = owned /\ e.clean = (\A j \in Posts(k[2]) : ~Unfinished(j))
    OBVIOUS
<1> HIDE DEF e
<1>6. /\ incs' \in Seq(IncRecords) /\ Len(incs') = Len(incs) + 1
      /\ \A j \in 1..Len(incs) : incs'[j] = incs[j]
      /\ incs'[i] = e
    BY <1>1, <1>3, <1>4, AppendProperties
<1>7. DOMAIN incs' = 1..(Len(incs) + 1)
    BY <1>6, LenProperties
<1>8. i \in Incs /\ i \notin DOMAIN incs /\ 1..(Len(incs) + 1) = 1..Len(incs) \cup {i}
    BY <1>1, MaxCreatesAssumption DEF Incs
<1> QED
    BY <1>1, <1>5, <1>6, <1>7, <1>8

LEMMA CreateManager ==
    ASSUME LInv, NEW t \in Threads, NEW k \in Keys, NEW owned \in BOOLEAN,
           NEW pc \in {"lookup", "pendingGet"}, CreatePod(t, k, owned, pc)
    PROVE  [TM!Next]_(TM!vars)
<1> DEFINE n == k[2]
           i == Len(incs) + 1
           p == [NoPod EXCEPT !.inc = i, !.ct = Stamp(i, owned), !.owned = owned]
           x == [pc |-> pc, inc |-> i, len |-> 0, read |-> NoPod]
<1>1. n \in Names /\ ~Stored(n) /\ h[t] = Idle /\ UNCHANGED <<active, seq>>
    BY DEF CreatePod, Keys
<1>2. i \in Nat \ {0} /\ \A j \in DOMAIN incs : incs'[j] = incs[j]
  <2>1. i \in Incs /\ \A j \in DOMAIN incs : incs'[j] = incs[j]
    BY CreateView
  <2> QED
    BY <2>1, MaxCreatesAssumption DEF Incs
<1>3. p # NoPod
    BY <1>2 DEF NoPod
<1>4. pods' = [pods EXCEPT ![n] = p] /\ h' = [h EXCEPT ![t] = x]
    BY DEF CreatePod
<1> HIDE DEF p
<1>5. Stored(n)' /\ \A m \in Names : m # n => (Stored(m)' <=> Stored(m))
    BY <1>1, <1>3, <1>4 DEF Stored, LInv, OwnTypes
<1>6. {m \in Names : Stored(m)}' = {m \in Names : Stored(m)} \cup {n}
    BY <1>1, <1>5
<1>7. SameView
  <2>1. View(t)' = View(t)
    BY <1>1, <1>4 DEF View, Idle, LInv, OwnTypes
  <2>2. ASSUME NEW u \in Threads, u # t PROVE View(u)' = View(u)
    <3>1. h'[u] = h[u]
      BY <1>4, <2>2 DEF LInv, OwnTypes
    <3>2. Posting(u) => KeyOf(h[u].inc)' = KeyOf(h[u].inc)
      BY <1>2, <3>1, HandlerTypes DEF KeyOf
    <3> QED
      BY <3>1, <3>2 DEF View, Posting, CreatePcs
  <2> QED
    BY <2>1, <2>2 DEF SameView
<1>8. TM!PodCreated(n)
    BY <1>1, <1>6, <1>7 DEF TM!PodCreated, SameView, View
<1> QED
    BY <1>1, <1>8 DEF TM!Next

LEMMA LookupManager ==
    ASSUME LInv, NEW t \in Threads, PostLookup(t)
    PROVE  [TM!Next]_(TM!vars)
<1> DEFINE i == h[t].inc
           len == GetTemplate(KeyOf(i))
           x == [h[t] EXCEPT !.pc = AfterLookup(len), !.len = len]
<1>1. /\ h[t] \in [pc : CreatePcs, inc : Incs, len : 0..MaxStates,
                   read : PodRecords \cup {NoPod}]
      /\ KeyOf(i) \in Keys /\ h[t].pc = "lookup"
    BY HandlerTypes DEF PostLookup, Posting, CreatePcs
<1>2. len \in 0..MaxStates
    BY <1>1 DEF GetTemplate, LInv, OwnTypes
<1>3. h' = [h EXCEPT ![t] = x]
    BY DEF PostLookup
<1>4. AfterLookup(len) = IF len > 0 THEN "cancel" ELSE "pendingGet"
    BY DEF AfterLookup
<1> HIDE DEF len
<1>5. /\ x \in Handlers /\ x.inc = i /\ x.len = len
      /\ x.pc = IF len > 0 THEN "cancel" ELSE "pendingGet"
    BY <1>1, <1>2, <1>4 DEF Handlers, CreatePcs
<1>6. /\ UNCHANGED <<pods, active, seq, incs>>
      /\ h'[t] = x /\ \A u \in Threads : u # t => h'[u] = h[u]
    BY <1>3, <1>5, HandlerMoves DEF PostLookup
<1>7. SameStored /\ \A u \in Threads : u # t => View(u)' = View(u)
    BY <1>6 DEF SameStored, Stored, View, KeyOf
<1>8. CASE len = 0
  <2>1. x.pc \notin {"cancel", "verify", "insert"}
    BY <1>5, <1>8
  <2> HIDE DEF x
  <2>2. h[t].pc \notin {"cancel", "verify", "insert"}
    BY <1>1
  <2>3. SameView
    BY <1>3, <1>5, <1>6, <2>1, <2>2, OutOfView
  <2> QED
    BY <1>6, <1>7, <2>3, Unseen
<1>9. CASE len > 0
  <2>1. View(t) = Idle /\ View(t)' = [pc |-> "cancel", key |-> KeyOf(i), len |-> len]
    BY <1>1, <1>5, <1>6, <1>9 DEF View, KeyOf
  <2>2. TM!StartCall(t, KeyOf(i), len, TRUE)
    BY <1>6, <1>7, <2>1 DEF TM!StartCall, TM!Idle, Idle, View, SameStored
  <2>3. len \in 1..MaxStates /\ KeyOf(i) \in TM!Keys
    BY <1>1, <1>2, <1>9 DEF TM!Keys, Keys
  <2> QED
    BY <2>2, <2>3 DEF TM!Next, TM!CallerStep
<1> QED
    BY <1>2, <1>8, <1>9

LEMMA VerifyManager ==
    ASSUME LInv, NEW t \in Threads, PostVerify(t)
    PROVE  [TM!Next]_(TM!vars)
<1> DEFINE i == h[t].inc
           x == [h[t] EXCEPT !.pc = "insert"]
<1>1. /\ h[t] \in [pc : CreatePcs, inc : Incs, len : 0..MaxStates,
                   read : PodRecords \cup {NoPod}]
      /\ NameOf(i) \in Names /\ h[t].pc = "verify"
    BY HandlerTypes DEF PostVerify, Posting, CreatePcs
<1>2. /\ h' = [h EXCEPT ![t] = IF Stored(NameOf(i)) THEN x ELSE Idle]
      /\ UNCHANGED <<pods, active, seq, incs>>
    BY DEF PostVerify
<1>3. h'[t] = IF Stored(NameOf(i)) THEN x ELSE Idle
    BY <1>2 DEF LInv, OwnTypes
<1>4. \A u \in Threads : u # t => View(u)' = View(u)
    BY <1>2 DEF View, KeyOf, LInv, OwnTypes
<1>5. View(t) = [pc |-> "verify", key |-> KeyOf(i), len |-> h[t].len]
    BY <1>1 DEF View
<1>6. View(t)' = IF Stored(NameOf(i)) THEN [View(t) EXCEPT !.pc = "insert"] ELSE Idle
  <2>1. CASE Stored(NameOf(i))
    <3>1. x.pc = "insert" /\ x.inc = i /\ x.len = h[t].len
      BY <1>1
    <3>2. View(t)' = [pc |-> "insert", key |-> KeyOf(i), len |-> h[t].len]
      BY <1>2, <1>3, <2>1, <3>1 DEF View, KeyOf
    <3> QED
      BY <1>5, <2>1, <3>2
  <2>2. CASE ~Stored(NameOf(i))
    BY <1>3, <2>2 DEF View, Idle
  <2> QED
    BY <2>1, <2>2
<1>7. SameStored
    BY <1>2 DEF SameStored, Stored
<1>8. TM!StartVerify(t)
    BY <1>1, <1>2, <1>4, <1>5, <1>6, <1>7
    DEF TM!StartVerify, TM!NameOf, NameOf, TM!Idle, Idle, View, SameStored
<1> QED
    BY <1>8 DEF TM!Next, TM!CallerStep

LEMMA InsertManager ==
    ASSUME LInv, NEW t \in Threads, PostInsert(t)
    PROVE  [TM!Next]_(TM!vars)
<1> DEFINE i == h[t].inc
<1>1. h[t].pc = "insert" /\ i \in Incs /\ seq[i].pc = "none"
    BY HandlerTypes DEF PostInsert, Posting, CreatePcs, LInv, Roles
<1>2. /\ h' = [h EXCEPT ![t] = Idle] /\ UNCHANGED <<pods, incs>>
      /\ TM!InsertActive(i, KeyOf(i), h[t].len)
    BY DEF PostInsert
<1>3. h'[t] = Idle
    BY <1>2 DEF LInv, OwnTypes
<1>4. \A u \in Threads : u # t => View(u)' = View(u)
    BY <1>2 DEF View, KeyOf, LInv, OwnTypes
<1>5. View(t) = [pc |-> "insert", key |-> KeyOf(i), len |-> h[t].len] /\ View(t)' = Idle
    BY <1>1, <1>3 DEF View, Idle
<1>6. SameStored
    BY <1>2 DEF SameStored, Stored
<1>7. TM!StartInsert(t)
    BY <1>1, <1>2, <1>4, <1>5, <1>6
    DEF TM!StartInsert, TM!Idle, Idle, View, SameStored
<1> QED
    BY <1>7 DEF TM!Next, TM!CallerStep

(* CancelTransition, called by the two DELETE handlers.                    *)
LEMMA CancelManager ==
    ASSUME LInv, NEW t \in Threads, DeleteCancel(t) \/ SimCancel(t)
    PROVE  [TM!Next]_(TM!vars)
<1> DEFINE x == [h[t] EXCEPT !.pc = "delTemplate"]
<1>1. /\ h[t].pc \in {"delCancel", "simCancel"}
      /\ h[t] \in [pc : {"delCancel", "delTemplate", "delStore", "simCancel"}, key : Keys]
    BY HandlerTypes DEF DeleteCancel, SimCancel
<1>2. x \in Handlers /\ Idle \in Handlers /\ x.pc = "delTemplate" /\ Idle.pc = "idle"
    BY <1>1 DEF Handlers, Idle
<1>3. /\ h' = [h EXCEPT ![t] = x] \/ h' = [h EXCEPT ![t] = Idle]
      /\ UNCHANGED <<pods, incs>> /\ TM!CancelTransition(h[t].key)
    BY DEF DeleteCancel, SimCancel
<1> HIDE DEF x
<1>4. SameView
    BY <1>1, <1>2, <1>3, OutOfView
<1>5. View(t) = Idle /\ SameStored
    BY <1>1, <1>3 DEF View, SameStored, Stored
<1>6. TM!CancelCall(t, h[t].key)
    BY <1>3, <1>4, <1>5 DEF TM!CancelCall, TM!Idle, Idle, View, SameView, SameStored
<1> QED
    BY <1>1, <1>6 DEF TM!Next, TM!CallerStep, TM!Keys, Keys

LEMMA RemoveManager ==
    ASSUME LInv, NEW t \in Threads, DeleteStore(t)
    PROVE  [TM!Next]_(TM!vars)
<1>1. /\ h[t].pc = "delStore" /\ h[t].key[2] \in Names
      /\ UNCHANGED <<active, seq, incs>>
    BY HandlerTypes DEF DeleteStore, Keys
<1> PICK n \in Names : n = h[t].key[2]
    BY <1>1
<1>2. Idle \in Handlers /\ Idle.pc = "idle" /\ h' = [h EXCEPT ![t] = Idle]
    BY DEF Handlers, Idle, DeleteStore
<1>3. SameView
    BY <1>1, <1>2, OutOfView
<1>4. pods' = [pods EXCEPT ![n] = NoPod]
    BY DEF DeleteStore, RemovePod
<1>5. ~Stored(n)' /\ \A m \in Names : m # n => (Stored(m)' <=> Stored(m))
    BY <1>1, <1>4 DEF Stored, LInv, OwnTypes
<1>6. CASE Stored(n)
  <2>1. {m \in Names : Stored(m)}' = {m \in Names : Stored(m)} \ {n}
    BY <1>5
  <2>2. TM!PodDeleted(n)
    BY <1>1, <1>3, <1>6, <2>1 DEF TM!PodDeleted, SameView, View
  <2> QED
    BY <1>1, <2>2 DEF TM!Next
<1>7. CASE ~Stored(n)
    BY <1>1, <1>3, <1>5, <1>7, Unseen DEF SameStored
<1> QED
    BY <1>6, <1>7

(* Steps the manager does not see: handlers outside StartTransition.       *)
LEMMA UnseenHandler ==
    ASSUME LInv, NEW t \in Threads,
           \/ DeleteTemplate(t)
           \/ \E k \in Keys : \/ DeletePod(t, k) \/ DeletePodOfReplicaSet(t, k)
                            \/ CancelPodTransition(t, k)
           \/ \E k \in Keys, len \in Lens : SimulatePod(t, k, len)
    PROVE  UNCHANGED TM!vars
<1>1. UNCHANGED <<pods, active, seq, incs>>
    BY DEF DeleteTemplate, DeletePod,
        DeletePodOfReplicaSet, DeleteBegins, CancelPodTransition, SimulatePod
<1>2. SameStored
    BY <1>1 DEF SameStored, Stored
<1>3. ASSUME NEW x \in Handlers, h' = [h EXCEPT ![t] = x], h[t].pc \in {"idle", "delTemplate"},
             x.pc \in {"delCancel", "simCancel", "delStore"}
      PROVE  UNCHANGED TM!vars
    BY <1>1, <1>2, <1>3, OutOfView, Unseen
<1>4. CASE DeleteTemplate(t)
  <2> DEFINE x == [h[t] EXCEPT !.pc = "delStore"]
  <2>1. x \in Handlers /\ x.pc = "delStore"
    BY <1>4, HandlerTypes DEF DeleteTemplate, Handlers
  <2> QED
    BY <1>3, <1>4, <2>1 DEF DeleteTemplate
<1>5. ASSUME NEW k \in Keys,
             DeletePod(t, k) \/ DeletePodOfReplicaSet(t, k) \/ CancelPodTransition(t, k)
      PROVE  UNCHANGED TM!vars
  <2> DEFINE x(pc) == [pc |-> pc, key |-> k]
  <2>1. \A pc \in {"delCancel", "simCancel"} : x(pc) \in Handlers /\ x(pc).pc = pc
    BY DEF Handlers
  <2>2. h[t].pc = "idle"
    BY <1>5 DEF DeletePod, DeletePodOfReplicaSet, DeleteBegins, CancelPodTransition, Idle
  <2> QED
    BY <1>3, <1>5, <2>1, <2>2 DEF DeletePod,
        DeletePodOfReplicaSet, DeleteBegins, CancelPodTransition
<1>6. ASSUME NEW k \in Keys, NEW len \in Lens, SimulatePod(t, k, len)
      PROVE  UNCHANGED TM!vars
    BY <1>1, <1>2, <1>6, SameHandlers, Unseen DEF SimulatePod
<1> QED
    BY <1>4, <1>5, <1>6

-----------------------------------------------------------------------------
(* What is written into a pod is a pod.                                    *)
LEMMA ReadFields ==
    ASSUME NEW p \in PodRecords \cup {NoPod}
    PROVE  p.owned \in BOOLEAN /\ p.ct \in 0..MaxCreates
<1>1. CASE p \in PodRecords
    BY <1>1 DEF PodRecords
<1>2. CASE p = NoPod
  <2>1. p.owned = FALSE /\ p.ct = 0
    BY <1>2 DEF NoPod
  <2>2. 0 \in 0..MaxCreates
    BY MaxCreatesAssumption
  <2>3. p.owned \in BOOLEAN
    BY <2>1, Zenon
  <2> QED
    BY <2>1, <2>2, <2>3
<1> QED
    BY <1>1, <1>2

LEMMA PendingRecord ==
    ASSUME LInv, NEW t \in Threads, h[t].pc \in {"pendingGet", "pendingPut"}
    PROVE  LET i == h[t].inc IN
           /\ PendingPod(i, h[t].read) \in PodRecords
           /\ PendingPod(i, h[t].read).inc = i /\ PendingPod(i, h[t].read).ct = i
           /\ PendingPod(i, h[t].read).by = i /\ PendingPod(i, h[t].read).step = 1
           /\ PendingPod(i, h[t].read).kind = "default"
           /\ PendingPod(i, h[t].read).owned = OwnersKept(i, h[t].read)
<1> DEFINE i == h[t].inc
<1>1. i \in DOMAIN incs /\ h[t].read \in PodRecords \cup {NoPod}
    BY HandlerTypes DEF Posting, CreatePcs
<1>2. i \in Incs /\ incs[i].owned \in BOOLEAN /\ h[t].read.owned \in BOOLEAN
    BY <1>1, IncTypes, ReadFields DEF IncRecords
<1>3. OwnersKept(i, h[t].read) \in BOOLEAN
    BY <1>2 DEF OwnersKept
<1>4. i \in 0..MaxCreates /\ 1 \in 0..(MaxStates + 2)
    BY <1>2, MaxCreatesAssumption, MaxStatesAssumption DEF Incs
<1> QED
    BY <1>2, <1>3, <1>4 DEF PendingPod, PodRecords

LEMMA RunningRecord ==
    ASSUME LInv, NEW i \in Incs, timer[i].pc # "none"
    PROVE  LET read == timer[i].read
               p == RunningPod(i, read)
           IN  /\ p \in PodRecords
               /\ p.inc = i /\ p.by = i /\ p.step = 2 /\ p.kind = "default"
               /\ p.owned = OwnersKept(i, read)
               /\ p.ct = IF read.ct # 0 THEN read.ct ELSE Stamp(i, incs[i].owned)
<1> DEFINE read == timer[i].read
           ct == IF read.ct # 0 THEN read.ct ELSE Stamp(i, incs[i].owned)
<1>1. i \in DOMAIN incs /\ read \in PodRecords \cup {NoPod}
    BY DEF LInv, Roles, OwnTypes, Timers
<1>2. incs[i].owned \in BOOLEAN /\ read.owned \in BOOLEAN
    BY <1>1, IncTypes, ReadFields DEF IncRecords
<1>3. OwnersKept(i, read) \in BOOLEAN
    BY <1>2 DEF OwnersKept
<1>4. i \in 0..MaxCreates /\ 2 \in 0..(MaxStates + 2) /\ 0 \in 0..MaxCreates
    BY MaxCreatesAssumption, MaxStatesAssumption DEF Incs
<1>5. ct \in 0..MaxCreates
  <2>1. read.ct \in 0..MaxCreates
    BY <1>1, ReadFields
  <2> QED
    BY <1>4, <2>1 DEF Stamp
<1>6. RunningPod(i, read) = [inc |-> i, ct |-> ct, owned |-> OwnersKept(i, read),
                             kind |-> "default", step |-> 2, by |-> i]
    BY DEF RunningPod
<1> HIDE DEF ct, read
<1>7. RunningPod(i, read) \in PodRecords
    BY <1>3, <1>4, <1>5, <1>6 DEF PodRecords
<1>8. /\ RunningPod(i, read).inc = i /\ RunningPod(i, read).by = i
      /\ RunningPod(i, read).step = 2 /\ RunningPod(i, read).kind = "default"
      /\ RunningPod(i, read).owned = OwnersKept(i, read) /\ RunningPod(i, read).ct = ct
    BY <1>6
<1> QED
    BY <1>7, <1>8 DEF ct, read

LEMMA AppliedRecord ==
    ASSUME LInv, NEW s \in Incs, seq[s].pc = "put"
    PROVE  LET read == seqRead[s]
               p == AppliedPod(s, read)
           IN  /\ p \in PodRecords
               /\ read \in PodRecords
               /\ p.inc = read.inc /\ p.ct = read.ct /\ p.by = s
               /\ p.kind = "template" /\ p.step = seq[s].next /\ ~p.owned
<1> DEFINE read == seqRead[s]
<1>1. read \in PodRecords
    BY DEF LInv, OwnTypes, ReadFirst
<1>2. seq[s].next \in 0..(MaxStates + 2) /\ s \in 0..MaxCreates
    BY SeqTypes, MaxStatesAssumption, MaxCreatesAssumption DEF Incs
<1>3. AppliedPod(s, read) = [read EXCEPT !.owned = FALSE, !.kind = "template",
                                         !.step = seq[s].next, !.by = s]
    BY DEF AppliedPod
<1> HIDE DEF read
<1> QED
    BY <1>1, <1>2, <1>3 DEF PodRecords, read

(* The other steps the manager does not see: the default controller's.     *)
LEMMA DefaultUnseen ==
    ASSUME LInv,
           \/ \E t \in Threads : PostPendingGet(t) \/ PostPendingPut(t)
           \/ \E i \in Incs : TimerFire(i) \/ TimerPut(i) \/ TimerStop(i)
           \/ Stop
    PROVE  UNCHANGED TM!vars
<1>1. ASSUME NEW t \in Threads, PostPendingGet(t) PROVE UNCHANGED TM!vars
  <2> DEFINE i == h[t].inc
             x == [h[t] EXCEPT !.pc = "pendingPut", !.read = pods[NameOf(i)]]
  <2>1. /\ h[t] \in [pc : CreatePcs, inc : Incs, len : 0..MaxStates,
                     read : PodRecords \cup {NoPod}]
        /\ NameOf(i) \in Names /\ h[t].pc = "pendingGet"
    BY <1>1, HandlerTypes DEF PostPendingGet, Posting, CreatePcs
  <2>2. pods[NameOf(i)] \in PodRecords \cup {NoPod}
    BY <2>1 DEF LInv, OwnTypes
  <2>3. x \in Handlers /\ x.pc = "pendingPut"
    BY <2>1, <2>2 DEF Handlers, CreatePcs
  <2>4. h' = [h EXCEPT ![t] = x] /\ UNCHANGED <<pods, active, seq, incs>>
    BY <1>1 DEF PostPendingGet
  <2> HIDE DEF x
  <2>5. SameView /\ SameStored
    BY <2>1, <2>3, <2>4, OutOfView DEF SameStored, Stored
  <2> QED
    BY <2>4, <2>5, Unseen
<1>2. ASSUME NEW t \in Threads, PostPendingPut(t) PROVE UNCHANGED TM!vars
  <2>1. /\ NameOf(h[t].inc) \in Names /\ h[t].pc = "pendingPut"
        /\ PendingPod(h[t].inc, h[t].read) \in PodRecords
    BY <1>2, HandlerTypes, PendingRecord DEF PostPendingPut, Posting, CreatePcs
  <2>2. SameStored
    BY <1>2, <2>1, UpdateKeeps DEF PostPendingPut
  <2>3. Idle \in Handlers /\ Idle.pc = "idle" /\ h' = [h EXCEPT ![t] = Idle]
        /\ UNCHANGED <<active, seq, incs>>
    BY <1>2 DEF PostPendingPut, Handlers, Idle
  <2>4. SameView
    BY <2>1, <2>3, OutOfView
  <2> QED
    BY <2>2, <2>3, <2>4, Unseen
<1>3. ASSUME NEW i \in Incs, TimerPut(i) PROVE UNCHANGED TM!vars
  <2>1. NameOf(i) \in Names /\ RunningPod(i, timer[i].read) \in PodRecords
    BY <1>3, IncTypes, RunningRecord DEF TimerPut, LInv, Roles
  <2>2. SameStored
    BY <1>3, <2>1, UpdateKeeps DEF TimerPut
  <2> QED
    BY <1>3, <2>2, SameHandlers, Unseen DEF TimerPut
<1>4. CASE (\E i \in Incs : TimerFire(i) \/ TimerStop(i)) \/ Stop
  <2>1. UNCHANGED <<pods, h, incs, active, seq>>
    BY <1>4 DEF TimerFire, TimerStop, Stop
  <2>2. SameStored
    BY <2>1 DEF SameStored, Stored
  <2> QED
    BY <2>1, <2>2, SameHandlers, Unseen
<1> QED
    BY <1>1, <1>2, <1>3, <1>4

LEMMA StepIsManagers == LInv /\ [Next]_vars => [TM!Next]_(TM!vars)
<1> SUFFICES ASSUME LInv, [Next]_vars PROVE [TM!Next]_(TM!vars)
    OBVIOUS
<1>1. ASSUME NEW t \in Threads, Request(t) PROVE [TM!Next]_(TM!vars)
  <2>1. ASSUME NEW k \in Keys, NEW owned \in BOOLEAN, PostPod(t, k, owned)
        PROVE  [TM!Next]_(TM!vars)
    BY <2>1, CreateManager DEF PostPod
  <2>2. ASSUME NEW k \in Keys, CreatePodForReplicaSet(t, k) PROVE [TM!Next]_(TM!vars)
    BY <2>2, CreateManager DEF CreatePodForReplicaSet
  <2> QED
    BY <1>1, <2>1, <2>2, UnseenHandler DEF Request
<1>2. ASSUME NEW t \in Threads, HandlerStep(t) PROVE [TM!Next]_(TM!vars)
  <2>1. CASE PostCancel(t)
    BY <2>1 DEF PostCancel, TM!Next, TM!CallerStep
  <2>2. CASE PostPendingGet(t) \/ PostPendingPut(t)
    BY <2>2, DefaultUnseen
  <2> QED
    BY <1>2, <2>1, <2>2, LookupManager, VerifyManager, InsertManager, CancelManager,
       RemoveManager, UnseenHandler
    DEF HandlerStep
<1>3. ASSUME NEW s \in Incs, SeqStep(s) PROVE [TM!Next]_(TM!vars)
  <2>1. TM!SeqStep(s)
    BY <1>3 DEF SeqStep, SeqControl, SeqGet, SeqPut, TM!SeqStep
  <2> QED
    BY <2>1 DEF TM!Next
<1>4. CASE (\E i \in Incs : TimerStep(i) \/ TimerStop(i)) \/ Stop
    BY <1>4, DefaultUnseen DEF TimerStep
<1>5. CASE UNCHANGED vars
  <2>1. UNCHANGED <<pods, h, incs, active, seq>>
    BY <1>5 DEF vars
  <2> QED
    BY <2>1, SameHandlers, Unseen DEF SameStored, Stored
<1> QED
    BY <1>1, <1>2, <1>3, <1>4, <1>5 DEF Next

-----------------------------------------------------------------------------
(* Every step keeps the variables of this module in their types.           *)
LEMMA TypesCreate ==
    ASSUME LInv, NEW t \in Threads, NEW k \in Keys, NEW owned \in BOOLEAN,
           NEW pc \in {"lookup", "pendingGet"}, CreatePod(t, k, owned, pc)
    PROVE  OwnTypes'
<1> DEFINE i == Len(incs) + 1
           p == [NoPod EXCEPT !.inc = i, !.ct = Stamp(i, owned), !.owned = owned]
           x == [pc |-> pc, inc |-> i, len |-> 0, read |-> NoPod]
<1>1. i \in Incs /\ incs' \in Seq(IncRecords) /\ Len(incs') <= MaxCreates
  <2>1. i \in Incs /\ incs' \in Seq(IncRecords) /\ Len(incs') = i
    BY CreateView
  <2> QED
    BY <2>1, MaxCreatesAssumption DEF Incs
<1>2. Stamp(i, owned) \in 0..MaxCreates
    BY <1>1, MaxCreatesAssumption DEF Stamp, Incs
<1>3. 0 \in 0..MaxCreates /\ 0 \in 0..MaxStates /\ 0 \in 0..(MaxStates + 2)
    BY MaxCreatesAssumption, MaxStatesAssumption
<1>4. NoPod \in [inc : {0} \cup Incs, ct : 0..MaxCreates, owned : BOOLEAN,
                  kind : {"none", "default", "template"},
                  step : 0..(MaxStates + 2), by : 0..MaxCreates]
    BY <1>3 DEF NoPod
<1>5. pods' = [pods EXCEPT ![k[2]] = p] /\ h' = [h EXCEPT ![t] = x]
      /\ UNCHANGED <<seqRead, timer, template, stopped>>
    BY DEF CreatePod
<1> HIDE DEF i
<1>6. p \in PodRecords
    BY <1>1, <1>2, <1>4 DEF PodRecords
<1> HIDE DEF p
<1>7. x \in Handlers
    BY <1>1, <1>3 DEF Handlers, CreatePcs
<1> HIDE DEF x
<1> QED
    BY <1>1, <1>5, <1>6, <1>7 DEF LInv, OwnTypes

(* A handler that only moves on.                                           *)
LEMMA TypesMove ==
    ASSUME LInv, NEW t \in Threads, NEW x \in Handlers, h' = [h EXCEPT ![t] = x],
           pods' \in [Names -> PodRecords \cup {NoPod}], timer' \in [Incs -> Timers],
           template' \in [Keys -> 0..MaxStates],
           UNCHANGED <<seqRead, stopped, incs>>
    PROVE  OwnTypes'
    BY DEF LInv, OwnTypes

LEMMA TypesHandler ==
    ASSUME LInv, NEW t \in Threads, HandlerStep(t)
    PROVE  OwnTypes'
<1>1. Idle \in Handlers /\ pods \in [Names -> PodRecords \cup {NoPod}]
      /\ timer \in [Incs -> Timers] /\ template \in [Keys -> 0..MaxStates]
    BY DEF Handlers, Idle, LInv, OwnTypes
<1>2. CASE PostLookup(t)
  <2> DEFINE len == GetTemplate(KeyOf(h[t].inc))
             x == [h[t] EXCEPT !.pc = AfterLookup(len), !.len = len]
  <2>1. /\ h[t] \in [pc : CreatePcs, inc : Incs, len : 0..MaxStates,
                     read : PodRecords \cup {NoPod}]
        /\ KeyOf(h[t].inc) \in Keys
    BY <1>2, HandlerTypes DEF PostLookup, Posting, CreatePcs
  <2>2. len \in 0..MaxStates /\ AfterLookup(len) \in CreatePcs
    BY <1>1, <2>1 DEF GetTemplate, AfterLookup, CreatePcs
  <2>3. h' = [h EXCEPT ![t] = x] /\ UNCHANGED <<pods, timer, template, seqRead, stopped, incs>>
    BY <1>2 DEF PostLookup
  <2> HIDE DEF len
  <2>4. x \in Handlers
    BY <2>1, <2>2 DEF Handlers
  <2> HIDE DEF x
  <2> QED
    BY <1>1, <2>3, <2>4, TypesMove
<1>3. CASE PostCancel(t) \/ PostVerify(t)
  <2> DEFINE x(pc) == [h[t] EXCEPT !.pc = pc]
  <2>1. h[t] \in [pc : CreatePcs, inc : Incs, len : 0..MaxStates,
                  read : PodRecords \cup {NoPod}]
    BY <1>3, HandlerTypes DEF PostCancel, PostVerify, Posting, CreatePcs
  <2>2. x("verify") \in Handlers /\ x("insert") \in Handlers
    BY <2>1 DEF Handlers, CreatePcs
  <2>3. /\ \/ h' = [h EXCEPT ![t] = x("verify")]
           \/ h' = [h EXCEPT ![t] = x("insert")]
           \/ h' = [h EXCEPT ![t] = Idle]
        /\ UNCHANGED <<pods, timer, template, seqRead, stopped, incs>>
    BY <1>3 DEF PostCancel, PostVerify
  <2> HIDE DEF x
  <2> QED
    BY <1>1, <2>2, <2>3, TypesMove
<1>4. CASE PostInsert(t)
    BY <1>1, <1>4, TypesMove DEF PostInsert
<1>5. CASE PostPendingGet(t)
  <2> DEFINE x == [h[t] EXCEPT !.pc = "pendingPut", !.read = pods[NameOf(h[t].inc)]]
  <2>1. /\ h[t] \in [pc : CreatePcs, inc : Incs, len : 0..MaxStates,
                     read : PodRecords \cup {NoPod}]
        /\ NameOf(h[t].inc) \in Names
    BY <1>5, HandlerTypes DEF PostPendingGet, Posting, CreatePcs
  <2>2. pods[NameOf(h[t].inc)] \in PodRecords \cup {NoPod}
    BY <1>1, <2>1
  <2>3. x \in Handlers
    BY <2>1, <2>2 DEF Handlers, CreatePcs
  <2>4. h' = [h EXCEPT ![t] = x] /\ UNCHANGED <<pods, timer, template, seqRead, stopped, incs>>
    BY <1>5 DEF PostPendingGet
  <2> HIDE DEF x
  <2> QED
    BY <1>1, <2>3, <2>4, TypesMove
<1>6. CASE PostPendingPut(t)
  <2> DEFINE i == h[t].inc
  <2>1. i \in Incs /\ NameOf(i) \in Names /\ PendingPod(i, h[t].read) \in PodRecords
    BY <1>6, HandlerTypes, IncTypes, PendingRecord DEF PostPendingPut, Posting, CreatePcs
  <2>2. pods' \in [Names -> PodRecords \cup {NoPod}]
    BY <1>6, <2>1, UpdateKeeps DEF PostPendingPut
  <2>3. Startup(i) \in [Incs -> Timers]
    BY <1>1, <2>1 DEF Startup, Timers
  <2>4. timer' \in [Incs -> Timers]
    BY <1>1, <1>6, <2>3 DEF PostPendingPut
  <2> QED
    BY <1>1, <1>6, <2>2, <2>4, TypesMove DEF PostPendingPut
<1>7. CASE DeleteCancel(t) \/ DeleteTemplate(t) \/ SimCancel(t)
  <2> DEFINE x(pc) == [h[t] EXCEPT !.pc = pc]
  <2>1. h[t] \in [pc : {"delCancel", "delTemplate", "delStore", "simCancel"}, key : Keys]
    BY <1>7, HandlerTypes DEF DeleteCancel, DeleteTemplate, SimCancel
  <2>2. x("delTemplate") \in Handlers /\ x("delStore") \in Handlers
    BY <2>1 DEF Handlers
  <2>3. /\ \/ h' = [h EXCEPT ![t] = x("delTemplate")]
           \/ h' = [h EXCEPT ![t] = x("delStore")]
           \/ h' = [h EXCEPT ![t] = Idle]
        /\ UNCHANGED <<pods, timer, seqRead, stopped, incs>>
    BY <1>7 DEF DeleteCancel, DeleteTemplate, SimCancel
  <2>4. 0 \in 0..MaxStates
    BY MaxStatesAssumption
  <2>5. template' \in [Keys -> 0..MaxStates]
    BY <1>1, <1>7, <2>4 DEF DeleteCancel, DeleteTemplate, SimCancel, RemoveTemplate
  <2> HIDE DEF x
  <2> QED
    BY <1>1, <2>2, <2>3, <2>5, TypesMove
<1>8. CASE DeleteStore(t)
    BY <1>1, <1>8, TypesMove DEF DeleteStore, RemovePod
<1> QED
    BY <1>2, <1>3, <1>4, <1>5, <1>6, <1>7, <1>8 DEF HandlerStep

LEMMA TypesStep == LInv /\ [Next]_vars => OwnTypes'
<1> SUFFICES ASSUME LInv, [Next]_vars PROVE OwnTypes'
    OBVIOUS
<1>0. OwnTypes /\ 0 \in 0..MaxStates /\ Lens \subseteq 0..MaxStates
    BY LensAssumption, MaxStatesAssumption DEF LInv
<1>1. ASSUME NEW t \in Threads, Request(t) PROVE OwnTypes'
  <2>1. ASSUME NEW k \in Keys, NEW owned \in BOOLEAN, PostPod(t, k, owned)
        PROVE  OwnTypes'
    BY <2>1, TypesCreate DEF PostPod
  <2>2. ASSUME NEW k \in Keys, CreatePodForReplicaSet(t, k) PROVE OwnTypes'
    BY <2>2, TypesCreate DEF CreatePodForReplicaSet
  <2>3. ASSUME NEW k \in Keys,
             DeletePod(t, k) \/ DeletePodOfReplicaSet(t, k) \/ CancelPodTransition(t, k)
        PROVE  OwnTypes'
    <3> DEFINE x(pc) == [pc |-> pc, key |-> k]
    <3>1. x("delCancel") \in Handlers /\ x("simCancel") \in Handlers
      BY DEF Handlers
    <3>2. /\ \/ h' = [h EXCEPT ![t] = x("delCancel")]
             \/ h' = [h EXCEPT ![t] = x("simCancel")]
          /\ UNCHANGED <<pods, timer, seqRead, stopped, incs>>
      BY <2>3 DEF DeletePod, DeletePodOfReplicaSet, DeleteBegins, CancelPodTransition
    <3>3. template' \in [Keys -> 0..MaxStates]
      BY <1>0, <2>3 DEF DeletePod,
          DeletePodOfReplicaSet, DeleteBegins, CancelPodTransition, RemoveTemplate, OwnTypes
    <3> HIDE DEF x
    <3> QED
      BY <1>0, <3>1, <3>2, <3>3, TypesMove DEF OwnTypes
  <2>4. ASSUME NEW k \in Keys, NEW len \in Lens, SimulatePod(t, k, len) PROVE OwnTypes'
    BY <1>0, <2>4 DEF SimulatePod, RegisterTemplate, OwnTypes
  <2> QED
    BY <1>1, <2>1, <2>2, <2>3, <2>4 DEF Request
<1>2. ASSUME NEW t \in Threads, HandlerStep(t) PROVE OwnTypes'
    BY <1>2, TypesHandler
<1>3. ASSUME NEW i \in Incs, TimerStep(i) \/ TimerStop(i) PROVE OwnTypes'
  <2>1. i \in DOMAIN incs /\ NameOf(i) \in Names
    BY <1>3, IncTypes DEF TimerStep, TimerFire, TimerPut, TimerStop, LInv, Roles
  <2>2. CASE TimerFire(i)
    <3>1. pods[NameOf(i)] \in PodRecords \cup {NoPod}
      BY <1>0, <2>1 DEF OwnTypes
    <3> QED
      BY <1>0, <2>2, <3>1 DEF TimerFire, OwnTypes, Timers
  <2>3. CASE TimerPut(i)
    <3>1. pods' \in [Names -> PodRecords \cup {NoPod}]
      BY <2>1, <2>3, RunningRecord, UpdateKeeps DEF TimerPut
    <3> QED
      BY <1>0, <2>3, <3>1 DEF TimerPut, OwnTypes, Timers
  <2>4. CASE TimerStop(i)
    BY <1>0, <2>4 DEF TimerStop, OwnTypes, Timers
  <2> QED
    BY <1>3, <2>2, <2>3, <2>4 DEF TimerStep
<1>4. ASSUME NEW s \in Incs, SeqStep(s) PROVE OwnTypes'
  <2>1. CASE SeqControl(s)
    BY <1>0, <2>1 DEF SeqControl, OwnTypes
  <2>2. CASE SeqGet(s)
    <3>1. NameOf(s) \in Names
      BY <2>2, IncTypes DEF SeqGet, LInv, Roles
    <3> QED
      BY <1>0, <2>2, <3>1 DEF SeqGet, OwnTypes
  <2>3. CASE SeqPut(s)
    <3>1. NameOf(s) \in Names
      BY <2>3, IncTypes DEF SeqPut, LInv, Roles
    <3>2. pods' \in [Names -> PodRecords \cup {NoPod}]
      BY <2>3, <3>1, AppliedRecord, UpdateKeeps DEF SeqPut
    <3> QED
      BY <1>0, <2>3, <3>2 DEF SeqPut, OwnTypes
  <2> QED
    BY <1>4, <2>1, <2>2, <2>3 DEF SeqStep
<1>5. CASE Stop \/ UNCHANGED vars
    BY <1>0, <1>5 DEF Stop, vars, OwnTypes
<1> QED
    BY <1>1, <1>2, <1>3, <1>4, <1>5 DEF Next

-----------------------------------------------------------------------------
(* Every step keeps the roles.                                             *)

(* The steps of a sequence and a cancellation start none and rename none.  *)
SeqsKept == \A i \in Incs : /\ seq'[i].pc = "none" <=> seq[i].pc = "none"
                            /\ seq'[i].key = seq[i].key
                            /\ seq'[i].pc = "none" => seq'[i].next = seq[i].next

LEMMA CancelKeepsSeqs ==
    ASSUME LInv, NEW k, TM!CancelTransition(k)
    PROVE  SeqsKept /\ \A i \in Incs : seq'[i].pc = seq[i].pc
    BY SeqTypes DEF TM!CancelTransition, TMP!SeqStates, SeqsKept

LEMMA StepKeepsSeqs ==
    ASSUME LInv, NEW s \in Incs, TM!SeqStep(s)
    PROVE  SeqsKept
<1>1. seq \in [Incs -> TMP!SeqStates]
    BY SeqTypes
<1>2. ASSUME NEW x, x.key = seq[s].key, x.pc # "none", seq[s].pc # "none",
             seq' = [seq EXCEPT ![s] = x]
      PROVE  SeqsKept
    BY <1>1, <1>2 DEF SeqsKept
<1>3. ASSUME NEW pc \in {"wait", "get", "cleanup", "done", "put"}, seq[s].pc # "none",
             seq' = [seq EXCEPT ![s].pc = pc]
      PROVE  SeqsKept
  <2> DEFINE x == [seq[s] EXCEPT !.pc = pc]
  <2>1. x.key = seq[s].key /\ x.pc = pc /\ seq' = [seq EXCEPT ![s] = x]
    BY <1>1, <1>3 DEF TMP!SeqStates
  <2> HIDE DEF x
  <2> QED
    BY <1>2, <1>3, <2>1
<1>4. TM!NextState(seq[s]).key = seq[s].key /\ TM!NextState(seq[s]).pc = "check"
      /\ \A n : LET x == [TM!NextState(seq[s]) EXCEPT !.late = n]
                IN  x.key = seq[s].key /\ x.pc = "check"
    BY <1>1 DEF TM!NextState, TMP!SeqStates
<1>5. CASE TM!SeqCheck(s)
  <2>1. PICK pc \in {"wait", "get", "cleanup"} : seq' = [seq EXCEPT ![s].pc = pc]
    BY <1>5 DEF TM!SeqCheck
  <2> QED
    BY <1>3, <1>5, <2>1 DEF TM!SeqCheck
<1>6. CASE TM!SeqWait(s) \/ TM!SeqCleanup(s)
    BY <1>3, <1>6 DEF TM!SeqWait, TM!SeqCleanup
<1>7. CASE TM!SeqGet(s)
  <2> DEFINE x == IF TM!NameOf(seq[s].key) \in {n \in Names : Stored(n)}
                  THEN [seq[s] EXCEPT !.pc = "put"] ELSE TM!NextState(seq[s])
  <2>1. seq' = [seq EXCEPT ![s] = x] /\ seq[s].pc = "get"
    BY <1>7 DEF TM!SeqGet, TM!OnMissingPod
  <2>2. x.key = seq[s].key /\ x.pc \in {"put", "check"}
    BY <1>1, <1>4 DEF TMP!SeqStates
  <2> HIDE DEF x
  <2> QED
    BY <1>2, <2>1, <2>2
<1>8. CASE TM!SeqPut(s)
  <2>1. PICK n : seq' = [seq EXCEPT ![s] = [TM!NextState(seq[s]) EXCEPT !.late = n]]
    BY <1>8 DEF TM!SeqPut
  <2> QED
    BY <1>2, <1>4, <1>8, <2>1 DEF TM!SeqPut
<1> QED
    BY <1>5, <1>6, <1>7, <1>8 DEF TM!SeqStep

HandlersKept == \A u \in Threads :
                  /\ h'[u].pc \in CreatePcs => Posting(u) /\ h'[u].inc = h[u].inc
                  /\ h'[u].pc \in {"cancel", "verify", "insert"} => h'[u].len > 0

(* Where a handler moves on, for its POST or for none.                     *)
LEMMA MoveKeepsHandlers ==
    ASSUME LInv, NEW t \in Threads, NEW x \in Handlers, h' = [h EXCEPT ![t] = x],
           x.pc \in CreatePcs => Posting(t) /\ x.inc = h[t].inc,
           x.pc \in {"cancel", "verify", "insert"} => x.len > 0
    PROVE  HandlersKept
<1>1. h'[t] = x /\ \A u \in Threads : u # t => h'[u] = h[u]
    BY HandlerMoves
<1>2. \A u \in Threads : h[u].pc \in {"cancel", "verify", "insert"} => h[u].len > 0
    BY DEF LInv, Roles
<1> QED
    BY <1>1, <1>2 DEF HandlersKept, Posting

LEMMA SameKeepsHandlers ==
    ASSUME LInv, UNCHANGED h
    PROVE  HandlersKept
    BY DEF HandlersKept, Posting, LInv, Roles

LEMMA RolesKept ==
    ASSUME LInv, UNCHANGED incs, HandlersKept, SeqsKept,
           \A i \in Incs : timer'[i].pc = "none" <=> timer[i].pc = "none"
    PROVE  Roles'
<1>1. \A u \in Threads : Posting(u)' => Posting(u) /\ h'[u].inc = h[u].inc
    BY DEF HandlersKept, Posting
<1>2. ASSUME NEW t \in Threads, Posting(t)'
      PROVE  /\ h'[t].inc \in DOMAIN incs'
             /\ seq'[h'[t].inc].pc = "none" /\ timer'[h'[t].inc].pc = "none"
             /\ \A u \in Threads : Posting(u)' /\ h'[u].inc = h'[t].inc => u = t
  <2>1. h[t].inc \in DOMAIN incs /\ h[t].inc \in Incs /\ h'[t].inc = h[t].inc /\ Posting(t)
    BY <1>1, <1>2, HandlerTypes
  <2>2. seq[h[t].inc].pc = "none" /\ timer[h[t].inc].pc = "none"
    BY <2>1 DEF LInv, Roles
  <2>3. \A u \in Threads : Posting(u)' /\ h'[u].inc = h'[t].inc => u = t
    BY <1>1, <2>1 DEF LInv, Roles
  <2> QED
    BY <2>1, <2>2, <2>3 DEF SeqsKept
<1>3. \A t \in Threads : h'[t].pc \in {"cancel", "verify", "insert"} => h'[t].len > 0
    BY DEF HandlersKept
<1>4. \A i \in Incs : KeyOf(i)' = KeyOf(i)
    BY DEF KeyOf
<1>5. \A i \in Incs : seq'[i].pc # "none" =>
         i \in DOMAIN incs' /\ seq'[i].key = KeyOf(i)' /\ timer'[i].pc = "none"
    BY <1>4 DEF LInv, Roles, SeqsKept
<1>6. \A i \in Incs : seq'[i].pc = "none" => seq'[i].next = 1
    BY DEF LInv, Roles, SeqsKept
<1>7. \A i \in Incs : timer'[i].pc # "none" => i \in DOMAIN incs'
    BY DEF LInv, Roles
<1> QED
    BY <1>2, <1>3, <1>5, <1>6, <1>7 DEF Roles

LEMMA SameKeepsSeqs ==
    ASSUME UNCHANGED seq
    PROVE  SeqsKept
    BY DEF SeqsKept

LEMMA RolesCreate ==
    ASSUME LInv, NEW t \in Threads, NEW k \in Keys, NEW owned \in BOOLEAN,
           NEW pc \in {"lookup", "pendingGet"}, CreatePod(t, k, owned, pc)
    PROVE  Roles'
<1> DEFINE i == Len(incs) + 1
           x == [pc |-> pc, inc |-> i, len |-> 0, read |-> NoPod]
<1>1. /\ i \in Incs /\ DOMAIN incs' = DOMAIN incs \cup {i} /\ i \notin DOMAIN incs
      /\ \A j \in DOMAIN incs : incs'[j] = incs[j]
    BY CreateView
<1>2. h' = [h EXCEPT ![t] = x] /\ UNCHANGED <<seq, timer>>
    BY DEF CreatePod
<1> HIDE DEF i
<1>3. h'[t] = x /\ \A u \in Threads : u # t => h'[u] = h[u]
    BY <1>2 DEF LInv, OwnTypes
<1>4. x.pc = pc /\ x.inc = i
    OBVIOUS
<1> HIDE DEF x
<1>5. seq[i].pc = "none" /\ timer[i].pc = "none"
    BY <1>1 DEF LInv, Roles
<1>6. \A u \in Threads : Posting(u) => h[u].inc \in DOMAIN incs
    BY HandlerTypes
<1>7. \A u \in Threads : u # t => (Posting(u)' <=> Posting(u)) /\ h'[u].inc = h[u].inc
    BY <1>3 DEF Posting
<1>8. ASSUME NEW u \in Threads, Posting(u)'
      PROVE  /\ h'[u].inc \in DOMAIN incs'
             /\ seq'[h'[u].inc].pc = "none" /\ timer'[h'[u].inc].pc = "none"
             /\ \A v \in Threads : Posting(v)' /\ h'[v].inc = h'[u].inc => v = u
  <2>1. CASE u = t
    BY <1>1, <1>2, <1>3, <1>4, <1>5, <1>6, <1>7, <2>1
  <2>2. CASE u # t
    <3>1. Posting(u) /\ h'[u].inc = h[u].inc /\ h[u].inc \in DOMAIN incs /\ h[u].inc # i
      BY <1>1, <1>6, <1>7, <1>8, <2>2
    <3>2. seq[h[u].inc].pc = "none" /\ timer[h[u].inc].pc = "none"
      BY <3>1 DEF LInv, Roles
    <3>3. ASSUME NEW v \in Threads, Posting(v)', h'[v].inc = h'[u].inc PROVE v = u
      <4>1. v # t
        BY <1>3, <1>4, <3>1, <3>3
      <4>2. Posting(v) /\ h[v].inc = h[u].inc
        BY <1>7, <3>1, <3>3, <4>1
      <4> QED
        BY <3>1, <4>2 DEF LInv, Roles
    <3> QED
      BY <1>1, <1>2, <3>1, <3>2, <3>3
  <2> QED
    BY <2>1, <2>2
<1>9. \A u \in Threads : h'[u].pc \in {"cancel", "verify", "insert"} => h'[u].len > 0
    BY <1>3, <1>4 DEF LInv, Roles
<1>10. \A j \in Incs : seq'[j].pc # "none" =>
         j \in DOMAIN incs' /\ seq'[j].key = KeyOf(j)' /\ timer'[j].pc = "none"
    BY <1>1, <1>2 DEF KeyOf, LInv, Roles
<1>11. /\ \A j \in Incs : seq'[j].pc = "none" => seq'[j].next = 1
       /\ \A j \in Incs : timer'[j].pc # "none" => j \in DOMAIN incs'
    BY <1>1, <1>2 DEF LInv, Roles
<1> QED
    BY <1>8, <1>9, <1>10, <1>11 DEF Roles

(* A POST that hands over: its handler is done, and either its sequence or *)
(* its startup goroutine is on its way.                                    *)
LEMMA RolesHandOver ==
    ASSUME LInv, NEW t \in Threads, Posting(t), h' = [h EXCEPT ![t] = Idle], UNCHANGED incs,
           \A j \in Incs : j # h[t].inc => /\ seq'[j] = seq[j]
                                           /\ timer'[j].pc = timer[j].pc,
           LET i == h[t].inc IN
           /\ seq'[i].pc # "none" => seq'[i].key = KeyOf(i) /\ timer'[i].pc = "none"
           /\ seq'[i].pc = "none" => seq'[i].next = 1
    PROVE  Roles'
<1> DEFINE i == h[t].inc
<1>1. i \in DOMAIN incs /\ i \in Incs
    BY HandlerTypes
<1>2. /\ h'[t].pc = "idle" /\ \A u \in Threads : u # t => h'[u] = h[u]
    BY DEF LInv, OwnTypes, Idle
<1>3. \A u \in Threads : Posting(u)' => u # t /\ Posting(u) /\ h'[u].inc = h[u].inc
    BY <1>2 DEF Posting, CreatePcs
<1>4. ASSUME NEW u \in Threads, Posting(u)'
      PROVE  /\ h'[u].inc \in DOMAIN incs'
             /\ seq'[h'[u].inc].pc = "none" /\ timer'[h'[u].inc].pc = "none"
             /\ \A v \in Threads : Posting(v)' /\ h'[v].inc = h'[u].inc => v = u
  <2>1. u # t /\ Posting(u) /\ h'[u].inc = h[u].inc
    BY <1>3, <1>4
  <2>2. h[u].inc # i
    BY <2>1 DEF LInv, Roles
  <2>3. h[u].inc \in DOMAIN incs /\ h[u].inc \in Incs
    BY <2>1, HandlerTypes
  <2>4. seq[h[u].inc].pc = "none" /\ timer[h[u].inc].pc = "none"
    BY <2>1 DEF LInv, Roles
  <2>5. seq'[h[u].inc].pc = "none" /\ timer'[h[u].inc].pc = "none"
    BY <2>2, <2>3, <2>4
  <2>6. \A v \in Threads : Posting(v)' /\ h'[v].inc = h'[u].inc => v = u
    BY <1>3, <2>1 DEF LInv, Roles
  <2> QED
    BY <2>1, <2>3, <2>5, <2>6
<1>5. \A u \in Threads : h'[u].pc \in {"cancel", "verify", "insert"} => h'[u].len > 0
    BY <1>2 DEF LInv, Roles
<1>6. \A j \in Incs : seq'[j].pc # "none" =>
         j \in DOMAIN incs' /\ seq'[j].key = KeyOf(j)' /\ timer'[j].pc = "none"
    BY <1>1 DEF KeyOf, LInv, Roles
<1>7. /\ \A j \in Incs : seq'[j].pc = "none" => seq'[j].next = 1
      /\ \A j \in Incs : timer'[j].pc # "none" => j \in DOMAIN incs'
    BY <1>1 DEF LInv, Roles
<1> QED
    BY <1>4, <1>5, <1>6, <1>7 DEF Roles

LEMMA RolesHandler ==
    ASSUME LInv, NEW t \in Threads, HandlerStep(t)
    PROVE  Roles'
<1>1. Idle \in Handlers /\ Idle.pc = "idle"
    BY DEF Handlers, Idle
<1>2. ASSUME UNCHANGED <<incs, timer>>, SeqsKept, NEW x \in Handlers,
             h' = [h EXCEPT ![t] = x],
             x.pc \in CreatePcs => Posting(t) /\ x.inc = h[t].inc,
             x.pc \in {"cancel", "verify", "insert"} => x.len > 0
      PROVE  Roles'
    BY <1>2, MoveKeepsHandlers, RolesKept
<1>3. ASSUME UNCHANGED <<incs, timer>>, SeqsKept, h' = [h EXCEPT ![t] = Idle]
      PROVE  Roles'
    BY <1>1, <1>2, <1>3 DEF CreatePcs
<1>4. CASE PostLookup(t)
  <2> DEFINE len == GetTemplate(KeyOf(h[t].inc))
             x == [h[t] EXCEPT !.pc = AfterLookup(len), !.len = len]
  <2>1. /\ h[t] \in [pc : CreatePcs, inc : Incs, len : 0..MaxStates,
                     read : PodRecords \cup {NoPod}]
        /\ KeyOf(h[t].inc) \in Keys /\ Posting(t)
    BY <1>4, HandlerTypes DEF PostLookup, Posting, CreatePcs
  <2>2. /\ len \in 0..MaxStates /\ AfterLookup(len) \in CreatePcs
        /\ AfterLookup(len) \in {"cancel", "verify", "insert"} => len > 0
    BY <2>1 DEF GetTemplate, AfterLookup, CreatePcs, LInv, OwnTypes
  <2>3. h' = [h EXCEPT ![t] = x] /\ UNCHANGED <<incs, timer, seq>>
    BY <1>4 DEF PostLookup
  <2>4. SeqsKept
    BY <2>3, SameKeepsSeqs
  <2> HIDE DEF len
  <2>5. x \in Handlers /\ x.pc = AfterLookup(len) /\ x.len = len /\ x.inc = h[t].inc
    BY <2>1, <2>2 DEF Handlers
  <2> HIDE DEF x
  <2> QED
    BY <1>2, <2>1, <2>2, <2>3, <2>4, <2>5
<1>5. CASE PostCancel(t) \/ PostVerify(t)
  <2> DEFINE x(pc) == [h[t] EXCEPT !.pc = pc]
  <2>1. /\ h[t] \in [pc : CreatePcs, inc : Incs, len : 0..MaxStates,
                     read : PodRecords \cup {NoPod}]
        /\ Posting(t) /\ h[t].pc \in {"cancel", "verify"}
    BY <1>5, HandlerTypes DEF PostCancel, PostVerify, Posting, CreatePcs
  <2>2. h[t].len > 0
    BY <2>1 DEF LInv, Roles
  <2>3. \A pc \in {"verify", "insert"} :
            x(pc) \in Handlers /\ x(pc).inc = h[t].inc /\ x(pc).len = h[t].len
    BY <2>1 DEF Handlers, CreatePcs
  <2>4. SeqsKept
    BY <1>5, CancelKeepsSeqs, SameKeepsSeqs DEF PostCancel, PostVerify, TM!StartCancel
  <2>5. /\ \/ h' = [h EXCEPT ![t] = x("verify")]
           \/ h' = [h EXCEPT ![t] = x("insert")]
           \/ h' = [h EXCEPT ![t] = Idle]
        /\ UNCHANGED <<incs, timer>>
    BY <1>5 DEF PostCancel, PostVerify
  <2> HIDE DEF x
  <2> QED
    BY <1>2, <1>3, <2>1, <2>2, <2>3, <2>4, <2>5
<1>6. CASE PostInsert(t)
  <2> DEFINE i == h[t].inc
             q == [pc |-> "check", key |-> KeyOf(i), len |-> h[t].len, next |-> 1,
                   cancelled |-> FALSE, late |-> 0]
  <2>1. Posting(t) /\ i \in Incs /\ timer[i].pc = "none"
    BY <1>6, HandlerTypes DEF PostInsert, Posting, CreatePcs, LInv, Roles
  <2>2. seq' = [seq EXCEPT ![i] = q] /\ UNCHANGED <<incs, timer>>
        /\ h' = [h EXCEPT ![t] = Idle]
    BY <1>6 DEF PostInsert, TM!InsertActive
  <2>3. q.pc = "check" /\ q.key = KeyOf(i)
    OBVIOUS
  <2> HIDE DEF q
  <2>4. seq'[i] = q /\ \A j \in Incs : j # i => seq'[j] = seq[j]
    BY <2>1, <2>2, SeqTypes
  <2> QED
    BY <2>1, <2>2, <2>3, <2>4, RolesHandOver
<1>7. CASE PostPendingGet(t)
  <2> DEFINE x == [h[t] EXCEPT !.pc = "pendingPut", !.read = pods[NameOf(h[t].inc)]]
  <2>1. /\ h[t] \in [pc : CreatePcs, inc : Incs, len : 0..MaxStates,
                     read : PodRecords \cup {NoPod}]
        /\ NameOf(h[t].inc) \in Names /\ Posting(t)
    BY <1>7, HandlerTypes DEF PostPendingGet, Posting, CreatePcs
  <2>2. pods[NameOf(h[t].inc)] \in PodRecords \cup {NoPod}
    BY <2>1 DEF LInv, OwnTypes
  <2>3. x \in Handlers /\ x.pc = "pendingPut" /\ x.inc = h[t].inc
    BY <2>1, <2>2 DEF Handlers, CreatePcs
  <2>4. h' = [h EXCEPT ![t] = x] /\ UNCHANGED <<timer, incs, seq>>
    BY <1>7 DEF PostPendingGet
  <2>5. SeqsKept
    BY <2>4, SameKeepsSeqs
  <2> HIDE DEF x
  <2> QED
    BY <1>2, <2>1, <2>3, <2>4, <2>5
<1>8. CASE PostPendingPut(t)
  <2> DEFINE i == h[t].inc
  <2>1. Posting(t) /\ i \in Incs /\ seq[i].pc = "none"
    BY <1>8, HandlerTypes DEF PostPendingPut, Posting, CreatePcs, LInv, Roles
  <2>2. UNCHANGED <<incs, seq>> /\ h' = [h EXCEPT ![t] = Idle]
        /\ timer' \in {timer, Startup(i)}
    BY <1>8 DEF PostPendingPut
  <2>3. \A j \in Incs : j # i => timer'[j].pc = timer[j].pc
    BY <2>1, <2>2 DEF Startup, LInv, OwnTypes
  <2>4. seq[i].next = 1
    BY <2>1 DEF LInv, Roles
  <2> QED
    BY <2>1, <2>2, <2>3, <2>4, RolesHandOver
<1>9. CASE DeleteCancel(t) \/ DeleteTemplate(t) \/ SimCancel(t)
  <2> DEFINE x(pc) == [h[t] EXCEPT !.pc = pc]
  <2>1. h[t] \in [pc : {"delCancel", "delTemplate", "delStore", "simCancel"}, key : Keys]
    BY <1>9, HandlerTypes DEF DeleteCancel, DeleteTemplate, SimCancel
  <2>2. \A pc \in {"delTemplate", "delStore"} : x(pc) \in Handlers /\ x(pc).pc = pc
    BY <2>1 DEF Handlers
  <2>3. /\ \/ h' = [h EXCEPT ![t] = x("delTemplate")]
           \/ h' = [h EXCEPT ![t] = x("delStore")]
           \/ h' = [h EXCEPT ![t] = Idle]
        /\ UNCHANGED <<timer, incs>>
    BY <1>9 DEF DeleteCancel, DeleteTemplate, SimCancel
  <2>4. SeqsKept
    BY <1>9, CancelKeepsSeqs, SameKeepsSeqs DEF DeleteCancel, DeleteTemplate, SimCancel
  <2> HIDE DEF x
  <2> QED
    BY <1>2, <1>3, <2>2, <2>3, <2>4 DEF CreatePcs
<1>10. CASE DeleteStore(t)
    BY <1>3, <1>10, SameKeepsSeqs DEF DeleteStore
<1> QED
    BY <1>4, <1>5, <1>6, <1>7, <1>8, <1>9, <1>10 DEF HandlerStep

LEMMA RolesStep == LInv /\ [Next]_vars => Roles'
<1> SUFFICES ASSUME LInv, [Next]_vars PROVE Roles'
    OBVIOUS
<1>1. ASSUME NEW t \in Threads, Request(t) PROVE Roles'
  <2>1. ASSUME NEW k \in Keys, NEW owned \in BOOLEAN, PostPod(t, k, owned) PROVE Roles'
    BY <2>1, RolesCreate DEF PostPod
  <2>2. ASSUME NEW k \in Keys, CreatePodForReplicaSet(t, k) PROVE Roles'
    BY <2>2, RolesCreate DEF CreatePodForReplicaSet
  <2>3. ASSUME NEW k \in Keys,
             DeletePod(t, k) \/ DeletePodOfReplicaSet(t, k) \/ CancelPodTransition(t, k)
        PROVE  Roles'
    <3> DEFINE x(pc) == [pc |-> pc, key |-> k]
    <3>1. \A pc \in {"delCancel", "simCancel"} : x(pc) \in Handlers /\ x(pc).pc = pc
      BY DEF Handlers
    <3>2. /\ \/ h' = [h EXCEPT ![t] = x("delCancel")]
             \/ h' = [h EXCEPT ![t] = x("simCancel")]
          /\ UNCHANGED <<timer, incs, seq>>
      BY <2>3 DEF DeletePod, DeletePodOfReplicaSet, DeleteBegins, CancelPodTransition
    <3> HIDE DEF x
    <3>3. HandlersKept
      BY <3>1, <3>2, MoveKeepsHandlers DEF CreatePcs
    <3> QED
      BY <3>2, <3>3, RolesKept, SameKeepsSeqs
  <2>4. ASSUME NEW k \in Keys, NEW len \in Lens, SimulatePod(t, k, len) PROVE Roles'
    BY <2>4, RolesKept, SameKeepsHandlers, SameKeepsSeqs DEF SimulatePod
  <2> QED
    BY <1>1, <2>1, <2>2, <2>3, <2>4 DEF Request
<1>2. ASSUME NEW t \in Threads, HandlerStep(t) PROVE Roles'
    BY <1>2, RolesHandler
<1>3. ASSUME NEW i \in Incs, TimerStep(i) \/ TimerStop(i) PROVE Roles'
  <2>1. UNCHANGED <<h, incs, seq>>
    BY <1>3 DEF TimerStep, TimerFire, TimerPut, TimerStop
  <2>2. \A j \in Incs : timer'[j].pc = "none" <=> timer[j].pc = "none"
    <3>1. PICK x : x.pc # "none" /\ timer' = [timer EXCEPT ![i] = x]
      <4>1. [timer[i] EXCEPT !.pc = "done"].pc # "none"
        BY DEF LInv, OwnTypes, Timers
      <4> QED
        BY <1>3, <4>1 DEF TimerStep, TimerFire, TimerPut, TimerStop
    <3>2. timer[i].pc # "none"
      BY <1>3 DEF TimerStep, TimerFire, TimerPut, TimerStop
    <3> QED
      BY <3>1, <3>2 DEF LInv, OwnTypes
  <2> QED
    BY <2>1, <2>2, RolesKept, SameKeepsHandlers, SameKeepsSeqs
<1>4. ASSUME NEW s \in Incs, SeqStep(s) PROVE Roles'
  <2>1. TM!SeqStep(s) /\ UNCHANGED <<h, incs, timer>>
    BY <1>4 DEF SeqStep, SeqControl, SeqGet, SeqPut, TM!SeqStep
  <2> QED
    BY <2>1, RolesKept, SameKeepsHandlers, StepKeepsSeqs
<1>5. CASE Stop \/ UNCHANGED vars
  <2>1. UNCHANGED <<h, incs, timer, seq>>
    BY <1>5 DEF Stop, vars
  <2> QED
    BY <2>1, RolesKept, SameKeepsHandlers, SameKeepsSeqs
<1> QED
    BY <1>1, <1>2, <1>3, <1>4, <1>5 DEF Next

-----------------------------------------------------------------------------
(* Between its two store calls a sequence holds the pod it read.           *)
LEMMA ReadKept ==
    ASSUME LInv, UNCHANGED seqRead,
           \A i \in Incs : seq'[i].pc = "put" => seq[i].pc = "put"
    PROVE  ReadFirst'
    BY DEF LInv, ReadFirst

LEMMA ReadStep == LInv /\ [Next]_vars => ReadFirst'
<1> SUFFICES ASSUME LInv, [Next]_vars PROVE ReadFirst'
    OBVIOUS
<1>1. seq \in [Incs -> TMP!SeqStates]
    BY SeqTypes
<1>2. ASSUME UNCHANGED <<seq, seqRead>> PROVE ReadFirst'
    BY <1>2, ReadKept
<1>3. ASSUME NEW t \in Threads, Request(t) PROVE ReadFirst'
    BY <1>2, <1>3
    DEF Request, PostPod, CreatePodForReplicaSet, CreatePod, DeletePod,
        DeletePodOfReplicaSet, DeleteBegins, CancelPodTransition, SimulatePod
<1>4. ASSUME NEW t \in Threads, HandlerStep(t) PROVE ReadFirst'
  <2>1. CASE PostCancel(t) \/ DeleteCancel(t) \/ SimCancel(t)
    <3>1. \A i \in Incs : seq'[i].pc = seq[i].pc
      BY <2>1, CancelKeepsSeqs DEF PostCancel, DeleteCancel, SimCancel, TM!StartCancel
    <3> QED
      BY <2>1, <3>1, ReadKept DEF PostCancel, DeleteCancel, SimCancel
  <2>2. CASE PostInsert(t)
    <3>1. \A i \in Incs : seq'[i].pc = "put" => seq[i].pc = "put"
      BY <1>1, <2>2 DEF PostInsert, TM!InsertActive
    <3> QED
      BY <2>2, <3>1, ReadKept DEF PostInsert
  <2> QED
    BY <1>2, <1>4, <2>1, <2>2
    DEF HandlerStep, PostLookup, PostVerify, PostPendingGet, PostPendingPut,
        DeleteTemplate, DeleteStore
<1>5. ASSUME NEW i \in Incs, TimerStep(i) \/ TimerStop(i) PROVE ReadFirst'
    BY <1>2, <1>5 DEF TimerStep, TimerFire, TimerPut, TimerStop
<1>6. ASSUME NEW s \in Incs, SeqStep(s) PROVE ReadFirst'
  <2>1. CASE SeqControl(s)
    <3>1. PICK pc \in {"wait", "get", "cleanup", "done"} : seq' = [seq EXCEPT ![s].pc = pc]
      BY <2>1 DEF SeqControl, TM!SeqCheck, TM!SeqWait, TM!SeqCleanup
    <3>2. \A i \in Incs : seq'[i].pc = "put" => seq[i].pc = "put"
      BY <1>1, <3>1 DEF TMP!SeqStates
    <3> QED
      BY <2>1, <3>2, ReadKept DEF SeqControl
  <2>2. CASE SeqGet(s)
    <3>1. NameOf(s) \in Names /\ seq[s].key = KeyOf(s)
      BY <2>2, IncTypes DEF SeqGet, LInv, Roles
    <3>2. seqRead' = [seqRead EXCEPT ![s] = pods[NameOf(s)]]
      BY <2>2 DEF SeqGet
    <3>3. CASE Stored(NameOf(s))
      <4>1. seq' = [seq EXCEPT ![s] = [seq[s] EXCEPT !.pc = "put"]]
        BY <2>2, <3>1, <3>3 DEF SeqGet, TM!SeqGet, TM!NameOf, NameOf
      <4>2. \A i \in Incs : i # s => seq'[i] = seq[i] /\ seqRead'[i] = seqRead[i]
        BY <3>2, <4>1 DEF LInv, OwnTypes
      <4>3. seqRead'[s] # NoPod
        BY <3>2, <3>3 DEF Stored, LInv, OwnTypes
      <4> QED
        BY <4>2, <4>3 DEF ReadFirst, LInv
    <3>4. CASE ~Stored(NameOf(s))
      <4>1. seq' = [seq EXCEPT ![s] = TM!NextState(seq[s])]
        BY <2>2, <3>1, <3>4 DEF SeqGet, TM!SeqGet, TM!OnMissingPod, TM!NameOf, NameOf
      <4>2. TM!NextState(seq[s]).pc = "check"
        BY <1>1 DEF TM!NextState, TMP!SeqStates
      <4>3. seq'[s].pc = "check" /\ \A i \in Incs : i # s => seq'[i] = seq[i]
        BY <1>1, <4>1, <4>2
      <4>4. \A i \in Incs : i # s => seqRead'[i] = seqRead[i]
        BY <3>2 DEF LInv, OwnTypes
      <4> QED
        BY <4>3, <4>4 DEF ReadFirst, LInv
    <3> QED
      BY <3>3, <3>4
  <2>3. CASE SeqPut(s)
    <3>1. PICK n : seq' = [seq EXCEPT ![s] = [TM!NextState(seq[s]) EXCEPT !.late = n]]
      BY <2>3 DEF SeqPut, TM!SeqPut
    <3>2. [TM!NextState(seq[s]) EXCEPT !.late = n].pc = "check"
      BY <1>1 DEF TM!NextState, TMP!SeqStates
    <3>3. seq'[s].pc = "check" /\ \A i \in Incs : i # s => seq'[i] = seq[i]
      BY <1>1, <3>1, <3>2
    <3>4. \A i \in Incs : i # s => seqRead'[i] = seqRead[i]
      BY <2>3 DEF SeqPut, LInv, OwnTypes
    <3> QED
      BY <3>3, <3>4 DEF ReadFirst, LInv
  <2> QED
    BY <1>6, <2>1, <2>2, <2>3 DEF SeqStep
<1>7. CASE Stop \/ UNCHANGED vars
    BY <1>2, <1>7 DEF Stop, vars
<1> QED
    BY <1>3, <1>4, <1>5, <1>6, <1>7 DEF Next

-----------------------------------------------------------------------------
LEMMA StartIsManagers == Init => TM!Init
<1> SUFFICES ASSUME Init PROVE TM!Init
    OBVIOUS
<1> DEFINE k0 == CHOOSE k \in Keys : TRUE
<1>1. k0 \in Keys
  <2>1. \E n \in Namespaces, m \in Names : <<n, m>> \in Keys
    BY KeysAssumption DEF Keys
  <2> QED
    BY <2>1
<1>2. seq = [s \in Incs |-> [pc |-> "none", key |-> k0, len |-> 1, next |-> 1,
                             cancelled |-> FALSE, late |-> 0]]
    BY DEF Init
<1> HIDE DEF k0
<1>3. \E k \in TM!Keys :
         seq = [s \in Incs |-> [pc |-> "none", key |-> k, len |-> 1, next |-> 1,
                                cancelled |-> FALSE, late |-> 0]]
    BY <1>1, <1>2 DEF Keys, TM!Keys
<1>4. {n \in Names : Stored(n)} = {}
    BY DEF Init, Stored
<1>5. \A t \in Threads : View(t) = Idle
    BY DEF Init, View, Idle
<1> QED
    BY <1>3, <1>4, <1>5 DEF Init, TM!Init, TM!Keys, Keys, TM!Idle, Idle, View

LEMMA LInvInit == Init => LInv
<1> SUFFICES ASSUME Init PROVE LInv
    OBVIOUS
<1>1. TMP!IndInv
    BY StartIsManagers, ManagerInit
<1>2. 0 \in 0..MaxStates /\ 0 <= MaxCreates
    BY MaxStatesAssumption, MaxCreatesAssumption
<1>3. incs \in Seq(IncRecords) /\ Len(incs) = 0 /\ DOMAIN incs = {}
    BY EmptySeq, LenProperties DEF Init
<1>4. OwnTypes
    BY <1>2, <1>3 DEF Init, OwnTypes, Timers, Handlers, Idle
<1>5. Roles /\ ReadFirst
    BY DEF Init, Roles, ReadFirst, Posting, Idle, CreatePcs
<1> QED
    BY <1>1, <1>4, <1>5 DEF LInv

LEMMA LInvStep == LInv /\ [Next]_vars => LInv'
    BY TypesStep, RolesStep, ReadStep, StepIsManagers, ManagerStep DEF LInv

LEMMA LInvAlways == Spec => []LInv
    BY LInvInit, LInvStep, PTL DEF Spec

(* The variables of the server keep their types: the table lists sequences *)
(* of this run, a handler works for a POST that was made, a sequence's     *)
(* position stays within the states of its template.                       *)
THEOREM LifecycleTypes == Spec => []TypeOK
<1>1. LInv => TypeOK
    BY SameTypes DEF LInv, OwnTypes, IncRecords, TMP!IndInv, TypeOK
<1> QED
    BY <1>1, LInvAlways, PTL

(* Whatever requests, timers and sequences do, the server only uses the    *)
(* TransitionManager as its specification says: what is proved of          *)
(* TransitionManager - a listed sequence lives, a cancelled one writes at  *)
(* most once more - holds of the pods API.                                 *)
THEOREM ManagerImplemented == Spec => ImplementsTransitionManager
    BY StartIsManagers, StepIsManagers, LInvAlways, PTL
    DEF Spec, ImplementsTransitionManager, TM!Spec

(* In the whole server, with its POSTs, DELETEs and simulations as they    *)
(* are, every sequence the table lists is running and uncancelled: a       *)
(* cancellation never reports a sequence that is over.                     *)
THEOREM ServerListsLive == Spec => []TM!ActiveIsLive
<1>1. LInv => TM!ActiveIsLive
    BY DEF LInv, TMP!IndInv, TMP!ActiveIsLive, TM!ActiveIsLive, TMP!Live, TM!Live,
           TMP!Keys, TM!Keys
<1> QED
    BY <1>1, LInvAlways, PTL

(* And after a DELETE or a cancellation the sequence of the pod writes the *)
(* name at most once more, whoever holds it by then.                       *)
THEOREM ServerWritesOnce == Spec => []TM!AtMostOneLate
<1>1. LInv => TM!AtMostOneLate
    BY DEF LInv, TMP!IndInv, TMP!LateIsLast, TM!AtMostOneLate
<1> QED
    BY <1>1, LInvAlways, PTL
=============================================================================
