---------------------- MODULE TransitionManagerProofs ----------------------
(* Invariants of TransitionManager, proved for every number of sequences,  *)
(* keys, threads and states.                                               *)
EXTENDS TransitionManager, TLAPS

(* A state is only waited for or applied at a position the list has.       *)
InRange ==
    \A s \in Seqs : seq[s].pc \in {"wait", "get", "put"} => seq[s].next <= seq[s].len

(* After its one late write a cancelled sequence is past the last point    *)
(* where it could write again: the poll at the loop head sends it home.    *)
LateIsLast ==
    \A s \in Seqs : /\ seq[s].late <= 1
                    /\ seq[s].late = 1 => /\ seq[s].cancelled
                                          /\ seq[s].pc \in {"check", "cleanup", "done"}

(* A sequence never gets further than past its last state, and only goes   *)
(* home from there, or when it was cancelled.                              *)
Ends ==
    \A s \in Seqs :
        /\ seq[s].next <= seq[s].len + 1
        /\ seq[s].pc \in {"cleanup", "done"} =>
             seq[s].next > seq[s].len \/ seq[s].cancelled

IndInv == TypeOK /\ InRange /\ ActiveIsLive /\ LateIsLast /\ Ends

(* Moving on to the next state: the position advances by one and the       *)
(* goroutine is back at the loop head; nothing else of the record changes. *)
LEMMA NextStateFields ==
    ASSUME NEW q \in SeqStates, q.next <= q.len
    PROVE  /\ NextState(q) \in SeqStates
           /\ NextState(q).pc = "check"
           /\ NextState(q).key = q.key
           /\ NextState(q).len = q.len /\ NextState(q).next = q.next + 1
           /\ NextState(q).cancelled = q.cancelled
           /\ NextState(q).late = q.late
<1>1. q.next + 1 \in 1..(MaxStates + 1)
    BY MaxStatesAssumption DEF SeqStates
<1>2. NextState(q) \in SeqStates
    BY <1>1 DEF NextState, SeqStates, SeqPcs
<1>3. /\ NextState(q).pc = "check" /\ NextState(q).key = q.key
      /\ NextState(q).len = q.len /\ NextState(q).next = q.next + 1
    BY DEF NextState, SeqStates
<1>4. NextState(q).cancelled = q.cancelled /\ NextState(q).late = q.late
    BY DEF NextState, SeqStates
<1> QED
    BY <1>2, <1>3, <1>4

(* The write of a state, seen from the sequence's record: at most the late *)
(* counter differs from moving on, by one, and only after a cancellation.  *)
LEMMA PutFields ==
    ASSUME NEW s \in Seqs, TypeOK, InRange, SeqPut(s)
    PROVE  /\ seq'[s] \in SeqStates
           /\ seq'[s].pc = "check"
           /\ seq'[s].next <= seq'[s].len + 1
           /\ seq'[s].key = seq[s].key
           /\ seq'[s].cancelled = seq[s].cancelled
           /\ \/ seq'[s].late = seq[s].late
              \/ seq[s].cancelled /\ seq'[s].late = seq[s].late + 1
           /\ seq' = [seq EXCEPT ![s] = seq'[s]]
<1>1. seq[s] \in SeqStates /\ seq[s].next <= seq[s].len
    BY DEF TypeOK, InRange, SeqPut
<1> DEFINE q == NextState(seq[s])
           n == IF NameOf(seq[s].key) \in stored /\ seq[s].cancelled
                THEN q.late + 1 ELSE q.late
<1>2. /\ q \in SeqStates /\ q.pc = "check" /\ q.key = seq[s].key
      /\ q.cancelled = seq[s].cancelled /\ q.late = seq[s].late
      /\ q.len = seq[s].len /\ q.next = seq[s].next + 1
    BY <1>1, NextStateFields
<1>3. seq' = [seq EXCEPT ![s] = [q EXCEPT !.late = n]]
    BY DEF SeqPut
<1>4. seq'[s] = [q EXCEPT !.late = n]
    BY <1>3 DEF TypeOK
<1>5. n \in Nat
    BY <1>2 DEF SeqStates
<1> HIDE DEF q
<1>6. /\ [q EXCEPT !.late = n] \in SeqStates
      /\ [q EXCEPT !.late = n].pc = q.pc
      /\ [q EXCEPT !.late = n].key = q.key
      /\ [q EXCEPT !.late = n].cancelled = q.cancelled
      /\ [q EXCEPT !.late = n].late = n
      /\ [q EXCEPT !.late = n].next = q.next /\ [q EXCEPT !.late = n].len = q.len
    BY <1>2, <1>5 DEF SeqStates
<1>7. q.next <= q.len + 1
    BY <1>1, <1>2 DEF SeqStates
<1> QED
    BY <1>2, <1>3, <1>4, <1>6, <1>7

LEMMA GetFields ==
    ASSUME NEW s \in Seqs, TypeOK, InRange, SeqGet(s)
    PROVE  /\ seq'[s] \in SeqStates
           /\ seq'[s].pc \in {"put", "check"}
           /\ seq'[s].pc = "put" => seq'[s].next <= seq'[s].len
           /\ seq'[s].next <= seq'[s].len + 1
           /\ seq'[s].key = seq[s].key
           /\ seq'[s].cancelled = seq[s].cancelled
           /\ seq'[s].late = seq[s].late
           /\ seq' = [seq EXCEPT ![s] = seq'[s]]
<1>1. seq[s] \in SeqStates /\ seq[s].next <= seq[s].len
    BY DEF TypeOK, InRange, SeqGet
<1>2. CASE NameOf(seq[s].key) \in stored
  <2>1. seq' = [seq EXCEPT ![s] = [seq[s] EXCEPT !.pc = "put"]]
    BY <1>2 DEF SeqGet
  <2> QED
    BY <1>1, <2>1 DEF TypeOK, SeqStates, SeqPcs
<1>3. CASE NameOf(seq[s].key) \notin stored
  <2>1. seq' = [seq EXCEPT ![s] = NextState(seq[s])]
    BY <1>3 DEF SeqGet, OnMissingPod
  <2>2. NextState(seq[s]).next <= NextState(seq[s]).len + 1
    BY <1>1, NextStateFields DEF SeqStates
  <2> QED
    BY <1>1, <2>1, <2>2, NextStateFields DEF TypeOK
<1> QED
    BY <1>2, <1>3

(* Every step keeps the variables in their types; the table only ever holds *)
(* sequences, and a sequence's position stays within its list of states.   *)
LEMMA TypeInit == Init => TypeOK
<1> SUFFICES ASSUME Init PROVE TypeOK
    OBVIOUS
<1> QED
    BY MaxStatesAssumption
    DEF Init, TypeOK, CallerStates, Idle, SeqStates, SeqPcs

LEMMA TypeStep == TypeOK /\ InRange /\ [Next]_vars => TypeOK'
<1> SUFFICES ASSUME TypeOK, InRange, [Next]_vars PROVE TypeOK'
    OBVIOUS
<1> USE MaxStatesAssumption DEF TypeOK
<1>1. ASSUME NEW t \in Threads, NEW k \in Keys, NEW n \in 1..MaxStates,
             NEW c \in CancelFlags, StartCall(t, k, n, c)
      PROVE  TypeOK'
    BY <1>1 DEF StartCall, CallerStates
<1>2. ASSUME NEW t \in Threads, StartCancel(t) PROVE TypeOK'
  <2>1. /\ caller[t] \in [pc : {"cancel", "verify", "insert"}, key : Keys,
                          len : 1..MaxStates]
    BY <1>2 DEF StartCancel, CallerStates, Idle
  <2>2. caller' \in [Threads -> CallerStates]
    BY <1>2, <2>1 DEF StartCancel, CallerStates
  <2>3. active' \in [Keys -> Seqs \cup {NoSeq}] /\ seq' \in [Seqs -> SeqStates]
    BY <1>2, <2>1 DEF StartCancel, CancelTransition, SeqStates
  <2> QED
    BY <1>2, <2>2, <2>3 DEF StartCancel
<1>3. ASSUME NEW t \in Threads, StartVerify(t) PROVE TypeOK'
    BY <1>3 DEF StartVerify, CallerStates, Idle
<1>4. ASSUME NEW t \in Threads, StartInsert(t) PROVE TypeOK'
    BY <1>4 DEF StartInsert, InsertActive, CallerStates, Idle, SeqStates, SeqPcs
<1>5. ASSUME NEW t \in Threads, NEW k \in Keys, CancelCall(t, k) PROVE TypeOK'
    BY <1>5 DEF CancelCall, CancelTransition, SeqStates
<1>6. ASSUME NEW s \in Seqs, SeqCheck(s) PROVE TypeOK'
    BY <1>6 DEF SeqCheck, SeqStates, SeqPcs
<1>7. ASSUME NEW s \in Seqs, SeqWait(s) PROVE TypeOK'
    BY <1>7 DEF SeqWait, SeqStates, SeqPcs
<1>8. ASSUME NEW s \in Seqs, SeqGet(s) PROVE TypeOK'
    BY <1>8, GetFields DEF SeqGet
<1>9. ASSUME NEW s \in Seqs, SeqPut(s) PROVE TypeOK'
    BY <1>9, PutFields DEF SeqPut
<1>10. ASSUME NEW s \in Seqs, SeqCleanup(s) PROVE TypeOK'
    BY <1>10 DEF SeqCleanup, CleanedTable, SeqStates, SeqPcs
<1>11. ASSUME NEW n \in Names, PodCreated(n) \/ PodDeleted(n) PROVE TypeOK'
    BY <1>11 DEF PodCreated, PodDeleted
<1>12. CASE UNCHANGED vars
    BY <1>12 DEF vars
<1> QED
    BY <1>1, <1>2, <1>3, <1>4, <1>5, <1>6, <1>7, <1>8, <1>9, <1>10, <1>11, <1>12
    DEF Next, CallerStep, SeqStep
LEMMA RangeStep == TypeOK /\ InRange /\ [Next]_vars => InRange'
<1> SUFFICES ASSUME TypeOK, InRange, [Next]_vars, NEW u \in Seqs
             PROVE  (seq[u].pc \in {"wait", "get", "put"} => seq[u].next <= seq[u].len)'
    BY DEF InRange
<1> USE DEF TypeOK, InRange, SeqStates, SeqPcs
<1>1. ASSUME NEW s \in Seqs, SeqStep(s)
      PROVE  (seq[u].pc \in {"wait", "get", "put"} => seq[u].next <= seq[u].len)'
  <2>1. CASE SeqCheck(s)
    <3>1. PICK pc \in SeqPcs : /\ seq' = [seq EXCEPT ![s].pc = pc]
                               /\ pc # "cleanup" => seq[s].next <= seq[s].len
      <4>1. CASE LoopExit(s)
        BY <2>1, <4>1 DEF SeqCheck
      <4>2. CASE ~LoopExit(s)
        <5>1. seq[s].next <= seq[s].len
          BY <4>2 DEF LoopExit
        <5>2. \E pc \in {"wait", "get"} : seq' = [seq EXCEPT ![s].pc = pc]
          BY <2>1, <4>2 DEF SeqCheck
        <5> QED
          BY <5>1, <5>2
      <4> QED
        BY <4>1, <4>2
    <3>2. CASE pc = "cleanup"
      BY <3>1, <3>2
    <3>3. CASE pc # "cleanup"
      BY <3>1, <3>3
    <3> QED
      BY <3>2, <3>3
  <2>4. CASE SeqWait(s)
    <3>1. seq[s].next <= seq[s].len
      BY <2>4 DEF SeqWait
    <3>2. CASE seq' = [seq EXCEPT ![s].pc = "get"]
      BY <3>1, <3>2
    <3>3. CASE seq' = [seq EXCEPT ![s].pc = "cleanup"]
      BY <3>3
    <3> QED
      BY <2>4, <3>2, <3>3 DEF SeqWait
  <2>5. CASE SeqCleanup(s)
    BY <2>5 DEF SeqCleanup
  <2>2. CASE SeqGet(s)
    BY <2>2, GetFields
  <2>3. CASE SeqPut(s)
    <3>1. seq'[s].pc = "check" /\ seq' = [seq EXCEPT ![s] = seq'[s]]
      BY <2>3, PutFields
    <3> QED
      BY <3>1
  <2> QED
    BY <1>1, <2>1, <2>2, <2>3, <2>4, <2>5 DEF SeqStep
<1>2. ASSUME NEW t \in Threads, CallerStep(t)
      PROVE  (seq[u].pc \in {"wait", "get", "put"} => seq[u].next <= seq[u].len)'
    BY <1>2 DEF CallerStep, StartCall, StartCancel, StartVerify, StartInsert, CancelCall,
                CancelTransition, InsertActive
<1>3. CASE UNCHANGED seq
    BY <1>3
<1> QED
    BY <1>1, <1>2, <1>3 DEF Next, vars, PodCreated, PodDeleted

LEMMA LateStep == TypeOK /\ InRange /\ LateIsLast /\ [Next]_vars => LateIsLast'
<1> SUFFICES ASSUME TypeOK, InRange, LateIsLast, [Next]_vars, NEW u \in Seqs
             PROVE  (/\ seq[u].late <= 1
                     /\ seq[u].late = 1 => /\ seq[u].cancelled
                                           /\ seq[u].pc \in {"check", "cleanup", "done"})'
    BY DEF LateIsLast
<1> DEFINE Goal == /\ seq[u].late <= 1
                   /\ seq[u].late = 1 => /\ seq[u].cancelled
                                         /\ seq[u].pc \in {"check", "cleanup", "done"}
<1> USE DEF TypeOK, LateIsLast, SeqStates, SeqPcs
<1>1. ASSUME NEW s \in Seqs, SeqCheck(s) \/ SeqWait(s) \/ SeqCleanup(s) PROVE Goal'
    BY <1>1 DEF SeqCheck, SeqWait, SeqCleanup, LoopExit
<1>2. ASSUME NEW s \in Seqs, SeqGet(s) \/ SeqPut(s) PROVE Goal'
  (* an uncancelled sequence has late = 0, a late one is not at get or put *)
  <2>1. seq[s].pc \in {"get", "put"}
    BY <1>2 DEF SeqGet, SeqPut
  <2>2. seq[s] \in SeqStates /\ seq[s].late \in Nat
    OBVIOUS
  <2>3. seq[s].late = 0
    BY <2>1, <2>2
  <2>4. CASE SeqGet(s)
    BY <2>3, <2>4, GetFields
  <2>5. CASE SeqPut(s)
    <3>1. /\ seq' = [seq EXCEPT ![s] = seq'[s]]
          /\ seq'[s].pc = "check"
          /\ seq'[s].cancelled = seq[s].cancelled
          /\ \/ seq'[s].late = seq[s].late
             \/ seq[s].cancelled /\ seq'[s].late = seq[s].late + 1
      BY <2>5, PutFields
    <3> QED
      BY <2>3, <3>1
  <2> QED
    BY <1>2, <2>4, <2>5
<1>3. ASSUME NEW t \in Threads, CallerStep(t) PROVE Goal'
  <2>1. ASSUME NEW k \in Keys, CancelTransition(k) PROVE Goal'
    BY <2>1 DEF CancelTransition
  <2>2. CASE StartCancel(t)
    <3>1. caller[t].key \in Keys
      BY <2>2 DEF StartCancel, CallerStates, Idle
    <3> QED
      BY <2>1, <2>2, <3>1 DEF StartCancel
  <2>3. CASE StartInsert(t)
    <3>1. PICK s \in Seqs : seq[s].pc = "none"
                           /\ InsertActive(s, caller[t].key, caller[t].len)
      BY <2>3 DEF StartInsert
    <3>2. CASE u = s
      BY <3>1, <3>2 DEF InsertActive
    <3>3. CASE u # s
      BY <3>1, <3>3 DEF InsertActive
    <3> QED
      BY <3>2, <3>3
  <2>4. CASE seq' = seq
    BY <2>4
  <2> QED
    BY <1>3, <2>1, <2>2, <2>3, <2>4 DEF CallerStep, StartCall, StartVerify, CancelCall
<1>4. CASE UNCHANGED seq
    BY <1>4
<1> QED
    BY <1>1, <1>2, <1>3, <1>4 DEF Next, SeqStep, vars, PodCreated, PodDeleted

LEMMA ActiveStep == TypeOK /\ InRange /\ ActiveIsLive /\ [Next]_vars => ActiveIsLive'
<1> SUFFICES ASSUME TypeOK, InRange, ActiveIsLive, [Next]_vars,
                    NEW k \in Keys, active'[k] # NoSeq
             PROVE  (/\ seq[active[k]].key = k
                     /\ seq[active[k]].pc \notin {"none", "done"}
                     /\ ~seq[active[k]].cancelled)'
    BY DEF ActiveIsLive, Live
<1> DEFINE Goal == /\ seq[active[k]].key = k
                   /\ seq[active[k]].pc \notin {"none", "done"}
                   /\ ~seq[active[k]].cancelled
<1> USE NoSeqAssumption DEF TypeOK, ActiveIsLive, Live, SeqStates
<1>1. ASSUME NEW c \in Keys, CancelTransition(c) PROVE Goal'
  <2>1. k # c /\ active'[k] = active[k] /\ active[k] \in Seqs
    BY <1>1 DEF CancelTransition
  (* the sequence listed for k is for k, so it is not the one c cancels *)
  <2>2. active[k] # active[c]
    BY <2>1
  <2> QED
    BY <1>1, <2>1, <2>2 DEF CancelTransition
<1>2. ASSUME NEW s \in Seqs, seq[s].pc = "none", NEW c \in Keys, NEW n \in 1..MaxStates,
             InsertActive(s, c, n)
      PROVE  Goal'
  <2>1. CASE k = c
    BY <1>2, <2>1 DEF InsertActive
  <2>2. CASE k # c
    BY <1>2, <2>2 DEF InsertActive
  <2> QED
    BY <2>1, <2>2
<1>3. ASSUME NEW s \in Seqs, SeqCheck(s) \/ SeqWait(s) \/ SeqGet(s) \/ SeqPut(s)
      PROVE  Goal'
  <2>1. CASE SeqCheck(s) \/ SeqWait(s)
    BY <2>1 DEF SeqCheck, SeqWait
  <2>2. CASE SeqGet(s) \/ SeqPut(s)
    BY <2>2, GetFields, PutFields DEF SeqGet, SeqPut
  <2> QED
    BY <1>3, <2>1, <2>2
<1>4. ASSUME NEW s \in Seqs, SeqCleanup(s) PROVE Goal'
  <2>1. k # seq[s].key /\ active'[k] = active[k] /\ active[k] \in Seqs
    BY <1>4 DEF SeqCleanup, CleanedTable
  <2>2. active[k] # s
    BY <2>1
  <2> QED
    BY <1>4, <2>1, <2>2 DEF SeqCleanup
<1>5. CASE UNCHANGED <<active, seq>>
    BY <1>5
<1>6. ASSUME NEW t \in Threads, CallerStep(t) PROVE Goal'
  <2>1. ASSUME StartCancel(t) PROVE Goal'
    <3>1. caller[t].key \in Keys
      BY <2>1 DEF StartCancel, CallerStates, Idle
    <3> QED
      BY <1>1, <2>1, <3>1 DEF StartCancel
  <2>2. ASSUME StartInsert(t) PROVE Goal'
    <3>1. caller[t].key \in Keys /\ caller[t].len \in 1..MaxStates
      BY <2>2 DEF StartInsert, CallerStates, Idle
    <3> QED
      BY <1>2, <2>2, <3>1 DEF StartInsert
  <2> QED
    BY <1>1, <1>5, <1>6, <2>1, <2>2 DEF CallerStep, StartCall, StartVerify, CancelCall
<1> QED
    BY <1>3, <1>4, <1>5, <1>6 DEF Next, SeqStep, vars, PodCreated, PodDeleted

LEMMA EndsStep == TypeOK /\ InRange /\ Ends /\ [Next]_vars => Ends'
<1> SUFFICES ASSUME TypeOK, InRange, Ends, [Next]_vars, NEW u \in Seqs
             PROVE  (/\ seq[u].next <= seq[u].len + 1
                     /\ seq[u].pc \in {"cleanup", "done"} =>
                          seq[u].next > seq[u].len \/ seq[u].cancelled)'
    BY DEF Ends
<1> DEFINE Goal == /\ seq[u].next <= seq[u].len + 1
                   /\ seq[u].pc \in {"cleanup", "done"} =>
                        seq[u].next > seq[u].len \/ seq[u].cancelled
<1> USE DEF TypeOK, Ends, SeqStates, SeqPcs
<1>1. ASSUME NEW s \in Seqs, SeqCheck(s) \/ SeqWait(s) \/ SeqCleanup(s) PROVE Goal'
    BY <1>1 DEF SeqCheck, SeqWait, SeqCleanup, LoopExit
<1>2. ASSUME NEW s \in Seqs, SeqGet(s) \/ SeqPut(s) PROVE Goal'
  <2>1. CASE SeqGet(s)
    BY <2>1, GetFields
  <2>2. CASE SeqPut(s)
    BY <2>2, PutFields
  <2> QED
    BY <1>2, <2>1, <2>2
<1>3. ASSUME NEW t \in Threads, CallerStep(t) PROVE Goal'
  <2>1. ASSUME NEW k, CancelTransition(k) PROVE Goal'
    BY <2>1 DEF CancelTransition
  <2>2. CASE StartInsert(t)
    <3>1. caller[t].len \in 1..MaxStates
      BY <2>2 DEF StartInsert, CallerStates, Idle
    <3>2. PICK s \in Seqs : InsertActive(s, caller[t].key, caller[t].len)
      BY <2>2 DEF StartInsert
    <3>3. CASE u = s
      <4>1. seq'[u].pc = "check" /\ seq'[u].next = 1 /\ seq'[u].len = caller[t].len
        BY <3>2, <3>3 DEF InsertActive
      <4> QED
        BY <3>1, <4>1, MaxStatesAssumption
    <3>4. CASE u # s
      BY <3>2, <3>4 DEF InsertActive
    <3> QED
      BY <3>3, <3>4
  <2>3. CASE UNCHANGED seq
    BY <2>3
  <2> QED
    BY <1>3, <2>1, <2>2, <2>3
    DEF CallerStep, StartCall, StartCancel, StartVerify, CancelCall
<1>4. CASE UNCHANGED seq
    BY <1>4
<1> QED
    BY <1>1, <1>2, <1>3, <1>4 DEF Next, SeqStep, vars, PodCreated, PodDeleted

LEMMA IndInit == Init => IndInv
<1> SUFFICES ASSUME Init PROVE IndInv
    OBVIOUS
<1>1. TypeOK
    BY TypeInit
<1>2. InRange /\ ActiveIsLive /\ LateIsLast /\ Ends
    BY DEF Init, InRange, ActiveIsLive, LateIsLast, Ends
<1> QED
    BY <1>1, <1>2 DEF IndInv

(* The inductive invariant holds in every reachable state.                 *)
THEOREM Invariance == Spec => []IndInv
<1>1. IndInv /\ [Next]_vars => IndInv'
    BY TypeStep, RangeStep, LateStep, ActiveStep, EndsStep DEF IndInv
<1> QED
    BY IndInit, <1>1, PTL DEF Spec

(* The variables keep their types; in particular no sequence ever applies  *)
(* a state beyond the end of its list.                                     *)
THEOREM TypeCorrect == Spec => []TypeOK
<1>1. IndInv => TypeOK
    BY DEF IndInv
<1> QED
    BY Invariance, <1>1, PTL

(* Whatever the interleaving of callers and goroutines, a sequence the     *)
(* table lists is running, uncancelled, and belongs to the key.            *)
THEOREM ListedSequencesLive == Spec => []ActiveIsLive
<1>1. IndInv => ActiveIsLive
    BY DEF IndInv
<1> QED
    BY Invariance, <1>1, PTL

(* A cancelled sequence writes its pod at most once more, for sequences of *)
(* any length and any number of concurrent callers.                        *)
THEOREM CancelledWritesOnce == Spec => []AtMostOneLate
<1>1. IndInv => AtMostOneLate
    BY DEF IndInv, LateIsLast, AtMostOneLate
<1> QED
    BY Invariance, <1>1, PTL
=============================================================================
