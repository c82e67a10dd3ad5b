------------------------- MODULE TransitionManager -------------------------
(***************************************************************************)
(* TransitionManager (controllers/pod_controller.go): the table of active  *)
(* transition sequences, the callers of StartTransition and                *)
(* CancelTransition, and one goroutine per sequence.                       *)
(*                                                                         *)
(* The table is protected by a mutex that is taken per map operation, so   *)
(* every action below is one lock region, one store call or one select.    *)
(* The store is seen only through the set of pod names it holds; what a    *)
(* sequence writes into a pod is the business of PodLifecycle.             *)
(***************************************************************************)
EXTENDS Naturals

CONSTANTS
    Namespaces,    \* namespaces of requests, "" already read as "default"
    Names,         \* pod names: the store is flat, keyed by name alone
    Seqs,          \* identities of sequences (*ActiveTransition values)
    NoSeq,         \* "no entry": the nil of the table
    Threads,       \* request goroutines that call the manager
    CancelFlags,   \* the values of TransitionRequest.CancelExisting in use
    MaxStates      \* bound: the most states a sequence lists

ASSUME NoSeqAssumption == NoSeq \notin Seqs
ASSUME MaxStatesAssumption == MaxStates \in Nat \ {0}
ASSUME CancelFlagsAssumption == CancelFlags \subseteq BOOLEAN

VARIABLES
    active,   \* tm.active: the sequence listed under a key
    seq,      \* the goroutines running runTransitionSequence
    caller,   \* where each thread is inside StartTransition
    stored    \* names of the pods in the store (changed by others)

vars == <<active, seq, caller, stored>>

Keys == Namespaces \X Names
NameOf(k) == k[2]

Idle == [pc |-> "idle"]
CallerStates == {Idle} \cup
    [pc : {"cancel", "verify", "insert"}, key : Keys, len : 1..MaxStates]

(* pc: none - not started; check - about to poll ctx.Done; wait - in the   *)
(* select of timer and ctx.Done; get, put - the two store calls of         *)
(* applyState; cleanup - about to run the deferred delete; done - returned. *)
(* late is an auxiliary counter: pod updates made after the cancellation.  *)
SeqPcs == {"none", "check", "wait", "get", "put", "cleanup", "done"}
SeqStates == [pc : SeqPcs, key : Keys, len : 1..MaxStates,
              next : 1..(MaxStates + 1), cancelled : BOOLEAN, late : Nat]

Live(s) == seq[s].pc \notin {"none", "done"}
Running(s) == seq[s].pc \in {"check", "wait", "get", "put"}

TypeOK ==
    /\ active \in [Keys -> Seqs \cup {NoSeq}]
    /\ seq \in [Seqs -> SeqStates]
    /\ caller \in [Threads -> CallerStates]
    /\ stored \subseteq Names

Init ==
    /\ active = [k \in Keys |-> NoSeq]
    /\ \E k \in Keys :
         seq = [s \in Seqs |-> [pc |-> "none", key |-> k, len |-> 1, next |-> 1,
                                cancelled |-> FALSE, late |-> 0]]
    /\ caller = [t \in Threads |-> Idle]
    /\ stored = {}

-----------------------------------------------------------------------------
(* The critical sections of the manager. An operator defined just before   *)
(* the one the actions use (KeptTable before CleanedTable) is a mutation:  *)
(* the same code with a plausible bug, used to see that a property bites.  *)

(* CancelTransition: cancel the listed context and drop the entry, in one  *)
(* lock region; nothing happens when the key has no entry.                 *)
CancelTransition(k) ==
    /\ active' = [active EXCEPT ![k] = NoSeq]
    /\ seq' = [s \in Seqs |-> IF s = active[k]
                              THEN [seq[s] EXCEPT !.cancelled = TRUE]
                              ELSE seq[s]]

(* StartTransition, second lock region: list the new sequence, overwriting *)
(* whatever is listed by then, and start its goroutine.                    *)
InsertActive(s, k, n) ==
    /\ active' = [active EXCEPT ![k] = s]
    /\ seq' = [seq EXCEPT ![s] = [pc |-> "check", key |-> k, len |-> n, next |-> 1,
                                  cancelled |-> FALSE, late |-> 0]]

(* The deferred delete removes the entry of the key, whoever owns it.      *)
KeptTable(s) == active
CleanedTable(s) == [active EXCEPT ![seq[s].key] = NoSeq]

-----------------------------------------------------------------------------
(* Callers.                                                                *)

StartCall(t, k, n, cancelExisting) ==
    /\ caller[t] = Idle
    /\ caller' = [caller EXCEPT ![t] =
                    [pc |-> IF cancelExisting THEN "cancel" ELSE "verify",
                     key |-> k, len |-> n]]
    /\ UNCHANGED <<active, seq, stored>>

StartCancel(t) ==
    /\ caller[t].pc = "cancel"
    /\ CancelTransition(caller[t].key)
    /\ caller' = [caller EXCEPT ![t].pc = "verify"]
    /\ UNCHANGED stored

(* store.GetPod: an absent pod ends the call with an error.                *)
StartVerify(t) ==
    /\ caller[t].pc = "verify"
    /\ caller' = [caller EXCEPT ![t] =
                    IF NameOf(caller[t].key) \in stored
                    THEN [caller[t] EXCEPT !.pc = "insert"]
                    ELSE Idle]
    /\ UNCHANGED <<active, seq, stored>>

StartInsert(t) ==
    /\ caller[t].pc = "insert"
    /\ \E s \in Seqs : /\ seq[s].pc = "none"
                       /\ InsertActive(s, caller[t].key, caller[t].len)
    /\ caller' = [caller EXCEPT ![t] = Idle]
    /\ UNCHANGED stored

CancelCall(t, k) ==
    /\ caller[t] = Idle
    /\ CancelTransition(k)
    /\ UNCHANGED <<caller, stored>>

-----------------------------------------------------------------------------
(* The goroutine of a sequence.                                            *)

(* The loop ends when its range is exhausted or ctx.Done is ready.         *)
LoopExitUnpolled(s) == seq[s].next > seq[s].len
LoopExitLate(s) == seq[s].next > seq[s].len + 1 \/ seq[s].cancelled
LoopExit(s) == seq[s].next > seq[s].len \/ seq[s].cancelled

(* Head of the loop; only a first state with a zero delay is not waited for. *)
SeqCheck(s) ==
    /\ seq[s].pc = "check"
    /\ \E pc \in IF LoopExit(s)
                 THEN {"cleanup"}
                 ELSE IF seq[s].next = 1 THEN {"wait", "get"} ELSE {"wait"} :
         seq' = [seq EXCEPT ![s].pc = pc]
    /\ UNCHANGED <<active, caller, stored>>

(* select { time.After ; ctx.Done }: either branch when both are ready.    *)
SeqWait(s) ==
    /\ seq[s].pc = "wait"
    /\ \/ seq' = [seq EXCEPT ![s].pc = "get"]
       \/ /\ seq[s].cancelled
          /\ seq' = [seq EXCEPT ![s].pc = "cleanup"]
    /\ UNCHANGED <<active, caller, stored>>

NextState(q) == [q EXCEPT !.pc = "check", !.next = q.next + 1]

(* applyState, GetPod: the error of an absent pod is ignored by the loop.  *)
RetryMissingPod(q) == q
OnMissingPod(q) == NextState(q)

SeqGet(s) ==
    /\ seq[s].pc = "get"
    /\ seq' = [seq EXCEPT ![s] = IF NameOf(seq[s].key) \in stored
                                 THEN [seq[s] EXCEPT !.pc = "put"]
                                 ELSE OnMissingPod(seq[s])]
    /\ UNCHANGED <<active, caller, stored>>

(* applyState, UpdatePod: fails, unnoticed, when the pod is gone by now.   *)
SeqPut(s) ==
    /\ seq[s].pc = "put"
    /\ LET writes == NameOf(seq[s].key) \in stored
       IN  seq' = [seq EXCEPT ![s] =
             [NextState(seq[s]) EXCEPT
                !.late = IF writes /\ seq[s].cancelled THEN @ + 1 ELSE @]]
    /\ UNCHANGED <<active, caller, stored>>

SeqCleanup(s) ==
    /\ seq[s].pc = "cleanup"
    /\ active' = CleanedTable(s)
    /\ seq' = [seq EXCEPT ![s].pc = "done"]
    /\ UNCHANGED <<caller, stored>>

-----------------------------------------------------------------------------
(* The rest of the server creates and deletes pods.                        *)
PodCreated(n) ==
    /\ n \notin stored
    /\ stored' = stored \cup {n}
    /\ UNCHANGED <<active, seq, caller>>

PodDeleted(n) ==
    /\ n \in stored
    /\ stored' = stored \ {n}
    /\ UNCHANGED <<active, seq, caller>>

SeqStep(s) == SeqCheck(s) \/ SeqWait(s) \/ SeqGet(s) \/ SeqPut(s) \/ SeqCleanup(s)

CallerStep(t) ==
    \/ \E k \in Keys, n \in 1..MaxStates, c \in CancelFlags : StartCall(t, k, n, c)
    \/ StartCancel(t)
    \/ StartVerify(t)
    \/ StartInsert(t)
    \/ \E k \in Keys : CancelCall(t, k)

Next ==
    \/ \E t \in Threads : CallerStep(t)
    \/ \E s \in Seqs : SeqStep(s)
    \/ \E n \in Names : PodCreated(n) \/ PodDeleted(n)

Spec == Init /\ [][Next]_vars

(* Goroutines are scheduled and timers fire; clients owe nothing.          *)
Fairness == \A s \in Seqs : WF_vars(SeqStep(s))
FairSpec == Spec /\ Fairness

-----------------------------------------------------------------------------
(* A listed sequence is one whose goroutine still runs, for that very pod,  *)
(* with a context nobody cancelled: GetActiveTransition and                *)
(* ListActiveTransitions never report a finished or cancelled sequence,    *)
(* and CancelTransition never cancels one twice, although entries are      *)
(* overwritten and deleted by key from several goroutines.                 *)
ActiveIsLive ==
    \A k \in Keys : active[k] # NoSeq =>
        LET s == active[k] IN
        /\ seq[s].key = k
        /\ Live(s)
        /\ ~seq[s].cancelled

(* The timer and ctx.Done may be ready together, and applyState does not   *)
(* look at the context again, so a cancelled sequence can still write the  *)
(* pod: but once at most, whatever it has left to apply.                   *)
AtMostOneLate == \A s \in Seqs : seq[s].late <= 1

(* No sequence runs for ever or is left blocked, cancelled or not, whether *)
(* or not its pod still exists: goroutines of deleted pods do not leak.    *)
SequencesFinish == \A s \in Seqs : Live(s) ~> seq[s].pc = "done"

(* What StartTransition's comment says of CancelExisting: at most one      *)
(* sequence per pod runs uncancelled. The code does not keep it, even with *)
(* a single caller: the deferred delete of a cancelled sequence removes    *)
(* its successor's entry, and an unlisted sequence cannot be cancelled.    *)
OneRunningPerPod ==
    \A s, u \in Seqs :
        /\ Running(s) /\ ~seq[s].cancelled
        /\ Running(u) /\ ~seq[u].cancelled
        /\ seq[s].key = seq[u].key
        => s = u
=============================================================================
