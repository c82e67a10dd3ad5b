---------------------------- MODULE PodLifecycle ----------------------------
(***************************************************************************)
(* A pod from POST to DELETE: the handlers of apis/pods.go and             *)
(* apis/simulate.go, the PodController with its startup goroutines, the    *)
(* template registry and the pod store, composed with TransitionManager.   *)
(*                                                                         *)
(* The store is flat (one table, keyed by pod name); transitions and       *)
(* templates are keyed by namespace and name. A pod's content is reduced   *)
(* to what the properties tell apart: whose spec it holds, whose creation  *)
(* time, whether it has owner references, and the last status written.     *)
(* Creations are numbered: number i is the i-th incarnation.               *)
(***************************************************************************)
EXTENDS Naturals, Sequences, FiniteSetsExt

CONSTANTS
    Namespaces,   \* "" is read as "default" before a key is built
    Names,        \* pod names
    Threads,      \* request goroutines of the API server
    MaxStates,    \* bound: states of a template
    Lens,         \* bound: the lengths of the templates posted
    MaxCreates,   \* bound: successful POSTs of a pod
    CanStop       \* whether PodController.Stop may be called

ASSUME KeysAssumption == Namespaces # {} /\ Names # {}
ASSUME MaxStatesAssumption == MaxStates \in Nat \ {0}
ASSUME MaxCreatesAssumption == MaxCreates \in Nat \ {0}
ASSUME LensAssumption == Lens \subseteq 1..MaxStates
ASSUME CanStopAssumption == CanStop \in BOOLEAN

VARIABLES
    pods,      \* store.podData
    active,    \* TransitionManager.active
    seq,       \* the goroutines of runTransitionSequence
    seqRead,   \* what applyState read of the pod it is about to update
    timer,     \* the goroutines started by OnPodCreated
    template,  \* TemplateRegistry.templates: length of the list, 0 for none
    h,         \* the request handlers
    stopped,   \* stopCh is closed
    incs       \* auxiliary: the incarnations created so far

vars == <<pods, active, seq, seqRead, timer, template, h, stopped, incs>>

Incs == 1..MaxCreates
Keys == Namespaces \X Names

(* inc: whose spec; ct: whose creationTimestamp (0: none); kind, step, by: *)
(* the status - Pending (1) and Running (2) of the default controller, or  *)
(* state number step of a template - and the incarnation that wrote it.    *)
NoPod == [inc |-> 0, ct |-> 0, owned |-> FALSE, kind |-> "none", step |-> 0, by |-> 0]
PodRecords == [inc : Incs, ct : 0..MaxCreates, owned : BOOLEAN,
               kind : {"none", "default", "template"},
               step : 0..(MaxStates + 2), by : 0..MaxCreates]

CreatePcs == {"lookup", "cancel", "verify", "insert", "pendingGet", "pendingPut"}
Handlers == [pc : {"idle"}]
    \cup [pc : CreatePcs, inc : Incs, len : 0..MaxStates, read : PodRecords \cup {NoPod}]
    \cup [pc : {"delCancel", "delTemplate", "delStore", "simCancel"}, key : Keys]
Idle == [pc |-> "idle"]
Timers == [pc : {"none", "wait", "put", "done"}, read : PodRecords \cup {NoPod}]

Stored(n) == pods[n] # NoPod
KeyOf(i) == incs[i].key
NameOf(i) == KeyOf(i)[2]

(* TransitionManager's view of this state: its callers are the POST        *)
(* handlers inside StartTransition, its sequences are numbered like the    *)
(* incarnations that start them.                                           *)
TM == INSTANCE TransitionManager WITH
        Seqs <- Incs, NoSeq <- 0, CancelFlags <- {TRUE},
        stored <- {n \in Names : Stored(n)},
        caller <- [t \in Threads |->
                     IF h[t].pc \in {"cancel", "verify", "insert"}
                     THEN [pc |-> h[t].pc, key |-> KeyOf(h[t].inc), len |-> h[t].len]
                     ELSE Idle]

TypeOK ==
    /\ pods \in [Names -> PodRecords \cup {NoPod}]
    /\ TM!TypeOK
    /\ seqRead \in [Incs -> PodRecords \cup {NoPod}]
    /\ timer \in [Incs -> Timers]
    /\ template \in [Keys -> 0..MaxStates]
    /\ h \in [Threads -> Handlers]
    /\ stopped \in BOOLEAN
    /\ incs \in Seq([key : Keys, owned : BOOLEAN, clean : BOOLEAN])
    /\ Len(incs) <= MaxCreates

Init ==
    /\ pods = [n \in Names |-> NoPod]
    /\ active = [k \in Keys |-> 0]
    /\ seq = [s \in Incs |-> [pc |-> "none", key |-> CHOOSE k \in Keys : TRUE,
                              len |-> 1, next |-> 1, cancelled |-> FALSE, late |-> 0]]
    /\ seqRead = [s \in Incs |-> NoPod]
    /\ timer = [i \in Incs |-> [pc |-> "none", read |-> NoPod]]
    /\ template = [k \in Keys |-> 0]
    /\ h = [t \in Threads |-> Idle]
    /\ stopped = FALSE
    /\ incs = <<>>

-----------------------------------------------------------------------------
(* The pod table.                                                          *)

(* UpdatePod replaces the stored pod; it is an error when there is none.   *)
UpsertPod(n, p) == pods' = [pods EXCEPT ![n] = p]
UpdatePod(n, p) == pods' = IF Stored(n) THEN [pods EXCEPT ![n] = p] ELSE pods
RemovePod(n) == pods' = [pods EXCEPT ![n] = NoPod]

(* The template registry.                                                  *)
GetTemplate(k) == template[k]
RegisterTemplate(k, len) == template' = [template EXCEPT ![k] = len]
RemoveTemplate(k) == template' = [template EXCEPT ![k] = 0]

(* The goroutines and handlers that may still write the pod of POST i.     *)
Unfinished(i) ==
    \/ timer[i].pc \in {"wait", "put"}
    \/ TM!Live(i)
    \/ \E t \in Threads : h[t].pc \in CreatePcs /\ h[t].inc = i

(* The POST the stored pod n came from.                                    *)
Posts(n) == {i \in DOMAIN incs : NameOf(i) = n}
Current(n) == Max(Posts(n))

-----------------------------------------------------------------------------
(* store.CreatePod: a name in use is an error and changes nothing. owned   *)
(* says that the manifest carries ownerReferences and a creationTimestamp, *)
(* as those of a ReplicaSet do; clean records that nothing left over from  *)
(* earlier pods of the name can still write.                               *)
Stamp(i, owned) == IF owned THEN i ELSE 0

CreatePod(t, k, owned, pc) ==
    LET n == k[2]
        i == Len(incs) + 1
    IN  /\ h[t] = Idle
        /\ i <= MaxCreates
        /\ ~Stored(n)
        /\ pods' = [pods EXCEPT ![n] = [NoPod EXCEPT !.inc = i, !.ct = Stamp(i, owned),
                                                       !.owned = owned]]
        /\ incs' = Append(incs, [key |-> k, owned |-> owned,
                                 clean |-> \A j \in Posts(n) : ~Unfinished(j)])
        /\ h' = [h EXCEPT ![t] = [pc |-> pc, inc |-> i, len |-> 0, read |-> NoPod]]
        /\ UNCHANGED <<active, seq, seqRead, timer, template, stopped>>

(* POST pods looks for a template; a ReplicaSet's pod (createPodForReplica- *)
(* Set) goes straight to OnPodCreated.                                     *)
PostPod(t, k, owned) == CreatePod(t, k, owned, "lookup")
CreatePodForReplicaSet(t, k) == CreatePod(t, k, TRUE, "pendingGet")

(* GetTemplate: with a template StartTransition (CancelExisting: true),    *)
(* without one PodController.OnPodCreated.                                 *)
AfterLookupNoCancel(len) == IF len > 0 THEN "verify" ELSE "pendingGet"
AfterLookup(len) == IF len > 0 THEN "cancel" ELSE "pendingGet"

PostLookup(t) ==
    /\ h[t].pc = "lookup"
    /\ LET len == GetTemplate(KeyOf(h[t].inc))
       IN  h' = [h EXCEPT ![t].pc = AfterLookup(len), ![t].len = len]
    /\ UNCHANGED <<pods, active, seq, seqRead, timer, template, stopped, incs>>

PostCancel(t) ==
    /\ h[t].pc = "cancel"
    /\ h' = [h EXCEPT ![t].pc = "verify"]
    /\ UNCHANGED <<pods, seqRead, timer, template, stopped, incs>>
    /\ TM!StartCancel(t)

PostVerify(t) ==
    /\ h[t].pc = "verify"
    /\ h' = [h EXCEPT ![t] = IF Stored(NameOf(h[t].inc))
                             THEN [h[t] EXCEPT !.pc = "insert"] ELSE Idle]
    /\ UNCHANGED <<pods, active, seq, seqRead, timer, template, stopped, incs>>

PostInsert(t) ==
    /\ h[t].pc = "insert"
    /\ h' = [h EXCEPT ![t] = Idle]
    /\ UNCHANGED <<pods, seqRead, timer, template, stopped, incs>>
    /\ TM!InsertActive(h[t].inc, KeyOf(h[t].inc), h[t].len)

(* OnPodCreated: updatePodStatusWithMetadata reads the stored pod for its  *)
(* owner references ...                                                    *)
PostPendingGet(t) ==
    /\ h[t].pc = "pendingGet"
    /\ h' = [h EXCEPT ![t].pc = "pendingPut", ![t].read = pods[NameOf(h[t].inc)]]
    /\ UNCHANGED <<pods, active, seq, seqRead, timer, template, stopped, incs>>

(* The owner references of the request, or else those of the stored pod.   *)
OwnersKept(i, read) == incs[i].owned \/ read.owned

(* ... and replaces it with the pod of the request, stamped and Pending.   *)
PendingPodOrphaned(i, read) ==
    [inc |-> i, ct |-> i, owned |-> FALSE, kind |-> "default", step |-> 1, by |-> i]
PendingPod(i, read) ==
    [inc |-> i, ct |-> i, owned |-> OwnersKept(i, read),
     kind |-> "default", step |-> 1, by |-> i]

(* The startup goroutine is only started when that update succeeded.       *)
NoStartup(i) == timer
Startup(i) == [timer EXCEPT ![i].pc = "wait"]

PostPendingPut(t) ==
    LET i == h[t].inc
        n == NameOf(i)
    IN  /\ h[t].pc = "pendingPut"
        /\ UpdatePod(n, PendingPod(i, h[t].read))
        /\ timer' = IF Stored(n) THEN Startup(i) ELSE timer
        /\ h' = [h EXCEPT ![t] = Idle]
        /\ UNCHANGED <<active, seq, seqRead, template, stopped, incs>>

-----------------------------------------------------------------------------
(* The startup goroutine: select { time.After(StartupDelay) ; stopCh }. It *)
(* is not told when its pod is deleted. OnPodStarted works on the pod as   *)
(* it was posted; updatePodStatus first reads the stored one ...           *)
TimerFire(i) ==
    /\ timer[i].pc = "wait"
    /\ timer' = [timer EXCEPT ![i] = [pc |-> "put", read |-> pods[NameOf(i)]]]
    /\ UNCHANGED <<pods, active, seq, seqRead, template, h, stopped, incs>>

TimerStop(i) ==
    /\ timer[i].pc = "wait"
    /\ stopped
    /\ timer' = [timer EXCEPT ![i].pc = "done"]
    /\ UNCHANGED <<pods, active, seq, seqRead, template, h, stopped, incs>>

(* ... for its creationTimestamp and owner references, then replaces it.   *)
RunningPodUnstamped(i, read) ==
    [inc |-> i, ct |-> Stamp(i, incs[i].owned), owned |-> OwnersKept(i, read),
     kind |-> "default", step |-> 2, by |-> i]
RunningPod(i, read) ==
    [inc |-> i, ct |-> IF read.ct # 0 THEN read.ct ELSE Stamp(i, incs[i].owned),
     owned |-> OwnersKept(i, read),
     kind |-> "default", step |-> 2, by |-> i]

TimerPut(i) ==
    /\ timer[i].pc = "put"
    /\ UpdatePod(NameOf(i), RunningPod(i, timer[i].read))
    /\ timer' = [timer EXCEPT ![i] = [pc |-> "done", read |-> NoPod]]
    /\ UNCHANGED <<active, seq, seqRead, template, h, stopped, incs>>

Stop ==
    /\ CanStop /\ ~stopped
    /\ stopped' = TRUE
    /\ UNCHANGED <<pods, active, seq, seqRead, timer, template, h, incs>>

-----------------------------------------------------------------------------
(* A transition sequence: TransitionManager's steps, with what applyState  *)
(* reads and writes. It keeps spec, labels and creationTimestamp of the    *)
(* pod it read and drops the owner references.                             *)
AppliedPodBlank(s, read) ==
    [NoPod EXCEPT !.kind = "template", !.step = seq[s].next, !.by = s]
AppliedPod(s, read) ==
    [read EXCEPT !.owned = FALSE, !.kind = "template", !.step = seq[s].next, !.by = s]

SeqControl(s) ==
    /\ UNCHANGED <<pods, seqRead, timer, template, h, stopped, incs>>
    /\ TM!SeqCheck(s) \/ TM!SeqWait(s) \/ TM!SeqCleanup(s)

SeqGet(s) ==
    /\ seq[s].pc = "get"
    /\ seqRead' = [seqRead EXCEPT ![s] = pods[NameOf(s)]]
    /\ UNCHANGED <<pods, timer, template, h, stopped, incs>>
    /\ TM!SeqGet(s)

SeqPut(s) ==
    /\ seq[s].pc = "put"
    /\ UpdatePod(NameOf(s), AppliedPod(s, seqRead[s]))
    /\ seqRead' = [seqRead EXCEPT ![s] = NoPod]
    /\ UNCHANGED <<timer, template, h, stopped, incs>>
    /\ TM!SeqPut(s)

SeqStep(s) == SeqControl(s) \/ SeqGet(s) \/ SeqPut(s)

-----------------------------------------------------------------------------
(* DELETE pods (apis/pods.go DeletePod): the pod is looked up and deleted  *)
(* by name, transitions and templates by the namespace of the path.        *)
DeleteBegins(t, k) ==
    /\ h[t] = Idle
    /\ h' = [h EXCEPT ![t] = [pc |-> "delCancel", key |-> k]]
    /\ UNCHANGED <<pods, active, seq, seqRead, timer, template, stopped, incs>>

DeletePod(t, k) == Stored(k[2]) /\ DeleteBegins(t, k)

(* deletePod of the ReplicaSet controller does the same without a lookup:  *)
(* the pod was in a list made before, and may be gone or another by now.   *)
(* (Its namespace is always "default"; here it may be any.)                *)
DeletePodOfReplicaSet(t, k) ==
    /\ \E i \in Posts(k[2]) : incs[i].owned
    /\ DeleteBegins(t, k)

DeleteCancel(t) ==
    /\ h[t].pc = "delCancel"
    /\ h' = [h EXCEPT ![t].pc = "delTemplate"]
    /\ UNCHANGED <<pods, seqRead, timer, template, stopped, incs>>
    /\ TM!CancelTransition(h[t].key)

DeleteTemplate(t) ==
    /\ h[t].pc = "delTemplate"
    /\ RemoveTemplate(h[t].key)
    /\ h' = [h EXCEPT ![t].pc = "delStore"]
    /\ UNCHANGED <<pods, active, seq, seqRead, timer, stopped, incs>>

(* store.DeletePod; a pod deleted by another request meanwhile is a 500.   *)
DeleteStore(t) ==
    /\ h[t].pc = "delStore"
    /\ RemovePod(h[t].key[2])
    /\ h' = [h EXCEPT ![t] = Idle]
    /\ UNCHANGED <<active, seq, seqRead, timer, template, stopped, incs>>

-----------------------------------------------------------------------------
(* POST /simulate/controller/pod: registering replaces the template. (The  *)
(* GetTemplate before it only words the answer.)                           *)
SimulatePod(t, k, len) ==
    /\ h[t] = Idle
    /\ RegisterTemplate(k, len)
    /\ UNCHANGED <<pods, active, seq, seqRead, timer, h, stopped, incs>>

(* DELETE /simulate/controller/pod/:name: only the caller that removed a   *)
(* template goes on to cancel the sequence.                                *)
CancelPodTransition(t, k) ==
    /\ h[t] = Idle
    /\ GetTemplate(k) > 0
    /\ RemoveTemplate(k)
    /\ h' = [h EXCEPT ![t] = [pc |-> "simCancel", key |-> k]]
    /\ UNCHANGED <<pods, active, seq, seqRead, timer, stopped, incs>>

SimCancel(t) ==
    /\ h[t].pc = "simCancel"
    /\ h' = [h EXCEPT ![t] = Idle]
    /\ UNCHANGED <<pods, seqRead, timer, template, stopped, incs>>
    /\ TM!CancelTransition(h[t].key)

-----------------------------------------------------------------------------
Request(t) ==
    \/ \E k \in Keys, owned \in BOOLEAN : PostPod(t, k, owned)
    \/ \E k \in Keys : CreatePodForReplicaSet(t, k) \/ DeletePodOfReplicaSet(t, k)
    \/ \E k \in Keys : DeletePod(t, k) \/ CancelPodTransition(t, k)
    \/ \E k \in Keys, len \in Lens : SimulatePod(t, k, len)

HandlerStep(t) ==
    \/ PostLookup(t) \/ PostCancel(t) \/ PostVerify(t) \/ PostInsert(t)
    \/ PostPendingGet(t) \/ PostPendingPut(t)
    \/ DeleteCancel(t) \/ DeleteTemplate(t) \/ DeleteStore(t)
    \/ SimCancel(t)

TimerStep(i) == TimerFire(i) \/ TimerPut(i)

Next ==
    \/ \E t \in Threads : Request(t) \/ HandlerStep(t)
    \/ \E i \in Incs : TimerStep(i) \/ TimerStop(i) \/ SeqStep(i)
    \/ Stop

Spec == Init /\ [][Next]_vars

(* A request once begun is served, timers fire, goroutines are scheduled;  *)
(* no client has to send anything, nobody has to stop the controller.      *)
Fairness ==
    /\ \A t \in Threads : WF_vars(HandlerStep(t))
    /\ \A i \in Incs : WF_vars(TimerStep(i)) /\ WF_vars(SeqStep(i))
FairSpec == Spec /\ Fairness

-----------------------------------------------------------------------------
(* The table of sequences and the goroutines behave as TransitionManager   *)
(* says, with the handlers of the API as its callers: every transition is  *)
(* started with CancelExisting, and nothing else touches the table.        *)
ImplementsTransitionManager == TM!Spec

(* To its clients the table of pods behaves as PodTable says, where the    *)
(* agent of a POST is its handler with the startup goroutine, or the       *)
(* sequence: each status of a pod is written once and in order, none is    *)
(* skipped while there is a pod to write, and only a POST adds a pod.      *)
Progress(i) ==
    IF seq[i].next > 1 THEN [kind |-> "template", step |-> seq[i].next - 1]
    ELSE IF timer[i].pc = "none" THEN [kind |-> "none", step |-> 0]
    ELSE [kind |-> "default", step |-> IF timer[i].pc = "done" THEN 2 ELSE 1]
Row(p) == [inc |-> p.inc, ct |-> p.ct, kind |-> p.kind, step |-> p.step, by |-> p.by]

PT == INSTANCE PodTable WITH
        table <- [n \in Names |-> Row(pods[n])],
        posted <- [i \in DOMAIN incs |-> NameOf(i)],
        progress <- [i \in Incs |-> Progress(i)],
        halted <- stopped
ImplementsPodTable == PT!Spec

(* The goroutines of a deleted pod are the only ones that can disturb a    *)
(* pod: one posted when none were left for its name holds its own spec,    *)
(* its own creation time and a status written on its own behalf, for as    *)
(* long as it is stored, whatever other requests do meanwhile; and, while  *)
(* the default controller has it, exactly the owner references it came     *)
(* with - the link by which a ReplicaSet counts its pods.                  *)
CleanPodIsItsOwn ==
    \A n \in Names : Stored(n) /\ incs[Current(n)].clean =>
        /\ pods[n].inc = Current(n)
        /\ pods[n].ct \in {0, Current(n)}
        /\ pods[n].by \in {0, Current(n)}
        /\ pods[n].kind # "template" => pods[n].owned = incs[Current(n)].owned

(* Such a pod's life only moves forward: from no status to Pending to      *)
(* Running, or through the states of its template in order, and never from *)
(* the one to the other; its creationTimestamp survives each update.       *)
CleanPodAdvances ==
    [][\A n \in Names :
         Stored(n) /\ incs[Current(n)].clean /\ Stored(n)' =>
            /\ pods'[n].step >= pods[n].step
            /\ pods[n].kind # "none" => pods'[n].kind = pods[n].kind
            /\ pods[n].ct # 0 => pods'[n].ct = pods[n].ct]_vars

(* Every POST eventually brings its pod to Running, or to the last state   *)
(* of its template - unless the pod is deleted first, or a client cancels  *)
(* the sequence. (A goroutine left over from an earlier pod may write the  *)
(* pod after that, so only a clean pod is known to stay there.)            *)
Finished(i) ==
    LET p == pods[NameOf(i)] IN
    /\ p.by = i
    /\ \/ p.kind = "default" /\ p.step = 2
       \/ p.kind = "template" /\ p.step = seq[i].len
Gone(i) == ~Stored(NameOf(i)) \/ Current(NameOf(i)) # i
BeingPosted(i) ==
    \E t \in Threads : h[t].pc \in {"lookup", "pendingGet"} /\ h[t].inc = i
PodsSettle ==
    \A i \in Incs :
        BeingPosted(i) ~>
            i \in DOMAIN incs /\ (Finished(i) \/ Gone(i) \/ seq[i].cancelled)

(* Nobody has to wait for what will not come: a clean pod that has not     *)
(* reached its last status has a goroutine or a handler that still works   *)
(* for it, unless a client cancelled its sequence, or the controller was   *)
(* stopped before the pod was Running. No failed step and no deletion of   *)
(* another pod, however it falls, leaves a pod behind half-way.            *)
NoneLeftBehind ==
    \A n \in Names : Stored(n) =>
        LET c == Current(n) IN
        incs[c].clean /\ ~Unfinished(c) =>
            \/ Finished(c)
            \/ seq[c].cancelled
            \/ stopped /\ pods[n].kind = "default"

(* What the comment of PodController.StartupDelay says: a pod stays in     *)
(* Pending for the delay before it is Running. The code does not keep it:  *)
(* the startup goroutine of a deleted pod makes its successor Running.     *)
RunningAfterOwnDelay ==
    \A n \in Names :
        Stored(n) /\ pods[n].kind = "default" /\ pods[n].step = 2
            => pods[n].by = Current(n)
=============================================================================
