------------------------------ MODULE PodTable ------------------------------
(***************************************************************************)
(* What the pods API promises about the table of pods, whatever its        *)
(* handlers, timers and sequences are doing: the abstract specification    *)
(* PodLifecycle implements.                                                *)
(*                                                                         *)
(* POSTs are numbered. Each POST has one agent that advances through the   *)
(* statuses of its pod one at a time - Pending and Running, or the states  *)
(* of a template - never back and never twice. An agent that outlives its  *)
(* pod may write the next pod of the name, even with an older spec, but it *)
(* brings no pod back.                                                     *)
(***************************************************************************)
EXTENDS Naturals, Sequences

CONSTANTS
    Names,      \* pod names
    MaxStates,  \* bound: states of a template
    MaxCreates  \* bound: successful POSTs

VARIABLES
    table,     \* the stored pod of each name
    posted,    \* the name of each POST so far
    progress,  \* the last status each POST's agent came to
    halted     \* the default controller is stopped

ptVars == <<table, posted, progress, halted>>

NoRow == [inc |-> 0, ct |-> 0, kind |-> "none", step |-> 0, by |-> 0]
Unstarted == [kind |-> "none", step |-> 0]
Present(n) == table[n] # NoRow
PostsOf(n) == {i \in DOMAIN posted : posted[i] = n}

(* The default controller has two statuses, a template up to MaxStates.    *)
Last(kind) == IF kind = "default" THEN 2 ELSE MaxStates

Init ==
    /\ table = [n \in Names |-> NoRow]
    /\ posted = <<>>
    /\ progress = [i \in 1..MaxCreates |-> Unstarted]
    /\ halted = FALSE

Post(n) ==
    LET i == Len(posted) + 1 IN
    /\ i <= MaxCreates
    /\ ~Present(n)
    /\ posted' = Append(posted, n)
    /\ \E ct \in {0, i} :
         table' = [table EXCEPT ![n] =
                     [inc |-> i, ct |-> ct, kind |-> "none", step |-> 0, by |-> 0]]
    /\ UNCHANGED <<progress, halted>>

Delete(n) ==
    /\ UNCHANGED <<posted, progress, halted>>
    /\ table' = [table EXCEPT ![n] = NoRow]

(* The agent of POST i comes to its next status ...                        *)
Advance(i, kind) ==
    /\ progress[i].kind \in {"none", kind}
    /\ progress[i].step < Last(kind)
    /\ progress' = [progress EXCEPT ![i] = [kind |-> kind, step |-> progress[i].step + 1]]
    /\ UNCHANGED <<posted, halted>>

(* ... and writes it into the pod stored under its name: the default       *)
(* controller with the spec of its own POST, a template with that of the   *)
(* pod it read.                                                            *)
Write(i, kind) ==
    LET n == posted[i] IN
    /\ Advance(i, kind)
    /\ Present(n)
    /\ \E inc \in PostsOf(n), ct \in PostsOf(n) \cup {0} :
         /\ kind = "default" => inc = i
         /\ table' = [table EXCEPT ![n] = [inc |-> inc, ct |-> ct, kind |-> kind,
                                           step |-> progress[i].step + 1, by |-> i]]

(* A status is only skipped when there is no pod to write; Running also    *)
(* when the default controller is stopped before it comes to it.           *)
Skip(i, kind) ==
    /\ Advance(i, kind)
    /\ \/ ~Present(posted[i])
       \/ kind = "default" /\ progress[i].step = 1 /\ halted
    /\ UNCHANGED table

Halt ==
    /\ ~halted
    /\ halted' = TRUE
    /\ UNCHANGED <<table, posted, progress>>

Next ==
    \/ \E n \in Names : Post(n) \/ Delete(n)
    \/ \E i \in DOMAIN posted, kind \in {"default", "template"} : Write(i, kind) \/ Skip(i, kind)
    \/ Halt

Spec == Init /\ [][Next]_ptVars
=============================================================================
