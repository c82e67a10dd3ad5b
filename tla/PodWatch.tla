------------------------------ MODULE PodWatch ------------------------------
(***************************************************************************)
(* Watching pods (apis/pods.go ListPods and WatchPods): one goroutine per  *)
(* request lists the store every tick and sends what it listed, one event  *)
(* at a time, while pods are written and deleted under it.                 *)
(*                                                                         *)
(* Who writes a pod, and what, is PodLifecycle's business: here a write    *)
(* gives the pod a new version, numbered in the order of the store's lock. *)
(* The type of an event is left out: it is ADDED in the first round and    *)
(* MODIFIED afterwards, whatever happened to the pod, and never DELETED.   *)
(***************************************************************************)
EXTENDS Naturals

CONSTANTS
    Names,        \* pod names
    Namespaces,   \* namespaces in the metadata of pods
    NoNamespace,  \* no namespace: in the metadata, or in the path of a watch
    Watchers,     \* watch requests
    MaxVersions   \* bound: writes of pods

ASSUME NoNamespaceAssumption == NoNamespace \notin Namespaces
ASSUME MaxVersionsAssumption == MaxVersions \in Nat

VARIABLES
    pods,   \* store.podData: the version and namespace of each stored pod
    last,   \* the number of the last version written
    watch   \* the goroutines of the watch requests, and what their clients saw

vars == <<pods, last, watch>>

(* A pod without a namespace has NoNamespace; version 0 is no pod.         *)
Spaces == Namespaces \cup {NoNamespace}
Versions == [ver : 1..MaxVersions, ns : Spaces]
NoPod == [ver |-> 0, ns |-> NoNamespace]
Stored(n) == pods[n] # NoPod

(* left: what is listed and not sent yet; seen: the version of each pod    *)
(* the client was sent last; gone: the client disconnected. asof is not    *)
(* the program's: it remembers the last version written when the list of   *)
(* the round was taken, and no action reads it.                            *)
Items == [name : Names, ver : 1..MaxVersions]
Watch == [pc : {"off", "open", "ended"}, ns : Spaces, left : SUBSET Items,
          seen : [Names -> 0..MaxVersions], gone : BOOLEAN, asof : 0..MaxVersions]

TypeOK ==
    /\ pods \in [Names -> Versions \cup {NoPod}]
    /\ last \in 0..MaxVersions
    /\ watch \in [Watchers -> Watch]

Init ==
    /\ pods = [n \in Names |-> NoPod]
    /\ last = 0
    /\ watch = [w \in Watchers |-> [pc |-> "off", ns |-> NoNamespace, left |-> {},
                                    seen |-> [n \in Names |-> 0], gone |-> FALSE, asof |-> 0]]

-----------------------------------------------------------------------------
(* The store: CreatePod and UpdatePod, DeletePod.                          *)
WritePod(n, ns) ==
    /\ last < MaxVersions
    /\ last' = last + 1
    /\ pods' = [pods EXCEPT ![n] = [ver |-> last + 1, ns |-> ns]]
    /\ UNCHANGED watch

DeletePod(n) ==
    /\ Stored(n)
    /\ pods' = [pods EXCEPT ![n] = NoPod]
    /\ UNCHANGED <<last, watch>>

-----------------------------------------------------------------------------
(* The namespace filter passes every pod to a watch without a namespace,   *)
(* and a pod without a namespace to every watch.                           *)
ShownThoughDeleted(ns, n) == ns = NoNamespace \/ pods[n].ns \in {ns, NoNamespace}
Shown(ns, n) == Stored(n) /\ (ns = NoNamespace \/ pods[n].ns \in {ns, NoNamespace})

(* One list of the store, in one lock region.                              *)
Listed(ns) == {[name |-> n, ver |-> pods[n].ver] : n \in {m \in Names : Shown(ns, m)}}

(* A request, with its first list.                                         *)
WatchPods(w, ns) ==
    /\ watch[w].pc = "off"
    /\ watch' = [watch EXCEPT ![w] = [@ EXCEPT !.pc = "open", !.ns = ns, !.left = Listed(ns),
                                              !.asof = last]]
    /\ UNCHANGED <<pods, last>>

(* One event, in the order of a map. The write to a client that is gone    *)
(* fails unnoticed; the round goes on.                                     *)
Send(w) ==
    /\ \E i \in watch[w].left :
         watch' = [watch EXCEPT
                     ![w].left = watch[w].left \ {i},
                     ![w].seen = [watch[w].seen EXCEPT ![i.name] = i.ver]]
    /\ UNCHANGED <<pods, last>>

(* The ticker is only looked at when a round is over; a tick that comes    *)
(* during a round waits, or is dropped.                                    *)
Overlapping(w) == watch[w].pc = "open"
RoundOver(w) == watch[w].pc = "open" /\ watch[w].left = {}

NotSeen(w) == {i \in Listed(watch[w].ns) : watch[w].seen[i.name] = 0}
Again(w) == Listed(watch[w].ns)

Tick(w) ==
    /\ RoundOver(w)
    /\ watch' = [watch EXCEPT ![w].left = @ \cup Again(w), ![w].asof = last]
    /\ UNCHANGED <<pods, last>>

(* select { Context().Done ; ticker.C }: either when both are ready.       *)
Unnoticed(w) == FALSE
DoneReady(w) == watch[w].gone

Done(w) ==
    /\ RoundOver(w)
    /\ DoneReady(w)
    /\ watch' = [watch EXCEPT ![w].pc = "ended"]
    /\ UNCHANGED <<pods, last>>

Disconnect(w) ==
    /\ watch[w].pc = "open" /\ ~watch[w].gone
    /\ watch' = [watch EXCEPT ![w].gone = TRUE]
    /\ UNCHANGED <<pods, last>>

Next ==
    \/ \E n \in Names : DeletePod(n) \/ \E ns \in Spaces : WritePod(n, ns)
    \/ \E w \in Watchers :
         \/ \E ns \in Spaces : WatchPods(w, ns)
         \/ Send(w) \/ Tick(w) \/ Done(w) \/ Disconnect(w)

Spec == Init /\ [][Next]_vars

(* The ticker ticks and goroutines are scheduled. Done is strongly fair,   *)
(* since select chooses at random among what is ready: a goroutine that    *)
(* always finds its ticker ready too still notices, sooner or later. Pods  *)
(* are written only so often, and no client has to disconnect.             *)
Fairness ==
    \A w \in Watchers : WF_vars(Send(w)) /\ WF_vars(Tick(w)) /\ SF_vars(Done(w))
FairSpec == Spec /\ Fairness

-----------------------------------------------------------------------------
(* When a round is over, the client has been sent every pod the watch      *)
(* shows, as it was stored when the round began, unless it was written or  *)
(* deleted since: writes during a round may reach the next one, but        *)
(* nothing older is skipped, and no event of a round is lost or stale.     *)
NothingMissed ==
    \A w \in Watchers, n \in Names :
        RoundOver(w) /\ Shown(watch[w].ns, n) /\ pods[n].ver <= watch[w].asof
            => watch[w].seen[n] = pods[n].ver

(* What a client is sent of a pod never goes back to an older version,     *)
(* although what was listed is stale by the time it is sent and the pod    *)
(* may have been written, deleted and created anew meanwhile.              *)
SeenNeverGoesBack ==
    [][\A w \in Watchers, n \in Names : watch'[w].seen[n] >= watch[w].seen[n]]_vars

(* When pods come to rest, every watch whose client stays has been sent    *)
(* the stored version of each pod it shows, for good.                      *)
WatchersCatchUp ==
    \A w \in Watchers, n \in Names :
        <>[](watch[w].pc = "open" /\ Shown(watch[w].ns, n) => watch[w].seen[n] = pods[n].ver)

(* The goroutine of a client that went away ends; it does not tick on.     *)
WatchEnds == \A w \in Watchers : watch[w].gone ~> watch[w].pc = "ended"
=============================================================================
