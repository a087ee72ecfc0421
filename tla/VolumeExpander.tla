--------------------------- MODULE VolumeExpander ---------------------------
(***************************************************************************)
(* vex, on one node: a watch of the pods of each namespace keeps who       *)
(* mounts what, and each time the metrics of the node are read, the claims *)
(* that are written and short of room are asked to grow.  An error ends    *)
(* the process, to be started again with new watches.                      *)
(***************************************************************************)
EXTENDS Integers, Sequences, FiniteSets, SequencesExt, FiniteSetsExt

CONSTANTS
    Pod, Claim,
    Namespace,
    Of,        \* [Pod \cup Claim -> Namespace]
    Modes,     \* [Pod -> [Claim -> how the containers mount it: {"rw"}, {"ro"}, both or none]]
    Unmanaged, \* claims annotated so
    Margin, Delta,
    Giga,      \* units in what requests are rounded to
    MaxUsed,   \* bound: what pods write to a claim
    MaxErrors \* bound: errors, and watches that end

VARIABLES
    pod,    \* [Pod -> not yet on the node, live or gone]
    pvc,    \* [Claim -> what is used, asked for and granted]
    stats,  \* of the observer: mounts of a claim on a pod
    events, \* [Namespace -> what its watch has yet to tell]
    watch,  \* namespaces whose watch goes on
    vex,    \* what of the last metrics is to be handled; or down
    errors

expanderVars == <<pod, pvc, stats, events, watch, vex, errors>>

VolumeExpanderAssumption ==
    /\ IsFiniteSet(Pod) /\ Unmanaged \subseteq Claim
    /\ Of \in [Pod \cup Claim -> Namespace] /\ Modes \in [Pod -> [Claim -> SUBSET {"rw", "ro"}]]
    /\ Giga \in Nat \ {0} /\ Delta \in Nat \ {0} /\ {Margin, MaxUsed, MaxErrors} \subseteq Nat

Mounts(p) == {c \in Claim : Modes[p][c] # {}}
Live == {p \in Pod : pod[p] = "live"}
Writers(c) == {p \in Live : "rw" \in Modes[p][c]}
Up == [up |-> TRUE, seen |-> <<>>, todo |-> {}]

ExpanderInit ==
    /\ pod = [p \in Pod |-> "new"]
    /\ pvc = [c \in Claim |-> [used |-> 0, request |-> Giga, capacity |-> Giga]]
    /\ stats = {}
    /\ events = [n \in Namespace |-> <<>>]
    /\ watch = Namespace
    /\ vex = Up
    /\ errors = 0

-----------------------------------------------------------------------------
(* Kubernetes, and what runs on the node *)

Told(n, e) == IF n \in watch THEN [events EXCEPT ![n] = Append(@, e)] ELSE events

PodComes(p) ==
    /\ pod[p] = "new"
    /\ pod' = [pod EXCEPT ![p] = "live"]
    /\ events' = Told(Of[p], [type |-> "added", pod |-> p])
    /\ UNCHANGED <<pvc, stats, watch, vex, errors>>

PodGoes(p) ==
    /\ pod[p] = "live"
    /\ pod' = [pod EXCEPT ![p] = "gone"]
    /\ events' = Told(Of[p], [type |-> "deleted", pod |-> p])
    /\ UNCHANGED <<pvc, stats, watch, vex, errors>>

Write(c) ==
    /\ Writers(c) # {} /\ pvc[c].used < Min({MaxUsed, pvc[c].capacity})
    /\ pvc' = [pvc EXCEPT ![c].used = @ + 1]
    /\ UNCHANGED <<pod, stats, events, watch, vex, errors>>

Grant(c) ==
    /\ pvc[c].capacity < pvc[c].request
    /\ pvc' = [pvc EXCEPT ![c].capacity = pvc[c].request]
    /\ UNCHANGED <<pod, stats, events, watch, vex, errors>>

\* The API server ends a watch after a while; merge goes on with the others.
WatchEnds(n) ==
    /\ vex.up /\ n \in watch /\ errors < MaxErrors
    /\ watch' = watch \ {n} /\ errors' = errors + 1
    /\ UNCHANGED <<pod, pvc, stats, events, vex>>

-----------------------------------------------------------------------------
(* The observer *)

\* A container that mounts the claim read only makes the pod a reader.
PodAdded(p) == {[claim |-> c, pod |-> p, readOnly |-> "ro" \in Modes[p][c]] : c \in Mounts(p)}

\* Mutant: a claim is forgotten with the first of its pods.
PodDeleted_Claim(S, p) == {m \in S : m.claim \notin Mounts(p)}
PodDeleted(S, p) == {m \in S : m.pod # p}

Observe(n) ==
    /\ vex.up /\ events[n] # <<>>
    /\ LET e == Head(events[n])
       IN stats' = IF e.type = "added" THEN PodDeleted(stats, e.pod) \cup PodAdded(e.pod) ELSE PodDeleted(stats, e.pod)
    /\ events' = [events EXCEPT ![n] = Tail(@)]
    /\ UNCHANGED <<pod, pvc, watch, vex, errors>>

Closed == watch = {} /\ \A n \in Namespace : events[n] = <<>>
Written(c) == \E m \in stats : m.claim = c /\ ~m.readOnly

-----------------------------------------------------------------------------
(* Metrics and requests *)

Scrape ==
    /\ vex.up /\ vex.todo = {}
    /\ vex' = [vex EXCEPT !.seen = [c \in Claim |-> pvc[c].used], !.todo = Claim]
    /\ UNCHANGED <<pod, pvc, stats, events, watch, errors>>

RoundUp(x) == ((x + Giga - 1) \div Giga) * Giga

\* What is asked for counts, granted or not.
\* Mutant: only what is granted counts.
HasEnough_Granted(c) == vex.seen[c] + Margin < pvc[c].capacity
HasEnough(c) == vex.seen[c] + Margin < Max({pvc[c].request, pvc[c].capacity})

Enlarged(c) == RoundUp(Max({pvc[c].request, pvc[c].capacity, vex.seen[c]}) + Delta)

Down == [Up EXCEPT !.up = FALSE]

Handle(c) ==
    /\ vex.up /\ c \in vex.todo
    /\ IF Closed THEN vex' = Down /\ UNCHANGED pvc
       ELSE /\ vex' = [vex EXCEPT !.todo = @ \ {c}]
            /\ pvc' = IF Written(c) /\ c \notin Unmanaged /\ ~HasEnough(c)
                      THEN [pvc EXCEPT ![c].request = Enlarged(c)] ELSE pvc
    /\ UNCHANGED <<pod, stats, events, watch, errors>>

\* A claim that is gone, a conflict, metrics that cannot be read; a map that is read
\* while the observer writes it.
Fails ==
    /\ vex.up /\ errors < MaxErrors
    /\ vex' = Down /\ errors' = errors + 1
    /\ UNCHANGED <<pod, pvc, stats, events, watch>>

\* A new watch tells of the pods that are there.
Restart ==
    /\ ~vex.up
    /\ vex' = Up /\ stats' = {} /\ watch' = Namespace
    /\ events' = [n \in Namespace |->
           SetToSeq({[type |-> "added", pod |-> p] : p \in {q \in Live : Of[q] = n}})]
    /\ UNCHANGED <<pod, pvc, errors>>

ExpanderNext ==
    \/ \E p \in Pod : PodComes(p) \/ PodGoes(p)
    \/ \E c \in Claim : Write(c) \/ Grant(c) \/ Handle(c)
    \/ \E n \in Namespace : WatchEnds(n) \/ Observe(n)
    \/ Scrape \/ Fails \/ Restart

ExpanderSpec == ExpanderInit /\ [][ExpanderNext]_expanderVars

-----------------------------------------------------------------------------
(* Properties *)

\* With all events through, the observer knows who mounts what, whatever the order the
\* pods came and went in and however often vex was restarted (pvcs.go:154).
Tracks ==
    vex.up /\ watch = Namespace /\ (\A n \in Namespace : events[n] = <<>>) =>
        \A c \in Claim : Written(c) = (\E p \in Live : Modes[p][c] = {"rw"})

\* No claim is asked to grow again while it waits for what it has been promised:
\* requests stay in sight of what is used (main.go:152).
NoRunaway == \A c \in Claim : pvc[c].request <= Max({Giga, RoundUp(pvc[c].used + Margin + Delta)})

\* The two together.
ExpanderKeepsUp == Tracks /\ NoRunaway

\* "target namespaces of PVC to be monitored for resizing" (main.go:68): a claim that is
\* written and short of room.
Short(c) == c \notin Unmanaged /\ Writers(c) # {} /\ pvc[c].used + Margin >= pvc[c].capacity
=============================================================================
