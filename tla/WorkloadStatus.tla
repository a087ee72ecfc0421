--------------------------- MODULE WorkloadStatus ---------------------------
(***************************************************************************)
(* What the status of a Job is made of: the conditions of the Job, and the *)
(* phases, exit codes and events of its pods.  The loops decide from it    *)
(* whether a run is done, failed or never to start.                        *)
(***************************************************************************)
EXTENDS Integers, Sequences, FiniteSets, FiniteSetsExt, Functions

CONSTANTS
    Controller, \* controllers that report events
    Jobs        \* Jobs that Kubernetes may have, see JobType

VARIABLES
    job,  \* the conditions of the Job, and its pods
    seen  \* the status that was reported

workloadVars == <<job, seen>>

NoTime == 0
Unseen == [type |-> "-", code |-> -1]

-----------------------------------------------------------------------------
(* Events *)

Event == [ctl : Controller, type : {"Normal", "Warning"}, time : Nat, series : Nat, last : Nat]

\* When an event was last seen: a series replaces the time of its first event, and
\* the deprecated timestamps count if they are later.
Seen(e) == LET t == IF e.series # NoTime THEN e.series ELSE e.time IN IF e.last > t THEN e.last ELSE t

\* Of two events seen at the same time the one that is there stays.
Newer(events, i, k) == IF i = 0 \/ Seen(events[k]) > Seen(events[i]) THEN k ELSE i

\* latestEventsForController: the place of the latest event of each controller, 0 if
\* there is none, after the first n events.
Latest(events) ==
    LET latest[n \in Nat] ==
            IF n = 0 THEN [c \in Controller |-> 0]
            ELSE [latest[n - 1] EXCEPT ![events[n].ctl] = Newer(events, latest[n - 1][events[n].ctl], n)]
    IN  latest[Len(events)]

\* significantEvent, for its type: a warning if the latest event of some controller
\* is one.  Mutant: only the latest event of all.
Significant_Last(events) ==
    events[CHOOSE i \in DOMAIN events : \A k \in DOMAIN events : Seen(events[k]) <= Seen(events[i])].type
Significant(events) ==
    LET latest == Latest(events)
    IN IF \E c \in Controller : latest[c] # 0 /\ events[latest[c]].type = "Warning" THEN "Warning" ELSE "Normal"

-----------------------------------------------------------------------------
(* Jobs *)

PodOfJob ==
    [phase : {"Pending", "Running", "Succeeded", "Failed"}, scheduled : {"True", "False", "-"},
     exits : Seq(0..255), listed : BOOLEAN, events : Seq(Event)]

Ended == {"Complete", "Failed"}

\* The worst exit code of containers that have ended.
ExitCodes(pods) == UNION {Range(pods[p].exits) : p \in DOMAIN pods}
Worst(pods) == Max({0} \cup ExitCodes(pods))

\* A pod that has a node and a warning; without events nothing is wrong with it.
Stuck(p) ==
    /\ p.phase = "Pending" /\ p.scheduled # "False"
    /\ p.listed /\ p.events # <<>> /\ Significant(p.events) = "Warning"

\* Conditions that are not "True" are passed over.
\* Mutant: they are not.
Condition_Any(cs) == {i \in DOMAIN cs : cs[i].type \in Ended}
Condition(cs) == {i \in DOMAIN cs : cs[i].type \in Ended /\ cs[i].true}

Status(j) ==
    LET over == Condition(j.conditions)
        first == j.conditions[CHOOSE i \in over : \A k \in over : i <= k].type
    IN IF over # {}
       THEN IF first = "Complete" THEN [type |-> "Succeeded", code |-> 0]
            ELSE [type |-> "Failed", code |-> Worst(j.pods)]
       ELSE IF \E i \in DOMAIN j.pods : Stuck(j.pods[i]) THEN [type |-> "Stucking", code |-> 255]
       ELSE IF \E i \in DOMAIN j.pods : j.pods[i].phase # "Pending" THEN [type |-> "Running", code |-> 0]
       ELSE [type |-> "Pending", code |-> 0]

\* A Job as a whole is asked for: nothing else happens to it.
ObserveJob == seen = Unseen /\ seen' = Status(job) /\ UNCHANGED job

-----------------------------------------------------------------------------

\* A Job does not both complete and fail.
JobType ==
    {j \in [conditions : Seq([type : Ended \cup {"Suspended"}, true : BOOLEAN]), pods : Seq(PodOfJob)] :
        LET over == {i \in DOMAIN j.conditions : j.conditions[i].type # "Suspended" /\ j.conditions[i].true}
        IN  \A i, k \in over : j.conditions[i].type = j.conditions[k].type}

WorkloadStatusAssumption == Jobs \subseteq JobType

WorkloadInit == job \in Jobs /\ seen = Unseen

WorkloadNext == ObserveJob

WorkloadBehavior == WorkloadInit /\ [][WorkloadNext]_workloadVars

-----------------------------------------------------------------------------
(* Properties *)

\* The times at which an event was seen.
SeenAt(e) == {e.last} \cup (IF e.series # NoTime THEN {e.series} ELSE {e.time})
\* An event that no other of its controller was seen after.
Unsurpassed(es, i) ==
    \A k \in DOMAIN es : es[k].ctl = es[i].ctl => \A t \in SeenAt(es[k]) : \E u \in SeenAt(es[i]) : u >= t

\* cluster.go:411: a Job is stuck if a pod that has a node has a warning as the newest
\* event of one of its controllers, whatever the others say and however many pods run;
\* a warning that was followed by a normal event of the same controller is past.
StuckIffWarned ==
    seen # Unseen /\ seen.type \in {"Stucking", "Running", "Pending"} =>
        LET warned(W(_, _)) ==
                \E p \in DOMAIN job.pods :
                    LET q == job.pods[p]
                    IN /\ q.phase = "Pending" /\ q.scheduled # "False" /\ q.listed
                       /\ \E i \in DOMAIN q.events : W(q.events, i)
            isNewest(es, i) == es[i].type = "Warning" /\ Unsurpassed(es, i)
            isAlone(es, i)  == isNewest(es, i) /\ \A k \in DOMAIN es :
                                   es[k].ctl = es[i].ctl /\ Unsurpassed(es, k) => es[k].type = "Warning"
        IN /\ seen.type = "Stucking" => warned(isNewest)
           /\ warned(isAlone) => seen.type = "Stucking"

\* A Job is said to have ended exactly if Kubernetes says so, and one that failed says
\* so with the exit code of a container that failed, if there is one (cluster.go:422).
EndIsReal ==
    LET holds(t) == \E i \in DOMAIN job.conditions : job.conditions[i].type = t /\ job.conditions[i].true
    IN seen # Unseen =>
           /\ seen.type = "Succeeded" <=> holds("Complete")
           /\ seen.type = "Failed" <=> holds("Failed")
           /\ seen.type = "Failed" => IF ExitCodes(job.pods) \subseteq {0} THEN seen.code = 0
                                      ELSE seen.code \in ExitCodes(job.pods) \ {0}
=============================================================================
