----------------------------- MODULE Provisioning ----------------------------
(***************************************************************************)
(* The volumes of runs: the initialize loop makes one per output before a  *)
(* run is ready, retry and deletion turn them into garbage, and the        *)
(* garbage collector destroys them.  The rest of a run's life is in        *)
(* RunLoops.  The name of a volume comes from the id of its data, which is *)
(* new for each attempt.                                                   *)
(***************************************************************************)
EXTENDS Naturals, FiniteSets

CONSTANTS
    Run,
    Vol,       \* bound: the volumes that can be named
    Outputs,   \* [Run -> how many outputs it has, its log included]
    Collector, \* garbage collectors
    MaxFaults  \* bound: refused or lost requests, timeouts, stopped processes

VARIABLES
    status,  \* [Run -> its status, as far as volumes go]
    outs,    \* [Run -> the volumes of its outputs]
    named,   \* the volumes that have ever been named
    garbage,
    vol,     \* [Vol -> the PVC]
    init,    \* the initialize loop: the run it locked, and its promises
    gc,      \* [Collector -> the garbage it locked and what it does]
    faults

db == <<status, outs, named, garbage>>
vars == <<db, vol, init, gc, faults>>

Nobody == "-"

ASSUME ProvisioningAssumption ==
    /\ Nobody \notin Run \cup Vol
    /\ Outputs \in [Run -> Nat \ {0}] /\ MaxFaults \in Nat

Idle == [at |-> "idle", run |-> Nobody, todo |-> {}, wait |-> {}, prom |-> [v \in Vol |-> "none"]]
NoGarbage == [at |-> "idle", vol |-> Nobody]

TypeOK ==
    /\ status \in [Run -> {"none", "waiting", "ready", "finished", "gone"}]
    /\ outs \in [Run -> SUBSET named] /\ garbage \subseteq named /\ named \subseteq Vol
    /\ vol \in [Vol -> {"none", "pending", "bound", "deleting"}]
    /\ init \in [at : {"idle", "create", "await"}, run : Run \cup {Nobody}, todo : SUBSET Vol,
                 wait : SUBSET Vol, prom : [Vol -> {"none", "polling", "ok", "conflict", "failed"}]]
    /\ gc \in [Collector -> [at : {"idle", "delete", "poll", "commit"}, vol : Vol \cup {Nobody}]]
    /\ faults \in 0..MaxFaults

Init ==
    /\ status = [r \in Run |-> "none"] /\ outs = [r \in Run |-> {}]
    /\ named = {} /\ garbage = {} /\ vol = [v \in Vol |-> "none"]
    /\ init = Idle /\ gc = [g \in Collector |-> NoGarbage] /\ faults = 0

\* The row of the run is locked by the initialize loop.
Locked(r) == init.at # "idle" /\ init.run = r

Fault == faults < MaxFaults /\ faults' = faults + 1

-----------------------------------------------------------------------------
(* Runs *)

\* Mutant: a new attempt goes on with the volumes that the last one had.
NewOutputs_Reused(r) ==
    \E new \in SUBSET Vol :
        /\ Cardinality(new) = Outputs[r] /\ outs[r] \subseteq new
        /\ outs' = [outs EXCEPT ![r] = new] /\ named' = named \cup new

\* Mutant: a name may be given twice.
NewOutputs_Unnamed(r) ==
    \E new \in SUBSET (Vol \ named) :
        /\ Cardinality(new) = Outputs[r]
        /\ outs' = [outs EXCEPT ![r] = new] /\ named' = named

\* The outputs of a new attempt get data, and volumes, of their own.
NewOutputs(r) ==
    \E new \in SUBSET (Vol \ named) :
        /\ Cardinality(new) = Outputs[r]
        /\ outs' = [outs EXCEPT ![r] = new] /\ named' = named \cup new

New(r) ==
    /\ status[r] = "none" /\ status' = [status EXCEPT ![r] = "waiting"]
    /\ NewOutputs(r) /\ UNCHANGED <<garbage, vol, init, gc, faults>>

\* The run is over: aborted while it waited, or with its worker gone.
Finish(r) ==
    /\ status[r] \in {"waiting", "ready"} /\ ~ Locked(r)
    /\ status' = [status EXCEPT ![r] = "finished"]
    /\ UNCHANGED <<outs, named, garbage, vol, init, gc, faults>>

\* Mutant: what the last attempt has left is forgotten.
Retire_Forgets(r) == garbage' = garbage
Retire(r) == garbage' = garbage \cup outs[r]

Retry(r) ==
    /\ status[r] = "finished" /\ status' = [status EXCEPT ![r] = "waiting"]
    /\ Retire(r) /\ NewOutputs(r) /\ UNCHANGED <<vol, init, gc, faults>>

Delete(r) ==
    /\ status[r] = "finished" /\ status' = [status EXCEPT ![r] = "gone"]
    /\ Retire(r) /\ outs' = [outs EXCEPT ![r] = {}]
    /\ UNCHANGED <<named, vol, init, gc, faults>>

-----------------------------------------------------------------------------
(* The initialize loop *)

Pick(r) ==
    /\ init.at = "idle" /\ status[r] = "waiting"
    /\ init' = [Idle EXCEPT !.at = "create", !.run = r, !.todo = outs[r], !.wait = outs[r]]
    /\ UNCHANGED <<db, vol, gc, faults>>

\* A request has been made for v, with this outcome.
Asked(v, outcome) ==
    init' = [init EXCEPT !.todo = @ \ {v}, !.prom[v] = outcome,
                         !.at = IF init.todo = {v} THEN "await" ELSE @]

\* NewPVC: a volume that is there already is a conflict.
NewPVC(v) ==
    /\ init.at = "create" /\ v \in init.todo
    /\ IF vol[v] = "none"
       THEN vol' = [vol EXCEPT ![v] = "pending"] /\ Asked(v, "polling")
       ELSE Asked(v, "conflict") /\ UNCHANGED vol
    /\ UNCHANGED <<db, gc, faults>>

\* The request is refused, or its answer is lost.
NewPVCFails(v) ==
    /\ init.at = "create" /\ v \in init.todo /\ Fault /\ Asked(v, "failed")
    /\ \/ UNCHANGED vol
       \/ vol[v] = "none" /\ vol' = [vol EXCEPT ![v] = "pending"]
    /\ UNCHANGED <<db, gc>>

\* GetPVC, tried again until the volume is bound.
GetPVC(v) ==
    /\ init.at = "await" /\ init.prom[v] = "polling"
    /\ \/ vol[v] = "bound" /\ init' = [init EXCEPT !.prom[v] = "ok"] /\ UNCHANGED faults
       \/ vol[v] = "none" /\ init' = [init EXCEPT !.prom[v] = "failed"] /\ UNCHANGED faults
       \/ Fault /\ init' = [init EXCEPT !.prom[v] = "failed"]
    /\ UNCHANGED <<db, vol, gc>>

\* Mutant: a volume that is there already is an error.
IsConflict_No(outcome) == FALSE
IsConflict(outcome) == outcome = "conflict"

\* Initialize waits for its promises one after the other, and returns with the
\* first that is not a conflict, whether it is an error or not.
Await(v) ==
    /\ init.at = "await" /\ v \in init.wait /\ init.prom[v] \in {"ok", "conflict", "failed"}
    /\ IF IsConflict(init.prom[v]) /\ init.wait # {v}
       THEN init' = [init EXCEPT !.wait = @ \ {v}] /\ UNCHANGED status
       ELSE /\ init' = Idle
            /\ IF init.prom[v] = "ok" \/ IsConflict(init.prom[v])
               THEN status' = [status EXCEPT ![init.run] = "ready"] ELSE UNCHANGED status
    /\ UNCHANGED <<outs, named, garbage, vol, gc, faults>>

\* The iteration runs out of time, or the process stops.
InitTimeout ==
    /\ init.at # "idle" /\ Fault /\ init' = Idle /\ UNCHANGED <<db, vol, gc>>

-----------------------------------------------------------------------------
(* The garbage collector *)

\* Pop: a row that nobody has locked, deleted in a transaction that is not
\* committed yet.
Pop(g, v) ==
    /\ gc[g].at = "idle" /\ v \in garbage /\ \A h \in Collector : gc[h].vol # v
    /\ gc' = [gc EXCEPT ![g] = [at |-> "delete", vol |-> v]]
    /\ UNCHANGED <<db, vol, init, faults>>

\* Mutant: a volume that is gone cannot be destroyed, the callback fails.
Missing_Error(g) == NoGarbage
Missing(g) == [gc[g] EXCEPT !.at = "commit"]

\* DestroyGarbage, DeletePVC: no volume is as good as a deleted one.
DeletePVC(g) ==
    /\ gc[g].at = "delete"
    /\ IF vol[gc[g].vol] = "none"
       THEN gc' = [gc EXCEPT ![g] = Missing(g)] /\ UNCHANGED vol
       ELSE gc' = [gc EXCEPT ![g].at = "poll"] /\ vol' = [vol EXCEPT ![gc[g].vol] = "deleting"]
    /\ UNCHANGED <<db, init, faults>>

Deleted(v) == vol[v] = "none"

\* ... and then it is polled until it is really gone.
PollGone(g) ==
    /\ gc[g].at = "poll" /\ Deleted(gc[g].vol) /\ gc' = [gc EXCEPT ![g].at = "commit"]
    /\ UNCHANGED <<db, vol, init, faults>>

CommitGarbage(g) ==
    /\ gc[g].at = "commit" /\ gc' = [gc EXCEPT ![g] = NoGarbage]
    /\ garbage' = garbage \ {gc[g].vol}
    /\ UNCHANGED <<status, outs, named, vol, init, faults>>

\* A request or the commit fails, or the process stops: the row is kept.
GcFails(g) ==
    /\ gc[g].at # "idle" /\ Fault /\ gc' = [gc EXCEPT ![g] = NoGarbage]
    /\ UNCHANGED <<db, vol, init>>

-----------------------------------------------------------------------------
(* Kubernetes *)

Bind(v) ==
    /\ vol[v] = "pending" /\ vol' = [vol EXCEPT ![v] = "bound"]
    /\ UNCHANGED <<db, init, gc, faults>>

Vanish(v) ==
    /\ vol[v] = "deleting" /\ vol' = [vol EXCEPT ![v] = "none"]
    /\ UNCHANGED <<db, init, gc, faults>>

Initialize == InitTimeout \/ \E v \in Vol : NewPVC(v) \/ NewPVCFails(v) \/ GetPVC(v) \/ Await(v)

Collect(g) ==
    DeletePVC(g) \/ PollGone(g) \/ CommitGarbage(g) \/ GcFails(g) \/ \E v \in Vol : Pop(g, v)

Next ==
    \/ \E r \in Run : New(r) \/ Finish(r) \/ Retry(r) \/ Delete(r) \/ Pick(r)
    \/ Initialize
    \/ \E g \in Collector : Collect(g)
    \/ \E v \in Vol : Bind(v) \/ Vanish(v)

Spec == Init /\ [][Next]_vars

-----------------------------------------------------------------------------
\* The volume of a run that is still there is never on its way out.
VolumesStay ==
    \A r \in Run : \A v \in outs[r] : vol[v] # "deleting" /\ v \notin garbage

\* A volume that has been asked for belongs to a run or is garbage, whatever
\* was refused, lost or stopped: none is left behind in the cluster.
NothingLeaks ==
    \A v \in Vol : vol[v] # "none" => v \in garbage \/ \E r \in Run : v \in outs[r]

\* "It should create each PVCs per run's output."
\* (cmd/loops/tasks/initialize/task.go:30)
ReadyHasVolumes ==
    \A r \in Run : status[r] = "ready" => \A v \in outs[r] : vol[v] # "none"
=============================================================================
