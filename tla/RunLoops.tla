------------------------------- MODULE RunLoops ------------------------------
(***************************************************************************)
(* The loops (cmd/loops) that carry the runs of an image plan from waiting *)
(* to done, the API handlers that abort, tear off, retry, delete and       *)
(* (de)activate, and the Kubernetes Jobs that are the workers.             *)
(*                                                                         *)
(* Every loop process repeats one transaction: PickAndSetStatus locks one  *)
(* run, the task of the loop looks at the run and acts on the cluster, and *)
(* the status that the task returns is committed.  What the task does to   *)
(* the cluster, and what it writes in transactions of its own (SetExit,    *)
(* DeleteWorker), is not undone when the process dies before the commit.   *)
(*                                                                         *)
(* A Job has the name of its run, not of an attempt, and outlives the      *)
(* request to delete it.                                                   *)
(***************************************************************************)
EXTENDS RunStatus, Integers, FiniteSets

CONSTANTS
    Run,         \* the runs of the plan; positive naturals, ordered as run_id
    NoRun,       \* held by a process that has locked no run
    Initializer, Manager, Finisher, \* the processes of each loop
    Rejected,    \* the runs whose initialization never succeeds
    UserOps,     \* what users do
    MaxAttempt,  \* bound: how often a run is tried
    MaxFaults    \* bound: how many errors and crashes of loops there are

Loop == Initializer \cup Manager \cup Finisher

ASSUME LoopAssumption ==
    /\ Run \subseteq Nat \ {0} /\ NoRun \notin Run
    /\ Initializer \cap Manager = {} /\ Finisher \cap (Initializer \cup Manager) = {}
    /\ UserOps \subseteq {"activate", "abort", "tearoff", "retry", "delete", "kill"}
    /\ MaxAttempt \in Nat \ {0} /\ MaxFaults \in Nat

VARIABLES
    active,    \* plan.active
    status,    \* run.status
    worker,    \* the runs with a row in worker
    suspended, \* the runs with lifecycle_suspend_until in the future
    exit,      \* run_exit: of which attempt, and whether it was a success
    attempt,   \* how often the run has begun (not stored by the program)
    job,       \* the Job named after the run: its state, the attempt it was
               \* created for (the last one, when absent), whether it is being deleted
    asked,     \* the handlers between SetStatus and SetExit
    pc, snapshot, held, decided, cursor, \* per loop process: where it is, the
               \* runs its query saw, the run it locked, the status to commit,
               \* the head of its cursor
    faults

dbVars == <<active, status, worker, suspended, exit, attempt>>
loopVars == <<pc, snapshot, held, decided, cursor, faults>>
vars == <<dbVars, job, asked, loopVars>>

NoExit == [of |-> 0, ok |-> FALSE]
JobState == {"absent", "pending", "running", "stuck", "succeeded", "failed"}
AnyStatus == KnitRunStatus \cup {"none"}

TypeOK ==
    /\ active \in BOOLEAN
    /\ status \in [Run -> AnyStatus]
    /\ worker \subseteq Run /\ suspended \subseteq Run
    /\ exit \in [Run -> [of : 0..MaxAttempt, ok : BOOLEAN]]
    /\ attempt \in [Run -> 1..MaxAttempt]
    /\ job \in [Run -> [state : JobState, attempt : 0..MaxAttempt, deleting : BOOLEAN]]
    /\ asked \subseteq [run : Run, of : 1..MaxAttempt, ok : BOOLEAN]
    /\ pc \in [Loop -> {"idle", "lock", "task", "spawn", "exit", "unname", "commit"}]
    /\ \A l \in Loop : pc[l] \in {"idle", "lock"} <=> held[l] = NoRun
    /\ snapshot \in [Loop -> SUBSET Run]
    /\ held \in [Loop -> Run \cup {NoRun}]
    /\ decided \in [Loop -> AnyStatus]
    /\ cursor \in [Loop -> Run \cup {0}]
    /\ faults \in 0..MaxFaults

Init ==
    /\ active = TRUE
    /\ status = [r \in Run |-> "none"]
    /\ worker = {} /\ suspended = {}
    /\ exit = [r \in Run |-> NoExit]
    /\ attempt = [r \in Run |-> 1]
    /\ job = [r \in Run |-> [state |-> "absent", attempt |-> 0, deleting |-> FALSE]]
    /\ asked = {}
    /\ pc = [l \in Loop |-> "idle"]
    /\ snapshot = [l \in Loop |-> {}]
    /\ held = [l \in Loop |-> NoRun]
    /\ decided = [l \in Loop |-> "none"]
    /\ cursor = [l \in Loop |-> 0]
    /\ faults = 0

-----------------------------------------------------------------------------
(* PickAndSetStatus: picking *)

\* The statuses in the cursor of each loop (Seed of the tasks).
Seed(l) ==
    CASE l \in Initializer -> {"waiting"}
      [] l \in Manager     -> {"ready", "starting", "running"}
      [] l \in Finisher    -> {"completing", "aborting"}

Target(l) == {r \in Run : status[r] \in Seed(l) /\ r \notin suspended}

Locked(r) == \E l \in Loop : held[l] = r

\* The first run after the head of the cursor, or the first of all.
First(S, head) ==
    LET after == {r \in S : r > head}
        from  == IF after # {} THEN after ELSE S
    IN  CHOOSE r \in from : \A q \in from : r <= q

\* The query reads one snapshot of the run table...
Select(l) ==
    /\ pc[l] = "idle"
    /\ Target(l) # {}
    /\ snapshot' = [snapshot EXCEPT ![l] = Target(l)]
    /\ pc' = [pc EXCEPT ![l] = "lock"]
    /\ UNCHANGED <<dbVars, job, asked, held, decided, cursor, faults>>

\* Mutant: the head of the cursor is never moved.
Lock_KeepsCursor(l) ==
    LET free == {r \in snapshot[l] : ~ Locked(r)}
    IN  /\ pc[l] = "lock"
        /\ snapshot' = [snapshot EXCEPT ![l] = {}]
        /\ IF free = {}
           THEN pc' = [pc EXCEPT ![l] = "idle"] /\ UNCHANGED held
           ELSE /\ pc' = [pc EXCEPT ![l] = "task"]
                /\ held' = [held EXCEPT ![l] = First(free, cursor[l])]
        /\ UNCHANGED <<dbVars, job, asked, decided, cursor, faults>>

\* ...and locks a run of it that nobody else has locked.  The status is not
\* looked at again: the run may have moved on since the snapshot.
Lock(l) ==
    LET free == {r \in snapshot[l] : ~ Locked(r)}
        r    == First(free, cursor[l])
    IN  /\ pc[l] = "lock"
        /\ snapshot' = [snapshot EXCEPT ![l] = {}]
        /\ IF free = {}
           THEN /\ pc' = [pc EXCEPT ![l] = "idle"]
                /\ UNCHANGED <<held, cursor>>
           ELSE /\ pc' = [pc EXCEPT ![l] = "task"]
                /\ held' = [held EXCEPT ![l] = r]
                /\ cursor' = [cursor EXCEPT ![l] = r]
        /\ UNCHANGED <<dbVars, job, asked, decided, faults>>

\* The process moves on to p, having made up its mind that the status be st.
Goto(l, p, st) ==
    /\ pc' = [pc EXCEPT ![l] = p]
    /\ decided' = [decided EXCEPT ![l] = st]
    /\ UNCHANGED <<snapshot, held, cursor, faults>>

\* Mutant: a transaction is left open.
Release_KeepsLock(l) ==
    /\ pc' = [pc EXCEPT ![l] = "idle"]
    /\ decided' = [decided EXCEPT ![l] = "none"]
    /\ UNCHANGED <<snapshot, held, cursor, faults>>

\* The transaction is over, committed or rolled back.  The cursor stays where
\* the pick moved it, also when the task returned an error.
Release(l) ==
    /\ pc' = [pc EXCEPT ![l] = "idle"]
    /\ held' = [held EXCEPT ![l] = NoRun]
    /\ decided' = [decided EXCEPT ![l] = "none"]
    /\ UNCHANGED <<snapshot, cursor, faults>>

-----------------------------------------------------------------------------
(* The tasks *)

\* initialize: the volumes of the outputs are provided, or that fails.
Initialize(l) ==
    /\ l \in Initializer /\ pc[l] = "task"
    /\ IF held[l] \in Rejected THEN Release(l) ELSE Goto(l, "commit", "ready")
    /\ UNCHANGED <<dbVars, job, asked>>

\* Mutant: a worker that cannot start is waited for.
Observed_StuckStarts ==
    [pending |-> "starting", running |-> "running", stuck |-> "starting",
     failed |-> "aborting", succeeded |-> "completing"]

\* The status that the state of a Job calls for.
Observed ==
    [pending |-> "starting", running |-> "running", stuck |-> "aborting",
     failed |-> "aborting", succeeded |-> "completing"]

\* Mutants: a worker is spawned for a run that is starting already; the exit
\* of a run without a Job is not recorded.
WithoutJob_RespawnsStarting(st) ==
    IF st \in {"ready", "starting"} THEN <<"spawn", "starting">> ELSE <<"exit", "aborting">>
WithoutJob_NoExit(st) ==
    IF st = "ready" THEN <<"spawn", "starting">> ELSE <<"commit", "aborting">>

\* What is next for a run of status st that has no Job, and what it becomes.
WithoutJob(st) ==
    IF st = "ready" THEN <<"spawn", "starting">> ELSE <<"exit", "aborting">>

\* run_management, image manager: it looks for the Job with the name of the
\* run.  Without a name it cannot ask; when the run stops, SetExit comes first.
Manage(l) ==
    LET r  == held[l]
        st == Observed[job[r].state]
        no == WithoutJob(status[r])
    IN  /\ l \in Manager /\ pc[l] = "task"
        /\ \/ r \notin worker /\ Release(l)
           \/ r \in worker /\ job[r].state = "absent" /\ Goto(l, no[1], no[2])
           \/ /\ r \in worker /\ job[r].state # "absent"
              /\ IF st # status[r] /\ st \in {"aborting", "completing"}
                 THEN Goto(l, "exit", st)
                 ELSE Goto(l, "commit", st)
        /\ UNCHANGED <<dbVars, job, asked>>

\* SpawnWorker; a Job that exists already will do.
SpawnWorker(l) ==
    LET r == held[l]
    IN  /\ pc[l] = "spawn"
        /\ job' = IF job[r].state # "absent" THEN job
                  ELSE [job EXCEPT ![r] = [state |-> "pending", attempt |-> attempt[r],
                                           deleting |-> FALSE]]
        /\ Goto(l, "commit", decided[l])
        /\ UNCHANGED <<dbVars, asked>>

\* SetExit by the manager, in a transaction of its own.
SetExit(l) ==
    LET r == held[l]
    IN  /\ pc[l] = "exit"
        /\ exit' = [exit EXCEPT ![r] =
                        [of |-> attempt[r], ok |-> decided[l] = "completing"]]
        /\ Goto(l, "commit", decided[l])
        /\ UNCHANGED <<active, status, worker, suspended, attempt, job, asked>>

\* Mutant: an error of the deletion is ignored.
CloseJob_IgnoresError(r) ==
    \/ job' = [job EXCEPT ![r].deleting = (@ \/ job[r].state # "absent")]
    \/ UNCHANGED job

\* Kubernetes is asked to delete the Job of r, if there is one.
CloseJob(r) == job' = [job EXCEPT ![r].deleting = (@ \/ job[r].state # "absent")]

\* finishing: the Job of a run that has a worker name is closed.
Close(l) ==
    LET r == held[l]
    IN  /\ l \in Finisher /\ pc[l] = "task"
        /\ IF status[r] \notin {"completing", "aborting"}
           THEN Release(l) /\ UNCHANGED job
           ELSE IF r \notin worker
           THEN Goto(l, "commit", FinishedStatus(status[r])) /\ UNCHANGED job
           ELSE Goto(l, "unname", FinishedStatus(status[r])) /\ CloseJob(r)
        /\ UNCHANGED <<dbVars, asked>>

\* DeleteWorker, in a transaction of its own.
DeleteWorker(l) ==
    /\ pc[l] = "unname"
    /\ worker' = worker \ {held[l]}
    /\ Goto(l, "commit", decided[l])
    /\ UNCHANGED <<active, status, suspended, exit, attempt, job, asked>>

-----------------------------------------------------------------------------
(* PickAndSetStatus: setStatus and commit *)

\* Mutant: the status that was read is taken for the status that is.
Commit_Unchecked(l) ==
    /\ pc[l] = "commit"
    /\ status' = [status EXCEPT ![held[l]] = decided[l]]
    /\ Release(l)
    /\ UNCHANGED <<active, worker, suspended, exit, attempt, job, asked>>

\* A run that stays as it is rests for a while (not when it waits: no
\* debounce); a move that is not allowed is an error and nothing changes.
Commit(l) ==
    LET r  == held[l]
        st == decided[l]
    IN  /\ pc[l] = "commit"
        /\ \/ /\ st = status[r] /\ status[r] \notin Finished \cup {"invalidated"}
              /\ suspended' = IF l \in Initializer THEN suspended ELSE suspended \cup {r}
              /\ UNCHANGED status
           \/ /\ st \in NextStatuses[status[r]]
              /\ status' = [status EXCEPT ![r] = st]
              /\ suspended' = suspended \ {r}
           \/ /\ st \notin NextStatuses[status[r]] \cup {status[r]}
                    \/ status[r] \in Finished \cup {"invalidated"}
              /\ UNCHANGED <<status, suspended>>
        /\ Release(l)
        /\ UNCHANGED <<active, worker, exit, attempt, job, asked>>

LoopStep(l) ==
    \/ Select(l) \/ Lock(l)
    \/ Initialize(l)
    \/ Manage(l) \/ SpawnWorker(l) \/ SetExit(l)
    \/ Close(l) \/ DeleteWorker(l)
    \/ Commit(l)

\* A loop meets an error or its timeout, or dies and starts over with a new
\* cursor: its transaction is rolled back.
Fault(l) ==
    /\ pc[l] # "idle" /\ faults < MaxFaults
    /\ faults' = faults + 1
    /\ pc' = [pc EXCEPT ![l] = "idle"]
    /\ snapshot' = [snapshot EXCEPT ![l] = {}]
    /\ held' = [held EXCEPT ![l] = NoRun]
    /\ decided' = [decided EXCEPT ![l] = "none"]
    /\ \E head \in {0, cursor[l]} : cursor' = [cursor EXCEPT ![l] = head]
    /\ UNCHANGED <<dbVars, job, asked>>

-----------------------------------------------------------------------------
(* The database at large *)

\* runPG.New: a run of an active plan waits.
New(r) ==
    /\ status[r] = "none"
    /\ status' = [status EXCEPT ![r] = IF active THEN "waiting" ELSE "deactivated"]
    /\ worker' = worker \cup {r}
    /\ UNCHANGED <<active, suspended, exit, attempt, job, asked, loopVars>>

\* lifecycle_suspend_until passes.
Wake(r) ==
    /\ r \in suspended
    /\ suspended' = suspended \ {r}
    /\ UNCHANGED <<active, status, worker, exit, attempt, job, asked, loopVars>>

\* planPG.Activate; it waits for the locks of the runs that it moves.
Activate(b) ==
    LET from == IF b THEN "deactivated" ELSE "waiting"
        to   == IF b THEN "waiting" ELSE "deactivated"
    IN  /\ "activate" \in UserOps
        /\ \A r \in Run : status[r] = from => ~ Locked(r)
        /\ active' = b
        /\ status' = [r \in Run |-> IF status[r] = from THEN to ELSE status[r]]
        /\ UNCHANGED <<worker, suspended, exit, attempt, job, asked, loopVars>>

\* The first half of AbortRunHandler and TearoffRunHandler: SetStatus to st.
Stop(r, st) ==
    /\ status[r] # "none" /\ ~ Locked(r)
    /\ st = status[r] \/ st \in NextStatuses[status[r]]
    /\ status' = [status EXCEPT ![r] = st]
    /\ suspended' = suspended \ {r}
    /\ asked' = asked \cup {[run |-> r, of |-> attempt[r], ok |-> st = "completing"]}
    /\ UNCHANGED <<active, worker, exit, attempt, job, loopVars>>

Abort(r) == "abort" \in UserOps /\ Stop(r, "aborting")
Tearoff(r) == "tearoff" \in UserOps /\ Stop(r, "completing")

\* The second half, SetExit, unless the handler dies first.
Answer(h) ==
    /\ asked' = asked \ {h}
    /\ \/ exit' = [exit EXCEPT ![h.run] = [of |-> h.of, ok |-> h.ok]]
       \/ UNCHANGED exit
    /\ UNCHANGED <<active, status, worker, suspended, attempt, job, loopVars>>

\* runPG.Retry, of which truncateRun drops the exit.
Retry(r) ==
    /\ "retry" \in UserOps
    /\ status[r] \in Finished /\ r \notin worker /\ ~ Locked(r)
    /\ attempt[r] < MaxAttempt
    /\ status' = [status EXCEPT ![r] = "waiting"]
    /\ worker' = worker \cup {r}
    /\ suspended' = suspended \ {r}
    /\ exit' = [exit EXCEPT ![r] = NoExit]
    /\ attempt' = [attempt EXCEPT ![r] = @ + 1]
    /\ UNCHANGED <<active, job, asked, loopVars>>

\* runPG.Delete; the row stays, for a run of an image plan has inputs.
Delete(r) ==
    /\ "delete" \in UserOps
    /\ status[r] \in {"waiting", "deactivated", "done", "failed"}
    /\ r \notin worker /\ ~ Locked(r)
    /\ status' = [status EXCEPT ![r] = "invalidated"]
    /\ exit' = [exit EXCEPT ![r] = NoExit]
    /\ UNCHANGED <<active, worker, suspended, attempt, job, asked, loopVars>>

-----------------------------------------------------------------------------
(* The cluster *)

JobMoves ==
    [pending |-> {"running", "stuck"}, stuck |-> {"running"},
     running |-> {"succeeded", "failed"},
     succeeded |-> {}, failed |-> {}, absent |-> {}]

\* A Job that is not being deleted goes its way.
JobStep(r) ==
    /\ ~ job[r].deleting
    /\ \E st \in JobMoves[job[r].state] : job' = [job EXCEPT ![r].state = st]
    /\ UNCHANGED <<dbVars, asked, loopVars>>

\* A deleted Job disappears only after its pods.
JobGone(r) ==
    /\ job[r].deleting
    /\ job' = [job EXCEPT ![r].state = "absent", ![r].deleting = FALSE]
    /\ UNCHANGED <<dbVars, asked, loopVars>>

\* Somebody deletes the Job behind the back of the loops.
Kill(r) ==
    /\ "kill" \in UserOps
    /\ job[r].state # "absent" /\ ~ job[r].deleting
    /\ job' = [job EXCEPT ![r].deleting = TRUE]
    /\ UNCHANGED <<dbVars, asked, loopVars>>

-----------------------------------------------------------------------------
RunStep(r) ==
    \/ New(r) \/ Wake(r)
    \/ Abort(r) \/ Tearoff(r) \/ Retry(r) \/ Delete(r)
    \/ JobStep(r) \/ JobGone(r) \/ Kill(r)

Next ==
    \/ \E l \in Loop : LoopStep(l) \/ Fault(l)
    \/ \E r \in Run : RunStep(r)
    \/ \E b \in BOOLEAN : Activate(b)
    \/ \E h \in asked : Answer(h)

Spec == Init /\ [][Next]_vars

\* Each loop is an endless series of iterations that errors do not end (policy
\* "forever"), and time passes.
LoopFairness ==
    /\ \A l \in Loop : WF_vars(LoopStep(l))
    /\ \A r \in Run : WF_vars(Wake(r))

\* Containers end, and deleted Jobs go.  A stuck Job may be so for ever.
JobFairness ==
    \A r \in Run : WF_vars(job[r].state # "stuck" /\ JobStep(r)) /\ WF_vars(JobGone(r))

FairSpec == Spec /\ LoopFairness
FairJobSpec == Spec /\ LoopFairness /\ JobFairness

-----------------------------------------------------------------------------
(* Properties *)

\* No Job is left behind: a Job that nobody is deleting belongs to a run that
\* may still be managed or cleaned up, and that knows its worker's name.
\* Crashes, retries and users in between make no difference.
NoOrphanWorker ==
    \A r \in Run :
        job[r].state # "absent" /\ ~ job[r].deleting =>
            /\ status[r] \in {"ready", "starting", "running", "completing", "aborting"}
            /\ r \in worker
            /\ job[r].attempt = attempt[r]

\* The exit on record of a run that stops or has stopped is of this attempt,
\* and tells success exactly when the status does (as long as no user aborts a
\* run or tears it off, and one process manages runs: others may get between
\* the two).
ExitTellsStatus ==
    \A r \in Run :
        /\ status[r] \in {"completing", "done"} => exit[r] = [of |-> attempt[r], ok |-> TRUE]
        /\ status[r] \in {"aborting", "failed"} => exit[r] = [of |-> attempt[r], ok |-> FALSE]

\* A worker is created at most once for an attempt, whoever deletes it and
\* however many processes manage runs: the outputs of a run are never written by
\* two.  (One that crashes before it stores "starting" may create it again.)
SpawnsOnce ==
    [][\A r \in Run :
          faults = 0 /\ job[r].state = "absent" /\ job'[r].state # "absent" =>
              job[r].attempt < job'[r].attempt]_vars

\* The loops and users together give every run the life that is promised.
Lifecycle == INSTANCE RunLifecycle
ImplementsLifecycle == Lifecycle!Spec

\* No run is passed over for ever, whatever becomes of the others: one that
\* waits is initialized although the initialization of others always fails,
\* one that is ready gets its worker although others run for ever, and one
\* that stops is finished.
EveryRunMovesOn ==
    \A r \in Run \ Rejected : \A st \in {"waiting", "ready", "completing", "aborting"} :
        status[r] = st ~> status[r] # st

\* A run that has begun is finished in the end, its worker stuck or not.
EveryRunFinishes ==
    \A r \in Run \ Rejected : status[r] = "waiting" ~> status[r] \in Finished

\* "It is observed that the run's worker has stopped successfully"
\* (pkg/domain/run.go:32, of Completing): there was a worker of this attempt.
DoneByOwnWorker ==
    \A r \in Run : status[r] \in {"completing", "done"} => job[r].attempt = attempt[r]
=============================================================================
