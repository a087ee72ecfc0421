-------------------------------- MODULE Hooks --------------------------------
(***************************************************************************)
(* The lifecycle hooks (cmd/loops/hook): before a loop changes the status  *)
(* of a run it posts the run to the "before" URLs, each of which may       *)
(* refuse; after the commit it posts it to the "after" URLs.  The three    *)
(* loops, the Jobs of runs and, in some runs, users who abort.             *)
(***************************************************************************)
EXTENDS RunStatus, Naturals, Sequences, Functions

CONSTANTS
    Run, NoRun,
    URL, BeforeURL, AfterURL, \* the URLs, and those called before and after
    Users,       \* whether users abort runs
    MaxRefusals, \* bound: answers of URLs that are not 2xx
    MaxCrashes   \* bound: iterations that die, time out or meet an error

ASSUME HooksAssumption ==
    /\ NoRun \notin Run
    /\ BeforeURL \in Seq(URL) /\ AfterURL \in Seq(URL)
    /\ Users \in BOOLEAN
    /\ MaxRefusals \in Nat /\ MaxCrashes \in Nat

VARIABLES
    status, \* [Run -> KnitRunStatus]
    job,    \* [Run -> state of its Job, "none" when there is none]
    told,   \* [Run -> {<<URL, status>>}]: the before URL's last answer was 2xx
    heard,  \* [Run -> {<<URL, status>>}]: posted to the after URL
    pc,     \* [Loop -> point of the task]
    held,   \* [Loop -> the run of the iteration]
    next,   \* [Loop -> the status decided on, later the one read back]
    url,    \* [Loop -> index of the next URL]
    refusals, crashes

storeVars == <<status, job>>
loopVars == <<pc, held, next, url>>
faults == <<refusals, crashes>>
vars == <<storeVars, told, heard, loopVars, faults>>

Loop == {"initialize", "run_management", "finishing"}
Point == {"idle", "before", "work", "commit", "get", "after"}
JobState == {"none", "pending", "running", "succeeded", "failed"}

\* The types; a loop is idle exactly when it has no run.
TypeOK ==
    /\ status \in [Run -> KnitRunStatus] /\ job \in [Run -> JobState]
    /\ told \in [Run -> SUBSET (URL \X KnitRunStatus)]
    /\ heard \in [Run -> SUBSET (URL \X KnitRunStatus)]
    /\ pc \in [Loop -> Point] /\ held \in [Loop -> Run \cup {NoRun}]
    /\ \A l \in Loop : pc[l] = "idle" <=> held[l] = NoRun
    /\ next \in [Loop -> KnitRunStatus]
    /\ url \in [Loop -> Nat \ {0}]
    /\ refusals \in 0 .. MaxRefusals /\ crashes \in 0 .. MaxCrashes

\* The runs wait, as runPG.New leaves them.
Init ==
    /\ status = [r \in Run |-> "waiting"] /\ job = [r \in Run |-> "none"]
    /\ told = [r \in Run |-> {}] /\ heard = [r \in Run |-> {}]
    /\ pc = [l \in Loop |-> "idle"] /\ held = [l \in Loop |-> NoRun]
    /\ next = [l \in Loop |-> "waiting"] /\ url = [l \in Loop |-> 1]
    /\ refusals = 0 /\ crashes = 0

-----------------------------------------------------------------------------
(* One iteration of a loop *)

\* PickAndSetStatus holds the row of its run until it commits.
Locked(r) == \E l \in Loop : held[l] = r /\ pc[l] \in {"before", "work", "commit"}

\* Mutant: a Job that has failed is taken for one that runs.
Observed_FailedRuns ==
    [pending |-> "starting", running |-> "running", failed |-> "running",
     succeeded |-> "completing"]

Observed ==
    [pending |-> "starting", running |-> "running", failed |-> "aborting",
     succeeded |-> "completing"]

\* What the task of l makes of run r.
Decision(l, r) ==
    CASE l = "initialize" -> "ready"
      [] l = "finishing"  -> FinishedStatus(status[r])
      [] OTHER -> IF job[r] # "none" THEN Observed[job[r]]
                  ELSE IF status[r] = "ready" THEN "starting" ELSE "aborting"

Seed(l) ==
    CASE l = "initialize"     -> {"waiting"}
      [] l = "run_management" -> {"ready", "starting", "running"}
      [] l = "finishing"      -> {"completing", "aborting"}

\* Mutant: a run whose Job is there already has its hook skipped altogether.
Start_JobSkipsHook(l, r) ==
    IF l = "run_management" /\ job[r] # "none" THEN "commit" ELSE "before"

\* A run that is found starting already has had its hook.
Start(l, r) ==
    IF l = "run_management" /\ job[r] = "pending" THEN "commit" ELSE "before"

\* The task is given a run and makes up its mind; of a run that is as it
\* should be it changes nothing.
Pick(l, r) ==
    /\ pc[l] = "idle" /\ ~ Locked(r)
    /\ status[r] \in Seed(l) /\ Decision(l, r) # status[r]
    /\ pc' = [pc EXCEPT ![l] = Start(l, r)]
    /\ held' = [held EXCEPT ![l] = r]
    /\ next' = [next EXCEPT ![l] = Decision(l, r)]
    /\ url' = [url EXCEPT ![l] = 1]
    /\ UNCHANGED <<storeVars, told, heard, faults>>

Goto(l, p) == pc' = [pc EXCEPT ![l] = p] /\ UNCHANGED <<held, next, url>>

\* Mutant: the transaction is left open.
Rest_KeepsRun(l) ==
    /\ pc' = [pc EXCEPT ![l] = "idle"] /\ UNCHANGED held
    /\ next' = [next EXCEPT ![l] = "waiting"] /\ url' = [url EXCEPT ![l] = 1]

\* The iteration is over.
Rest(l) ==
    /\ pc' = [pc EXCEPT ![l] = "idle"] /\ held' = [held EXCEPT ![l] = NoRun]
    /\ next' = [next EXCEPT ![l] = "waiting"] /\ url' = [url EXCEPT ![l] = 1]

\* A URL answers 2xx: the next one is asked.
Agrees(l) ==
    /\ url' = [url EXCEPT ![l] = @ + 1]
    /\ UNCHANGED <<pc, held, next, faults>>

\* It answers something else or cannot be reached: the others are not asked.
Refuses(l) ==
    /\ refusals < MaxRefusals /\ refusals' = refusals + 1
    /\ Rest(l) /\ UNCHANGED crashes

\* Mutants: a refusal goes for an answer; the first agreement is enough.
BeforeRefused_Ignored(l) == Agrees(l) \/ Refuses(l)
BeforeDone_First(l) == url[l] > 1

\* What a refusal does to the iteration.
BeforeRefused(l) == Refuses(l)

\* All URLs have agreed.
BeforeDone(l) == url[l] > Len(BeforeURL)

\* Web.Before: the URLs are asked one after the other.
Before(l) ==
    LET r  == held[l]
        it == <<BeforeURL[url[l]], next[l]>>
    IN  /\ pc[l] = "before"
        /\ \/ /\ BeforeDone(l) /\ Goto(l, "work")
              /\ UNCHANGED <<told, faults>>
           \/ /\ ~ BeforeDone(l) /\ Agrees(l)
              /\ told' = [told EXCEPT ![r] = @ \cup {it}]
           \/ /\ ~ BeforeDone(l) /\ BeforeRefused(l)
              /\ told' = [told EXCEPT ![r] = @ \ {it}]
        /\ UNCHANGED <<storeVars, heard>>

\* Initialize provides the volumes, run_management spawns the worker or
\* stores the exit, finishing closes the Job.
Work(l) ==
    /\ pc[l] = "work" /\ Goto(l, "commit")
    /\ job' = [job EXCEPT ![held[l]] =
                CASE l = "run_management" /\ next[l] = "starting" -> "pending"
                  [] l = "finishing" -> "none"
                  [] OTHER -> @]
    /\ UNCHANGED <<status, told, heard, faults>>

Commit(l) ==
    /\ pc[l] = "commit" /\ Goto(l, "get")
    /\ status' = [status EXCEPT ![held[l]] = next[l]]
    /\ UNCHANGED <<job, told, heard, faults>>

\* Mutant: every loop leaves out what run_management does.
HasAfter_Active(l, st) == st \in {"starting", "running", "completing", "aborting"}

\* run_management has an After for the statuses it sets, the other loops have
\* one whatever the status.
HasAfter(l, st) ==
    l = "run_management" => st \in {"starting", "running", "completing", "aborting"}

\* The run is read again, without the lock: it may have moved on.
Get(l) ==
    LET st == status[held[l]]
    IN  /\ pc[l] = "get"
        /\ \/ /\ HasAfter(l, st)
              /\ pc' = [pc EXCEPT ![l] = "after"]
              /\ next' = [next EXCEPT ![l] = st]
              /\ url' = [url EXCEPT ![l] = 1] /\ UNCHANGED held
           \/ ~ HasAfter(l, st) /\ Rest(l)
        /\ UNCHANGED <<storeVars, told, heard, faults>>

\* Web.After: the URLs are called one after the other, until one fails; the
\* error is dropped.
After(l) ==
    /\ pc[l] = "after"
    /\ \/ /\ url[l] > Len(AfterURL) /\ Rest(l)
          /\ UNCHANGED <<heard, faults>>
       \/ /\ url[l] <= Len(AfterURL) /\ (Agrees(l) \/ Refuses(l))
          /\ heard' = [heard EXCEPT ![held[l]] = @ \cup {<<AfterURL[url[l]], next[l]>>}]
    /\ UNCHANGED <<storeVars, told>>

\* A step of the loop by itself: what its fairness is about.
Step(l) ==
    \/ \E r \in Run : Pick(l, r)
    \/ Before(l) \/ Work(l) \/ Commit(l) \/ Get(l) \/ After(l)

\* The process dies, or an error or its time limit ends the iteration: the
\* transaction is rolled back, and nobody remembers that it was to be heard.
Crash(l) ==
    /\ pc[l] # "idle" /\ crashes < MaxCrashes
    /\ crashes' = crashes + 1 /\ Rest(l)
    /\ UNCHANGED <<storeVars, told, heard, refusals>>

-----------------------------------------------------------------------------
(* Around the loops *)

\* Kubernetes runs the Job.
JobStep(r) ==
    /\ \/ job[r] = "pending" /\ \E s \in {"running", "failed"} : job' = [job EXCEPT ![r] = s]
       \/ job[r] = "running" /\ \E s \in {"succeeded", "failed"} : job' = [job EXCEPT ![r] = s]
    /\ UNCHANGED <<status, told, heard, loopVars, faults>>

\* AbortRunHandler: SetStatus, which waits for the lock and calls no hook.
Abort(r) ==
    /\ Users /\ ~ Locked(r) /\ "aborting" \in NextStatuses[status[r]]
    /\ status' = [status EXCEPT ![r] = "aborting"]
    /\ UNCHANGED <<job, told, heard, loopVars, faults>>

Next ==
    \/ \E l \in Loop : Step(l) \/ Crash(l)
    \/ \E r \in Run : JobStep(r) \/ Abort(r)

Spec == Init /\ [][Next]_vars

-----------------------------------------------------------------------------
(* Properties *)

\* All before URLs agree to status st of run r.
Agreed(r, st) == \A u \in Range(BeforeURL) : <<u, st>> \in told[r]

\* Whoever asked to be called before a loop changes a run has agreed to the
\* change, and that was its last answer: through refusals by others, crashes
\* after all have agreed, users that abort, and retries of the whole round.
ToldOfEachChange ==
    [][loopVars' # loopVars =>
         \A r \in Run : status'[r] # status[r] => Agreed(r, status'[r])]_vars

\* A run has a worker only when all before URLs have agreed to its starting:
\* their answers hold the variables of its environment.
WorkerAgreed ==
    \A r \in Run : job[r] # "none" => Agreed(r, "starting")

\* No after URL hears of a status that the before URLs had not agreed to,
\* though the loops read the run again when it may be in another's hands;
\* but for aborting, which a user may have set.
HeardAfterTold ==
    \A r \in Run : \A h \in heard[r] : h[2] # "aborting" => Agreed(r, h[2])

\* A worker is made, and a change is heard of, only with the consent of all who
\* are called before.
HooksAreHeard == TypeOK /\ WorkerAgreed /\ HeardAfterTold

\* Every after URL has heard how run r has ended.
EndHeard(r) == \A u \in Range(AfterURL) : \E s \in Finished : <<u, s>> \in heard[r]
=============================================================================
