---------------------------- MODULE RunLoops_proofs --------------------------
(***************************************************************************)
(* Theorems about RunLoops, for any runs, any number of replicas of each   *)
(* loop, and any bounds: no worker is orphaned, every run lives as         *)
(* RunLifecycle says, and a worker is created once for an attempt; and for *)
(* one manager, that the exit on record tells what the status does.        *)
(***************************************************************************)
EXTENDS RunLoops, WellFoundedInduction, TLAPS

\* The process that is picking a run finds one, when one is free.
LEMMA FirstIsOne ==
    ASSUME NEW S \in SUBSET Run, S # {}, NEW head
    PROVE  First(S, head) \in S
<1> DEFINE after == {r \in S : r > head}
           from  == IF after # {} THEN after ELSE S
<1>1. from # {} /\ from \subseteq S /\ from \in SUBSET Nat
  BY LoopAssumption
<1>2. \E n \in from : \A m \in from : n <= m
  <2>1. IsWellFoundedOn(OpToRel(<, Nat), Nat)
    BY NatLessThanWellFounded
  <2>2. from \in SUBSET Nat /\ from # {}
    BY <1>1
  <2> HIDE DEF from
  <2>3. PICK n \in from : \A m \in from : <<m, n>> \notin OpToRel(<, Nat)
    BY <2>1, <2>2, WFMin
  <2>4. \A m \in from : ~ (m < n)
    BY <2>2, <2>3 DEF OpToRel
  <2>5. QED
    BY <2>2, <2>4
<1>3. First(S, head) \in from
  BY <1>2 DEF First
<1>4. QED
  BY <1>1, <1>3

\* The statuses that appear in the tables are statuses.
LEMMA StatusFacts ==
    /\ \A st \in KnitRunStatus : NextStatuses[st] \subseteq KnitRunStatus
    /\ \A st : FinishedStatus(st) \in Finished
    /\ Finished \subseteq KnitRunStatus
    /\ \A st \in JobState \ {"absent"} :
          Observed[st] \in {"starting", "running", "aborting", "completing"}
    /\ \A st \in JobState : JobMoves[st] \subseteq JobState \ {"absent"}
BY DEF KnitRunStatus, NextStatuses, FinishedStatus, Finished, JobState, Observed, JobMoves

-----------------------------------------------------------------------------
(* Type correctness *)

\* Closing the Job of a run leaves a Job record for every run.
LEMMA CloseJobTyped ==
  ASSUME NEW r \in Run, CloseJob(r),
         job \in [Run -> [state : JobState, attempt : 0..MaxAttempt, deleting : BOOLEAN]]
  PROVE  job' \in [Run -> [state : JobState, attempt : 0..MaxAttempt, deleting : BOOLEAN]]
<1> DEFINE J == [state : JobState, attempt : 0..MaxAttempt, deleting : BOOLEAN]
<1> DEFINE b == job[r].deleting \/ job[r].state # "absent"
<1>1. job' = [job EXCEPT ![r] = [job[r] EXCEPT !.deleting = b]]
  BY DEF CloseJob
<1>2. job[r] \in J
  OBVIOUS
<1>3. b \in BOOLEAN
  OBVIOUS
<1> HIDE DEF b
<1>4. [job[r] EXCEPT !.deleting = b] \in J
  BY <1>2, <1>3
<1> HIDE DEF J
<1>5. job \in [Run -> J]
  BY DEF J
<1>6. job' \in [Run -> J]
  BY <1>1, <1>4, <1>5
<1>7. QED
  BY <1>6 DEF J

LEMMA LoopStepTypeOK ==
    ASSUME TypeOK, NEW l \in Loop, LoopStep(l)
    PROVE  TypeOK'
<1> USE DEF TypeOK, dbVars
<1>1. CASE Select(l)
  BY <1>1 DEF Select, Target
<1>2. CASE Lock(l)
  <2> DEFINE free == {r \in snapshot[l] : ~ Locked(r)}
             r    == First(free, cursor[l])
  <2>1. CASE free = {}
    BY <1>2, <2>1 DEF Lock
  <2>2. CASE free # {}
    <3>1. r \in Run
      <4>1. free \in SUBSET Run
        OBVIOUS
      <4> HIDE DEF free
      <4>2. QED
        BY <2>2, <4>1, FirstIsOne
    <3>2. r # NoRun
      BY <3>1, LoopAssumption
    <3> HIDE DEF r
    <3>3. QED
      BY <1>2, <2>2, <3>1, <3>2 DEF Lock, r
  <2>3. QED
    BY <2>1, <2>2
<1>3. CASE Initialize(l)
  BY <1>3 DEF Initialize, Release, Goto, AnyStatus, KnitRunStatus
<1>4. CASE Manage(l)
  <2>1. CASE held[l] \notin worker /\ Release(l)
    BY <1>4, <2>1 DEF Manage, Release, AnyStatus
  <2>2. CASE \E p \in {"spawn", "exit", "commit"},
                st \in {"starting", "running", "aborting", "completing"} : Goto(l, p, st)
    BY <1>4, <2>2 DEF Manage, Goto, AnyStatus, KnitRunStatus
  <2>3. CASE held[l] \in worker /\ job[held[l]].state = "absent"
    <3>1. \/ Goto(l, "spawn", "starting")
          \/ Goto(l, "exit", "aborting")
      BY <1>4, <2>3 DEF Manage, WithoutJob
    <3>2. QED
      BY <2>2, <3>1
  <2>4. CASE held[l] \in worker /\ job[held[l]].state # "absent"
    <3> DEFINE st == Observed[job[held[l]].state]
    <3>1. st \in {"starting", "running", "aborting", "completing"}
      BY <2>4, StatusFacts
    <3>2. Goto(l, "exit", st) \/ Goto(l, "commit", st)
      BY <1>4, <2>4 DEF Manage
    <3> HIDE DEF st
    <3>3. QED
      BY <2>2, <3>1, <3>2
  <2>5. QED
    BY <1>4, <2>1, <2>3, <2>4 DEF Manage
<1>5. CASE SpawnWorker(l)
  BY <1>5 DEF SpawnWorker, Goto, JobState
<1>6. CASE SetExit(l)
  BY <1>6 DEF SetExit, Goto
<1>7. CASE Close(l)
  <2> DEFINE J == [state : JobState, attempt : 0..MaxAttempt, deleting : BOOLEAN]
  <2>1. job' \in [Run -> J]
    <3>1. ASSUME NEW r \in Run, CloseJob(r)
          PROVE  job' \in [Run -> J]
      BY <3>1, CloseJobTyped
    <3>2. held[l] \in Run
      BY <1>7 DEF Close
    <3>3. job' = job \/ CloseJob(held[l])
      BY <1>7 DEF Close
    <3>4. QED
      BY <3>1, <3>2, <3>3
  <2>2. PICK p \in {"unname", "commit"} :
           Release(l) \/ Goto(l, p, FinishedStatus(status[held[l]]))
    BY <1>7 DEF Close
  <2>3. CASE Release(l)
    BY <1>7, <2>1, <2>3 DEF Close, Release, AnyStatus
  <2>4. CASE Goto(l, p, FinishedStatus(status[held[l]]))
    <3>1. FinishedStatus(status[held[l]]) \in AnyStatus
      BY StatusFacts DEF AnyStatus
    <3>2. QED
      BY <1>7, <2>1, <2>4, <3>1 DEF Close, Goto
  <2>5. QED
    BY <2>2, <2>3, <2>4
<1>8. CASE DeleteWorker(l)
  BY <1>8 DEF DeleteWorker, Goto
<1>9. CASE Commit(l)
  BY <1>9, StatusFacts DEF Commit, Release, AnyStatus
<1>10. QED
  BY <1>1, <1>2, <1>3, <1>4, <1>5, <1>6, <1>7, <1>8, <1>9 DEF LoopStep

LEMMA RunStepTypeOK ==
    ASSUME TypeOK, NEW r \in Run, RunStep(r)
    PROVE  TypeOK'
<1> USE DEF TypeOK, loopVars, dbVars
<1>1. CASE New(r)
  BY <1>1 DEF New, AnyStatus, KnitRunStatus
<1>2. CASE Wake(r)
  BY <1>2 DEF Wake
<1>3. ASSUME NEW st \in {"aborting", "completing"}, Stop(r, st)
      PROVE  TypeOK'
  <2>1. status' \in [Run -> AnyStatus]
    BY <1>3 DEF Stop, AnyStatus, KnitRunStatus
  <2>2. [run |-> r, of |-> attempt[r], ok |-> st = "completing"]
           \in [run : Run, of : 1..MaxAttempt, ok : BOOLEAN]
    OBVIOUS
  <2>3. asked' \subseteq [run : Run, of : 1..MaxAttempt, ok : BOOLEAN]
    BY <1>3, <2>2 DEF Stop
  <2>4. QED
    BY <1>3, <2>1, <2>3 DEF Stop
<1>4. CASE Retry(r)
  BY <1>4, LoopAssumption DEF Retry, NoExit, AnyStatus, KnitRunStatus
<1>5. CASE Delete(r)
  BY <1>5, LoopAssumption DEF Delete, NoExit, AnyStatus, KnitRunStatus
<1>6. CASE JobStep(r)
  BY <1>6, StatusFacts DEF JobStep
<1>7. CASE JobGone(r)
  BY <1>7 DEF JobGone, JobState
<1>8. CASE Kill(r)
  BY <1>8 DEF Kill
<1>9. QED
  BY <1>1, <1>2, <1>3, <1>4, <1>5, <1>6, <1>7, <1>8 DEF RunStep, Abort, Tearoff

LEMMA TypeOKStep ==
    ASSUME TypeOK, [Next]_vars
    PROVE  TypeOK'
<1>1. ASSUME NEW l \in Loop, Fault(l) PROVE TypeOK'
  BY <1>1, LoopAssumption DEF Fault, TypeOK, dbVars, AnyStatus
<1>2. ASSUME NEW b \in BOOLEAN, Activate(b) PROVE TypeOK'
  BY <1>2 DEF Activate, TypeOK, loopVars, AnyStatus, KnitRunStatus
<1>3. ASSUME NEW h \in asked, Answer(h) PROVE TypeOK'
  BY <1>3, LoopAssumption DEF Answer, TypeOK, loopVars
<1>4. CASE UNCHANGED vars
  BY <1>4 DEF vars, dbVars, loopVars, TypeOK
<1>5. QED
  BY <1>1, <1>2, <1>3, <1>4, LoopStepTypeOK, RunStepTypeOK DEF Next

LEMMA TypeOKInit == Init => TypeOK
BY LoopAssumption DEF Init, TypeOK, NoExit, JobState, AnyStatus

\* Every variable stays within its type; a process holds a run exactly while
\* it is at work on one.
THEOREM TypeCorrect == Spec => []TypeOK
<1>1. TypeOK /\ [Next]_vars => TypeOK'
  BY TypeOKStep
<1>2. QED
  BY <1>1, TypeOKInit, PTL DEF Spec

-----------------------------------------------------------------------------
(* No worker is orphaned *)

Live(j) == j.state # "absent" /\ ~ j.deleting

\* No two processes have locked the same run.
Exclusive == \A l, m \in Loop : held[l] = held[m] /\ held[l] # NoRun => l = m

\* What a process at work may rely on, and what it has made up its mind to.
LoopOK(l) ==
    /\ l \in Initializer => pc[l] \in {"idle", "lock", "task", "commit"}
    /\ l \in Manager => pc[l] \in {"idle", "lock", "task", "spawn", "exit", "commit"}
    /\ l \in Finisher => pc[l] \in {"idle", "lock", "task", "unname", "commit"}
    /\ pc[l] = "spawn" =>
          status[held[l]] = "ready" /\ held[l] \in worker /\ decided[l] = "starting"
    /\ pc[l] = "exit" => decided[l] \in {"aborting", "completing"}
    /\ pc[l] = "commit" /\ l \notin Finisher =>
          decided[l] \in {"ready", "starting", "running", "aborting", "completing"}
    /\ pc[l] = "unname" \/ (pc[l] = "commit" /\ l \in Finisher) =>
          /\ status[held[l]] \in {"completing", "aborting"}
          /\ decided[l] = FinishedStatus(status[held[l]])
          /\ ~ Live(job[held[l]])
    /\ pc[l] = "commit" /\ l \in Finisher => held[l] \notin worker

\* The inductive invariant.
IInv == TypeOK /\ Exclusive /\ NoOrphanWorker /\ \A l \in Loop : LoopOK(l)

LEMMA IInvInit == Init => IInv
BY TypeOKInit DEF Init, IInv, Exclusive, NoOrphanWorker, LoopOK

\* The processes that rely on what they have read of their run.
Relies(m) == pc[m] \in {"spawn", "unname"} \/ (pc[m] = "commit" /\ m \in Finisher)

\* A process whose run is left alone may go on relying on it.
LEMMA LeftAlone ==
    ASSUME TypeOK, NEW m \in Loop, LoopOK(m),
           pc'[m] = pc[m], held'[m] = held[m], decided'[m] = decided[m],
           Relies(m) =>
              /\ status'[held[m]] = status[held[m]]
              /\ (held[m] \in worker' <=> held[m] \in worker)
              /\ (Live(job'[held[m]]) => Live(job[held[m]]))
    PROVE  LoopOK(m)'
BY DEF LoopOK, Relies

\* A process that is idle or has just locked a run relies on nothing.
LEMMA FreshStart ==
    ASSUME NEW m \in Loop, pc'[m] \in {"idle", "lock", "task"}
    PROVE  LoopOK(m)'
BY DEF LoopOK

\* What a step of l does to another process m: nothing, when it moves no run
\* but its own.
LEMMA OthersLeftAlone ==
    ASSUME IInv, NEW l \in Loop, NEW m \in Loop \ {l},
           pc'[m] = pc[m], held'[m] = held[m], decided'[m] = decided[m],
           \A r \in Run \ {held[l]} :
              /\ status'[r] = status[r]
              /\ (r \in worker' <=> r \in worker)
              /\ (Live(job'[r]) => Live(job[r]))
    PROVE  LoopOK(m)'
<1>1. CASE Relies(m)
  <2>1. held[m] # NoRun /\ held[m] \in Run
    BY <1>1 DEF Relies, IInv, TypeOK
  <2>2. held[m] # held[l]
    BY <2>1 DEF IInv, Exclusive
  <2>3. QED
    BY <2>1, <2>2, LeftAlone DEF IInv
<1>2. CASE ~ Relies(m)
  BY <1>2, LeftAlone DEF IInv
<1>3. QED
  BY <1>1, <1>2

\* How a process moves on.
LEMMA Moves ==
    ASSUME TypeOK, NEW l \in Loop, NEW p, NEW st, Goto(l, p, st) \/ Release(l)
    PROVE  /\ \A m \in Loop \ {l} :
                 pc'[m] = pc[m] /\ held'[m] = held[m] /\ decided'[m] = decided[m]
           /\ Goto(l, p, st) => pc'[l] = p /\ held'[l] = held[l] /\ decided'[l] = st
           /\ Release(l) => pc'[l] = "idle" /\ held'[l] = NoRun
           /\ Exclusive => Exclusive'
BY DEF TypeOK, Goto, Release, Exclusive

LEMMA PickIInv ==
    ASSUME IInv, NEW l \in Loop, Select(l) \/ Lock(l) \/ Fault(l)
    PROVE  Exclusive' /\ NoOrphanWorker' /\ \A m \in Loop : LoopOK(m)'
<1>1. UNCHANGED <<dbVars, job>>
  BY DEF Select, Lock, Fault
<1>2. \A m \in Loop \ {l} : pc'[m] = pc[m] /\ held'[m] = held[m] /\ decided'[m] = decided[m]
  BY DEF Select, Lock, Fault, IInv, TypeOK
<1>3. pc'[l] \in {"idle", "lock", "task"}
  BY DEF Select, Lock, Fault, IInv, TypeOK
<1>4. \A m \in Loop : LoopOK(m)'
  <2>1. LoopOK(l)'
    BY <1>3, FreshStart
  <2>2. \A r \in Run \ {held[l]} : /\ status'[r] = status[r]
                                  /\ (r \in worker' <=> r \in worker)
                                  /\ (Live(job'[r]) => Live(job[r]))
    BY <1>1 DEF dbVars
  <2>3. \A m \in Loop \ {l} : LoopOK(m)'
    BY <1>2, <2>2, OthersLeftAlone
  <2>4. QED
    BY <2>1, <2>3
<1>5. Exclusive'
  <2>1. CASE Select(l)
    BY <2>1 DEF Select, IInv, Exclusive
  <2>2. CASE Fault(l)
    BY <2>2 DEF Fault, IInv, TypeOK, Exclusive
  <2>3. CASE Lock(l)
    <3> DEFINE free == {r \in snapshot[l] : ~ Locked(r)}
               r    == First(free, cursor[l])
    <3>1. CASE free = {}
      BY <2>3, <3>1 DEF Lock, IInv, Exclusive
    <3>2. CASE free # {}
      <4>1. free \in SUBSET Run
        BY DEF IInv, TypeOK
      <4> HIDE DEF free
      <4>2. r \in free
        BY <3>2, <4>1, FirstIsOne
      <4>3. ~ Locked(r)
        BY <4>2 DEF free
      <4>4. held' = [held EXCEPT ![l] = r]
        BY <2>3, <3>2 DEF Lock, free
      <4> HIDE DEF r
      <4>5. QED
        BY <4>3, <4>4 DEF Locked, IInv, TypeOK, Exclusive
    <3>3. QED
      BY <3>1, <3>2
  <2>4. QED
    BY <2>1, <2>2, <2>3
<1>6. NoOrphanWorker'
  BY <1>1 DEF dbVars, IInv, NoOrphanWorker
<1>7. QED
  BY <1>4, <1>5, <1>6

\* A process goes on, or lets go, and moves no run but the one it holds.
LEMMA GoOn ==
    ASSUME IInv, NEW l \in Loop, NEW p, NEW st, Goto(l, p, st), LoopOK(l)',
           \A r \in Run \ {held[l]} :
              /\ status'[r] = status[r]
              /\ (r \in worker' <=> r \in worker)
              /\ (Live(job'[r]) => Live(job[r]))
    PROVE  Exclusive' /\ \A m \in Loop : LoopOK(m)'
<1>1. \A m \in Loop \ {l} : LoopOK(m)'
  BY Moves, OthersLeftAlone DEF IInv
<1>2. QED
  BY <1>1, Moves DEF IInv

LEMMA LetGo ==
    ASSUME IInv, NEW l \in Loop, Release(l),
           \A r \in Run \ {held[l]} :
              /\ status'[r] = status[r]
              /\ (r \in worker' <=> r \in worker)
              /\ (Live(job'[r]) => Live(job[r]))
    PROVE  Exclusive' /\ \A m \in Loop : LoopOK(m)'
<1>1. \A m \in Loop \ {l} : LoopOK(m)'
  BY Moves, OthersLeftAlone DEF IInv
<1>2. LoopOK(l)'
  BY Moves, FreshStart DEF IInv
<1>3. QED
  BY <1>1, <1>2, Moves DEF IInv

\* The tasks up to the first effect, and the manager's SetExit.
LEMMA TaskIInv ==
    ASSUME IInv, NEW l \in Loop, Initialize(l) \/ Manage(l) \/ SetExit(l)
    PROVE  Exclusive' /\ NoOrphanWorker' /\ \A m \in Loop : LoopOK(m)'
<1>1. UNCHANGED <<status, worker, attempt, job>>
  BY DEF Initialize, Manage, SetExit, dbVars
<1>2. \A r \in Run \ {held[l]} : /\ status'[r] = status[r]
                                /\ (r \in worker' <=> r \in worker)
                                /\ (Live(job'[r]) => Live(job[r]))
  BY <1>1
<1>3. NoOrphanWorker'
  BY <1>1 DEF IInv, NoOrphanWorker
<1>4. CASE Release(l)
  BY <1>2, <1>3, <1>4, LetGo
<1>5. ASSUME NEW st \in {"ready", "starting", "running", "aborting", "completing"},
             l \notin Finisher, Goto(l, "commit", st)
      PROVE  Exclusive' /\ \A m \in Loop : LoopOK(m)'
  <2>1. LoopOK(l)'
    BY <1>5, Moves, LoopAssumption DEF LoopOK, IInv, Loop
  <2>2. QED
    BY <1>2, <1>5, <2>1, GoOn
<1>6. ASSUME NEW st \in {"aborting", "completing"}, l \in Manager, Goto(l, "exit", st)
      PROVE  Exclusive' /\ \A m \in Loop : LoopOK(m)'
  <2>1. LoopOK(l)'
    BY <1>6, Moves, LoopAssumption DEF LoopOK, IInv
  <2>2. QED
    BY <1>2, <1>6, <2>1, GoOn
<1>7. CASE Initialize(l)
  BY <1>3, <1>4, <1>5, <1>7, LoopAssumption DEF Initialize
<1>8. CASE Manage(l)
  <2>1. l \in Manager /\ l \notin Finisher
    BY <1>8, LoopAssumption DEF Manage
  <2>2. CASE held[l] \in worker /\ job[held[l]].state = "absent"
    <3>1. CASE Goto(l, "spawn", "starting") /\ status[held[l]] = "ready"
      <4>1. LoopOK(l)'
        BY <1>1, <2>1, <2>2, <3>1, Moves, LoopAssumption DEF LoopOK, IInv
      <4>2. QED
        BY <1>2, <1>3, <3>1, <4>1, GoOn
    <3>2. CASE Goto(l, "exit", "aborting")
      BY <1>3, <1>6, <2>1, <3>2
    <3>3. QED
      BY <1>8, <2>2, <3>1, <3>2 DEF Manage, WithoutJob
  <2>3. CASE held[l] \in worker /\ job[held[l]].state # "absent"
    <3> DEFINE st == Observed[job[held[l]].state]
    <3>1. \/ Goto(l, "exit", st) /\ st \in {"aborting", "completing"}
          \/ Goto(l, "commit", st)
      BY <1>8, <2>3 DEF Manage
    <3>2. held[l] \in Run
      BY <1>8 DEF Manage, IInv, TypeOK
    <3>3. st \in {"ready", "starting", "running", "aborting", "completing"}
      BY <2>3, <3>2, StatusFacts DEF IInv, TypeOK
    <3> HIDE DEF st
    <3>4. QED
      BY <1>3, <1>5, <1>6, <2>1, <3>1, <3>3
  <2>4. QED
    BY <1>3, <1>4, <1>8, <2>2, <2>3 DEF Manage
<1>9. CASE SetExit(l)
  <2>1. l \notin Finisher /\ decided[l] \in {"aborting", "completing"}
    BY <1>9, LoopAssumption DEF SetExit, IInv, LoopOK
  <2>2. Goto(l, "commit", decided[l])
    BY <1>9 DEF SetExit
  <2>3. QED
    BY <1>3, <1>5, <2>1, <2>2
<1>10. QED
  BY <1>7, <1>8, <1>9

\* A worker is spawned for a run that is ready and knows its name.
LEMMA SpawnIInv ==
    ASSUME IInv, NEW l \in Loop, SpawnWorker(l)
    PROVE  Exclusive' /\ NoOrphanWorker' /\ \A m \in Loop : LoopOK(m)'
<1> DEFINE r == held[l]
<1>1. /\ r \in Run /\ l \in Manager /\ l \notin Finisher
      /\ status[r] = "ready" /\ r \in worker /\ decided[l] = "starting"
  BY LoopAssumption DEF SpawnWorker, IInv, TypeOK, LoopOK, Loop
<1>2. UNCHANGED <<status, worker, attempt>> /\ Goto(l, "commit", "starting")
  BY <1>1 DEF SpawnWorker, dbVars
<1>3. \A q \in Run \ {r} : job'[q] = job[q]
  BY <1>1 DEF SpawnWorker, IInv, TypeOK
<1>4. job'[r] = job[r] \/ job'[r].attempt = attempt[r]
  BY <1>1 DEF SpawnWorker, IInv, TypeOK
<1> HIDE DEF r
<1>5. NoOrphanWorker'
  BY <1>1, <1>2, <1>3, <1>4 DEF IInv, NoOrphanWorker
<1>6. LoopOK(l)'
  BY <1>1, <1>2, Moves, LoopAssumption DEF LoopOK, IInv
<1>7. QED
  BY <1>2, <1>3, <1>5, <1>6, GoOn DEF r

\* Closing a Job leaves no live Job, and makes no other one live.
LEMMA ClosedJob ==
    ASSUME TypeOK, NEW r \in Run, CloseJob(r)
    PROVE  /\ ~ Live(job'[r])
           /\ \A q \in Run \ {r} : job'[q] = job[q]
<1>1. CASE job[r].deleting \/ job[r].state # "absent"
  BY <1>1 DEF CloseJob, Live, TypeOK
<1>2. CASE ~ (job[r].deleting \/ job[r].state # "absent")
  BY <1>2 DEF CloseJob, Live, TypeOK
<1>3. QED
  BY <1>1, <1>2

\* The finisher closes the Job before it drops the name and the status.
LEMMA FinisherIInv ==
    ASSUME IInv, NEW l \in Loop, Close(l) \/ DeleteWorker(l)
    PROVE  Exclusive' /\ NoOrphanWorker' /\ \A m \in Loop : LoopOK(m)'
<1> DEFINE r == held[l]
<1>1. r \in Run /\ l \in Finisher /\ l \notin Manager /\ l \notin Initializer
  BY LoopAssumption DEF Close, DeleteWorker, IInv, TypeOK, LoopOK, Loop
<1>2. CASE Close(l)
  <2>1. UNCHANGED <<status, worker, attempt>>
    BY <1>2 DEF Close, dbVars
  <2>2. CASE Release(l) /\ UNCHANGED job
    <3>1. NoOrphanWorker'
      BY <2>1, <2>2 DEF IInv, NoOrphanWorker
    <3>2. QED
      BY <2>1, <2>2, <3>1, LetGo
  <2>3. CASE /\ status[r] \in {"completing", "aborting"} /\ r \notin worker
             /\ Goto(l, "commit", FinishedStatus(status[r])) /\ UNCHANGED job
    <3>1. NoOrphanWorker'
      BY <2>1, <2>3 DEF IInv, NoOrphanWorker
    <3>2. ~ Live(job[r])
      BY <1>1, <2>3 DEF IInv, NoOrphanWorker, Live
    <3>3. LoopOK(l)'
      <4>1. pc'[l] = "commit" /\ held'[l] = r /\ decided'[l] = FinishedStatus(status[r])
        BY <2>3, Moves DEF IInv
      <4> HIDE DEF r
      <4>2. QED
        BY <1>1, <2>1, <2>3, <3>2, <4>1 DEF LoopOK
    <3>4. QED
      BY <2>1, <2>3, <3>1, <3>3, GoOn
  <2>4. CASE /\ status[r] \in {"completing", "aborting"}
             /\ Goto(l, "unname", FinishedStatus(status[r])) /\ CloseJob(r)
    <3>1. ~ Live(job'[r]) /\ \A q \in Run \ {r} : job'[q] = job[q]
      BY <1>1, <2>4, ClosedJob DEF IInv
    <3>2. NoOrphanWorker'
      BY <2>1, <3>1 DEF IInv, NoOrphanWorker, Live
    <3>3. LoopOK(l)'
      <4>1. pc'[l] = "unname" /\ held'[l] = r /\ decided'[l] = FinishedStatus(status[r])
        BY <2>4, Moves DEF IInv
      <4> HIDE DEF r
      <4>2. QED
        BY <1>1, <2>1, <2>4, <3>1, <4>1 DEF LoopOK
    <3>4. QED
      BY <2>1, <2>4, <3>1, <3>2, <3>3, GoOn
  <2>5. QED
    BY <1>2, <2>2, <2>3, <2>4 DEF Close
<1>3. CASE DeleteWorker(l)
  <2>1. /\ status[r] \in {"completing", "aborting"}
        /\ decided[l] = FinishedStatus(status[r])
        /\ ~ Live(job[r])
    BY <1>3 DEF DeleteWorker, IInv, LoopOK
  <2>2. UNCHANGED <<status, attempt, job>> /\ worker' = worker \ {r}
    BY <1>3 DEF DeleteWorker
  <2>3. Goto(l, "commit", decided[l])
    BY <1>3 DEF DeleteWorker
  <2>4. pc'[l] = "commit" /\ held'[l] = r /\ decided'[l] = decided[l]
    BY <2>3, Moves DEF IInv
  <2>5. LoopOK(l)'
    <3> HIDE DEF r
    <3>1. QED
      BY <1>1, <2>1, <2>2, <2>4 DEF LoopOK
  <2>6. NoOrphanWorker'
    BY <2>1, <2>2 DEF IInv, NoOrphanWorker, Live
  <2>7. QED
    BY <2>2, <2>3, <2>5, <2>6, GoOn
<1>4. QED
  BY <1>2, <1>3

\* What is committed never orphans a worker: only the finisher leaves the
\* statuses that a worker may have, and it has closed the Job.
LEMMA CommitIInv ==
    ASSUME IInv, NEW l \in Loop, Commit(l)
    PROVE  Exclusive' /\ NoOrphanWorker' /\ \A m \in Loop : LoopOK(m)'
<1> DEFINE r == held[l]
<1>1. r \in Run /\ pc[l] = "commit" /\ Release(l)
  BY DEF Commit, IInv, TypeOK
<1>2. UNCHANGED <<worker, attempt, job>>
  BY DEF Commit
<1>3. status' = status \/ status' = [status EXCEPT ![r] = decided[l]]
  BY DEF Commit
<1>4. \A q \in Run \ {r} : status'[q] = status[q]
  BY <1>1, <1>3 DEF IInv, TypeOK
<1>5. status'[r] = status[r] \/ status'[r] = decided[l]
  BY <1>1, <1>3 DEF IInv, TypeOK
<1>6. \/ ~ Live(job[r])
      \/ decided[l] \in {"ready", "starting", "running", "aborting", "completing"}
  BY <1>1 DEF IInv, LoopOK
<1> HIDE DEF r
<1>7. NoOrphanWorker'
  BY <1>2, <1>4, <1>5, <1>6 DEF IInv, NoOrphanWorker, Live
<1>8. QED
  BY <1>1, <1>2, <1>4, <1>7, LetGo DEF r

\* What happens while the loops stand still: runs that are held do not move,
\* unless they are only now being created.
LEMMA Around ==
    ASSUME IInv, UNCHANGED loopVars,
           \A r \in Run : Locked(r) /\ status[r] # "none" =>
              /\ status'[r] = status[r]
              /\ (r \in worker' <=> r \in worker)
              /\ (Live(job'[r]) => Live(job[r]))
    PROVE  Exclusive' /\ \A m \in Loop : LoopOK(m)'
<1>1. Exclusive'
  BY DEF loopVars, IInv, Exclusive
<1>2. ASSUME NEW m \in Loop PROVE LoopOK(m)'
  <2>1. CASE Relies(m)
    <3>1. held[m] \in Run /\ Locked(held[m])
      BY <2>1 DEF Relies, IInv, TypeOK, Locked
    <3>2. status[held[m]] # "none"
      BY <2>1 DEF Relies, IInv, LoopOK
    <3>3. QED
      BY <3>1, <3>2, LeftAlone DEF loopVars, IInv
  <2>2. CASE ~ Relies(m)
    BY <2>2, LeftAlone DEF loopVars, IInv
  <2>3. QED
    BY <2>1, <2>2
<1>3. QED
  BY <1>1, <1>2

\* The database at large and the cluster.
LEMMA RunStepIInv ==
    ASSUME IInv, NEW r \in Run, RunStep(r)
    PROVE  Exclusive' /\ NoOrphanWorker' /\ \A m \in Loop : LoopOK(m)'
<1>1. UNCHANGED loopVars
  BY DEF RunStep, New, Wake, Abort, Tearoff, Stop, Retry, Delete, JobStep, JobGone, Kill
<1>2. CASE Wake(r)
  BY <1>1, <1>2, Around DEF Wake, IInv, NoOrphanWorker
<1>3. CASE New(r)
  <2>1. NoOrphanWorker'
    BY <1>3 DEF New, IInv, TypeOK, NoOrphanWorker
  <2>2. QED
    BY <1>1, <1>3, <2>1, Around DEF New, IInv, TypeOK
<1>4. ASSUME NEW st \in {"aborting", "completing"}, Stop(r, st)
      PROVE  Exclusive' /\ NoOrphanWorker' /\ \A m \in Loop : LoopOK(m)'
  <2>1. NoOrphanWorker'
    BY <1>4 DEF Stop, IInv, TypeOK, NoOrphanWorker
  <2>2. QED
    BY <1>1, <1>4, <2>1, Around DEF Stop, IInv, TypeOK
<1>5. CASE Retry(r)
  <2>1. NoOrphanWorker'
    BY <1>5 DEF Retry, IInv, TypeOK, NoOrphanWorker
  <2>2. QED
    BY <1>1, <1>5, <2>1, Around DEF Retry, IInv, TypeOK
<1>6. CASE Delete(r)
  <2>1. NoOrphanWorker'
    BY <1>6 DEF Delete, IInv, TypeOK, NoOrphanWorker
  <2>2. QED
    BY <1>1, <1>6, <2>1, Around DEF Delete, IInv, TypeOK
<1>7. ASSUME JobStep(r) \/ JobGone(r) \/ Kill(r)
      PROVE  Exclusive' /\ NoOrphanWorker' /\ \A m \in Loop : LoopOK(m)'
  <2>1. UNCHANGED <<status, worker, attempt>>
    BY <1>7 DEF JobStep, JobGone, Kill, dbVars
  <2>2. \A q \in Run \ {r} : job'[q] = job[q]
    BY <1>7 DEF JobStep, JobGone, Kill, IInv, TypeOK
  <2>3. Live(job'[r]) => Live(job[r]) /\ job'[r].attempt = job[r].attempt
    <3>1. CASE JobStep(r)
      <4>1. job[r].state # "absent"
        BY <3>1 DEF JobStep, JobMoves
      <4>2. job'[r].attempt = job[r].attempt /\ job'[r].deleting = job[r].deleting
        BY <3>1 DEF JobStep, IInv, TypeOK
      <4>3. QED
        BY <3>1, <4>1, <4>2 DEF Live, JobStep
    <3>2. CASE JobGone(r)
      BY <3>2 DEF JobGone, Live, IInv, TypeOK
    <3>3. CASE Kill(r)
      BY <3>3 DEF Kill, Live, IInv, TypeOK
    <3>4. QED
      BY <1>7, <3>1, <3>2, <3>3
  <2>4. NoOrphanWorker'
    BY <2>1, <2>2, <2>3 DEF IInv, NoOrphanWorker, Live
  <2>5. QED
    BY <1>1, <2>1, <2>2, <2>3, <2>4, Around
<1>8. QED
  BY <1>2, <1>3, <1>4, <1>5, <1>6, <1>7 DEF RunStep, Abort, Tearoff

LEMMA IInvStep ==
    ASSUME IInv, [Next]_vars
    PROVE  IInv'
<1>1. TypeOK'
  BY TypeOKStep DEF IInv
<1>2. ASSUME NEW l \in Loop, LoopStep(l) \/ Fault(l)
      PROVE  Exclusive' /\ NoOrphanWorker' /\ \A m \in Loop : LoopOK(m)'
  BY <1>2, PickIInv, TaskIInv, SpawnIInv, FinisherIInv, CommitIInv DEF LoopStep
<1>3. ASSUME NEW b \in BOOLEAN, Activate(b)
      PROVE  Exclusive' /\ NoOrphanWorker' /\ \A m \in Loop : LoopOK(m)'
  <2>1. UNCHANGED <<worker, attempt, job, loopVars>>
    BY <1>3 DEF Activate
  <2>2. NoOrphanWorker'
    BY <1>3 DEF Activate, IInv, NoOrphanWorker
  <2>3. \A r \in Run : Locked(r) => status'[r] = status[r]
    BY <1>3 DEF Activate
  <2>4. QED
    BY <2>1, <2>2, <2>3, Around
<1>4. ASSUME NEW h \in asked, Answer(h)
      PROVE  Exclusive' /\ NoOrphanWorker' /\ \A m \in Loop : LoopOK(m)'
  <2>1. UNCHANGED <<status, worker, attempt, job, loopVars>>
    BY <1>4 DEF Answer
  <2>2. NoOrphanWorker'
    BY <2>1 DEF IInv, NoOrphanWorker
  <2>3. QED
    BY <2>1, <2>2, Around
<1>5. CASE UNCHANGED vars
  <2>1. UNCHANGED <<status, worker, attempt, job, loopVars>>
    BY <1>5 DEF vars, dbVars, loopVars
  <2>2. NoOrphanWorker'
    BY <2>1 DEF IInv, NoOrphanWorker
  <2>3. Exclusive' /\ \A m \in Loop : LoopOK(m)'
    BY <2>1, Around
  <2>4. QED
    BY <1>1, <2>2, <2>3 DEF IInv
<1>6. QED
  BY <1>1, <1>2, RunStepIInv, <1>3, <1>4, <1>5 DEF Next, IInv

THEOREM IInvInvariant == Spec => []IInv
BY IInvInit, IInvStep, PTL DEF Spec

\* A Job that nobody is deleting belongs to a run that is still managed or
\* cleaned up, in its present attempt.
THEOREM NoOrphanCorrect == Spec => []NoOrphanWorker
<1>1. IInv => NoOrphanWorker
  BY DEF IInv
<1>2. QED
  BY <1>1, IInvInvariant, PTL

-----------------------------------------------------------------------------
(* Every run lives as RunLifecycle says *)

\* Only runs that exist are picked.
Begun ==
    \A l \in Loop :
        /\ \A r \in snapshot[l] : status[r] # "none"
        /\ held[l] \in Run => status[held[l]] # "none"

LEMMA BegunStep ==
    ASSUME IInv, Begun, [Next]_vars
    PROVE  Begun'
<1>1. \A r \in Run : status[r] # "none" => status'[r] # "none"
  <2> SUFFICES ASSUME NEW r \in Run, status[r] # "none"
               PROVE  status'[r] # "none"
    OBVIOUS
  <2>1. status[r] \in KnitRunStatus /\ \A st \in NextStatuses[status[r]] : st # "none"
    <3>1. status[r] \in KnitRunStatus
      BY DEF IInv, TypeOK, AnyStatus
    <3>2. "none" \notin KnitRunStatus
      BY DEF KnitRunStatus
    <3>3. QED
      BY <3>1, <3>2, StatusFacts
  <2>2. ASSUME NEW l \in Loop, LoopStep(l) \/ Fault(l)
        PROVE  status'[r] # "none"
    <3>1. CASE Commit(l)
      BY <2>1, <3>1 DEF Commit, IInv, TypeOK
    <3>2. CASE ~ Commit(l)
      BY <2>2, <3>2 DEF LoopStep, Select, Lock, Initialize, Manage, SpawnWorker, SetExit, Close,
                        DeleteWorker, Fault, dbVars
    <3>3. QED
      BY <3>1, <3>2
  <2>3. ASSUME NEW q \in Run, RunStep(q)
        PROVE  status'[r] # "none"
    BY <2>3 DEF RunStep, New, Wake, Abort, Tearoff, Stop, Retry, Delete, JobStep, JobGone, Kill,
                IInv, TypeOK, dbVars
  <2>4. ASSUME NEW b \in BOOLEAN, Activate(b)
        PROVE  status'[r] # "none"
    BY <2>4 DEF Activate
  <2>5. CASE (\E h \in asked : Answer(h)) \/ UNCHANGED vars
    BY <2>5 DEF Answer, vars, dbVars
  <2>6. QED
    BY <2>2, <2>3, <2>4, <2>5 DEF Next
<1>2. \A l \in Loop : snapshot'[l] \subseteq snapshot[l] \cup Target(l)
  <2>1. ASSUME NEW l \in Loop, LoopStep(l) \/ Fault(l), NEW m \in Loop
        PROVE  snapshot'[m] \subseteq snapshot[m] \cup Target(m)
    BY <2>1 DEF LoopStep, Select, Lock, Initialize, Manage, SpawnWorker, SetExit, Close,
                DeleteWorker, Commit, Fault, Goto, Release, IInv, TypeOK
  <2>2. CASE UNCHANGED snapshot
    BY <2>2
  <2>3. QED
    BY <2>1, <2>2 DEF Next, RunStep, New, Wake, Abort, Tearoff, Stop, Retry, Delete, JobStep,
                      JobGone, Kill, Activate, Answer, loopVars, vars
<1>3. \A l \in Loop : held'[l] \in Run => held'[l] = held[l] \/ held'[l] \in snapshot[l]
  <2>1. ASSUME NEW l \in Loop, Lock(l), NEW m \in Loop, held'[m] \in Run
        PROVE  held'[m] = held[m] \/ held'[m] \in snapshot[m]
    <3> DEFINE free == {r \in snapshot[l] : ~ Locked(r)}
               r    == First(free, cursor[l])
    <3>1. CASE free = {}
      BY <2>1, <3>1 DEF Lock
    <3>2. CASE free # {}
      <4>1. free \in SUBSET Run /\ free \subseteq snapshot[l]
        BY DEF IInv, TypeOK
      <4> HIDE DEF free
      <4>2. r \in snapshot[l]
        BY <3>2, <4>1, FirstIsOne
      <4>3. held' = [held EXCEPT ![l] = r]
        BY <2>1, <3>2 DEF Lock, free
      <4> HIDE DEF r
      <4>4. QED
        BY <4>2, <4>3 DEF IInv, TypeOK
    <3>3. QED
      BY <3>1, <3>2
  <2>2. ASSUME NEW l \in Loop, (LoopStep(l) /\ ~ Lock(l)) \/ Fault(l),
               NEW m \in Loop, held'[m] \in Run
        PROVE  held'[m] = held[m]
    BY <2>2, LoopAssumption
       DEF LoopStep, Select, Initialize, Manage, SpawnWorker, SetExit, Close, DeleteWorker,
           Commit, Fault, Goto, Release, IInv, TypeOK
  <2>3. CASE UNCHANGED held
    BY <2>3
  <2>4. QED
    BY <2>1, <2>2, <2>3 DEF Next, RunStep, New, Wake, Abort, Tearoff, Stop, Retry, Delete,
                            JobStep, JobGone, Kill, Activate, Answer, loopVars, vars
<1>4. \A l \in Loop : \A r \in Target(l) : status[r] # "none"
  BY DEF Target, Seed, Loop
<1>5. \A l \in Loop : snapshot[l] \subseteq Run /\ Target(l) \subseteq Run
  BY DEF IInv, TypeOK, Target
<1>6. QED
  BY <1>1, <1>2, <1>3, <1>4, <1>5 DEF Begun

LEMMA SameStatuses ==
    /\ Lifecycle!KnitRunStatus = KnitRunStatus
    /\ Lifecycle!Finished = Finished
    /\ Lifecycle!NextStatuses = NextStatuses
    /\ \A st : Lifecycle!FinishedStatus(st) = FinishedStatus(st)
<1>1. Lifecycle!KnitRunStatus = KnitRunStatus
  BY DEF Lifecycle!KnitRunStatus, KnitRunStatus
<1>2. Lifecycle!Finished = Finished
  BY DEF Lifecycle!Finished, Finished
<1>3. Lifecycle!NextStatuses = NextStatuses
  BY <1>1 DEF Lifecycle!NextStatuses, NextStatuses
<1>4. \A st : Lifecycle!FinishedStatus(st) = FinishedStatus(st)
  BY DEF Lifecycle!FinishedStatus, FinishedStatus
<1>5. QED
  BY <1>1, <1>2, <1>3, <1>4

\* A step of a run's life, while the other runs stay as they are.
LEMMA AloneInLife ==
    ASSUME NEW r \in Run,
           \A q \in Run \ {r} : status'[q] = status[q] /\ (q \in worker' <=> q \in worker),
           \/ Lifecycle!Begin(r) \/ Lifecycle!Advance(r) \/ Lifecycle!CleanUp(r)
           \/ Lifecycle!Finish(r) \/ Lifecycle!Retry(r) \/ Lifecycle!Discard(r)
           \/ Lifecycle!Stay(r)
    PROVE  Lifecycle!Next
<1>1. \A q \in Run \ {r} : Lifecycle!Stay(q)
  BY DEF Lifecycle!Stay
<1>2. QED
  BY <1>1 DEF Lifecycle!Next

\* What a loop commits is a step of the life of the run it holds.
LEMMA LoopStepInLife ==
    ASSUME IInv, Begun, NEW l \in Loop, LoopStep(l) \/ Fault(l)
    PROVE  Lifecycle!Next \/ UNCHANGED <<status, worker>>
<1> DEFINE r == held[l]
<1>1. CASE DeleteWorker(l)
  <2>1. r \in Run /\ status[r] \in {"completing", "aborting"}
    BY <1>1 DEF DeleteWorker, IInv, TypeOK, LoopOK
  <2>2. status' = status /\ worker' = worker \ {r}
    BY <1>1 DEF DeleteWorker
  <2> HIDE DEF r
  <2>3. Lifecycle!CleanUp(r)
    BY <2>1, <2>2 DEF Lifecycle!CleanUp
  <2>4. QED
    BY <2>1, <2>2, <2>3, AloneInLife
<1>2. CASE Commit(l)
  <2>1. r \in Run /\ pc[l] = "commit" /\ worker' = worker
    BY <1>2 DEF Commit, IInv, TypeOK
  <2>2. status[r] \in KnitRunStatus
    BY <2>1 DEF Begun, IInv, TypeOK, AnyStatus
  <2>3. CASE status' = [status EXCEPT ![r] = decided[l]] /\ decided[l] \in NextStatuses[status[r]]
    <3>1. CASE l \in Finisher
      <4>1. /\ status[r] \in {"completing", "aborting"} /\ r \notin worker
            /\ decided[l] = FinishedStatus(status[r])
        BY <2>1, <3>1 DEF IInv, LoopOK
      <4>2. status'[r] = FinishedStatus(status[r])
        BY <2>1, <2>3, <4>1 DEF IInv, TypeOK
      <4>3. \A q \in Run \ {r} : status'[q] = status[q]
        BY <2>1, <2>3 DEF IInv, TypeOK
      <4> HIDE DEF r
      <4>4. Lifecycle!Finish(r)
        BY <2>1, <4>1, <4>2, SameStatuses DEF Lifecycle!Finish
      <4>5. QED
        BY <2>1, <4>3, <4>4, AloneInLife
    <3>2. CASE l \notin Finisher
      <4>1. decided[l] \notin Finished
        BY <2>1, <3>2 DEF IInv, LoopOK, Finished
      <4>2. status'[r] = decided[l]
        BY <2>1, <2>3 DEF IInv, TypeOK
      <4>3. \A q \in Run \ {r} : status'[q] = status[q]
        BY <2>1, <2>3 DEF IInv, TypeOK
      <4> HIDE DEF r
      <4>4. Lifecycle!Advance(r)
        BY <2>1, <2>2, <2>3, <4>1, <4>2, SameStatuses DEF Lifecycle!Advance
      <4>5. QED
        BY <2>1, <4>3, <4>4, AloneInLife
    <3>3. QED
      BY <3>1, <3>2
  <2>4. QED
    BY <1>2, <2>1, <2>3 DEF Commit
<1>3. CASE ~ (DeleteWorker(l) \/ Commit(l))
  BY <1>3 DEF LoopStep, Select, Lock, Initialize, Manage, SpawnWorker, SetExit, Close, Fault, dbVars
<1>4. QED
  BY <1>1, <1>2, <1>3

LEMMA RunStepInLife ==
    ASSUME IInv, NEW r \in Run, RunStep(r)
    PROVE  Lifecycle!Next \/ UNCHANGED <<status, worker>>
<1>1. CASE New(r)
  <2>1. Lifecycle!Begin(r)
    BY <1>1 DEF New, Lifecycle!Begin, IInv, TypeOK
  <2>2. QED
    BY <1>1, <2>1, AloneInLife DEF New, IInv, TypeOK
<1>2. ASSUME NEW st \in {"aborting", "completing"}, Stop(r, st)
      PROVE  Lifecycle!Next
  <2>1. status[r] \in KnitRunStatus /\ status'[r] = st /\ worker' = worker
    BY <1>2 DEF Stop, IInv, TypeOK, AnyStatus
  <2>2. Lifecycle!Advance(r) \/ Lifecycle!Stay(r)
    BY <1>2, <2>1, SameStatuses DEF Stop, Lifecycle!Advance, Lifecycle!Stay, Finished
  <2>3. QED
    BY <1>2, <2>1, <2>2, AloneInLife DEF Stop, IInv, TypeOK
<1>3. CASE Retry(r)
  <2>1. Lifecycle!Retry(r)
    BY <1>3, SameStatuses DEF Retry, Lifecycle!Retry, IInv, TypeOK
  <2>2. QED
    BY <1>3, <2>1, AloneInLife DEF Retry, IInv, TypeOK
<1>4. CASE Delete(r)
  <2>1. Lifecycle!Discard(r)
    BY <1>4, SameStatuses DEF Delete, Lifecycle!Discard, IInv, TypeOK, Finished
  <2>2. QED
    BY <1>4, <2>1, AloneInLife DEF Delete, IInv, TypeOK
<1>5. CASE Wake(r) \/ JobStep(r) \/ JobGone(r) \/ Kill(r)
  BY <1>5 DEF Wake, JobStep, JobGone, Kill, dbVars
<1>6. QED
  BY <1>1, <1>2, <1>3, <1>4, <1>5 DEF RunStep, Abort, Tearoff

LEMMA ActivateInLife ==
    ASSUME IInv, NEW b \in BOOLEAN, Activate(b)
    PROVE  Lifecycle!Next
<1> SUFFICES ASSUME NEW r \in Run
             PROVE  Lifecycle!Stay(r) \/ Lifecycle!Advance(r)
  BY DEF Lifecycle!Next
<1>1. worker' = worker
  BY DEF Activate
<1>2. \/ status'[r] = status[r]
      \/ status[r] = "waiting" /\ status'[r] = "deactivated"
      \/ status[r] = "deactivated" /\ status'[r] = "waiting"
  BY DEF Activate, IInv, TypeOK
<1>3. QED
  BY <1>1, <1>2, SameStatuses
     DEF Lifecycle!Stay, Lifecycle!Advance, NextStatuses, KnitRunStatus, Finished

\* The loops, the users and the cluster together give every run the life that
\* is promised, for any number of replicas of each loop and any crashes.
THEOREM LifecycleImplemented == Spec => ImplementsLifecycle
<1>1. Init => Lifecycle!Init
  BY DEF Init, Lifecycle!Init
<1>2. Init => Begun
  BY LoopAssumption DEF Init, Begun
<1>3. IInv /\ Begun /\ [Next]_vars => [Lifecycle!Next]_<<status, worker>>
  <2> SUFFICES ASSUME IInv, Begun, [Next]_vars
               PROVE  Lifecycle!Next \/ UNCHANGED <<status, worker>>
    OBVIOUS
  <2>1. CASE (\E h \in asked : Answer(h)) \/ UNCHANGED vars
    BY <2>1 DEF Answer, vars, dbVars
  <2>2. QED
    BY <2>1, LoopStepInLife, RunStepInLife, ActivateInLife DEF Next
<1>4. IInv /\ Begun /\ [Next]_vars => Begun'
  BY BegunStep
<1>5. QED
  BY <1>1, <1>2, <1>3, <1>4, IInvInvariant, PTL DEF Spec, ImplementsLifecycle, Lifecycle!Spec
-----------------------------------------------------------------------------
(* A worker is created once for an attempt *)

Early == {"none", "deactivated", "waiting", "ready"}

\* Somebody is about to store that the run has got its worker.
Starting(r) ==
    \E l \in Manager : held[l] = r /\ pc[l] = "commit" /\ decided[l] = "starting"

\* A worker is of this attempt or an earlier one; of this one, only when the
\* run has started, or is held by the process that will say so.
SpawnedOK(r) ==
    /\ job[r].attempt <= attempt[r]
    /\ faults = 0 /\ job[r].attempt = attempt[r] /\ status[r] \in Early =>
          status[r] = "ready" /\ Starting(r)

Spawned == \A r \in Run : SpawnedOK(r)

\* A step of a loop moves no other process.
LEMMA LoopFrame ==
    ASSUME TypeOK, NEW l \in Loop, LoopStep(l) \/ Fault(l), NEW m \in Loop \ {l}
    PROVE  /\ pc'[m] = pc[m] /\ held'[m] = held[m] /\ decided'[m] = decided[m]
           /\ snapshot'[m] = snapshot[m]
BY DEF LoopStep, Fault, Select, Lock, Initialize, Manage, SpawnWorker, SetExit, Close,
       DeleteWorker, Commit, Goto, Release, TypeOK

\* A run that stays as it is, and whose manager does not let go of it.
LEMMA SpawnedKept ==
    ASSUME TypeOK, NEW r \in Run, SpawnedOK(r),
           job'[r].attempt = job[r].attempt, attempt'[r] = attempt[r],
           status'[r] \in Early => status[r] = status'[r] \/ job[r].attempt # attempt[r],
           faults' = 0 => faults = 0 /\ (Starting(r) => Starting(r)')
    PROVE  SpawnedOK(r)'
BY DEF SpawnedOK

\* What becomes of a Job leaves it the attempt it was created for, and makes
\* none.
LEMMA JobMovesOn ==
    ASSUME TypeOK, NEW q \in Run, JobStep(q) \/ JobGone(q) \/ Kill(q), NEW r \in Run
    PROVE  /\ job'[r].attempt = job[r].attempt
           /\ job[r].state = "absent" => job'[r].state = "absent"
<1>1. CASE r # q
  BY <1>1 DEF JobStep, JobGone, Kill, TypeOK
<1>2. CASE r = q /\ JobStep(q)
  BY <1>2 DEF JobStep, JobMoves, TypeOK
<1>3. CASE r = q /\ JobGone(q)
  BY <1>3 DEF JobGone, TypeOK
<1>4. CASE r = q /\ Kill(q)
  BY <1>4 DEF Kill, TypeOK
<1>5. QED
  BY <1>1, <1>2, <1>3, <1>4

LEMMA LoopSpawned ==
    ASSUME IInv, Spawned, NEW l \in Loop, LoopStep(l), NEW r \in Run
    PROVE  SpawnedOK(r)'
<1> USE DEF IInv
<1>1. SpawnedOK(r) /\ faults' = faults /\ attempt' = attempt
  BY DEF Spawned, LoopStep, Select, Lock, Initialize, Manage, SpawnWorker, SetExit, Close,
         DeleteWorker, Commit, Goto, Release, dbVars
<1>2. pc[l] # "commit" => (Starting(r) => Starting(r)')
  BY LoopFrame DEF Starting, Loop
<1>3. CASE SpawnWorker(l)
  <2>1. /\ held[l] \in Run /\ l \in Manager /\ pc[l] = "spawn"
        /\ status[held[l]] = "ready" /\ decided[l] = "starting"
    BY <1>3, LoopAssumption DEF SpawnWorker, TypeOK, LoopOK, Loop
  <2>2. status' = status
    BY <1>3 DEF SpawnWorker, dbVars
  <2>3. CASE r # held[l]
    <3>1. job'[r] = job[r]
      BY <1>3, <2>3 DEF SpawnWorker, TypeOK
    <3>2. QED
      BY <1>1, <1>2, <2>1, <2>2, <3>1, SpawnedKept
  <2>4. CASE r = held[l]
    <3>1. /\ pc'[l] = "commit" /\ held'[l] = r /\ decided'[l] = "starting"
      BY <1>3, <2>1, <2>4, Moves DEF SpawnWorker
    <3>2. Starting(r)'
      BY <2>1, <3>1 DEF Starting
    <3>3. job'[r].attempt \in {job[r].attempt, attempt[r]}
      BY <1>3, <2>4 DEF SpawnWorker, TypeOK
    <3>4. attempt[r] <= attempt[r]
      BY DEF TypeOK
    <3>5. QED
      BY <1>1, <2>1, <2>2, <2>4, <3>2, <3>3, <3>4 DEF SpawnedOK
  <2>5. QED
    BY <2>3, <2>4
<1>4. CASE Commit(l)
  <2>1. held[l] \in Run /\ pc[l] = "commit" /\ job' = job
    BY <1>4 DEF Commit, TypeOK
  <2>2. status' = status \/ status' = [status EXCEPT ![held[l]] = decided[l]]
    BY <1>4 DEF Commit
  <2>3. CASE r # held[l]
    <3>1. status'[r] = status[r]
      BY <2>1, <2>2, <2>3 DEF TypeOK
    <3>2. Starting(r) => Starting(r)'
      BY <2>3, <1>4, LoopFrame DEF LoopStep, Starting, Loop
    <3>3. QED
      BY <1>1, <2>1, <3>1, <3>2, SpawnedKept
  <2>4. CASE r = held[l]
    <3>1. \/ status' = status /\ status[r] = decided[l]
          \/ decided[l] \in NextStatuses[status[r]] /\ status'[r] = decided[l]
          \/ /\ decided[l] \notin NextStatuses[status[r]]
             /\ status' = status
          \/ status[r] \in Finished \cup {"invalidated"} /\ status' = status
      BY <1>4, <2>4 DEF Commit, TypeOK
    <3>2. Starting(r) => l \in Manager /\ decided[l] = "starting"
      BY <2>1, <2>4 DEF Starting, Exclusive, TypeOK, Loop
    <3>3. "starting" \in NextStatuses["ready"]
      BY DEF NextStatuses, KnitRunStatus
    <3>4. status'[r] \in Early => status'[r] = status[r] \/ status[r] \in Early \ {"ready"}
      <4>1. CASE status'[r] = status[r]
        BY <4>1
      <4>2. CASE status'[r] # status[r]
        <5>1. status'[r] \in NextStatuses[status[r]] /\ decided[l] = status'[r]
          BY <3>1, <4>2
        <5>2. status'[r] # "none" /\ status[r] # "none" /\ status'[r] \in Early => status[r] \in Early \ {"ready"}
          <6>1. status[r] \in AnyStatus
            BY DEF TypeOK
          <6>2. QED
            BY <5>1, <6>1 DEF NextStatuses, KnitRunStatus, Early, AnyStatus
        <5>3. status'[r] # "none"
          BY <2>1, <5>1, StatusFacts DEF LoopOK, FinishedStatus
        <5>4. QED
          BY <5>2, <5>3 DEF Early
      <4>3. QED
        BY <4>1, <4>2
    <3>5. CASE faults = 0 /\ job[r].attempt = attempt[r] /\ status'[r] \in Early
      <4>1. status[r] \in Early
        BY <3>4, <3>5 DEF Early
      <4>2. status[r] = "ready" /\ decided[l] = "starting"
        BY <1>1, <3>2, <3>5, <4>1 DEF SpawnedOK
      <4>3. status'[r] = "starting"
        BY <3>1, <3>3, <4>2 DEF Finished
      <4>4. QED
        BY <3>5, <4>3 DEF Early
    <3>6. CASE ~ (faults = 0 /\ job[r].attempt = attempt[r] /\ status'[r] \in Early)
      BY <1>1, <2>1, <3>6 DEF SpawnedOK
    <3>7. QED
      BY <3>5, <3>6
  <2>5. QED
    BY <2>3, <2>4
<1>5. CASE Close(l)
  <2>1. held[l] \in Run /\ status' = status /\ pc[l] = "task"
    BY <1>5 DEF Close, TypeOK, dbVars
  <2>2. job'[r].attempt = job[r].attempt
    BY <1>5, <2>1 DEF Close, CloseJob, TypeOK
  <2>3. QED
    BY <1>1, <1>2, <2>1, <2>2, SpawnedKept
<1>6. CASE ~ (SpawnWorker(l) \/ Commit(l) \/ Close(l))
  <2>1. status' = status /\ job' = job /\ pc[l] # "commit"
    BY <1>6 DEF LoopStep, Select, Lock, Initialize, Manage, SetExit, DeleteWorker, dbVars
  <2>2. QED
    BY <1>1, <1>2, <2>1, SpawnedKept
<1>7. QED
  BY <1>3, <1>4, <1>5, <1>6

LEMMA RunSpawned ==
    ASSUME IInv, Spawned, NEW q \in Run, RunStep(q), NEW r \in Run
    PROVE  SpawnedOK(r)'
<1> USE DEF IInv
<1>1. SpawnedOK(r) /\ faults' = faults /\ (Starting(r) => Starting(r)')
  BY DEF Spawned, RunStep, New, Wake, Abort, Tearoff, Stop, Retry, Delete, JobStep, JobGone,
         Kill, Starting, loopVars
<1>2. CASE New(q)
  <2>1. job' = job /\ attempt' = attempt /\ (r # q => status'[r] = status[r])
    BY <1>2 DEF New, TypeOK
  <2>2. r = q /\ faults = 0 => job[r].attempt # attempt[r]
    BY <1>1, <1>2 DEF New, SpawnedOK, Early
  <2>3. CASE r = q
    BY <1>1, <2>1, <2>2, <2>3 DEF SpawnedOK
  <2>4. QED
    BY <1>1, <2>1, <2>3, SpawnedKept
<1>3. CASE Wake(q)
  BY <1>1, <1>3, SpawnedKept DEF Wake
<1>4. ASSUME NEW st \in {"aborting", "completing"}, Stop(q, st)
      PROVE  SpawnedOK(r)'
  <2>1. status'[r] = status[r] \/ status'[r] \notin Early
    BY <1>4 DEF Stop, TypeOK, Early
  <2>2. QED
    BY <1>1, <1>4, <2>1, SpawnedKept DEF Stop
<1>5. CASE Retry(q)
  <2>1. CASE r # q
    BY <1>1, <1>5, <2>1, SpawnedKept DEF Retry, TypeOK
  <2>2. CASE r = q
    <3>1. job'[r].attempt < attempt'[r]
      BY <1>1, <1>5, <2>2, LoopAssumption DEF Retry, TypeOK, SpawnedOK
    <3>2. QED
      BY <3>1, <1>5, LoopAssumption, TypeOKStep DEF SpawnedOK, TypeOK, Retry
  <2>3. QED
    BY <2>1, <2>2
<1>6. CASE Delete(q)
  BY <1>1, <1>6, SpawnedKept DEF Delete, TypeOK, Early
<1>7. CASE JobStep(q) \/ JobGone(q) \/ Kill(q)
  <2>1. job'[r].attempt = job[r].attempt
    BY <1>7, JobMovesOn
  <2>2. QED
    BY <1>1, <1>7, <2>1, SpawnedKept DEF JobStep, JobGone, Kill, dbVars
<1>8. QED
  BY <1>2, <1>3, <1>4, <1>5, <1>6, <1>7 DEF RunStep, Abort, Tearoff

LEMMA SpawnedStep ==
    ASSUME IInv, Spawned, [Next]_vars
    PROVE  Spawned'
<1> SUFFICES ASSUME NEW r \in Run PROVE SpawnedOK(r)'
  BY DEF Spawned
<1>1. SpawnedOK(r)
  BY DEF Spawned
<1>2. ASSUME NEW l \in Loop, Fault(l) PROVE SpawnedOK(r)'
  <2>1. faults' # 0 /\ UNCHANGED <<dbVars, job>>
    BY <1>2, LoopAssumption DEF Fault, IInv, TypeOK
  <2>2. QED
    BY <1>1, <2>1 DEF SpawnedOK, dbVars
<1>3. ASSUME NEW b \in BOOLEAN, Activate(b) PROVE SpawnedOK(r)'
  <2>1. UNCHANGED <<attempt, job, loopVars>>
    BY <1>3 DEF Activate
  <2>2. \/ status'[r] = status[r]
        \/ status[r] \in {"waiting", "deactivated"}
    BY <1>3 DEF Activate, IInv, TypeOK
  <2>3. QED
    BY <1>1, <2>1, <2>2 DEF SpawnedOK, Starting, Early, loopVars
<1>4. CASE (\E h \in asked : Answer(h)) \/ UNCHANGED vars
  BY <1>1, <1>4 DEF Answer, SpawnedOK, Starting, loopVars, dbVars, vars
<1>5. QED
  BY <1>2, <1>3, <1>4, LoopSpawned, RunSpawned DEF Next

\* A worker is created at most once for an attempt, however many processes
\* manage runs and whatever users do, until one of the loops meets an error.
THEOREM SpawnsOnceCorrect == Spec => SpawnsOnce
<1> DEFINE Once == \A r \in Run :
                      faults = 0 /\ job[r].state = "absent" /\ job'[r].state # "absent" =>
                          job[r].attempt < job'[r].attempt
<1>1. Init => Spawned
  BY LoopAssumption DEF Init, Spawned, SpawnedOK
<1>2. IInv /\ Spawned /\ [Next]_vars => Spawned'
  BY SpawnedStep
<1>3. IInv /\ Spawned /\ [Next]_vars => [Once]_vars
  <2> SUFFICES ASSUME IInv, Spawned, [Next]_vars, NEW r \in Run,
                      faults = 0, job[r].state = "absent", job'[r].state # "absent"
               PROVE  job[r].attempt < job'[r].attempt
    OBVIOUS
  <2>1. PICK l \in Loop : SpawnWorker(l) \/ Close(l)
    <3>1. ASSUME NEW q \in Run, RunStep(q) PROVE FALSE
      BY <3>1, JobMovesOn DEF RunStep, New, Wake, Abort, Tearoff, Stop, Retry, Delete, IInv
    <3>2. job' # job
      OBVIOUS
    <3>3. QED
      BY <3>1, <3>2 DEF Next, Activate, Answer, Fault, LoopStep, Select, Lock, Initialize,
                        Manage, SetExit, DeleteWorker, Commit, vars
  <2>2. CASE Close(l)
    <3> DEFINE asked_to_go == job[held[l]].deleting \/ job[held[l]].state # "absent"
    <3>1. job' = job \/ job' = [job EXCEPT ![held[l]].deleting = asked_to_go]
      BY <2>2 DEF Close, CloseJob
    <3>2. job \in [Run -> [state : JobState, attempt : 0..MaxAttempt, deleting : BOOLEAN]]
      BY DEF IInv, TypeOK
    <3> HIDE DEF asked_to_go
    <3>3. job'[r].state = job[r].state
      BY <3>1, <3>2
    <3>4. QED
      BY <3>3
  <2>3. CASE SpawnWorker(l)
    <3>1. held[l] = r /\ pc[l] = "spawn" /\ status[r] = "ready" /\ job'[r].attempt = attempt[r]
      BY <2>3 DEF SpawnWorker, IInv, TypeOK, LoopOK
    <3>2. ~ Starting(r)
      BY <3>1, LoopAssumption DEF Starting, IInv, TypeOK, Exclusive, Loop
    <3>3. job[r].attempt <= attempt[r] /\ job[r].attempt # attempt[r]
      BY <3>1, <3>2 DEF Spawned, SpawnedOK, Early
    <3>4. job[r].attempt \in Int /\ attempt[r] \in Int
      BY LoopAssumption DEF IInv, TypeOK
    <3>5. QED
      BY <3>1, <3>3, <3>4
  <2>4. QED
    BY <2>1, <2>2, <2>3
<1>4. QED
  BY <1>1, <1>2, <1>3, IInvInvariant, PTL DEF Spec, SpawnsOnce
-----------------------------------------------------------------------------
(* The exit on record tells what the status does *)

ExitOf(r, good) == [of |-> attempt[r], ok |-> good]

\* The claim, for one run.
Told(r) ==
    /\ status[r] \in {"completing", "done"} => exit[r] = ExitOf(r, TRUE)
    /\ status[r] \in {"aborting", "failed"} => exit[r] = ExitOf(r, FALSE)

Managed == {"ready", "starting", "running"}

\* The manager looks at runs that nobody but it moves on, and it has recorded
\* the exit by the time that it commits the end of a run.
ManagerOK(l) ==
    /\ pc[l] # "lock" => snapshot[l] = {}
    /\ \A r \in snapshot[l] : status[r] \in Managed
    /\ held[l] \in Run => status[held[l]] \in Managed
    /\ pc[l] = "commit" /\ decided[l] \in {"aborting", "completing"} =>
          exit[held[l]] = ExitOf(held[l], decided[l] = "completing")

InitializerOK(l) == pc[l] = "commit" => decided[l] = "ready"

\* What there is to know when no user stops a run and one process manages.
ExitInv ==
    /\ asked = {}
    /\ \A r \in Run : Told(r)
    /\ \A l \in Manager : ManagerOK(l)
    /\ \A l \in Initializer : InitializerOK(l)

\* The hypotheses of this part.
NobodyStops == UserOps \cap {"abort", "tearoff"} = {}
OneManager == \A m, n \in Manager : m = n

\* A run that is left alone.
LEMMA ToldKept ==
    ASSUME NEW r \in Run, Told(r), exit'[r] = exit[r], attempt'[r] = attempt[r],
           status'[r] = status[r] \/ status'[r] \notin {"completing", "done", "aborting", "failed"}
    PROVE  Told(r)'
BY DEF Told, ExitOf

\* A manager that stands still, while the runs that it looks at do so too.
LEMMA ManagerKept ==
    ASSUME TypeOK, NEW l \in Manager, ManagerOK(l),
           pc'[l] = pc[l], held'[l] = held[l], decided'[l] = decided[l],
           snapshot'[l] = snapshot[l],
           \A r \in Run : status[r] \in Managed => status'[r] \in Managed,
           held[l] \in Run =>
              exit'[held[l]] = exit[held[l]] /\ attempt'[held[l]] = attempt[held[l]]
    PROVE  ManagerOK(l)'
<1>1. held[l] \in Run \/ pc[l] # "commit"
  BY DEF TypeOK, Loop
<1>2. snapshot[l] \subseteq Run
  BY DEF TypeOK, Loop
<1>3. QED
  BY <1>1, <1>2 DEF ManagerOK, ExitOf

\* A manager whose transaction is over, or that looks for a run.
LEMMA ManagerFresh ==
    ASSUME NEW l \in Manager, pc'[l] \in {"idle", "lock", "task"},
           pc'[l] # "lock" => snapshot'[l] = {},
           \A r \in snapshot'[l] : status'[r] \in Managed,
           held'[l] \in Run => status'[held'[l]] \in Managed
    PROVE  ManagerOK(l)'
BY DEF ManagerOK

\* A step of a loop that leaves the statuses alone, the manager's exit apart.
LEMMA QuietExitInv ==
    ASSUME IInv, ExitInv, OneManager, NEW l \in Loop, LoopStep(l) \/ Fault(l),
           ~ Commit(l), ~ SetExit(l)
    PROVE  ExitInv'
<1> USE DEF IInv
<1>1. UNCHANGED <<status, exit, attempt, asked>>
  BY DEF LoopStep, Select, Lock, Initialize, Manage, SpawnWorker, Close, DeleteWorker, Fault,
         dbVars
<1>2. \A r \in Run : Told(r)'
  BY <1>1, ToldKept DEF ExitInv
<1>3. ASSUME NEW m \in Manager, m # l PROVE ManagerOK(m)'
  BY <1>1, <1>3, LoopFrame, ManagerKept DEF ExitInv, Loop
<1>4. ASSUME l \in Manager PROVE ManagerOK(l)'
  <2>1. ManagerOK(l) /\ held[l] \notin {NoRun} => held[l] \in Run
    BY DEF TypeOK
  <2>2. CASE Select(l)
    <3>1. /\ pc'[l] = "lock" /\ snapshot'[l] = Target(l) /\ held'[l] = NoRun
      BY <2>2 DEF Select, TypeOK
    <3>2. Target(l) \subseteq Run /\ \A r \in Target(l) : status[r] \in Managed
      BY <1>4, LoopAssumption DEF Target, Seed, Managed
    <3>3. QED
      BY <1>1, <1>4, <3>1, <3>2, ManagerFresh, LoopAssumption
  <2>3. CASE Lock(l)
    <3> DEFINE free == {r \in snapshot[l] : ~ Locked(r)}
               q    == First(free, cursor[l])
    <3>1. snapshot'[l] = {} /\ pc'[l] \in {"idle", "task"}
      BY <2>3 DEF Lock, TypeOK
    <3>2. CASE free = {}
      <4>1. held'[l] = NoRun
        BY <2>3, <3>2 DEF Lock, TypeOK
      <4>2. QED
        BY <1>4, <3>1, <4>1, ManagerFresh, LoopAssumption
    <3>3. CASE free # {}
      <4>1. free \in SUBSET Run /\ free \subseteq snapshot[l]
        BY DEF TypeOK
      <4> HIDE DEF free
      <4>2. q \in snapshot[l]
        BY <3>3, <4>1, FirstIsOne
      <4>3. held' = [held EXCEPT ![l] = q]
        BY <2>3, <3>3 DEF Lock, free
      <4> HIDE DEF q
      <4>4. held'[l] = q /\ status'[q] \in Managed
        BY <1>1, <1>4, <4>2, <4>3 DEF ExitInv, ManagerOK, TypeOK
      <4>5. QED
        BY <1>4, <3>1, <4>4, ManagerFresh
    <3>4. QED
      BY <3>2, <3>3
  <2>4. CASE Fault(l)
    <3>1. pc'[l] = "idle" /\ snapshot'[l] = {} /\ held'[l] = NoRun
      BY <2>4 DEF Fault, TypeOK
    <3>2. QED
      BY <1>4, <3>1, ManagerFresh, LoopAssumption
  <2>5. ASSUME pc[l] \in {"task", "spawn"}, snapshot' = snapshot,
               Release(l) \/ \E p, st : Goto(l, p, st) /\ (p = "commit" => st \notin {"aborting", "completing"})
                                       /\ p # "lock"
        PROVE  ManagerOK(l)'
    <3>1. snapshot'[l] = {}
      BY <1>4, <2>5 DEF ExitInv, ManagerOK
    <3>2. CASE Release(l)
      <4>1. pc'[l] = "idle" /\ held'[l] = NoRun
        BY <3>2 DEF Release, TypeOK
      <4>2. QED
        BY <1>4, <3>1, <4>1, ManagerFresh, LoopAssumption
    <3>3. ASSUME NEW p, NEW st, Goto(l, p, st), p = "commit" => st \notin {"aborting", "completing"},
                 p # "lock"
          PROVE  ManagerOK(l)'
      <4>1. pc'[l] = p /\ decided'[l] = st /\ held'[l] = held[l]
        BY <3>3 DEF Goto, TypeOK
      <4>2. held[l] \in Run => status[held[l]] \in Managed
        BY <1>4 DEF ExitInv, ManagerOK
      <4>3. QED
        BY <1>1, <3>1, <3>3, <4>1, <4>2 DEF ManagerOK
    <3>4. QED
      BY <2>5, <3>2, <3>3
  <2>6. CASE Manage(l)
    <3>1. held[l] \in Run /\ status[held[l]] \in Managed /\ pc[l] = "task"
      BY <2>6, <1>4 DEF Manage, TypeOK, ExitInv, ManagerOK
    <3>2. \/ Release(l)
          \/ \E p, st : /\ Goto(l, p, st) /\ p # "lock"
                        /\ p = "commit" => st \notin {"aborting", "completing"}
      <4>1. CASE Release(l)
        BY <4>1
      <4>2. CASE \/ Goto(l, "spawn", "starting")
                 \/ Goto(l, "exit", "aborting")
        BY <4>2
      <4>3. CASE held[l] \in worker /\ job[held[l]].state # "absent"
        <5> DEFINE st == Observed[job[held[l]].state]
        <5>1. \/ Goto(l, "exit", st)
              \/ Goto(l, "commit", st) /\ ~ (st # status[held[l]] /\ st \in {"aborting", "completing"})
          BY <2>6, <4>3 DEF Manage
        <5> HIDE DEF st
        <5>2. \/ Goto(l, "exit", st)
              \/ Goto(l, "commit", st) /\ st \notin {"aborting", "completing"}
          BY <3>1, <5>1 DEF Managed
        <5>3. QED
          BY <5>2
      <4>4. QED
        BY <2>6, <4>1, <4>2, <4>3 DEF Manage, WithoutJob
    <3>3. snapshot' = snapshot
      BY <2>6 DEF Manage, Goto, Release
    <3>4. QED
      BY <2>5, <3>1, <3>2, <3>3
  <2>7. CASE SpawnWorker(l)
    <3>1. pc[l] = "spawn" /\ decided[l] = "starting" /\ Goto(l, "commit", decided[l])
      BY <2>7 DEF SpawnWorker, LoopOK
    <3>2. QED
      BY <2>5, <3>1 DEF Goto
  <2>8. CASE Initialize(l) \/ Close(l) \/ DeleteWorker(l)
    BY <1>4, <2>8, LoopAssumption DEF Initialize, Close, DeleteWorker, LoopOK
  <2>9. QED
    BY <2>2, <2>3, <2>4, <2>6, <2>7, <2>8 DEF LoopStep
<1>5. ASSUME NEW i \in Initializer PROVE InitializerOK(i)'
  <2>1. CASE i # l
    BY <1>5, <2>1, LoopFrame DEF ExitInv, InitializerOK, Loop
  <2>2. CASE i = l
    <3>1. \/ pc'[l] # "commit"
          \/ Initialize(l) /\ Goto(l, "commit", "ready")
          \/ l \notin Initializer
      BY LoopAssumption DEF LoopStep, Select, Lock, Initialize, Manage, SpawnWorker, Close,
                            DeleteWorker, Fault, Release, TypeOK, LoopOK
    <3>2. QED
      BY <1>5, <2>2, <3>1 DEF InitializerOK, Goto, TypeOK
  <2>3. QED
    BY <2>1, <2>2
<1>6. QED
  BY <1>1, <1>2, <1>3, <1>4, <1>5 DEF ExitInv

\* The manager records how the run has ended: as it will say.
LEMMA SetExitInv ==
    ASSUME IInv, ExitInv, OneManager, NEW l \in Loop, SetExit(l)
    PROVE  ExitInv'
<1> USE DEF IInv
<1>1. /\ l \in Manager /\ held[l] \in Run /\ status[held[l]] \in Managed
      /\ snapshot[l] = {} /\ Goto(l, "commit", decided[l])
  BY LoopAssumption DEF SetExit, TypeOK, LoopOK, Loop, ExitInv, ManagerOK
<1>2. UNCHANGED <<status, attempt, asked>>
  BY DEF SetExit
<1>3. /\ exit'[held[l]] = ExitOf(held[l], decided[l] = "completing")
      /\ \A r \in Run \ {held[l]} : exit'[r] = exit[r]
  BY <1>1 DEF SetExit, TypeOK, ExitOf
<1>4. ASSUME NEW r \in Run PROVE Told(r)'
  <2>1. CASE r = held[l]
    BY <1>1, <1>2, <2>1 DEF Told, Managed
  <2>2. CASE r # held[l]
    BY <1>2, <1>3, <2>2, ToldKept DEF ExitInv
  <2>3. QED
    BY <2>1, <2>2
<1>5. ManagerOK(l)'
  <2>1. pc'[l] = "commit" /\ held'[l] = held[l] /\ decided'[l] = decided[l] /\ snapshot'[l] = {}
    BY <1>1, Moves DEF Goto
  <2>2. QED
    BY <1>1, <1>2, <1>3, <2>1 DEF ManagerOK, ExitOf
<1>6. \A m \in Manager : m = l
  BY <1>1 DEF OneManager
<1>7. ASSUME NEW i \in Initializer PROVE InitializerOK(i)'
  BY <1>1, LoopFrame, LoopAssumption DEF LoopStep, ExitInv, InitializerOK, Loop
<1>8. QED
  BY <1>2, <1>4, <1>5, <1>6, <1>7 DEF ExitInv

\* A run stops when its manager says so, which has recorded the exit; it is
\* finished as it has stopped.
LEMMA CommitExitInv ==
    ASSUME IInv, ExitInv, OneManager, NEW l \in Loop, Commit(l)
    PROVE  ExitInv'
<1> USE DEF IInv
<1>0. PICK r \in Run : r = held[l]
  BY DEF Commit, TypeOK
<1>1. pc[l] = "commit" /\ Release(l)
  BY DEF Commit
<1>2. UNCHANGED <<exit, attempt, asked, snapshot>>
  BY DEF Commit, Release
<1>3. \/ status' = status
      \/ decided[l] \in NextStatuses[status[r]] /\ status' = [status EXCEPT ![r] = decided[l]]
  BY <1>0 DEF Commit
<1>4. \A q \in Run \ {r} : status'[q] = status[q]
  BY <1>1, <1>3 DEF TypeOK
<1>5. status'[r] = status[r] \/ (decided[l] \in NextStatuses[status[r]] /\ status'[r] = decided[l])
  BY <1>1, <1>3 DEF TypeOK
<1>6. Told(r)'
  <2>1. Told(r)
    BY <1>1 DEF ExitInv
  <2>2. CASE status'[r] = status[r]
    BY <1>2, <2>1, <2>2, ToldKept
  <2>3. CASE status'[r] = decided[l] /\ l \in Initializer
    BY <1>1, <1>2, <2>1, <2>3, ToldKept DEF ExitInv, InitializerOK
  <2>4. CASE status'[r] = decided[l] /\ l \in Manager
    <3>1. decided[l] \in {"ready", "starting", "running", "aborting", "completing"}
      BY <1>1, <2>4, LoopAssumption DEF LoopOK, Loop
    <3>2. decided[l] \in {"aborting", "completing"} => exit[r] = ExitOf(r, decided[l] = "completing")
      BY <1>0, <1>1, <2>4 DEF ExitInv, ManagerOK
    <3>3. QED
      BY <1>2, <2>4, <3>1, <3>2 DEF Told, ExitOf
  <2>5. CASE status'[r] = decided[l] /\ l \in Finisher
    <3>1. status[r] \in {"completing", "aborting"} /\ decided[l] = FinishedStatus(status[r])
      BY <1>0, <1>1, <2>5 DEF LoopOK
    <3>2. QED
      BY <1>2, <2>1, <2>5, <3>1 DEF Told, ExitOf, FinishedStatus
  <2>6. QED
    BY <1>5, <2>2, <2>3, <2>4, <2>5 DEF Loop
<1>7. ASSUME NEW q \in Run PROVE Told(q)'
  BY <1>2, <1>4, <1>6, ToldKept DEF ExitInv
<1>8. ASSUME NEW m \in Manager PROVE ManagerOK(m)'
  <2>1. CASE m = l
    <3>1. pc'[l] = "idle" /\ held'[l] = NoRun /\ snapshot'[l] = {}
      BY <1>1, <1>2, <1>8, <2>1, Moves DEF ExitInv, ManagerOK
    <3>2. QED
      BY <1>8, <2>1, <3>1, ManagerFresh, LoopAssumption
  <2>2. CASE m # l
    <3>1. l \notin Manager
      BY <2>2, <1>8 DEF OneManager
    <3>2. status[r] \in Managed => status'[r] \in Managed
      <4>1. l \in Initializer => decided[l] = "ready"
        BY <1>1 DEF ExitInv, InitializerOK
      <4>2. l \in Finisher => status[r] \in {"completing", "aborting"}
        BY <1>0, <1>1 DEF LoopOK
      <4>3. QED
        BY <1>5, <3>1, <4>1, <4>2 DEF Managed, Loop
    <3>3. \A q \in Run : status[q] \in Managed => status'[q] \in Managed
      BY <1>4, <3>2
    <3>4. QED
      BY <1>2, <1>8, <2>2, <3>3, LoopFrame, ManagerKept DEF LoopStep, ExitInv, Loop
  <2>3. QED
    BY <2>1, <2>2
<1>9. ASSUME NEW i \in Initializer PROVE InitializerOK(i)'
  <2>1. CASE i = l
    BY <1>1, <2>1, Moves DEF InitializerOK
  <2>2. CASE i # l
    BY <2>2, LoopFrame DEF LoopStep, ExitInv, InitializerOK, Loop
  <2>3. QED
    BY <2>1, <2>2
<1>10. QED
  BY <1>2, <1>7, <1>8, <1>9 DEF ExitInv

\* Users and the cluster move no run that the manager looks at, and no exit
\* of a run that stops.
LEMMA AroundExitInv ==
    ASSUME IInv, ExitInv, UNCHANGED <<asked, loopVars>>,
           \A r \in Run : status[r] \in Managed => status'[r] \in Managed,
           \A r \in Run : \/ exit'[r] = exit[r] /\ attempt'[r] = attempt[r]
                          \/ ~ Locked(r) /\ status'[r] \in {"waiting", "invalidated"},
           \A r \in Run : \/ status'[r] = status[r]
                          \/ status'[r] \notin {"completing", "done", "aborting", "failed"}
    PROVE  ExitInv'
<1>1. ASSUME NEW r \in Run PROVE Told(r)'
  <2>1. CASE exit'[r] = exit[r] /\ attempt'[r] = attempt[r]
    BY <1>1, <2>1, ToldKept DEF ExitInv
  <2>2. CASE status'[r] \in {"waiting", "invalidated"}
    BY <2>2 DEF Told
  <2>3. QED
    BY <1>1, <2>1, <2>2
<1>2. ASSUME NEW m \in Manager PROVE ManagerOK(m)'
  <2>1. held[m] \in Run => exit'[held[m]] = exit[held[m]] /\ attempt'[held[m]] = attempt[held[m]]
    BY <1>2 DEF Locked, Loop
  <2>2. QED
    BY <1>2, <2>1, ManagerKept DEF IInv, ExitInv, loopVars
<1>3. ASSUME NEW i \in Initializer PROVE InitializerOK(i)'
  BY <1>3 DEF loopVars, ExitInv, InitializerOK
<1>4. QED
  BY <1>1, <1>2, <1>3 DEF ExitInv

LEMMA ExitInvStep ==
    ASSUME IInv, ExitInv, OneManager, NobodyStops, [Next]_vars
    PROVE  ExitInv'
<1> USE DEF IInv
<1>1. ASSUME NEW l \in Loop, LoopStep(l) \/ Fault(l) PROVE ExitInv'
  BY <1>1, QuietExitInv, SetExitInv, CommitExitInv DEF LoopStep
<1>2. ASSUME NEW q \in Run, RunStep(q) PROVE ExitInv'
  <2>1. CASE New(q)
    <3>1. /\ status[q] = "none" /\ status'[q] \in {"waiting", "deactivated"}
          /\ \A r \in Run \ {q} : status'[r] = status[r]
      BY <2>1 DEF New, TypeOK
    <3>2. QED
      BY <2>1, <3>1, AroundExitInv DEF New, Managed
  <2>2. CASE Abort(q) \/ Tearoff(q)
    BY <2>2 DEF Abort, Tearoff, NobodyStops
  <2>3. CASE Retry(q)
    <3>1. /\ status[q] \in Finished /\ status'[q] = "waiting" /\ ~ Locked(q)
          /\ \A r \in Run \ {q} : /\ status'[r] = status[r] /\ exit'[r] = exit[r]
                                 /\ attempt'[r] = attempt[r]
      BY <2>3 DEF Retry, TypeOK
    <3>2. QED
      BY <2>3, <3>1, AroundExitInv DEF Retry, Managed, Finished
  <2>4. CASE Delete(q)
    <3>1. /\ status[q] \notin Managed /\ status'[q] = "invalidated" /\ ~ Locked(q)
          /\ \A r \in Run \ {q} : status'[r] = status[r] /\ exit'[r] = exit[r]
      BY <2>4 DEF Delete, TypeOK, Managed
    <3>2. QED
      BY <2>4, <3>1, AroundExitInv DEF Delete
  <2>5. CASE Wake(q) \/ JobStep(q) \/ JobGone(q) \/ Kill(q)
    <3>1. UNCHANGED <<status, exit, attempt, asked, loopVars>>
      BY <2>5 DEF Wake, JobStep, JobGone, Kill, dbVars
    <3>2. QED
      BY <3>1, AroundExitInv
  <2>6. QED
    BY <1>2, <2>1, <2>2, <2>3, <2>4, <2>5 DEF RunStep
<1>3. ASSUME NEW b \in BOOLEAN, Activate(b) PROVE ExitInv'
  <2>1. UNCHANGED <<exit, attempt, asked, loopVars>>
    BY <1>3 DEF Activate
  <2>2. \A r \in Run : \/ status'[r] = status[r]
                       \/ /\ status[r] \in {"waiting", "deactivated"}
                          /\ status'[r] \in {"waiting", "deactivated"}
    BY <1>3 DEF Activate
  <2>3. QED
    BY <2>1, <2>2, AroundExitInv DEF Managed
<1>4. ASSUME NEW h \in asked, Answer(h) PROVE ExitInv'
  BY <1>4 DEF ExitInv
<1>5. CASE UNCHANGED vars
  <2>1. UNCHANGED <<status, exit, attempt, asked, loopVars>>
    BY <1>5 DEF vars, dbVars, loopVars
  <2>2. QED
    BY <2>1, AroundExitInv
<1>6. QED
  BY <1>1, <1>2, <1>3, <1>4, <1>5 DEF Next

\* The exit on record of a run that stops or has stopped is of this attempt
\* and tells what the status does, whatever the number of initializers and
\* finishers, and whatever faults, retries and deletions there are: when no
\* user stops a run and one process manages runs.
THEOREM ExitCorrect ==
    ASSUME NobodyStops, OneManager
    PROVE  Spec => []ExitTellsStatus
<1>1. Init => ExitInv
  BY LoopAssumption DEF Init, ExitInv, Told, ManagerOK, InitializerOK, Loop
<1>2. IInv /\ ExitInv /\ [Next]_vars => ExitInv'
  BY ExitInvStep
<1>3. ExitInv => ExitTellsStatus
  BY DEF ExitInv, Told, ExitOf, ExitTellsStatus
<1>4. QED
  BY <1>1, <1>2, <1>3, IInvInvariant, PTL DEF Spec
=============================================================================
