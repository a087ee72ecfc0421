--------------------------- MODULE Service_proofs ---------------------------
(***************************************************************************)
(* Proofs about what runs beside the runs.  Hooks: no change of a run, and *)
(* no worker, without the agreement of every before URL, however many      *)
(* URLs, runs, refusals and crashes there are.  SchemaUpgrade: no version  *)
(* is applied twice or taken back, and who serves is up to date, however   *)
(* many upgraders of however many releases run side by side and fail.      *)
(***************************************************************************)
EXTENDS Hooks, SchemaUpgrade, TLAPS

-----------------------------------------------------------------------------
(* Hooks *)

Holding == {"before", "work", "commit"}

\* The row of a run is locked by one loop at most.
Exclusive ==
    \A l, m \in Loop : pc[l] \in Holding /\ pc[m] \in Holding /\ l # m => held[l] # held[m]

\* In a round of hooks, the URLs asked so far have agreed.
Round ==
    \A l \in Loop : pc[l] = "before" =>
        \A i \in 1 .. Len(BeforeURL) : i < url[l] => <<BeforeURL[i], next[l]>> \in told[held[l]]

\* What a loop is about to commit has been agreed to.
Consent == \A l \in Loop : pc[l] \in {"work", "commit"} => Agreed(held[l], next[l])

\* The hooks of starting are asked while the run has no worker.
Spawning ==
    \A l \in Loop : pc[l] \in {"before", "work"} /\ next[l] = "starting" =>
        l = "run_management" /\ job[held[l]] = "none"

IInv == TypeOK /\ Exclusive /\ Round /\ Consent /\ Spawning /\ WorkerAgreed

LEMMA InitIInv == Init => IInv
<1>1. SUFFICES ASSUME Init PROVE IInv
  OBVIOUS
<1>2. TypeOK
  BY <1>1, HooksAssumption DEF Init, TypeOK, KnitRunStatus, JobState, Point, faults
<1>3. QED
  BY <1>1, <1>2 DEF Init, IInv, Exclusive, Holding, Round, Consent, Spawning, WorkerAgreed

\* A loop decides on a status of runs, and on a worker only as run_management.
LEMMA DecisionIsStatus ==
    ASSUME TypeOK, NEW l \in Loop, NEW r \in Run, status[r] \in Seed(l)
    PROVE  /\ Decision(l, r) \in KnitRunStatus
           /\ Decision(l, r) = "starting" =>
                l = "run_management" /\ job[r] \in {"none", "pending"}
           /\ l = "run_management" /\ job[r] = "pending" => Decision(l, r) = "starting"
<1>1. job[r] \in JobState /\ status[r] \in KnitRunStatus
  BY DEF TypeOK
<1>2. CASE l = "initialize"
  BY <1>2 DEF Decision, KnitRunStatus
<1>3. CASE l = "finishing"
  BY <1>3 DEF Decision, FinishedStatus, KnitRunStatus
<1>4. CASE l = "run_management"
  BY <1>1, <1>4 DEF Decision, Observed, JobState, KnitRunStatus
<1>5. QED
  BY <1>2, <1>3, <1>4 DEF Loop

LEMMA TypeStep == ASSUME TypeOK, [Next]_vars PROVE TypeOK'
<1> USE HooksAssumption DEF TypeOK, faults, Point
<1>1. ASSUME NEW l \in Loop, NEW r \in Run, Pick(l, r) PROVE TypeOK'
  <2>1. Decision(l, r) \in KnitRunStatus
    BY <1>1, DecisionIsStatus DEF Pick
  <2>2. QED
    BY <1>1, <2>1 DEF Pick, Start, storeVars
<1>2. ASSUME NEW l \in Loop, Before(l) PROVE TypeOK'
  <2>1. held[l] \in Run
    BY <1>2 DEF Before
  <2>2. CASE BeforeDone(l)
    BY <1>2, <2>2 DEF Before, Goto, storeVars
  <2>3. CASE ~ BeforeDone(l)
    <3>1. <<BeforeURL[url[l]], next[l]>> \in URL \X KnitRunStatus
      BY <2>3 DEF BeforeDone
    <3>8. PICK T \in SUBSET (URL \X KnitRunStatus) : told' = [told EXCEPT ![held[l]] = T]
      <4>1. told[held[l]] \in SUBSET (URL \X KnitRunStatus)
        BY <2>1
      <4> DEFINE it == <<BeforeURL[url[l]], next[l]>>
      <4>2. told' = [told EXCEPT ![held[l]] = told[held[l]] \cup {it}]
            \/ told' = [told EXCEPT ![held[l]] = told[held[l]] \ {it}]
        BY <1>2, <2>3 DEF Before
      <4>3. it \in URL \X KnitRunStatus
        BY <3>1
      <4>4. told[held[l]] \cup {it} \in SUBSET (URL \X KnitRunStatus)
            /\ told[held[l]] \ {it} \in SUBSET (URL \X KnitRunStatus)
        BY <4>1, <4>3
      <4>5. QED
        BY <4>2, <4>4
    <3>2. told' \in [Run -> SUBSET (URL \X KnitRunStatus)]
      BY <2>1, <3>8
    <3>3. Agrees(l) \/ Refuses(l)
      BY <1>2, <2>3 DEF Before, BeforeRefused
    <3>4. UNCHANGED <<storeVars, heard>>
      BY <1>2 DEF Before
    <3>5. CASE Agrees(l)
      BY <3>2, <3>4, <3>5 DEF Agrees, storeVars
    <3>6. CASE Refuses(l)
      BY <3>2, <3>4, <3>6 DEF Refuses, Rest, storeVars, KnitRunStatus
    <3>7. QED
      BY <3>3, <3>5, <3>6
  <2>4. QED
    BY <2>2, <2>3
<1>3. ASSUME NEW l \in Loop, Work(l) PROVE TypeOK'
  BY <1>3 DEF Work, Goto, JobState
<1>4. ASSUME NEW l \in Loop, Commit(l) PROVE TypeOK'
  BY <1>4 DEF Commit, Goto
<1>5. ASSUME NEW l \in Loop, Get(l) PROVE TypeOK'
  <2>1. held[l] \in Run /\ status[held[l]] \in KnitRunStatus
    BY <1>5 DEF Get
  <2>2. CASE HasAfter(l, status[held[l]])
    <3>1. /\ pc' = [pc EXCEPT ![l] = "after"] /\ next' = [next EXCEPT ![l] = status[held[l]]]
          /\ url' = [url EXCEPT ![l] = 1]
          /\ UNCHANGED <<held, status, job, told, heard, refusals, crashes>>
      BY <1>5, <2>2 DEF Get, storeVars
    <3>2. QED
      BY <1>5, <2>1, <3>1 DEF Get
  <2>3. CASE ~ HasAfter(l, status[held[l]])
    <3>1. Rest(l) /\ UNCHANGED <<status, job, told, heard, refusals, crashes>>
      BY <1>5, <2>3 DEF Get, storeVars
    <3>2. QED
      BY <3>1 DEF Rest, KnitRunStatus
  <2>4. QED
    BY <2>2, <2>3
<1>6. ASSUME NEW l \in Loop, After(l) PROVE TypeOK'
  <2>1. held[l] \in Run
    BY <1>6 DEF After
  <2>2. UNCHANGED <<storeVars, told>>
    BY <1>6 DEF After
  <2>3. CASE url[l] > Len(AfterURL)
    <3>1. Rest(l) /\ UNCHANGED <<status, job, told, heard, refusals, crashes>>
      BY <1>6, <2>2, <2>3 DEF After, storeVars
    <3>2. QED
      BY <3>1 DEF Rest, KnitRunStatus
  <2>4. CASE url[l] <= Len(AfterURL)
    <3>1. <<AfterURL[url[l]], next[l]>> \in URL \X KnitRunStatus
      BY <2>4
    <3>6. heard' = [heard EXCEPT ![held[l]] =
                        heard[held[l]] \cup {<<AfterURL[url[l]], next[l]>>}]
      BY <1>6, <2>4 DEF After
    <3>7. heard[held[l]] \cup {<<AfterURL[url[l]], next[l]>>} \in SUBSET (URL \X KnitRunStatus)
      BY <2>1, <3>1
    <3>2. heard' \in [Run -> SUBSET (URL \X KnitRunStatus)]
      BY <2>1, <3>6, <3>7
    <3>3. CASE Agrees(l)
      BY <2>2, <3>2, <3>3 DEF Agrees, storeVars
    <3>4. CASE Refuses(l)
      BY <2>2, <3>2, <3>4 DEF Refuses, Rest, storeVars, KnitRunStatus
    <3>5. QED
      BY <1>6, <2>4, <3>3, <3>4 DEF After
  <2>5. QED
    BY <2>3, <2>4
<1>7. ASSUME NEW l \in Loop, Crash(l) PROVE TypeOK'
  BY <1>7 DEF Crash, Rest, storeVars, KnitRunStatus
<1>8. ASSUME NEW r \in Run, JobStep(r) PROVE TypeOK'
  BY <1>8 DEF JobStep, loopVars, JobState
<1>9. ASSUME NEW r \in Run, Abort(r) PROVE TypeOK'
  BY <1>9 DEF Abort, loopVars, KnitRunStatus
<1>10. CASE UNCHANGED vars
  BY <1>10 DEF vars, storeVars, loopVars
<1>11. QED
  BY <1>1, <1>2, <1>3, <1>4, <1>5, <1>6, <1>7, <1>8, <1>9, <1>10 DEF Next, Step

LEMMA ExclusiveStep == ASSUME TypeOK, Exclusive, [Next]_vars PROVE Exclusive'
<1> USE HooksAssumption DEF TypeOK, Exclusive, Holding
<1>1. ASSUME NEW l \in Loop, NEW r \in Run, Pick(l, r) PROVE Exclusive'
  BY <1>1 DEF Pick, Start, Locked
<1>2. ASSUME NEW l \in Loop, Before(l) PROVE Exclusive'
  BY <1>2 DEF Before, Goto, BeforeDone, Agrees, BeforeRefused, Refuses, Rest
<1>3. ASSUME NEW l \in Loop, Work(l) \/ Commit(l) PROVE Exclusive'
  BY <1>3 DEF Work, Commit, Goto
<1>4. ASSUME NEW l \in Loop, Get(l) \/ After(l) \/ Crash(l) PROVE Exclusive'
  BY <1>4 DEF Get, After, Agrees, Refuses, Crash, Rest
<1>5. ASSUME NEW r \in Run, JobStep(r) \/ Abort(r) PROVE Exclusive'
  BY <1>5 DEF JobStep, Abort, loopVars
<1>6. CASE UNCHANGED vars
  BY <1>6 DEF vars, loopVars
<1>7. QED
  BY <1>1, <1>2, <1>3, <1>4, <1>5, <1>6 DEF Next, Step

LEMMA SpawningStep == ASSUME IInv, [Next]_vars PROVE Spawning'
<1> USE HooksAssumption DEF IInv, TypeOK, Exclusive, Holding, Spawning
<1>1. ASSUME NEW l \in Loop, NEW r \in Run, Pick(l, r) PROVE Spawning'
  <2>1. Decision(l, r) = "starting" =>
          l = "run_management" /\ job[r] \in {"none", "pending"}
    BY <1>1, DecisionIsStatus DEF Pick
  <2>2. QED
    BY <1>1, <2>1 DEF Pick, Start, storeVars
<1>2. ASSUME NEW l \in Loop, Before(l) PROVE Spawning'
  BY <1>2 DEF Before, Goto, BeforeDone, Agrees, BeforeRefused, Refuses, Rest, storeVars
<1>3. ASSUME NEW l \in Loop, Work(l) PROVE Spawning'
  BY <1>3 DEF Work, Goto
<1>4. ASSUME NEW l \in Loop, Commit(l) PROVE Spawning'
  BY <1>4 DEF Commit, Goto
<1>5. ASSUME NEW l \in Loop, Get(l) \/ After(l) \/ Crash(l) PROVE Spawning'
  BY <1>5 DEF Get, After, Agrees, Refuses, Crash, Rest, storeVars
<1>6. ASSUME NEW r \in Run, JobStep(r) PROVE Spawning'
  BY <1>6 DEF JobStep, loopVars
<1>7. ASSUME NEW r \in Run, Abort(r) PROVE Spawning'
  BY <1>7 DEF Abort, loopVars
<1>8. CASE UNCHANGED vars
  BY <1>8 DEF vars, loopVars, storeVars
<1>9. QED
  BY <1>1, <1>2, <1>3, <1>4, <1>5, <1>6, <1>7, <1>8 DEF Next, Step

\* Another loop's round does not touch what has been agreed to of this run.
LEMMA RoundStep == ASSUME IInv, [Next]_vars PROVE Round'
<1> USE HooksAssumption DEF IInv, TypeOK, Exclusive, Holding, Round
<1>1. ASSUME NEW l \in Loop, NEW r \in Run, Pick(l, r) PROVE Round'
  BY <1>1 DEF Pick, Start, storeVars
<1>2. ASSUME NEW l \in Loop, Before(l) PROVE Round'
  <2>1. SUFFICES ASSUME NEW m \in Loop, pc'[m] = "before",
                        NEW i \in 1 .. Len(BeforeURL), i < url'[m]
                 PROVE  <<BeforeURL[i], next'[m]>> \in told'[held'[m]]
    BY DEF Round
  <2>2. QED
    BY <1>2, <2>1 DEF Before, Goto, BeforeDone, Agrees, BeforeRefused, Refuses, Rest, storeVars
<1>3. ASSUME NEW l \in Loop, Work(l) \/ Commit(l) PROVE Round'
  BY <1>3 DEF Work, Commit, Goto
<1>4. ASSUME NEW l \in Loop, Get(l) \/ After(l) \/ Crash(l) PROVE Round'
  BY <1>4 DEF Get, After, Agrees, Refuses, Crash, Rest, storeVars
<1>5. ASSUME NEW r \in Run, JobStep(r) \/ Abort(r) PROVE Round'
  BY <1>5 DEF JobStep, Abort, loopVars
<1>6. CASE UNCHANGED vars
  BY <1>6 DEF vars, loopVars, storeVars
<1>7. QED
  BY <1>1, <1>2, <1>3, <1>4, <1>5, <1>6 DEF Next, Step

LEMMA ConsentStep == ASSUME IInv, [Next]_vars PROVE Consent'
<1> USE HooksAssumption DEF IInv, TypeOK, Exclusive, Holding, Consent, Agreed
<1>1. ASSUME NEW l \in Loop, NEW r \in Run, Pick(l, r) PROVE Consent'
  <2>1. l = "run_management" /\ job[r] = "pending" => Decision(l, r) = "starting"
    BY <1>1, DecisionIsStatus DEF Pick
  <2>2. QED
    BY <1>1, <2>1 DEF Pick, Start, storeVars, WorkerAgreed
<1>2. ASSUME NEW l \in Loop, Before(l) PROVE Consent'
  <2>1. CASE BeforeDone(l)
    <3>1. Agreed(held[l], next[l])
      BY <1>2, <2>1 DEF Before, BeforeDone, Round, Range
    <3>2. QED
      BY <1>2, <2>1, <3>1 DEF Before, Goto, storeVars
  <2>2. CASE ~ BeforeDone(l)
    BY <1>2, <2>2 DEF Before, Agrees, BeforeRefused, Refuses, Rest, storeVars
  <2>3. QED
    BY <2>1, <2>2
<1>3. ASSUME NEW l \in Loop, Work(l) \/ Commit(l) PROVE Consent'
  BY <1>3 DEF Work, Commit, Goto
<1>4. ASSUME NEW l \in Loop, Get(l) \/ After(l) \/ Crash(l) PROVE Consent'
  BY <1>4 DEF Get, After, Agrees, Refuses, Crash, Rest, storeVars
<1>5. ASSUME NEW r \in Run, JobStep(r) \/ Abort(r) PROVE Consent'
  BY <1>5 DEF JobStep, Abort, loopVars
<1>6. CASE UNCHANGED vars
  BY <1>6 DEF vars, loopVars, storeVars
<1>7. QED
  BY <1>1, <1>2, <1>3, <1>4, <1>5, <1>6 DEF Next, Step

LEMMA WorkerStep == ASSUME IInv, [Next]_vars PROVE WorkerAgreed'
<1> USE HooksAssumption DEF IInv, TypeOK, WorkerAgreed, Agreed
<1>1. ASSUME NEW l \in Loop, NEW r \in Run, Pick(l, r) PROVE WorkerAgreed'
  BY <1>1 DEF Pick, storeVars
<1>2. ASSUME NEW l \in Loop, Before(l) PROVE WorkerAgreed'
  <2> DEFINE it == <<BeforeURL[url[l]], next[l]>>
  <2>1. job' = job
    BY <1>2 DEF Before, storeVars
  <2>2. next[l] = "starting" => job[held[l]] = "none"
    BY <1>2 DEF Before, Spawning
  <2>3. \/ told' = told
        \/ told' = [told EXCEPT ![held[l]] = told[held[l]] \cup {it}]
        \/ told' = [told EXCEPT ![held[l]] = told[held[l]] \ {it}]
    BY <1>2 DEF Before
  <2>4. ASSUME NEW r \in Run, job[r] # "none", NEW u \in Range(BeforeURL)
        PROVE  <<u, "starting">> \in told'[r]
    <3>1. <<u, "starting">> \in told[r]
      BY <2>4
    <3>2. r = held[l] => <<u, "starting">> # it
      BY <2>2, <2>4
    <3>3. QED
      BY <2>3, <3>1, <3>2
  <2>5. QED
    BY <2>1, <2>4
<1>3. ASSUME NEW l \in Loop, Work(l) PROVE WorkerAgreed'
  BY <1>3 DEF Work, Consent
<1>4. ASSUME NEW l \in Loop, Commit(l) \/ Get(l) \/ After(l) \/ Crash(l) PROVE WorkerAgreed'
  BY <1>4 DEF Commit, Get, After, Crash, storeVars
<1>5. ASSUME NEW r \in Run, JobStep(r) \/ Abort(r) PROVE WorkerAgreed'
  BY <1>5 DEF JobStep, Abort
<1>6. CASE UNCHANGED vars
  BY <1>6 DEF vars, storeVars
<1>7. QED
  BY <1>1, <1>2, <1>3, <1>4, <1>5, <1>6 DEF Next, Step

LEMMA NextIInv == IInv /\ [Next]_vars => IInv'
BY TypeStep, ExclusiveStep, SpawningStep, RoundStep, ConsentStep, WorkerStep DEF IInv

THEOREM Invariance == Spec => []IInv
BY InitIInv, NextIInv, PTL DEF Spec

\* Every variable keeps its type, for any runs, URLs, refusals and crashes.
THEOREM TypeCorrect == Spec => []TypeOK
<1>1. IInv => TypeOK
  BY DEF IInv
<1>2. QED
  BY <1>1, Invariance, PTL

\* No run has a worker that one of the before URLs had not agreed to.
THEOREM WorkerAgreedCorrect == Spec => []WorkerAgreed
<1>1. IInv => WorkerAgreed
  BY DEF IInv
<1>2. QED
  BY <1>1, Invariance, PTL

\* No loop changes a status that one of the before URLs had not agreed to,
\* whatever users do meanwhile.
THEOREM ToldCorrect == Spec => ToldOfEachChange
<1> DEFINE Told ==
      loopVars' # loopVars => \A r \in Run : status'[r] # status[r] => Agreed(r, status'[r])
<1>1. IInv /\ [Next]_vars => [Told]_vars
  <2>1. SUFFICES ASSUME IInv, Next PROVE Told
    OBVIOUS
  <2> USE DEF Told
  <2>2. ASSUME NEW l \in Loop, Step(l) PROVE Told
    <3>1. CASE Commit(l)
      BY <2>1, <3>1 DEF Commit, IInv, TypeOK, Consent
    <3>2. CASE ~ Commit(l)
      BY <2>2, <3>2 DEF Step, Pick, Before, Work, Get, After, storeVars
    <3>3. QED
      BY <3>1, <3>2
  <2>3. ASSUME NEW l \in Loop, Crash(l) PROVE Told
    BY <2>3 DEF Crash, storeVars
  <2>4. ASSUME NEW r \in Run, JobStep(r) \/ Abort(r) PROVE Told
    BY <2>4 DEF JobStep, Abort, loopVars
  <2>5. QED
    BY <2>1, <2>2, <2>3, <2>4 DEF Next
<1>2. QED
  BY <1>1, Invariance, PTL DEF Spec, ToldOfEachChange

-----------------------------------------------------------------------------
(* What was heard of stays agreed to: a URL takes its answer back only when  *)
(* it is asked again, loops ask only for what is ahead of a run, and what is *)
(* heard of lies behind it.                                                  *)

Rank(s) ==
    CASE s = "ready" -> 1
      [] s = "starting" -> 2
      [] s = "running" -> 3
      [] s \in {"completing", "aborting"} -> 4
      [] s \in {"done", "failed"} -> 5
      [] OTHER -> 0

\* A run moves ahead under each loop; one that runs has a Job that ran.
Ahead ==
    /\ \A r \in Run : status[r] = "running" => job[r] # "pending"
    /\ \A l \in Loop : pc[l] \in Holding =>
          /\ Rank(status[held[l]]) < Rank(next[l])
          /\ next[l] = "running" => job[held[l]] # "pending"

\* Status st lies behind run r, and but for aborting has been agreed to.
Passed(r, st) == Rank(st) <= Rank(status[r]) /\ (st # "aborting" => Agreed(r, st))

\* So does what a run is, once a loop has moved it, what is told of it, and
\* what has been heard of it.
Behind ==
    /\ \A r \in Run : status[r] # "waiting" => Passed(r, status[r])
    /\ \A l \in Loop : pc[l] = "get" => status[held[l]] # "waiting"
    /\ \A l \in Loop : pc[l] = "after" => Passed(held[l], next[l])
    /\ \A r \in Run : \A h \in heard[r] : Passed(r, h[2])

HInv == IInv /\ Ahead /\ Behind

LEMMA InitHInv == Init => HInv
BY InitIInv DEF Init, HInv, Ahead, Behind, Holding

\* What a loop decides on is ahead of the run.
LEMMA DecisionIsAhead ==
    ASSUME TypeOK, Ahead, NEW l \in Loop, NEW r \in Run, status[r] \in Seed(l),
           Decision(l, r) # status[r]
    PROVE  /\ Rank(status[r]) < Rank(Decision(l, r))
           /\ Decision(l, r) = "running" => job[r] # "pending"
<1>1. job[r] \in JobState /\ (status[r] = "running" => job[r] # "pending")
  BY DEF TypeOK, Ahead
<1>2. CASE l = "initialize"
  BY <1>2 DEF Decision, Seed, Rank
<1>3. CASE l = "finishing"
  BY <1>3 DEF Decision, Seed, FinishedStatus, Rank
<1>4. CASE l = "run_management"
  <2>1. status[r] \in {"ready", "starting", "running"}
    BY <1>4 DEF Seed
  <2>2. CASE job[r] = "none"
    BY <1>4, <2>1, <2>2 DEF Decision, Rank
  <2>3. CASE job[r] # "none"
    BY <1>1, <1>4, <2>1, <2>3 DEF Decision, Observed, JobState, Rank
  <2>4. QED
    BY <2>2, <2>3
<1>5. QED
  BY <1>2, <1>3, <1>4 DEF Loop

LEMMA AheadStep == ASSUME IInv, Ahead, [Next]_vars PROVE Ahead'
<1> USE HooksAssumption DEF IInv, TypeOK, Exclusive, Holding, Ahead
<1>1. ASSUME NEW l \in Loop, NEW r \in Run, Pick(l, r) PROVE Ahead'
  <2>1. /\ Rank(status[r]) < Rank(Decision(l, r))
        /\ Decision(l, r) = "running" => job[r] # "pending"
    BY <1>1, DecisionIsAhead DEF Pick
  <2>2. QED
    BY <1>1, <2>1 DEF Pick, storeVars
<1>2. ASSUME NEW l \in Loop, Before(l) PROVE Ahead'
  BY <1>2 DEF Before, Goto, BeforeDone, Agrees, BeforeRefused, Refuses, Rest, storeVars
<1>3. ASSUME NEW l \in Loop, Work(l) PROVE Ahead'
  <2>1. held[l] \in Run /\ status' = status /\ pc' = [pc EXCEPT ![l] = "commit"]
        /\ UNCHANGED <<held, next>>
    BY <1>3 DEF Work, Goto
  <2>2. \/ job' = job
        \/ job' = [job EXCEPT ![held[l]] = "none"]
        \/ next[l] = "starting" /\ job' = [job EXCEPT ![held[l]] = "pending"]
    BY <1>3 DEF Work
  <2>3. next[l] = "starting" => status[held[l]] # "running"
    <3>1. Rank("starting") = 2 /\ Rank("running") = 3
      BY DEF Rank
    <3>2. Rank(status[held[l]]) < Rank(next[l])
      BY <1>3 DEF Work
    <3>3. QED
      BY <3>1, <3>2
  <2>4. QED
    BY <1>3, <2>1, <2>2, <2>3 DEF Work
<1>4. ASSUME NEW l \in Loop, Commit(l) PROVE Ahead'
  BY <1>4 DEF Commit, Goto
<1>5. ASSUME NEW l \in Loop, Get(l) \/ After(l) \/ Crash(l) PROVE Ahead'
  BY <1>5 DEF Get, After, Agrees, Refuses, Crash, Rest, storeVars
<1>6. ASSUME NEW r \in Run, JobStep(r) PROVE Ahead'
  BY <1>6 DEF JobStep, loopVars
<1>7. ASSUME NEW r \in Run, Abort(r) PROVE Ahead'
  BY <1>7 DEF Abort, loopVars, Locked
<1>8. CASE UNCHANGED vars
  BY <1>8 DEF vars, loopVars, storeVars
<1>9. QED
  BY <1>1, <1>2, <1>3, <1>4, <1>5, <1>6, <1>7, <1>8 DEF Next, Step

\* Users only move a run ahead.
LEMMA AbortIsAhead ==
    ASSUME NEW s \in KnitRunStatus, "aborting" \in NextStatuses[s]
    PROVE  Rank(s) <= Rank("aborting")
BY DEF NextStatuses, KnitRunStatus, Rank

\* Whatever is passed stays so, whoever moves the run or asks for more.
LEMMA PassedStays ==
    ASSUME IInv, Ahead, [Next]_vars, NEW r \in Run, NEW st, Passed(r, st)
    PROVE  Passed(r, st)'
<1> USE HooksAssumption DEF IInv, TypeOK, Passed, Agreed
<1>1. ASSUME NEW l \in Loop, Before(l) PROVE Passed(r, st)'
  <2> DEFINE it == <<BeforeURL[url[l]], next[l]>>
  <2>1. status' = status /\ held[l] \in Run
    BY <1>1 DEF Before, storeVars
  <2>2. \/ told' = told
        \/ told' = [told EXCEPT ![held[l]] = told[held[l]] \cup {it}]
        \/ told' = [told EXCEPT ![held[l]] = told[held[l]] \ {it}]
    BY <1>1 DEF Before
  <2>3. r = held[l] => st # next[l]
    <3>1. Rank(status[held[l]]) < Rank(next[l])
      BY <1>1 DEF Before, Ahead, Holding
    <3>2. Rank(st) <= Rank(status[r])
      OBVIOUS
    <3>3. \A s : Rank(s) \in Nat
      BY DEF Rank
    <3>4. QED
      BY <3>1, <3>2, <3>3
  <2>4. ASSUME NEW u, <<u, st>> \in told[r] PROVE <<u, st>> \in told'[r]
    BY <2>1, <2>2, <2>3, <2>4
  <2>5. QED
    BY <2>1, <2>4
<1>2. ASSUME NEW l \in Loop, Commit(l) PROVE Passed(r, st)'
  <2>1. Rank(status[held[l]]) < Rank(next[l]) /\ held[l] \in Run
    BY <1>2 DEF Commit, Ahead, Holding
  <2>2. \A s : Rank(s) \in Nat
    BY DEF Rank
  <2>3. status' = [status EXCEPT ![held[l]] = next[l]] /\ told' = told
    BY <1>2 DEF Commit
  <2>4. QED
    BY <2>1, <2>2, <2>3
<1>3. ASSUME NEW x \in Run, Abort(x) PROVE Passed(r, st)'
  <2>1. Rank(status[x]) <= Rank("aborting")
    BY <1>3, AbortIsAhead DEF Abort
  <2>2. \A s : Rank(s) \in Nat
    BY DEF Rank
  <2>3. status' = [status EXCEPT ![x] = "aborting"] /\ told' = told
    BY <1>3 DEF Abort
  <2>4. QED
    BY <2>1, <2>2, <2>3
<1>4. CASE UNCHANGED <<status, told>>
  BY <1>4
<1>5. QED
  <2>1. ASSUME NEW l \in Loop, NEW x \in Run, Pick(l, x) PROVE UNCHANGED <<status, told>>
    BY <2>1 DEF Pick, storeVars
  <2>2. ASSUME NEW l \in Loop, Work(l) \/ Get(l) \/ After(l) \/ Crash(l)
        PROVE  UNCHANGED <<status, told>>
    BY <2>2 DEF Work, Get, After, Crash, storeVars
  <2>3. ASSUME NEW x \in Run, JobStep(x) PROVE UNCHANGED <<status, told>>
    BY <2>3 DEF JobStep
  <2>4. CASE UNCHANGED vars
    BY <2>4, <1>4 DEF vars, storeVars
  <2>5. QED
    BY <1>1, <1>2, <1>3, <1>4, <2>1, <2>2, <2>3, <2>4 DEF Next, Step

\* Nobody sets a run waiting.
LEMMA WaitingIsOver ==
    ASSUME IInv, Ahead, [Next]_vars, NEW r \in Run, status[r] # "waiting"
    PROVE  status'[r] # "waiting"
<1> USE DEF IInv, TypeOK
<1>1. ASSUME NEW l \in Loop, Commit(l) PROVE status'[r] # "waiting"
  <2>1. Rank(status[held[l]]) < Rank(next[l]) /\ held[l] \in Run
    BY <1>1, HooksAssumption DEF Commit, Ahead, Holding
  <2>2. next[l] # "waiting"
    BY <2>1 DEF Rank
  <2>3. QED
    BY <1>1, <2>1, <2>2 DEF Commit
<1>2. ASSUME NEW l \in Loop, Before(l) \/ Work(l) \/ Get(l) \/ After(l) \/ Crash(l)
      PROVE  status'[r] # "waiting"
  BY <1>2 DEF Before, Work, Get, After, Crash, storeVars
<1>3. ASSUME NEW l \in Loop, NEW x \in Run, Pick(l, x) PROVE status'[r] # "waiting"
  BY <1>3 DEF Pick, storeVars
<1>4. ASSUME NEW x \in Run, JobStep(x) \/ Abort(x) PROVE status'[r] # "waiting"
  BY <1>4 DEF JobStep, Abort
<1>5. QED
  BY <1>1, <1>2, <1>3, <1>4 DEF Next, Step, vars, storeVars


LEMMA BehindStep == ASSUME HInv, [Next]_vars PROVE Behind'
<1> USE HooksAssumption DEF HInv, IInv, TypeOK
<1>2. ASSUME NEW r \in Run, status'[r] # "waiting" PROVE Passed(r, status[r])'
  <2>1. CASE status'[r] = status[r]
    <3>1. Passed(r, status[r])
      BY <1>2, <2>1 DEF Behind
    <3>2. Rank(status[r]) <= Rank(status'[r])
          /\ (status[r] # "aborting" => \A u \in Range(BeforeURL) : <<u, status[r]>> \in told'[r])
      BY <3>1, PassedStays DEF Passed, Agreed
    <3>3. QED
      BY <2>1, <3>2 DEF Passed, Agreed
  <2>2. CASE status'[r] # status[r]
    <3>1. (\E l \in Loop : Commit(l)) \/ (\E x \in Run : Abort(x))
      BY <2>2 DEF Next, Step, vars, storeVars, Pick, Before, Work, Get, After, Crash, JobStep
    <3>2. ASSUME NEW l \in Loop, Commit(l) PROVE Passed(r, status[r])'
      <4>1. r = held[l] /\ status'[r] = next[l] /\ told' = told
        BY <2>2, <3>2 DEF Commit
      <4>2. Agreed(held[l], next[l])
        BY <3>2 DEF Commit, Consent
      <4>3. \A s : Rank(s) \in Nat
        BY DEF Rank
      <4>4. QED
        BY <4>1, <4>2, <4>3 DEF Passed, Agreed
    <3>3. ASSUME NEW x \in Run, Abort(x) PROVE Passed(r, status[r])'
      <4>1. status'[r] = "aborting"
        BY <2>2, <3>3 DEF Abort
      <4>2. \A s : Rank(s) \in Nat
        BY DEF Rank
      <4>3. QED
        BY <4>1, <4>2 DEF Passed
    <3>4. QED
      BY <3>1, <3>2, <3>3
  <2>3. QED
    BY <2>1, <2>2
<1>3. ASSUME NEW l \in Loop, pc'[l] = "get" PROVE status'[held'[l]] # "waiting"
  <2>1. CASE pc[l] = "get" /\ held'[l] = held[l]
    BY <2>1, WaitingIsOver DEF Behind
  <2>2. CASE Commit(l)
    <3>1. Rank(status[held[l]]) < Rank(next[l]) /\ held[l] \in Run
      BY <2>2 DEF Commit, Ahead, Holding
    <3>2. next[l] # "waiting"
      BY <3>1 DEF Rank
    <3>3. QED
      BY <2>2, <3>1, <3>2 DEF Commit, Goto
  <2>3. (pc[l] = "get" /\ held'[l] = held[l]) \/ Commit(l)
    <3>1. ASSUME NEW m \in Loop, NEW x \in Run, Pick(m, x)
          PROVE  pc[l] = "get" /\ held'[l] = held[l]
      BY <1>3, <3>1 DEF Pick, Start
    <3>2. ASSUME NEW m \in Loop, Before(m) \/ Work(m) PROVE pc[l] = "get" /\ held'[l] = held[l]
      BY <1>3, <3>2 DEF Before, Goto, Agrees, BeforeRefused, Refuses, Rest, Work
    <3>3. ASSUME NEW m \in Loop, Commit(m) PROVE (pc[l] = "get" /\ held'[l] = held[l]) \/ Commit(l)
      BY <1>3, <3>3 DEF Commit, Goto
    <3>4. ASSUME NEW m \in Loop, Get(m) \/ After(m) \/ Crash(m)
          PROVE  pc[l] = "get" /\ held'[l] = held[l]
      BY <1>3, <3>4 DEF Get, After, Agrees, Refuses, Rest, Crash
    <3>5. ASSUME NEW x \in Run, JobStep(x) \/ Abort(x) PROVE pc[l] = "get" /\ held'[l] = held[l]
      BY <1>3, <3>5 DEF JobStep, Abort, loopVars
    <3>6. QED
      BY <1>3, <3>1, <3>2, <3>3, <3>4, <3>5 DEF Next, Step, vars, loopVars
  <2>4. QED
    BY <2>1, <2>2, <2>3
<1>4. ASSUME NEW l \in Loop, pc'[l] = "after" PROVE Passed(held[l], next[l])'
  <2>1. CASE pc[l] = "after" /\ held'[l] = held[l] /\ next'[l] = next[l]
    <3>1. Passed(held[l], next[l]) /\ held[l] \in Run
      BY <2>1 DEF Behind
    <3>2. Rank(next[l]) <= Rank(status'[held[l]])
          /\ (next[l] # "aborting" => \A u \in Range(BeforeURL) : <<u, next[l]>> \in told'[held[l]])
      BY <3>1, PassedStays DEF Passed, Agreed
    <3>3. QED
      BY <2>1, <3>2 DEF Passed, Agreed
  <2>2. CASE Get(l)
    <3>1. held[l] \in Run /\ Passed(held[l], status[held[l]])
      BY <2>2 DEF Get, Behind
    <3>2. held' = held /\ next'[l] = status[held[l]] /\ UNCHANGED <<status, told>>
      BY <1>4, <2>2 DEF Get, Rest, storeVars
    <3>3. QED
      BY <3>1, <3>2 DEF Passed, Agreed
  <2>3. (pc[l] = "after" /\ held'[l] = held[l] /\ next'[l] = next[l]) \/ Get(l)
    <3> DEFINE Same == pc[l] = "after" /\ held'[l] = held[l] /\ next'[l] = next[l]
    <3>1. ASSUME NEW m \in Loop, NEW x \in Run, Pick(m, x) PROVE Same
      BY <1>4, <3>1 DEF Pick, Start
    <3>2. ASSUME NEW m \in Loop, Before(m) \/ Work(m) \/ Commit(m) PROVE Same
      BY <1>4, <3>2 DEF Before, Goto, Agrees, BeforeRefused, Refuses, Rest, Work, Commit
    <3>3. ASSUME NEW m \in Loop, Get(m), m # l PROVE Same
      BY <1>4, <3>3 DEF Get, Rest
    <3>4. ASSUME NEW m \in Loop, After(m) \/ Crash(m) PROVE Same
      BY <1>4, <3>4 DEF After, Agrees, Refuses, Rest, Crash
    <3>5. ASSUME NEW x \in Run, JobStep(x) \/ Abort(x) PROVE Same
      BY <1>4, <3>5 DEF JobStep, Abort, loopVars
    <3>6. QED
      BY <1>4, <3>1, <3>2, <3>3, <3>4, <3>5 DEF Next, Step, vars, loopVars
  <2>4. QED
    BY <2>1, <2>2, <2>3
<1>5. ASSUME NEW r \in Run, NEW h \in heard'[r] PROVE Passed(r, h[2])'
  <2>1. CASE h \in heard[r]
    <3>1. Passed(r, h[2])
      BY <2>1 DEF Behind
    <3>2. QED
      BY <3>1, PassedStays
  <2>2. CASE h \notin heard[r]
    <3>1. PICK l \in Loop : After(l)
      <4>1. heard' # heard
        BY <1>5, <2>2
      <4>2. QED
        BY <4>1 DEF Next, Step, vars, Pick, Before, Work, Commit, Get, Crash, JobStep, Abort
    <3>2. r = held[l] /\ h[2] = next[l]
      BY <1>5, <2>2, <3>1 DEF After
    <3>3. Passed(r, next[l]) /\ UNCHANGED <<status, told>>
      BY <3>1, <3>2 DEF After, Behind, storeVars
    <3>4. QED
      BY <3>2, <3>3 DEF Passed, Agreed
  <2>3. QED
    BY <2>1, <2>2
<1>6. QED
  BY <1>2, <1>3, <1>4, <1>5 DEF Behind

LEMMA NextHInv == HInv /\ [Next]_vars => HInv'
BY NextIInv, AheadStep, BehindStep DEF HInv

\* After URLs hear only of what all before URLs have agreed to and not taken
\* back since, though the run is read again without its lock.
THEOREM HeardCorrect == Spec => []HeardAfterTold
<1>1. HInv => HeardAfterTold
  BY DEF HInv, Behind, Passed, HeardAfterTold
<1>2. QED
  BY <1>1, InitHInv, NextHInv, PTL DEF Spec

\* Nothing is done to a run, and nothing told of it, without the consent of all
\* before URLs.
THEOREM HooksCorrect == Spec => []HooksAreHeard
BY TypeCorrect, WorkerAgreedCorrect, HeardCorrect, PTL DEF HooksAreHeard

-----------------------------------------------------------------------------
(* Upgrades of the schema *)

Upgrader == [pc : {"copy", "read", "apply", "commit", "end"}, base : 0..Target, done : SUBSET Version]
Server ==
    [pc : 0..6, loaded : Nat, watches : SUBSET {"file", "schema"}, unseen : SUBSET {"file", "schema"},
     want : 0..Target]

\* What is published is the first versions, without a gap.
SchemaTypeOK ==
    /\ \E n \in 0..Target : repo = 1..n
    /\ db \in [version : 0..Target, applied : [Version -> Nat]]
    /\ upgrader \in [Job -> Upgrader] /\ app \in [App -> Server]
    /\ conf \in Nat /\ failures \in Nat

\* What an upgrader has applied follows the version that it has read.  If there is any,
\* then that is the version still, unless what follows it may be applied again.
Follows(j) ==
    LET me == upgrader[j]
    IN  /\ me.base <= db.version
        /\ me.pc \in {"copy", "read", "end"} => me.done = {}
        /\ me.done # {} =>
               /\ \E n \in (me.base + 1)..Image[j] : me.done = (me.base + 1)..n
               /\ me.base = db.version \/ me.base + 1 \in Idempotent
        /\ me.pc = "commit" /\ me.done # {} => Image[j] \in me.done

\* Of two upgraders that have applied the same, the second waits for the first.
Apart == \A j, k \in Job : j # k => upgrader[j].done \cap upgrader[k].done = {}

\* A server watches what it has looked at, so it knows of each change or will hear of it.
Knows(a) ==
    LET me == app[a]
    IN  /\ me.pc >= 4 => "schema" \in me.watches
        /\ me.pc >= 5 => "schema" \in me.unseen \/ me.want = Latest(repo) \/ db.version >= Latest(repo)
        /\ a \notin LoadsFirst =>
               /\ me.pc >= 2 => "file" \in me.watches
               /\ me.pc >= 3 => "file" \in me.unseen \/ me.loaded = conf

SchemaIInv ==
    /\ SchemaTypeOK /\ VersionTells /\ Apart
    /\ \A j \in Job : Follows(j)
    /\ \A a \in App : Knows(a)

-----------------------------------------------------------------------------
(* The operators *)

\* The last release is there, and has the last version.
LEMMA TargetIsLast ==
    ASSUME SchemaAssumption
    PROVE  Target \in Nat \ {0} /\ \A j \in Job : Image[j] \in 1..Target
<1>1. PICK j \in Job : \A k \in Job : Image[k] <= Image[j]
  BY DEF SchemaAssumption
<1> DEFINE images == {Image[k] : k \in Job}
<1>2. \E x \in images : \A y \in images : x >= y
  BY <1>1 DEF SchemaAssumption
<1>3. Target \in images /\ \A y \in images : Target >= y
  BY <1>2 DEF Target, Max
<1>4. QED
  BY <1>3 DEF SchemaAssumption

LEMMA LatestOfFirst == ASSUME NEW n \in Nat PROVE Latest(1..n) = n
<1> DEFINE S == 1..n \cup {0}
<1>1. n \in S /\ \A y \in S : n >= y
  OBVIOUS
<1>2. \A x \in S : (\A y \in S : x >= y) => x = n
  BY <1>1
<1>3. Max(S) = n
  BY <1>1, <1>2 DEF Max
<1>4. QED
  BY <1>3 DEF Latest

\* What comes first, and last, of the numbers from m to n.
LEMMA MaxOfRange == ASSUME NEW m \in Nat, NEW n \in Nat, m <= n PROVE Max(m..n) = n
<1>1. n \in m..n /\ \A y \in m..n : n >= y
  OBVIOUS
<1>2. \A x \in m..n : (\A y \in m..n : x >= y) => x = n
  BY <1>1
<1>3. QED
  BY <1>1, <1>2 DEF Max

LEMMA MinOfRange == ASSUME NEW m \in Nat, NEW n \in Nat, m <= n PROVE Min(m..n) = m
<1>1. m \in m..n /\ \A y \in m..n : m =< y
  OBVIOUS
<1>2. \A x \in m..n : (\A y \in m..n : x =< y) => x = m
  BY <1>1
<1>3. QED
  BY <1>1, <1>2 DEF Min

-----------------------------------------------------------------------------
(* The invariant holds *)

LEMMA SchemaInitIInv == ASSUME SchemaAssumption, SchemaInit PROVE SchemaIInv
<1>1. PICK v \in 0..(Target - 1) :
          /\ repo = 1..v
          /\ db = [version |-> v, applied |-> [w \in Version |-> IF w <= v THEN 1 ELSE 0]]
  BY DEF SchemaInit
<1>2. Target \in Nat \ {0} /\ v \in 0..Target /\ v \in Nat
  BY TargetIsLast
<1>3. SchemaTypeOK
  <2>1. db \in [version : 0..Target, applied : [Version -> Nat]]
    BY <1>1, <1>2
  <2>2. Fresh \in Upgrader /\ Down \in Server
    BY <1>2 DEF Fresh, Upgrader, Down, Server
  <2>3. QED
    BY <1>1, <1>2, <2>1, <2>2 DEF SchemaTypeOK, SchemaInit
<1>4. VersionTells
  BY <1>1, <1>2 DEF VersionTells, Version
<1>5. Apart /\ \A j \in Job : Follows(j)
  BY <1>1, <1>2 DEF Apart, Follows, SchemaInit, Fresh
<1>6. \A a \in App : Knows(a)
  BY DEF Knows, SchemaInit, Down
<1>7. QED
  BY <1>3, <1>4, <1>5, <1>6 DEF SchemaIInv

\* A step of the upgraders that neither publishes nor commits disturbs nobody else.
LEMMA UpgraderMoves ==
    ASSUME SchemaAssumption, SchemaIInv, NEW j \in Job, NEW me \in Upgrader,
           upgrader' = [upgrader EXCEPT ![j] = me], failures' \in Nat,
           UNCHANGED <<repo, db, app, conf>>,
           Follows(j)', \A k \in Job \ {j} : me.done \cap upgrader[k].done = {}
    PROVE  SchemaIInv'
<1>1. upgrader'[j] = me /\ \A k \in Job \ {j} : upgrader'[k] = upgrader[k]
  BY DEF SchemaIInv, SchemaTypeOK
<1>2. SchemaTypeOK'
  BY DEF SchemaIInv, SchemaTypeOK
<1>3. VersionTells'
  BY DEF SchemaIInv, VersionTells
<1>4. Apart'
  BY <1>1 DEF SchemaIInv, Apart
<1>5. \A k \in Job : Follows(k)'
  BY <1>1 DEF SchemaIInv, Follows
<1>6. \A a \in App : Knows(a)'
  BY DEF SchemaIInv, Knows
<1>7. QED
  BY <1>2, <1>3, <1>4, <1>5, <1>6 DEF SchemaIInv

LEMMA StartsAfresh ==
    ASSUME SchemaAssumption, SchemaIInv, NEW j \in Job, upgrader' = [upgrader EXCEPT ![j] = Fresh],
           failures' \in Nat, UNCHANGED <<repo, db, app, conf>>
    PROVE  SchemaIInv'
<1>1. Fresh \in Upgrader /\ Fresh.done = {} /\ Fresh.base = 0 /\ Fresh.pc = "copy"
  BY TargetIsLast DEF Fresh, Upgrader
<1>2. Follows(j)'
  BY <1>1 DEF Follows, SchemaIInv, SchemaTypeOK
<1>3. QED
  BY <1>1, <1>2, UpgraderMoves

LEMMA ReadStep == ASSUME SchemaAssumption, SchemaIInv, NEW j \in Job, ReadVersion(j) PROVE SchemaIInv'
<1> DEFINE me == [upgrader[j] EXCEPT !.pc = "apply", !.base = db.version]
<1>1. upgrader[j] \in Upgrader /\ db.version \in 0..Target /\ upgrader[j].done = {} /\ failures \in Nat
  BY DEF SchemaIInv, SchemaTypeOK, Follows, ReadVersion
<1>2. me \in Upgrader /\ me.done = {} /\ me.base = db.version /\ me.pc = "apply"
  BY <1>1 DEF Upgrader
<1>3. upgrader' = [upgrader EXCEPT ![j] = me] /\ UNCHANGED <<repo, db, app, conf, failures>>
  BY DEF ReadVersion, SchemaIInv, SchemaTypeOK
<1>4. upgrader'[j] = me
  BY <1>3 DEF SchemaIInv, SchemaTypeOK
<1> HIDE DEF me
<1>5. Follows(j)'
  BY <1>1, <1>2, <1>3, <1>4 DEF Follows
<1>6. QED
  BY <1>1, <1>2, <1>3, <1>5, UpgraderMoves

\* What is applied next follows what was applied; it was not there, or may be repeated.
LEMMA ApplyStep == ASSUME SchemaAssumption, LastMayRepeat, SchemaIInv, NEW j \in Job, Apply(j) PROVE SchemaIInv'
<1> DEFINE old == upgrader[j]
           todo == ToApply(j)
           v == Min(todo)
<1>1. /\ old \in Upgrader /\ old.pc = "apply" /\ failures \in Nat /\ Follows(j)
      /\ UNCHANGED <<repo, db, app, conf, failures>>
  BY DEF SchemaIInv, SchemaTypeOK, Apply
<1>2. Image[j] \in 1..Target /\ Target \in Nat
  BY TargetIsLast
<1>3. CASE todo = {}
  <2> DEFINE me == [old EXCEPT !.pc = "commit"]
  <2>1. me \in Upgrader /\ me.done = old.done /\ me.base = old.base /\ me.pc = "commit"
    BY <1>1 DEF Upgrader
  <2>2. upgrader' = [upgrader EXCEPT ![j] = me]
    BY <1>3 DEF Apply, SchemaIInv, SchemaTypeOK
  <2>3. upgrader'[j] = me
    BY <2>2 DEF SchemaIInv, SchemaTypeOK
  <2>4. old.done # {} => Image[j] \in old.done
    <3>1. (old.base + 1)..Image[j] \subseteq old.done /\ old.base \in Nat
      BY <1>1, <1>2, <1>3 DEF Upgrader, ToApply
    <3>2. ASSUME old.done # {} PROVE Image[j] \in (old.base + 1)..Image[j]
      <4>1. PICK n \in (old.base + 1)..Image[j] : old.done = (old.base + 1)..n
        BY <1>1, <3>2 DEF Follows
      <4>2. QED
        BY <4>1, <1>2, <3>1
    <3>3. QED
      BY <3>1, <3>2
  <2> HIDE DEF me
  <2>5. Follows(j)'
    BY <1>1, <2>1, <2>3, <2>4 DEF Follows
  <2>6. \A k \in Job \ {j} : me.done \cap upgrader[k].done = {}
    BY <2>1 DEF SchemaIInv, Apart
  <2>7. QED
    BY <1>1, <2>1, <2>2, <2>5, <2>6, UpgraderMoves
<1>4. CASE todo # {}
  <2>1. ApplyNext(j, v)
    BY <1>4 DEF Apply
  <2>2. CASE Rejects(v)
    <3>1. upgrader' = [upgrader EXCEPT ![j] = Fresh]
      BY <2>1, <2>2 DEF ApplyNext
    <3>2. QED
      BY <1>1, <3>1, StartsAfresh
  <2>3. CASE ~Rejects(v)
    <3> DEFINE me == [old EXCEPT !.done = old.done \cup {v}]
    <3>1. v \in todo /\ v \in Version /\ old.base \in 0..Target
          /\ \E n \in (old.base + 1)..Image[j] : v = n /\ old.done \cup {v} = (old.base + 1)..n
      <4>1. old.base \in 0..Target /\ todo = (old.base + 1)..Image[j] \ old.done
        BY <1>1 DEF Upgrader, ToApply
      <4>2. \E n \in (old.base + 1)..Image[j] : old.done = (old.base + 1)..(n - 1) /\ todo = n..Image[j]
        <5>1. CASE old.done = {}
          <6>1. old.base + 1 \in (old.base + 1)..Image[j] /\ todo = (old.base + 1)..Image[j]
            BY <1>2, <1>4, <4>1, <5>1
          <6>2. (old.base + 1)..(old.base + 1 - 1) = {}
            BY <4>1
          <6>3. QED
            BY <5>1, <6>1, <6>2
        <5>2. CASE old.done # {}
          <6>1. PICK n \in (old.base + 1)..Image[j] : old.done = (old.base + 1)..n
            BY <1>1, <5>2 DEF Follows
          <6>2. todo = (n + 1)..Image[j] /\ n + 1 \in (old.base + 1)..Image[j]
            BY <1>2, <1>4, <4>1, <6>1
          <6>3. old.done = (old.base + 1)..(n + 1 - 1)
            BY <6>1, <4>1, <1>2
          <6>4. QED
            BY <6>2, <6>3
        <5>3. QED
          BY <5>1, <5>2
      <4>3. PICK n \in (old.base + 1)..Image[j] : old.done = (old.base + 1)..(n - 1) /\ todo = n..Image[j]
        BY <4>2
      <4>4. v = n
        <5>1. n \in Nat /\ Image[j] \in Nat /\ n <= Image[j]
          BY <4>1, <4>3, <1>2
        <5>2. Min(n..Image[j]) = n
          BY <5>1, MinOfRange
        <5>3. QED
          BY <4>3, <5>2
      <4>5. old.done \cup {n} = (old.base + 1)..n
        BY <4>1, <4>3, <1>2
      <4>6. n \in todo /\ n \in Version
        BY <4>1, <4>3, <1>2 DEF Version
      <4>7. QED
        BY <4>1, <4>4, <4>5, <4>6
    <3> HIDE DEF v, todo
    <3>2. me \in Upgrader /\ me.done = old.done \cup {v} /\ me.base = old.base /\ me.pc = "apply"
      BY <1>1, <3>1 DEF Upgrader
    <3> HIDE DEF me
    <3>3. upgrader' = [upgrader EXCEPT ![j] = me]
      BY <2>1, <2>3 DEF me, ApplyNext, SchemaIInv, SchemaTypeOK
    <3>4. upgrader'[j] = me
      BY <3>3 DEF SchemaIInv, SchemaTypeOK
    <3>5. old.base = db.version \/ old.base + 1 \in Idempotent
      <4>1. CASE old.done # {}
        BY <1>1, <4>1 DEF Follows
      <4>2. CASE old.done = {} /\ old.base + 1 \notin Idempotent
        <5>1. v = old.base + 1
          <6>1. PICK n \in (old.base + 1)..Image[j] : v = n /\ old.done \cup {v} = (old.base + 1)..n
            BY <3>1
          <6>2. old.base + 1 \in {v}
            BY <6>1, <4>2, <3>1, <1>2
          <6>3. QED
            BY <6>2
        <5>2. ~ (db.applied[v] > 0)
          BY <2>3, <4>2, <5>1 DEF Rejects
        <5>3. ~ (v <= db.version)
          BY <5>2, <3>1 DEF SchemaIInv, VersionTells
        <5>4. old.base <= db.version /\ db.version \in 0..Target
          BY <1>1 DEF Follows, SchemaIInv, SchemaTypeOK
        <5>5. QED
          BY <3>1, <5>1, <5>3, <5>4, <1>2
      <4>3. QED
        BY <4>1, <4>2
    <3>6. Follows(j)'
      BY <1>1, <3>1, <3>2, <3>4, <3>5 DEF Follows
    <3>7. \A k \in Job \ {j} : me.done \cap upgrader[k].done = {}
      BY <2>1, <3>2 DEF SchemaIInv, Apart, ApplyNext, Blocked
    <3>8. QED
      BY <1>1, <3>2, <3>3, <3>6, <3>7, UpgraderMoves
  <2>4. QED
    BY <2>2, <2>3
<1>5. QED
  BY <1>3, <1>4

\* What an upgrader commits is all up to its own release, and nobody's is newer.
Committed(j) ==
    /\ db'.version >= db.version
    /\ upgrader[j].done # {} =>
           /\ db'.version = Image[j] /\ upgrader[j].base + 1 <= Image[j]
           /\ upgrader[j].done = (upgrader[j].base + 1)..Image[j]

LEMMA CommitIsForward ==
    ASSUME SchemaAssumption, LastMayRepeat, SchemaIInv, NEW j \in Job, CommitUpgrade(j)
    PROVE  Committed(j)
<1> DEFINE old == upgrader[j]
<1>1. old \in Upgrader /\ old.pc = "commit" /\ Follows(j) /\ db.version \in 0..Target
  BY DEF SchemaIInv, SchemaTypeOK, CommitUpgrade
<1>2. Image[j] \in 1..Target /\ Target \in Nat /\ old.base \in 0..Target
  BY <1>1, TargetIsLast DEF Upgrader
<1>3. db'.version = IF old.done = {} THEN db.version ELSE Max(old.done)
  BY DEF CommitUpgrade
<1>4. CASE old.done = {}
  BY <1>1, <1>2, <1>3, <1>4 DEF Committed
<1>5. CASE old.done # {}
  <2>1. PICK n \in (old.base + 1)..Image[j] : old.done = (old.base + 1)..n
    BY <1>1, <1>5 DEF Follows
  <2>2. n = Image[j]
    BY <1>1, <1>2, <1>5, <2>1 DEF Follows
  <2>3. old.done = (old.base + 1)..Image[j] /\ old.base + 1 <= Image[j]
    BY <1>2, <2>1, <2>2
  <2>4. db'.version = Image[j]
    BY <1>2, <1>3, <1>5, <2>3, MaxOfRange
  <2>5. db.version <= Image[j]
    <3>1. CASE old.base = db.version
      BY <3>1, <1>2, <2>3
    <3>2. CASE old.base + 1 \in Idempotent
      <4>1. old.base + 1 = Target
        BY <3>2 DEF LastMayRepeat
      <4>2. QED
        BY <1>1, <1>2, <2>3, <4>1
    <3>3. QED
      BY <1>1, <1>5, <3>1, <3>2 DEF Follows
  <2>6. QED
    BY <1>1, <1>2, <2>3, <2>4, <2>5 DEF Committed
<1>6. QED
  BY <1>4, <1>5

LEMMA CommitStep ==
    ASSUME SchemaAssumption, LastMayRepeat, SchemaIInv, NEW j \in Job, CommitUpgrade(j)
    PROVE  SchemaIInv'
<1> DEFINE old == upgrader[j]
           me == [Fresh EXCEPT !.pc = "end"]
<1>1. /\ old \in Upgrader /\ Follows(j) /\ db.version \in 0..Target /\ db.applied \in [Version -> Nat]
      /\ UNCHANGED <<repo, app, conf, failures>> /\ upgrader' = [upgrader EXCEPT ![j] = me]
  BY DEF SchemaIInv, SchemaTypeOK, CommitUpgrade
<1>2. Image[j] \in 1..Target /\ Target \in Nat /\ old.base \in 0..Target
  BY <1>1, TargetIsLast DEF Upgrader
<1>3. /\ db'.version >= db.version
      /\ old.done # {} =>
             db'.version = Image[j] /\ old.base + 1 <= Image[j] /\ old.done = (old.base + 1)..Image[j]
  BY CommitIsForward DEF Committed
<1>4. /\ db' = [version |-> db'.version, applied |-> db'.applied]
      /\ old.done = {} => db'.version = db.version
      /\ db'.applied = [v \in Version |-> db.applied[v] + IF v \in old.done THEN 1 ELSE 0]
  BY DEF CommitUpgrade
<1>5. me \in Upgrader /\ me.done = {} /\ me.base = 0 /\ me.pc = "end"
  BY <1>2 DEF Fresh, Upgrader
<1>6. upgrader'[j] = me /\ \A k \in Job \ {j} : upgrader'[k] = upgrader[k]
  BY <1>1 DEF SchemaIInv, SchemaTypeOK
<1> HIDE DEF me
<1>7. db'.version \in 0..Target /\ db'.applied \in [Version -> Nat]
  <2>1. db'.version \in 0..Target
    BY <1>1, <1>2, <1>3, <1>4
  <2>2. db'.applied \in [Version -> Nat]
    BY <1>1, <1>4
  <2>3. QED
    BY <2>1, <2>2
<1>8. SchemaTypeOK'
  <2>1. db' \in [version : 0..Target, applied : [Version -> Nat]]
    BY <1>4, <1>7
  <2>2. QED
    BY <1>1, <1>5, <2>1 DEF SchemaIInv, SchemaTypeOK
<1>9. VersionTells'
  <2>1. ASSUME NEW v \in Version
        PROVE  /\ db'.applied[v] > 0 <=> v <= db'.version
               /\ v \notin Idempotent => db'.applied[v] <= 1
    <3>1. /\ v \in 1..Target /\ db.applied[v] \in Nat
          /\ db.applied[v] > 0 <=> v <= db.version
          /\ v \notin Idempotent => db.applied[v] <= 1
          /\ db'.applied[v] = db.applied[v] + IF v \in old.done THEN 1 ELSE 0
      BY <1>1, <1>4 DEF SchemaIInv, VersionTells, Version
    <3>2. CASE v \notin old.done
      <4>1. db'.applied[v] = db.applied[v]
        BY <3>1, <3>2
      <4>2. v <= db'.version => v <= db.version
        <5>1. CASE old.done = {}
          BY <1>4, <5>1
        <5>2. CASE old.done # {}
          <6>1. v <= old.base \/ v > Image[j]
            BY <1>2, <1>3, <3>1, <3>2, <5>2
          <6>2. old.base <= db.version
            BY <1>1 DEF Follows
          <6>3. QED
            BY <1>1, <1>2, <1>3, <3>1, <5>2, <6>1, <6>2
        <5>3. QED
          BY <5>1, <5>2
      <4>3. QED
        BY <1>1, <1>3, <1>7, <3>1, <4>1, <4>2
    <3>3. CASE v \in old.done
      <4>1. v >= old.base + 1 /\ v <= db'.version /\ db'.applied[v] = db.applied[v] + 1
        BY <1>2, <1>3, <3>1, <3>3
      <4>2. v \notin Idempotent => db.applied[v] = 0
        <5>1. CASE old.base = db.version
          BY <1>1, <3>1, <4>1, <5>1
        <5>2. CASE old.base + 1 \in Idempotent
          <6>1. old.base + 1 = Target
            BY <5>2 DEF LastMayRepeat
          <6>2. v = old.base + 1
            BY <1>2, <3>1, <4>1, <6>1
          <6>3. QED
            BY <5>2, <6>2
        <5>3. QED
          BY <1>1, <3>3, <5>1, <5>2 DEF Follows
      <4>3. QED
        BY <3>1, <4>1, <4>2
    <3>4. QED
      BY <3>2, <3>3
  <2>2. QED
    BY <2>1 DEF VersionTells, Version
<1>10. Apart'
  BY <1>5, <1>6 DEF SchemaIInv, Apart
<1>11. ASSUME NEW k \in Job PROVE Follows(k)'
  <2>1. CASE k = j
    BY <1>5, <1>6, <1>7, <2>1 DEF Follows
  <2>2. CASE k # j
    <3> DEFINE other == upgrader[k]
    <3>1. upgrader'[k] = other /\ Follows(k) /\ other \in Upgrader
      BY <1>6, <2>2 DEF SchemaIInv, SchemaTypeOK
    <3>2. Image[k] \in 1..Target /\ other.base \in 0..Target
      BY <3>1, TargetIsLast DEF Upgrader
    <3>3. other.base <= db'.version
      BY <1>1, <1>3, <1>7, <3>1, <3>2 DEF Follows
    <3>4. ASSUME other.done # {}, other.base + 1 \notin Idempotent PROVE other.base = db'.version
      <4>1. other.base = db.version /\ other.base + 1 \in other.done
        <5>1. PICK n \in (other.base + 1)..Image[k] : other.done = (other.base + 1)..n
          BY <3>1, <3>4 DEF Follows
        <5>2. other.base + 1 \in other.done
          BY <3>2, <5>1
        <5>3. QED
          BY <3>1, <3>4, <5>2 DEF Follows
      <4>2. CASE old.done = {}
        BY <1>4, <4>1, <4>2
      <4>3. CASE old.done # {}
        <5>1. old.base + 1 \in old.done
          BY <1>2, <1>3, <4>3
        <5>2. old.base # db.version
          BY <2>2, <4>1, <5>1 DEF SchemaIInv, Apart
        <5>3. old.base + 1 = Target /\ old.base <= db.version
          BY <1>1, <4>3, <5>2 DEF Follows, LastMayRepeat
        <5>4. other.base + 1 <= Target
          <6>1. other.base + 1 \in Version
            BY <3>1, <4>1 DEF Upgrader
          <6>2. QED
            BY <6>1, <1>2 DEF Version
        <5>5. QED
          BY <1>1, <1>2, <3>2, <4>1, <5>2, <5>3, <5>4
      <4>4. QED
        BY <4>2, <4>3
    <3>5. QED
      BY <3>1, <3>3, <3>4 DEF Follows
  <2>3. QED
    BY <2>1, <2>2
<1>12. ASSUME NEW a \in App PROVE Knows(a)'
  <2>1. Knows(a) /\ (db.version >= Latest(repo) => db'.version >= Latest(repo))
    <3>1. Latest(repo) \in Nat
      <4>1. PICK n \in 0..Target : repo = 1..n
        BY DEF SchemaIInv, SchemaTypeOK
      <4>2. QED
        BY <4>1, <1>2, LatestOfFirst
    <3>2. QED
      BY <1>1, <1>3, <1>7, <3>1 DEF SchemaIInv
  <2>2. QED
    BY <1>1, <2>1 DEF Knows
<1>13. QED
  BY <1>8, <1>9, <1>10, <1>11, <1>12 DEF SchemaIInv

\* The next version is published, in front of everybody who watches.
LEMMA CopyStep == ASSUME SchemaAssumption, SchemaIInv, NEW j \in Job, Copy(j) PROVE SchemaIInv'
<1>1. upgrader[j] \in Upgrader /\ upgrader[j].pc = "copy" /\ failures \in Nat /\ Follows(j)
  BY DEF SchemaIInv, SchemaTypeOK, Copy
<1>2. Image[j] \in 1..Target /\ Target \in Nat
  BY TargetIsLast
<1>3. CASE 1..Image[j] \subseteq repo
  <2> DEFINE me == [upgrader[j] EXCEPT !.pc = "read"]
  <2>1. me \in Upgrader /\ me.done = upgrader[j].done /\ me.base = upgrader[j].base /\ me.pc = "read"
    BY <1>1 DEF Upgrader
  <2>2. upgrader' = [upgrader EXCEPT ![j] = me] /\ UNCHANGED <<repo, db, app, conf, failures>>
    BY <1>3 DEF Copy, SchemaIInv, SchemaTypeOK
  <2>3. upgrader'[j] = me
    BY <2>2 DEF SchemaIInv, SchemaTypeOK
  <2> HIDE DEF me
  <2>4. Follows(j)' /\ me.done = {}
    BY <1>1, <2>1, <2>2, <2>3 DEF Follows
  <2>5. QED
    BY <1>1, <2>1, <2>2, <2>4, UpgraderMoves
<1>4. CASE ~ (1..Image[j] \subseteq repo)
  <2>1. PICK n \in 0..Target : repo = 1..n
    BY DEF SchemaIInv, SchemaTypeOK
  <2>2. n + 1 <= Image[j] /\ 1..Image[j] \ repo = (n + 1)..Image[j]
    BY <1>2, <1>4, <2>1
  <2>3. Min(1..Image[j] \ repo) = n + 1
    <3>1. n + 1 \in Nat /\ Image[j] \in Nat
      BY <1>2, <2>1
    <3>2. Min((n + 1)..Image[j]) = n + 1
      BY <2>2, <3>1, MinOfRange
    <3>3. QED
      BY <2>2, <3>2
  <2>4. /\ repo' = 1..(n + 1) /\ n + 1 \in 0..Target
        /\ app' = Notified("schema") /\ UNCHANGED <<upgrader, db, conf, failures>>
    <3>1. repo' = repo \cup {n + 1} /\ app' = Notified("schema") /\ UNCHANGED <<upgrader, db, conf, failures>>
      BY <1>4, <2>3 DEF Copy
    <3>2. QED
      BY <1>2, <2>1, <2>2, <3>1
  <2>5. \A a \in App : /\ app'[a] \in Server /\ app'[a].pc = app[a].pc /\ app'[a].loaded = app[a].loaded
                       /\ app'[a].watches = app[a].watches /\ app'[a].want = app[a].want
                       /\ app[a].unseen \subseteq app'[a].unseen
                       /\ "schema" \in app[a].watches => "schema" \in app'[a].unseen
    BY <2>4 DEF Notified, SchemaIInv, SchemaTypeOK, Server
  <2>6. SchemaTypeOK'
    <3>1. app' = [a \in App |-> app'[a]]
      BY <2>4 DEF Notified
    <3>2. app' \in [App -> Server]
      BY <2>5, <3>1
    <3>3. QED
      BY <2>4, <3>2 DEF SchemaIInv, SchemaTypeOK
  <2>7. VersionTells' /\ Apart' /\ \A k \in Job : Follows(k)'
    BY <2>4 DEF SchemaIInv, VersionTells, Apart, Follows
  <2>8. ASSUME NEW a \in App PROVE Knows(a)'
    <3>1. Knows(a) /\ app[a].pc \in 0..6
      BY DEF SchemaIInv, SchemaTypeOK, Server
    <3>2. app[a].pc >= 4 => "schema" \in app'[a].watches /\ "schema" \in app'[a].unseen
      BY <2>5, <3>1 DEF Knows
    <3>3. app'[a].pc >= 5 => app[a].pc >= 4
      BY <2>5, <3>1
    <3>4. /\ app'[a].pc = app[a].pc /\ app'[a].loaded = app[a].loaded /\ app'[a].watches = app[a].watches
          /\ app[a].unseen \subseteq app'[a].unseen /\ conf' = conf
      BY <2>4, <2>5
    <3>5. QED
      BY <3>1, <3>2, <3>3, <3>4 DEF Knows
  <2>9. QED
    BY <2>6, <2>7, <2>8 DEF SchemaIInv
<1>5. QED
  BY <1>3, <1>4

\* A step of one server disturbs nobody else.
LEMMA ServerMoves ==
    ASSUME SchemaIInv, NEW a \in App, NEW me \in Server, app' = [app EXCEPT ![a] = me],
           failures' \in Nat, UNCHANGED <<repo, db, upgrader, conf>>, Knows(a)'
    PROVE  SchemaIInv'
<1>1. \A b \in App \ {a} : app'[b] = app[b]
  BY DEF SchemaIInv, SchemaTypeOK
<1>2. SchemaTypeOK'
  BY DEF SchemaIInv, SchemaTypeOK
<1>3. VersionTells' /\ Apart' /\ \A k \in Job : Follows(k)'
  BY DEF SchemaIInv, VersionTells, Apart, Follows
<1>4. \A b \in App : Knows(b)'
  BY <1>1 DEF SchemaIInv, Knows
<1>5. QED
  BY <1>2, <1>3, <1>4 DEF SchemaIInv

LEMMA ServerDies ==
    ASSUME SchemaAssumption, SchemaIInv, NEW a \in App, app' = [app EXCEPT ![a] = Down],
           failures' \in Nat, UNCHANGED <<repo, db, upgrader, conf>>
    PROVE  SchemaIInv'
<1>1. Down \in Server /\ Down.pc = 0
  BY TargetIsLast DEF Down, Server
<1>2. app'[a] = Down
  BY DEF SchemaIInv, SchemaTypeOK
<1>3. Knows(a)'
  BY <1>1, <1>2 DEF Knows
<1>4. QED
  BY <1>1, <1>3, ServerMoves

\* What the version is compared with is one that there is.
LEMMA LatestIsVersion == ASSUME SchemaAssumption, SchemaIInv PROVE Latest(repo) \in 0..Target
<1>1. PICK n \in 0..Target : repo = 1..n
  BY DEF SchemaIInv, SchemaTypeOK
<1>2. QED
  BY <1>1, TargetIsLast, LatestOfFirst

LEMMA BootStep == ASSUME SchemaAssumption, SchemaIInv, NEW a \in App, Boot(a) PROVE SchemaIInv'
<1> DEFINE old == app[a]
           me == Booted(a)
           step == IF old.pc = 0 THEN "start" ELSE BootOrder(a)[old.pc]
           booted == [old EXCEPT !.pc = @ + 1]
<1>1. /\ old \in Server /\ old.pc \in 0..5 /\ Knows(a) /\ failures \in Nat /\ db.version \in 0..Target
      /\ app' = [app EXCEPT ![a] = me] /\ UNCHANGED <<repo, db, upgrader, conf, failures>>
  BY DEF Boot, Serving, Server, SchemaIInv, SchemaTypeOK
<1>2. /\ booted \in Server /\ booted.pc = old.pc + 1 /\ booted.loaded = old.loaded /\ booted.watches = old.watches
      /\ booted.unseen = old.unseen /\ booted.want = old.want
  BY <1>1 DEF Server
<1>3. /\ conf \in Nat /\ Latest(repo) \in 0..Target /\ Target \in Nat
  BY TargetIsLast, LatestIsVersion DEF SchemaIInv, SchemaTypeOK
<1>4. app'[a] = me
  BY <1>1 DEF SchemaIInv, SchemaTypeOK
<1> HIDE DEF booted
<1>5. CASE old.pc = 0
  <2>1. me = booted
    BY <1>5 DEF Booted, booted
  <2>2. Knows(a)'
    BY <1>1, <1>2, <1>4, <1>5, <2>1 DEF Knows
  <2>3. QED
    BY <1>1, <1>2, <2>1, <2>2, ServerMoves
<1>6. CASE step = "load" /\ old.pc \in 1..2
  <2>1. me = [booted EXCEPT !.loaded = conf]
    BY <1>6 DEF Booted, booted
  <2>2. /\ me \in Server /\ me.pc = booted.pc /\ me.loaded = conf /\ me.watches = booted.watches
        /\ me.unseen = booted.unseen /\ me.want = booted.want
    BY <1>2, <1>3, <2>1 DEF Server
  <2> HIDE DEF me
  <2>3. a \notin LoadsFirst => old.pc = 2
    BY <1>6 DEF BootOrder
  <2>4. Knows(a)'
    BY <1>1, <1>2, <1>4, <1>6, <2>2, <2>3 DEF Knows
  <2>5. QED
    BY <1>1, <2>2, <2>4, ServerMoves
<1>7. CASE step = "file" /\ old.pc \in 1..2
  <2>1. me = [booted EXCEPT !.watches = booted.watches \cup {"file"}]
    BY <1>7 DEF Booted, booted
  <2>2. /\ me \in Server /\ me.pc = booted.pc /\ me.loaded = booted.loaded
        /\ me.watches = booted.watches \cup {"file"} /\ me.unseen = booted.unseen /\ me.want = booted.want
    BY <1>2, <2>1 DEF Server
  <2> HIDE DEF me
  <2>3. a \notin LoadsFirst => old.pc = 1
    BY <1>7 DEF BootOrder
  <2>4. Knows(a)'
    BY <1>1, <1>2, <1>4, <1>7, <2>2, <2>3 DEF Knows
  <2>5. QED
    BY <1>1, <2>2, <2>4, ServerMoves
<1>8. CASE old.pc = 3
  <2>1. step = "schema"
    BY <1>8 DEF BootOrder
  <2>2. me = [booted EXCEPT !.watches = booted.watches \cup {"schema"}]
    BY <1>8, <2>1 DEF Booted, booted
  <2>3. /\ me \in Server /\ me.pc = booted.pc /\ me.loaded = booted.loaded
        /\ me.watches = booted.watches \cup {"schema"} /\ me.unseen = booted.unseen /\ me.want = booted.want
    BY <1>2, <2>2 DEF Server
  <2> HIDE DEF me
  <2>4. Knows(a)'
    BY <1>1, <1>2, <1>4, <1>8, <2>3 DEF Knows
  <2>5. QED
    BY <1>1, <2>3, <2>4, ServerMoves
<1>9. CASE old.pc = 4
  <2>1. step = "versions"
    BY <1>9 DEF BootOrder
  <2>2. me = [booted EXCEPT !.want = Latest(repo)]
    BY <1>9, <2>1 DEF Booted, booted
  <2>3. /\ me \in Server /\ me.pc = booted.pc /\ me.loaded = booted.loaded
        /\ me.watches = booted.watches /\ me.unseen = booted.unseen /\ me.want = Latest(repo)
    BY <1>2, <1>3, <2>2 DEF Server
  <2> HIDE DEF me
  <2>4. Knows(a)'
    BY <1>1, <1>2, <1>4, <1>9, <2>3 DEF Knows
  <2>5. QED
    BY <1>1, <2>3, <2>4, ServerMoves
<1>10. CASE old.pc = 5
  <2>1. step = "check"
    BY <1>10 DEF BootOrder
  <2>2. me = IF Outdated(a) THEN Down ELSE [booted EXCEPT !.want = 0]
    BY <1>10, <2>1 DEF Booted, booted
  <2>3. CASE Outdated(a)
    BY <1>1, <2>2, <2>3, ServerDies
  <2>4. CASE ~Outdated(a)
    <3>1. /\ me \in Server /\ me.pc = booted.pc /\ me.loaded = booted.loaded
          /\ me.watches = booted.watches /\ me.unseen = booted.unseen /\ me.want = 0
      BY <1>2, <1>3, <2>2, <2>4 DEF Server
    <3>2. old.want = Latest(repo) => db.version >= Latest(repo)
      BY <1>1, <1>3, <2>4 DEF Outdated
    <3> HIDE DEF me
    <3>3. Knows(a)'
      BY <1>1, <1>2, <1>4, <1>10, <3>1, <3>2 DEF Knows
    <3>4. QED
      BY <1>1, <3>1, <3>3, ServerMoves
  <2>5. QED
    BY <2>3, <2>4
<1>11. QED
  <2>1. old.pc \in 1..2 => step \in {"load", "file"}
    BY DEF BootOrder
  <2>2. QED
    BY <1>1, <2>1, <1>5, <1>6, <1>7, <1>8, <1>9, <1>10

LEMMA SchemaEventStep == ASSUME SchemaAssumption, SchemaIInv, NEW a \in App, SchemaEvent(a) PROVE SchemaIInv'
<1> DEFINE me == [app[a] EXCEPT !.unseen = app[a].unseen \ {"schema"}, !.want = Latest(repo)]
<1>1. app[a] \in Server /\ Knows(a) /\ failures \in Nat /\ Latest(repo) \in 0..Target
  BY LatestIsVersion DEF SchemaIInv, SchemaTypeOK
<1>2. /\ me \in Server /\ me.pc = app[a].pc /\ me.loaded = app[a].loaded /\ me.watches = app[a].watches
      /\ "file" \in app[a].unseen => "file" \in me.unseen
      /\ me.want = Latest(repo)
  BY <1>1 DEF Server
<1>3. app' = [app EXCEPT ![a] = me] /\ UNCHANGED <<repo, db, upgrader, conf, failures>>
  BY DEF SchemaEvent, SchemaIInv, SchemaTypeOK
<1>4. app'[a] = me
  BY <1>3 DEF SchemaIInv, SchemaTypeOK
<1> HIDE DEF me
<1>5. Knows(a)'
  BY <1>1, <1>2, <1>3, <1>4 DEF Knows
<1>6. QED
  BY <1>1, <1>2, <1>3, <1>5, ServerMoves

LEMMA CheckStep == ASSUME SchemaAssumption, SchemaIInv, NEW a \in App, CheckVersion(a) PROVE SchemaIInv'
<1>1. UNCHANGED <<repo, db, upgrader, conf, failures>> /\ failures \in Nat
  BY DEF CheckVersion, SchemaIInv, SchemaTypeOK
<1>2. CASE Outdated(a)
  BY <1>1, <1>2, ServerDies DEF CheckVersion
<1>3. CASE ~Outdated(a)
  <2> DEFINE me == [app[a] EXCEPT !.want = 0]
  <2>1. app[a] \in Server /\ Knows(a) /\ db.version \in 0..Target /\ Target \in Nat
    BY TargetIsLast DEF SchemaIInv, SchemaTypeOK
  <2>2. /\ me \in Server /\ me.pc = app[a].pc /\ me.loaded = app[a].loaded /\ me.watches = app[a].watches
        /\ me.unseen = app[a].unseen
    BY <2>1 DEF Server
  <2>3. app' = [app EXCEPT ![a] = me]
    BY <1>3 DEF CheckVersion, SchemaIInv, SchemaTypeOK
  <2>4. app'[a] = me
    BY <2>3 DEF SchemaIInv, SchemaTypeOK
  <2> HIDE DEF me
  <2>5. app[a].want = Latest(repo) => db.version >= Latest(repo)
    BY <1>3, <2>1 DEF Outdated, Server
  <2>6. Knows(a)'
    BY <1>1, <2>1, <2>2, <2>4, <2>5 DEF Knows
  <2>7. QED
    BY <1>1, <2>2, <2>3, <2>6, ServerMoves
<1>4. QED
  BY <1>2, <1>3

LEMMA ChangeStep == ASSUME SchemaIInv, ChangeFile PROVE SchemaIInv'
<1>1. /\ app' = Notified("file") /\ conf' = conf + 1 /\ conf \in Nat /\ app \in [App -> Server]
      /\ UNCHANGED <<repo, db, upgrader, failures>>
  BY DEF ChangeFile, SchemaIInv, SchemaTypeOK
<1>2. \A a \in App : /\ app'[a] \in Server /\ app'[a].pc = app[a].pc
                     /\ app'[a].watches = app[a].watches /\ app'[a].want = app[a].want
                     /\ app[a].unseen \subseteq app'[a].unseen
                     /\ "file" \in app[a].watches => "file" \in app'[a].unseen
  BY <1>1 DEF Notified, Server
<1>3. app' = [a \in App |-> app'[a]]
  BY <1>1 DEF Notified
<1>4. app' \in [App -> Server]
  BY <1>2, <1>3
<1>5. SchemaTypeOK' /\ VersionTells' /\ Apart' /\ \A k \in Job : Follows(k)'
  BY <1>1, <1>4 DEF SchemaIInv, SchemaTypeOK, VersionTells, Apart, Follows
<1>6. ASSUME NEW a \in App PROVE Knows(a)'
  <2>1. Knows(a) /\ app[a].pc \in 0..6
    BY <1>1 DEF SchemaIInv, Server
  <2>2. QED
    BY <1>1, <1>2, <2>1 DEF Knows
<1>7. QED
  BY <1>5, <1>6 DEF SchemaIInv

LEMMA SchemaNextIInv ==
    ASSUME SchemaAssumption, LastMayRepeat, SchemaIInv, [SchemaNext]_schemaVars
    PROVE  SchemaIInv'
<1>1. ASSUME NEW j \in Job, UpgradeStep(j) PROVE SchemaIInv'
  BY <1>1, CopyStep, ReadStep, ApplyStep, CommitStep DEF UpgradeStep
<1>2. ASSUME NEW j \in Job, UpgradeFails(j) PROVE SchemaIInv'
  <2>1. failures' \in Nat
    BY <1>2 DEF UpgradeFails, SchemaIInv, SchemaTypeOK
  <2>2. QED
    BY <1>2, <2>1, StartsAfresh DEF UpgradeFails
<1>3. ASSUME NEW a \in App, AppStep(a) PROVE SchemaIInv'
  <2>1. CASE FileEvent(a)
    BY <2>1, ServerDies DEF FileEvent, SchemaIInv, SchemaTypeOK
  <2>2. QED
    BY <1>3, <2>1, BootStep, SchemaEventStep, CheckStep DEF AppStep
<1>4. ASSUME NEW a \in App, AppFails(a) PROVE SchemaIInv'
  <2>1. failures' \in Nat
    BY <1>4 DEF AppFails, SchemaIInv, SchemaTypeOK
  <2>2. QED
    BY <1>4, <2>1, ServerDies DEF AppFails
<1>5. CASE UNCHANGED schemaVars
  BY <1>5 DEF schemaVars, SchemaIInv, SchemaTypeOK, VersionTells, Apart, Follows, Knows
<1>6. QED
  BY <1>1, <1>2, <1>3, <1>4, <1>5, ChangeStep DEF SchemaNext

LEMMA IInvCurrent == ASSUME SchemaAssumption, SchemaIInv PROVE VersionTells /\ CurrentWhenServing
<1>1. ASSUME NEW a \in App, Serving(a), app[a].unseen = {}, app[a].want = 0
      PROVE  db.version >= Latest(repo) /\ (a \notin LoadsFirst => app[a].loaded = conf)
  <2>1. Knows(a) /\ app[a].pc = 6 /\ db.version \in Nat /\ Latest(repo) \in Nat
    BY <1>1, TargetIsLast, LatestIsVersion DEF SchemaIInv, SchemaTypeOK, Serving
  <2>2. db.version >= Latest(repo)
    BY <1>1, <2>1 DEF Knows
  <2>3. a \notin LoadsFirst => app[a].loaded = conf
    BY <1>1, <2>1 DEF Knows
  <2>4. QED
    BY <2>2, <2>3
<1>2. QED
  BY <1>1 DEF SchemaIInv, CurrentWhenServing

\* The version tells what was applied and is never taken back, and who serves, having
\* heard of all there was to hear, is up to date: for any releases, upgraders and
\* servers, and any failures (Upgrade and Context of the schema repository).
THEOREM SchemaCorrect ==
    ASSUME SchemaAssumption, LastMayRepeat
    PROVE  SchemaSpec => SchemaIsCurrent
<1>1. SchemaInit => SchemaIInv
  BY SchemaInitIInv
<1>2. SchemaIInv /\ [SchemaNext]_schemaVars => SchemaIInv'
  BY SchemaNextIInv
<1>3. SchemaIInv => VersionTells /\ CurrentWhenServing
  BY IInvCurrent
<1>4. SchemaIInv /\ [SchemaNext]_schemaVars => [db'.version >= db.version]_schemaVars
  <2> SUFFICES ASSUME SchemaIInv, SchemaNext PROVE db'.version >= db.version
    OBVIOUS
  <2>1. ASSUME NEW j \in Job, CommitUpgrade(j) PROVE db'.version >= db.version
    BY <2>1, CommitIsForward DEF Committed
  <2>2. CASE db' = db
    BY <2>2 DEF SchemaIInv, SchemaTypeOK
  <2>3. (\E j \in Job : CommitUpgrade(j)) \/ db' = db
    BY DEF SchemaNext, UpgradeStep, Copy, ReadVersion, Apply, UpgradeFails, AppStep, Boot, FileEvent,
           SchemaEvent, CheckVersion, AppFails, ChangeFile
  <2>4. QED
    BY <2>1, <2>2, <2>3
<1>5. QED
  BY <1>1, <1>2, <1>3, <1>4, PTL DEF SchemaSpec, SchemaIsCurrent, NeverBack

=============================================================================
