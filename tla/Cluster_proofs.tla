--------------------------- MODULE Cluster_proofs ---------------------------
(***************************************************************************)
(* Proofs about what is asked of Kubernetes: no volume leaks and none goes *)
(* too early; what a promise of an object tells is so; the volume expander *)
(* knows the writers of claims, and does not ask without end; workers are  *)
(* placed as asked, and what is told of their Jobs is so.                  *)
(***************************************************************************)
EXTENDS Provisioning, ClusterPromise, VolumeExpander, Workers, Induction, FiniteSetTheorems,
        SequenceTheorems, TLAPS

(* Volumes *)

\* Attempts share no volume, and none with what is garbage.
Apart ==
    /\ \A r, s \in Run : r # s => outs[r] \cap outs[s] = {}
    /\ \A r \in Run : outs[r] \cap garbage = {}
    /\ \A r \in Run : status[r] = "none" => outs[r] = {}

\* The initialize loop asks for volumes of the run that it has locked only.
InitKnows ==
    init.at # "idle" => /\ init.run \in Run /\ status[init.run] = "waiting"
                        /\ init.todo \subseteq outs[init.run]

\* Each collector has garbage of its own, and commits when it is gone.
GcKnows ==
    /\ \A g \in Collector : gc[g].at # "idle" => gc[g].vol \in garbage
    /\ \A g \in Collector : gc[g].at = "idle" => gc[g].vol = Nobody
    /\ \A g, h \in Collector : g # h /\ gc[g].at # "idle" => gc[g].vol # gc[h].vol
    /\ \A g \in Collector : gc[g].at = "commit" => vol[gc[g].vol] = "none"

\* What is on its way out is garbage.
Doomed == \A v \in Vol : vol[v] = "deleting" => v \in garbage

IInv == TypeOK /\ Apart /\ InitKnows /\ GcKnows /\ Doomed /\ NothingLeaks

LEMMA InitIInv == Init => IInv
<1>1. SUFFICES ASSUME Init PROVE IInv
  OBVIOUS
<1>2. /\ outs = [r \in Run |-> {}] /\ named = {} /\ garbage = {} /\ vol = [v \in Vol |-> "none"]
      /\ init = Idle /\ gc = [g \in Collector |-> NoGarbage] /\ status = [r \in Run |-> "none"]
  BY <1>1 DEF Init
<1>3. TypeOK
  <2>1. faults \in 0..MaxFaults
    BY <1>1, ProvisioningAssumption DEF Init
  <2>2. QED
    BY <1>2, <2>1 DEF TypeOK, Idle, NoGarbage
<1>4. Apart /\ InitKnows /\ GcKnows /\ Doomed /\ NothingLeaks
  BY <1>2 DEF Apart, InitKnows, GcKnows, Doomed, NothingLeaks, Idle, NoGarbage
<1>5. QED
  BY <1>3, <1>4 DEF IInv

-----------------------------------------------------------------------------
(* The actions, one by one *)

LEMMA NewStep == ASSUME IInv, NEW r \in Run, New(r) PROVE IInv'
<1>1. PICK new \in SUBSET (Vol \ named) :
          outs' = [outs EXCEPT ![r] = new] /\ named' = named \cup new
  BY DEF New, NewOutputs
<1>2. /\ status[r] = "none" /\ status' = [status EXCEPT ![r] = "waiting"]
      /\ UNCHANGED <<garbage, vol, init, gc, faults>>
  BY DEF New
<1>3. TypeOK'
  BY <1>1, <1>2 DEF IInv, TypeOK
<1>4. Apart'
  BY <1>1, <1>2 DEF IInv, TypeOK, Apart
<1>5. InitKnows'
  BY <1>1, <1>2 DEF IInv, TypeOK, InitKnows
<1>6. GcKnows' /\ Doomed'
  BY <1>2 DEF IInv, GcKnows, Doomed
<1>7. NothingLeaks'
  <2>1. outs[r] = {}
    BY <1>2 DEF IInv, Apart
  <2>2. QED
    BY <1>1, <1>2, <2>1 DEF IInv, TypeOK, NothingLeaks
<1>8. QED
  BY <1>3, <1>4, <1>5, <1>6, <1>7 DEF IInv

LEMMA RetryStep == ASSUME IInv, NEW r \in Run, Retry(r) PROVE IInv'
<1>1. PICK new \in SUBSET (Vol \ named) :
          outs' = [outs EXCEPT ![r] = new] /\ named' = named \cup new
  BY DEF Retry, NewOutputs
<1>2. /\ status[r] = "finished" /\ status' = [status EXCEPT ![r] = "waiting"]
      /\ garbage' = garbage \cup outs[r]
      /\ UNCHANGED <<vol, init, gc, faults>>
  BY DEF Retry, Retire
<1>3. TypeOK'
  BY <1>1, <1>2 DEF IInv, TypeOK
<1>4. Apart'
  BY <1>1, <1>2 DEF IInv, TypeOK, Apart
<1>5. InitKnows'
  BY <1>1, <1>2 DEF IInv, TypeOK, InitKnows
<1>6. GcKnows' /\ Doomed'
  BY <1>2 DEF IInv, GcKnows, Doomed
<1>7. NothingLeaks'
  BY <1>1, <1>2 DEF IInv, TypeOK, NothingLeaks
<1>8. QED
  BY <1>3, <1>4, <1>5, <1>6, <1>7 DEF IInv

LEMMA DeleteStep == ASSUME IInv, NEW r \in Run, Delete(r) PROVE IInv'
<1>1. /\ status[r] = "finished" /\ status' = [status EXCEPT ![r] = "gone"]
      /\ garbage' = garbage \cup outs[r] /\ outs' = [outs EXCEPT ![r] = {}]
      /\ UNCHANGED <<named, vol, init, gc, faults>>
  BY DEF Delete, Retire
<1>2. TypeOK'
  BY <1>1 DEF IInv, TypeOK
<1>3. Apart'
  BY <1>1 DEF IInv, TypeOK, Apart
<1>4. InitKnows' /\ GcKnows' /\ Doomed'
  BY <1>1 DEF IInv, TypeOK, InitKnows, GcKnows, Doomed
<1>5. NothingLeaks'
  BY <1>1 DEF IInv, TypeOK, NothingLeaks
<1>6. QED
  BY <1>2, <1>3, <1>4, <1>5 DEF IInv

LEMMA FinishStep == ASSUME IInv, NEW r \in Run, Finish(r) PROVE IInv'
<1>1. /\ ~ (init.at # "idle" /\ init.run = r) /\ status' = [status EXCEPT ![r] = "finished"]
      /\ UNCHANGED <<outs, named, garbage, vol, init, gc, faults>>
  BY DEF Finish, Locked
<1>2. TypeOK' /\ InitKnows'
  BY <1>1 DEF IInv, TypeOK, InitKnows
<1>3. Apart'
  BY <1>1 DEF IInv, TypeOK, Apart
<1>4. GcKnows' /\ Doomed' /\ NothingLeaks'
  BY <1>1 DEF IInv, GcKnows, Doomed, NothingLeaks
<1>5. QED
  BY <1>2, <1>3, <1>4 DEF IInv

LEMMA PickStep == ASSUME IInv, NEW r \in Run, Pick(r) PROVE IInv'
<1>1. /\ status[r] = "waiting" /\ UNCHANGED <<status, outs, named, garbage, vol, gc, faults>>
      /\ init' = [Idle EXCEPT !.at = "create", !.run = r, !.todo = outs[r], !.wait = outs[r]]
  BY DEF Pick, db
<1>2. /\ init'.at = "create" /\ init'.run = r /\ init'.todo = outs[r] /\ init'.wait = outs[r]
      /\ init'.prom = Idle.prom /\ DOMAIN init' = DOMAIN Idle
  BY <1>1 DEF Idle
<1>3. TypeOK'
  BY <1>1 DEF IInv, TypeOK, Idle
<1>4. InitKnows'
  BY <1>1, <1>2 DEF IInv, InitKnows
<1>5. Apart' /\ GcKnows' /\ Doomed' /\ NothingLeaks'
  BY <1>1 DEF IInv, Apart, GcKnows, Doomed, NothingLeaks
<1>6. QED
  BY <1>3, <1>4, <1>5 DEF IInv

\* A step of the initialize loop keeps the run it has, or gives it up.
LEMMA Holding ==
    ASSUME IInv, TypeOK', outs' = outs, named' = named, garbage' = garbage, gc' = gc,
           \A r \in Run : status'[r] = "none" => status[r] = "none",
           \/ init' = Idle
           \/ /\ init.at # "idle" /\ init'.run = init.run
              /\ init'.todo \subseteq init.todo /\ status' = status,
           \A v \in Vol :
               \/ vol'[v] = vol[v]
               \/ vol[v] = "none" /\ vol'[v] = "pending" /\ init.at # "idle" /\ v \in init.todo
    PROVE  IInv'
<1>1. Apart'
  BY DEF IInv, Apart
<1>2. InitKnows'
  BY DEF IInv, InitKnows, Idle
<1>3. \A v \in Vol :
          \/ vol'[v] = vol[v]
          \/ /\ vol[v] = "none" /\ vol'[v] = "pending"
             /\ v \notin garbage /\ \E r \in Run : v \in outs[r]
  BY DEF IInv, InitKnows, Apart
<1>4. GcKnows'
  BY <1>3 DEF IInv, TypeOK, GcKnows
<1>5. Doomed' /\ NothingLeaks'
  BY <1>3 DEF IInv, Doomed, NothingLeaks
<1>6. QED
  BY <1>1, <1>2, <1>4, <1>5 DEF IInv

LEMMA AskedHolds ==
    ASSUME IInv, NEW v \in Vol, init.at = "create", v \in init.todo,
           NEW outcome \in {"polling", "conflict", "failed"}, Asked(v, outcome)
    PROVE  /\ init' \in [at : {"idle", "create", "await"}, run : Run \cup {Nobody},
                         todo : SUBSET Vol, wait : SUBSET Vol,
                         prom : [Vol -> {"none", "polling", "ok", "conflict", "failed"}]]
           /\ init'.run = init.run /\ init'.todo \subseteq init.todo
<1>1. [init.prom EXCEPT ![v] = outcome] \in [Vol -> {"none", "polling", "ok", "conflict", "failed"}]
  BY DEF IInv, TypeOK
<1>2. init' = [init EXCEPT !.todo = init.todo \ {v}, !.prom = [init.prom EXCEPT ![v] = outcome],
                           !.at = IF init.todo = {v} THEN "await" ELSE init.at]
  BY DEF Asked, IInv, TypeOK
<1>3. QED
  BY <1>1, <1>2 DEF IInv, TypeOK

LEMMA CreateStep ==
    ASSUME IInv, NEW v \in Vol, NewPVC(v) \/ NewPVCFails(v) PROVE IInv'
<1>1. /\ init.at = "create" /\ v \in init.todo
      /\ status' = status /\ outs' = outs /\ named' = named /\ garbage' = garbage /\ gc' = gc
  BY DEF NewPVC, NewPVCFails, db
<1>2. PICK outcome \in {"polling", "conflict", "failed"} : Asked(v, outcome)
  BY DEF NewPVC, NewPVCFails
<1>3. vol' = vol \/ (vol[v] = "none" /\ vol' = [vol EXCEPT ![v] = "pending"])
  <2>1. CASE NewPVC(v)
    BY <2>1 DEF NewPVC
  <2>2. CASE NewPVCFails(v)
    BY <2>2 DEF NewPVCFails
  <2>3. QED
    BY <2>1, <2>2
<1>4. faults' \in 0..MaxFaults
  BY ProvisioningAssumption DEF NewPVC, NewPVCFails, Fault, IInv, TypeOK
<1>5. /\ init' \in [at : {"idle", "create", "await"}, run : Run \cup {Nobody},
                    todo : SUBSET Vol, wait : SUBSET Vol,
                    prom : [Vol -> {"none", "polling", "ok", "conflict", "failed"}]]
      /\ init'.run = init.run /\ init'.todo \subseteq init.todo
  BY <1>1, <1>2, AskedHolds
<1>6. TypeOK'
  BY <1>1, <1>3, <1>4, <1>5 DEF IInv, TypeOK
<1>7. \A w \in Vol :
          \/ vol'[w] = vol[w]
          \/ vol[w] = "none" /\ vol'[w] = "pending" /\ init.at # "idle" /\ w \in init.todo
  BY <1>1, <1>3 DEF IInv, TypeOK
<1>8. QED
  BY <1>1, <1>5, <1>6, <1>7, Holding

LEMMA GetStep == ASSUME IInv, NEW v \in Vol, GetPVC(v) PROVE IInv'
<1>1. PICK outcome \in {"ok", "failed"} : init' = [init EXCEPT !.prom[v] = outcome]
  BY DEF GetPVC
<1>2. /\ init.at = "await" /\ vol' = vol
      /\ status' = status /\ outs' = outs /\ named' = named /\ garbage' = garbage /\ gc' = gc
  BY DEF GetPVC, db
<1>3. init' = [init EXCEPT !.prom = [init.prom EXCEPT ![v] = outcome]]
  BY <1>1 DEF IInv, TypeOK
<1>4. [init.prom EXCEPT ![v] = outcome] \in [Vol -> {"none", "polling", "ok", "conflict", "failed"}]
  BY DEF IInv, TypeOK
<1>5. faults' \in 0..MaxFaults
  BY ProvisioningAssumption DEF GetPVC, Fault, IInv, TypeOK
<1>6. TypeOK' /\ init'.run = init.run /\ init'.todo = init.todo
  BY <1>2, <1>3, <1>4, <1>5 DEF IInv, TypeOK
<1>7. QED
  BY <1>2, <1>6, Holding

LEMMA AwaitStep == ASSUME IInv, NEW v \in Vol, Await(v) PROVE IInv'
<1>1. /\ init.at = "await" /\ vol' = vol /\ faults' = faults
      /\ outs' = outs /\ named' = named /\ garbage' = garbage /\ gc' = gc
  BY DEF Await
<1>2. CASE init' = [init EXCEPT !.wait = @ \ {v}] /\ UNCHANGED status
  <2>1. TypeOK' /\ init'.run = init.run /\ init'.todo = init.todo
    BY <1>1, <1>2 DEF IInv, TypeOK
  <2>2. QED
    BY <1>1, <1>2, <2>1, Holding
<1>3. CASE init' = Idle
  <2>1. /\ status' \in [Run -> {"none", "waiting", "ready", "finished", "gone"}]
        /\ \A r \in Run : status'[r] = "none" => status[r] = "none"
    BY DEF Await, IInv, TypeOK
  <2>2. TypeOK'
    BY <1>1, <1>3, <2>1 DEF IInv, TypeOK, Idle
  <2>3. QED
    BY <1>1, <1>3, <2>1, <2>2, Holding
<1>4. QED
  BY <1>2, <1>3 DEF Await

LEMMA TimeoutStep == ASSUME IInv, InitTimeout PROVE IInv'
<1>1. /\ init' = Idle /\ vol' = vol
      /\ status' = status /\ outs' = outs /\ named' = named /\ garbage' = garbage /\ gc' = gc
  BY DEF InitTimeout, db
<1>2. faults' \in 0..MaxFaults
  BY ProvisioningAssumption DEF InitTimeout, Fault, IInv, TypeOK
<1>3. TypeOK'
  BY <1>1, <1>2 DEF IInv, TypeOK, Idle
<1>4. QED
  BY <1>1, <1>3, Holding

LEMMA CollectStep == ASSUME IInv, NEW g \in Collector, Collect(g) PROVE IInv'
<1> USE DEF IInv, TypeOK
<1>1. ASSUME NEW v \in Vol, Pop(g, v) PROVE IInv'
  <2>1. /\ gc[g].at = "idle" /\ v \in garbage /\ \A h \in Collector : gc[h].vol # v
        /\ gc' = [gc EXCEPT ![g] = [at |-> "delete", vol |-> v]]
        /\ UNCHANGED <<status, outs, named, garbage, vol, init, faults>>
    BY <1>1 DEF Pop, db
  <2>2. TypeOK'
    BY <2>1
  <2>3. GcKnows'
    BY <2>1 DEF GcKnows
  <2>4. QED
    BY <2>1, <2>2, <2>3 DEF Apart, InitKnows, Doomed, NothingLeaks
<1>2. CASE DeletePVC(g)
  <2>1. gc[g].at = "delete" /\ gc[g].vol \in garbage /\ UNCHANGED <<status, outs, named, garbage, init, faults>>
    BY <1>2 DEF DeletePVC, GcKnows, db
  <2>2. CASE vol[gc[g].vol] = "none"
    <3>1. gc' = [gc EXCEPT ![g] = [gc[g] EXCEPT !.at = "commit"]] /\ UNCHANGED vol
      BY <1>2, <2>2 DEF DeletePVC, Missing
    <3>2. TypeOK' /\ GcKnows'
      BY <2>1, <2>2, <3>1 DEF GcKnows
    <3>3. QED
      BY <2>1, <3>1, <3>2 DEF Apart, InitKnows, Doomed, NothingLeaks
  <2>3. CASE vol[gc[g].vol] # "none"
    <3>1. /\ gc' = [gc EXCEPT ![g] = [gc[g] EXCEPT !.at = "poll"]]
          /\ vol' = [vol EXCEPT ![gc[g].vol] = "deleting"]
      BY <1>2, <2>3 DEF DeletePVC
    <3>2. TypeOK' /\ GcKnows'
      BY <2>1, <2>3, <3>1 DEF GcKnows
    <3>3. Doomed' /\ NothingLeaks'
      BY <2>1, <3>1 DEF Doomed, NothingLeaks
    <3>4. QED
      BY <2>1, <3>2, <3>3 DEF Apart, InitKnows
  <2>4. QED
    BY <2>2, <2>3
<1>3. CASE PollGone(g)
  <2>1. /\ gc[g].at = "poll" /\ vol[gc[g].vol] = "none"
        /\ gc' = [gc EXCEPT ![g] = [gc[g] EXCEPT !.at = "commit"]]
        /\ UNCHANGED <<status, outs, named, garbage, vol, init, faults>>
    BY <1>3 DEF PollGone, Deleted, db
  <2>2. TypeOK' /\ GcKnows'
    BY <2>1 DEF GcKnows
  <2>3. QED
    BY <2>1, <2>2 DEF Apart, InitKnows, Doomed, NothingLeaks
<1>4. CASE CommitGarbage(g)
  <2>1. /\ gc[g].at = "commit" /\ gc' = [gc EXCEPT ![g] = NoGarbage]
        /\ garbage' = garbage \ {gc[g].vol} /\ vol[gc[g].vol] = "none"
        /\ UNCHANGED <<status, outs, named, vol, init, faults>>
    BY <1>4 DEF CommitGarbage, GcKnows
  <2>2. TypeOK'
    BY <2>1 DEF NoGarbage
  <2>3. GcKnows'
    BY <2>1, ProvisioningAssumption DEF GcKnows, NoGarbage
  <2>4. Apart' /\ InitKnows' /\ Doomed' /\ NothingLeaks'
    BY <2>1 DEF Apart, InitKnows, Doomed, NothingLeaks
  <2>5. QED
    BY <2>2, <2>3, <2>4
<1>5. CASE GcFails(g)
  <2>1. gc' = [gc EXCEPT ![g] = NoGarbage] /\ UNCHANGED <<status, outs, named, garbage, vol, init>>
    BY <1>5 DEF GcFails, db
  <2>2. faults' \in 0..MaxFaults
    BY <1>5, ProvisioningAssumption DEF GcFails, Fault
  <2>3. TypeOK'
    BY <2>1, <2>2 DEF NoGarbage
  <2>4. GcKnows'
    BY <2>1, ProvisioningAssumption DEF GcKnows, NoGarbage
  <2>5. QED
    BY <2>1, <2>3, <2>4 DEF Apart, InitKnows, Doomed, NothingLeaks
<1>6. QED
  BY <1>1, <1>2, <1>3, <1>4, <1>5 DEF Collect

LEMMA ClusterStep == ASSUME IInv, NEW v \in Vol, Bind(v) \/ Vanish(v) PROVE IInv'
<1>1. /\ \/ vol[v] = "pending" /\ vol' = [vol EXCEPT ![v] = "bound"]
         \/ vol[v] = "deleting" /\ vol' = [vol EXCEPT ![v] = "none"]
      /\ UNCHANGED <<status, outs, named, garbage, init, gc, faults>>
  BY DEF Bind, Vanish, db
<1>2. TypeOK'
  BY <1>1 DEF IInv, TypeOK
<1>3. GcKnows'
  BY <1>1 DEF IInv, TypeOK, GcKnows
<1>4. Apart' /\ InitKnows' /\ Doomed' /\ NothingLeaks'
  BY <1>1 DEF IInv, TypeOK, Apart, InitKnows, Doomed, NothingLeaks
<1>5. QED
  BY <1>2, <1>3, <1>4 DEF IInv

LEMMA Invariance == Spec => []IInv
<1>1. ASSUME IInv, [Next]_vars PROVE IInv'
  <2>1. CASE UNCHANGED vars
    BY <1>1, <2>1 DEF vars, db, IInv, TypeOK, Apart, InitKnows, GcKnows, Doomed, NothingLeaks
  <2>2. CASE Next
    BY <1>1, <2>2, NewStep, RetryStep, DeleteStep, FinishStep, PickStep, CreateStep, GetStep,
       AwaitStep, TimeoutStep, CollectStep, ClusterStep DEF Next, Initialize
  <2>3. QED
    BY <1>1, <2>1, <2>2
<1>2. QED
  BY <1>1, InitIInv, PTL DEF Spec

\* The variables of Provisioning have their types in every reachable state.
THEOREM TypeCorrect == Spec => []TypeOK
<1>1. IInv => TypeOK
  BY DEF IInv
<1>2. QED
  BY <1>1, Invariance, PTL

\* Volumes of runs that are there are neither garbage nor being deleted
\* (Retry, delete, Pop, DestroyGarbage).
THEOREM VolumesAreSafe == Spec => []VolumesStay
<1>1. IInv => VolumesStay
  BY DEF IInv, TypeOK, Apart, Doomed, VolumesStay
<1>2. QED
  BY <1>1, Invariance, PTL

\* Every volume in the cluster is known to the database (Initialize, Pop).
THEOREM NoVolumeLeaks == Spec => []NothingLeaks
<1>1. IInv => NothingLeaks
  BY DEF IInv
<1>2. QED
  BY <1>1, Invariance, PTL

-----------------------------------------------------------------------------
(* Promises of objects *)

\* A pod that was seen past its checkpoint has met it for good.
Checked ==
    /\ call.kind = "pod" /\ call.saw \cap Pended # {} => call.met
    /\ call.err = "deadline" => call.at # "poll" /\ call.saw \cap Pended = {}

\* What another made is not handed out to who asked for a new object.
Owned == obj.by = "other" /\ call.verb # "get" => call.value = "none" /\ call.at # "poll"

PromiseIInv == PromiseTypeOK /\ Checked /\ Owned

LEMMA SatisfyAllIs ==
    ASSUME NEW kind \in Kinds \cup {"-"}, NEW met \in BOOLEAN, NEW stage \in Stage
    PROVE  /\ SatisfyAll(kind, met, stage) \in {"none", "deadline", "failed", Again}
           /\ SatisfyAll(kind, met, stage) = "deadline" => kind = "pod" /\ ~met
           /\ Met(kind, met, stage) \in BOOLEAN /\ (met => Met(kind, met, stage))
           /\ kind = "pod" /\ SatisfyAll(kind, met, stage) = Again /\ stage \in Pended => Met(kind, met, stage)
BY DEF SatisfyAll, WithCheckpoint, Met, Again

LEMMA NewObjectStep ==
    ASSUME ClusterPromiseAssumption, PromiseIInv, NEW k \in Kinds, NewObject(k) PROVE PromiseIInv'
<1> DEFINE c == [NoCall EXCEPT !.kind = k, !.verb = "new"]
<1>1. c \in [at : {"idle"}, kind : {k}, verb : {"new"}, value : {"none"}, err : {"none"}, met : {FALSE}, saw : {{}}]
  <2>1. NoCall \in [at : {"idle"}, kind : {"-"}, verb : {"-"}, value : {"none"}, err : {"none"}, met : {FALSE}, saw : {{}}]
    BY DEF NoCall
  <2> QED
    BY <2>1
<1> HIDE DEF c
<1>2. done' = done /\ late' = late /\ lost' \in 0..MaxLost
  BY DEF NewObject, Loss, PromiseIInv, PromiseTypeOK, ClusterPromiseAssumption
<1>3. ASSUME NEW v \in {"none", "open", "stuck"},
             NEW e \in {"none", "context", "conflict", "request", "failed"}, Over(c, v, e),
             v = "none" \/ obj'.by # "other", obj' \in [by : {"none", "us", "other"}, stage : Stage]
      PROVE  PromiseIInv'
  <2>1. call' \in [at : {"over"}, kind : {k}, verb : {"new"}, value : {v}, err : {e}, met : {FALSE}, saw : {{}}]
    BY <1>1, <1>3 DEF Over
  <2> QED
    BY <1>2, <1>3, <2>1 DEF PromiseIInv, PromiseTypeOK, Checked, Owned
<1>4. obj \in [by : {"none", "us", "other"}, stage : Stage]
  BY DEF PromiseIInv, PromiseTypeOK
<1>5. CASE done /\ Over(c, "none", "context") /\ UNCHANGED <<obj, lost>>
  BY <1>3, <1>4, <1>5
<1>6. CASE ~done /\ obj.by # "none" /\ Exists(c) /\ UNCHANGED <<obj, lost>>
  BY <1>3, <1>4, <1>6 DEF Exists
<1>7. ASSUME NEW s \in {"new", "ready"}, obj' = [by |-> "us", stage |-> s], Created(c, s) PROVE PromiseIInv'
  <2>1. s \in Stage /\ k \in Kinds \cup {"-"}
    BY DEF Stage
  <2>2. /\ SatisfyAll(k, FALSE, s) \in {"none", "deadline", "failed", Again}
        /\ SatisfyAll(k, FALSE, s) = "deadline" => k = "pod"
    BY <2>1, SatisfyAllIs
  <2>3. CASE call' = [c EXCEPT !.at = "poll"]
    <3>1. call' \in [at : {"poll"}, kind : {k}, verb : {"new"}, value : {"none"}, err : {"none"}, met : {FALSE}, saw : {{}}]
      BY <1>1, <2>3
    <3> QED
      BY <1>2, <1>7, <2>1, <3>1 DEF PromiseIInv, PromiseTypeOK, Checked, Owned
  <2>4. CASE call' # [c EXCEPT !.at = "poll"]
    <3>1. PICK v \in {"open", "stuck"} : Over(c, v, SatisfyAll(k, FALSE, s)) /\ k # "pod" /\ SatisfyAll(k, FALSE, s) # Again
      BY <1>1, <1>7, <2>4 DEF Created
    <3> QED
      BY <1>3, <1>7, <2>1, <2>2, <3>1
  <2> QED
    BY <2>3, <2>4
<1>8. CASE /\ ~done /\ Loss /\ Over(c, "none", "request")
           /\ obj' = obj \/ (obj.by = "none" /\ obj' = [by |-> "us", stage |-> "new"])
  BY <1>3, <1>4, <1>8 DEF Stage
<1> QED
  BY <1>5, <1>6, <1>7, <1>8 DEF NewObject, c

LEMMA PollStep == ASSUME ClusterPromiseAssumption, PromiseIInv, Poll \/ PollFails PROVE PromiseIInv'
<1>1. /\ call.at = "poll" /\ obj' = obj /\ done' = done /\ late' = late /\ lost' \in 0..MaxLost
  BY DEF Poll, PollFails, Loss, PromiseIInv, PromiseTypeOK, ClusterPromiseAssumption
<1>2. obj.by = "other" => call.verb = "get"
  BY <1>1 DEF PromiseIInv, Owned
<1>3. ASSUME NEW v \in {"none", "open", "stuck"}, NEW w \in BOOLEAN,
             NEW e \in {"none", "context", "missing", "request", "deadline", "failed"},
             call' = [call EXCEPT !.at = "over", !.value = v, !.err = e, !.met = w],
             call.met => w, e = "deadline" => call.kind = "pod" /\ ~call.met
      PROVE  PromiseIInv'
  <2>1. PromiseTypeOK'
    BY <1>1, <1>3 DEF PromiseIInv, PromiseTypeOK
  <2>2. call'.kind = call.kind /\ call'.saw = call.saw /\ call'.met = w /\ call'.verb = call.verb /\ call'.err = e
    BY <1>3 DEF PromiseIInv, PromiseTypeOK
  <2>3. Checked' /\ Owned'
    BY <1>1, <1>2, <1>3, <2>2 DEF PromiseIInv, Checked, Owned
  <2> QED
    BY <2>1, <2>3 DEF PromiseIInv
<1>4. call = [call EXCEPT !.met = call.met] /\ call.met \in BOOLEAN /\ call.value \in {"none", "open", "stuck"}
  BY DEF PromiseIInv, PromiseTypeOK
<1>5. ASSUME NEW v \in {"none", "open", "stuck"}, NEW e \in {"context", "missing", "request"}, Over(call, v, e)
      PROVE  PromiseIInv'
  <2>1. call' = [call EXCEPT !.at = "over", !.value = v, !.err = e, !.met = call.met]
    BY <1>4, <1>5 DEF Over, PromiseIInv, PromiseTypeOK
  <2> QED
    BY <1>3, <1>4, <2>1
<1>6. ASSUME NEW c, c = [call EXCEPT !.value = "open", !.met = Met(call.kind, @, obj.stage)],
             LET err == SatisfyAll(call.kind, call.met, obj.stage)
             IN  IF err = Again THEN call' = [c EXCEPT !.saw = @ \cup {obj.stage}] ELSE Over(c, "open", err)
      PROVE  PromiseIInv'
  <2> DEFINE err == SatisfyAll(call.kind, call.met, obj.stage)
             w == Met(call.kind, call.met, obj.stage)
  <2>1. call.kind \in Kinds \cup {"-"} /\ obj.stage \in Stage
    BY DEF PromiseIInv, PromiseTypeOK
  <2>2. /\ err \in {"none", "deadline", "failed", Again} /\ (err = "deadline" => call.kind = "pod" /\ ~call.met)
        /\ w \in BOOLEAN /\ (call.met => w) /\ (call.kind = "pod" /\ err = Again /\ obj.stage \in Pended => w)
    BY <1>4, <2>1, SatisfyAllIs
  <2>3. CASE err = Again
    <3>1. call' = [call EXCEPT !.value = "open", !.met = w, !.saw = @ \cup {obj.stage}]
      BY <1>6, <2>3 DEF PromiseIInv, PromiseTypeOK
    <3>2. PromiseTypeOK'
      BY <1>1, <2>1, <2>2, <3>1 DEF PromiseIInv, PromiseTypeOK
    <3>3. /\ call'.kind = call.kind /\ call'.saw = call.saw \cup {obj.stage} /\ call'.met = w
          /\ call'.verb = call.verb /\ call'.err = call.err
      BY <3>1 DEF PromiseIInv, PromiseTypeOK
    <3> QED
      BY <1>1, <1>2, <2>2, <2>3, <3>2, <3>3 DEF PromiseIInv, Checked, Owned
  <2>4. CASE err # Again
    <3>1. call' = [call EXCEPT !.at = "over", !.value = "open", !.err = err, !.met = w]
      BY <1>6, <2>4 DEF Over, PromiseIInv, PromiseTypeOK
    <3> QED
      BY <1>3, <2>2, <2>4, <3>1
  <2> QED
    BY <2>3, <2>4
<1>7. CASE Backoff /\ \E v \in {call.value, "open"} : Over(call, v, "context") /\ UNCHANGED lost
  BY <1>4, <1>5, <1>7
<1>8. CASE Over(call, "open", Absent)
  BY <1>5, <1>8 DEF Absent
<1>9. CASE PollFails
  BY <1>5, <1>9 DEF PollFails
<1> QED
  BY <1>6, <1>7, <1>8, <1>9 DEF Poll

LEMMA CloseStep == ASSUME PromiseIInv, Close PROVE PromiseIInv'
<1>1. /\ call.at = "over" /\ call.value # "none" /\ UNCHANGED <<done, late, lost>>
  BY DEF Close
<1>2. ASSUME NEW a \in {"panicked", "closed"}, call' = [call EXCEPT !.at = a], obj' \in {obj, Nothing}
      PROVE  PromiseIInv'
  <2>1. PromiseTypeOK'
    BY <1>1, <1>2 DEF PromiseIInv, PromiseTypeOK, Nothing, Stage
  <2>2. call'.kind = call.kind /\ call'.saw = call.saw /\ call'.met = call.met /\ call'.verb = call.verb
        /\ call'.err = call.err /\ call'.at # "poll" /\ call'.value = call.value
    BY <1>2 DEF PromiseIInv, PromiseTypeOK
  <2>3. Checked' /\ Owned'
    BY <1>1, <1>2, <2>2 DEF PromiseIInv, Checked, Owned, Nothing
  <2> QED
    BY <2>1, <2>3 DEF PromiseIInv
<1> QED
  BY <1>2 DEF Close

LEMMA PromiseInvariance ==
    ASSUME ClusterPromiseAssumption, PromiseIInv, [PromiseNext]_promiseVars PROVE PromiseIInv'
<1>1. ASSUME NEW k \in Kinds, GetObject(k) PROVE PromiseIInv'
  <2>1. NoCall \in [at : {"idle"}, kind : {"-"}, verb : {"-"}, value : {"none"}, err : {"none"}, met : {FALSE}, saw : {{}}]
    BY DEF NoCall
  <2>2. call' \in [at : {"poll"}, kind : {k}, verb : {"get"}, value : {"none"}, err : {"none"}, met : {FALSE}, saw : {{}}]
    BY <1>1, <2>1 DEF GetObject
  <2> QED
    BY <1>1, <2>2 DEF GetObject, PromiseIInv, PromiseTypeOK, Checked, Owned
<1>2. CASE Move
  <2>1. obj'.by = obj.by /\ obj' \in [by : {"none", "us", "other"}, stage : Stage]
    BY <1>2 DEF Move, PromiseIInv, PromiseTypeOK, Stage
  <2> QED
    BY <1>2, <2>1 DEF Move, PromiseIInv, PromiseTypeOK, Checked, Owned
<1>3. CASE ObjectVanishes
  BY <1>3 DEF ObjectVanishes, Loss, Nothing, Stage, PromiseIInv, PromiseTypeOK, Checked, Owned, ClusterPromiseAssumption
<1>4. CASE CtxEnds \/ DeadlinePasses \/ UNCHANGED promiseVars
  <2>1. obj' = obj /\ call' = call /\ lost' = lost
    BY <1>4 DEF CtxEnds, DeadlinePasses, promiseVars
  <2>2. done' \in BOOLEAN /\ late' \in BOOLEAN
    BY <1>4, Zenon DEF CtxEnds, DeadlinePasses, promiseVars, PromiseIInv, PromiseTypeOK
  <2>3. PromiseTypeOK'
    BY <2>1, <2>2 DEF PromiseIInv, PromiseTypeOK
  <2> QED
    BY <2>1, <2>3 DEF PromiseIInv, Checked, Owned
<1> QED
  BY <1>1, <1>2, <1>3, <1>4, NewObjectStep, PollStep, CloseStep DEF PromiseNext

LEMMA InitPromise == ASSUME ClusterPromiseAssumption, PromiseInit PROVE PromiseIInv
<1>1. call \in [at : {"idle"}, kind : {"-"}, verb : {"-"}, value : {"none"}, err : {"none"}, met : {FALSE}, saw : {{}}]
  BY DEF PromiseInit, NoCall
<1>2. obj \in [by : {"none", "us", "other"}, stage : Stage]
  BY DEF PromiseInit, Nothing, Stage
<1>3. done \in BOOLEAN /\ late \in BOOLEAN
  BY Zenon DEF PromiseInit
<1>4. lost \in 0..MaxLost
  BY DEF ClusterPromiseAssumption, PromiseInit
<1>5. PromiseTypeOK
  BY <1>1, <1>2, <1>3, <1>4 DEF PromiseTypeOK
<1> QED
  BY <1>1, <1>5 DEF PromiseIInv, Checked, Owned

\* Whatever is asked for, refused, lost or made by others, and however often: a
\* pod that was seen past its checkpoint is not given up for its deadline, and
\* whoever asked for a new object deletes nobody else's by closing what the
\* promise carries (retry.Blocking and the New* of the cluster).
THEOREM PromisesCorrect == ASSUME ClusterPromiseAssumption PROVE PromiseSpec => PromisesAreHonest
<1>1. PromiseInit => PromiseIInv
  BY InitPromise
<1>2. PromiseIInv /\ [PromiseNext]_promiseVars => PromiseIInv'
  BY PromiseInvariance
<1>3. PromiseIInv => PromiseTypeOK /\ DeadlineIsForUnmet
  BY DEF PromiseIInv, Checked, DeadlineIsForUnmet
<1>4. PromiseIInv /\ [PromiseNext]_promiseVars =>
          [obj.by = "other" /\ obj' = Nothing => call.verb = "get" \/ UNCHANGED call]_promiseVars
  <2> SUFFICES ASSUME PromiseIInv, PromiseNext, obj.by = "other", obj' = Nothing, call.verb # "get"
               PROVE  UNCHANGED call
    BY DEF promiseVars
  <2>1. obj' # obj /\ call.value = "none" /\ call.at # "poll"
    BY DEF PromiseIInv, Owned, Nothing
  <2>2. ~Close /\ ~Poll /\ ~PollFails
    BY <2>1 DEF Close, Poll, PollFails
  <2>3. \A k \in Kinds : ~GetObject(k) /\ ~NewObject(k)
    BY <2>1 DEF GetObject, NewObject
  <2>4. ~CtxEnds /\ ~DeadlinePasses
    BY <2>1 DEF CtxEnds, DeadlinePasses
  <2> QED
    BY <2>2, <2>3, <2>4 DEF PromiseNext, Move, ObjectVanishes
<1> QED
  BY <1>1, <1>2, <1>3, <1>4, PTL DEF PromiseSpec, PromisesAreHonest, OthersStay

-----------------------------------------------------------------------------
(* The volume expander *)

Mode == {"new", "live", "gone"}
Happening == [type : {"added", "deleted"}, pod : Pod]

ExpanderTypeOK ==
    /\ pod \in [Pod -> Mode]
    /\ pvc \in [Claim -> [used : Nat, request : Nat, capacity : Nat]]
    /\ events \in [Namespace -> Seq(Happening)]
    /\ vex \in [up : BOOLEAN, seen : [Claim -> Nat] \cup {<<>>}, todo : SUBSET Claim]

\* What is known of the mounts of a pod: what the last event that is under way
\* tells, or, if there is none, what is in the observer's table.
Known(p) == {m \in stats : m.pod = p}
IsLast(es, i, p) == es[i].pod = p /\ \A j \in DOMAIN es : j > i => es[j].pod # p
Truth(p) == IF pod[p] = "live" THEN PodAdded(p) ELSE {}
Heard(p) ==
    /\ \A i \in DOMAIN events[Of[p]] : IsLast(events[Of[p]], i, p) =>
           (events[Of[p]][i].type = "added" <=> pod[p] = "live")
    /\ (\A i \in DOMAIN events[Of[p]] : events[Of[p]][i].pod # p) => Known(p) = Truth(p)
AllHeard == \A p \in Pod : Of[p] \in watch => Heard(p)

\* Each watch tells of its own pods, and the table has no other.
OwnPods ==
    /\ \A n \in Namespace : \A i \in DOMAIN events[n] : Of[events[n][i].pod] = n
    /\ \A m \in stats : m.pod \in Pod

\* Use only grows, so what was measured is at most what is used.
Measured == vex.todo # {} => vex.seen \in [Claim -> Nat] /\ \A c \in Claim : vex.seen[c] <= pvc[c].used

ExpanderIInv == ExpanderTypeOK /\ OwnPods /\ AllHeard /\ Measured /\ NoRunaway

-----------------------------------------------------------------------------
(* Arithmetic *)

LEMMA MaxOfTwo == ASSUME NEW a \in Int, NEW b \in Int PROVE Max({a, b}) = IF a >= b THEN a ELSE b
BY DEF Max

LEMMA MaxOfThree ==
    ASSUME NEW a \in Int, NEW b \in Int, NEW c \in Int
    PROVE  Max({a, b, c}) = IF a >= b THEN (IF a >= c THEN a ELSE c) ELSE IF b >= c THEN b ELSE c
BY DEF Max

LEMMA DivMonotonic ==
    ASSUME NEW g \in Nat \ {0}, NEW x \in Nat, NEW y \in Nat, x <= y
    PROVE  x \div g \in Nat /\ (x \div g) * g <= (y \div g) * g
OBVIOUS

LEMMA RoundUpMonotonic ==
    ASSUME Giga \in Nat \ {0}, NEW x \in Nat, NEW y \in Nat, x <= y
    PROVE  RoundUp(x) \in Nat /\ RoundUp(x) <= RoundUp(y)
BY DivMonotonic DEF RoundUp

-----------------------------------------------------------------------------
(* Pods and events *)

LEMMA AppendIs ==
    ASSUME NEW es \in Seq(Happening), NEW e \in Happening
    PROVE  /\ Append(es, e) \in Seq(Happening) /\ Len(es) \in Nat /\ DOMAIN es = 1..Len(es)
           /\ DOMAIN Append(es, e) = 1..(Len(es) + 1)
           /\ Append(es, e)[Len(es) + 1] = e
           /\ \A i \in 1..Len(es) : Append(es, e)[i] = es[i]
OBVIOUS

Grown(fs, es, e, q) ==
    /\ e.pod = q => (\E i \in DOMAIN fs : fs[i].pod = q) /\ \A i \in DOMAIN fs : IsLast(fs, i, q) => fs[i] = e
    /\ e.pod # q =>
           /\ \A i \in DOMAIN fs : IsLast(fs, i, q) => i \in DOMAIN es /\ IsLast(es, i, q) /\ fs[i] = es[i]
           /\ (\A i \in DOMAIN fs : fs[i].pod # q) => \A i \in DOMAIN es : es[i].pod # q

LEMMA LastAppended ==
    ASSUME NEW es \in Seq(Happening), NEW e \in Happening, NEW q, NEW fs, fs = Append(es, e)
    PROVE  Grown(fs, es, e, q)
<1> DEFINE l == Len(es)
<1>1. l \in Nat /\ DOMAIN es = 1..l /\ DOMAIN fs = 1..(l + 1) /\ fs[l + 1] = e /\ \A i \in 1..l : fs[i] = es[i]
  BY AppendIs
<1> HIDE DEF l
<1>2. CASE e.pod = q
  <2>1. \A i \in DOMAIN fs : IsLast(fs, i, q) => fs[i] = e
    <3> SUFFICES ASSUME NEW i \in DOMAIN fs, IsLast(fs, i, q) PROVE i = l + 1
      BY <1>1
    <3>1. l + 1 \in DOMAIN fs
      BY <1>1
    <3>2. ~(l + 1 > i)
      BY <1>1, <1>2, <3>1 DEF IsLast
    <3> QED
      BY <1>1, <3>2
  <2>2. l + 1 \in DOMAIN fs /\ fs[l + 1].pod = q
    BY <1>1, <1>2
  <2> QED
    BY <1>2, <2>1, <2>2 DEF Grown
<1>3. CASE e.pod # q
  <2>1. ASSUME NEW i \in DOMAIN fs, IsLast(fs, i, q) PROVE i \in DOMAIN es /\ IsLast(es, i, q) /\ fs[i] = es[i]
    <3>1. fs[i].pod = q
      BY <2>1 DEF IsLast
    <3>2. i \in 1..l
      BY <1>1, <1>3, <3>1
    <3>3. ASSUME NEW k \in DOMAIN es, k > i PROVE es[k].pod # q
      <4>1. k \in DOMAIN fs /\ fs[k] = es[k]
        BY <1>1
      <4> QED
        BY <2>1, <3>3, <4>1 DEF IsLast
    <3> QED
      BY <1>1, <3>1, <3>2, <3>3 DEF IsLast
  <2>2. ASSUME \A i \in DOMAIN fs : fs[i].pod # q, NEW i \in DOMAIN es PROVE es[i].pod # q
    <3>1. i \in DOMAIN fs /\ fs[i] = es[i]
      BY <1>1
    <3> QED
      BY <2>2, <3>1
  <2> QED
    BY <1>3, <2>1, <2>2 DEF Grown
<1> QED
  BY <1>2, <1>3

LEMMA TailIs ==
    ASSUME NEW es \in Seq(Happening), es # <<>>
    PROVE  /\ Tail(es) \in Seq(Happening) /\ Len(es) \in Nat \ {0} /\ DOMAIN es = 1..Len(es)
           /\ Head(es) = es[1] /\ es[1] \in Happening /\ DOMAIN Tail(es) = 1..(Len(es) - 1)
           /\ \A i \in 1..(Len(es) - 1) : Tail(es)[i] = es[i + 1]
OBVIOUS

Shrunk(fs, es, q) ==
    /\ \A i \in DOMAIN fs : IsLast(fs, i, q) => i + 1 \in DOMAIN es /\ IsLast(es, i + 1, q) /\ fs[i] = es[i + 1]
    /\ (\A i \in DOMAIN fs : fs[i].pod # q) =>
           IF es[1].pod = q THEN 1 \in DOMAIN es /\ IsLast(es, 1, q) ELSE \A i \in DOMAIN es : es[i].pod # q

LEMMA LastOfTail ==
    ASSUME NEW es \in Seq(Happening), es # <<>>, NEW q, NEW fs, fs = Tail(es)
    PROVE  Shrunk(fs, es, q)
<1> DEFINE l == Len(es)
<1>1. l \in Nat \ {0} /\ DOMAIN es = 1..l /\ DOMAIN fs = 1..(l - 1) /\ \A i \in 1..(l - 1) : fs[i] = es[i + 1]
  BY TailIs
<1> HIDE DEF l
<1>2. ASSUME NEW k \in DOMAIN es, k > 1 PROVE k - 1 \in DOMAIN fs /\ fs[k - 1] = es[k]
  <2>1. k - 1 \in 1..(l - 1) /\ (k - 1) + 1 = k
    BY <1>1, <1>2
  <2>2. fs[k - 1] = es[(k - 1) + 1]
    BY <1>1, <2>1
  <2> QED
    BY <1>1, <2>1, <2>2
<1>3. ASSUME NEW i \in DOMAIN fs, IsLast(fs, i, q) PROVE i + 1 \in DOMAIN es /\ IsLast(es, i + 1, q) /\ fs[i] = es[i + 1]
  <2>1. i \in Nat /\ i + 1 \in DOMAIN es /\ fs[i] = es[i + 1]
    BY <1>1
  <2>2. ASSUME NEW k \in DOMAIN es, k > i + 1 PROVE es[k].pod # q
    <3>1. k \in Nat /\ k > 1 /\ k - 1 > i
      BY <1>1, <2>1, <2>2
    <3> QED
      BY <1>2, <1>3, <3>1 DEF IsLast
  <2> QED
    BY <1>3, <2>1, <2>2 DEF IsLast
<1>4. ASSUME \A i \in DOMAIN fs : fs[i].pod # q
      PROVE  IF es[1].pod = q THEN 1 \in DOMAIN es /\ IsLast(es, 1, q) ELSE \A i \in DOMAIN es : es[i].pod # q
  <2>1. \A k \in DOMAIN es : k > 1 => es[k].pod # q
    BY <1>2, <1>4
  <2>2. 1 \in DOMAIN es /\ \A k \in DOMAIN es : k = 1 \/ k > 1
    BY <1>1
  <2> QED
    BY <2>1, <2>2 DEF IsLast
<1> QED
  BY <1>3, <1>4 DEF Shrunk

\* What is known of a pod holds on as long as nothing is told of it.
LEMMA HeardKept ==
    ASSUME NEW q \in Pod, Heard(q), events'[Of[q]] = events[Of[q]], pod'[q] = pod[q], Known(q)' = Known(q)
    PROVE  Heard(q)'
<1>1. Truth(q)' = Truth(q)
  BY DEF Truth, PodAdded
<1> QED
  BY <1>1 DEF Heard

\* A pod that comes or goes is told of, if a watch is there to tell.
LEMMA ToldStep ==
    ASSUME VolumeExpanderAssumption, ExpanderTypeOK, OwnPods, AllHeard, NEW p \in Pod,
           NEW type \in {"added", "deleted"}, pod' \in [Pod -> Mode], type = "added" <=> pod'[p] = "live",
           \A q \in Pod \ {p} : pod'[q] = pod[q],
           events' = Told(Of[p], [type |-> type, pod |-> p]), stats' = stats, watch' = watch
    PROVE  events' \in [Namespace -> Seq(Happening)] /\ OwnPods' /\ AllHeard'
<1>1. PICK e \in Happening : e.pod = p /\ e.type = type /\ events' = Told(Of[p], e)
  <2> DEFINE e == [type |-> type, pod |-> p]
  <2>1. e \in Happening /\ e.pod = p /\ e.type = type
    BY DEF Happening
  <2> QED
    BY <2>1
<1>2. PICK n \in Namespace : n = Of[p] /\ events[n] \in Seq(Happening)
  BY DEF VolumeExpanderAssumption, ExpanderTypeOK
<1>3. \A q : Known(q)' = Known(q)
  BY DEF Known
<1>4. CASE n \notin watch
  <2>1. events' = events
    BY <1>1, <1>2, <1>4 DEF Told
  <2>2. ASSUME NEW q \in Pod, Of[q] \in watch PROVE Heard(q)'
    <3>1. q # p /\ Heard(q) /\ pod'[q] = pod[q]
      BY <1>2, <1>4, <2>2 DEF AllHeard
    <3> QED
      BY <1>3, <2>1, <3>1, HeardKept
  <2> QED
    BY <2>1, <2>2 DEF AllHeard, OwnPods, ExpanderTypeOK
<1>5. CASE n \in watch
  <2>1. PICK es \in Seq(Happening) : es = events[n]
    BY <1>2
  <2>2. events' = [events EXCEPT ![n] = Append(es, e)]
    BY <1>1, <1>2, <1>5, <2>1 DEF Told
  <2>3. PICK fs \in Seq(Happening) : fs = Append(es, e)
    BY AppendIs
  <2>4. /\ events' \in [Namespace -> Seq(Happening)] /\ events'[n] = fs
        /\ \A k \in Namespace \ {n} : events'[k] = events[k]
    BY <1>2, <2>2, <2>3 DEF ExpanderTypeOK
  <2>5. OwnPods'
    <3>1. \A i \in DOMAIN fs : Of[fs[i].pod] = n
      <4>1. \A i \in DOMAIN es : Of[es[i].pod] = n
        BY <2>1 DEF OwnPods
      <4> QED
        BY <1>1, <1>2, <2>3, <4>1, AppendIs
    <3>2. stats' = stats
      OBVIOUS
    <3> QED
      BY <2>4, <3>1, <3>2 DEF OwnPods
  <2>6. \A q : Grown(fs, es, e, q)
    BY <2>3, LastAppended
  <2>7. ASSUME NEW q \in Pod, Of[q] \in watch PROVE Heard(q)'
    <3>1. Of[q] \in Namespace /\ Heard(q)
      BY <2>7 DEF AllHeard, VolumeExpanderAssumption
    <3>2. CASE q = p
      <4>1. /\ \E i \in DOMAIN fs : fs[i].pod = q
            /\ \A i \in DOMAIN fs : IsLast(fs, i, q) => fs[i] = e
        BY <1>1, <2>6, <3>2 DEF Grown
      <4> QED
        BY <1>1, <1>2, <2>4, <3>2, <4>1 DEF Heard
    <3>3. CASE q # p /\ Of[q] = n
      <4>1. /\ \A i \in DOMAIN fs : IsLast(fs, i, q) =>
                   i \in DOMAIN es /\ IsLast(es, i, q) /\ fs[i] = es[i]
            /\ (\A i \in DOMAIN fs : fs[i].pod # q) => \A i \in DOMAIN es : es[i].pod # q
        BY <1>1, <2>6, <3>3 DEF Grown
      <4>2. pod'[q] = pod[q] /\ Truth(q)' = Truth(q)
        BY <3>3 DEF Truth, PodAdded
      <4> QED
        BY <1>3, <2>1, <2>4, <3>1, <3>3, <4>1, <4>2 DEF Heard
    <3>4. CASE Of[q] # n
      BY <1>2, <1>3, <2>4, <3>1, <3>4, HeardKept
    <3> QED
      BY <3>2, <3>3, <3>4
  <2> QED
    BY <2>4, <2>5, <2>7 DEF AllHeard
<1> QED
  BY <1>4, <1>5

LEMMA PodComesStep == ASSUME VolumeExpanderAssumption, ExpanderIInv, NEW p \in Pod, PodComes(p) PROVE ExpanderIInv'
<1>1. /\ pod' \in [Pod -> Mode] /\ pod'[p] = "live" /\ (\A q \in Pod \ {p} : pod'[q] = pod[q])
      /\ UNCHANGED <<pvc, stats, watch, vex>>
  BY DEF PodComes, ExpanderIInv, ExpanderTypeOK, Mode
<1>2. events' \in [Namespace -> Seq(Happening)] /\ OwnPods' /\ AllHeard'
  BY <1>1, ToldStep DEF PodComes, ExpanderIInv
<1> QED
  BY <1>1, <1>2 DEF ExpanderIInv, ExpanderTypeOK, Measured, NoRunaway

LEMMA PodGoesStep == ASSUME VolumeExpanderAssumption, ExpanderIInv, NEW p \in Pod, PodGoes(p) PROVE ExpanderIInv'
<1>1. /\ pod' \in [Pod -> Mode] /\ pod'[p] = "gone" /\ (\A q \in Pod \ {p} : pod'[q] = pod[q])
      /\ UNCHANGED <<pvc, stats, watch, vex>>
  BY DEF PodGoes, ExpanderIInv, ExpanderTypeOK, Mode
<1>2. events' \in [Namespace -> Seq(Happening)] /\ OwnPods' /\ AllHeard'
  BY <1>1, ToldStep DEF PodGoes, ExpanderIInv
<1> QED
  BY <1>1, <1>2 DEF ExpanderIInv, ExpanderTypeOK, Measured, NoRunaway

-----------------------------------------------------------------------------
(* The observer *)

LEMMA ObserveStep == ASSUME VolumeExpanderAssumption, ExpanderIInv, NEW n \in Namespace, Observe(n) PROVE ExpanderIInv'
<1>1. PICK es \in Seq(Happening) : es = events[n] /\ es # <<>>
  BY DEF Observe, ExpanderIInv, ExpanderTypeOK
<1>2. UNCHANGED <<pod, pvc, watch, vex, errors>>
  BY DEF Observe
<1>3. PICK fs \in Seq(Happening) : fs = Tail(es) /\ Head(es) = es[1] /\ 1 \in DOMAIN es
  <2> DEFINE l == Len(es)
             fs == Tail(es)
  <2>1. fs \in Seq(Happening) /\ Head(es) = es[1] /\ l \in Nat \ {0} /\ DOMAIN es = 1..l
    BY <1>1, TailIs
  <2>2. fs = Tail(es)
    OBVIOUS
  <2> HIDE DEF l, fs
  <2>3. 1 \in DOMAIN es
    BY <2>1
  <2> QED
    BY <2>1, <2>2, <2>3
<1>4. PICK e \in Happening : e = es[1]
  BY <1>1, TailIs
<1>5. /\ events' \in [Namespace -> Seq(Happening)] /\ events'[n] = fs
      /\ \A k \in Namespace \ {n} : events'[k] = events[k]
  BY <1>1, <1>3 DEF Observe, ExpanderIInv, ExpanderTypeOK
<1>6. stats' = IF e.type = "added" THEN PodDeleted(stats, e.pod) \cup PodAdded(e.pod) ELSE PodDeleted(stats, e.pod)
  BY <1>1, <1>3, <1>4 DEF Observe
<1>7. e.pod \in Pod /\ Of[e.pod] = n
  BY <1>1, <1>3, <1>4 DEF Happening, ExpanderIInv, OwnPods
<1>8. \A m \in PodAdded(e.pod) : m.pod = e.pod
  BY DEF PodAdded
<1>9. ASSUME NEW q \in Pod \ {e.pod} PROVE Known(q)' = Known(q)
  BY <1>6, <1>8, <1>9 DEF Known, PodDeleted
<1>10. Known(e.pod)' = IF e.type = "added" THEN PodAdded(e.pod) ELSE {}
  BY <1>6, <1>8 DEF Known, PodDeleted
<1>11. OwnPods'
  <2>1. \A m \in stats' : m.pod \in Pod
    BY <1>6, <1>7, <1>8 DEF PodDeleted, ExpanderIInv, OwnPods
  <2>2. \A i \in DOMAIN es : Of[es[i].pod] = n
    BY <1>1 DEF ExpanderIInv, OwnPods
  <2>3. \A i \in DOMAIN fs : Of[fs[i].pod] = n
    BY <1>1, <1>3, <2>2, TailIs
  <2> QED
    BY <1>5, <2>1, <2>3 DEF ExpanderIInv, OwnPods
<1>12. ASSUME NEW q \in Pod, Of[q] \in watch PROVE Heard(q)'
  <2>1. Heard(q) /\ Truth(q)' = Truth(q) /\ pod' = pod /\ Of[q] \in Namespace
    BY <1>2, <1>12 DEF ExpanderIInv, AllHeard, Truth, PodAdded, VolumeExpanderAssumption
  <2>2. CASE Of[q] # n
    BY <1>5, <1>7, <1>9, <2>1, <2>2, HeardKept
  <2>3. CASE Of[q] = n
    <3>1. /\ \A i \in DOMAIN fs : IsLast(fs, i, q) =>
                 i + 1 \in DOMAIN es /\ IsLast(es, i + 1, q) /\ fs[i] = es[i + 1]
          /\ (\A i \in DOMAIN fs : fs[i].pod # q) =>
                 IF es[1].pod = q THEN 1 \in DOMAIN es /\ IsLast(es, 1, q) ELSE \A i \in DOMAIN es : es[i].pod # q
      <4>1. Shrunk(fs, es, q)
        BY <1>1, <1>3, LastOfTail
      <4> QED
        BY <4>1 DEF Shrunk
    <3>2. /\ \A i \in DOMAIN es : IsLast(es, i, q) => (es[i].type = "added" <=> pod[q] = "live")
          /\ (\A i \in DOMAIN es : es[i].pod # q) => Known(q) = Truth(q)
      BY <1>1, <2>1, <2>3 DEF Heard
    <3>3. ASSUME \A i \in DOMAIN fs : fs[i].pod # q PROVE Known(q)' = Truth(q)
      <4>1. CASE q = e.pod
        <5>1. e.type = "added" <=> pod[q] = "live"
          BY <1>4, <3>1, <3>2, <3>3, <4>1
        <5> QED
          BY <1>10, <4>1, <5>1 DEF Truth
      <4>2. CASE q # e.pod
        BY <1>4, <1>9, <3>1, <3>2, <3>3, <4>2
      <4> QED
        BY <4>1, <4>2
    <3> QED
      BY <1>5, <2>1, <2>3, <3>1, <3>2, <3>3 DEF Heard
  <2> QED
    BY <2>2, <2>3
<1> QED
  BY <1>2, <1>5, <1>11, <1>12 DEF ExpanderIInv, ExpanderTypeOK, AllHeard, Measured, NoRunaway

LEMMA WatchEndsStep == ASSUME ExpanderIInv, NEW n \in Namespace, WatchEnds(n) PROVE ExpanderIInv'
<1>1. watch' \subseteq watch /\ UNCHANGED <<pod, pvc, stats, events, vex>>
  BY DEF WatchEnds
<1>2. ASSUME NEW p \in Pod, Of[p] \in watch' PROVE Heard(p)'
  <2>1. Heard(p) /\ Of[p] \in watch
    BY <1>1, <1>2 DEF ExpanderIInv, AllHeard
  <2>2. Known(p)' = Known(p)
    BY <1>1 DEF Known
  <2> QED
    BY <1>1, <2>1, <2>2, HeardKept
<1> QED
  BY <1>1, <1>2 DEF ExpanderIInv, ExpanderTypeOK, OwnPods, AllHeard, Measured, NoRunaway

-----------------------------------------------------------------------------
(* Claims *)

\* Steps that leave the pods and the table alone.
LEMMA SamePods ==
    ASSUME ExpanderIInv, UNCHANGED <<pod, stats, events, watch>> PROVE OwnPods' /\ AllHeard'
<1>1. ASSUME NEW p \in Pod, Of[p] \in watch PROVE Heard(p)'
  <2>1. Heard(p)
    BY <1>1 DEF ExpanderIInv, AllHeard
  <2>2. Known(p)' = Known(p)
    BY DEF Known
  <2> QED
    BY <2>1, <2>2, HeardKept
<1> QED
  BY <1>1 DEF ExpanderIInv, OwnPods, AllHeard

Allowed(used) == Max({Giga, RoundUp(used + Margin + Delta)})

LEMMA AllowedMonotonic ==
    ASSUME VolumeExpanderAssumption, NEW x \in Nat, NEW y \in Nat, x <= y
    PROVE  /\ Allowed(x) \in Nat /\ Allowed(y) \in Nat /\ Allowed(x) <= Allowed(y)
           /\ \A z \in Nat : z <= x + Margin => RoundUp(z + Delta) \in Nat /\ RoundUp(z + Delta) <= Allowed(y)
<1>1. Giga \in Nat \ {0} /\ Delta \in Nat /\ Margin \in Nat
  BY DEF VolumeExpanderAssumption
<1>2. /\ x + Margin + Delta \in Nat /\ y + Margin + Delta \in Nat
      /\ x + Margin + Delta <= y + Margin + Delta
  BY <1>1
<1>3. PICK rx \in Nat, ry \in Nat : rx = RoundUp(x + Margin + Delta) /\ ry = RoundUp(y + Margin + Delta) /\ rx <= ry
  BY <1>1, <1>2, RoundUpMonotonic
<1>4. /\ Allowed(x) = IF Giga >= rx THEN Giga ELSE rx
      /\ Allowed(y) = IF Giga >= ry THEN Giga ELSE ry
  BY <1>1, <1>3, MaxOfTwo DEF Allowed
<1>5. ASSUME NEW z \in Nat, z <= x + Margin PROVE RoundUp(z + Delta) \in Nat /\ RoundUp(z + Delta) <= ry
  <2>1. z + Delta \in Nat /\ z + Delta <= y + Margin + Delta
    BY <1>1, <1>5
  <2> QED
    BY <1>1, <1>2, <1>3, <2>1, RoundUpMonotonic
<1>6. ry <= Allowed(y)
  BY <1>1, <1>3, <1>4
<1>7. Allowed(x) \in Nat /\ Allowed(y) \in Nat /\ Allowed(x) <= Allowed(y)
  BY <1>1, <1>3, <1>4
<1>8. ASSUME NEW z \in Nat, z <= x + Margin PROVE RoundUp(z + Delta) \in Nat /\ RoundUp(z + Delta) <= Allowed(y)
  BY <1>3, <1>5, <1>6, <1>7, <1>8
<1> QED
  BY <1>7, <1>8

LEMMA WriteStep == ASSUME VolumeExpanderAssumption, ExpanderIInv, NEW c \in Claim, Write(c) PROVE ExpanderIInv'
<1>1. /\ pvc' = [pvc EXCEPT ![c].used = pvc[c].used + 1] /\ UNCHANGED <<pod, stats, events, watch, vex>>
      /\ pvc \in [Claim -> [used : Nat, request : Nat, capacity : Nat]]
  BY DEF Write, ExpanderIInv, ExpanderTypeOK
<1>2. ASSUME NEW d \in Claim
      PROVE  /\ pvc[d].used \in Nat /\ pvc[d].request \in Nat /\ pvc'[d].used \in Nat
             /\ pvc'[d].request = pvc[d].request /\ pvc[d].used <= pvc'[d].used
  BY <1>1
<1>3. pvc' \in [Claim -> [used : Nat, request : Nat, capacity : Nat]]
  BY <1>1
<1>4. NoRunaway'
  <2>1. ASSUME NEW d \in Claim PROVE pvc'[d].request <= Allowed(pvc'[d].used)
    <3>1. pvc[d].request <= Allowed(pvc[d].used)
      BY DEF ExpanderIInv, NoRunaway, Allowed
    <3>2. PICK a \in Nat, b \in Nat : a = Allowed(pvc[d].used) /\ b = Allowed(pvc'[d].used) /\ a <= b
      BY <1>2, AllowedMonotonic
    <3> QED
      BY <1>2, <3>1, <3>2
  <2> QED
    BY <2>1 DEF NoRunaway, Allowed
<1>5. Measured'
  <2>1. ASSUME vex.todo # {}, NEW d \in Claim PROVE vex.seen \in [Claim -> Nat] /\ vex.seen[d] <= pvc'[d].used
    <3>1. vex.seen \in [Claim -> Nat] /\ vex.seen[d] <= pvc[d].used
      BY <2>1 DEF ExpanderIInv, Measured
    <3>2. vex.seen[d] \in Nat
      BY <3>1
    <3> QED
      BY <1>2, <3>1, <3>2
  <2>2. vex.todo # {} => vex.seen \in [Claim -> Nat]
    BY DEF ExpanderIInv, Measured
  <2> QED
    BY <1>1, <2>1, <2>2 DEF Measured
<1>6. OwnPods' /\ AllHeard'
  BY <1>1, SamePods
<1> QED
  BY <1>1, <1>3, <1>4, <1>5, <1>6 DEF ExpanderIInv, ExpanderTypeOK

LEMMA GrantStep == ASSUME ExpanderIInv, NEW c \in Claim, Grant(c) PROVE ExpanderIInv'
<1>1. /\ pvc' = [pvc EXCEPT ![c].capacity = pvc[c].request] /\ UNCHANGED <<pod, stats, events, watch, vex>>
      /\ pvc \in [Claim -> [used : Nat, request : Nat, capacity : Nat]]
  BY DEF Grant, ExpanderIInv, ExpanderTypeOK
<1>2. /\ pvc' \in [Claim -> [used : Nat, request : Nat, capacity : Nat]]
      /\ \A d \in Claim : pvc'[d].used = pvc[d].used /\ pvc'[d].request = pvc[d].request
  BY <1>1
<1>3. OwnPods' /\ AllHeard'
  BY <1>1, SamePods
<1>4. NoRunaway' /\ Measured'
  BY <1>1, <1>2 DEF ExpanderIInv, NoRunaway, Measured, RoundUp
<1> QED
  BY <1>1, <1>2, <1>3, <1>4 DEF ExpanderIInv, ExpanderTypeOK

LEMMA ScrapeStep == ASSUME ExpanderIInv, Scrape PROVE ExpanderIInv'
<1>1. /\ vex' = [vex EXCEPT !.seen = [c \in Claim |-> pvc[c].used], !.todo = Claim]
      /\ UNCHANGED <<pod, pvc, stats, events, watch>>
      /\ vex \in [up : BOOLEAN, seen : [Claim -> Nat] \cup {<<>>}, todo : SUBSET Claim]
      /\ pvc \in [Claim -> [used : Nat, request : Nat, capacity : Nat]]
  BY DEF Scrape, ExpanderIInv, ExpanderTypeOK
<1>2. PICK found \in [Claim -> Nat] : (\A c \in Claim : found[c] = pvc[c].used) /\ found = [c \in Claim |-> pvc[c].used]
  BY <1>1
<1>3. /\ vex' \in [up : BOOLEAN, seen : [Claim -> Nat] \cup {<<>>}, todo : SUBSET Claim]
      /\ vex'.seen = found
  BY <1>1, <1>2
<1>4. \A c \in Claim : pvc[c].used \in Nat
  BY <1>1
<1>5. Measured'
  <2>1. \A c \in Claim : found[c] <= pvc[c].used
    BY <1>2, <1>4
  <2> QED
    BY <1>1, <1>3, <2>1 DEF Measured
<1>6. OwnPods' /\ AllHeard'
  BY <1>1, SamePods
<1> QED
  BY <1>1, <1>3, <1>5, <1>6 DEF ExpanderIInv, ExpanderTypeOK, NoRunaway

LEMMA DownIs == Down \in [up : {FALSE}, seen : {<<>>}, todo : {{}}]
<1>1. Up \in [up : {TRUE}, seen : {<<>>}, todo : {{}}]
  BY DEF Up
<1> QED
  BY <1>1 DEF Down

LEMMA FailsStep == ASSUME ExpanderIInv, Fails PROVE ExpanderIInv'
<1>1. vex' \in [up : {FALSE}, seen : {<<>>}, todo : {{}}] /\ UNCHANGED <<pod, pvc, stats, events, watch>>
  BY DownIs DEF Fails
<1>2. /\ vex' \in [up : BOOLEAN, seen : [Claim -> Nat] \cup {<<>>}, todo : SUBSET Claim]
      /\ vex'.todo = {}
  BY <1>1
<1>3. OwnPods' /\ AllHeard'
  BY <1>1, SamePods
<1> QED
  BY <1>1, <1>2, <1>3 DEF ExpanderIInv, ExpanderTypeOK, Measured, NoRunaway

\* What is asked for is in sight of what is used.
LEMMA EnlargedIs ==
    ASSUME VolumeExpanderAssumption, ExpanderIInv, NEW c \in Claim, c \in vex.todo, ~HasEnough(c)
    PROVE  Enlarged(c) \in Nat /\ Enlarged(c) <= Allowed(pvc[c].used)
<1>1. Giga \in Nat \ {0} /\ Delta \in Nat /\ Margin \in Nat
  BY DEF VolumeExpanderAssumption
<1>2. pvc[c] \in [used : Nat, request : Nat, capacity : Nat]
  BY DEF ExpanderIInv, ExpanderTypeOK
<1>3. PICK u \in Nat, r \in Nat, a \in Nat : u = pvc[c].used /\ r = pvc[c].request /\ a = pvc[c].capacity
  BY <1>2
<1>4. PICK s \in Nat : s = vex.seen[c] /\ s <= u
  <2>1. vex.seen \in [Claim -> Nat] /\ vex.seen[c] <= pvc[c].used
    BY DEF ExpanderIInv, Measured
  <2> QED
    BY <1>3, <2>1
<1>5. ~(s + Margin < IF r >= a THEN r ELSE a)
  BY <1>3, <1>4, MaxOfTwo DEF HasEnough
<1>6. PICK z \in Nat : z = Max({r, a, s}) /\ z <= u + Margin
  <2>1. Max({r, a, s}) = IF r >= a THEN (IF r >= s THEN r ELSE s) ELSE IF a >= s THEN a ELSE s
    BY <1>3, <1>4, MaxOfThree
  <2> QED
    BY <1>1, <1>3, <1>4, <1>5, <2>1
<1>7. Enlarged(c) = RoundUp(z + Delta)
  BY <1>3, <1>4, <1>6 DEF Enlarged
<1> QED
  BY <1>3, <1>6, <1>7, AllowedMonotonic

LEMMA HandleStep == ASSUME VolumeExpanderAssumption, ExpanderIInv, NEW c \in Claim, Handle(c) PROVE ExpanderIInv'
<1>1. /\ UNCHANGED <<pod, stats, events, watch>> /\ c \in vex.todo
      /\ vex \in [up : BOOLEAN, seen : [Claim -> Nat] \cup {<<>>}, todo : SUBSET Claim]
      /\ pvc \in [Claim -> [used : Nat, request : Nat, capacity : Nat]]
  BY DEF Handle, ExpanderIInv, ExpanderTypeOK
<1>2. OwnPods' /\ AllHeard'
  BY <1>1, SamePods
<1>3. CASE Closed
  <2>1. vex' \in [up : {FALSE}, seen : {<<>>}, todo : {{}}] /\ pvc' = pvc
    BY <1>3, DownIs DEF Handle
  <2>2. /\ vex' \in [up : BOOLEAN, seen : [Claim -> Nat] \cup {<<>>}, todo : SUBSET Claim]
        /\ vex'.todo = {}
    BY <2>1
  <2> QED
    BY <1>1, <1>2, <2>1, <2>2 DEF ExpanderIInv, ExpanderTypeOK, Measured, NoRunaway
<1>4. CASE ~Closed
  <2>1. /\ vex' = [vex EXCEPT !.todo = @ \ {c}]
        /\ pvc' = IF Written(c) /\ c \notin Unmanaged /\ ~HasEnough(c)
                  THEN [pvc EXCEPT ![c].request = Enlarged(c)] ELSE pvc
    BY <1>4 DEF Handle
  <2>2. /\ vex' \in [up : BOOLEAN, seen : [Claim -> Nat] \cup {<<>>}, todo : SUBSET Claim]
        /\ vex'.seen = vex.seen /\ vex'.todo \subseteq vex.todo
    BY <1>1, <2>1
  <2>3. /\ pvc' \in [Claim -> [used : Nat, request : Nat, capacity : Nat]]
        /\ \A d \in Claim : pvc'[d].used = pvc[d].used
        /\ \A d \in Claim : pvc'[d].request # pvc[d].request => d = c /\ ~HasEnough(c) /\ pvc'[d].request = Enlarged(c)
    <3>1. CASE pvc' = pvc
      BY <1>1, <3>1
    <3>2. CASE ~HasEnough(c) /\ pvc' = [pvc EXCEPT ![c].request = Enlarged(c)]
      <4>1. Enlarged(c) \in Nat
        BY <1>1, <3>2, EnlargedIs
      <4> QED
        BY <1>1, <3>2, <4>1
    <3> QED
      BY <2>1, <3>1, <3>2
  <2>4. NoRunaway'
    <3>1. ASSUME NEW d \in Claim PROVE pvc'[d].request <= Allowed(pvc[d].used)
      <4>1. CASE pvc'[d].request = pvc[d].request
        BY <4>1 DEF ExpanderIInv, NoRunaway, Allowed
      <4>2. CASE pvc'[d].request # pvc[d].request
        BY <1>1, <2>3, <4>2, EnlargedIs
      <4> QED
        BY <4>1, <4>2
    <3> QED
      BY <2>3, <3>1 DEF NoRunaway, Allowed
  <2>5. Measured'
    BY <1>1, <2>2, <2>3 DEF ExpanderIInv, Measured
  <2> QED
    BY <1>1, <1>2, <2>2, <2>3, <2>4, <2>5 DEF ExpanderIInv, ExpanderTypeOK
<1> QED
  BY <1>3, <1>4

-----------------------------------------------------------------------------
(* A new watch *)

\* A list of pods names each of them, and no other.
Lists(es, Q) ==
    /\ es \in Seq(Happening)
    /\ \A i \in DOMAIN es : es[i].type = "added" /\ es[i].pod \in Q
    /\ \A p \in Q : \E i \in DOMAIN es : es[i].pod = p

LEMMA Listed ==
    ASSUME IsFiniteSet(Pod), NEW Q \in SUBSET Pod
    PROVE  Lists(SetToSeq({[type |-> "added", pod |-> p] : p \in Q}), Q)
<1> DEFINE Entry(p) == [type |-> "added", pod |-> p]
           S == {Entry(p) : p \in Q}
           k == Cardinality(S)
           g == [e \in S |-> e.pod]
<1>1. \A e \in S : e \in Happening /\ e.type = "added" /\ e.pod \in Q /\ e = Entry(e.pod)
  BY DEF Happening
<1>2. \A p \in Q : Entry(p) \in S /\ Entry(p).pod = p
  OBVIOUS
<1> HIDE DEF Entry, S
<1>3. g \in Injection(S, Pod)
  BY <1>1 DEF Injection, IsInjective
<1>4. IsFiniteSet(S)
  BY <1>3, FS_Injection
<1>5. k \in Nat /\ ExistsBijection(1..k, S)
  BY <1>4, FS_CardinalityType
<1> HIDE DEF k
<1>6. PICK f \in [1..k -> S] : IsInjective(f)
  BY <1>5 DEF ExistsBijection, Bijection, Injection
<1>7. PICK es \in [1..k -> S] : IsInjective(es) /\ es = SetToSeq(S)
  <2>1. SetToSeq(S) = CHOOSE h \in [1..k -> S] : IsInjective(h)
    BY DEF SetToSeq, k
  <2> QED
    BY <1>6, <2>1
<1>8. IsFiniteSet(1..k) /\ Cardinality(1..k) = k
  BY <1>5, FS_Interval
<1>9. es \in Surjection(1..k, S)
  <2>1. es \in Injection(1..k, S)
    BY <1>7 DEF Injection
  <2>2. Cardinality(1..k) = Cardinality(S)
    BY <1>8 DEF k
  <2> QED
    BY <1>4, <2>1, <2>2, FS_Injection
<1>10. es \in Seq(Happening)
  BY <1>1, <1>5, <1>7
<1>11. \A i \in DOMAIN es : es[i].type = "added" /\ es[i].pod \in Q
  BY <1>1, <1>7
<1>12. ASSUME NEW p \in Q PROVE \E i \in DOMAIN es : es[i].pod = p
  BY <1>2, <1>7, <1>9 DEF Surjection
<1>13. es = SetToSeq({[type |-> "added", pod |-> p] : p \in Q})
  BY <1>7 DEF S, Entry
<1> QED
  BY <1>10, <1>11, <1>12, <1>13 DEF Lists

LEMMA UpIs == Up \in [up : {TRUE}, seen : {<<>>}, todo : {{}}]
BY DEF Up

LEMMA RestartStep == ASSUME VolumeExpanderAssumption, ExpanderIInv, Restart PROVE ExpanderIInv'
<1> DEFINE Here(n) == {q \in Live : Of[q] = n}
<1>1. /\ vex' \in [up : {TRUE}, seen : {<<>>}, todo : {{}}] /\ stats' = {} /\ watch' = Namespace
      /\ events' = [n \in Namespace |-> SetToSeq({[type |-> "added", pod |-> p] : p \in Here(n)})]
      /\ UNCHANGED <<pod, pvc>>
  BY UpIs DEF Restart
<1>2. ASSUME NEW n \in Namespace
      PROVE  /\ events'[n] \in Seq(Happening)
             /\ \A i \in DOMAIN events'[n] : events'[n][i].type = "added" /\ events'[n][i].pod \in Here(n)
             /\ \A p \in Here(n) : \E i \in DOMAIN events'[n] : events'[n][i].pod = p
  <2>1. IsFiniteSet(Pod) /\ Here(n) \in SUBSET Pod
    BY DEF VolumeExpanderAssumption, Live
  <2>2. events'[n] = SetToSeq({[type |-> "added", pod |-> p] : p \in Here(n)})
    BY <1>1
  <2> HIDE DEF Here
  <2>3. Lists(events'[n], Here(n))
    BY <2>1, <2>2, Listed
  <2> QED
    BY <2>3 DEF Lists
<1>3. events' \in [Namespace -> Seq(Happening)]
  BY <1>1, <1>2
<1>4. OwnPods'
  BY <1>1, <1>2 DEF OwnPods
<1>5. ASSUME NEW p \in Pod PROVE Heard(p)'
  <2>1. PICK n \in Namespace : n = Of[p]
    BY DEF VolumeExpanderAssumption
  <2>2. p \in Here(n) <=> pod'[p] = "live"
    BY <1>1, <2>1 DEF Live
  <2>3. /\ \A i \in DOMAIN events'[n] : events'[n][i].type = "added" /\ events'[n][i].pod \in Here(n)
        /\ \A q \in Here(n) : \E i \in DOMAIN events'[n] : events'[n][i].pod = q
    BY <1>2
  <2>4. Known(p)' = {}
    BY <1>1 DEF Known
  <2> HIDE DEF Here
  <2>5. CASE p \in Here(n)
    <3>1. ~\A i \in DOMAIN events'[n] : events'[n][i].pod # p
      BY <2>3, <2>5
    <3> QED
      BY <2>1, <2>2, <2>3, <2>5, <3>1 DEF Heard
  <2>6. CASE p \notin Here(n)
    <3>1. \A i \in DOMAIN events'[n] : events'[n][i].pod # p
      BY <2>3, <2>6
    <3>2. Truth(p)' = {}
      BY <2>2, <2>6 DEF Truth
    <3> QED
      BY <2>1, <2>4, <3>1, <3>2 DEF Heard, IsLast
  <2> QED
    BY <2>5, <2>6
<1>6. /\ vex' \in [up : BOOLEAN, seen : [Claim -> Nat] \cup {<<>>}, todo : SUBSET Claim]
      /\ vex'.todo = {}
  BY <1>1
<1> QED
  BY <1>1, <1>3, <1>4, <1>5, <1>6 DEF ExpanderIInv, ExpanderTypeOK, AllHeard, Measured, NoRunaway

-----------------------------------------------------------------------------
(* What holds in every state *)

LEMMA InitExpanderIInv == ASSUME VolumeExpanderAssumption, ExpanderInit PROVE ExpanderIInv
<1>1. vex \in [up : {TRUE}, seen : {<<>>}, todo : {{}}] /\ stats = {} /\ \A p \in Pod : pod[p] = "new"
  BY UpIs DEF ExpanderInit
<1>2. /\ vex \in [up : BOOLEAN, seen : [Claim -> Nat] \cup {<<>>}, todo : SUBSET Claim]
      /\ vex.todo = {}
  BY <1>1
<1>3. \A n \in Namespace : events[n] = <<>>
  BY DEF ExpanderInit
<1>4. /\ pod \in [Pod -> Mode]
      /\ pvc \in [Claim -> [used : Nat, request : Nat, capacity : Nat]]
      /\ events \in [Namespace -> Seq(Happening)]
  BY DEF ExpanderInit, Mode, VolumeExpanderAssumption
<1>5. OwnPods
  BY <1>1, <1>3 DEF OwnPods
<1>6. AllHeard
  <2>1. ASSUME NEW p \in Pod PROVE Heard(p)
    <3>1. events[Of[p]] = <<>>
      BY <1>3 DEF VolumeExpanderAssumption
    <3>2. Known(p) = {} /\ Truth(p) = {}
      BY <1>1 DEF Known, Truth
    <3> QED
      BY <3>1, <3>2 DEF Heard
  <2> QED
    BY <2>1 DEF AllHeard
<1>7. NoRunaway
  <2>1. ASSUME NEW c \in Claim PROVE pvc[c].request <= Allowed(pvc[c].used)
    <3>1. pvc[c].request = Giga /\ pvc[c].used = 0
      BY DEF ExpanderInit
    <3>2. Giga \in Nat \ {0} /\ 0 + Margin + Delta \in Nat
      BY DEF VolumeExpanderAssumption
    <3>3. RoundUp(0 + Margin + Delta) \in Nat
      BY <3>2, RoundUpMonotonic
    <3> QED
      BY <3>1, <3>2, <3>3, MaxOfTwo DEF Allowed
  <2> QED
    BY <2>1 DEF NoRunaway, Allowed
<1> QED
  BY <1>2, <1>4, <1>5, <1>6, <1>7 DEF ExpanderIInv, ExpanderTypeOK, Measured

LEMMA ExpanderInvariance ==
    ASSUME VolumeExpanderAssumption, ExpanderIInv, [ExpanderNext]_expanderVars PROVE ExpanderIInv'
<1>1. CASE \E p \in Pod : PodComes(p)
  BY <1>1, PodComesStep
<1>2. CASE \E p \in Pod : PodGoes(p)
  BY <1>2, PodGoesStep
<1>3. CASE \E c \in Claim : Write(c)
  BY <1>3, WriteStep
<1>4. CASE \E c \in Claim : Grant(c)
  BY <1>4, GrantStep
<1>5. CASE \E c \in Claim : Handle(c)
  BY <1>5, HandleStep
<1>6. CASE \E n \in Namespace : WatchEnds(n)
  BY <1>6, WatchEndsStep
<1>7. CASE \E n \in Namespace : Observe(n)
  BY <1>7, ObserveStep
<1>8. CASE Scrape
  BY <1>8, ScrapeStep
<1>9. CASE Fails
  BY <1>9, FailsStep
<1>10. CASE Restart
  BY <1>10, RestartStep
<1>11. CASE UNCHANGED expanderVars
  <2>1. UNCHANGED <<pod, pvc, stats, events, watch, vex>>
    BY <1>11 DEF expanderVars
  <2>2. OwnPods' /\ AllHeard'
    BY <2>1, SamePods
  <2> QED
    BY <2>1, <2>2 DEF ExpanderIInv, ExpanderTypeOK, Measured, NoRunaway
<1> QED
  BY <1>1, <1>2, <1>3, <1>4, <1>5, <1>6, <1>7, <1>8, <1>9, <1>10, <1>11 DEF ExpanderNext

\* With no event under way, the table is what the pods mount.
LEMMA TableIsTruth ==
    ASSUME VolumeExpanderAssumption, ExpanderIInv, watch = Namespace, \A n \in Namespace : events[n] = <<>>,
           NEW c \in Claim
    PROVE  Written(c) = \E p \in Live : Modes[p][c] = {"rw"}
<1>1. ASSUME NEW p \in Pod PROVE Known(p) = Truth(p)
  <2>1. Of[p] \in Namespace /\ events[Of[p]] = <<>>
    BY DEF VolumeExpanderAssumption
  <2>2. Heard(p)
    BY <2>1 DEF ExpanderIInv, AllHeard
  <2> QED
    BY <2>1, <2>2 DEF Heard
<1>2. \A p \in Pod : Modes[p][c] \in SUBSET {"rw", "ro"}
  BY DEF VolumeExpanderAssumption
<1>3. ASSUME NEW m \in stats, m.claim = c, ~m.readOnly PROVE \E p \in Live : Modes[p][c] = {"rw"}
  <2>1. PICK p \in Pod : p = m.pod
    BY DEF ExpanderIInv, OwnPods
  <2>2. m \in Truth(p)
    BY <1>1, <2>1 DEF Known
  <2>3. p \in Live /\ m \in PodAdded(p)
    BY <2>2 DEF Truth, Live
  <2>4. c \in Mounts(p) /\ m.readOnly = ("ro" \in Modes[p][c])
    BY <1>3, <2>3 DEF PodAdded
  <2>5. Modes[p][c] # {} /\ "ro" \notin Modes[p][c]
    BY <1>3, <2>4 DEF Mounts
  <2> QED
    BY <1>2, <2>3, <2>5
<1>4. ASSUME NEW p \in Live, Modes[p][c] = {"rw"} PROVE Written(c)
  <2> DEFINE m == [claim |-> c, pod |-> p, readOnly |-> "ro" \in Modes[p][c]]
  <2>1. m \in PodAdded(p) /\ m.claim = c /\ ~m.readOnly
    BY <1>4 DEF PodAdded, Mounts
  <2>2. Truth(p) = PodAdded(p) /\ p \in Pod
    BY DEF Truth, Live
  <2> HIDE DEF m
  <2>3. m \in stats
    BY <1>1, <2>1, <2>2 DEF Known
  <2> QED
    BY <2>1, <2>3 DEF Written
<1> QED
  BY <1>3, <1>4 DEF Written

\* What vex knows of the mounts once its watches have told it all, and that its
\* requests stay in sight of what is used: for any pods, claims and namespaces.
THEOREM ExpanderCorrect == ASSUME VolumeExpanderAssumption PROVE ExpanderSpec => []ExpanderKeepsUp
<1>1. ExpanderInit => ExpanderIInv
  BY InitExpanderIInv
<1>2. ExpanderIInv /\ [ExpanderNext]_expanderVars => ExpanderIInv'
  BY ExpanderInvariance
<1>3. ExpanderIInv => ExpanderKeepsUp
  BY TableIsTruth DEF ExpanderIInv, ExpanderKeepsUp, Tracks
<1> QED
  BY <1>1, <1>2, <1>3, PTL DEF ExpanderSpec

-----------------------------------------------------------------------------
(* The pod of a worker *)

\* What was built is what the run asks for, if it was not refused.
PlacementInv ==
    /\ TaskType(task) /\ NodeType(node)
    /\ at \notin {"run", "refused"} => built = Built /\ ~Conflicted

LEMMA PlacementInvariance == ASSUME WorkerSpecAssumption PROVE WorkerBehavior => []PlacementInv
<1>1. WorkerInit => PlacementInv
  BY DEF WorkerInit, PlacementInv, WorkerSpecAssumption
<1>2. PlacementInv /\ [WorkerNext]_workerVars => PlacementInv'
  <2> SUFFICES ASSUME PlacementInv, [WorkerNext]_workerVars PROVE PlacementInv'
    OBVIOUS
  <2>1. UNCHANGED <<task, node>>
    BY DEF WorkerNext, workerVars, Build, Submit, Place
  <2>2. TaskType(task)' /\ NodeType(node)' /\ Conflicted' = Conflicted /\ Built' = Built
    BY <2>1 DEF PlacementInv, TaskType, NodeType, Conflicted, Log, Built, AllMounts, MountsOf, Tolerations,
                Tolerates, Required, Affinity
  <2>3. CASE Build
    BY <2>2, <2>3 DEF PlacementInv, Build
  <2>4. CASE Submit \/ Place \/ UNCHANGED workerVars
    <3>1. built' = built /\ (at' \notin {"run", "refused"} => at \notin {"run", "refused"})
      BY <2>4 DEF Submit, Place, workerVars
    <3> QED
      BY <2>2, <3>1 DEF PlacementInv
  <2> QED
    BY <2>3, <2>4 DEF WorkerNext
<1> QED
  BY <1>1, <1>2, PTL DEF WorkerBehavior

\* What a run makes: its outputs, and its log at the end.
LEMMA MadeIs ==
    ASSUME WorkerSpecAssumption, TaskType(task)
    PROVE  /\ Log \in Seq(Data) /\ task.outputs \in Seq(Data) /\ Len(Log) \in 0..1
           /\ Len(Log) = 1 => Log[1] = task.log
           /\ task.outputs \o Log \in Seq(Data) /\ Len(task.outputs \o Log) = Len(task.outputs) + Len(Log)
           /\ \A i \in 1..Len(task.outputs) : (task.outputs \o Log)[i] = task.outputs[i]
           /\ Len(Log) = 1 => (task.outputs \o Log)[Len(task.outputs) + 1] = task.log
<1>1. task.outputs \in Seq(Data) /\ task.log \in Data \cup {Nil}
  BY DEF TaskType
<1>2. Log \in Seq(Data) /\ Len(Log) \in 0..1 /\ (Len(Log) = 1 => Log[1] = task.log)
  BY <1>1 DEF Log
<1> HIDE DEF Log
<1>3. /\ task.outputs \o Log \in Seq(Data) /\ Len(task.outputs \o Log) = Len(task.outputs) + Len(Log)
      /\ \A i \in 1..Len(task.outputs) + Len(Log) :
             (task.outputs \o Log)[i] = IF i <= Len(task.outputs) THEN task.outputs[i] ELSE Log[i - Len(task.outputs)]
  BY <1>1, <1>2, ConcatProperties
<1>4. Len(task.outputs) \in Nat
  BY <1>1
<1> QED
  BY <1>1, <1>2, <1>3, <1>4

\* Of what a run makes the nth has one mount to write it by.
LEMMA OneMountEach ==
    ASSUME WorkerSpecAssumption, TaskType(task), ~Conflicted
    PROVE  LET written == {m \in AllMounts : ~m.ro}
           IN  /\ Cardinality(written) = Len(task.outputs) + Len(Log)
               /\ \A m, n \in written : m.volume = n.volume => m = n
               /\ \A m \in written : m.volume \notin ToSet(task.inputs)
<1> DEFINE made == task.outputs \o Log
           k == Len(task.outputs)
           Mount(i) == [container |-> IF i <= k THEN "main" ELSE "nurse", volume |-> made[i], ro |-> FALSE]
           f == [i \in 1..Len(made) |-> Mount(i)]
           written == {m \in AllMounts : ~m.ro}
<1>1. /\ Log \in Seq(Data) /\ task.outputs \in Seq(Data) /\ Len(Log) \in 0..1 /\ made \in Seq(Data)
      /\ Len(Log) = 1 => Log[1] = task.log
      /\ Len(made) = k + Len(Log) /\ k \in Nat /\ Len(made) \in Nat
      /\ \A i \in 1..k : made[i] = task.outputs[i]
      /\ Len(Log) = 1 => made[k + 1] = task.log
  BY MadeIs
<1>2. \A i, j \in 1..Len(made) : made[i] = made[j] => i = j
  <2>1. IsInjective(made)
    BY DEF Conflicted
  <2> HIDE DEF made
  <2>2. DOMAIN made = 1..Len(made)
    BY <1>1
  <2> QED
    BY <2>1, <2>2 DEF IsInjective
<1>3. written = MountsOf("main", task.outputs, FALSE) \cup MountsOf("nurse", Log, FALSE)
  BY DEF AllMounts, MountsOf
<1>4. \A i \in 1..Len(made) : Mount(i) \in written
  <2> TAKE i \in 1..Len(made)
  <2>1. CASE i <= k
    <3>1. made[i] \in ToSet(task.outputs)
      BY <1>1, <2>1 DEF ToSet
    <3> QED
      BY <1>3, <2>1, <3>1 DEF MountsOf
  <2>2. CASE ~(i <= k)
    <3>1. i = k + 1 /\ Len(Log) = 1
      <4> HIDE DEF made, k
      <4>1. i \in Nat /\ i <= k + Len(Log) /\ (Len(Log) = 0 \/ Len(Log) = 1) /\ k \in Nat
        BY <1>1
      <4>2. CASE Len(Log) = 0
        <5>1. i <= k
          BY <4>1, <4>2
        <5> QED
          BY <2>2, <5>1
      <4>3. CASE Len(Log) = 1
        <5>1. i <= k + 1
          BY <4>1, <4>3
        <5> QED
          BY <2>2, <4>1, <4>3, <5>1
      <4> QED
        BY <4>1, <4>2, <4>3
    <3>2. made[i] \in ToSet(Log)
      BY <1>1, <3>1 DEF ToSet
    <3> QED
      BY <1>3, <2>2, <3>2 DEF MountsOf
  <2> QED
    BY <2>1, <2>2
<1>5. ASSUME NEW m \in written PROVE \E i \in 1..Len(made) : m = Mount(i)
  <2>1. CASE m \in MountsOf("main", task.outputs, FALSE)
    <3>1. PICK i \in 1..k : m = [container |-> "main", volume |-> task.outputs[i], ro |-> FALSE]
      BY <1>1, <2>1 DEF MountsOf, ToSet
    <3>2. i \in 1..Len(made) /\ i <= k /\ made[i] = task.outputs[i]
      BY <1>1
    <3> QED
      BY <3>1, <3>2
  <2>2. CASE m \in MountsOf("nurse", Log, FALSE)
    <3>1. Len(Log) = 1 /\ m = [container |-> "nurse", volume |-> task.log, ro |-> FALSE]
      BY <1>1, <2>2 DEF MountsOf, ToSet
    <3>2. k + 1 \in 1..Len(made) /\ ~(k + 1 <= k) /\ made[k + 1] = task.log
      BY <1>1, <3>1
    <3> QED
      BY <3>1, <3>2
  <2> QED
    BY <1>3, <1>5, <2>1, <2>2
<1>6. f \in Bijection(1..Len(made), written)
  <2> HIDE DEF written, made, k
  <2>1. f \in [1..Len(made) -> written]
    BY <1>4
  <2>2. \A i, j \in 1..Len(made) : f[i] = f[j] => i = j
    BY <1>2
  <2>3. \A m \in written : \E i \in 1..Len(made) : f[i] = m
    BY <1>5
  <2> QED
    BY <2>1, <2>2, <2>3 DEF Bijection, Injection, Surjection, IsInjective
<1>7. Cardinality(written) = Len(made)
  <2>1. IsFiniteSet(1..Len(made)) /\ Cardinality(1..Len(made)) = Len(made)
    <3>1. Len(made) \in Nat
      BY <1>1
    <3> HIDE DEF made
    <3>2. 1 \in Int /\ Len(made) \in Int
      BY <3>1
    <3>3. ASSUME NEW n \in Nat PROVE IsFiniteSet(1..n) /\ Cardinality(1..n) = n
      <4>1. /\ IsFiniteSet(1..n)
            /\ Cardinality(1..n) = IF 1 > n THEN 0 ELSE n - 1 + 1
        BY FS_Interval
      <4> QED
        BY <4>1
    <3> QED
      BY <3>1, <3>3
  <2>2. ExistsBijection(1..Len(made), written)
    BY <1>6 DEF ExistsBijection
  <2> HIDE DEF written, made
  <2> QED
    BY <2>1, <2>2, FS_Bijection
<1>8. \A m, n \in written : m.volume = n.volume => m = n
  <2> TAKE m, n \in written
  <2>1. PICK i \in 1..Len(made) : m = Mount(i)
    BY <1>5
  <2>2. PICK j \in 1..Len(made) : n = Mount(j)
    BY <1>5
  <2> HIDE DEF written, made, k
  <2>3. m.volume = made[i] /\ n.volume = made[j]
    BY <2>1, <2>2
  <2> QED
    BY <1>2, <2>1, <2>2, <2>3
<1>9. \A m \in written : m.volume \notin ToSet(task.inputs)
  <2> TAKE m \in written
  <2>1. m.volume \in ToSet(task.outputs) \cup {task.log}
    BY <1>1, <1>3 DEF MountsOf, ToSet
  <2> QED
    BY <2>1 DEF TaskType
<1> QED
  BY <1>1, <1>7, <1>8, <1>9

LEMMA PlacementIsRight == ASSUME WorkerSpecAssumption, PlacementInv PROVE OneWriter /\ PlacedAsAsked
<1>1. OneWriter
  <2> SUFFICES ASSUME at \in {"built", "pending", "placed"} PROVE OneWriter
    BY DEF OneWriter
  <2>1. TaskType(task) /\ ~Conflicted /\ built.mounts = AllMounts
    <3>1. TaskType(task) /\ ~Conflicted /\ built = Built
      BY DEF PlacementInv
    <3> QED
      BY <3>1 DEF Built
  <2> QED
    BY <2>1, OneMountEach DEF OneWriter
<1>2. PlacedAsAsked
  <2> SUFFICES ASSUME at = "pending" PROVE PlacedAsAsked
    BY DEF PlacedAsAsked
  <2>1. /\ TaskType(task) /\ NodeType(node) /\ built.tolerations = Tolerations /\ built.required = Required
        /\ task.onNode \in SUBSET OnNode
    BY DEF PlacementInv, Built, TaskType
  <2>2. ASSUME NEW t \in node.taints, t.effect = "NoSchedule"
        PROVE  t \in Tolerations <=> \E o \in task.onNode : o.key = t.key /\ o.value = t.value
    <3>1. t \in Taint
      BY <2>1 DEF NodeType
    <3>2. t = [key |-> t.key, value |-> t.value, effect |-> "NoSchedule"]
      BY <2>2, <3>1 DEF Taint
    <3> QED
      BY <2>1, <2>2, <3>2 DEF Tolerations, Tolerates
  <2>3. (\A term \in Required : node.labels[term.key] \in term.values)
        <=> \A o \in task.onNode : o.mode = "must" =>
                \E p \in task.onNode : p.mode = "must" /\ p.key = o.key /\ node.labels[o.key] = p.value
    <3> DEFINE of == {o \in task.onNode : o.mode = "must"}
               Term(key) == [key |-> key, values |-> {o.value : o \in {x \in of : x.key = key}}]
    <3>1. Required = {Term(key) : key \in {o.key : o \in of}}
      BY DEF Required, Affinity
    <3>2. \A key : node.labels[key] \in Term(key).values <=> \E p \in of : p.key = key /\ node.labels[key] = p.value
      OBVIOUS
    <3>3. \A key : Term(key).key = key
      OBVIOUS
    <3> HIDE DEF Term
    <3>4. (\A term \in Required : node.labels[term.key] \in term.values)
          <=> \A o \in of : \E p \in of : p.key = o.key /\ node.labels[o.key] = p.value
      BY <3>1, <3>2, <3>3
    <3> QED
      BY <3>4
  <2>4. Fits <=> /\ \A t \in node.taints : t.effect = "NoSchedule" => t \in Tolerations
                 /\ \A term \in Required : node.labels[term.key] \in term.values
    BY <2>1 DEF Fits
  <2> QED
    BY <2>2, <2>3, <2>4 DEF PlacedAsAsked
<1> QED
  BY <1>1, <1>2

-----------------------------------------------------------------------------
(* The status of a Job *)

\* What the loop over the es knows of controller c after the first n of them.
LatestAfter(es, latest, n, c) ==
    /\ latest[c] \in 0..n
    /\ latest[c] = 0 => \A k \in 1..n : es[k].ctl # c
    /\ latest[c] # 0 => /\ es[latest[c]].ctl = c
                        /\ \A k \in 1..n : es[k].ctl = c => Seen(es[k]) <= Seen(es[latest[c]])

\* One step of the loop.
LEMMA LatestStep ==
    ASSUME NEW es \in Seq(Event), NEW n \in Nat, n + 1 <= Len(es), NEW m \in [Controller -> Nat],
           \A c \in Controller : LatestAfter(es, m, n, c), NEW c \in Controller
    PROVE  LatestAfter(es, [m EXCEPT ![es[n + 1].ctl] = Newer(es, m[es[n + 1].ctl], n + 1)], n + 1, c)
<1> DEFINE e == es[n + 1]
           m2 == [m EXCEPT ![e.ctl] = Newer(es, m[e.ctl], n + 1)]
<1> SUFFICES LatestAfter(es, m2, n + 1, c)
  OBVIOUS
<1>1. \A k \in 1..n + 1 : es[k] \in Event
  OBVIOUS
<1>2. \A k \in 1..n + 1 : Seen(es[k]) \in Nat /\ es[k].ctl \in Controller
  BY <1>1 DEF Event, Seen
<1>3. e.ctl \in Controller /\ n + 1 \in 1..n + 1
  BY <1>2
<1>4. LatestAfter(es, m, n, c) /\ m[c] \in 0..n
  BY DEF LatestAfter
<1>5. CASE c # e.ctl
  <2>1. m2[c] = m[c]
    BY <1>5
  <2>2. \A k \in 1..n + 1 : k \in 1..n \/ es[k].ctl # c
    BY <1>5
  <2> HIDE DEF m2, e
  <2> QED
    BY <1>4, <2>1, <2>2 DEF LatestAfter
<1>6. CASE c = e.ctl
  <2>1. m2[c] = Newer(es, m[c], n + 1)
    BY <1>6
  <2> HIDE DEF m2
  <2>2. CASE m[c] = 0 \/ Seen(e) > Seen(es[m[c]])
    <3>1. m2[c] = n + 1
      BY <2>1, <2>2 DEF Newer
    <3>2. ASSUME NEW k \in 1..n + 1, es[k].ctl = c PROVE Seen(es[k]) <= Seen(e)
      <4>1. CASE k = n + 1
        BY <1>2, <4>1
      <4>2. CASE k \in 1..n
        <5>1. m[c] # 0 /\ Seen(es[k]) <= Seen(es[m[c]])
          BY <1>4, <3>2, <4>2 DEF LatestAfter
        <5>2. m[c] \in 1..n + 1
          BY <1>4, <5>1
        <5>3. Seen(es[k]) \in Nat /\ Seen(es[m[c]]) \in Nat /\ Seen(e) \in Nat
          BY <1>2, <1>3, <5>2
        <5> QED
          BY <2>2, <5>1, <5>3
      <4> QED
        BY <4>1, <4>2
    <3> QED
      BY <1>3, <1>6, <3>1, <3>2 DEF LatestAfter
  <2>3. CASE ~(m[c] = 0 \/ Seen(e) > Seen(es[m[c]]))
    <3>1. m2[c] = m[c] /\ m[c] \in 1..n /\ m[c] \in 0..n + 1 /\ m[c] \in 1..n + 1
      BY <1>4, <2>1, <2>3 DEF Newer
    <3>2. ASSUME NEW k \in 1..n + 1, es[k].ctl = c PROVE Seen(es[k]) <= Seen(es[m[c]])
      <4>1. CASE k = n + 1
        <5>1. Seen(e) \in Nat /\ Seen(es[m[c]]) \in Nat /\ ~(Seen(e) > Seen(es[m[c]]))
          BY <1>2, <1>3, <2>3, <3>1
        <5> QED
          BY <4>1, <5>1
      <4>2. CASE k \in 1..n
        BY <1>4, <2>3, <3>2, <4>2 DEF LatestAfter
      <4> QED
        BY <4>1, <4>2
    <3>3. es[m[c]].ctl = c
      BY <1>4, <2>3 DEF LatestAfter
    <3> QED
      BY <2>3, <3>1, <3>2, <3>3 DEF LatestAfter
  <2> QED
    BY <2>2, <2>3
<1> QED
  BY <1>5, <1>6

\* The loop finds the latest event of each controller that has one.
LEMMA LatestIs ==
    ASSUME NEW es \in Seq(Event)
    PROVE  \A c \in Controller : LatestAfter(es, Latest(es), Len(es), c)
<1> DEFINE
      S == [Controller -> Nat]
      s == [c \in Controller |-> 0]
      Step(m, n) == [m EXCEPT ![es[n].ctl] = Newer(es, m[es[n].ctl], n)]
      G == [n \in Nat |-> [m \in S |-> Step(m, n + 1)]]
      Eq(f) == f = [n \in Nat |-> IF n = 0 THEN s ELSE Step(f[n - 1], n)]
      latest == CHOOSE f : Eq(f)
<1>1. Latest(es) = latest[Len(es)]
  BY DEF Latest
<1>2. ASSUME NEW m \in S, NEW n \in Nat PROVE Step(m, n) \in S
  <2>1. \A c \in Controller : Newer(es, m[c], n) \in Nat
    BY DEF Newer
  <2> QED
    BY <2>1
<1>3. \E f : Eq(f)
  <2> HIDE DEF S, Step
  <2>1. G \in [Nat -> [S -> S]]
    BY <1>2
  <2>2. s \in S
    BY DEF S
  <2> HIDE DEF G, s
  <2>3. PICK f : Unrolls(f, S, s, G)
    BY <2>1, <2>2, Recursion
  <2>4. ASSUME NEW n \in Nat, n # 0 PROVE f[n] = Step(f[n - 1], n)
    <3>1. n - 1 \in Nat /\ (n - 1) + 1 = n /\ f[n - 1] \in S
      BY <2>3, <2>4 DEF Unrolls
    <3>2. f[n] = G[n - 1][f[n - 1]]
      BY <2>3, <3>1 DEF Unrolls
    <3> QED
      BY <3>1, <3>2 DEF G
  <2>5. \A n \in Nat : f[n] = IF n = 0 THEN s ELSE Step(f[n - 1], n)
    BY <2>3, <2>4 DEF Unrolls
  <2> QED
    BY <2>3, <2>5 DEF Unrolls
<1>4. Eq(latest)
  <2> HIDE DEF Eq
  <2> QED
    BY <1>3
<1>5. latest[0] = s /\ \A n \in Nat : latest[n + 1] = Step(latest[n], n + 1)
  <2> HIDE DEF latest, s, Step
  <2>1. \A n \in Nat : n + 1 \in Nat /\ n + 1 # 0 /\ (n + 1) - 1 = n
    OBVIOUS
  <2> QED
    BY <1>4, <2>1
<1> HIDE DEF latest
<1> DEFINE
      Right(n) == latest[n] \in S /\ \A c \in Controller : LatestAfter(es, latest[n], n, c)
      N == {n \in Nat : n <= Len(es) => Right(n)}
<1>6. 0 \in N
  BY <1>5 DEF LatestAfter
<1>7. ASSUME NEW n \in Nat, n \in N PROVE n + 1 \in N
  <2> SUFFICES ASSUME n + 1 <= Len(es) PROVE Right(n + 1)
    OBVIOUS
  <2>1. n <= Len(es)
    OBVIOUS
  <2>2. latest[n] \in S /\ \A c \in Controller : LatestAfter(es, latest[n], n, c)
    BY <1>7, <2>1
  <2>3. latest[n + 1] = Step(latest[n], n + 1) /\ latest[n + 1] \in S
    <3>1. latest[n + 1] = Step(latest[n], n + 1)
      BY <1>5
    <3>2. n + 1 \in Nat
      OBVIOUS
    <3> HIDE DEF Step, S
    <3> QED
      BY <1>2, <2>2, <3>1, <3>2
  <2>4. \A c \in Controller : LatestAfter(es, Step(latest[n], n + 1), n + 1, c)
    BY <2>2, LatestStep
  <2> QED
    BY <2>3, <2>4
<1>8. Len(es) \in N
  <2> HIDE DEF N
  <2> QED
    BY <1>6, <1>7, NatInd
<1>9. Right(Len(es))
  BY <1>8
<1> QED
  BY <1>1, <1>9

LEMMA UnsurpassedIs ==
    ASSUME NEW es \in Seq(Event), NEW i \in DOMAIN es
    PROVE  Unsurpassed(es, i) <=> \A k \in DOMAIN es : es[k].ctl = es[i].ctl => Seen(es[k]) <= Seen(es[i])
<1>1. \A k \in DOMAIN es : es[k] \in Event
  OBVIOUS
<1>2. ASSUME NEW e \in Event, NEW d \in Event
      PROVE  (\A t \in SeenAt(e) : \E u \in SeenAt(d) : u >= t) <=> Seen(e) <= Seen(d)
  <2> DEFINE Until(x) == IF x.series # NoTime THEN x.series ELSE x.time
  <2>1. \A x \in Event : x.last \in Nat /\ Until(x) \in Nat
    BY DEF Event
  <2>2. \A x : SeenAt(x) = {x.last, Until(x)} /\ Seen(x) = IF x.last > Until(x) THEN x.last ELSE Until(x)
    BY DEF SeenAt, Seen
  <2> HIDE DEF Until
  <2>3. e.last \in Nat /\ Until(e) \in Nat /\ d.last \in Nat /\ Until(d) \in Nat
    BY <2>1
  <2>4. (\A t \in SeenAt(e) : \E u \in SeenAt(d) : u >= t)
        <=> (d.last >= e.last \/ Until(d) >= e.last) /\ (d.last >= Until(e) \/ Until(d) >= Until(e))
    BY <2>2
  <2> QED
    BY <2>2, <2>3, <2>4
<1> QED
  BY <1>1, <1>2 DEF Unsurpassed

\* What is significant warns only if the newest event of a controller does, and
\* does if all of its newest do.
LEMMA SignificantIs ==
    ASSUME NEW es \in Seq(Event)
    PROVE  /\ Significant(es) = "Warning" => \E i \in DOMAIN es : es[i].type = "Warning" /\ Unsurpassed(es, i)
           /\ (\E i \in DOMAIN es :
                   /\ es[i].type = "Warning" /\ Unsurpassed(es, i)
                   /\ \A k \in DOMAIN es : es[k].ctl = es[i].ctl /\ Unsurpassed(es, k) => es[k].type = "Warning")
              => Significant(es) = "Warning"
<1> DEFINE latest == Latest(es)
<1>1. \A c \in Controller : LatestAfter(es, latest, Len(es), c)
  BY LatestIs
<1>2. Significant(es) = "Warning" <=> \E c \in Controller : latest[c] # 0 /\ es[latest[c]].type = "Warning"
  BY DEF Significant
<1>3. DOMAIN es = 1..Len(es) /\ Len(es) \in Nat /\ \A i \in DOMAIN es : es[i].ctl \in Controller
  <2>1. \A i \in DOMAIN es : es[i] \in Event
    OBVIOUS
  <2>2. \A e \in Event : e.ctl \in Controller
    BY DEF Event
  <2> QED
    BY <2>1, <2>2
<1> HIDE DEF latest
<1>4. ASSUME NEW c \in Controller, latest[c] # 0
      PROVE  latest[c] \in DOMAIN es /\ es[latest[c]].ctl = c /\ Unsurpassed(es, latest[c])
  <2>1. LatestAfter(es, latest, Len(es), c)
    BY <1>1
  <2>2. latest[c] \in DOMAIN es /\ es[latest[c]].ctl = c
    BY <1>3, <1>4, <2>1 DEF LatestAfter
  <2>3. \A k \in DOMAIN es : es[k].ctl = c => Seen(es[k]) <= Seen(es[latest[c]])
    BY <1>3, <1>4, <2>1 DEF LatestAfter
  <2> QED
    BY <2>2, <2>3, UnsurpassedIs
<1>5. ASSUME NEW i \in DOMAIN es, \A k \in DOMAIN es : es[k].ctl = es[i].ctl /\ Unsurpassed(es, k) => es[k].type = "Warning"
      PROVE  Significant(es) = "Warning"
  <2>1. es[i].ctl \in Controller /\ latest[es[i].ctl] # 0
    BY <1>1, <1>3 DEF LatestAfter
  <2> QED
    BY <1>2, <1>4, <1>5, <2>1
<1> QED
  BY <1>2, <1>4, <1>5

\* What was reported is what the Job is.
WorkloadInv == job \in JobType /\ (seen = Unseen \/ seen = Status(job))

LEMMA WorkloadInvariance == ASSUME WorkloadStatusAssumption PROVE WorkloadBehavior => []WorkloadInv
<1>1. WorkloadInit => WorkloadInv
  BY DEF WorkloadInit, WorkloadInv, WorkloadStatusAssumption
<1>2. WorkloadInv /\ [WorkloadNext]_workloadVars => WorkloadInv'
  BY DEF WorkloadInv, WorkloadNext, ObserveJob, workloadVars
<1> QED
  BY <1>1, <1>2, PTL DEF WorkloadBehavior

\* The worst exit code is 0, or that of a container that did not end with 0.
LEMMA WorstIs ==
    ASSUME NEW pods \in Seq(PodOfJob)
    PROVE  IF ExitCodes(pods) \subseteq {0} THEN Worst(pods) = 0 ELSE Worst(pods) \in ExitCodes(pods) \ {0}
<1> DEFINE codes == {0} \cup ExitCodes(pods)
           T == {n \in Nat : 255 - n \in codes}
<1>1. ExitCodes(pods) \subseteq 0..255
  <2>1. ASSUME NEW p \in DOMAIN pods PROVE Range(pods[p].exits) \subseteq 0..255
    <3>1. pods[p] \in PodOfJob
      OBVIOUS
    <3>2. pods[p].exits \in Seq(0..255)
      BY <3>1 DEF PodOfJob
    <3>3. \A S : \A s \in Seq(S) : \A i \in DOMAIN s : s[i] \in S
      OBVIOUS
    <3>4. \A i \in DOMAIN pods[p].exits : pods[p].exits[i] \in 0..255
      BY <3>2, <3>3
    <3> QED
      BY <3>4 DEF Range
  <2> QED
    BY <2>1 DEF ExitCodes
<1> HIDE DEF codes
<1>2. codes \subseteq 0..255 /\ 0 \in codes
  BY <1>1 DEF codes
<1>3. PICK x \in codes : \A y \in codes : x >= y
  <2>1. 255 \in T
    BY <1>2
  <2>2. PICK n \in T : \A k \in T : n <= k
    <3>1. T \in SUBSET Nat /\ T # {}
      BY <2>1
    <3> HIDE DEF T
    <3> QED
      BY <3>1, LeastNat
  <2>3. ASSUME NEW y \in codes PROVE 255 - n >= y
    <3>1. y \in 0..255 /\ 255 - y \in Nat /\ 255 - (255 - y) = y
      BY <1>2
    <3>2. n <= 255 - y /\ n \in Nat
      BY <2>2, <3>1
    <3> QED
      BY <3>1, <3>2
  <2> QED
    BY <2>2, <2>3
<1>4. Worst(pods) \in codes /\ \A y \in codes : Worst(pods) >= y
  <2>1. Worst(pods) = CHOOSE z \in codes : \A y \in codes : z >= y
    BY DEF Worst, Max, codes
  <2> QED
    BY <1>3, <2>1
<1>5. CASE ExitCodes(pods) \subseteq {0}
  BY <1>4, <1>5 DEF codes
<1>6. CASE ~(ExitCodes(pods) \subseteq {0})
  <2>1. PICK c \in ExitCodes(pods) : c # 0
    BY <1>6
  <2>2. c \in 0..255 /\ Worst(pods) \in 0..255 /\ Worst(pods) >= c
    BY <1>1, <1>2, <1>4 DEF codes
  <2>3. Worst(pods) # 0
    BY <2>1, <2>2
  <2> QED
    BY <1>4, <1>6, <2>3 DEF codes
<1> QED
  BY <1>5, <1>6

LEMMA StatusIsReal == ASSUME WorkloadInv PROVE StuckIffWarned /\ EndIsReal
<1>1. SUFFICES ASSUME seen = Status(job), seen # Unseen PROVE StuckIffWarned /\ EndIsReal
  BY DEF WorkloadInv, StuckIffWarned, EndIsReal
<1> DEFINE over == Condition(job.conditions)
           first == CHOOSE i \in over : \A k \in over : i <= k
           kind == job.conditions[first].type
<1>2. job.conditions \in Seq([type : Ended \cup {"Suspended"}, true : BOOLEAN]) /\ job.pods \in Seq(PodOfJob)
  BY DEF WorkloadInv, JobType
<1>3. over \subseteq Nat /\ \A i \in over : job.conditions[i].true /\ job.conditions[i].type \in Ended
  BY <1>2 DEF Condition
<1>4. \A i, k \in over : job.conditions[i].type = job.conditions[k].type
  BY <1>2 DEF WorkloadInv, JobType, Condition, Ended
<1>5. over # {} => first \in over
  <2> HIDE DEF over
  <2> SUFFICES ASSUME over # {} PROVE first \in over
    OBVIOUS
  <2>1. \E i \in over : \A k \in over : i <= k
    BY <1>3, LeastNat
  <2> QED
    BY <2>1
<1>6. seen = IF over # {}
             THEN IF kind = "Complete" THEN [type |-> "Succeeded", code |-> 0]
                  ELSE [type |-> "Failed", code |-> Worst(job.pods)]
             ELSE IF \E i \in DOMAIN job.pods : Stuck(job.pods[i]) THEN [type |-> "Stucking", code |-> 255]
             ELSE IF \E i \in DOMAIN job.pods : job.pods[i].phase # "Pending" THEN [type |-> "Running", code |-> 0]
             ELSE [type |-> "Pending", code |-> 0]
  BY <1>1 DEF Status
<1>7. \A t \in Ended : (\E i \in DOMAIN job.conditions : job.conditions[i].type = t /\ job.conditions[i].true)
                       <=> over # {} /\ kind = t
  <2> TAKE t \in Ended
  <2>1. \A i : i \in over <=> i \in DOMAIN job.conditions /\ job.conditions[i].type \in Ended /\ job.conditions[i].true
    BY DEF Condition
  <2> HIDE DEF over, first
  <2> QED
    BY <1>3, <1>4, <1>5, <2>1
<1>8. over # {} => kind \in Ended
  BY <1>3, <1>5
<1> HIDE DEF over, kind
<1>9. EndIsReal
  <2>1. seen.type = "Succeeded" <=> over # {} /\ kind = "Complete"
    BY <1>6, <1>8 DEF Ended
  <2>2. seen.type = "Failed" <=> over # {} /\ kind = "Failed"
    BY <1>6, <1>8 DEF Ended
  <2>3. seen.type = "Failed" => seen.code = Worst(job.pods)
    BY <1>6
  <2>4. IF ExitCodes(job.pods) \subseteq {0} THEN Worst(job.pods) = 0
        ELSE Worst(job.pods) \in ExitCodes(job.pods) \ {0}
    BY <1>2, WorstIs
  <2> QED
    BY <1>7, <2>1, <2>2, <2>3, <2>4 DEF EndIsReal, Ended
<1>10. StuckIffWarned
  <2> SUFFICES ASSUME seen.type \in {"Stucking", "Running", "Pending"} PROVE StuckIffWarned
    BY DEF StuckIffWarned
  <2>1. seen.type = "Stucking" <=> \E i \in DOMAIN job.pods : Stuck(job.pods[i])
    BY <1>6
  <2>2. \A i \in DOMAIN job.pods : job.pods[i].events \in Seq(Event)
    <3>1. \A i \in DOMAIN job.pods : job.pods[i] \in PodOfJob
      BY <1>2
    <3>2. \A p \in PodOfJob : p.events \in Seq(Event)
      BY DEF PodOfJob
    <3> QED
      BY <3>1, <3>2
  <2>3. seen.type = "Stucking" =>
            \E p \in DOMAIN job.pods :
                LET q == job.pods[p]
                IN  /\ q.phase = "Pending" /\ q.scheduled # "False" /\ q.listed
                    /\ \E i \in DOMAIN q.events : q.events[i].type = "Warning" /\ Unsurpassed(q.events, i)
    BY <2>1, <2>2, SignificantIs DEF Stuck
  <2>4. (\E p \in DOMAIN job.pods :
             LET q == job.pods[p]
             IN  /\ q.phase = "Pending" /\ q.scheduled # "False" /\ q.listed
                 /\ \E i \in DOMAIN q.events :
                        /\ q.events[i].type = "Warning" /\ Unsurpassed(q.events, i)
                        /\ \A k \in DOMAIN q.events :
                               q.events[k].ctl = q.events[i].ctl /\ Unsurpassed(q.events, k)
                                   => q.events[k].type = "Warning")
        => seen.type = "Stucking"
    <3> SUFFICES ASSUME NEW p \in DOMAIN job.pods,
                        job.pods[p].phase = "Pending" /\ job.pods[p].scheduled # "False" /\ job.pods[p].listed,
                        NEW i \in DOMAIN job.pods[p].events,
                        /\ job.pods[p].events[i].type = "Warning" /\ Unsurpassed(job.pods[p].events, i)
                        /\ \A k \in DOMAIN job.pods[p].events :
                               job.pods[p].events[k].ctl = job.pods[p].events[i].ctl /\ Unsurpassed(job.pods[p].events, k)
                                   => job.pods[p].events[k].type = "Warning"
                 PROVE  Stuck(job.pods[p])
      BY <2>1
    <3>1. Significant(job.pods[p].events) = "Warning" /\ job.pods[p].events # <<>>
      BY <2>2, SignificantIs
    <3> QED
      BY <3>1 DEF Stuck
  <2> QED
    BY <2>3, <2>4 DEF StuckIffWarned
<1> QED
  BY <1>9, <1>10

\* Workers are as they were asked for and Jobs as they are told, for any runs,
\* nodes, conditions, pods and events.
THEOREM WorkersCorrect ==
    ASSUME WorkerSpecAssumption, WorkloadStatusAssumption
    PROVE  WorkersBehavior => []WorkersAreReal
<1>1. PlacementInv /\ WorkloadInv => WorkersAreReal
  BY PlacementIsRight, StatusIsReal DEF WorkersAreReal
<1> QED
  BY <1>1, PlacementInvariance, WorkloadInvariance, PTL DEF WorkersBehavior
=============================================================================
