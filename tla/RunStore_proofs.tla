---------------------------- MODULE RunStore_proofs --------------------------
(***************************************************************************)
(* Theorems about RunStore, for any catalog of plans and any sets of       *)
(* identifiers.                                                            *)
(***************************************************************************)
EXTENDS RunStore, TLAPS

\* What hands out identifiers: fresh runs have no row, fresh knit ids are
\* nowhere, and each slot of the new runs gets one.
LEMMA FreshRunsAreFresh ==
    ASSUME NEW k, NEW r \in FreshRuns(k)
    PROVE  r \in Run /\ status[r] = "none"
BY DEF FreshRuns, Lowest

LEMMA OwnersAreFresh ==
    ASSUME NEW R, NEW p, NEW owner \in Owners(R, p)
    PROVE  /\ owner \in [DOMAIN owner -> R \X OutputsOf[p]]
           /\ \A d \in DOMAIN owner : d \in KnitId /\ place[d] = "none"
           /\ \A d, e \in DOMAIN owner : owner[d] = owner[e] => d = e
           /\ \A s \in R \X OutputsOf[p] : \E d \in DOMAIN owner : owner[d] = s
BY DEF Owners, Bijection, Injection, Surjection, IsInjective, FreshData, Lowest

-----------------------------------------------------------------------------
(* Type correctness *)

LEMMA AddRunsTypeOK ==
    ASSUME TypeOK, NEW p \in AnyPlan, NEW R \in SUBSET Run,
           NEW inputs \in [R -> Assignment], NEW st \in KnitRunStatus,
           NEW owner \in Owners(R, p), AddRuns(R, p, inputs, st, owner)
    PROVE  /\ status' \in [Run -> KnitRunStatus \cup {"none", "gone"}]
           /\ planOf' \in [Run -> AnyPlan \cup {NoPlan}]
           /\ assign' \in [Run -> Assignment]
           /\ place' \in [KnitId -> {"none", "data", "garbage", "destroyed"}]
           /\ producer' \in [KnitId -> Run \cup {NoRun}]
           /\ outputOf' \in [KnitId -> Output \cup {NoOutput}]
           /\ tags' \in [KnitId -> SUBSET Tag]
           /\ stamped' \subseteq KnitId
<1>1. owner \in [DOMAIN owner -> R \X OutputsOf[p]]
  BY OwnersAreFresh
<1>2. OutputsOf[p] \subseteq Output /\ OutputTags \in [Output -> SUBSET Tag]
  BY CatalogAssumption
<1>3. \A d \in DOMAIN owner : owner[d][1] \in Run /\ owner[d][2] \in Output
  BY <1>1, <1>2
<1>4. status' \in [Run -> KnitRunStatus \cup {"none", "gone"}]
  BY DEF AddRuns, TypeOK
<1>5. planOf' \in [Run -> AnyPlan \cup {NoPlan}]
  BY DEF AddRuns, TypeOK
<1>6. assign' \in [Run -> Assignment]
  BY DEF AddRuns, TypeOK
<1>7. place' \in [KnitId -> {"none", "data", "garbage", "destroyed"}]
  BY DEF AddRuns, TypeOK
<1>8. producer' \in [KnitId -> Run \cup {NoRun}]
  BY <1>3 DEF AddRuns, TypeOK
<1>9. outputOf' \in [KnitId -> Output \cup {NoOutput}]
  BY <1>3 DEF AddRuns, TypeOK
<1>10. tags' \in [KnitId -> SUBSET Tag]
  BY <1>2, <1>3 DEF AddRuns, TypeOK
<1>11. stamped' \subseteq KnitId
  BY DEF AddRuns, TypeOK
<1>12. QED
  BY <1>4, <1>5, <1>6, <1>7, <1>8, <1>9, <1>10, <1>11

LEMMA RegisteredInputsAreInputs ==
    ASSUME NEW ps \in SUBSET Plan
    PROVE  RegisteredInputs(ps) \subseteq Input
BY CatalogAssumption DEF RegisteredInputs, AnyPlan

\* What is common to NominateData and NominateMountpoints: rows outside the
\* scope stay as they are, inside it the matching pairs are what is left, and
\* only a pair that was not nominated becomes updated.
LEMMA NominateDataTypeOK ==
    ASSUME TypeOK, NEW ds \in SUBSET KnitId, NEW done, NEW tg, NominateData(ds, done, tg)
    PROVE  nomination' \subseteq Input \X KnitId /\ updated' \subseteq nomination'
BY RegisteredInputsAreInputs DEF NominateData, MatchingPairs, TypeOK

LEMMA NominateMountpointsTypeOK ==
    ASSUME TypeOK, NEW is \in SUBSET Input, NominateMountpoints(is)
    PROVE  nomination' \subseteq Input \X KnitId /\ updated' \subseteq nomination'
BY DEF NominateMountpoints, MatchingPairs, TypeOK

LEMMA TruncateAndTypeOK ==
    ASSUME TypeOK, NEW r \in Run, NEW st \in KnitRunStatus \cup {"gone"}, NEW owner,
           owner = <<>> \/ \E p \in AnyPlan : owner \in Owners({r}, p),
           TruncateAnd(r, st, owner), worker' \subseteq Run
    PROVE  TypeOK'
<1> USE DEF TypeOK
<1>1. \A d \in DOMAIN owner : d \in KnitId => owner[d][2] \in Output
  <2>1. CASE owner = <<>>
    BY <2>1
  <2>2. ASSUME NEW p \in AnyPlan, owner \in Owners({r}, p)
        PROVE  \A d \in DOMAIN owner : owner[d][2] \in Output
    <3>1. owner \in [DOMAIN owner -> {r} \X OutputsOf[p]]
      BY <2>2, OwnersAreFresh
    <3>2. OutputsOf[p] \subseteq Output
      BY CatalogAssumption
    <3>3. QED
      BY <3>1, <3>2
  <2>3. QED
    BY <2>1, <2>2
<1>2. OutputTags \in [Output -> SUBSET Tag]
  BY CatalogAssumption
<1>3. status' \in [Run -> KnitRunStatus \cup {"none", "gone"}]
  BY DEF TruncateAnd
<1>4. planOf' \in [Run -> AnyPlan \cup {NoPlan}]
  BY DEF TruncateAnd
<1>5. assign' \in [Run -> Assignment]
  BY DEF TruncateAnd, NoAssignment, Assignment
<1>6. place' \in [KnitId -> {"none", "data", "garbage", "destroyed"}]
  BY DEF TruncateAnd
<1>7. producer' \in [KnitId -> Run \cup {NoRun}]
  BY DEF TruncateAnd
<1>8. outputOf' \in [KnitId -> Output \cup {NoOutput}]
  BY <1>1 DEF TruncateAnd
<1>9. tags' \in [KnitId -> SUBSET Tag]
  BY <1>1, <1>2 DEF TruncateAnd
<1>10. /\ stamped' \subseteq KnitId /\ agents' \subseteq KnitId \X Mode
       /\ nomination' \subseteq Input \X KnitId /\ updated' \subseteq nomination'
       /\ registered' \subseteq Plan /\ active' \subseteq registered'
  BY DEF TruncateAnd, DropData, planVars
<1>11. QED
  BY <1>3, <1>4, <1>5, <1>6, <1>7, <1>8, <1>9, <1>10

LEMMA TypeOKInit == Init => TypeOK
BY DEF Init, TypeOK, Assignment, NoAssignment

LEMMA NewTypeOK ==
    ASSUME TypeOK, NEW p \in Plan, NEW i \in Input, NEW d \in KnitId, New(p, i, d)
    PROVE  TypeOK'
<1> DEFINE pats == {c \in Patterns(p, i, d) : ~ Known(p, c)}
           R    == FreshRuns(Cardinality(pats))
           st   == IF p \in active THEN "waiting" ELSE "deactivated"
<1>1. PICK inputs \in Bijection(R, pats), owner \in Owners(R, p) :
         AddRuns(R, p, inputs, st, owner)
  BY DEF New
<1>2. R \in SUBSET Run /\ st \in KnitRunStatus /\ p \in AnyPlan
  BY FreshRunsAreFresh DEF KnitRunStatus, AnyPlan
<1>3. inputs \in [R -> Assignment]
  BY <1>1 DEF Bijection, Injection, Patterns
<1> HIDE DEF pats, R, st
<1>4. /\ status' \in [Run -> KnitRunStatus \cup {"none", "gone"}]
      /\ planOf' \in [Run -> AnyPlan \cup {NoPlan}]
      /\ assign' \in [Run -> Assignment]
      /\ place' \in [KnitId -> {"none", "data", "garbage", "destroyed"}]
      /\ producer' \in [KnitId -> Run \cup {NoRun}]
      /\ outputOf' \in [KnitId -> Output \cup {NoOutput}]
      /\ tags' \in [KnitId -> SUBSET Tag]
      /\ stamped' \subseteq KnitId
  BY <1>1, <1>2, <1>3, AddRunsTypeOK
<1>5. /\ worker' \subseteq Run /\ registered' \subseteq Plan /\ active' \subseteq registered'
      /\ agents' \subseteq KnitId \X Mode
      /\ nomination' \subseteq Input \X KnitId /\ updated' \subseteq nomination'
  BY <1>2 DEF New, TypeOK, planVars, R, pats
<1>6. QED
  BY <1>4, <1>5 DEF TypeOK

LEMMA NewPseudoTypeOK ==
    ASSUME TypeOK, NEW p \in PseudoPlan, NewPseudo(p)
    PROVE  TypeOK'
<1>0. PICK r \in FreshRuns(1) : \E owner \in Owners({r}, p) :
         AddRuns({r}, p, [q \in {r} |-> NoAssignment], "running", owner)
  BY DEF NewPseudo
<1>1. PICK owner \in Owners({r}, p) :
         AddRuns({r}, p, [q \in {r} |-> NoAssignment], "running", owner)
  BY <1>0
<1>2. {r} \in SUBSET Run /\ "running" \in KnitRunStatus /\ p \in AnyPlan
  BY FreshRunsAreFresh DEF KnitRunStatus, AnyPlan
<1>3. [q \in {r} |-> NoAssignment] \in [{r} -> Assignment]
  BY DEF NoAssignment, Assignment
<1>4. /\ status' \in [Run -> KnitRunStatus \cup {"none", "gone"}]
      /\ planOf' \in [Run -> AnyPlan \cup {NoPlan}]
      /\ assign' \in [Run -> Assignment]
      /\ place' \in [KnitId -> {"none", "data", "garbage", "destroyed"}]
      /\ producer' \in [KnitId -> Run \cup {NoRun}]
      /\ outputOf' \in [KnitId -> Output \cup {NoOutput}]
      /\ tags' \in [KnitId -> SUBSET Tag]
      /\ stamped' \subseteq KnitId
  BY <1>1, <1>2, <1>3, AddRunsTypeOK
<1>5. QED
  BY <1>4 DEF NewPseudo, TypeOK, planVars, nomVars

LEMMA TypeOKStep ==
    ASSUME TypeOK, [Next]_vars
    PROVE  TypeOK'
<1>1. CASE UNCHANGED vars
  BY <1>1 DEF TypeOK, vars, planVars, runVars, dataVars, nomVars
<1>2. ASSUME NEW p \in Plan, NEW b \in BOOLEAN, Register(p, b)
      PROVE  TypeOK'
  <2>1. InputsOf[p] \in SUBSET Input
    BY CatalogAssumption DEF AnyPlan
  <2>2. nomination' \subseteq Input \X KnitId /\ updated' \subseteq nomination'
    BY <1>2, <2>1, NominateMountpointsTypeOK DEF Register
  <2>3. QED
    BY <1>2, <2>2 DEF Register, TypeOK, runVars, dataVars
<1>3. ASSUME NEW p \in Plan, NEW b \in BOOLEAN, Activate(p, b)
      PROVE  TypeOK'
  <2>1. status' \in [Run -> KnitRunStatus \cup {"none", "gone"}]
    BY <1>3 DEF Activate, TypeOK, GetRunStatusesForPlanActivate, KnitRunStatus
  <2>2. QED
    BY <1>3, <2>1 DEF Activate, TypeOK, dataVars, nomVars
<1>4. ASSUME NEW p \in Plan, NEW i \in Input, NEW d \in KnitId, New(p, i, d)
      PROVE  TypeOK'
  BY <1>4, NewTypeOK
<1>5. ASSUME NEW p \in PseudoPlan, NewPseudo(p)
      PROVE  TypeOK'
  BY <1>5, NewPseudoTypeOK
<1>6. ASSUME NEW r \in Run, NEW st \in KnitRunStatus, SetStatus(r, st)
      PROVE  TypeOK'
  BY <1>6 DEF SetStatus, TypeOK, planVars, dataVars, nomVars
<1>7. ASSUME NEW r \in Run, Finish(r)
      PROVE  TypeOK'
  <2>1. Outs(r) \in SUBSET KnitId
    BY DEF Outs
  <2>2. nomination' \subseteq Input \X KnitId /\ updated' \subseteq nomination'
    BY <1>7, <2>1, NominateDataTypeOK DEF Finish, TypeOK, nomVars
  <2>3. QED
    BY <1>7, <2>1, <2>2
       DEF Finish, Stamp, FinishedStatus, TypeOK, planVars, KnitRunStatus
<1>8. ASSUME NEW r \in Run, DeleteWorker(r)
      PROVE  TypeOK'
  BY <1>8 DEF DeleteWorker, TypeOK, planVars, dataVars, nomVars
<1>9. ASSUME NEW r \in Run, Delete(r)
      PROVE  TypeOK'
  <2>1. PICK st \in {"gone", "invalidated"} : TruncateAnd(r, st, <<>>)
    BY <1>9 DEF Delete
  <2>2. QED
    BY <1>9, <2>1, TruncateAndTypeOK DEF Delete, TypeOK, KnitRunStatus
<1>10. ASSUME NEW r \in Run, Retry(r)
       PROVE  TypeOK'
  <2>1. PICK owner \in Owners({r}, planOf[r]) : TruncateAnd(r, "waiting", owner)
    BY <1>10 DEF Retry
  <2>2. planOf[r] \in AnyPlan /\ worker' \subseteq Run
    BY <1>10 DEF Retry, TypeOK, AnyPlan
  <2>3. QED
    BY <2>1, <2>2, TruncateAndTypeOK DEF KnitRunStatus
<1>11. ASSUME NEW d \in KnitId, NEW T \in SUBSET Tag, UpdateTag(d, T)
       PROVE  TypeOK'
  <2>1. nomination' \subseteq Input \X KnitId /\ updated' \subseteq nomination'
    BY <1>11, NominateDataTypeOK DEF UpdateTag
  <2>2. tags' \in [KnitId -> SUBSET Tag]
    BY <1>11 DEF UpdateTag, TypeOK
  <2>3. QED
    BY <1>11, <2>1, <2>2 DEF UpdateTag, TypeOK, planVars, runVars
<1>12. ASSUME NEW d \in KnitId, NEW m \in Mode, NewAgent(d, m) \/ RemoveAgent(d, m)
       PROVE  TypeOK'
  BY <1>12 DEF NewAgent, RemoveAgent, TypeOK, planVars, runVars, dataVars, nomVars
<1>13. ASSUME NEW d \in KnitId, Pop(d)
       PROVE  TypeOK'
  BY <1>13 DEF Pop, TypeOK, planVars, runVars, nomVars
<1>14. QED
  BY <1>1, <1>2, <1>3, <1>4, <1>5, <1>6, <1>7, <1>8, <1>9, <1>10, <1>11, <1>12, <1>13
     DEF Next, PlanStep, RunStep, DataStep

\* Every table holds what its columns say, in every reachable state.
THEOREM TypeCorrect == Spec => []TypeOK
<1>1. Init => TypeOK
  BY TypeOKInit
<1>2. TypeOK /\ [Next]_vars => TypeOK'
  BY TypeOKStep
<1>3. QED
  BY <1>1, <1>2, PTL DEF Spec

-----------------------------------------------------------------------------
(* How each operation changes the data of done runs *)

LEMMA SameDoneData ==
    ASSUME UNCHANGED <<place, producer>>,
           \A r \in Run : status'[r] = "done" <=> status[r] = "done"
    PROVE  DoneData' = DoneData
BY DEF DoneData, Outs

LEMMA DoneDataInTable ==
    ASSUME NEW d \in DoneData
    PROVE  d \in KnitId /\ place[d] = "data" /\ producer[d] \in Run
           /\ status[producer[d]] = "done"
BY DEF DoneData, Outs

LEMMA AddRunsDoneData ==
    ASSUME TypeOK, ReferencesIntact, NEW p \in AnyPlan, NEW R \in SUBSET Run,
           \A r \in R : status[r] = "none",
           NEW inputs, NEW st \in {"waiting", "deactivated", "running"},
           NEW owner \in Owners(R, p), AddRuns(R, p, inputs, st, owner)
    PROVE  DoneData' = DoneData /\ \A d \in DoneData : tags'[d] = tags[d]
<1>1. \A d \in DOMAIN owner : d \in KnitId /\ place[d] = "none" /\ owner[d][1] \in R
  BY OwnersAreFresh
<1>2. \A r \in Run : status'[r] = "done" <=> status[r] = "done"
  BY DEF AddRuns, TypeOK
<1>3. \A r \in Run : status'[r] = "done" => r \notin R
  BY DEF AddRuns, TypeOK
<1>4. ASSUME NEW r \in Run, r \notin R
      PROVE  Outs(r)' = Outs(r)
  <2>1. \A d \in KnitId : d \in Outs(r)' <=> d \in Outs(r)
    BY <1>1, <1>4 DEF Outs, AddRuns, TypeOK
  <2>2. QED
    BY <2>1 DEF Outs
<1>5. DoneData' = DoneData
  BY <1>2, <1>3, <1>4 DEF DoneData
<1>6. \A d \in DoneData : tags'[d] = tags[d]
  BY <1>1, DoneDataInTable DEF AddRuns
<1>7. QED
  BY <1>5, <1>6

LEMMA FinishDoneData ==
    ASSUME TypeOK, NEW r \in Run, Finish(r)
    PROVE  /\ status[r] = "completing" => DoneData' = DoneData \cup Outs(r)
           /\ status[r] = "aborting" => DoneData' = DoneData
           /\ \A q \in Run : Outs(q)' = Outs(q)
<1>1. \A q \in Run : Outs(q)' = Outs(q)
  BY DEF Finish, Outs
<1>2. \A q \in Run : q # r => status'[q] = status[q]
  BY DEF Finish, TypeOK
<1>3. status'[r] = FinishedStatus(status[r]) /\ status[r] # "done"
  BY DEF Finish, TypeOK
<1>4. ASSUME status[r] = "completing"
      PROVE  DoneData' = DoneData \cup Outs(r)
  <2>1. status'[r] = "done"
    BY <1>3, <1>4 DEF FinishedStatus
  <2>2. \A d \in KnitId : d \in DoneData' <=> d \in DoneData \cup Outs(r)
    BY <1>1, <1>2, <2>1 DEF DoneData
  <2>3. QED
    BY <2>2 DEF DoneData, Outs
<1>5. ASSUME status[r] = "aborting"
      PROVE  DoneData' = DoneData
  <2>1. status'[r] = "failed"
    BY <1>3, <1>5 DEF FinishedStatus
  <2>2. QED
    BY <1>1, <1>2, <1>3, <2>1 DEF DoneData
<1>6. QED
  BY <1>1, <1>4, <1>5

LEMMA TruncateAndDoneData ==
    ASSUME TypeOK, NEW r \in Run,
           NEW st \in {"gone", "invalidated", "waiting"}, NEW owner,
           owner = <<>> \/ \E p \in AnyPlan : owner \in Owners({r}, p),
           TruncateAnd(r, st, owner)
    PROVE  /\ DoneData' = DoneData \ Outs(r)
           /\ \A d \in DoneData' : tags'[d] = tags[d]
           /\ \A q \in Run : q # r => Outs(q)' = Outs(q)
<1>1. \A d \in KnitId : d \in DOMAIN owner => place[d] = "none"
  <2>1. CASE owner = <<>>
    BY <2>1, IdentifierAssumption
  <2>2. CASE \E p \in AnyPlan : owner \in Owners({r}, p)
    BY <2>2, OwnersAreFresh
  <2>3. QED
    BY <2>1, <2>2
<1>2. ASSUME NEW q \in Run, q # r
      PROVE  Outs(q)' = Outs(q)
  <2>1. NoRun # q
    BY IdentifierAssumption
  <2>2. \A d \in KnitId : d \in Outs(q)' <=> d \in Outs(q)
    BY <1>1, <1>2, <2>1 DEF TruncateAnd, Outs
  <2>3. QED
    BY <2>2 DEF Outs
<1>3. \A q \in Run : status'[q] = "done" <=> q # r /\ status[q] = "done"
  BY DEF TruncateAnd, Dropped
<1>4. \A q \in Run : q # r => Outs(q) \cap Outs(r) = {}
  BY DEF Outs
<1>5. DoneData' = DoneData \ Outs(r)
  BY <1>2, <1>3, <1>4 DEF DoneData
<1>6. \A d \in DoneData \ Outs(r) : tags'[d] = tags[d]
  BY <1>1, DoneDataInTable DEF TruncateAnd
<1>7. QED
  BY <1>2, <1>5, <1>6

-----------------------------------------------------------------------------
(* The inductive invariant                                                 *)
(*                                                                         *)
(* LineageIntact alone is not inductive: what New mounts is done data      *)
(* because what is nominated is (NominationExact), what Truncate takes     *)
(* away is nobody's input because its consumers leave with it, and their   *)
(* rows leave nothing behind (Blank).                                      *)

\* A run without a row has no plan and no inputs.
Blank ==
    \A r \in Run : ~ Exists(r) => planOf[r] = NoPlan /\ assign[r] = NoAssignment

IInv == TypeOK /\ Blank /\ ReferencesIntact /\ NominationExact /\ LineageIntact

LEMMA IInvInit == Init => IInv
<1> SUFFICES ASSUME Init PROVE IInv
  OBVIOUS
<1>1. TypeOK
  BY TypeOKInit
<1>2. Blank /\ ReferencesIntact
  BY DEF Init, Blank, ReferencesIntact
<1>3. DoneData = {}
  BY DEF Init, DoneData, Outs
<1>4. NominationExact
  BY <1>3 DEF Init, NominationExact, MatchingPairs
<1>5. LineageIntact
  BY DEF Init, LineageIntact, NoAssignment
<1>6. QED
  BY <1>1, <1>2, <1>4, <1>5 DEF IInv

\* Nothing a nomination depends on has changed.
LEMMA NominationKept ==
    ASSUME NominationExact, UNCHANGED <<nomination, registered>>, DoneData' = DoneData,
           \A d \in DoneData : tags'[d] = tags[d]
    PROVE  NominationExact'
BY DEF NominationExact, MatchingPairs

\* Renominating ds is enough when done data and tags changed in ds only.
LEMMA NominateDataExact ==
    ASSUME NominationExact, NEW ds \in SUBSET KnitId, NEW done, NEW tg,
           NominateData(ds, done, tg), tg = tags', registered' = registered,
           done = DoneData', DoneData' \ ds = DoneData \ ds,
           \A d \in DoneData \ ds : tags'[d] = tags[d]
    PROVE  NominationExact'
<1> DEFINE is == RegisteredInputs(registered)
<1>1. \A n : n \in nomination' <=> \/ n \in nomination /\ n[2] \notin ds
                                   \/ n \in MatchingPairs(is, ds, done, tg)
  BY DEF NominateData
<1>2. \A n \in is \X KnitId : n[2] \notin ds =>
         (n \in MatchingPairs(is, KnitId, DoneData, tags)
            <=> n \in MatchingPairs(is, KnitId, done, tg))
  BY DEF MatchingPairs
<1>3. \A n \in is \X KnitId : n[2] \in ds =>
         (n \in MatchingPairs(is, ds, done, tg)
            <=> n \in MatchingPairs(is, KnitId, done, tg))
  BY DEF MatchingPairs
<1>4. \A n : n \in MatchingPairs(is, ds, done, tg) => n \in is \X KnitId /\ n[2] \in ds
  BY DEF MatchingPairs
<1>5. \A x, y, z : MatchingPairs(is, x, y, z) \subseteq is \X x
  BY DEF MatchingPairs
<1>6. nomination' = MatchingPairs(is, KnitId, done, tg)
  BY <1>1, <1>2, <1>3, <1>4, <1>5 DEF NominationExact
<1>7. QED
  BY <1>6 DEF NominationExact

LEMMA NominateMountpointsExact ==
    ASSUME NominationExact, NEW p \in Plan, NominateMountpoints(InputsOf[p]),
           registered' = registered \cup {p}, tags' = tags, DoneData' = DoneData
    PROVE  NominationExact'
<1>1. RegisteredInputs(registered') = RegisteredInputs(registered) \cup InputsOf[p]
  BY DEF RegisteredInputs
<1>2. \A n : n \in nomination' <=> \/ n \in nomination /\ n[1] \notin InputsOf[p]
                                   \/ n \in MatchingPairs(InputsOf[p], KnitId, DoneData, tags)
  BY DEF NominateMountpoints
<1>3. \A n : n \in MatchingPairs(RegisteredInputs(registered'), KnitId, DoneData, tags)
        <=> \/ n \in MatchingPairs(RegisteredInputs(registered), KnitId, DoneData, tags)
            \/ n \in MatchingPairs(InputsOf[p], KnitId, DoneData, tags)
  BY <1>1 DEF MatchingPairs
<1>4. \A n : n \in MatchingPairs(RegisteredInputs(registered), KnitId, DoneData, tags)
             /\ n[1] \in InputsOf[p]
          => n \in MatchingPairs(InputsOf[p], KnitId, DoneData, tags)
  BY DEF MatchingPairs
<1>5. nomination' = MatchingPairs(RegisteredInputs(registered'), KnitId, DoneData, tags)
  BY <1>2, <1>3, <1>4 DEF NominationExact
<1>6. QED
  BY <1>5 DEF NominationExact

LEMMA DropDataExact ==
    ASSUME NominationExact, NEW ds \in SUBSET KnitId, DropData(ds),
           registered' = registered, DoneData' = DoneData \ ds,
           \A d \in DoneData' : tags'[d] = tags[d]
    PROVE  NominationExact'
<1>1. \A n : n \in MatchingPairs(RegisteredInputs(registered), KnitId, DoneData', tags')
        <=> /\ n \in MatchingPairs(RegisteredInputs(registered), KnitId, DoneData, tags)
            /\ n[2] \notin ds
  BY DEF MatchingPairs
<1>2. QED
  BY <1>1 DEF NominationExact, DropData

LEMMA NominatedIsDone ==
    ASSUME NominationExact, NEW i, NEW d, <<i, d>> \in nomination
    PROVE  d \in DoneData /\ i \in RegisteredInputs(registered)
BY DEF NominationExact, MatchingPairs

\* Steps that touch neither the results of done runs nor what runs are made of.
Quiet ==
    /\ DoneData' = DoneData
    /\ \A r \in Run : Exists(r) => Exists(r)'
    /\ UNCHANGED <<registered, planOf, assign, tags, nomination>>

LEMMA QuietKeeps ==
    ASSUME IInv, Quiet, TypeOK', ReferencesIntact'
    PROVE  IInv'
<1>1. NominationExact'
  BY NominationKept DEF IInv, Quiet
<1>2. LineageIntact'
  BY DEF IInv, Quiet, LineageIntact
<1>3. Blank'
  BY DEF IInv, Quiet, Blank, Exists
<1>4. QED
  BY <1>1, <1>2, <1>3 DEF IInv

LEMMA ActivateQuiet ==
    ASSUME IInv, NEW p \in Plan, NEW b \in BOOLEAN, Activate(p, b)
    PROVE  Quiet /\ ReferencesIntact'
<1>1. \A r \in Run : /\ status'[r] = "done" <=> status[r] = "done"
                     /\ Exists(r) => Exists(r)'
  BY DEF Activate, GetRunStatusesForPlanActivate, IInv, TypeOK, Exists
<1>2. DoneData' = DoneData
  BY <1>1, SameDoneData DEF Activate, dataVars
<1>3. ReferencesIntact'
  BY DEF Activate, dataVars, IInv, ReferencesIntact
<1>4. QED
  BY <1>1, <1>2, <1>3 DEF Quiet, Activate, dataVars, nomVars

LEMMA SetStatusQuiet ==
    ASSUME IInv, NEW r \in Run, NEW st \in KnitRunStatus, SetStatus(r, st)
    PROVE  Quiet /\ ReferencesIntact'
<1>1. st \notin {"done", "none", "gone"}
  BY IdentifierAssumption DEF SetStatus
<1>2. status[r] \in KnitRunStatus
  BY DEF IInv, TypeOK, SetStatus, Exists
<1>3. status[r] # "done"
  BY DEF SetStatus, NextStatuses, KnitRunStatus
<1>4. \A q \in Run : /\ status'[q] = "done" <=> status[q] = "done"
                     /\ Exists(q) => Exists(q)'
  BY <1>1, <1>3 DEF SetStatus, IInv, TypeOK, Exists
<1>5. DoneData' = DoneData
  BY <1>4, SameDoneData DEF SetStatus, dataVars
<1>6. ReferencesIntact'
  BY DEF SetStatus, dataVars, IInv, ReferencesIntact
<1>7. QED
  BY <1>4, <1>5, <1>6 DEF Quiet, SetStatus, planVars, dataVars, nomVars

LEMMA DeleteWorkerQuiet ==
    ASSUME IInv, NEW r \in Run, DeleteWorker(r)
    PROVE  Quiet /\ ReferencesIntact'
<1>1. DoneData' = DoneData
  BY SameDoneData DEF DeleteWorker, dataVars
<1>2. ReferencesIntact'
  BY DEF DeleteWorker, dataVars, IInv, ReferencesIntact
<1>3. QED
  BY <1>1, <1>2 DEF Quiet, DeleteWorker, planVars, dataVars, nomVars, Exists

LEMMA AgentQuiet ==
    ASSUME IInv, NEW d \in KnitId, NEW m \in Mode, NewAgent(d, m) \/ RemoveAgent(d, m)
    PROVE  Quiet /\ ReferencesIntact'
<1>1. DoneData' = DoneData
  BY SameDoneData DEF NewAgent, RemoveAgent, dataVars, runVars
<1>2. ReferencesIntact'
  BY DEF NewAgent, RemoveAgent, dataVars, IInv, ReferencesIntact
<1>3. QED
  BY <1>1, <1>2 DEF Quiet, NewAgent, RemoveAgent, planVars, runVars, dataVars, nomVars, Exists

LEMMA PopQuiet ==
    ASSUME IInv, NEW d \in KnitId, Pop(d)
    PROVE  Quiet /\ ReferencesIntact'
<1>1. \A e \in KnitId : place'[e] = "data" <=> place[e] = "data"
  BY DEF Pop, IInv, TypeOK
<1>2. \A r \in Run : Outs(r)' = Outs(r)
  BY <1>1 DEF Pop, Outs
<1>3. DoneData' = DoneData
  BY <1>2 DEF Pop, DoneData, runVars
<1>4. \A n \in agents : n[1] \in KnitId
  BY DEF IInv, TypeOK
<1>5. ReferencesIntact'
  BY <1>1, <1>4 DEF Pop, IInv, ReferencesIntact
<1>6. QED
  BY <1>3, <1>5 DEF Quiet, Pop, planVars, runVars, nomVars, Exists

LEMMA RegisterIInv ==
    ASSUME IInv, NEW p \in Plan, NEW b \in BOOLEAN, Register(p, b), TypeOK'
    PROVE  IInv'
<1>1. DoneData' = DoneData
  BY SameDoneData DEF Register, runVars, dataVars
<1>2. NominationExact'
  BY <1>1, NominateMountpointsExact DEF Register, dataVars, IInv
<1>3. LineageIntact'
  BY <1>1 DEF Register, runVars, IInv, LineageIntact
<1>4. Blank' /\ ReferencesIntact'
  BY DEF Register, runVars, dataVars, IInv, Blank, Exists, ReferencesIntact
<1>5. QED
  BY <1>2, <1>3, <1>4 DEF IInv

\* What New and NewPseudo share: runs whose inputs are done data are added.
LEMMA AddRunsIInv ==
    ASSUME IInv, NEW p \in AnyPlan, NEW R \in SUBSET Run,
           \A r \in R : status[r] = "none",
           NEW inputs \in [R -> Assignment],
           \A r \in R, j \in Input : inputs[r][j] # NoKnitId => inputs[r][j] \in DoneData,
           NEW st \in {"waiting", "deactivated", "running"},
           NEW owner \in Owners(R, p), AddRuns(R, p, inputs, st, owner),
           UNCHANGED <<registered, agents, nomination>>, TypeOK'
    PROVE  IInv'
<1>1. DoneData' = DoneData /\ \A d \in DoneData : tags'[d] = tags[d]
  BY AddRunsDoneData DEF IInv
<1>2. NominationExact'
  BY <1>1, NominationKept DEF IInv
<1>3. LineageIntact'
  BY <1>1 DEF AddRuns, IInv, TypeOK, LineageIntact
<1>4. Blank'
  BY DEF AddRuns, IInv, TypeOK, Blank, Exists
<1>5. \A d \in DOMAIN owner : owner[d][1] \in Run
  BY OwnersAreFresh
<1>6. \A d \in DOMAIN owner : d \in KnitId /\ place[d] = "none"
  BY OwnersAreFresh
<1>7. NoRun \notin Run /\ \A n \in agents : n[1] \in KnitId
  BY IdentifierAssumption DEF IInv, TypeOK
<1>8. \A d \in KnitId : place'[d] = "data" <=> producer'[d] # NoRun
  BY <1>5, <1>6, <1>7 DEF AddRuns, IInv, TypeOK, ReferencesIntact
<1>9. \A n \in agents : place'[n[1]] = "data"
  BY <1>6, <1>7 DEF AddRuns, IInv, ReferencesIntact
<1>10. ReferencesIntact'
  BY <1>8, <1>9 DEF ReferencesIntact
<1>11. QED
  BY <1>2, <1>3, <1>4, <1>10 DEF IInv

LEMMA NewIInv ==
    ASSUME IInv, NEW p \in Plan, NEW i \in Input, NEW d \in KnitId, New(p, i, d), TypeOK'
    PROVE  IInv'
<1> DEFINE pats == {c \in Patterns(p, i, d) : ~ Known(p, c)}
           R    == FreshRuns(Cardinality(pats))
           st   == IF p \in active THEN "waiting" ELSE "deactivated"
<1>1. PICK inputs \in Bijection(R, pats), owner \in Owners(R, p) :
         AddRuns(R, p, inputs, st, owner)
  BY DEF New
<1>2. /\ R \in SUBSET Run /\ p \in AnyPlan /\ st \in {"waiting", "deactivated", "running"}
      /\ \A r \in R : status[r] = "none"
  BY FreshRunsAreFresh DEF AnyPlan
<1>3. inputs \in [R -> Assignment] /\ \A r \in R : inputs[r] \in Patterns(p, i, d)
  BY <1>1 DEF Bijection, Injection, Patterns
<1>4. /\ <<i, d>> \in nomination
      /\ UNCHANGED <<registered, agents, nomination>>
  BY DEF New, IInv, TypeOK, planVars
<1> HIDE DEF pats, R, st
<1>5. ASSUME NEW c \in Patterns(p, i, d), NEW j \in Input, c[j] # NoKnitId
      PROVE  c[j] \in DoneData
  <2>1. <<j, c[j]>> \in nomination
    BY <1>4, <1>5 DEF Patterns
  <2>2. QED
    BY <2>1, NominatedIsDone DEF IInv
<1>6. \A r \in R, j \in Input : inputs[r][j] # NoKnitId => inputs[r][j] \in DoneData
  BY <1>3, <1>5
<1>7. QED
  BY <1>1, <1>2, <1>3, <1>4, <1>6, AddRunsIInv

LEMMA NewPseudoIInv ==
    ASSUME IInv, NEW p \in PseudoPlan, NewPseudo(p), TypeOK'
    PROVE  IInv'
<1>1. PICK r \in FreshRuns(1) : \E owner \in Owners({r}, p) :
         AddRuns({r}, p, [q \in {r} |-> NoAssignment], "running", owner)
  BY DEF NewPseudo
<1>2. PICK owner \in Owners({r}, p) :
         AddRuns({r}, p, [q \in {r} |-> NoAssignment], "running", owner)
  BY <1>1
<1>3. {r} \in SUBSET Run /\ p \in AnyPlan /\ \A q \in {r} : status[q] = "none"
  BY FreshRunsAreFresh DEF AnyPlan
<1> DEFINE inputs == [q \in {r} |-> NoAssignment]
<1>4. inputs \in [{r} -> Assignment] /\ \A q \in {r}, j \in Input : inputs[q][j] = NoKnitId
  BY DEF NoAssignment, Assignment
<1>5. UNCHANGED <<registered, agents, nomination>>
  BY DEF NewPseudo, planVars, nomVars
<1> HIDE DEF inputs
<1>6. AddRuns({r}, p, inputs, "running", owner)
  BY <1>2 DEF inputs
<1>7. QED
  BY <1>3, <1>4, <1>5, <1>6, AddRunsIInv

LEMMA FinishIInv ==
    ASSUME IInv, NEW r \in Run, Finish(r), TypeOK'
    PROVE  IInv'
<1>1. /\ status[r] = "completing" => DoneData' = DoneData \cup Outs(r)
      /\ status[r] = "aborting" => DoneData' = DoneData
      /\ status[r] \in {"completing", "aborting"}
  BY FinishDoneData DEF IInv, Finish
<1>2. Outs(r) \in SUBSET KnitId /\ tags' = tags /\ registered' = registered
  BY DEF Outs, Finish, planVars
<1>3. NominationExact'
  <2>1. CASE status[r] = "completing"
    <3>1. NominateData(Outs(r), DoneData \cup Outs(r), tags)
      BY <2>1 DEF Finish, FinishedStatus
    <3>2. QED
      BY <1>1, <1>2, <2>1, <3>1, NominateDataExact DEF IInv
  <2>2. CASE status[r] = "aborting"
    <3>1. nomination' = nomination
      BY <2>2 DEF Finish, FinishedStatus, nomVars
    <3>2. QED
      BY <1>1, <1>2, <2>2, <3>1, NominationKept DEF IInv
  <2>3. QED
    BY <1>1, <2>1, <2>2
<1>4. LineageIntact'
  BY <1>1 DEF Finish, IInv, LineageIntact
<1>5. \A q \in Run : Exists(q) => Exists(q)'
  BY <1>1 DEF Finish, FinishedStatus, Exists, IInv, TypeOK
<1>6. Blank' /\ ReferencesIntact'
  BY <1>5 DEF Finish, IInv, Blank, ReferencesIntact
<1>7. QED
  BY <1>3, <1>4, <1>6 DEF IInv

LEMMA TruncateAndIInv ==
    ASSUME IInv, NEW r \in Run,
           NEW st \in {"gone", "invalidated", "waiting"}, NEW owner,
           owner = <<>> \/ \E p \in AnyPlan : owner \in Owners({r}, p),
           TruncateAnd(r, st, owner), TypeOK'
    PROVE  IInv'
<1>1. /\ DoneData' = DoneData \ Outs(r)
      /\ \A d \in DoneData' : tags'[d] = tags[d]
  BY TruncateAndDoneData DEF IInv
<1>2. Outs(r) \in SUBSET KnitId /\ registered' = registered /\ DropData(Outs(r))
  BY DEF Outs, TruncateAnd, planVars
<1>3. NominationExact'
  BY <1>1, <1>2, DropDataExact DEF IInv
<1>4. LineageIntact'
  <2> SUFFICES ASSUME NEW q \in Run, NEW i \in Input, assign'[q][i] # NoKnitId
               PROVE  assign'[q][i] \in DoneData'
    BY DEF LineageIntact
  <2>1. q \notin Dropped(r) /\ assign'[q] = assign[q]
    BY DEF TruncateAnd, NoAssignment, IInv, TypeOK
  <2>2. q \notin Consumers(Outs(r))
    BY <2>1 DEF TruncateAnd, Truncatable, Dropped
  <2>3. assign[q][i] \notin Outs(r)
    BY <2>2 DEF Consumers
  <2>4. assign[q][i] \in DoneData
    BY <2>1 DEF IInv, LineageIntact
  <2>5. QED
    BY <1>1, <2>1, <2>3, <2>4
<1>5. Blank'
  BY DEF TruncateAnd, Truncatable, IInv, TypeOK, Blank, Exists
<1>6. \A d \in DOMAIN owner : place[d] = "none" \/ owner = <<>>
  BY OwnersAreFresh
<1>7. \A d \in KnitId : d \in DOMAIN owner => d \notin Outs(r)
  BY <1>6, IdentifierAssumption DEF Outs
<1>8. \A d \in KnitId : place'[d] = "data" <=> producer'[d] # NoRun
  BY <1>7, IdentifierAssumption DEF TruncateAnd, IInv, TypeOK, ReferencesIntact
<1>9. ASSUME NEW n \in agents
      PROVE  place'[n[1]] = "data"
  <2>1. n[1] \in KnitId /\ n[2] \in Mode /\ n = <<n[1], n[2]>>
    BY DEF IInv, TypeOK
  <2>2. n[1] \notin Outs(r) /\ place[n[1]] = "data"
    BY <2>1 DEF TruncateAnd, Truncatable, IInv, ReferencesIntact
  <2>3. QED
    BY <2>1, <2>2 DEF TruncateAnd
<1>10. ReferencesIntact'
  BY <1>8, <1>9 DEF ReferencesIntact, TruncateAnd
<1>11. QED
  BY <1>3, <1>4, <1>5, <1>10 DEF IInv

LEMMA UpdateTagIInv ==
    ASSUME IInv, NEW d \in KnitId, NEW T \in SUBSET Tag, UpdateTag(d, T), TypeOK'
    PROVE  IInv'
<1>1. DoneData' = DoneData
  BY SameDoneData DEF UpdateTag, runVars
<1>2. \A e \in DoneData \ {d} : tags'[e] = tags[e]
  BY DEF UpdateTag, IInv, TypeOK, DoneData
<1>3. NominationExact'
  BY <1>1, <1>2, NominateDataExact DEF UpdateTag, planVars, IInv
<1>4. LineageIntact'
  BY <1>1 DEF UpdateTag, runVars, IInv, LineageIntact
<1>5. Blank' /\ ReferencesIntact'
  BY DEF UpdateTag, runVars, IInv, Blank, Exists, ReferencesIntact
<1>6. QED
  BY <1>3, <1>4, <1>5 DEF IInv

LEMMA IInvStep ==
    ASSUME IInv, [Next]_vars
    PROVE  IInv'
<1>1. TypeOK'
  BY TypeOKStep DEF IInv
<1>2. CASE UNCHANGED vars
  <2>1. DoneData' = DoneData
    BY <1>2, SameDoneData DEF vars, runVars, dataVars
  <2>2. Quiet /\ ReferencesIntact'
    BY <1>2, <2>1 DEF Quiet, vars, planVars, runVars, dataVars, nomVars, IInv, ReferencesIntact, Exists
  <2>3. QED
    BY <1>1, <2>2, QuietKeeps
<1>3. ASSUME NEW p \in Plan, NEW b \in BOOLEAN, Register(p, b)
      PROVE  IInv'
  BY <1>1, <1>3, RegisterIInv
<1>4. ASSUME NEW p \in Plan, NEW b \in BOOLEAN, Activate(p, b)
      PROVE  IInv'
  BY <1>1, <1>4, ActivateQuiet, QuietKeeps
<1>5. ASSUME NEW p \in Plan, NEW i \in Input, NEW d \in KnitId, New(p, i, d)
      PROVE  IInv'
  BY <1>1, <1>5, NewIInv
<1>6. ASSUME NEW p \in PseudoPlan, NewPseudo(p)
      PROVE  IInv'
  BY <1>1, <1>6, NewPseudoIInv
<1>7. ASSUME NEW r \in Run, NEW st \in KnitRunStatus, SetStatus(r, st)
      PROVE  IInv'
  BY <1>1, <1>7, SetStatusQuiet, QuietKeeps
<1>8. ASSUME NEW r \in Run, Finish(r)
      PROVE  IInv'
  BY <1>1, <1>8, FinishIInv
<1>9. ASSUME NEW r \in Run, DeleteWorker(r)
      PROVE  IInv'
  BY <1>1, <1>9, DeleteWorkerQuiet, QuietKeeps
<1>10. ASSUME NEW r \in Run, Delete(r)
       PROVE  IInv'
  BY <1>1, <1>10, TruncateAndIInv DEF Delete
<1>11. ASSUME NEW r \in Run, Retry(r)
       PROVE  IInv'
  <2>1. PICK owner \in Owners({r}, planOf[r]) : TruncateAnd(r, "waiting", owner)
    BY <1>11 DEF Retry
  <2>2. planOf[r] \in AnyPlan
    BY <1>11 DEF Retry, AnyPlan
  <2>3. QED
    BY <1>1, <2>1, <2>2, TruncateAndIInv
<1>12. ASSUME NEW d \in KnitId, NEW T \in SUBSET Tag, UpdateTag(d, T)
       PROVE  IInv'
  BY <1>1, <1>12, UpdateTagIInv
<1>13. ASSUME NEW d \in KnitId, NEW m \in Mode, NewAgent(d, m) \/ RemoveAgent(d, m)
       PROVE  IInv'
  BY <1>1, <1>13, AgentQuiet, QuietKeeps
<1>14. ASSUME NEW d \in KnitId, Pop(d)
       PROVE  IInv'
  BY <1>1, <1>14, PopQuiet, QuietKeeps
<1>15. QED
  BY <1>2, <1>3, <1>4, <1>5, <1>6, <1>7, <1>8, <1>9, <1>10, <1>11, <1>12, <1>13, <1>14
     DEF Next, PlanStep, RunStep, DataStep

THEOREM IInvInvariant == Spec => []IInv
<1>1. Init => IInv
  BY IInvInit
<1>2. IInv /\ [Next]_vars => IInv'
  BY IInvStep
<1>3. QED
  BY <1>1, <1>2, PTL DEF Spec

\* The nomination table never drifts from the relation it caches, whatever
\* the order of registration, finishing, tagging, retry and deletion.
THEOREM NominationCorrect == Spec => []NominationExact
<1>1. IInv => NominationExact
  BY DEF IInv
<1>2. QED
  BY <1>1, IInvInvariant, PTL

\* No operation takes away the data that a run was given.
THEOREM LineageCorrect == Spec => []LineageIntact
<1>1. IInv => LineageIntact
  BY DEF IInv
<1>2. QED
  BY <1>1, IInvInvariant, PTL

\* No agent and no data row outlives what it refers to.
THEOREM ReferencesCorrect == Spec => []ReferencesIntact
<1>1. IInv => ReferencesIntact
  BY DEF IInv
<1>2. QED
  BY <1>1, IInvInvariant, PTL

-----------------------------------------------------------------------------
(* What truncation takes away *)

LEMMA RemovalStep ==
    ASSUME IInv, [Next]_vars
    PROVE  RemovesSafely
<1>1. ASSUME NEW r \in Run, NEW st \in {"gone", "invalidated", "waiting"}, NEW owner,
             TruncateAnd(r, st, owner),
             status[r] \in Finished \cup {"waiting", "deactivated"}
      PROVE  RemovesSafely
  <2> SUFFICES ASSUME NEW d \in KnitId, place[d] = "data", place'[d] # "data"
               PROVE  /\ \A m \in Mode : <<d, m>> \notin agents
                      /\ producer[d] \notin worker
                      /\ status[producer[d]] \in Finished \cup {"waiting", "deactivated"}
                      /\ \A q \in Consumers({d}) : status[q] = "invalidated"
    BY DEF RemovesSafely
  <2>1. d \in Outs(r)
    BY <1>1 DEF TruncateAnd
  <2>2. producer[d] = r
    BY <2>1 DEF Outs
  <2>3. Consumers({d}) \subseteq Consumers(Outs(r))
    BY <2>1 DEF Consumers
  <2>4. QED
    BY <1>1, <2>1, <2>2, <2>3 DEF TruncateAnd, Truncatable
<1>2. CASE \E r \in Run : Delete(r)
  <2>1. PICK r \in Run : Delete(r)
    BY <1>2
  <2>2. PICK st \in {"gone", "invalidated"} : TruncateAnd(r, st, <<>>)
    BY <2>1 DEF Delete
  <2>3. status[r] \in Finished \cup {"waiting", "deactivated"}
    BY <2>1 DEF Delete, Finished
  <2>4. QED
    BY <1>1, <2>2, <2>3
<1>3. CASE \E r \in Run : Retry(r)
  <2>1. PICK r \in Run : Retry(r)
    BY <1>3
  <2>2. QED
    BY <1>1, <2>1 DEF Retry
<1>4. CASE \A d \in KnitId : place[d] = "data" => place'[d] = "data"
  BY <1>4 DEF RemovesSafely
<1>5. CASE \/ \E p \in Plan, i \in Input, d \in KnitId : New(p, i, d)
           \/ \E p \in PseudoPlan : NewPseudo(p)
  <2>1. PICK p, R, inputs, st, owner : AddRuns(R, p, inputs, st, owner)
    BY <1>5 DEF New, NewPseudo
  <2>2. QED
    BY <1>4, <2>1 DEF AddRuns
<1>6. CASE \E d \in KnitId : Pop(d)
  BY <1>4, <1>6 DEF Pop, IInv, TypeOK
<1>7. CASE place' = place
  BY <1>4, <1>7
<1>8. \/ \E r \in Run : Delete(r)
      \/ \E r \in Run : Retry(r)
      \/ \E p \in Plan, i \in Input, d \in KnitId : New(p, i, d)
      \/ \E p \in PseudoPlan : NewPseudo(p)
      \/ \E d \in KnitId : Pop(d)
      \/ place' = place
  BY DEF Next, PlanStep, RunStep, DataStep, Register, Activate, SetStatus, Finish,
         DeleteWorker, UpdateTag, NewAgent, RemoveAgent, vars, dataVars
<1>9. QED
  BY <1>2, <1>3, <1>5, <1>6, <1>7, <1>8

\* Data leaves the data table only when nobody uses it any more.
THEOREM RemovalCorrect == Spec => RemovalIsSafe
<1>1. IInv /\ [Next]_vars => [RemovesSafely]_vars
  BY RemovalStep
<1>2. QED
  BY <1>1, IInvInvariant, PTL DEF Spec, RemovalIsSafe

-----------------------------------------------------------------------------
(* Projection: each combination of matching data, exactly once *)

\* Which steps change what runs are made of.
LEMMA RowSteps ==
    ASSUME [Next]_vars
    PROVE  \/ UNCHANGED <<planOf, assign>>
           \/ \E p \in Plan, i \in Input, d \in KnitId : New(p, i, d)
           \/ \E p \in PseudoPlan : NewPseudo(p)
           \/ \E r \in Run : Delete(r) \/ Retry(r)
BY DEF Next, PlanStep, RunStep, DataStep, Register, Activate, SetStatus, Finish,
       DeleteWorker, UpdateTag, NewAgent, RemoveAgent, Pop, vars, runVars

\* What New adds: runs of p, one for each new pattern.
LEMMA NewRuns ==
    ASSUME IInv, NEW p \in Plan, NEW i \in Input, NEW d \in KnitId, New(p, i, d)
    PROVE  \E R \in SUBSET Run :
              /\ \A r \in R : planOf[r] = NoPlan /\ planOf'[r] = p
              /\ \A r \in R : assign'[r] \in Patterns(p, i, d) /\ ~ Known(p, assign'[r])
              /\ \A q, r \in R : assign'[q] = assign'[r] => q = r
              /\ \A c \in Patterns(p, i, d) : Known(p, c) \/ \E r \in R : assign'[r] = c
              /\ \A r \in Run \ R : planOf'[r] = planOf[r] /\ assign'[r] = assign[r]
<1> DEFINE pats == {c \in Patterns(p, i, d) : ~ Known(p, c)}
           R    == FreshRuns(Cardinality(pats))
           st   == IF p \in active THEN "waiting" ELSE "deactivated"
<1>1. PICK inputs \in Bijection(R, pats), owner \in Owners(R, p) :
         AddRuns(R, p, inputs, st, owner)
  BY DEF New
<1>2. R \in SUBSET Run /\ \A r \in R : ~ Exists(r)
  BY FreshRunsAreFresh DEF Exists
<1>3. /\ inputs \in [R -> pats]
      /\ \A q, r \in R : inputs[q] = inputs[r] => q = r
      /\ \A c \in pats : \E r \in R : inputs[r] = c
  BY <1>1 DEF Bijection, Injection, Surjection, IsInjective
<1> HIDE DEF R, st
<1>4. /\ \A r \in R : planOf'[r] = p /\ assign'[r] = inputs[r]
      /\ \A r \in Run \ R : planOf'[r] = planOf[r] /\ assign'[r] = assign[r]
  BY <1>1, <1>2 DEF AddRuns, IInv, TypeOK
<1>5. \A r \in R : planOf[r] = NoPlan
  BY <1>2 DEF IInv, Blank
<1>6. QED
  BY <1>2, <1>3, <1>4, <1>5

LEMMA NewPseudoRuns ==
    ASSUME IInv, NEW p \in PseudoPlan, NewPseudo(p)
    PROVE  \E r \in Run :
              /\ planOf[r] = NoPlan /\ planOf'[r] = p
              /\ \A q \in Run \ {r} : planOf'[q] = planOf[q] /\ assign'[q] = assign[q]
<1>1. PICK r \in FreshRuns(1) : \E owner \in Owners({r}, p) :
         AddRuns({r}, p, [q \in {r} |-> NoAssignment], "running", owner)
  BY DEF NewPseudo
<1>2. r \in Run /\ ~ Exists(r)
  BY FreshRunsAreFresh DEF Exists
<1>3. planOf'[r] = p /\ \A q \in Run \ {r} : planOf'[q] = planOf[q] /\ assign'[q] = assign[q]
  BY <1>1, <1>2 DEF AddRuns, IInv, TypeOK
<1>4. QED
  BY <1>2, <1>3 DEF IInv, Blank

\* What Delete and Retry take away: rows of runs that had an input among the
\* outputs given up, or of a run without inputs.
LEMMA TruncatedRuns ==
    ASSUME IInv, NEW r \in Run, Delete(r) \/ Retry(r)
    PROVE  /\ \A q \in Run :
                 \/ planOf'[q] = planOf[q] /\ assign'[q] = assign[q]
                 \/ /\ planOf'[q] = NoPlan
                    /\ \/ assign[q] = NoAssignment
                       \/ \E j \in Input : assign[q][j] \in Outs(r)
           /\ nomination' = {n \in nomination : n[2] \notin Outs(r)}
           /\ updated' = {n \in updated : n[2] \notin Outs(r)}
           /\ registered' = registered
<1>1. \E st, owner : /\ TruncateAnd(r, st, owner)
                     /\ st = "gone" => assign[r] = NoAssignment
  BY DEF Delete, Retry
<1>2. PICK st, owner : /\ TruncateAnd(r, st, owner)
                       /\ st = "gone" => assign[r] = NoAssignment
  BY <1>1
<1>3. \A q \in Dropped(r) : \E j \in Input : assign[q][j] \in Outs(r)
  BY DEF Dropped, Consumers
<1>4. QED
  BY <1>2, <1>3 DEF TruncateAnd, DropData, planVars, IInv, TypeOK

LEMMA UniqueStep ==
    ASSUME IInv, ProjectionUnique, [Next]_vars
    PROVE  ProjectionUnique'
<1>1. CASE UNCHANGED <<planOf, assign>>
  BY <1>1 DEF ProjectionUnique
<1>2. ASSUME NEW p \in Plan, NEW i \in Input, NEW d \in KnitId, New(p, i, d)
      PROVE  ProjectionUnique'
  <2>1. PICK R \in SUBSET Run :
              /\ \A r \in R : planOf[r] = NoPlan /\ planOf'[r] = p
              /\ \A r \in R : assign'[r] \in Patterns(p, i, d) /\ ~ Known(p, assign'[r])
              /\ \A q, r \in R : assign'[q] = assign'[r] => q = r
              /\ \A r \in Run \ R : planOf'[r] = planOf[r] /\ assign'[r] = assign[r]
    BY <1>2, NewRuns
  <2>2. ASSUME NEW q \in R, NEW r \in Run \ R, planOf'[r] = p
        PROVE  assign'[q] # assign'[r]
    BY <2>1, <2>2 DEF Known
  <2>3. QED
    BY <2>1, <2>2 DEF ProjectionUnique
<1>3. ASSUME NEW p \in PseudoPlan, NewPseudo(p)
      PROVE  ProjectionUnique'
  BY <1>3, NewPseudoRuns, CatalogAssumption DEF ProjectionUnique
<1>4. ASSUME NEW r \in Run, Delete(r) \/ Retry(r)
      PROVE  ProjectionUnique'
  <2>1. \A q \in Run : \/ planOf'[q] = planOf[q] /\ assign'[q] = assign[q]
                       \/ planOf'[q] = NoPlan
    BY <1>4, TruncatedRuns
  <2>2. NoPlan \notin Plan
    BY IdentifierAssumption DEF AnyPlan
  <2>3. QED
    BY <2>1, <2>2 DEF ProjectionUnique
<1>5. QED
  BY <1>1, <1>2, <1>3, <1>4, RowSteps

\* No combination of inputs is given to two runs of a plan.
THEOREM UniqueCorrect == Spec => []ProjectionUnique
<1>1. Init => ProjectionUnique
  BY IdentifierAssumption DEF Init, ProjectionUnique, AnyPlan
<1>2. IInv /\ ProjectionUnique /\ [Next]_vars => ProjectionUnique'
  BY UniqueStep
<1>3. QED
  BY <1>1, <1>2, IInvInvariant, PTL DEF Spec

\* A pair that is nominated and taken was so before, but for the pair New takes.
LEMMA NominateDataSettles ==
    ASSUME TypeOK, NEW ds, NEW done, NEW tg, NominateData(ds, done, tg)
    PROVE  nomination' \ updated' \subseteq nomination \ updated
BY DEF NominateData, TypeOK

LEMMA NominateMountpointsSettles ==
    ASSUME TypeOK, NEW is, NominateMountpoints(is)
    PROVE  nomination' \ updated' \subseteq nomination \ updated
BY DEF NominateMountpoints, TypeOK

\* A projected combination stays known as long as no row goes away.
LEMMA CompleteIfFewerSettle ==
    ASSUME IInv, ProjectionComplete, registered' = registered,
           nomination' \ updated' \subseteq nomination \ updated,
           \A q \in Run : planOf[q] \in Plan =>
               planOf'[q] = planOf[q] /\ assign'[q] = assign[q]
    PROVE  ProjectionComplete'
<1> SUFFICES ASSUME NEW p \in registered, NEW c \in Assignment, Projected(p, c)'
             PROVE  Known(p, c)'
  BY DEF ProjectionComplete
<1>1. Projected(p, c)
  BY DEF Projected
<1>2. Known(p, c) /\ p \in Plan
  BY <1>1 DEF ProjectionComplete, IInv, TypeOK
<1>3. QED
  BY <1>2 DEF Known

LEMMA CompleteRegister ==
    ASSUME IInv, ProjectionComplete, NEW p \in Plan, NEW b \in BOOLEAN, Register(p, b)
    PROVE  ProjectionComplete'
<1>1. nomination' \ updated' \subseteq nomination \ updated
  BY NominateMountpointsSettles DEF Register, IInv
<1> SUFFICES ASSUME NEW q \in registered \cup {p}, NEW c \in Assignment, Projected(q, c)'
             PROVE  Known(q, c)'
  BY DEF ProjectionComplete, Register
<1>2. Projected(q, c)
  BY <1>1 DEF Projected
<1>3. q # p
  <2> SUFFICES ASSUME q = p PROVE FALSE
    OBVIOUS
  <2>1. PICK j \in InputsOf[p] : TRUE
    BY CatalogAssumption
  <2>2. j \in Input
    BY CatalogAssumption DEF AnyPlan
  <2>3. <<j, c[j]>> \in nomination
    BY <1>2, <2>2 DEF Projected
  <2>4. j \in RegisteredInputs(registered)
    BY <2>3, NominatedIsDone DEF IInv
  <2>5. PICK s \in registered : j \in InputsOf[s]
    BY <2>4 DEF RegisteredInputs
  <2>6. s \in Plan /\ s # p
    BY DEF Register, IInv, TypeOK
  <2>7. QED
    BY <2>5, <2>6, CatalogAssumption DEF AnyPlan
<1>4. Known(q, c)
  BY <1>2, <1>3 DEF ProjectionComplete
<1>5. QED
  BY <1>4 DEF Known, Register, runVars

LEMMA CompleteNew ==
    ASSUME IInv, ProjectionComplete,
           NEW p \in Plan, NEW i \in Input, NEW d \in KnitId, New(p, i, d)
    PROVE  ProjectionComplete'
<1>1. /\ p \in registered /\ i \in InputsOf[p]
      /\ nomination' \ updated' = (nomination \ updated) \cup {<<i, d>>}
      /\ registered' = registered
  BY DEF New, planVars, IInv, TypeOK
<1>2. PICK R \in SUBSET Run :
              /\ \A r \in R : planOf[r] = NoPlan /\ planOf'[r] = p
              /\ \A c \in Patterns(p, i, d) : Known(p, c) \/ \E r \in R : assign'[r] = c
              /\ \A r \in Run \ R : planOf'[r] = planOf[r] /\ assign'[r] = assign[r]
  BY NewRuns
<1> SUFFICES ASSUME NEW q \in registered, NEW c \in Assignment, Projected(q, c)'
             PROVE  Known(q, c)'
  BY <1>1 DEF ProjectionComplete
<1>3. q \in Plan /\ NoPlan # q
  BY IdentifierAssumption DEF IInv, TypeOK, AnyPlan
<1>4. Known(q, c) => Known(q, c)'
  BY <1>2, <1>3 DEF Known
<1>5. CASE q = p /\ c[i] = d
  <2>1. c \in Patterns(p, i, d)
    BY <1>1, <1>5 DEF Patterns, Projected
  <2>2. Known(p, c) \/ \E r \in R : assign'[r] = c
    BY <1>2, <2>1
  <2>3. QED
    BY <1>2, <1>4, <1>5, <2>2 DEF Known
<1>6. CASE q # p \/ c[i] # d
  <2>1. q # p => i \notin InputsOf[q]
    BY <1>1, <1>3, CatalogAssumption DEF AnyPlan
  <2>2. Projected(q, c)
    BY <1>1, <1>6, <2>1 DEF Projected
  <2>3. QED
    BY <1>4, <2>2 DEF ProjectionComplete
<1>7. QED
  BY <1>5, <1>6

LEMMA CompleteTruncate ==
    ASSUME IInv, ProjectionComplete, NEW r \in Run, Delete(r) \/ Retry(r)
    PROVE  ProjectionComplete'
<1>1. /\ \A q \in Run :
            \/ planOf'[q] = planOf[q] /\ assign'[q] = assign[q]
            \/ assign[q] = NoAssignment
            \/ \E j \in Input : assign[q][j] \in Outs(r)
      /\ nomination' = {n \in nomination : n[2] \notin Outs(r)}
      /\ updated' = {n \in updated : n[2] \notin Outs(r)}
      /\ registered' = registered
  BY TruncatedRuns
<1> SUFFICES ASSUME NEW p \in registered, NEW c \in Assignment, Projected(p, c)'
             PROVE  Known(p, c)'
  BY <1>1 DEF ProjectionComplete
<1>2. Projected(p, c)
  BY <1>1 DEF Projected
<1>3. PICK q \in Run : planOf[q] = p /\ assign[q] = c
  BY <1>2 DEF ProjectionComplete, Known
<1>4. c # NoAssignment
  <2>1. PICK j \in InputsOf[p] : j \in Input
    BY CatalogAssumption DEF IInv, TypeOK, AnyPlan
  <2>2. c[j] \in KnitId
    BY <1>2, <2>1 DEF Projected, IInv, TypeOK
  <2>3. QED
    BY <2>1, <2>2, CatalogAssumption DEF NoAssignment
<1>5. \A j \in Input : c[j] \notin Outs(r)
  <2> SUFFICES ASSUME NEW j \in Input, c[j] \in Outs(r) PROVE FALSE
    OBVIOUS
  <2>1. c[j] # NoKnitId
    BY CatalogAssumption DEF Outs
  <2>2. <<j, c[j]>> \in nomination'
    BY <2>1 DEF Projected
  <2>3. QED
    BY <1>1, <2>2
<1>6. planOf'[q] = p /\ assign'[q] = c
  BY <1>1, <1>3, <1>4, <1>5
<1>7. QED
  BY <1>6 DEF Known

LEMMA CompleteStep ==
    ASSUME IInv, ProjectionComplete, [Next]_vars
    PROVE  ProjectionComplete'
<1> DEFINE Same == registered' = registered /\ UNCHANGED <<planOf, assign>>
<1>1. CASE Same /\ nomination' \ updated' \subseteq nomination \ updated
  BY <1>1, CompleteIfFewerSettle
<1>2. CASE Same /\ UNCHANGED nomVars
  BY <1>1, <1>2 DEF nomVars
<1>3. ASSUME NEW r \in Run, Finish(r)
      PROVE  ProjectionComplete'
  BY <1>1, <1>2, <1>3, NominateDataSettles DEF Finish, planVars, IInv
<1>4. ASSUME NEW d \in KnitId, NEW T \in SUBSET Tag, UpdateTag(d, T)
      PROVE  ProjectionComplete'
  BY <1>1, <1>4, NominateDataSettles DEF UpdateTag, planVars, runVars, IInv
<1>5. ASSUME NEW p \in PseudoPlan, NewPseudo(p)
      PROVE  ProjectionComplete'
  <2>1. \E r \in Run :
              /\ planOf[r] = NoPlan
              /\ \A q \in Run \ {r} : planOf'[q] = planOf[q] /\ assign'[q] = assign[q]
    BY <1>5, NewPseudoRuns
  <2>2. NoPlan \notin Plan
    BY IdentifierAssumption DEF AnyPlan
  <2>3. QED
    BY <1>5, <2>1, <2>2, CompleteIfFewerSettle DEF NewPseudo, planVars, nomVars
<1>6. \/ Same /\ UNCHANGED nomVars
      \/ \E p \in Plan, b \in BOOLEAN : Register(p, b)
      \/ \E p \in Plan, i \in Input, d \in KnitId : New(p, i, d)
      \/ \E p \in PseudoPlan : NewPseudo(p)
      \/ \E r \in Run : Finish(r)
      \/ \E r \in Run : Delete(r) \/ Retry(r)
      \/ \E d \in KnitId, T \in SUBSET Tag : UpdateTag(d, T)
  BY DEF Next, PlanStep, RunStep, DataStep, Activate, SetStatus, DeleteWorker,
         NewAgent, RemoveAgent, Pop, vars, planVars, runVars
<1>7. QED
  BY <1>2, <1>3, <1>4, <1>5, <1>6, CompleteRegister, CompleteNew, CompleteTruncate

\* Once the nominations are taken, every combination of data that match the
\* inputs of a plan has been given to a run.
THEOREM CompleteCorrect == Spec => []ProjectionComplete
<1>1. Init => ProjectionComplete
  BY DEF Init, ProjectionComplete
<1>2. IInv /\ ProjectionComplete /\ [Next]_vars => ProjectionComplete'
  BY CompleteStep
<1>3. QED
  BY <1>1, <1>2, IInvInvariant, PTL DEF Spec

-----------------------------------------------------------------------------
(* Timestamps, outputs and deactivation *)

\* What New and NewPseudo have in common.
Adds(p, R, inputs, st, owner) ==
    /\ AddRuns(R, p, inputs, st, owner) /\ owner \in Owners(R, p)
    /\ \A r \in R : status[r] = "none"
    /\ st \in {"waiting", "deactivated", "running"}
    /\ st = "deactivated" => p \in registered \ active
    /\ worker' = IF st = "running" THEN worker ELSE worker \cup R
    /\ UNCHANGED planVars

\* What Delete and Retry have in common.
Truncates(r, st, owner) ==
    /\ TruncateAnd(r, st, owner)
    /\ status[r] \in Finished \cup {"waiting", "deactivated"}
    /\ \/ st \in {"gone", "invalidated"} /\ owner = <<>> /\ worker' = worker
       \/ /\ st = "waiting" /\ worker' = worker \cup {r} /\ status[r] \in Finished
          /\ planOf[r] \in AnyPlan /\ owner \in Owners({r}, planOf[r])

LEMMA StepKinds ==
    ASSUME IInv, [Next]_vars
    PROVE  \/ \E p \in AnyPlan, R \in SUBSET Run : \E inputs, st, owner :
                 Adds(p, R, inputs, st, owner)
           \/ \E r \in Run : \E st, owner : Truncates(r, st, owner)
           \/ \E p \in Plan, b \in BOOLEAN : Register(p, b) \/ Activate(p, b)
           \/ \E r \in Run, st \in KnitRunStatus : SetStatus(r, st)
           \/ \E r \in Run : Finish(r)
           \/ \E r \in Run : DeleteWorker(r)
           \/ \E d \in KnitId : Pop(d)
           \/ UNCHANGED <<planVars, status, planOf, worker, place, producer, outputOf, stamped>>
<1>1. ASSUME NEW p \in Plan, NEW i \in Input, NEW d \in KnitId, New(p, i, d)
      PROVE  \E q \in AnyPlan, R \in SUBSET Run : \E inputs, st, owner :
                Adds(q, R, inputs, st, owner)
  <2> DEFINE pats == {c \in Patterns(p, i, d) : ~ Known(p, c)}
             R    == FreshRuns(Cardinality(pats))
             st   == IF p \in active THEN "waiting" ELSE "deactivated"
  <2>1. PICK inputs \in Bijection(R, pats), owner \in Owners(R, p) :
           AddRuns(R, p, inputs, st, owner)
    BY <1>1 DEF New
  <2>2. /\ R \in SUBSET Run /\ p \in AnyPlan /\ st \in {"waiting", "deactivated"}
        /\ \A r \in R : status[r] = "none"
        /\ st = "deactivated" => p \in registered \ active
    BY <1>1, FreshRunsAreFresh DEF AnyPlan, New
  <2>3. worker' = worker \cup R /\ UNCHANGED planVars
    BY <1>1 DEF New
  <2> HIDE DEF pats, R, st
  <2>4. Adds(p, R, inputs, st, owner)
    BY <2>1, <2>2, <2>3 DEF Adds
  <2>5. QED
    BY <2>2, <2>4
<1>2. ASSUME NEW p \in PseudoPlan, NewPseudo(p)
      PROVE  \E q \in AnyPlan, R \in SUBSET Run : \E inputs, st, owner :
                Adds(q, R, inputs, st, owner)
  <2>1. PICK r \in FreshRuns(1) : \E owner \in Owners({r}, p) :
           AddRuns({r}, p, [q \in {r} |-> NoAssignment], "running", owner)
    BY <1>2 DEF NewPseudo
  <2>2. PICK owner \in Owners({r}, p) :
           AddRuns({r}, p, [q \in {r} |-> NoAssignment], "running", owner)
    BY <2>1
  <2>3. {r} \in SUBSET Run /\ p \in AnyPlan /\ \A q \in {r} : status[q] = "none"
    BY FreshRunsAreFresh DEF AnyPlan
  <2>4. worker' = worker /\ UNCHANGED planVars
    BY <1>2 DEF NewPseudo
  <2> DEFINE inputs == [q \in {r} |-> NoAssignment]
  <2>5. Adds(p, {r}, inputs, "running", owner)
    BY <2>2, <2>3, <2>4 DEF Adds
  <2> HIDE DEF inputs
  <2>6. QED
    BY <2>3, <2>5
<1>3. ASSUME NEW r \in Run, Delete(r)
      PROVE  \E st, owner : Truncates(r, st, owner)
  <2>1. PICK st \in {"gone", "invalidated"} : TruncateAnd(r, st, <<>>)
    BY <1>3 DEF Delete
  <2>2. Truncates(r, st, <<>>)
    BY <1>3, <2>1 DEF Delete, Truncates, Finished
  <2>3. QED
    BY <2>2
<1>4. ASSUME NEW r \in Run, Retry(r)
      PROVE  \E st, owner : Truncates(r, st, owner)
  <2>1. PICK owner \in Owners({r}, planOf[r]) : TruncateAnd(r, "waiting", owner)
    BY <1>4 DEF Retry
  <2>2. Truncates(r, "waiting", owner)
    BY <1>4, <2>1 DEF Retry, Truncates, KnitRunStatus, Finished, AnyPlan
  <2>3. QED
    BY <2>2
<1>5. \/ \E p \in Plan, i \in Input, d \in KnitId : New(p, i, d)
      \/ \E p \in PseudoPlan : NewPseudo(p)
      \/ \E r \in Run : Delete(r)
      \/ \E r \in Run : Retry(r)
      \/ \E p \in Plan, b \in BOOLEAN : Register(p, b) \/ Activate(p, b)
      \/ \E r \in Run, st \in KnitRunStatus : SetStatus(r, st)
      \/ \E r \in Run : Finish(r)
      \/ \E r \in Run : DeleteWorker(r)
      \/ \E d \in KnitId : Pop(d)
      \/ UNCHANGED <<planVars, status, planOf, worker, place, producer, outputOf, stamped>>
  BY DEF Next, PlanStep, RunStep, DataStep, UpdateTag, NewAgent, RemoveAgent,
         vars, runVars, dataVars
<1>6. CASE \E r \in Run : Delete(r)
  BY <1>3, <1>6
<1>7. CASE \E r \in Run : Retry(r)
  BY <1>4, <1>7
<1>8. QED
  BY <1>1, <1>2, <1>5, <1>6, <1>7

\* How the outputs of runs change in the first two kinds of step.
LEMMA AddsOuts ==
    ASSUME IInv, NEW p \in AnyPlan, NEW R \in SUBSET Run, NEW inputs, NEW st, NEW owner,
           Adds(p, R, inputs, st, owner)
    PROVE  /\ \A r \in Run \ R : /\ Outs(r)' = Outs(r) /\ status'[r] = status[r]
                                 /\ planOf'[r] = planOf[r]
                                 /\ \A d \in Outs(r) : outputOf'[d] = outputOf[d]
           /\ \A r \in R : status'[r] = st /\ planOf'[r] = p
           /\ \A r \in R, d \in KnitId : d \in Outs(r)' <=>
                 d \in Outs(r) \/ (d \in DOMAIN owner /\ owner[d][1] = r)
           /\ \A d \in DOMAIN owner : outputOf'[d] = owner[d][2]
<1>1. \A d \in DOMAIN owner : d \in KnitId /\ place[d] = "none" /\ owner[d][1] \in R
  BY OwnersAreFresh DEF Adds
<1>2. ASSUME NEW r \in Run
      PROVE  \A d \in KnitId : d \in Outs(r)' <=>
                d \in Outs(r) \/ (d \in DOMAIN owner /\ owner[d][1] = r)
  BY <1>1 DEF Adds, AddRuns, Outs
<1>3. ASSUME NEW r \in Run \ R
      PROVE  Outs(r)' = Outs(r)
  BY <1>1, <1>2 DEF Outs
<1>4. \A r \in R, d \in KnitId : d \in Outs(r)' <=>
         d \in Outs(r) \/ (d \in DOMAIN owner /\ owner[d][1] = r)
  BY <1>2
<1>5. \A r \in Run : \A d \in Outs(r) : outputOf'[d] = outputOf[d]
  BY <1>1 DEF Adds, AddRuns, Outs
<1>6. \A r \in Run \ R : status'[r] = status[r] /\ planOf'[r] = planOf[r]
  BY DEF Adds, AddRuns
<1>7. \A r \in R : status'[r] = st /\ planOf'[r] = p
  BY DEF Adds, AddRuns
<1>8. \A d \in DOMAIN owner : outputOf'[d] = owner[d][2]
  BY <1>1 DEF Adds, AddRuns
<1>9. QED
  BY <1>3, <1>4, <1>5, <1>6, <1>7, <1>8

LEMMA TruncatesOuts ==
    ASSUME IInv, NEW r \in Run, NEW st, NEW owner, Truncates(r, st, owner)
    PROVE  /\ Outs(r)' = DOMAIN owner /\ status'[r] = st
           /\ st # "gone" => planOf'[r] = planOf[r]
           /\ \A d \in DOMAIN owner : d \in KnitId /\ outputOf'[d] = owner[d][2]
           /\ \A q \in Run \ {r} : /\ Outs(q)' = Outs(q)
                                   /\ \A d \in Outs(q) : outputOf'[d] = outputOf[d]
           /\ \A q \in Run \ {r} :
                 \/ status'[q] = status[q] /\ planOf'[q] = planOf[q]
                 \/ status[q] = "invalidated" /\ status'[q] = "gone"
<1>1. \A d \in DOMAIN owner : d \in KnitId /\ place[d] = "none"
  <2>1. CASE owner = <<>>
    BY <2>1
  <2>2. CASE owner \in Owners({r}, planOf[r])
    BY <2>2, OwnersAreFresh
  <2>3. QED
    BY <2>1, <2>2 DEF Truncates
<1>2. r \notin Dropped(r)
  BY DEF Truncates, Dropped, Finished
<1>3. NoRun # r
  BY IdentifierAssumption
<1>4. \A d \in KnitId : d \in Outs(r)' <=> d \in DOMAIN owner
  BY <1>1, <1>3 DEF Truncates, TruncateAnd, Outs
<1>5. Outs(r)' = DOMAIN owner
  BY <1>1, <1>4 DEF Outs
<1>6. ASSUME NEW q \in Run \ {r}
      PROVE  Outs(q)' = Outs(q)
  <2>1. NoRun # q
    BY IdentifierAssumption
  <2>2. \A d \in KnitId : d \in Outs(q)' <=> d \in Outs(q)
    BY <1>1, <2>1 DEF Truncates, TruncateAnd, Outs
  <2>3. QED
    BY <2>2 DEF Outs
<1>7. \A d \in DOMAIN owner : outputOf'[d] = owner[d][2]
  BY <1>1 DEF Truncates, TruncateAnd, Outs
<1>8. \A q \in Run \ {r} : \A d \in Outs(q) : outputOf'[d] = outputOf[d]
  BY <1>1 DEF Truncates, TruncateAnd, Outs
<1>9. \A q \in Run \ {r} :
         \/ status'[q] = status[q] /\ planOf'[q] = planOf[q]
         \/ status[q] = "invalidated" /\ status'[q] = "gone"
  BY DEF Truncates, TruncateAnd, Dropped
<1>10. status'[r] = st
  BY <1>2 DEF Truncates, TruncateAnd
<1>11. st # "gone" => planOf'[r] = planOf[r]
  BY <1>2 DEF Truncates, TruncateAnd
<1>12. QED
  BY <1>1, <1>5, <1>6, <1>7, <1>8, <1>9, <1>10, <1>11

\* Every other step leaves the outputs of all runs, and which of them exist,
\* alone; only Finish turns a run into a finished one.
LEMMA OtherSteps ==
    ASSUME IInv,
           \/ \E p \in Plan, b \in BOOLEAN : Register(p, b) \/ Activate(p, b)
           \/ \E r \in Run, st \in KnitRunStatus : SetStatus(r, st)
           \/ \E r \in Run : Finish(r)
           \/ \E r \in Run : DeleteWorker(r)
           \/ \E d \in KnitId : Pop(d)
           \/ UNCHANGED <<planVars, status, planOf, worker, place, producer, outputOf, stamped>>
    PROVE  /\ \A r \in Run : Outs(r)' = Outs(r)
           /\ UNCHANGED <<planOf, outputOf>> /\ worker' \subseteq worker
           /\ \A r \in Run :
                 /\ status[r] \in {"none", "gone", "invalidated"} <=>
                    status'[r] \in {"none", "gone", "invalidated"}
                 /\ status[r] \in Finished => status'[r] = status[r]
                 /\ (\A q \in Run : ~ Finish(q)) =>
                    (status'[r] \in Finished => status[r] \in Finished)
           /\ (\A q \in Run : ~ Finish(q)) => stamped' = stamped
<1> DEFINE P == /\ \A r \in Run : Outs(r)' = Outs(r)
                /\ UNCHANGED <<planOf, outputOf>> /\ worker' \subseteq worker
           S == \A r \in Run :
                 /\ status[r] \in {"none", "gone", "invalidated"} <=>
                    status'[r] \in {"none", "gone", "invalidated"}
                 /\ status[r] \in Finished => status'[r] = status[r]
           F == /\ \A r \in Run : status'[r] \in Finished => status[r] \in Finished
                /\ stamped' = stamped
<1> SUFFICES P /\ S /\ (F \/ \E q \in Run : Finish(q))
  OBVIOUS
<1> USE DEF Finished
<1>1. CASE \E p \in Plan, b \in BOOLEAN : Register(p, b)
  BY <1>1 DEF Register, runVars, dataVars, Outs
<1>2. CASE \E p \in Plan, b \in BOOLEAN : Activate(p, b)
  BY <1>2 DEF Activate, GetRunStatusesForPlanActivate, dataVars, Outs, IInv, TypeOK
<1>3. ASSUME NEW r \in Run, NEW st \in KnitRunStatus, SetStatus(r, st)
      PROVE  P /\ S /\ F
  <2>1. st \notin {"done", "failed", "invalidated", "none", "gone"}
    BY <1>3, IdentifierAssumption DEF SetStatus
  <2>2. status[r] \in KnitRunStatus
    BY <1>3 DEF IInv, TypeOK, SetStatus, Exists
  <2>3. status[r] \notin {"done", "failed", "invalidated", "none", "gone"}
    BY <1>3, <2>2 DEF SetStatus, NextStatuses, KnitRunStatus
  <2>4. S /\ F
    BY <1>3, <2>1, <2>3 DEF SetStatus, dataVars, IInv, TypeOK
  <2>5. P
    BY <1>3 DEF SetStatus, dataVars, Outs
  <2>6. QED
    BY <2>4, <2>5
<1>4. ASSUME NEW r \in Run, Finish(r)
      PROVE  P /\ S
  <2>1. P
    BY <1>4 DEF Finish, Outs
  <2>2. S
    BY <1>4 DEF Finish, FinishedStatus, IInv, TypeOK
  <2>3. QED
    BY <2>1, <2>2
<1>5. CASE \E r \in Run : DeleteWorker(r)
  BY <1>5 DEF DeleteWorker, dataVars, Outs
<1>6. ASSUME NEW d \in KnitId, Pop(d)
      PROVE  P /\ S /\ F
  <2>1. \A e \in KnitId : place'[e] = "data" <=> place[e] = "data"
    BY <1>6 DEF Pop, IInv, TypeOK
  <2>2. P
    BY <1>6, <2>1 DEF Pop, Outs, runVars
  <2>3. QED
    BY <1>6, <2>2 DEF Pop, runVars
<1>7. CASE UNCHANGED <<planVars, status, planOf, worker, place, producer, outputOf, stamped>>
  BY <1>7 DEF Outs
<1>8. QED
  BY <1>1, <1>2, <1>3, <1>4, <1>5, <1>6, <1>7

LEMMA OutputsStep ==
    ASSUME IInv, OutputsComplete, [Next]_vars
    PROVE  OutputsComplete'
<1>1. ASSUME NEW p \in AnyPlan, NEW R \in SUBSET Run, NEW inputs, NEW st, NEW owner,
             Adds(p, R, inputs, st, owner)
      PROVE  OutputsComplete'
  <2>1. ASSUME NEW r \in Run \ R
        PROVE  IF ~ Exists(r)' \/ status'[r] = "invalidated"
               THEN Outs(r)' = {} /\ r \notin worker'
               ELSE /\ \A d, e \in Outs(r)' : outputOf'[d] = outputOf'[e] => d = e
                    /\ {outputOf'[d] : d \in Outs(r)'} = OutputsOf[planOf'[r]]
    <3>1. /\ Outs(r)' = Outs(r) /\ status'[r] = status[r] /\ planOf'[r] = planOf[r]
          /\ \A d \in Outs(r) : outputOf'[d] = outputOf[d]
      BY <1>1, AddsOuts
    <3>2. r \in worker' => r \in worker
      BY <1>1 DEF Adds
    <3>3. {outputOf'[d] : d \in Outs(r)'} = {outputOf[d] : d \in Outs(r)}
      BY <3>1
    <3>4. QED
      BY <3>1, <3>2, <3>3 DEF OutputsComplete, Exists
  <2>2. ASSUME NEW r \in R
        PROVE  /\ Exists(r)' /\ status'[r] # "invalidated"
               /\ \A d, e \in Outs(r)' : outputOf'[d] = outputOf'[e] => d = e
               /\ {outputOf'[d] : d \in Outs(r)'} = OutputsOf[planOf'[r]]
    <3>a. st \in {"waiting", "deactivated", "running"}
      BY <1>1 DEF Adds
    <3>b. status'[r] = st /\ planOf'[r] = p
      BY <1>1, AddsOuts
    <3>1. status'[r] = st /\ planOf'[r] = p /\ st \in {"waiting", "deactivated", "running"}
      BY <3>a, <3>b
    <3>2. Outs(r) = {}
      BY <1>1 DEF Adds, OutputsComplete, Exists
    <3>3. \A d \in KnitId : d \in Outs(r)' <=> d \in DOMAIN owner /\ owner[d][1] = r
      BY <1>1, <3>2, AddsOuts
    <3>4. /\ owner \in [DOMAIN owner -> R \X OutputsOf[p]]
          /\ \A d \in DOMAIN owner : d \in KnitId
          /\ \A d, e \in DOMAIN owner : owner[d] = owner[e] => d = e
          /\ \A s \in R \X OutputsOf[p] : \E d \in DOMAIN owner : owner[d] = s
      BY <1>1, OwnersAreFresh DEF Adds
    <3>5. \A d \in DOMAIN owner : outputOf'[d] = owner[d][2]
      BY <1>1, AddsOuts
    <3>6. \A d \in Outs(r)' : d \in KnitId
      BY DEF Outs
    <3>7. \A d \in Outs(r)' : /\ d \in DOMAIN owner
                              /\ owner[d] = <<r, outputOf'[d]>>
                              /\ outputOf'[d] \in OutputsOf[p]
      BY <3>3, <3>4, <3>5, <3>6
    <3>8. \A d, e \in Outs(r)' : outputOf'[d] = outputOf'[e] => d = e
      BY <3>4, <3>7
    <3>9. \A o \in OutputsOf[p] : \E d \in Outs(r)' : outputOf'[d] = o
      <4> SUFFICES ASSUME NEW o \in OutputsOf[p]
                   PROVE  \E d \in Outs(r)' : outputOf'[d] = o
        OBVIOUS
      <4>1. <<r, o>> \in R \X OutputsOf[p]
        OBVIOUS
      <4>2. PICK d \in DOMAIN owner : owner[d] = <<r, o>>
        BY <3>4, <4>1
      <4>3. d \in Outs(r)' /\ outputOf'[d] = o
        BY <3>3, <3>4, <3>5, <4>2
      <4>4. QED
        BY <4>3
    <3>10. {outputOf'[d] : d \in Outs(r)'} = OutputsOf[p]
      BY <3>7, <3>9
    <3>11. QED
      BY <3>1, <3>8, <3>10 DEF Exists
  <2>3. QED
    BY <2>1, <2>2 DEF OutputsComplete
<1>2. ASSUME NEW r \in Run, NEW st, NEW owner, Truncates(r, st, owner)
      PROVE  OutputsComplete'
  <2>1. /\ Outs(r)' = DOMAIN owner /\ status'[r] = st
        /\ st # "gone" => planOf'[r] = planOf[r]
        /\ \A d \in DOMAIN owner : d \in KnitId /\ outputOf'[d] = owner[d][2]
    BY <1>2, TruncatesOuts
  <2>2. ASSUME NEW q \in Run \ {r}
        PROVE  IF ~ Exists(q)' \/ status'[q] = "invalidated"
               THEN Outs(q)' = {} /\ q \notin worker'
               ELSE /\ \A d, e \in Outs(q)' : outputOf'[d] = outputOf'[e] => d = e
                    /\ {outputOf'[d] : d \in Outs(q)'} = OutputsOf[planOf'[q]]
    <3>1. /\ Outs(q)' = Outs(q)
          /\ \A d \in Outs(q) : outputOf'[d] = outputOf[d]
          /\ \/ status'[q] = status[q] /\ planOf'[q] = planOf[q]
             \/ status[q] = "invalidated" /\ status'[q] = "gone"
      BY <1>2, TruncatesOuts
    <3>2. q \in worker' => q \in worker
      BY <1>2 DEF Truncates
    <3>3. {outputOf'[d] : d \in Outs(q)'} = {outputOf[d] : d \in Outs(q)}
      BY <3>1
    <3>4. QED
      BY <3>1, <3>2, <3>3 DEF OutputsComplete, Exists
  <2>3. CASE st # "waiting"
    <3>1. owner = <<>> /\ worker' = worker /\ st \in {"gone", "invalidated"}
      BY <1>2, <2>3 DEF Truncates
    <3>2. r \notin worker
      BY <1>2 DEF Truncates, TruncateAnd, Truncatable
    <3>3. Outs(r)' = {} /\ r \notin worker' /\ (~ Exists(r)' \/ status'[r] = "invalidated")
      BY <2>1, <3>1, <3>2 DEF Exists
    <3>4. QED
      BY <2>2, <3>3 DEF OutputsComplete
  <2>4. CASE st = "waiting"
    <3> DEFINE p == planOf[r]
    <3>1. p \in AnyPlan /\ owner \in Owners({r}, p)
      BY <1>2, <2>4 DEF Truncates
    <3>2. /\ owner \in [DOMAIN owner -> {r} \X OutputsOf[p]]
          /\ \A d, e \in DOMAIN owner : owner[d] = owner[e] => d = e
          /\ \A s \in {r} \X OutputsOf[p] : \E d \in DOMAIN owner : owner[d] = s
      BY <3>1, OwnersAreFresh
    <3>3. Exists(r)' /\ status'[r] # "invalidated" /\ planOf'[r] = p
      BY <2>1, <2>4 DEF Exists
    <3> HIDE DEF p
    <3>4. \A d \in Outs(r)' : /\ d \in DOMAIN owner
                              /\ owner[d] = <<r, outputOf'[d]>>
                              /\ outputOf'[d] \in OutputsOf[p]
      BY <2>1, <3>2
    <3>5. \A d, e \in Outs(r)' : outputOf'[d] = outputOf'[e] => d = e
      BY <3>2, <3>4
    <3>6. ASSUME NEW o \in OutputsOf[p]
          PROVE  \E d \in Outs(r)' : outputOf'[d] = o
      <4>1. <<r, o>> \in {r} \X OutputsOf[p]
        OBVIOUS
      <4>2. PICK d \in DOMAIN owner : owner[d] = <<r, o>>
        BY <3>2, <4>1
      <4>3. QED
        BY <2>1, <4>2
    <3>7. {outputOf'[d] : d \in Outs(r)'} = OutputsOf[p]
      BY <3>4, <3>6
    <3>8. QED
      BY <2>2, <3>3, <3>5, <3>7 DEF OutputsComplete
  <2>5. QED
    BY <2>3, <2>4
<1>3. CASE /\ \A r \in Run : Outs(r)' = Outs(r)
           /\ UNCHANGED <<planOf, outputOf>> /\ worker' \subseteq worker
           /\ \A r \in Run :
                 status[r] \in {"none", "gone", "invalidated"} <=>
                 status'[r] \in {"none", "gone", "invalidated"}
  BY <1>3 DEF OutputsComplete, Exists
<1>4. QED
  BY <1>1, <1>2, <1>3, StepKinds, OtherSteps

\* Until it is invalidated, a run has one data item per output, whoever
\* registered it and however often it was retried.
THEOREM OutputsCorrect == Spec => []OutputsComplete
<1>1. Init => OutputsComplete
  BY DEF Init, OutputsComplete, Exists, Outs
<1>2. IInv /\ OutputsComplete /\ [Next]_vars => OutputsComplete'
  BY OutputsStep
<1>3. QED
  BY <1>1, <1>2, IInvInvariant, PTL DEF Spec

LEMMA StampedStep ==
    ASSUME IInv, StampedIffFinished, [Next]_vars
    PROVE  StampedIffFinished'
<1>1. ASSUME NEW p \in AnyPlan, NEW R \in SUBSET Run, NEW inputs, NEW st, NEW owner,
             Adds(p, R, inputs, st, owner)
      PROVE  StampedIffFinished'
  <2> st \in {"waiting", "deactivated", "running"} /\ \A r \in R : status[r] = "none"
    BY <1>1 DEF Adds
  <2>1. /\ \A r \in Run \ R : Outs(r)' = Outs(r) /\ status'[r] = status[r]
        /\ \A r \in R : status'[r] \notin Finished /\ status[r] \notin Finished
    BY <1>1, AddsOuts DEF Finished
  <2>2. stamped' = stamped
    BY <1>1 DEF Adds, AddRuns
  <2>3. QED
    BY <2>1, <2>2 DEF StampedIffFinished
<1>2. ASSUME NEW r \in Run, NEW st, NEW owner, Truncates(r, st, owner)
      PROVE  StampedIffFinished'
  <2>1. /\ status'[r] \notin Finished
        /\ \A q \in Run \ {r} : Outs(q)' = Outs(q)
                             /\ (status'[q] \in Finished <=> status[q] \in Finished)
    BY <1>2, TruncatesOuts DEF Truncates, Finished
  <2>2. stamped' = stamped \ Outs(r)
    BY <1>2 DEF Truncates, TruncateAnd
  <2>3. \A q \in Run \ {r} : Outs(q) \cap Outs(r) = {}
    BY DEF Outs
  <2>4. QED
    BY <2>1, <2>2, <2>3 DEF StampedIffFinished
<1>3. CASE \E r \in Run : Finish(r)
  <2>1. PICK r \in Run : Finish(r)
    BY <1>3
  <2>2. \A q \in Run : Outs(q)' = Outs(q)
    BY <1>3, OtherSteps
  <2>3. \A q \in Run : status'[q] \in Finished <=> q = r \/ status[q] \in Finished
    BY <2>1 DEF Finish, FinishedStatus, Finished, IInv, TypeOK
  <2>4. stamped' = stamped \cup Outs(r) /\ Outs(r) \subseteq KnitId
    BY <2>1 DEF Finish, Stamp, Outs
  <2>5. QED
    BY <2>2, <2>3, <2>4 DEF StampedIffFinished
<1>4. CASE /\ \A r \in Run : Outs(r)' = Outs(r)
           /\ \A r \in Run : status[r] \in Finished <=> status'[r] \in Finished
           /\ stamped' = stamped
  BY <1>4 DEF StampedIffFinished
<1>5. QED
  BY <1>1, <1>2, <1>3, <1>4, StepKinds, OtherSteps

\* A timestamp is there exactly while the run of the data is finished: the
\* insertion in finish() never meets an old one.
THEOREM StampedCorrect == Spec => []StampedIffFinished
<1>1. Init => StampedIffFinished
  BY DEF Init, StampedIffFinished, Outs
<1>2. IInv /\ StampedIffFinished /\ [Next]_vars => StampedIffFinished'
  BY StampedStep
<1>3. QED
  BY <1>1, <1>2, IInvInvariant, PTL DEF Spec

LEMMA NoStrandedStep ==
    ASSUME IInv, NoStrandedRun, [Next]_vars
    PROVE  NoStrandedRun'
<1>1. ASSUME NEW p \in AnyPlan, NEW R \in SUBSET Run, NEW inputs, NEW st, NEW owner,
             Adds(p, R, inputs, st, owner)
      PROVE  NoStrandedRun'
  <2>1. /\ \A r \in Run \ R : status'[r] = status[r] /\ planOf'[r] = planOf[r]
        /\ \A r \in R : status'[r] = st /\ planOf'[r] = p
    BY <1>1, AddsOuts
  <2>2. QED
    BY <1>1, <2>1 DEF Adds, planVars, NoStrandedRun
<1>2. ASSUME NEW r \in Run, NEW st, NEW owner, Truncates(r, st, owner)
      PROVE  NoStrandedRun'
  <2>1. \A q \in Run : status'[q] = "deactivated" =>
           status[q] = "deactivated" /\ planOf'[q] = planOf[q]
    BY <1>2, TruncatesOuts DEF Truncates
  <2>2. UNCHANGED planVars
    BY <1>2 DEF Truncates, TruncateAnd
  <2>3. QED
    BY <2>1, <2>2 DEF planVars, NoStrandedRun
<1>3. CASE \E p \in Plan, b \in BOOLEAN : Register(p, b)
  BY <1>3 DEF Register, runVars, NoStrandedRun
<1>4. CASE \E p \in Plan, b \in BOOLEAN : Activate(p, b)
  BY <1>4 DEF Activate, GetRunStatusesForPlanActivate, NoStrandedRun, IInv, TypeOK
<1>5. ASSUME NEW r \in Run, NEW st \in KnitRunStatus, SetStatus(r, st)
      PROVE  NoStrandedRun'
  <2>1. st # "deactivated"
    BY <1>5, IdentifierAssumption DEF SetStatus
  <2>2. QED
    BY <1>5, <2>1 DEF SetStatus, planVars, NoStrandedRun, IInv, TypeOK
<1>6. CASE \E r \in Run : Finish(r)
  BY <1>6 DEF Finish, FinishedStatus, planVars, NoStrandedRun, IInv, TypeOK
<1>7. CASE UNCHANGED <<planVars, status, planOf>>
  BY <1>7 DEF planVars, NoStrandedRun
<1>8. CASE \E r \in Run : DeleteWorker(r)
  BY <1>7, <1>8 DEF DeleteWorker
<1>9. CASE \E d \in KnitId : Pop(d)
  BY <1>7, <1>9 DEF Pop, runVars
<1>10. QED
  BY <1>1, <1>2, <1>3, <1>4, <1>5, <1>6, <1>7, <1>8, <1>9, StepKinds

\* Deactivating and activating plans never leaves a run deactivated for good.
THEOREM NoStrandedCorrect == Spec => []NoStrandedRun
<1>1. Init => NoStrandedRun
  BY DEF Init, NoStrandedRun
<1>2. IInv /\ NoStrandedRun /\ [Next]_vars => NoStrandedRun'
  BY NoStrandedStep
<1>3. QED
  BY <1>1, <1>2, IInvInvariant, PTL DEF Spec

\* The statuses of the instance are those of RunStatus.
LEMMA SameStatuses ==
    /\ Lifecycle!KnitRunStatus = KnitRunStatus
    /\ Lifecycle!Finished = Finished
    /\ Lifecycle!NextStatuses = NextStatuses
    /\ \A st : Lifecycle!FinishedStatus(st) = FinishedStatus(st)
<1>1. Lifecycle!KnitRunStatus = KnitRunStatus
  BY DEF Lifecycle!KnitRunStatus, KnitRunStatus
<1>2. Lifecycle!Finished = Finished
  BY DEF Lifecycle!Finished, Finished
<1>3. Lifecycle!NextStatuses = NextStatuses
  BY <1>1 DEF Lifecycle!NextStatuses, NextStatuses
<1>4. \A st : Lifecycle!FinishedStatus(st) = FinishedStatus(st)
  BY DEF Lifecycle!FinishedStatus, FinishedStatus
<1>5. QED
  BY <1>1, <1>2, <1>3, <1>4

\* One step of the store is at most one step in the life of each run.
LEMMA LifecycleStep ==
    ASSUME IInv, OutputsComplete, [Next]_vars
    PROVE  Lifecycle!Next \/ UNCHANGED <<status, worker>>
<1>1. \A r \in Run : status[r] \in {"none", "gone", "invalidated"} => r \notin worker
  BY DEF OutputsComplete, Exists
<1>2. ASSUME NEW p \in AnyPlan, NEW R \in SUBSET Run, NEW inputs, NEW st, NEW owner,
             Adds(p, R, inputs, st, owner)
      PROVE  Lifecycle!Next
  <2>1. \A r \in Run \ R : Lifecycle!Stay(r)
    BY <1>2, AddsOuts DEF Adds, Lifecycle!Stay
  <2>2. /\ \A r \in R : status[r] = "none"
        /\ st \in {"waiting", "deactivated", "running"}
        /\ worker' = IF st = "running" THEN worker ELSE worker \cup R
    BY <1>2 DEF Adds
  <2>5. \A r \in R : status'[r] = st
    BY <1>2, AddsOuts
  <2>3. \A r \in R : Lifecycle!Begin(r)
    BY <1>1, <2>2, <2>5 DEF Lifecycle!Begin
  <2>4. QED
    BY <2>1, <2>3 DEF Lifecycle!Next
<1>3. ASSUME NEW r \in Run, NEW st, NEW owner, Truncates(r, st, owner)
      PROVE  Lifecycle!Next
  <2>1. \A q \in Run \ {r} : Lifecycle!Stay(q) \/ Lifecycle!Discard(q)
    <3> SUFFICES ASSUME NEW q \in Run \ {r}
                 PROVE  Lifecycle!Stay(q) \/ Lifecycle!Discard(q)
      OBVIOUS
    <3>1. q \in worker' <=> q \in worker
      BY <1>3 DEF Truncates
    <3>2. CASE q \in Dropped(r)
      <4>1. status[q] = "invalidated" /\ status'[q] = "gone"
        BY <1>3, <3>2 DEF Truncates, TruncateAnd, Dropped
      <4>2. QED
        BY <1>1, <3>1, <4>1 DEF Lifecycle!Discard
    <3>3. CASE q \notin Dropped(r)
      <4>1. status'[q] = status[q]
        BY <1>3, <3>3 DEF Truncates, TruncateAnd
      <4>2. QED
        BY <3>1, <4>1 DEF Lifecycle!Stay
    <3>4. QED
      BY <3>2, <3>3
  <2>2. /\ r \notin worker /\ r \notin Dropped(r)
        /\ status[r] \in Finished \cup {"waiting", "deactivated"}
    BY <1>3 DEF Truncates, TruncateAnd, Truncatable, Dropped, Finished
  <2>3. status'[r] = st
    BY <1>3, <2>2 DEF Truncates, TruncateAnd
  <2>4. Lifecycle!Retry(r) \/ Lifecycle!Discard(r)
    BY <1>3, <2>2, <2>3, SameStatuses DEF Truncates, Lifecycle!Retry, Lifecycle!Discard
  <2>5. QED
    BY <2>1, <2>4 DEF Lifecycle!Next
<1>4. CASE \E p \in Plan, b \in BOOLEAN : Register(p, b)
  BY <1>4 DEF Register, runVars
<1>5. ASSUME NEW p \in Plan, NEW b \in BOOLEAN, Activate(p, b)
      PROVE  Lifecycle!Next
  <2> SUFFICES ASSUME NEW r \in Run
               PROVE  Lifecycle!Stay(r) \/ Lifecycle!Advance(r)
    BY DEF Lifecycle!Next
  <2>1. worker' = worker /\ status[r] \in KnitRunStatus \cup {"none", "gone"}
    BY <1>5 DEF Activate, IInv, TypeOK
  <2>2. \/ status'[r] = status[r]
        \/ status[r] = "waiting" /\ status'[r] = "deactivated"
        \/ status[r] = "deactivated" /\ status'[r] = "waiting"
    BY <1>5 DEF Activate, GetRunStatusesForPlanActivate, IInv, TypeOK
  <2>3. QED
    BY <2>1, <2>2, SameStatuses DEF Lifecycle!Stay, Lifecycle!Advance, NextStatuses, KnitRunStatus, Finished
<1>6. ASSUME NEW r \in Run, NEW st \in KnitRunStatus, SetStatus(r, st)
      PROVE  Lifecycle!Next
  <2>1. /\ worker' = worker /\ status' = [status EXCEPT ![r] = st]
        /\ st \in NextStatuses[status[r]] /\ Exists(r) /\ st \in AskedStatus
    BY <1>6 DEF SetStatus
  <2>2. st \notin Finished
    BY <2>1, IdentifierAssumption DEF Finished
  <2>3. status[r] \in KnitRunStatus
    BY <2>1 DEF Exists, IInv, TypeOK
  <2>4. Lifecycle!Advance(r)
    BY <2>1, <2>2, <2>3, SameStatuses DEF Lifecycle!Advance, IInv, TypeOK
  <2>5. \A q \in Run \ {r} : Lifecycle!Stay(q)
    BY <2>1 DEF Lifecycle!Stay, IInv, TypeOK
  <2>6. QED
    BY <2>4, <2>5 DEF Lifecycle!Next
<1>7. ASSUME NEW r \in Run, Finish(r)
      PROVE  Lifecycle!Next
  <2>1. Lifecycle!Finish(r)
    BY <1>7, SameStatuses DEF Finish, Lifecycle!Finish, IInv, TypeOK
  <2>2. \A q \in Run \ {r} : Lifecycle!Stay(q)
    BY <1>7 DEF Finish, Lifecycle!Stay, IInv, TypeOK
  <2>3. QED
    BY <2>1, <2>2 DEF Lifecycle!Next
<1>8. ASSUME NEW r \in Run, DeleteWorker(r)
      PROVE  Lifecycle!Next
  <2>1. Lifecycle!CleanUp(r)
    BY <1>8 DEF DeleteWorker, Lifecycle!CleanUp
  <2>2. \A q \in Run \ {r} : Lifecycle!Stay(q)
    BY <1>8 DEF DeleteWorker, Lifecycle!Stay
  <2>3. QED
    BY <2>1, <2>2 DEF Lifecycle!Next
<1>9. CASE \E d \in KnitId : Pop(d)
  BY <1>9 DEF Pop, runVars
<1>10. QED
  BY <1>2, <1>3, <1>4, <1>5, <1>6, <1>7, <1>8, <1>9, StepKinds

\* The store implements the life of a run: whatever transactions are
\* committed, each run moves as RunLifecycle says.
THEOREM LifecycleImplemented == Spec => ImplementsLifecycle
<1>1. Init => Lifecycle!Init
  BY DEF Init, Lifecycle!Init
<1>2. IInv /\ OutputsComplete /\ [Next]_vars => [Lifecycle!Next]_<<status, worker>>
  BY LifecycleStep
<1>3. QED
  BY <1>1, <1>2, IInvInvariant, OutputsCorrect, PTL
     DEF Spec, ImplementsLifecycle, Lifecycle!Spec
=============================================================================
