------------------------------- MODULE RunStore ------------------------------
(***************************************************************************)
(* The database side of runs, data, plans, nominations and garbage: one    *)
(* action per committed transaction of the PostgreSQL implementations      *)
(* under pkg/domain.  Transactions that lock the same rows are serialised  *)
(* by those locks, so a committed transaction is one step here; the        *)
(* processes that call these operations may do so in any order.            *)
(* StoreLocks looks at that more closely: it holds of all but Register,    *)
(* which is serializable and may nominate from a snapshot that is older    *)
(* than its lock.                                                          *)
(*                                                                         *)
(* The foreign and primary keys of the schema are NOT guards of the        *)
(* actions: that no operation ever trips over one is a consequence of the  *)
(* invariants below.                                                       *)
(***************************************************************************)
EXTENDS Catalog, RunStatus, Functions, Integers

CONSTANTS
    Run,    \* identifiers of runs; naturals, handed out in increasing order
    NoRun,  \* the producer of no data
    NoPlan, \* the plan of no run
    NoOutput,
    Mode,   \* the modes in which data agents are opened
    AskedStatus \* the statuses that callers of SetStatus ask for

ASSUME IdentifierAssumption ==
    /\ Run \subseteq Nat /\ NoRun \notin Run
    /\ KnitId \subseteq Nat
    /\ NoPlan \notin AnyPlan
    /\ NoOutput \notin Output
    /\ Mode \subseteq {"read", "write"}
    /\ AskedStatus \subseteq {"ready", "starting", "running", "completing", "aborting"}

VARIABLES
    registered,  \* plan_image: the image plans registered so far
    active,      \* plan.active
    status,      \* run.status, "none" before the row exists, "gone" after
    planOf,      \* run.plan_id
    assign,      \* assign: the data mounted on each input of a run
    worker,      \* worker: the runs with a worker name
    place,       \* where a knit id is: nowhere yet, data, garbage, destroyed
    producer,    \* data.run_id
    outputOf,    \* data.output_id
    tags,        \* tag_data
    stamped,     \* knit_timestamp: the data with a timestamp
    agents,      \* data_agent: data being read or written, by mode
    nomination,  \* nomination: (input, data) that match
    updated      \* nomination.updated: those not projected yet

planVars == <<registered, active>>
runVars  == <<status, planOf, assign, worker>>
dataVars == <<place, producer, outputOf, tags, stamped>>
nomVars  == <<nomination, updated>>
vars == <<planVars, runVars, dataVars, agents, nomVars>>

\* A row of assign per input; NoKnitId where there is no row.
Assignment == [Input -> KnitId \cup {NoKnitId}]
NoAssignment == [i \in Input |-> NoKnitId]

TypeOK ==
    /\ registered \subseteq Plan
    /\ active \subseteq registered
    /\ status \in [Run -> KnitRunStatus \cup {"none", "gone"}]
    /\ planOf \in [Run -> AnyPlan \cup {NoPlan}]
    /\ assign \in [Run -> Assignment]
    /\ worker \subseteq Run
    /\ place \in [KnitId -> {"none", "data", "garbage", "destroyed"}]
    /\ producer \in [KnitId -> Run \cup {NoRun}]
    /\ outputOf \in [KnitId -> Output \cup {NoOutput}]
    /\ tags \in [KnitId -> SUBSET Tag]
    /\ stamped \subseteq KnitId
    /\ agents \subseteq KnitId \X Mode
    /\ nomination \subseteq Input \X KnitId
    /\ updated \subseteq nomination

Init ==
    /\ registered = {} /\ active = {}
    /\ status = [r \in Run |-> "none"]
    /\ planOf = [r \in Run |-> NoPlan]
    /\ assign = [r \in Run |-> NoAssignment]
    /\ worker = {}
    /\ place = [d \in KnitId |-> "none"]
    /\ producer = [d \in KnitId |-> NoRun]
    /\ outputOf = [d \in KnitId |-> NoOutput]
    /\ tags = [d \in KnitId |-> {}]
    /\ stamped = {}
    /\ agents = {}
    /\ nomination = {} /\ updated = {}

-----------------------------------------------------------------------------
(* Reading the tables *)

Exists(r) == status[r] \notin {"none", "gone"}

\* The data rows a run has produced, or is to produce.
Outs(r) == {d \in KnitId : place[d] = "data" /\ producer[d] = r}

\* The runs with one of ds among their inputs.
Consumers(ds) == {q \in Run : \E i \in Input : assign[q][i] \in ds}

RegisteredInputs(ps) == UNION {InputsOf[p] : p \in ps}

\* Fresh identifiers: k of them, in increasing order.  (The database draws
\* UUIDs; which ones makes no difference to anything here.)
Lowest(S, k) == {x \in S : Cardinality({y \in S : y < x}) < k}
FreshRuns(k) == Lowest({r \in Run : status[r] = "none"}, k)
FreshData(k) == Lowest({d \in KnitId : place[d] = "none"}, k)

-----------------------------------------------------------------------------
(* Nomination *)

\* The pairs NominateData and NominateMountpoints insert, when the inputs is
\* and the data ds are considered, the data in done come from done runs and
\* carry the tags tg.
MatchingPairs(is, ds, done, tg) ==
    {n \in is \X ds : n[2] \in done /\ Matches(n[1], n[2], tg[n[2]])}

DoneData == {d \in KnitId : \E r \in Run : d \in Outs(r) /\ status[r] = "done"}

\* Mutant: pairs that match no longer stay nominated.
NominateData_KeepsUnmatched(ds, done, tg) ==
    LET match == MatchingPairs(RegisteredInputs(registered), ds, done, tg)
    IN  nomination' = nomination \cup match /\ updated' = updated \cup (match \ nomination)

\* NominateData(ds) under the tags tg: pairs of ds that no longer match go,
\* new ones are inserted as updated, old ones keep their flag.
NominateData(ds, done, tg) ==
    LET match == MatchingPairs(RegisteredInputs(registered), ds, done, tg)
    IN  /\ nomination' = {n \in nomination : n[2] \notin ds} \cup match
        /\ updated' = {n \in updated : n[2] \notin ds \/ n \in match}
                        \cup (match \ nomination)

\* NominateMountpoints(is): the same for all data and the inputs is.
NominateMountpoints(is) ==
    LET match == MatchingPairs(is, KnitId, DoneData, tags)
    IN  /\ nomination' = {n \in nomination : n[1] \notin is} \cup match
        /\ updated' = {n \in updated : n[1] \notin is \/ n \in match}
                        \cup (match \ nomination)

\* Mutant: the flags of the dropped nominations stay.
DropData_KeepsFlags(ds) ==
    nomination' = {n \in nomination : n[2] \notin ds} /\ UNCHANGED updated

\* DropData(ds).
DropData(ds) ==
    /\ nomination' = {n \in nomination : n[2] \notin ds}
    /\ updated' = {n \in updated : n[2] \notin ds}

-----------------------------------------------------------------------------
(* Plans *)

\* planPG.Register: no equivalent plan, no cycle; the data already there are
\* nominated to its inputs.
Register(p, isActive) ==
    /\ p \notin registered
    /\ ~ HasCycle(registered \cup {p})
    /\ registered' = registered \cup {p}
    /\ active' = IF isActive THEN active \cup {p} ELSE active
    /\ NominateMountpoints(InputsOf[p])
    /\ UNCHANGED <<runVars, dataVars, agents>>

\* Mutant: the pair is swapped.
GetRunStatusesForPlanActivate_Swapped(toBe) ==
    IF toBe THEN <<"deactivated", "waiting">> ELSE <<"waiting", "deactivated">>

\* The status of a plan's runs after and before it is (de)activated.
GetRunStatusesForPlanActivate(toBe) ==
    IF toBe THEN <<"waiting", "deactivated">> ELSE <<"deactivated", "waiting">>

\* planPG.Activate: its waiting runs are deactivated, or the other way around.
Activate(p, toBe) ==
    LET change == GetRunStatusesForPlanActivate(toBe)
    IN  /\ p \in registered
        /\ active' = IF toBe THEN active \cup {p} ELSE active \ {p}
        /\ status' = [r \in Run |-> IF planOf[r] = p /\ status[r] = change[2]
                                    THEN change[1] ELSE status[r]]
        /\ UNCHANGED <<registered, planOf, assign, worker, dataVars, agents, nomVars>>

-----------------------------------------------------------------------------
(* New runs *)

\* register() for the runs R of plan p, with their inputs: a data row for each
\* output (complementData), tagged as the plan says.  owner tells which output
\* of which run each new knit id is.
AddRuns(R, p, inputs, st, owner) ==
    LET D == DOMAIN owner
    IN  /\ status' = [r \in Run |-> IF r \in R THEN st ELSE status[r]]
        /\ planOf' = [r \in Run |-> IF r \in R THEN p ELSE planOf[r]]
        /\ assign' = [r \in Run |-> IF r \in R THEN inputs[r] ELSE assign[r]]
        /\ place' = [d \in KnitId |-> IF d \in D THEN "data" ELSE place[d]]
        /\ producer' = [d \in KnitId |-> IF d \in D THEN owner[d][1] ELSE producer[d]]
        /\ outputOf' = [d \in KnitId |-> IF d \in D THEN owner[d][2] ELSE outputOf[d]]
        /\ tags' = [d \in KnitId |-> IF d \in D THEN OutputTags[owner[d][2]] ELSE tags[d]]
        /\ UNCHANGED stamped

\* The ways to hand fresh knit ids out to the outputs of the runs R of plan p.
Owners(R, p) ==
    LET slots == R \X OutputsOf[p]
    IN  Bijection(FreshData(Cardinality(slots)), slots)

\* runPG.NewPseudo: an upload or an import, running at once.
NewPseudo(p) ==
    \E r \in FreshRuns(1) : \E owner \in Owners({r}, p) :
        /\ AddRuns({r}, p, [q \in {r} |-> NoAssignment], "running", owner)
        /\ UNCHANGED <<worker, planVars, agents, nomVars>>

\* Mutant: invalidated runs are forgotten.
Known_Valid(p, c) ==
    \E r \in Run : planOf[r] = p /\ assign[r] = c /\ status[r] # "invalidated"

\* Some run of p, invalidated or not, has these inputs already.
Known(p, c) == \E r \in Run : planOf[r] = p /\ assign[r] = c

\* Mutant: the triggering data is never mounted on a second input.
Patterns_TriggerOnce(p, i, d) ==
    {c \in Assignment :
        \A j \in Input :
            IF j \notin InputsOf[p] THEN c[j] = NoKnitId
            ELSE IF j = i THEN c[j] = d
            ELSE <<j, c[j]>> \in nomination \ updated /\ c[j] # d}

\* The input patterns of a projection triggered by data d on input i of p: the
\* trigger on its own mountpoint, data projected before on the others.
Patterns(p, i, d) ==
    {c \in Assignment :
        \A j \in Input :
            IF j \notin InputsOf[p] THEN c[j] = NoKnitId
            ELSE IF j = i THEN c[j] = d
            ELSE <<j, c[j]>> \in nomination \ updated}

\* runPG.New with project(): one updated nomination is taken, the patterns it
\* completes become runs with a worker name, and it is updated no more.
New(p, i, d) ==
    LET pats == {c \in Patterns(p, i, d) : ~ Known(p, c)}
        R    == FreshRuns(Cardinality(pats))
        st   == IF p \in active THEN "waiting" ELSE "deactivated"
    IN  /\ p \in registered /\ i \in InputsOf[p]
        /\ <<i, d>> \in updated
        /\ \E inputs \in Bijection(R, pats) : \E owner \in Owners(R, p) :
              AddRuns(R, p, inputs, st, owner)
        /\ worker' = worker \cup R
        /\ updated' = updated \ {<<i, d>>}
        /\ UNCHANGED <<planVars, agents, nomination>>

-----------------------------------------------------------------------------
(* Statuses *)

\* Mutant: only the results of done runs get a timestamp.
Stamp_DoneOnly(r) == stamped \cup (IF status[r] = "completing" THEN Outs(r) ELSE {})

\* The data with a timestamp once r is finished.
Stamp(r) == stamped \cup Outs(r)

\* finish(): the outputs get their timestamp and, if the run is done, are
\* nominated.  The finishing loop deletes the worker's row before it asks for
\* this; the upload handler asks for it on runs that never had one.
Finish(r) ==
    LET st == FinishedStatus(status[r])
    IN  /\ status[r] \in {"completing", "aborting"}
        /\ r \notin worker
        /\ status' = [status EXCEPT ![r] = st]
        /\ stamped' = Stamp(r)
        /\ IF st = "done"
           THEN NominateData(Outs(r), DoneData \cup Outs(r), tags)
           ELSE UNCHANGED nomVars
        /\ UNCHANGED <<planVars, planOf, assign, worker,
                       place, producer, outputOf, tags, agents>>

\* setStatus() to a status other than the current one, finish() apart.  The
\* callers never ask for waiting or deactivated: Activate does that.
SetStatus(r, st) ==
    /\ Exists(r)
    /\ st \in AskedStatus
    /\ st \in NextStatuses[status[r]]
    /\ status' = [status EXCEPT ![r] = st]
    /\ UNCHANGED <<planVars, planOf, assign, worker, dataVars, agents, nomVars>>

\* DeleteWorker, which finishing calls once the worker has been closed.
DeleteWorker(r) ==
    /\ r \in worker /\ status[r] \in {"completing", "aborting"}
    /\ worker' = worker \ {r}
    /\ UNCHANGED <<planVars, status, planOf, assign, dataVars, agents, nomVars>>

-----------------------------------------------------------------------------
(* Retry, Delete and the garbage *)

\* Mutants: the check for downstreams, or for data agents, is forgotten.
Truncatable_AnyDownstream(r) ==
    Exists(r) /\ r \notin worker /\ \A d \in Outs(r), m \in Mode : <<d, m>> \notin agents
Truncatable_AnyAgent(r) ==
    Exists(r) /\ r \notin worker /\ \A q \in Consumers(Outs(r)) : status[q] = "invalidated"

\* What keeps truncateRun from truncating: a worker name, a data agent on an
\* output, a downstream that is not invalidated.
Truncatable(r) ==
    /\ Exists(r)
    /\ r \notin worker
    /\ \A d \in Outs(r), m \in Mode : <<d, m>> \notin agents
    /\ \A q \in Consumers(Outs(r)) : status[q] = "invalidated"

\* Downstream runs whose row truncateRun removes with the run's outputs.
Dropped(r) == {q \in Consumers(Outs(r)) : status[q] = "invalidated"}

\* truncateRun(r) and what Delete or Retry do next, in the same transaction:
\* the run becomes st (or its row goes), owner names its new outputs, if any.
TruncateAnd(r, st, owner) ==
    LET old == Outs(r)
        new == DOMAIN owner
        gone == Dropped(r) \cup (IF st = "gone" THEN {r} ELSE {})
    IN  /\ Truncatable(r)
        /\ status' = [q \in Run |-> IF q \in gone THEN "gone"
                                    ELSE IF q = r THEN st ELSE status[q]]
        /\ planOf' = [q \in Run |-> IF q \in gone THEN NoPlan ELSE planOf[q]]
        /\ assign' = [q \in Run |-> IF q \in gone THEN NoAssignment ELSE assign[q]]
        /\ place' = [d \in KnitId |-> IF d \in old THEN "garbage"
                                      ELSE IF d \in new THEN "data" ELSE place[d]]
        /\ producer' = [d \in KnitId |-> IF d \in old THEN NoRun
                                         ELSE IF d \in new THEN r ELSE producer[d]]
        /\ outputOf' = [d \in KnitId |-> IF d \in old THEN NoOutput
                                         ELSE IF d \in new THEN owner[d][2] ELSE outputOf[d]]
        /\ tags' = [d \in KnitId |-> IF d \in old THEN {}
                                     ELSE IF d \in new THEN OutputTags[owner[d][2]] ELSE tags[d]]
        /\ stamped' = stamped \ old
        /\ DropData(old)
        /\ UNCHANGED <<planVars, agents>>

\* Mutant: a run that is not stopped is deleted as well.
Delete_AnyStatus(r) ==
    /\ TruncateAnd(r, IF assign[r] = NoAssignment THEN "gone" ELSE "invalidated", <<>>)
    /\ UNCHANGED worker

\* runPG.Delete: a run without inputs leaves; one with inputs stays behind as
\* invalidated, to keep its input pattern known.
Delete(r) ==
    /\ status[r] \in {"waiting", "deactivated", "done", "failed"}
    /\ TruncateAnd(r, IF assign[r] = NoAssignment THEN "gone" ELSE "invalidated", <<>>)
    /\ UNCHANGED worker

\* Mutant: the outputs given up are not replaced.
Retry_NoNewOutputs(r) ==
    /\ status[r] \in Finished /\ planOf[r] \in Plan
    /\ TruncateAnd(r, "waiting", <<>>)
    /\ worker' = worker \cup {r}

\* Mutant: an invalidated run is retried, too.
Retry_Invalidated(r) ==
    /\ status[r] \in Finished \cup {"invalidated"}
    /\ planOf[r] \in Plan
    /\ \E owner \in Owners({r}, planOf[r]) : TruncateAnd(r, "waiting", owner)
    /\ worker' = worker \cup {r}

\* runPG.Retry: a finished run of an image plan waits again, with new outputs
\* and a worker name.
Retry(r) ==
    /\ status[r] \in Finished
    /\ planOf[r] \in Plan
    /\ \E owner \in Owners({r}, planOf[r]) : TruncateAnd(r, "waiting", owner)
    /\ worker' = worker \cup {r}

\* pgGarbage.Pop: the volume is destroyed and its knit id leaves the database.
Pop(d) ==
    /\ place[d] = "garbage"
    /\ place' = [place EXCEPT ![d] = "destroyed"]
    /\ UNCHANGED <<planVars, runVars, producer, outputOf, tags, stamped, agents, nomVars>>

-----------------------------------------------------------------------------
(* Data *)

\* dataPG.UpdateTag: the tags change and the data is nominated anew.
UpdateTag(d, T) ==
    /\ place[d] = "data"
    /\ tags' = [tags EXCEPT ![d] = T]
    /\ NominateData({d}, DoneData, tags')
    /\ UNCHANGED <<planVars, runVars, place, producer, outputOf, stamped, agents>>

\* dataPG.NewAgent: at most one writer per data (a partial unique index), any
\* number of readers, of which agents tells whether there is one.
NewAgent(d, m) ==
    /\ place[d] = "data"
    /\ m = "write" => <<d, "write">> \notin agents
    /\ agents' = agents \cup {<<d, m>>}
    /\ UNCHANGED <<planVars, runVars, dataVars, nomVars>>

\* dataPG.RemoveAgent and PickAndRemoveAgent: the writer, or the last reader.
RemoveAgent(d, m) ==
    /\ <<d, m>> \in agents
    /\ agents' = agents \ {<<d, m>>}
    /\ UNCHANGED <<planVars, runVars, dataVars, nomVars>>

-----------------------------------------------------------------------------
PlanStep ==
    \E p \in Plan :
        \/ \E b \in BOOLEAN : Register(p, b) \/ Activate(p, b)
        \/ \E i \in Input, d \in KnitId : New(p, i, d)

RunStep ==
    \E r \in Run :
        \/ \E st \in KnitRunStatus : SetStatus(r, st)
        \/ Finish(r) \/ DeleteWorker(r) \/ Delete(r) \/ Retry(r)

DataStep ==
    \E d \in KnitId :
        \/ \E T \in SUBSET Tag : UpdateTag(d, T)
        \/ \E m \in Mode : NewAgent(d, m) \/ RemoveAgent(d, m)
        \/ Pop(d)

Next ==
    \/ PlanStep
    \/ \E p \in PseudoPlan : NewPseudo(p)
    \/ RunStep
    \/ DataStep

Spec == Init /\ [][Next]_vars

-----------------------------------------------------------------------------
(* Properties *)

\* Every data item mounted on a run, invalidated or not, is still in the
\* database and is the result of a run that is done: no retry, deletion or
\* garbage collection takes an input away from a run that was given it.
LineageIntact ==
    \A r \in Run, i \in Input :
        assign[r][i] # NoKnitId => assign[r][i] \in DoneData

\* The nomination table is exactly the relation "this input accepts this data
\* of a done run", whichever of registration, finishing, tagging, retry and
\* deletion came last.
NominationExact ==
    nomination = MatchingPairs(RegisteredInputs(registered), KnitId, DoneData, tags)

\* All inputs of p are given data projected before, and no other input is.
Projected(p, c) ==
    \A j \in Input :
        IF j \in InputsOf[p] THEN <<j, c[j]>> \in nomination \ updated
        ELSE c[j] = NoKnitId

\* Projection forgets no combination: once the nominations have been taken,
\* every combination of data that match the inputs of a plan has a run, in
\* whatever order the data, tags and plans came.
ProjectionComplete ==
    \A p \in registered : \A c \in Assignment : Projected(p, c) => Known(p, c)

\* Projection repeats no combination: two runs of a plan differ in an input,
\* also after retags, deletions (which leave invalidated runs) and retries.
ProjectionUnique ==
    \A q, r \in Run :
        planOf[q] \in Plan /\ planOf[q] = planOf[r] /\ assign[q] = assign[r] => q = r

\* A run has one data row for each output of its plan until it is invalidated,
\* then none, and no worker name: its row can go with its upstream's data.
OutputsComplete ==
    \A r \in Run :
        IF ~ Exists(r) \/ status[r] = "invalidated"
        THEN Outs(r) = {} /\ r \notin worker
        ELSE /\ \A d, e \in Outs(r) : outputOf[d] = outputOf[e] => d = e
             /\ {outputOf[d] : d \in Outs(r)} = OutputsOf[planOf[r]]

\* Data has a timestamp exactly while its run is finished.  finish() inserts
\* timestamps without asking whether they are there: the primary key of
\* knit_timestamp never refuses them.
StampedIffFinished ==
    stamped = {d \in KnitId : \E r \in Run : d \in Outs(r) /\ status[r] \in Finished}

\* The rows that refer to data refer to rows of data: agents, producers.
ReferencesIntact ==
    /\ \A d \in KnitId : place[d] = "data" <=> producer[d] # NoRun
    /\ \A n \in agents : place[n[1]] = "data"

\* No run is left deactivated under an active plan, where nothing would ever
\* take it up again.
NoStrandedRun ==
    \A r \in Run : status[r] = "deactivated" => planOf[r] \in registered \ active

\* Data leaves the data table only when nobody reads or writes it, its run has
\* no worker and is not on its way, and every consumer was invalidated before.
RemovesSafely ==
    \A d \in KnitId :
        place[d] = "data" /\ place'[d] # "data" =>
           /\ \A m \in Mode : <<d, m>> \notin agents
           /\ producer[d] \notin worker
           /\ status[producer[d]] \in Finished \cup {"waiting", "deactivated"}
           /\ \A q \in Consumers({d}) : status[q] = "invalidated"

\* No transaction ever removes data unsafely.
RemovalIsSafe == [][RemovesSafely]_vars

\* The transactions give every run the life that is promised.
Lifecycle == INSTANCE RunLifecycle
ImplementsLifecycle == Lifecycle!Spec

\* What pkg/domain/run/db/postgres/run.go:1147 says of waiting and deactivated
\* runs, "they can be deleted", once nothing else is in the way: no agent has
\* opened their outputs and no run has been given them.
UnstartedCanBeDeleted ==
    \A r \in Run :
        /\ status[r] \in {"waiting", "deactivated"}
        /\ \A d \in Outs(r), m \in Mode : <<d, m>> \notin agents
        /\ Consumers(Outs(r)) = {}
        => Truncatable(r)
=============================================================================
