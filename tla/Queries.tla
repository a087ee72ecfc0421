------------------------------- MODULE Queries ------------------------------
(***************************************************************************)
(* What the API answers when it is asked for data and runs.  An answer is  *)
(* put together from several statements on one connection, each of which   *)
(* sees the database as it is by then; other transactions are committed    *)
(* between them.  The transactions are those of RunStore, cut down to what *)
(* the queries read.                                                       *)
(***************************************************************************)
EXTENDS Naturals, FiniteSets

CONSTANTS
    Run, KnitId, UserTag,
    Mountpoint,     \* the tags that each mountpoint of a plan wants
    First,          \* the database as it is at first, see QueriesInit
    Upload,         \* the run whose plan has no inputs, and cannot be retried
    MaxWrites       \* bound: transactions

VARIABLES
    db,     \* the tables, see Database
    writes, \* transactions so far
    began,  \* ... by the time the request came
    req     \* the request: its query and what the statements have said

queriesVars == <<db, writes, began, req>>

NoRun == "-"
Status == {"running", "done", "failed", "invalidated"}

\* run: statuses, exit: runs with an exit code, data: the run each comes from,
\* stamped: data with a knit#timestamp, used: knit ids given away.
Database ==
    [run : [Run -> Status \cup {"none"}], exit : SUBSET Run, data : [KnitId -> Run \cup {NoRun}],
     stamped : SUBSET KnitId, tags : [KnitId -> SUBSET UserTag], assign : SUBSET (KnitId \X Run), used : SUBSET KnitId]

\* The tables refer to rows that are: data and assignments to runs, assignments and
\* tags to data; a run that was invalidated has lost its outputs; one has an exit when it
\* is over.
Intact(tables) ==
    /\ \A d \in KnitId : tables.data[d] # NoRun =>
           tables.run[tables.data[d]] \notin {"none", "invalidated"} /\ d \in tables.used
    /\ \A a \in tables.assign : tables.data[a[1]] # NoRun /\ tables.run[a[2]] # "none"
    /\ \A d \in KnitId : tables.tags[d] # {} => tables.data[d] # NoRun
    /\ tables.exit = {r \in Run : tables.run[r] \in {"done", "failed"}}

QueriesAssumption ==
    /\ MaxWrites \in Nat /\ Upload \in Run /\ NoRun \notin Run
    /\ First \subseteq Database /\ \A tables \in First : Intact(tables)
    /\ \A i \in DOMAIN Mountpoint : Mountpoint[i] \subseteq UserTag

Is(d) == db.data[d] # NoRun
Outputs(r) == {d \in KnitId : db.data[d] = r}
InputsOf(r) == {d \in KnitId : <<d, r>> \in db.assign}
Consumers(r) == {q \in Run : InputsOf(q) \cap Outputs(r) # {}}

\* ProcessingStatuses and FailedStatuses, as the tag knit#transient.
Transient(status) ==
    CASE status = "running" -> "processing" [] status \in {"failed", "invalidated"} -> "failed"
      [] OTHER -> "no"

\* The nomination table, which RunStore shows to be exact.
Nominations(d) ==
    IF d \in db.stamped /\ db.run[db.data[d]] = "done"
    THEN {i \in DOMAIN Mountpoint : Mountpoint[i] \subseteq db.tags[d]} ELSE {}

\* What a user may ask of data, and of runs.
DataQuery == [user : SUBSET UserTag, id : KnitId \cup {"any"}, transient : {"any", "processing", "failed"},
              flag : {"both", "yes", "no"}]
\* FindRunHandler refuses to look for invalidated ones, but they are found when
\* no status is given.
RunQuery == [status : SUBSET (Status \ {"invalidated"}), input : KnitId \cup {"any"}]

QueriesInit == db \in First /\ writes = 0 /\ began = 0 /\ req = [at |-> "idle"]

-----------------------------------------------------------------------------
(* Transactions *)

Transact(new) == writes < MaxWrites /\ writes' = writes + 1 /\ db' = new /\ UNCHANGED <<began, req>>

Finish(r) ==
    /\ db.run[r] = "running"
    /\ \E s \in {"done", "failed"} :
           Transact([db EXCEPT !.run[r] = s, !.exit = @ \cup {r}, !.stamped = @ \cup Outputs(r)])

\* truncateRun: the outputs go, and with them the runs downstream, invalidated all.
Truncated(r, new) ==
    LET gone == Consumers(r)
    IN  [db EXCEPT !.run = [q \in Run |-> IF q \in gone THEN "none" ELSE @[q]],
                   !.assign = {a \in @ : a[2] \notin gone},
                   !.exit = @ \ (gone \cup {r}),
                   !.data = [d \in KnitId |-> IF d \in new THEN r ELSE IF d \in Outputs(r) THEN NoRun ELSE @[d]],
                   !.stamped = @ \ Outputs(r),
                   !.tags = [d \in KnitId |-> IF d \in Outputs(r) THEN {} ELSE @[d]],
                   !.used = @ \cup new]

Free(r) == db.run[r] \in {"done", "failed"} /\ \A q \in Consumers(r) : db.run[q] = "invalidated"

\* A retry gives new knit ids to the outputs.
Fresh(r) == {new \in SUBSET (KnitId \ db.used) : Cardinality(new) = Cardinality(Outputs(r))}

Retry(r) ==
    /\ Free(r) /\ r # Upload
    /\ \E new \in Fresh(r) : Transact([Truncated(r, new) EXCEPT !.run[r] = "running"])

\* A run with inputs stays behind, as invalidated.
Delete(r) ==
    /\ Free(r)
    /\ Transact([Truncated(r, {}) EXCEPT !.run[r] = IF InputsOf(r) = {} THEN "none" ELSE "invalidated"])

UpdateTag(d) == Is(d) /\ \E T \in SUBSET UserTag : T # db.tags[d] /\ Transact([db EXCEPT !.tags[d] = T])

Write == (\E r \in Run : Finish(r) \/ Retry(r) \/ Delete(r)) \/ \E d \in KnitId : UpdateTag(d)

-----------------------------------------------------------------------------
(* Statements, each of which brings rows: a function of their keys *)

Come(kind, q, ids) ==
    /\ req.at = "idle" /\ began' = writes /\ UNCHANGED <<db, writes>>
    /\ req' = [at |-> IF ids = {} THEN "answered" ELSE kind, kind |-> kind, query |-> q, ids |-> ids,
               body |-> <<>>, tags |-> <<>>, upstream |-> <<>>, downstream |-> {}, run |-> <<>>, exit |-> {},
               nominated |-> <<>>, in |-> {}, out |-> {}]

\* makeDataFindQuery and find.
Holds(d, q) ==
    /\ Is(d) /\ q.user \subseteq db.tags[d] /\ q.id \in {"any", d}
    /\ q.transient \in {"any", Transient(db.run[db.data[d]])}

FindData == \E q \in DataQuery : Come("data", q, {d \in KnitId : Holds(d, q)})

Matches(r, q) ==
    db.run[r] \in (IF q.status = {} THEN Status ELSE q.status) /\ (q.input = "any" \/ q.input \in InputsOf(r))

FindRun == \E q \in RunQuery : Come("run", q, {r \in Run : Matches(r, q)})

\* The statement at one place fills a part of the answer and goes on to the next.
Statement(at, next, field, rows) ==
    req.at = at /\ req' = [req EXCEPT !.at = next, ![field] = rows] /\ UNCHANGED <<db, writes, began>>

Body(ids) == [d \in {e \in ids : Is(e)} |-> [stamped |-> d \in db.stamped, transient |-> Transient(db.run[db.data[d]])]]
Tags(ids) == [d \in {e \in ids : db.tags[e] # {}} |-> db.tags[d]]
Statuses(ids) == [r \in {q \in ids : db.run[q] # "none"} |-> db.run[r]]

\* Mutant: the tags are read before the data they are of.
GetDataBody_TagsFirst(at, ids, next) ==
    Statement(at, "tags", "tags", Tags(ids)) \/ Statement("tags", next, "body", Body(ids))
GetDataBody(at, ids, next) ==
    Statement(at, "tags", "body", Body(ids)) \/ Statement("tags", next, "tags", Tags(ids))

GetRunBody(at, ids, next) ==
    Statement(at, "exits", "run", Statuses(ids)) \/ Statement("exits", next, "exit", ids \cap db.exit)

\* Where the data asked for comes from and goes to.
Upstream ==
    LET known == {d \in DOMAIN req.body : Is(d)}
    IN  Statement("upstream", IF known = {} THEN "missed" ELSE "downstream", "upstream", [d \in known |-> db.data[d]])
Downstream == Statement("downstream", "runs", "downstream", {a \in db.assign : a[1] \in req.ids})

\* GetNominationByKnitId: the last row of a data overwrites the others.
Index(d) == {{i} : i \in Nominations(d)}

GetNominationByKnitId ==
    LET nominated == {d \in req.ids : Is(d) /\ Nominations(d) # {}}
    IN  \E index \in [nominated -> UNION {Index(d) : d \in nominated}] :
            /\ \A d \in nominated : index[d] \in Index(d)
            /\ Statement("nominations", "answered", "nominated", index)

\* The runs that the data asked for come from and go to; the data that the runs
\* asked for take and make.
RunsOfData == {req.upstream[d] : d \in DOMAIN req.upstream} \cup {a[2] : a \in req.downstream}
DataOfRuns == {a[1] : a \in req.in \cup req.out}

GetData ==
    /\ req.at # "idle" /\ req.kind = "data"
    /\ \/ GetDataBody("data", req.ids, "upstream") \/ Upstream \/ Downstream
       \/ GetRunBody("runs", RunsOfData, "nominations") \/ GetNominationByKnitId

\* The inputs and the outputs of the runs, then what is known of them.
GetRun ==
    /\ req.at # "idle" /\ req.kind = "run"
    /\ \/ GetRunBody("run", req.ids, "assign")
       \/ Statement("assign", "outs", "in", {a \in db.assign : a[2] \in req.ids})
       \/ Statement("outs", "body", "out", {<<d, db.data[d]>> : d \in {e \in KnitId : db.data[e] \in req.ids}})
       \/ GetDataBody("body", DataOfRuns, "answered")

Read == FindData \/ FindRun \/ GetData \/ GetRun
QueriesNext == Write \/ Read
QueriesSpec == QueriesInit /\ [][QueriesNext]_queriesVars

-----------------------------------------------------------------------------
(* Answers *)

Answered(kind) == req.at = "answered" /\ req.kind = kind /\ req.ids # {}

\* Mutant: invalidated runs are shown as well.
Shown_All(run) == TRUE
\* ComposeDetail: runs that are invalidated are not shown.
Shown(run) == req.run[run] # "invalidated"

AssignedTo(d) == {a[2] : a \in {b \in req.downstream : b[1] = d /\ b[2] \in DOMAIN req.run /\ Shown(b[2])}}

\* The command prints what its flag --transient lets pass.
Printed ==
    {d \in DOMAIN req.body : CASE req.query.flag = "both" -> TRUE [] req.query.flag = "yes" -> req.body[d].transient # "no"
                               [] req.query.flag = "no" -> req.body[d].transient = "no"}

\* FindRunHandler: one detail for each run found; a run that Get does not know is blank.
Details == {IF r \in DOMAIN req.run THEN r ELSE "blank" : r \in req.ids}

\* Types, and the tables fit together.
QueriesTypeOK ==
    /\ db \in Database /\ Intact(db) /\ writes \in 0..MaxWrites /\ began \in 0..writes
    /\ req.at # "idle" => req.kind \in {"data", "run"} /\ DOMAIN req.body \cup DOMAIN req.tags \subseteq KnitId

\* User tags are read after the data they belong to, and knit ids are not used
\* again, so no answer has tags of a data that it does not have (GetDataBody).
NoGhost == Answered("data") \/ Answered("run") => DOMAIN req.tags \subseteq DOMAIN req.body

\* When nothing was written since the request came, the answer is what the
\* database holds: the data found that the flag lets pass, each with its source and every run that takes
\* it but the invalidated ones; each run found, with its inputs, outputs and exit.
QuietIsExact ==
    writes = began =>
        /\ Answered("data") =>
               /\ Printed = {d \in req.ids : req.query.flag \in {"both", IF db.run[db.data[d]] = "done" THEN "no" ELSE "yes"}}
               /\ \A d \in req.ids :
                      /\ req.upstream[d] = db.data[d] /\ req.run[req.upstream[d]] = db.run[db.data[d]]
                      /\ AssignedTo(d) = {r \in Run : <<d, r>> \in db.assign /\ db.run[r] # "invalidated"}
        /\ Answered("run") =>
               /\ Details = req.ids /\ req.exit = {r \in req.ids : db.run[r] \in {"done", "failed"}}
               /\ \A r \in req.ids :
                      /\ {a[1] : a \in {b \in req.in : b[2] = r}} = InputsOf(r)
                      /\ {a[1] : a \in {b \in req.out : b[2] = r}} = Outputs(r)

\* The three together.
AnswersAreExact == QueriesTypeOK /\ NoGhost /\ QuietIsExact

\* GetNominationByKnitId: "mapping knitId -> its nominations".
NominationsComplete ==
    writes = began /\ Answered("data") =>
        \A d \in req.ids : Nominations(d) = IF d \in DOMAIN req.nominated THEN req.nominated[d] ELSE {}

\* Every run answered is one of those that were asked for: "status which run
\* to be found is".
FoundRunsAreAsked == Answered("run") => Details \subseteq Run
=============================================================================
