# Knitfab in TLA+

Models, model-checking configurations and proofs for Knitfab (`pkg/`, `cmd/`):
an MLOps system that starts containers when the data they need appears and
records which data came from which. Source lines are those of the commit the
project was written against; `PROJECT.json` maps each definition to its lines.

## 1. The system

### Parts, state, operations

| Part | Where | State | Operations |
|---|---|---|---|
| run store | `pkg/domain/run/db/postgres/run.go` | tables `run`, `run_exit`, `worker`, `assign`, `data`, `knit_timestamp` | NewPseudo, New (projection), SetStatus, PickAndSetStatus, Finish, SetExit, DeleteWorker, Delete, Retry |
| nominator | `pkg/domain/nomination` | `nomination` (input, data, updated) | NominateData, NominateMountpoints, DropData; always inside a transaction of another store |
| plan store | `pkg/domain/plan` | `plan`, `input`, `output` and their tags | Register (with the search for cycles), Activate |
| data store | `pkg/domain/data` | `tag_data`, `data_agent` | UpdateTag, NewAgent, RemoveAgent, PickAndRemoveAgent |
| garbage | `pkg/domain/garbage` | `garbage` | Pop |
| loops | `cmd/loops` | a cursor per process | projection, initialize, run_management, finishing, garbage_collection, housekeeping |
| workers | `pkg/domain/run/k8s/worker`, `pkg/domain/knitfab/k8s/cluster` | Kubernetes Jobs | spawn, find, status, close |
| volumes, data agents | `pkg/domain/run/k8s/run`, `pkg/domain/data/k8s` | PVCs, Pods | provision, destroy, spawn, find, close |
| `knitd` | `cmd/knitd/handlers` | none | queries, register, activate, tag, abort, tear off, retry, delete |
| `knitd_backend` | `cmd/knitd_backend/handlers` | none | upload, download, import, log; keys through a key provider |
| keychains | `cmd/knitd_backend/provider`, `pkg/domain/keychain` | Kubernetes Secrets, a row that is locked | provide a key, verify a token |
| hooks | `cmd/loops/hook`, `pkg/configs/hook` | none | before, after |
| cluster layer | `pkg/domain/knitfab/k8s/cluster`, `pkg/utils/retry` | promises | New*, Get*, Close of Jobs, Pods, PVCs, Services, Deployments; Status |
| connection pool | `pkg/conn/db/postgres/pool` | connections | Acquire, Begin, Release |
| command line client | `cmd/knit` | none | lineage, plan graph, upload, download, and one command per request |
| data agent | `cmd/dataagt`, `pkg/utils/archive` | files of a volume | archive, extract |
| volume expander | `cmd/volume_expander` | who mounts what | watch pods, read metrics, request room |
| schema upgrader, schema watcher | `cmd/schema_upgrader`, `pkg/domain/schema` | `schema_version`, a directory of versions | publish, upgrade; stop when out of date |
| the rest | `cmd/log_recorder`, `cmd/empty`, `pkg/configs`, `pkg/api-types-binding`, charts, scripts | | see section 7 |

### How they interact

A run starts as an upload or an import, running at once, or as a projection:
when data that matches the inputs of a plan has been *nominated* to all of
them, `New` makes a run of each new combination. The run is then carried by the
loops, each of which repeats one transaction (`PickAndSetStatus`):

    deactivated <-> waiting --initialize--> ready --run_management--> starting
       --> running --> completing | aborting --finishing--> done | failed

Finishing an image run closes its Job and deletes its row of `worker`. A done
run's outputs are nominated, so the next plans are fed. Users may abort, tear
off, retry or delete a run at any time, change tags, and switch plans on and
off. What is deleted or replaced goes to `garbage`; its volume is destroyed
later. The loops, API servers and Jobs share nothing but the database and the
cluster: no messages, no leader. Each loop is deployed with one replica by
default, and with more if the chart's values say so.

### What is hard about it

* Nomination and projection are incremental: each operation updates the part of
  the table it touches and relies on the others having done theirs, in any order.
* What one transaction deletes, others refer to.
* A loop acts on the cluster, and on the database in transactions of their own
  (`SetExit`, `DeleteWorker`), while its main transaction is open; after a
  crash only the main one is rolled back.
* The query that picks a run does not look at its status again once it has the
  lock (READ COMMITTED, `SKIP LOCKED`).
* Jobs have the name of the run, not of an attempt, and a deleted Job takes
  time to go.
* Loops run for ever whatever fails, and must not be held up by one run.
* The handlers of uploads hold a pod, a row and a run together, any of which a
  crash may leave behind; the loops that clean up race them.
* A volume is made, awaited and destroyed by requests that may be lost after
  they were carried out, from transactions that may not commit.
* An API answer is several statements; a client asks many times for one graph;
  a checksum follows the stream it is for, through two proxies.

`PROJECT.json` lists the hazards that properties are for, with the line where each one bites;
those that do bite are in section 5.

### What makes each part correct

* store: nominations are exact; projection is complete and repeats nothing; what
  a run was given stays; removals hurt nobody; rows refer to rows that are there.
* loops: a worker is never orphaned and never started twice in an attempt; the
  exit on record fits the status; each run lives the life of `RunLifecycle`;
  none is passed over for ever, and those that begin finish.
* volumes: what a run was promised is there, and nothing is left behind.
* uploads: what is done is whole; runs and agents end whatever their handler did.
* plans: those that are the same are one; together they make no circle; they are
  found by what they have.
* keys: a token that was given out verifies as long as its import may take.
* hooks: nothing changes that a hook has refused.
* graphs, queries, streams: the answer is of the state that was there, or an error.
* settings, schema, volumes' room: in the end everybody is served.

## 2. The modules

| Module | What it is |
|---|---|
| `RunStatus` | the statuses and the moves `setStatus` accepts |
| `RunLifecycle` | the abstract specification: the life of a run, as anybody who watches runs may rely on it |
| `Catalog` | the plans that may be registered, their mountpoints and tags, when an input accepts data, when plans make a cycle |
| `RunStore` | the database: one action per committed transaction |
| `RunLoops` | the loops, the users and the cluster around the runs of one image plan |
| `StoreLocks` | the transactions of the store that nominate, lock by lock |
| `Uploads` | the handlers of `knitd_backend`, the agents' pods, housekeeping, the managers of uploads and imports; implements `RunLifecycle` |
| `Provisioning` | the volumes of runs: initialize, retry, deletion, garbage collection |
| `Hooks` | the hooks around each change of a run |
| `Keychain` | key providers that share a keychain |
| `PlanSpec` | a plan is validated, normalised, hashed, compared |
| `PlanStore` | plans together: the check for cycles, upstreams and downstreams, find |
| `Plans` | `PlanSpec` and `PlanStore` together, and what makes plans sound |
| `PlanSettings` | limits, annotations and service accounts changed at the same time |
| `Queries` | answers of the API, statement by statement |
| `KnitGraph`; `Lineage`, `PlanGraph`; `Drawings` | the graph the client builds; the two traces that build it; both together |
| `Transfer`, `TreeWalk` | the stream of a piece of data; which files it has |
| `Reach` | what steps lead to: in so many, or at all |
| `ClusterPromise` | how objects are created and awaited |
| `WorkloadStatus`, `WorkerSpec`; `Workers` | what the status of a Job is made of; the pod of a worker; both together |
| `VolumeExpander` | watches, metrics, requests for room |
| `SchemaUpgrade` | upgraders, and the servers that stop when out of date |
| `MCBackend` | suite: `Keychain`, `Uploads`, `Transfer`, `TreeWalk` |
| `MCCluster` | suite: `Provisioning`, `ClusterPromise`, `Workers`, `VolumeExpander` |
| `MCPlans` | suite: `Plans`, `PlanSettings`, `Drawings`, `Queries`, `StoreLocks` |
| `MCLiveness` | suite of what must happen in the end: `Hooks`, `Uploads`, `Keychain`, `Provisioning`, `ClusterPromise`, `VolumeExpander`, `SchemaUpgrade`, `PlanSettings` |
| `MCRunStore`, `MCRunLoops`; `MCPlanSpec`, `MCQueries`, `MCLineage`, `MCPlanGraph` | instances for TLC; the inputs that instances start from |
| `Induction`; `..._proofs` | theorems (section 6) |

`RunStore` and `RunLoops` look at the same runs from two sides and both
implement `RunLifecycle`. `RunStore` has all tables and takes each transaction
as a step; `RunLoops` has few of the tables and splits the transactions of the
loops where another process gets between.

A *suite* takes components that share no state and checks them side by
side: its variable `part` is chosen in the initial state and says which of them moves,
the others keep their initial values. TLC thus sees the sum of their states and
not the product. A suite EXTENDS its components, so that a run
lists the very formula that a theorem is about (`SettingsAreWanted`, say); their variables and
formulas have names of their own for that (`settingsVars`, `SettingsSpec`). `Plans`, `Drawings` and `Workers` join
two components each under one specification and one property, which the suite lists and a theorem states. Only
`MCLiveness` instantiates what it needs beside `Hooks` and `SchemaUpgrade`, with smaller constants, and defines
the conjunctions of its properties itself. A suite also `ASSUME`s the assumptions of all its parts.

### RunStore

Each variable is a table or a column; its comment says which. Row locks
serialise the transactions that touch the same run, data or plan, and the lock
of the table `nomination` those that nominate, so a committed transaction is one
step; one that is refused changes nothing and is no step. `StoreLocks` examines
that claim: it holds of all but `Register` (section 5), whose
atomicity is therefore an assumption of `RunStore`. Foreign and primary
keys are **not** guards: that no transaction trips over one follows from
`ReferencesIntact`, `OutputsComplete`, `StampedIffFinished` and
`ProjectionUnique`. Identifiers are naturals handed out in increasing order;
the program draws UUIDs, and which ones makes no difference.

Left out: `run_exit` and `lifecycle_suspend_until` (they are in `RunLoops`),
`updated_at`, pins on `knit#timestamp` (as a constraint they act as
`knit#id` does), plan hashes, annotations and resources. `AskedStatus` and
`Mode` narrow an instance down to the statuses callers ask for and the kinds of
data agents: with `AskedStatus = {"ready", "completing"}` runs skip starting and running
(which differ in nothing the store looks at), and never fail.

### RunLoops

A process of a loop goes through the locations

| `pc` | meaning | next |
|---|---|---|
| `idle` | between iterations | `Select`: the query takes its snapshot |
| `lock` | query under way | `Lock`: the first unlocked run after the cursor |
| `task` | task called | `Initialize`, `Manage` or `Close` |
| `spawn` | decided to spawn | `SpawnWorker` |
| `exit` | decided to stop the run | `SetExit` |
| `unname` | Job closed | `DeleteWorker` |
| `commit` | task returned | `Commit`: `setStatus` and the commit |

`Fault` ends an iteration anywhere: an error of the database, the cluster or a
hook, the time limit of 30 seconds, or a crash; the transaction is rolled back,
what was done outside it stays. After an error the cursor keeps its place, after
a restart it is new. Nothing is locked while the snapshot is taken, so a run
may move on between `Select` and `Lock`; that is the stale pick of PostgreSQL's
`SKIP LOCKED`, which re-evaluates nothing of the common table expressions.

`AbortRunHandler` and `TearoffRunHandler` are two transactions each: `Stop` and
`Answer`. A handler that has done the first is in `asked`; it may die before
the second. All users' operations wait for the row lock (`~ Locked(r)`).

A Job is `absent`, `pending`, `running`, `stuck` (a pod cannot start and
Kubernetes warns about it), `succeeded` or `failed`. `JobStep` lets it move by
itself unless it is being deleted, `JobGone` ends the deletion, and `Kill` is a
deletion that the loops did not ask for. `job[r].attempt` is the attempt the Job was created for;
the program has no such thing, it is there to state properties.

Left out, and modelled elsewhere: the managers of uploads and imports
(`Uploads`), the provision of volumes inside `Initialize` (`Provisioning`; here
it succeeds or is an error, for the runs in `Rejected` always), hooks (`Hooks`).
Left out: a failed listing of pods, which makes a worker look pending for an
iteration; a request to create a Job that is carried out after its caller timed out;
a database session that is lost while its task goes on.

### StoreLocks

A transaction of `StoreLocks` has a kind (tag, untag, finish, pick, drop, agent,
new, register: `Kinds`); `Mixes` are the kinds that an instance lets meet, `Registered` the plans there may be
at first. `OpenTx` begins one, which changes rows of its own, `Acquire` takes one lock of
`Locks(kind, data)` after the other in the order of the code, `Nominate` reads what
matches, at the version its isolation level shows it, and `End` commits or rolls
back. `AgentEnds` is the deletion of an agent's row.

### Uploads

`status` is the run of each upload or import, `pc` the place of each handler in
`PostDataHandler`, `GetDataHandler` and the import handlers, `row` the rows of
`data_agent`, `pod` the agents' pods, `mgr` the run manager (`Select`, `Lock`,
`Commit`), `hk` housekeeping (`Pick`, `Close`, `Keep`), `Finishing` the finishing
loop. A deadline (`Late`) may pass at any moment; the one stored in the database
passes after the handler's own, as the code arranges. `Crash` ends a handler or
a loop wherever it is.

### Provisioning

`init` is the initialize loop with one promise per volume, `gc[g]` a collector,
`vol` the PVCs, `outs` the volumes each run's outputs are to have. A request may be
refused, or carried out and its answer lost; a collector may die after it has
destroyed and before it commits.

### Hooks

A loop is `idle`, asks the `before` URLs one by one, does its `work`, `commit`s,
reads the run again (`get`) and calls the `after` URLs. `told` holds the last
answer of each before URL to each change (removed when it refuses), `heard` what
after URLs were sent. `Abort` is a user, who calls no hook.

### Keychain

A provider reads the keychain, looks for a key, locks the row (or inserts it),
issues, writes the Secret, commits; `Fail` rolls it back anywhere. `Tick` is the
clock. `secret` is the Secret, `kc[p]` what provider p has read of it.

### Plans: PlanSpec, PlanStore, PlanSettings

`PlanSpec` takes a request (paths and arguments as sequences of characters)
through validation, mount by mount in the order of the code (the verdict is the first that fails; `/` is refused, while `//` is taken
and becomes it), to normal form, hash and comparison with what is stored. Sorting is any order of the items that `<=` allows.
`PlanStore`
registers plans in steps of the search for cycles (one layer a step, inside one
transaction) and has upstreams, downstreams and `find` as the queries define them.
`PlanSettings` splits requests at each row a statement locks; a deadlock fails
one of its transactions. `wish` is what each client asks for, one of `Wishes`.

### Queries, KnitGraph, Lineage, PlanGraph

`Queries` answers a request statement by statement on one connection while other
transactions commit in between; each `Statement` fills one part of the answer, from the rows of those parts
that were read before it. `KnitGraph` is how the client joins nodes
that come in any order; `Lineage` and `PlanGraph` are the traces, one request per
node, while the server's runs and plans come and go; a trace goes on as long as no answer is an error.
A plan may be registered while the pipelines around it are drawn.

### Transfer, TreeWalk

`Transfer` is one stream through three connections: an archiver with the estimate of
the size beside it, relays, a receiver that extracts or saves. A file may be unreadable,
a connection break, a piece be damaged. `TreeWalk` is the recursive walk of a tree with
symbolic links, call by call: `frames` are the calls under way, each with the entries it has left
(a directory is read when it is entered), the names on the way to it and the ends of the links on that way, which
the code carries as its chain. What it should find is defined without a walk, by the ways that there are in the tree.

### ClusterPromise, WorkloadStatus, WorkerSpec

`ClusterPromise` polls an object until its requirements are met, the deadline of
a checkpoint passes, or the context ends, and resolves with a value, an error or
both. `WorkloadStatus` and `WorkerSpec` are computations: each initial state
is an input, the steps compute, and the properties compare with what
Kubernetes means by it.

### VolumeExpander, SchemaUpgrade

`VolumeExpander` has a watch per namespace with events yet to come, the observer's
map, and the metrics of the node. `SchemaUpgrade` has upgraders (publish,
read the version on another connection, apply in a transaction, commit) and
servers (load, watch, check, serve) that die and are started again.

## 3. The runs

Runs that are expected to violate are in section 5.

| Run | Instance; distinct states | Shows |
|---|---|---|
| `store_chain` | upload, plan A (t1 to t2), plan B (fed by A or by tagged uploads), 3 runs, 4 data; 285k | `LineageIntact`, `NominationExact`, `OutputsComplete`, `NoStrandedRun` under every order of registering, activating, tagging, projecting, finishing, retrying, deleting and collecting |
| `store_join` | a plan with two inputs that two uploads may match, 4 runs; 93k | `ProjectionComplete`, `ProjectionUnique` |
| `store_agents` | one plan pinned to a knit id, readers and writers, all statuses, 2 runs, 3 data; 44k | `TypeOK`, `ReferencesIntact`, `StampedIffFinished`, `RemovalIsSafe`, and that the store implements `RunLifecycle` |
| `loops_users` | 1 run, 2 attempts, 2 managers, all user operations, Jobs deleted from outside, 1 fault; 1.2M | `TypeOK`, `NoOrphanWorker`, `SpawnsOnce`, and that the loops implement `RunLifecycle` |
| `loops_progress` | 2 runs, 1 fault, stuck Jobs, Jobs deleted from outside, no users, `FairJobSpec`; 355k | `ExitTellsStatus`, `EveryRunFinishes` |
| `loops_starvation` | 3 runs, one never initialized, no faults, `FairSpec`; 93k | `EveryRunMovesOn` |
| `backend` | the parts of knitd_backend, below; 1.16M | `OneFreshKey`, `TokensVerifyAlone`, `DataIsSafe`, `ArrivesAsSent`, `WalksAreRight`, and that uploads and imports implement `RunLifecycle` |
| `cluster` | the parts around Kubernetes; 935k | `VolumesStay`, `NothingLeaks`, `PromisesAreHonest`, `WorkersAreReal`, `ExpanderKeepsUp` |
| `plans` | plans and what is asked about them; 602k | `Acyclic`, `PlansAreSound`, `SettingsAreWanted`, `DrawnAsAsked`, `AnswersAreExact`, `LocksSuffice` |
| `liveness` | eight parts with faults, fair; 113k | `HooksAreHeard`, `ToldOfEachChange`, `SchemaIsCurrent`, `AskedIsDone`, `OwedComes` |

The parts of the suites, with what each one is checked for:

| Part | Instance | Properties of its module |
|---|---|---|
| backend `keychain` | 2 providers, 2 keys, clock to 3 | `OneFreshKey`; `TokensVerifyAlone` |
| `download`, `import` | 1 upload with 1 reader or beside 1 import, 1 crash | `DataIsSafe`: `DoneIsWhole`, `DataInUseStays`, `AcceptedImportStays`; the refinement |
| `stream` | 3 files, sent, saved or extracted, each of 4 faults once, connections of 2 pieces | `ArrivesAsSent`: `ExtractIsWhole`, `SavedAsSent`, `NoFalseAlarm` |
| `tree` | every tree of 5 nodes with links, followed or not | `WalksAreRight`: `FailsIfEndless`, `FindsEachWay` |
| cluster `volumes` | 1 run of 2 outputs, 4 volumes, 2 collectors, 2 faults; symmetric in the volumes | `VolumesStay`, `NothingLeaks` |
| `promise` | one call for each of 5 kinds of object, 2 faults | `PromisesAreHonest`: `DeadlineIsForUnmet`, `OthersStay` |
| `status` | every list of 2 events of 2 controllers, every two pods | `StuckIffWarned`, `EndIsReal` |
| `worker` | every run of 2 inputs and 2 outputs over 3 data; every on_node of 3 entries | `OneWriter`, `PlacedAsAsked` |
| `expander` | 3 pods that share a claim, 2 faults | `ExpanderKeepsUp`: `Tracks`, `NoRunaway` |
| plans `plans` | every 3 plans of 24 | `Acyclic`, `UpstreamsMirror`, `FindsKnown` |
| `paths`, `twins` | 1 request of up to 2 inputs and an output over 9 paths; 2 requests out of 240 | `MountsApart`; `NoTwins` |
| `settings` | 3 requests at a time, for limits or for annotations | `SettingsAreWanted`: `WholeSets`, `RowsAreWanted`, `ToldIsChanged` |
| `runs`, `changes` | every lineage of an upload and 3 runs, every root, direction, depth; one run comes or goes meanwhile | `FindsWhatIsAsked`, `EveryArrowOnce` |
| `feeds` | every pipeline of 4 plans, of which one may be registered meanwhile | `FindsPlansAsked`, `EveryFeedOnce` |
| `queries` | 3 data, 3 runs, every query, 2 transactions in between | `AnswersAreExact`: `NoGhost`, `QuietIsExact` |
| `locks` | 3 open transactions on one data, of 7 kinds; or of register, new, tag, finish | `LocksSuffice`: `NoDeadlock`, `AgentsHaveData` and, but for registrations, `ExactAtRest` |
| liveness `hooks` | 1 run, 2 URLs before, 1 after, users, 1 refusal, 1 crash | `HooksAreHeard`: `WorkerAgreed`, `HeardAfterTold`; `ToldOfEachChange`; the run ends, its end is heard of |
| `uploads` | 1 upload, 1 crash, lost events | the run ends, the agent's row goes |
| `keychain` | 2 providers, errors anywhere, no time passes | each request is answered |
| `volumes` | 1 run of 2 outputs, 2 volumes, 1 collector, 3 faults | the run is ready, garbage goes |
| `promise` | one call for each kind, 1 fault | resolved once the context is over |
| `expander` | 2 pods, 1 claim, 1 fault | a claim that is short is enlarged |
| `schema` | 2 upgraders of different releases, 1 server, 1 fault | `SchemaIsCurrent`: `VersionTells`, `CurrentWhenServing`, `NeverBack`; the database is upgraded and the server serves |
| `settings` | 3 requests with opposite orders of locks | each is answered |

For each conjunct there is a mutant of the code that breaks it, defined beside the
original (`Locks_NoTable` of `Locks`, say); `PROJECT.json` names them under `mutants`.

**Why these bounds are enough.** *Chain*: three runs are an upload, a run of A and
one of B, the shortest lineage in which a run is both consumer and producer; a
fourth knit id lets a retried run get new outputs while its old ones are
garbage. *Join*: two data, either of which may be tagged for either input or for both,
give every way for the last piece of a combination to arrive. *Agents*: one upload and
one consumer meet every check of truncateRun. *Loops*: two attempts are needed
for one attempt to meet the leavings of another; one fault can hit every point between two commits,
and a second one finds the same database and cluster again; three runs are needed for a run
between two others that the cursor might skip. Larger instances are the theorems'
matter (section 6). *Keychain*: two providers race; two keys and a clock to 3, the life of a key, are a rotation.
*Uploads*: an upload and a reader of it are all that meet at one data; each crash hits one handler or loop, and the code
has no path that waits for two to fail. *Transfer*: three files through connections of two pieces leave pieces on the way
at any moment. *TreeWalk*: five nodes hold a link to an ancestor, a directory reached twice, a link to a link and a file that both come by.
*Volumes*: two outputs tell the first promise from the others; four volumes are two attempts
(two, for liveness: one of them is garbage that is in the way of nobody). *Expander*: two pods that write one after the other
and one that reads. *Plans*: three plans make every circle with a plan in between; four every chain
that a trace takes in two layers. *Locks*: a circle of waiting transactions needs two for each pair of locks
in opposite order, and there are three sorts of locks (plan, data, table). *Queries*: two transactions
are one before and one after any statement. *Hooks*: two URLs tell the first from
the rest; loops share nothing across runs but the time they take. *Schema*: of two upgraders
one is the newer. *Computations* (`status`, `worker`, `paths`, `twins`) compare two things at a time, so
that two or three of each kind suffice.

**Where a property holds under a condition only.** `ExitTellsStatus` is checked, and proved, where no user stops runs
(`NobodyStops`) and one process manages them (`OneManager`), the chart's default: with two run managers a stale pick
lets the second one store an exit for a status that is then refused. `SpawnsOnce`
speaks of behaviours without a fault so far: a manager that dies after `SpawnWorker` leaves the
run ready, and if somebody deletes its Job before the next look, another one is created.
`TokensVerifyAlone` speaks of behaviours in which one provider alone has been asked for a key (section 5), `ExactAtRest`
of those where nobody registers a plan. `CurrentWhenServing` says nothing of the file of a server that `LoadsFirst`, and
`SchemaIsCurrent` is proved where `LastMayRepeat` (both in section 5). None of these conditions is promised by the program.

`CHECK_DEADLOCK FALSE` stands where the system may stop: a run that has finished
stays so until a user acts, a request that is answered is over, and in a bounded
instance nobody may be left to.

## 4. Fairness

`FairSpec` adds weak fairness of each loop process and of the passing of time.
The code justifies the first with the policy `forever`
(`cmd/loops/loop/recurring/policy.go`): an iteration is followed by another
whatever its error, in a process that Kubernetes restarts. Weak fairness of the
process, rather than of each action, suffices because a process has one thing to
do at each location. `FairJobSpec` also assumes that containers end and that
deleted Jobs go; a stuck Job need never recover. No fairness of users is
assumed, and none of any choice inside a step: `EveryRunMovesOn` rests on the cursor
going round (the mutant `Lock_KeepsCursor` starves), not on luck.

Faults are bounded, as liveness needs: a loop that fails in every iteration carries no run on.

`MCLiveness` states the fairness of its parts: `Fair(n)` are the steps that are
weakly fair, `Often(n)` those that are strongly fair, numbered so that one
specification serves all parts (no behaviour has two). Beside each stands why.

* *Hooks*: each loop as a whole, as above; Jobs end.
* *Uploads*: handlers end because their clients do not wait for ever; deadlines
  pass, pods move on; strong fairness only of what a cursor goes round for (`Lock`,
  `Finishing`, `Pick`: `EveryRunMovesOn` shows for the lifecycle loops that it does).
* *Volumes*: the same for `Pick`; Kubernetes binds volumes and lets deleted ones vanish.
* *Keychain*: strong fairness of a provider, since the row lock it waits for is
  taken and given back by others, and PostgreSQL serves waiters in order.
* *Promises*: the poll of `retry.Blocking` goes on.
* *Expander*: events are delivered by watches that go on, metrics are read each second,
  Kubernetes grants what it can; a process that ends is started again. No fairness of pods.
* *Schema*: Jobs and servers are restarted by Kubernetes.
* *Settings*: each request goes on when it can; PostgreSQL ends a deadlock.

`Asked` and `Owed` name what must end in each part. `AskedIsDone` is about those who wait, `OwedComes` about
what a process that is gone has left to others.

## 5. Findings

* `store_unstarted`: `delete` says of waiting and deactivated runs "ok. they can
  be deleted." (`run.go:1147`), but `truncateRun` refuses runs with a row in
  `worker`, and `New` gives every run one; no waiting run of an image plan can be
  deleted until it has been aborted and finished. The tests of deletion use waiting runs without a worker.
* `loops_retry`: "It is observed that the run's worker has stopped successfully"
  (`pkg/domain/run.go:32`, of completing). A run that is finished and retried
  while its Job is still being deleted finds the old Job by its name and takes it
  for its worker: if that one had succeeded, the new attempt is completing and
  then done, although no worker of it was ever created.
### What the code does otherwise

More disagreements, found with the same models. Where a definition is named, it
states what a text promises or a reader expects, in the module named; it does not
hold, and no run lists it. To see the counterexample, name it in the .cfg of the suite that extends the module.

* **Register misses data** (`plan/db/postgres/plan.go:67`). It is serializable, so its snapshot is older than its
  lock of the nomination table; data finished or tagged in between is nominated by neither side.
  `StoreLocks`, `ExactAtRest` with `"register"` among `Kinds`.
* **Register takes two connections** (`plan.go:60`): one that it does not use, then a second one. As
  many registrations at a time as the pool has connections stop each other and everybody else. Not modelled.
* **A pod without an owner** (`pkg/domain/data/k8s/dataagt/dataagt.go:244`). A pod created by a `Spawn` that failed
  (the promise has an error and a value) is closed by nobody, and housekeeping drops the row it could be found by.
  `Uploads`, `PodsAreAccountedFor`.
* **Events that could not be listed** (`cluster.go:566`) are "not critical", but the status of a scheduled pod
  dereferences a significant event that is nil: housekeeping panics. `Uploads`, `SurvivesWithoutEvents`.
* **Ready without volumes** (`pkg/domain/run/k8s/run/run.go:55`). `Initialize` returns at the first volume that is bound
  ("It should create each PVCs per run's output"). `Provisioning`, `ReadyHasVolumes`.
* **A key that is overwritten** (`keyprovider.go:96`). `Provide` reads the keychain before it locks; of two providers the second
  removes the key of the first, whose tokens then do not verify. `Keychain`, `TokensVerify` with two providers.
* **Unverified downloads** (`cmd/knit/rest/data.go:249`, `:268`). A download without its checksum is
  saved without an error, and files extracted from one are compared with no checksum, though both functions promise to verify.
  `Transfer`, `DownloadVerified` and `ExtractVerified`.
* **Lost trailers** (`pkg/utils/echoutil/proxy.go:64`). The proxy copies trailers before the body, when they are empty.
  `Transfer`, `ProxiedAsItIs`.
* **Promises** (`retry.go:90`, `cluster.go:1080`, `:1130`). One whose context ends before the first look
  carries nothing to close the object with; a vanished service or deployment is not `ErrMissing`; a deployment that
  is ready at once cannot be closed. `ClusterPromise`, `CreatedCanBeClosed`, `MissingIsTold`, `CloseReleases`.
* **Workers** (`metasource.go:531`, `:592`). Several values of a label that a node *must* have are alternatives; data on
  two inputs of a run makes a pod that Kubernetes refuses. `WorkerSpec`, `MustIsMust`, `WorkersAreValid`.
* **Plans refused** (`pkg/domain/plan.go:847`, `:625`). `/in/data2` and `/in/data` are said to overlap; plans whose arguments are permuted
  may be refused as equivalent. `PlanSpec`, `OverlapIsReal`, `OnlyTwinsRefused`.
* **Plans found** (`plan/db/postgres/plan.go:967`, `:1030`). A tag that no row has matches every plan; user and system tags may match different inputs.
  `PlanStore`, `FindsOnlyAsked`, `FindsOneInput`.
* **Unset wins** (`cmd/knitd/handlers/plans.go:330`). A type set and unset in one request is unset, against the help text.
  `PlanSettings`, `SetTakesPrecedence`.
* **Nominations left out** (`pkg/domain/internal/db/postgres/nomination.go:57`). Data nominated to two mountpoints is answered with one.
  `Queries`, `NominationsComplete`.
* **A blank run** (`cmd/knitd/handlers/run.go:91`). A run deleted between Find and Get is answered as one without anything.
  `Queries`, `FoundRunsAreAsked`.
* **A namespace that is not watched** (`cmd/volume_expander/pvcs/pvcs.go:91`). Of several namespaces, the one whose watch has ended is watched no more,
  and the process lives on. `VolumeExpander` with two namespaces. The map of the observer is also read by the metrics' goroutine
  without a lock (`pvcs.go:46`): the runtime may end the process (`Fails`), which `AskedIsDone` survives.
* **An extra API file that is old** (`cmd/knitd/main.go:70`). knitd loads it before it watches it. `SchemaUpgrade`, `CurrentWhenServing`
  therefore exempts the file of those in `LoadsFirst`, and does not hold without that.
* **A version that is taken back** (`pkg/domain/schema/db/postgres/schema.go:114`). The version to start from is read on another connection, before the
  transaction. What keeps a late upgrader of an older release from storing its version over a newer one is that what the versions create is
  there already: so it is of versions 1 and 2, but 3 creates its tables only `if not exists`. As 3 is the last version, no harm is done; once
  a release follows it, an upgrader of release 3 beside one of release 4 can take the version from 4 back to 3. `SchemaUpgrade`, `NeverBack` with
  two upgraders of releases 3 and 4 (`Image`) and `Idempotent = {3}`.
* **Hooks** (`cmd/knitd/handlers/run.go:130`, `cmd/loops/hook/web.go:86`, `cmd/loops/tasks/runManagement/task.go:59`). Aborting by a user calls no hook; an after URL that answers badly keeps
  the rest from being called, though responses are said to be ignored; a status that another loop replaces before
  the run is read again is never heard of. `ToldOfEachChange` is therefore about the steps of loops, `HeardAfterTold` spares aborting, and
  `Owed` counts only on URLs that answer.

## 6. What is proved

All theorems hold for every value of the constants that satisfies the named
assumptions of the modules (which TLC evaluates in the runs).

### Induction

The library's theorems of induction take an operator as a parameter, which none of the installed provers can instantiate. Here predicates are sets
and the steps of a recursion are functions: `LeastNat` (a set of naturals has a least one, from the well-foundedness of `<`),
`NatInd` (a set with 0 and, with a natural number, the next one has them all) and `Recursion` (for any `s` and `G` there is a function with
`f[0] = s` and `f[n + 1] = G[n][f[n]]`). From these follow the lemmas about `Reach`, which the graphs and the walk both rest on: `WithinIs`, `WithinGrows`, `WithinStays` of
what is within `n` steps, `ReachedIs`, `ReachedOn`, `ReachedFirst` of what is reached at all. `Drawings_proofs`, `Plans_proofs`,
`Cluster_proofs` and `Backend_proofs` use them wherever a fold, a sorting or a trace of any length is reasoned about.

### RunStore_proofs

`TypeCorrect` comes first. The heart is the inductive invariant

    IInv == TypeOK /\ Blank /\ ReferencesIntact /\ NominationExact /\ LineageIntact

None of the last three is inductive alone. What `New` mounts is the result of a done
run because nominations are exact (`NominationExact`); nominations stay exact because data changes hands
only together with its nominations; what truncation takes away is nobody's
input because its consumers leave with it, and a run that left has no inputs
(`Blank`). From it follow `NominationCorrect`, `LineageCorrect`,
`ReferencesCorrect` and, as action properties of its steps, `RemovalCorrect`. On
top of it come `UniqueCorrect` (fresh runs take patterns that no run has),
`CompleteCorrect` (a combination is completed by the last of its nominations
whose flag is cleared, and the run it gets is forgotten only when some input
leaves), `OutputsCorrect`, `StampedCorrect`, `NoStrandedCorrect`, and the
refinement `LifecycleImplemented`.

### RunLoops_proofs

    IInv == TypeOK /\ Exclusive /\ NoOrphanWorker /\ \A l \in Loop : LoopOK(l)

`NoOrphanWorker` alone is not inductive: it must be known what a process at
work may rely on. `Exclusive` says that no two processes hold a run; `LoopOK`
what a process at each location knows of the run it holds and what status
it is about to commit: a manager about to spawn holds a run that is ready, a
finisher past `Close` one that is stopping and without a live Job.
`OthersLeftAlone` and `Around` show once and for all that others do not disturb that, for they
move no run that is held. With `Begun` (only runs that exist are picked) the same
invariant gives `LifecycleImplemented`: the finisher commits `done` or `failed` only
when the worker's row is gone, and nobody else commits either.

So no stale pick, crash, replica, retry or user in between can orphan a worker
or make a run skip a step of its life.

`SpawnsOnceCorrect` adds `Spawned`: a Job is of the run's attempt or an earlier one, and while it is of this one and
nothing has failed, the run has started, or is held by the manager that is about to say so (`Starting`). That manager excludes every other
that might spawn, however stale its pick. `ExitCorrect` needs

    ExitInv == asked = {} /\ (\A r \in Run : Told(r)) /\ (\A l \in Manager : ManagerOK(l)) /\ (\A l \in Initializer : InitializerOK(l))

and the two conditions of section 3: the exit is stored before the status and in another transaction, so it is only right because what
the manager has looked at stays as it was until it commits (`ManagerOK`). Any number of initializers and finishers, faults, retries and
deletions are allowed.

### Backend_proofs

Of `Keychain`:

    KeychainInv == KeychainTypeOK /\ LockExcludes /\ Knows /\ OneFreshKey

`AtMostOneFreshKey` holds although a provider works on a keychain it read before
the lock, because of what it `Knows` when it decides to issue; that this is not
enough for tokens to verify with two providers is in section 5. `TokensCorrect` shows that it is with one that acts alone, of however many there are:
`AloneOK` says that each key in the Secret outlives the tokens that need it, and that what the provider holds is what is stored but for the
key it adds (`HoldsOK`); ids are never issued twice (`IssuedOK`).

Of `Transfer`, for any number of files and connections of any size:

    StreamInv == StreamTypes /\ Bounded /\ InOrder /\ Sound /\ Archived /\ Received /\ Clean

`TransferCorrect` is `ArrivesAsSent`. `InOrder` has each piece in its place in what was sent, wherever it is on the way (`Past` counts
those ahead of it); `Archived` says what an archiver may have sent, and that a trailer is the sum of all of it; `Received`, what
the receiver goes by when it accepts. Together they leave no room between "accepted" and "whole" but damage that no
checksum is compared with (section 5). `Clean` is the other half: when nothing went wrong, nothing is refused.

Of `Uploads`:

    IInv == TypeOK /\ LoopTypes /\ LockHolds /\ Written /\ Places /\ Protected /\ AcceptedImportStays

`DataCorrect` is `DataIsSafe`, for any uploads, imports, readers and crashes.
`Written`: only a handler past its report has a run that is completing, and a volume is given
up only by a handler that will not report any more, or with its run. `LockHolds`: what the run
manager has locked is as it was looked at, so all that it can do late is abort, which the store refuses to
a run that is completing. `Protected`: as long as an agent may still serve what its reader found done, its row is there, which
deletion waits for; what housekeeping is about to take away is `Harmless`: its pod is gone for
good, or its handler is past the deadline without having met the pod (`Places`: a row is looked at only after that deadline).

`LifecycleCorrect` is the refinement of `RunLifecycle`: the handlers, the manager, finishing, users and crashes together make
no move that the life of a run does not promise. With `IInv` it needs `OnlyUploads`: a download never comes to a place that reports, finishes or
aborts a run.

Of `TreeWalk`, for trees of any size:

    TreeWalkIInv == TreeOK /\ WalkInv(frames, files, walked)

`WalksCorrect` is `WalksAreRight`. `FramesOK`: each call is one name longer than its caller, and what an earlier call has left to
do is not on the way to here, so that no way is walked twice. `FilesOK` and `Complete`: a way to a file, of any length, is either `Ahead` of
the calls under way or was handed to the archive, once. A walk that fails has shown a circle, as the end of the link is among the ends
of the links on the way here (`CircleBack`), or links that lead only to each other or to nowhere (`CircleOfLinks`). One that
ends has met none: as long as it is on, whatever circle or dangling link can be reached from the root lies ahead of some call
(`BadAhead`), and at the end there are no calls.

### Cluster_proofs

Of `Provisioning`:

    IInv == TypeOK /\ Apart /\ InitKnows /\ GcKnows /\ Doomed /\ NothingLeaks

`VolumesAreSafe` and `NoVolumeLeaks` say together that what exists is wanted or garbage, and what is
wanted is not being destroyed, for any runs, outputs, collectors and faults. Neither is
inductive: one must know that names are not shared (`Apart`), that the initialize loop asks only
for the volumes of the run it has locked (`InitKnows`), that collectors have garbage of their own (`GcKnows`), and that
what is on its way out is garbage (`Doomed`).

Of `ClusterPromise`, `PromiseIInv == PromiseTypeOK /\ Checked /\ Owned`, for any number of lost requests. `PromisesCorrect` has an invariant
and an action property: a deadline is told only for what was never seen past its checkpoint (`Checked`), and no caller that asked for
a new object deletes another's by closing what its promise carries, for it carries none (`Owned`).

Of `VolumeExpander`, for any pods, claims, namespaces and amounts:

    ExpanderIInv == ExpanderTypeOK /\ OwnPods /\ AllHeard /\ Measured /\ NoRunaway

`ExpanderCorrect` is `ExpanderKeepsUp`. The observer's table lags behind the cluster; what holds all the time is that the last event
under way about a pod tells how it is, and that the table does when there is none (`Heard`), for the namespaces that are watched. `NoRunaway`
rests on use being at least what was measured when a request was decided on (`Measured`).

Of `WorkerSpec` and `WorkloadStatus` (`Workers`), for any mounts, labels, taints, events and pods:

`WorkersCorrect` is `WorkersAreReal`. `PlacementInv` says that the pod, once built, is what the run asks for and that the run was not refused;
`WorkloadInv`, that what is seen of a Job is its status. What is left are facts about these two computations: mounts that write have data of their own,
required and preferred affinities and tolerations mean to Kubernetes what `on_node` asks for, the significant events are the newest of each
controller (`Latest` is a fold over the list of events, hence induction over it; `SignificantIs`), and the worst exit code is 0 or that of a container.

### Plans_proofs

Of `PlanStore`:

    IInv == TypeOK /\ Acyclic /\ Searched

`AcyclicCorrect`: a registration follows only what its own plan feeds, layer by layer;
`Searched` says that the layers seen so far are closed under feeding but for
the next one, so that a search that ends without meeting the new plan proves there is
no circle through it, and one not through it would have been there before. `MirrorCorrect`: upstreams and
downstreams are one relation.

Of `PlanSpec` (and `PlanStore` beside it, in `Plans`):

    Accepted /\ NoTwins

`PlansSound` is `PlansAreSound`. What is in the store was accepted by `Validate`, so that no two mounts of a plan are in each other (`MountsApart`).
`NoTwins`, no two stored plans are the same but for the order of their mounts and the way their paths are written, needs that equal plans get equal hashes and
compare as equal: that there is a sorting at all and just one of distinct items (`CanBeSorted`, `SortedOnce`),
that paths which are apart have one order before and after their trailing slashes are trimmed (`InOneOrder`, `TrimmedOnce`, `StrictlySorted`), and
that the normal form depends on nothing but what is mounted where (`NodesOnce`, `TidyOnce`). Together: twins meet (`TwinsMeet`), and the second one is refused.
The middle one rests on `PathOverlap` refusing more than it says (section 5): mounts are sorted before slashes are trimmed, and `/a/` comes after `/a-`, which
`/a` comes before, so that a plan with `/a` and `/a-`, were it allowed, would have two normal forms.
`FindsAlways` and `MirrorAlways` are facts of the tables, whatever is in them.

Of `StoreLocks`, for any number of open transactions:

    LocksIInv == LocksTypeOK /\ Held /\ Alone /\ UpToDate /\ AgentsHaveData

`LocksCorrect` is `LocksSuffice`. There is no deadlock because everybody's locks ascend by `Rank` (runs and plans,
then data, then the nominations): a circle would climb for ever. The nominations are exact
because who nominates has their table alone (`Alone`), so that what it has read is still so when it commits (`UpToDate`);
this needs that all are read committed, so it is stated where nobody registers a plan.

Of `Queries`, for any tables that fit, requests and transactions in between:

    QueriesIInv == QueriesTypeOK /\ (req.at # "idle" => Shaped /\ Bodies /\ Exact)

`AnswersCorrect` is `AnswersAreExact`. A body that was not there when bodies were read never appears later, for knit ids are not given away
twice, so no tags are read without one (`Bodies`); and as long as nothing is written, each part that was read is what the tables hold (`Exact`).
The order of the statements matters, and `StatementIs` gives it to each step.

Of `PlanSettings`, for any requests at the same time:

    SettingsIInv == Types /\ (\A c \in Client : Placed(c) /\ Works(c)) /\ Apart /\ Plain /\ WholeSets /\ Settled /\ Seen

`SettingsCorrect` is `SettingsAreWanted`. `Placed` and `Works` tell where in its statements each request is and what it has written and not
committed; `Apart`, that no two have written one row, which is what the row locks are for. `Settled` says that a row is as one
of those who touch it wanted it, unless one that will see to it is yet to come or has failed; `Seen`, that once a request has seen to a row
no value is left there, or told, that nobody gave it.

### Drawings_proofs

`DrawnCorrect` is `DrawnAsAsked`, of both graphs, for any history, pipeline, root, depth and changes in between.
Nodes come in any order, and an arrow is drawn when the second of its ends comes: `Sound` says that an arrow
is drawn once at most and has both its ends, and that a thunk waits for the one end of an arrow that is missing; `Grown`, that adding a node keeps it so and
draws what waited for it.

Of `Lineage` the invariant is `Drawing /\ Traced /\ Outcome`: the graph is sound, and what the server said of a node has the arrows of all that stays
(`Drawing`); data within as many steps of the root as there were rounds is in the layer that is to be gone on from, or the runs that follow it
were visited or are about to be (`Traced`); and of the directions that are done, all that was asked for is there and nothing else (`Outcome`).
Runs that come or go meanwhile are why these speak of what stays. Of `PlanGraph` it is `Growing /\ Traversed /\ Harvest`, in the same order; for some `k`
there have been `k` rounds, and what is within `k` steps has been found (`AfterRounds`). In both, what is found going up is older than the root
(ranks before it), so that the way down meets none of it and has to start anew from the root alone.

### Service_proofs

Of `Hooks`:

    IInv == TypeOK /\ Exclusive /\ Round /\ Consent /\ Spawning /\ WorkerAgreed

`ToldCorrect` and `WorkerAgreedCorrect`, for any lists of URLs. `Round`: those asked so far
have agreed; `Consent`: what is about to be committed has been agreed to;
`Spawning`: the hooks of starting are asked only while there is no worker, so that a later refusal never
takes back what a worker was made with; `Exclusive` keeps other loops from the run. Users
who abort may come between any two steps.

`HeardCorrect` and, with it, `HooksCorrect`, which is the property of the run, need more:

    HInv == IInv /\ Ahead /\ Behind

`Ahead`: a loop only ever moves a run forward; `Behind`: what has been heard of, and
what was agreed to for it, lies behind the run, so that no round, and no refusal, of
that status comes again.

Of `SchemaUpgrade`:

    SchemaIInv == SchemaTypeOK /\ VersionTells /\ Apart /\ (\A j \in Job : Follows(j)) /\ (\A a \in App : Knows(a))

`SchemaCorrect` is `SchemaIsCurrent`, invariants and an action property, for any releases, upgraders, servers and failures, where only the last version may
be applied twice (`LastMayRepeat`, section 3). No lock orders the upgraders: `Follows` says that what one has applied follows the version that
it read, and that this is the version still unless what follows may be repeated; `Apart`, that what one has applied uncommitted the others wait for.
`Knows`: a server looks at what it watches only after it watches it, so that it is up to date or an event is waiting for it.

### Only model-checked

Every invariant and every action property that a passing run lists is a theorem, under the conditions of section 3. What is left:

* `EveryRunMovesOn`, `EveryRunFinishes`, `AskedIsDone` and `OwedComes` are liveness under fairness, which TLAPS cannot do: it would have to reason about ENABLED.
* `UnstartedCanBeDeleted` and `DoneByOwnWorker` do not hold (section 5).

The proofs assume nothing beyond the constants' assumptions and the conditions of section 3, and use no property of the cluster.

## 7. Not modelled

* `pkg/api-types-binding`, `pkg/configs`, `pkg/conn/db/postgres/scanner`, `.../tables`, the pure helpers of `pkg/utils`: conversions without state.
* `cmd/log_recorder`, `cmd/empty`, and the handler of logs: a stream copied to a file in one pod.
* Of `cmd/knit`: profiles, templates, and the commands that are one request each.
* Of `knitd`: the proxy of extra APIs beyond what `Transfer` has of it; parsing of queries.
* The pool of connections (`pkg/conn/db/postgres/pool`): each path out of a request gives its connections back by a defer.
* Of the plan store: images and their tags; of the worker: limits and commands of the pod.
* Requests to Kubernetes that time out and are carried out after the run was aborted and finished.
* Hooks that never answer: `http.Post` has no deadline, so the loop stands still, whatever its time limit.
* Charts, scripts and the web console are deployment.

## 8. Plan

Done: **RunStore**, **RunLoops** (first), then **Uploads**, **Provisioning**, **Keychain**,
the plan modules, the client's graphs, **Transfer**, the cluster layer, **StoreLocks**, **VolumeExpander**, **SchemaUpgrade**, **Hooks**.

Next, most important first:

1. `StoreLocks` with `Register` read committed, shown to implement the nominations of `RunStore` step by step.
2. The log recorder and its handler beside the worker that it follows.
3. `Hooks` with several runs and replicas of each loop.
