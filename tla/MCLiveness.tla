----------------------------- MODULE MCLiveness ------------------------------
(***************************************************************************)
(* What must happen in the end, for TLC: hooks, uploads, the keychain,     *)
(* volumes, promises, the volume expander, schema upgrades and settings of *)
(* plans, each with the fairness its own module states.  Each behaviour is *)
(* one of one part, so the others are fair, too: they are never enabled.   *)
(***************************************************************************)
EXTENDS Hooks, SchemaUpgrade, TLC

CONSTANTS
    u1, u2,              \* URLs
    up,                  \* an upload
    p1, p2, k1, k2, NoOne, NoKid,  \* providers of keys, and keys
    w, v1, v2, g1, \* a run, volumes and a garbage collector
    x1, x2, c1, n1,      \* pods, a claim and its namespace
    loops, j2, j3        \* a server, and upgraders of two releases

ImageOf == (j2 :> 2) @@ (j3 :> 3)
One == <<u1>>
Two == <<u1, u2>>

VARIABLES
    part,  \* what moves
    upload, kept, content, doomed, at, late, opened, met, row, rest, pod, mgr, hk, accepted, died,
    now, secret, issued, hasRow, holder, asks, kc, kid, until, tokens,
    volumed, outs, named, garbage, vol, init, gc, troubles,
    obj, call, done, timeout, lost,
    live, pvc, stats, events, watch, vex, errors,
    wish, rows, client, todo, tell, own, lock, answer

uploads == <<upload, kept, content, doomed, at, late, opened, met, row, rest, pod, mgr, hk, accepted, died>>
keychain == <<now, secret, issued, hasRow, holder, asks, kc, kid, until, tokens>>
volumes == <<volumed, outs, named, garbage, vol, init, gc, troubles>>
promise == <<obj, call, done, timeout, lost>>
expander == <<live, pvc, stats, events, watch, vex, errors>>
settings == <<wish, rows, client, todo, tell, own, lock, answer>>

Part == {"hooks", "uploads", "keychain", "volumes", "promise", "expander", "schema", "settings"}

Uploaded == INSTANCE Uploads WITH
    status <- upload, pc <- at, crashes <- died,
    Upload <- {up}, Import <- {}, Reader <- {}, Source <- <<>>, LoseEvents <- TRUE, MaxCrashes <- 1
Keys == INSTANCE Keychain WITH
    Provider <- {p1, p2}, Kid <- {k1, k2}, TTL <- 3, Need <- 1, MaxTime <- 0
Volumes == INSTANCE Provisioning WITH
    status <- volumed, faults <- troubles, Run <- {w}, Vol <- {v1, v2}, Outputs <- w :> 2, Collector <- {g1},
    MaxFaults <- 3
Promise == INSTANCE ClusterPromise WITH
    late <- timeout, MaxLost <- 1, Kinds <- {"service", "deployment", "pvc", "job", "pod"}
Expander == INSTANCE VolumeExpander WITH
    pod <- live, Pod <- {x1, x2}, Claim <- {c1}, Namespace <- {n1},
    Of <- [x \in {x1, x2, c1} |-> n1], Modes <- [p \in {x1, x2} |-> c1 :> {"rw"}],
    Unmanaged <- {}, Margin <- 1, Delta <- 1, Giga <- 2, MaxUsed <- 3, MaxErrors <- 1
\* Resource types that one sets and others unset, and the service account.
SomeWishes ==
    <<[kind |-> "resource", set |-> ("cpu" :> "one") @@ ("memory" :> "one"), unset |-> {"cpu"}],
      [kind |-> "resource", set |-> <<>>, unset |-> {"cpu", "memory"}],
      [kind |-> "account", set |-> <<>>, unset |-> {"account"}]>>
Settings == INSTANCE PlanSettings WITH
    pc <- client, rest <- todo, todo <- tell, told <- answer,
    Client <- 1..3, Row <- {"cpu", "memory", "account"}, Wishes <- {SomeWishes}

ASSUME LivenessAssumption ==
    /\ Uploaded!UploadsAssumption /\ Promise!ClusterPromiseAssumption
    /\ Expander!VolumeExpanderAssumption /\ SchemaAssumption /\ LastMayRepeat /\ Settings!PlanSettingsAssumption

PartInit ==
    /\ part \in Part
    /\ Init /\ Uploaded!Init /\ Keys!KeychainInit /\ Volumes!Init /\ Expander!ExpanderInit
    /\ IF part = "promise" THEN Promise!PromiseInit
       ELSE obj = Promise!Nothing /\ call = Promise!NoCall /\ done = FALSE /\ timeout = FALSE /\ lost = 0
    /\ SchemaInit /\ (part # "schema" => repo = {})
    /\ Settings!SettingsInit /\ (part # "settings" => \A x \in DOMAIN rows : rows[x] = "none")

\* One part moves, the others stay as they are.
HooksAlone == part = "hooks" /\ UNCHANGED <<part, uploads, keychain, volumes, promise, expander, schemaVars, settings>>
UploadsAlone == part = "uploads" /\ UNCHANGED <<part, vars, keychain, volumes, promise, expander, schemaVars, settings>>
KeychainAlone == part = "keychain" /\ UNCHANGED <<part, vars, uploads, volumes, promise, expander, schemaVars, settings>>
VolumesAlone == part = "volumes" /\ UNCHANGED <<part, vars, uploads, keychain, promise, expander, schemaVars, settings>>
PromiseAlone == part = "promise" /\ UNCHANGED <<part, vars, uploads, keychain, volumes, expander, schemaVars, settings>>
ExpanderAlone == part = "expander" /\ UNCHANGED <<part, vars, uploads, keychain, volumes, promise, schemaVars, settings>>
SchemaAlone == part = "schema" /\ UNCHANGED <<part, vars, uploads, keychain, volumes, promise, expander, settings>>
SettingsAlone == part = "settings" /\ UNCHANGED <<part, vars, uploads, keychain, volumes, promise, expander, schemaVars>>

PartNext ==
    \/ HooksAlone /\ Next
    \/ UploadsAlone /\ Uploaded!Next
    \/ KeychainAlone /\ Keys!KeychainNext
    \/ VolumesAlone /\ Volumes!Next
    \/ PromiseAlone /\ Promise!PromiseNext
    \/ ExpanderAlone /\ Expander!ExpanderNext
    \/ SchemaAlone /\ SchemaNext
    \/ SettingsAlone /\ Settings!SettingsNext

(* Fairness: the fair steps of each part, numbered *)

\* The loops go round for ever; Jobs end.
HooksFair(n) ==
    \/ n = 1 /\ Step("initialize")
    \/ n = 2 /\ Step("run_management")
    \/ n = 3 /\ Step("finishing")
    \/ n = 4 /\ \E x \in Run : JobStep(x)

\* Handlers end, since their clients do not wait for ever; time passes; pods
\* move on; the loops run, and their cursors go round, so that they come by the
\* run and the agent again and again.
UploadsFair(n) ==
    \/ n = 1 /\ Uploaded!HandlerStep(up)
    \/ n = 2 /\ Uploaded!Late(up)
    \/ n = 3 /\ Uploaded!AgentRested(up)
    \/ n = 4 /\ Uploaded!PodStep(up)
    \/ n = 5 /\ Uploaded!RunRested(up)
    \/ n = 6 /\ Uploaded!VolumeGone(up)
    \/ n = 7 /\ Uploaded!Select
    \/ n = 8 /\ Uploaded!Commit
    \/ n = 9 /\ Uploaded!Close
    \/ n = 10 /\ Uploaded!Keep
    \/ n = 11 /\ Uploaded!Restart
UploadsOften(n) ==
    \/ n = 1 /\ Uploaded!Pick(up)
    \/ n = 2 /\ Uploaded!Lock(up)
    \/ n = 3 /\ Uploaded!Finishing(up)

\* A request goes on, and whoever waits for a row gets it some time.
KeychainOften(n) == n \in 1..2 /\ Keys!Provide(<<p1, p2>>[n])

\* The loops run, and find the run again and again; a volume is bound, and goes
\* when the pods that used it have ended, which finished runs and served agents
\* see to.
VolumesFair(n) ==
    \/ n = 1 /\ Volumes!Initialize
    \/ n = 2 /\ Volumes!Collect(g1)
    \/ n \in 3..4 /\ Volumes!Bind(<<v1, v2>>[n - 2])
    \/ n \in 5..6 /\ Volumes!Vanish(<<v1, v2>>[n - 4])
VolumesOften(n) == n = 1 /\ Volumes!Pick(w)

\* The promise is polled.
PromiseFair(n) == n = 1 /\ Promise!Poll

\* The ticker, the channels, the DaemonSet and the volume provider go on; pods
\* and writes need not.
ExpanderFair(n) ==
    \/ n = 1 /\ Expander!Grant(c1)
    \/ n = 2 /\ Expander!Handle(c1)
    \/ n = 3 /\ Expander!Observe(n1)
    \/ n = 4 /\ Expander!Scrape
    \/ n = 5 /\ Expander!Restart

\* Upgraders and servers go on.
SchemaFair(n) ==
    \/ n = 1 /\ UpgradeStep(j2)
    \/ n = 2 /\ UpgradeStep(j3)
    \/ n = 3 /\ AppStep(loops)

\* Every request for settings goes on.
SettingsFair(n) == n \in 1..3 /\ Settings!Step(n)

\* No behaviour has two parts, so this is fairness of each step.  The part is looked
\* at first, which spares TLC the rest.
Fair(n) ==
    \/ part = "hooks" /\ HooksFair(n) /\ HooksAlone
    \/ part = "uploads" /\ UploadsFair(n) /\ UploadsAlone
    \/ part = "volumes" /\ VolumesFair(n) /\ VolumesAlone
    \/ part = "promise" /\ PromiseFair(n) /\ PromiseAlone
    \/ part = "expander" /\ ExpanderFair(n) /\ ExpanderAlone
    \/ part = "schema" /\ SchemaFair(n) /\ SchemaAlone
    \/ part = "settings" /\ SettingsFair(n) /\ SettingsAlone
Often(n) ==
    \/ part = "uploads" /\ UploadsOften(n) /\ UploadsAlone
    \/ part = "keychain" /\ KeychainOften(n) /\ KeychainAlone
    \/ part = "volumes" /\ VolumesOften(n) /\ VolumesAlone

all == <<part, vars, uploads, keychain, volumes, promise, expander, schemaVars, settings>>
PartSpec ==
    /\ PartInit /\ [][PartNext]_all
    /\ \A n \in 1..11 : WF_all(Fair(n))
    /\ \A n \in 1..3 : SF_all(Often(n))

-----------------------------------------------------------------------------
(* Properties; those of Hooks go by their own names *)

\* What was asked for of each part: a run; a run of an upload; a request for a
\* key; a run's volumes; a promise whose context has ended; room; a release of
\* the database that all serve; settings.
Asked ==
    \/ part = "hooks" /\ \E x \in Run : status[x] \notin Finished
    \/ part = "uploads" /\ upload[up] = "running"
    \/ part = "keychain" /\ asks[p1] # "idle"
    \/ part = "volumes" /\ volumed[w] = "waiting"
    \/ part = "promise" /\ call.at = "poll" /\ done
    \/ part = "expander" /\ Expander!Short(c1)
    \/ part = "schema" /\ ~ Settled
    \/ part = "settings" /\ \E c \in 1..3 : client[c] \notin {"ok", "failed"}

\* Who asks is answered: however often hooks refuse, the run is finished; so is
\* that of an upload whose handler died; no error leaves the keychain locked;
\* a run gets its volumes, also when some of them are there already; a promise
\* is resolved; a claim short of room is enlarged; the database is upgraded and
\* all serve again; no change of settings waits for ever.
AskedIsDone == Asked ~> ~Asked

\* What is owed to nobody who waits: to remove the row of an agent, and garbage;
\* to give up a pod that was not pending by the deadline; to tell how a run has
\* ended, while no iteration has died and no URL has answered badly.
Owed ==
    \/ part = "uploads" /\ up \in row
    \/ part = "volumes" /\ v1 \in garbage
    \/ part = "promise" /\ call.at = "poll" /\ call.kind = "pod" /\ timeout /\ ~ call.met
    \/ /\ part = "hooks" /\ faults = <<0, 0>>
       /\ \E x \in Run : status[x] \in Finished /\ ~ EndHeard(x)

\* It comes, also when the process that began it stopped in between.
OwedComes == Owed ~> ~Owed
=============================================================================
