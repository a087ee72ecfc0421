--------------------------- MODULE SchemaUpgrade ---------------------------
(***************************************************************************)
(* The schema upgrader and the processes that stop when the schema is out  *)
(* of date.  An upgrader publishes the versions it knows in a directory    *)
(* and applies those the database lacks in one transaction; the version to *)
(* start from is read on another connection.  A server watches the         *)
(* directory, and its own files, and dies to be started again.             *)
(***************************************************************************)
EXTENDS Naturals, Sequences, FiniteSets, FiniteSetsExt

CONSTANTS
    App,         \* servers and loops
    LoadsFirst,  \* those that load their file before they watch it
    Job,         \* runs of the upgrader
    Image,       \* [Job -> the last version that it has]
    Idempotent,  \* versions that may be applied again (create ... if not exists)
    MaxConf,     \* bound: how often a file changes
    MaxFaults    \* bound: how often an upgrader or a server fails for no reason of its own

VARIABLES
    repo,   \* versions published
    db,     \* what is committed: the version, and how often each was applied
    upgrader, \* [Job -> what it does, from which version, what it has applied]
    app,    \* [App -> what it does, the file as loaded, its watches and unseen events]
    conf,   \* the file, as a number
    failures

schemaVars == <<repo, db, upgrader, app, conf, failures>>

Target == Max({Image[j] : j \in Job})
Version == 1..Target

SchemaAssumption ==
    /\ Image \in [Job -> Nat \ {0}] /\ \E j \in Job : \A k \in Job : Image[k] <= Image[j]
    /\ LoadsFirst \subseteq App
    /\ Idempotent \subseteq Version /\ 1 \notin Idempotent
    /\ {MaxConf, MaxFaults} \subseteq Nat

\* Only what the last version creates may be there already, as it is of those that the
\* repository has: 1 and 2 insert pseudo plans, 3 creates tables that are not there.
LastMayRepeat == Idempotent \subseteq {Target}

Down == [pc |-> 0, loaded |-> 0, watches |-> {}, unseen |-> {}, want |-> 0]
Fresh == [pc |-> "copy", base |-> 0, done |-> {}]

\* A new installation, or one that has run the first versions for long.
SchemaInit ==
    /\ \E v \in 0..(Target - 1) :
           /\ repo = 1..v
           /\ db = [version |-> v, applied |-> [w \in Version |-> IF w <= v THEN 1 ELSE 0]]
    /\ upgrader = [j \in Job |-> Fresh]
    /\ app = [a \in App |-> Down]
    /\ conf = 0 /\ failures = 0

Latest(S) == Max(S \cup {0})

-----------------------------------------------------------------------------
(* The upgrader *)

\* Who watches gets an event of what is created.
Notified(what) ==
    [a \in App |-> IF what \in app[a].watches THEN [app[a] EXCEPT !.unseen = @ \cup {what}] ELSE app[a]]

\* DirCopy, one directory at a time; those that are there stay as they are.
Copy(j) ==
    /\ upgrader[j].pc = "copy"
    /\ IF 1..Image[j] \subseteq repo
       THEN upgrader' = [upgrader EXCEPT ![j].pc = "read"] /\ UNCHANGED <<repo, app>>
       ELSE LET v == Min(1..Image[j] \ repo)
            IN repo' = repo \cup {v} /\ app' = Notified("schema") /\ UNCHANGED upgrader
    /\ UNCHANGED <<db, conf, failures>>

ReadVersion(j) ==
    /\ upgrader[j].pc = "read"
    /\ upgrader' = [upgrader EXCEPT ![j].pc = "apply", ![j].base = db.version]
    /\ UNCHANGED <<repo, db, app, conf, failures>>

\* What another transaction has created and not committed is waited for.
Blocked(j, v) == \E k \in Job \ {j} : v \in upgrader[k].done

\* Unique names of types and pseudo plans refuse what is there already; a table that is
\* there is left alone.  Mutant: nothing refuses it.
Rejects_Never(v) == FALSE
Rejects(v) == db.applied[v] > 0 /\ v \notin Idempotent

\* Versions are sorted by their number; those up to the one that was read are left out.
ToApply(j) == (upgrader[j].base + 1)..Image[j] \ upgrader[j].done

ApplyNext(j, v) ==
    /\ ~Blocked(j, v)
    /\ IF Rejects(v) THEN upgrader' = [upgrader EXCEPT ![j] = Fresh]
       ELSE upgrader' = [upgrader EXCEPT ![j].done = @ \cup {v}]

Apply(j) ==
    /\ upgrader[j].pc = "apply"
    /\ IF ToApply(j) = {} THEN upgrader' = [upgrader EXCEPT ![j].pc = "commit"] ELSE ApplyNext(j, Min(ToApply(j)))
    /\ UNCHANGED <<repo, db, app, conf, failures>>

CommitUpgrade(j) ==
    /\ upgrader[j].pc = "commit"
    /\ db' = [version |-> IF upgrader[j].done = {} THEN db.version ELSE Max(upgrader[j].done),
              applied |-> [v \in Version |-> db.applied[v] + IF v \in upgrader[j].done THEN 1 ELSE 0]]
    /\ upgrader' = [upgrader EXCEPT ![j] = [Fresh EXCEPT !.pc = "end"]]
    /\ UNCHANGED <<repo, app, conf, failures>>

\* The Job is started again (restartPolicy: OnFailure).
UpgradeFails(j) ==
    /\ upgrader[j].pc # "end" /\ failures < MaxFaults
    /\ upgrader' = [upgrader EXCEPT ![j] = Fresh] /\ failures' = failures + 1
    /\ UNCHANGED <<repo, db, app, conf>>

-----------------------------------------------------------------------------
(* Servers and loops *)

\* What main does one after the other until it serves.
\* Mutant: the version is checked before the directory is watched.
BootOrder_CheckFirst(a) ==
    IF a \in LoadsFirst THEN <<"load", "file", "versions", "check", "schema">>
    ELSE <<"file", "load", "versions", "check", "schema">>
BootOrder(a) ==
    IF a \in LoadsFirst THEN <<"load", "file", "schema", "versions", "check">>
    ELSE <<"file", "load", "schema", "versions", "check">>
Serving(a) == app[a].pc = 6

\* Mutant: the latest version is not new enough.
Outdated_Latest(a) == db.version <= app[a].want
Outdated(a) == db.version < app[a].want

\* A server that has done the next step.
Booted(a) ==
    LET step == IF app[a].pc = 0 THEN "start" ELSE BootOrder(a)[app[a].pc]
        next == [app[a] EXCEPT !.pc = @ + 1]
    IN  CASE step = "start"    -> next
          [] step = "load"     -> [next EXCEPT !.loaded = conf]
          [] step \in {"file", "schema"} -> [next EXCEPT !.watches = @ \cup {step}]
          [] step = "versions" -> [next EXCEPT !.want = Latest(repo)]
          [] step = "check"    -> IF Outdated(a) THEN Down ELSE [next EXCEPT !.want = 0]

Boot(a) ==
    /\ ~Serving(a)
    /\ app' = [app EXCEPT ![a] = Booted(a)]
    /\ UNCHANGED <<repo, db, upgrader, conf, failures>>

\* A file that has changed ends the process.
FileEvent(a) ==
    /\ "file" \in app[a].unseen
    /\ app' = [app EXCEPT ![a] = Down]
    /\ UNCHANGED <<repo, db, upgrader, conf, failures>>

\* The directory: checkVersion, first what is published, then what the database has.
SchemaEvent(a) ==
    /\ "schema" \in app[a].unseen
    /\ app' = [app EXCEPT ![a].unseen = @ \ {"schema"}, ![a].want = Latest(repo)]
    /\ UNCHANGED <<repo, db, upgrader, conf, failures>>

CheckVersion(a) ==
    /\ app[a].want # 0
    /\ IF Outdated(a) THEN app' = [app EXCEPT ![a] = Down] ELSE app' = [app EXCEPT ![a].want = 0]
    /\ UNCHANGED <<repo, db, upgrader, conf, failures>>

AppFails(a) ==
    /\ app[a].pc # 0 /\ failures < MaxFaults
    /\ app' = [app EXCEPT ![a] = Down] /\ failures' = failures + 1
    /\ UNCHANGED <<repo, db, upgrader, conf>>

ChangeFile ==
    /\ conf < MaxConf
    /\ conf' = conf + 1 /\ app' = Notified("file")
    /\ UNCHANGED <<repo, db, upgrader, failures>>

UpgradeStep(j) == Copy(j) \/ ReadVersion(j) \/ Apply(j) \/ CommitUpgrade(j)
AppStep(a) == Boot(a) \/ FileEvent(a) \/ SchemaEvent(a) \/ CheckVersion(a)

SchemaNext ==
    \/ \E j \in Job : UpgradeStep(j) \/ UpgradeFails(j)
    \/ \E a \in App : AppStep(a) \/ AppFails(a)
    \/ ChangeFile

SchemaSpec == SchemaInit /\ [][SchemaNext]_schemaVars

-----------------------------------------------------------------------------
(* Properties *)

\* What creates rows and types is applied once, whoever runs at the same time,
\* and the version tells what has been applied (schema.go:98).
VersionTells ==
    /\ \A v \in Version : db.applied[v] > 0 <=> v <= db.version
    /\ \A v \in Version \ Idempotent : db.applied[v] <= 1

\* An upgrader of an older release never takes the version back (schema.go:114).
NeverBack == [][db'.version >= db.version]_schemaVars

\* Who serves, and has seen all events there were, serves with a database that has all
\* that is published and, if it watched its file before it loaded it, with the file as it
\* is (schema.go:141, filewatch/context.go:26).
CurrentWhenServing ==
    \A a \in App : Serving(a) /\ app[a].unseen = {} /\ app[a].want = 0 =>
        db.version >= Latest(repo) /\ (a \notin LoadsFirst => app[a].loaded = conf)

\* Which version there is, that it stays, and that all know (Upgrade and Context of the
\* schema repository).
SchemaIsCurrent == [](VersionTells /\ CurrentWhenServing) /\ NeverBack

\* The database has the last version and all are serving.
Settled == db.version = Target /\ \A a \in App : Serving(a)
=============================================================================
