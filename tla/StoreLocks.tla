----------------------------- MODULE StoreLocks -----------------------------
(***************************************************************************)
(* The transactions that keep the nomination table, lock by lock.  They    *)
(* change their own rows, take the lock of the table, and only then look   *)
(* for what matches: the later of two sees what the earlier has committed. *)
(* That holds of transactions that are read committed.  Register is        *)
(* serializable: all it reads is as it was at its first query.  RunStore   *)
(* has each of these transactions as one step.                             *)
(***************************************************************************)
EXTENDS Naturals, Sequences

CONSTANTS
    Tx,     \* bound: transactions that are open at a time
    Data,
    Input,  \* of plans that are, or may be, registered; all of them ask for one tag
    Registered, \* the sets of inputs that may be registered from the start
    Mixes   \* the sets of Kinds of transactions that may be met together

VARIABLES
    kinds,     \* the mix there is, for good
    committed, \* what is committed
    open       \* [Tx -> what is asked for, the locks taken so far, what was read]

locksVars == <<kinds, committed, open>>

Kinds == {"tag", "untag", "finish", "pick", "drop", "agent", "register", "new"}

StoreLocksAssumption ==
    /\ Registered \subseteq SUBSET Input
    /\ Mixes \subseteq SUBSET Kinds

Tables ==
    [tagged : SUBSET Data, done : SUBSET Data, gone : SUBSET Data, agents : SUBSET Data,
     inputs : SUBSET Input, nom : SUBSET (Input \X Data)]

LocksTypeOK ==
    /\ kinds \in Mixes
    /\ committed \in Tables
    /\ open \in [Tx -> [kind : kinds \cup {"none"}, data : Data \cup {"-"}, input : Input \cup {"-"},
                      held : 0..3, at : {"idle", "lock", "work", "commit"},
                      snap : {<<>>} \cup [agents : SUBSET Data] \cup Tables,
                      rows : SUBSET (Input \X Data)]]

Closed == [kind |-> "none", data |-> "-", input |-> "-", held |-> 0, at |-> "idle", snap |-> <<>>, rows |-> {}]

LocksInit ==
    /\ kinds \in Mixes
    /\ \E T, D \in SUBSET Data, I \in Registered :
           committed = [tagged |-> T, done |-> D, gone |-> {}, agents |-> {}, inputs |-> I, nom |-> I \X (T \cap D)]
    /\ open = [t \in Tx |-> Closed]

-----------------------------------------------------------------------------
(* Locks *)

X(kind, of) == [lock |-> <<kind, of>>, mode |-> "x"]
S(kind, of) == [lock |-> <<kind, of>>, mode |-> "s"]

\* UpdateTag and NewAgent lock the data; Finish, of the handlers, its run only; the
\* loops and truncateRun the run and what it makes; New shares plans and data, and
\* writes rows of nomination; Register locks the plans as a table.
\* Mutant: UpdateTag and New start with the table of nominations.
OwnLocks(kind, d) ==
    CASE kind \in {"tag", "untag", "agent"} -> <<X("data", d)>>
      [] kind = "finish" -> <<X("run", d)>>
      [] kind \in {"pick", "drop"} -> <<X("run", d), X("data", d)>>
      [] kind = "register" -> <<X("plan", "-")>>
      [] OTHER -> <<S("plan", "-"), S("data", d)>>
Locks_TableFirst(kind, d) ==
    IF kind \in {"tag", "new"} THEN <<X("nomination", "-")>> \o OwnLocks(kind, d)
    ELSE OwnLocks(kind, d) \o (IF kind = "agent" THEN <<>> ELSE IF kind = "new" THEN <<S("nomination", "-")>>
                               ELSE <<X("nomination", "-")>>)
\* Mutant: the table is not locked.
Locks_NoTable(kind, d) == OwnLocks(kind, d)
Locks(kind, d) ==
    OwnLocks(kind, d) \o (IF kind = "agent" THEN <<>> ELSE IF kind = "new" THEN <<S("nomination", "-")>>
                          ELSE <<X("nomination", "-")>>)

LocksOf(t) == Locks(open[t].kind, open[t].data)
NextLock(t) == LocksOf(t)[open[t].held + 1]
Waits(t, u) ==
    /\ t # u /\ open[t].at = "lock"
    /\ \E i \in 1..open[u].held :
           LET l == LocksOf(u)[i]
           IN l.lock = NextLock(t).lock /\ (l.mode = "x" \/ NextLock(t).mode = "x")

-----------------------------------------------------------------------------
(* Transactions *)

\* A status or a tag is changed by a transaction that holds a lock on it, and seen by others
\* once it is committed.
Apply(t, v) ==
    LET d == {open[t].data}
    IN CASE open[t].kind = "tag"      -> [v EXCEPT !.tagged = @ \cup d]
         [] open[t].kind = "untag"    -> [v EXCEPT !.tagged = @ \ d]
         [] open[t].kind \in {"finish", "pick"} -> [v EXCEPT !.done = @ \cup d]
         [] open[t].kind = "drop"     -> [v EXCEPT !.done = @ \ d, !.tagged = @ \ d, !.gone = @ \cup d]
         [] open[t].kind = "agent"    -> [v EXCEPT !.agents = @ \cup d]
         [] open[t].kind = "register" -> [v EXCEPT !.inputs = @ \cup {open[t].input}]
         [] OTHER -> v

OpenTx(t) ==
    /\ open[t].at = "idle"
    /\ \E k \in kinds, d \in Data, i \in Input :
           /\ k = "register" => i \notin committed.inputs /\ \A u \in Tx : open[u].input # i
           /\ k \notin {"register", "new"} => d \notin committed.gone
           /\ k \in {"finish", "pick"} => d \notin committed.done
           /\ k = "drop" => d \in committed.done
           /\ open' = [open EXCEPT ![t] = [Closed EXCEPT !.kind = k, !.at = "lock",
                                           !.data = IF k = "register" THEN "-" ELSE d,
                                           !.input = IF k = "register" THEN i ELSE "-",
                                           !.snap = IF k = "drop" THEN [agents |-> committed.agents] ELSE @]]
    /\ UNCHANGED <<kinds, committed>>

\* What a transaction reads after its locks: as it is now, or as it was.
View(t) == IF open[t].kind = "register" THEN open[t].snap ELSE committed

\* Register takes its snapshot once it has the lock of the plans (getPlansByHash).
Acquire(t) ==
    /\ open[t].at = "lock" /\ \A u \in Tx : ~Waits(t, u)
    /\ LET last == open[t].held + 1 = Len(LocksOf(t))
       IN open' = [open EXCEPT ![t].held = @ + 1, ![t].at = IF last THEN "work" ELSE @,
                           ![t].snap = IF open[t].kind = "register" /\ open[t].held = 0 THEN committed ELSE @]
    /\ UNCHANGED <<kinds, committed>>

\* NominateData, NominateMountpoints and DropData: which rows are to be replaced, and by which.
Match(v) == {r \in v.inputs \X Data : r[2] \in v.tagged \cap v.done}
Concerns(t, r) ==
    CASE open[t].kind = "register" -> r[1] = open[t].input
      [] open[t].kind \in {"new", "agent"} -> FALSE
      [] OTHER -> r[2] = open[t].data

Nominate(t) ==
    /\ open[t].at = "work"
    /\ open' = [open EXCEPT ![t].at = "commit", ![t].rows = {r \in Match(Apply(t, View(t))) : Concerns(t, r)}]
    /\ UNCHANGED <<kinds, committed>>

\* The row is there no more, or has moved on, by the time it is locked; truncateRun has
\* counted the agents in the statement that waits for its locks.
Refused(t) ==
    \/ open[t].kind \notin {"register", "new"} /\ open[t].data \in committed.gone
    \/ open[t].kind \in {"finish", "pick"} /\ open[t].data \in committed.done
    \/ open[t].kind = "drop" /\ (open[t].data \notin committed.done \/ open[t].data \in open[t].snap.agents)

\* Foreign keys of nomination and data_agent.  Mutant: there is none.
Violates_Never(t) == FALSE
Violates(t) ==
    \/ \E r \in open[t].rows : r[2] \in committed.gone
    \/ open[t].kind = "drop" /\ open[t].data \in committed.agents

End(t) ==
    /\ open[t].at = "commit"
    /\ committed' = IF Refused(t) \/ Violates(t) THEN committed
             ELSE [Apply(t, committed) EXCEPT !.nom = {r \in @ : ~Concerns(t, r)} \cup open[t].rows]
    /\ open' = [open EXCEPT ![t] = Closed]
    /\ UNCHANGED kinds

\* RemoveAgent
AgentEnds == \E d \in committed.agents : committed' = [committed EXCEPT !.agents = @ \ {d}] /\ UNCHANGED <<kinds, open>>

LocksNext == (\E t \in Tx : OpenTx(t) \/ Acquire(t) \/ Nominate(t) \/ End(t)) \/ AgentEnds

LocksSpec == LocksInit /\ [][LocksNext]_locksVars

-----------------------------------------------------------------------------
(* Properties *)

\* While no transaction is open the nomination table is exact, in whatever order
\* they have taken their locks (nominator.go:46 and RunStore.NominationExact).
ExactAtRest == (\A t \in Tx : open[t].at = "idle") => committed.nom = Match(committed)

\* No transactions wait for one another in a circle (nominator.go:46).
NoDeadlock ==
    \A W \in (SUBSET Tx) \ {{}} : \E t \in W : open[t].at # "lock" \/ \A u \in W : ~Waits(t, u)

\* What an agent reads or writes is not removed, though its row is counted before
\* the lock of the data is waited for (run.go:1410).
AgentsHaveData == committed.agents \cap committed.gone = {}

\* The three together.  Without registrations, which are not read committed,
\* the nomination table is exact.
LocksSuffice ==
    /\ LocksTypeOK /\ NoDeadlock /\ AgentsHaveData
    /\ "register" \notin kinds => ExactAtRest
=============================================================================
