---------------------------- MODULE PlanSettings ----------------------------
(***************************************************************************)
(* Requests that change the settings of a plan - resource limits,          *)
(* annotations, its service account - at the same time.  Each is one or    *)
(* two transactions of a few statements, READ COMMITTED: a statement sees  *)
(* what was committed when it began, and locks rows one by one.  The       *)
(* database breaks a deadlock by failing one of its transactions, and the  *)
(* request with it.                                                        *)
(***************************************************************************)
EXTENDS Naturals, FiniteSets, Sequences, Functions

CONSTANTS
    Client,     \* requests under way, one per client
    Row,        \* resource types, annotations, the service account
    Wishes      \* what clients may ask for: functions of Client

VARIABLES
    wish,   \* what each client asks for
    rows,   \* of the plan, as committed
    pc,     \* of each request
    rest,   \* its transactions left, as sequences of statements
    todo,   \* rows left to the statement under way
    own,    \* what its transaction has written, and so locked
    lock,   \* its lock of the plan itself
    told    \* the answer

settingsVars == <<wish, rows, pc, rest, todo, own, lock, told>>

NoRow == "none"      \* there is no row
There == "there"    \* a row as before, or one that has no value of its own
Between == {"idle"}    \* no statement is under way

\* A row is a resource type, an annotation, that has no value of its own, or the
\* account, which is either set or unset.
PlanSettingsAssumption ==
    /\ "idle" \notin Row
    /\ \A W \in Wishes : \A c \in Client :
           /\ W[c].kind \in {"resource", "annotation", "account"}
           /\ DOMAIN W[c].set \cup W[c].unset \subseteq Row
           /\ \A x \in DOMAIN W[c].set : W[c].set[x] # NoRow /\ (W[c].kind = "annotation" => W[c].set[x] = There)
           /\ W[c].kind = "account" => DOMAIN W[c].set = {} \/ W[c].unset = {}
           /\ \A d \in Client : W[c].kind # W[d].kind =>
                  (DOMAIN W[c].set \cup W[c].unset) \cap (DOMAIN W[d].set \cup W[d].unset) = {}

-----------------------------------------------------------------------------
(* The statements.  "first" is the lock of the plan that is taken before   *)
(* rows are; a row that is new takes a lock of the plan it belongs to.     *)

Upsert(set) == [do |-> "upsert", to |-> set, first |-> "no"]
Insert(set) == [do |-> "insert", to |-> set, first |-> "no"]
DeleteRows(on) == [do |-> "delete", to |-> [x \in on |-> NoRow], first |-> "no"]
KeyShare == [do |-> "share", to |-> <<>>, first |-> "share"]

\* Mutant: a transaction for each type.
SetResourceLimit_OneByOne(set) == [i \in 1..Cardinality(DOMAIN set) |->
    LET nth == CHOOSE f \in [1..Cardinality(DOMAIN set) -> DOMAIN set] : IsInjective(f)
    IN <<Upsert([x \in {nth[i]} |-> set[x]])>>]
SetResourceLimit(set) == << <<Upsert(set)>> >>
UnsetResourceLimit(types) == << <<[DeleteRows(types) EXCEPT !.first = "update"]>> >>

\* Remove, then add.  Mutant: the other way round.
UpdateAnnotations_AddFirst(add, remove) == << <<KeyShare, Insert(add), DeleteRows(remove)>> >>
UpdateAnnotations(add, remove) == << <<KeyShare, DeleteRows(remove), Insert(add)>> >>

SetServiceAccount(set) == << <<[Upsert(set) EXCEPT !.first = "share"]>> >>
UnsetServiceAccount(on) == << <<KeyShare, DeleteRows(on)>> >>

Transactions(a) ==
    CASE a.kind = "resource" -> SetResourceLimit(a.set) \o UnsetResourceLimit(a.unset)
      [] a.kind = "annotation" -> UpdateAnnotations(a.set, a.unset)
      [] a.kind = "account" /\ a.unset = {} -> SetServiceAccount(a.set)
      [] a.kind = "account" /\ a.unset # {} -> UnsetServiceAccount(a.unset)

SettingsInit ==
    /\ wish \in Wishes
    /\ rows \in [Row -> {NoRow, There}]
    /\ pc = [c \in Client |-> "run"]
    /\ rest = [c \in Client |-> Transactions(wish[c])]
    /\ todo = [c \in Client |-> Between]
    /\ own = [c \in Client |-> <<>>] /\ lock = [c \in Client |-> "no"]
    /\ told = [c \in Client |-> <<>>]

-----------------------------------------------------------------------------
(* Locks *)

Current(c) == rest[c][1][1]
Others(c) == Client \ {c}

Written(c) == DOMAIN own[c]
Holders(c, x) == {d \in Others(c) : x \in Written(d)}

Strength(l) == CASE l = "no" -> 0 [] l = "share" -> 1 [] l = "update" -> 2
Against(c, l) == {d \in Others(c) : lock[d] = "update" \/ (l = "update" /\ lock[d] = "share")}

NewRows(c) == {x \in Written(c) : rows[x] = NoRow /\ own[c][x] # NoRow}
\* The lock of the plan that the statement needs now.
Needs(c) ==
    IF todo[c] = Between THEN "no"
    ELSE IF todo[c] = {} /\ NewRows(c) # {} /\ Current(c).first = "no" THEN "share"
    ELSE Current(c).first
Lacks(c) == pc[c] = "run" /\ Strength(lock[c]) < Strength(Needs(c))

\* Whom a request waits for.  In which order rows are taken is not known.
WaitsFor(c) ==
    IF pc[c] # "run" \/ todo[c] = Between THEN {}
    ELSE IF Lacks(c) THEN Against(c, Needs(c))
    ELSE UNION {Holders(c, x) : x \in todo[c]}

-----------------------------------------------------------------------------

Visible(c, x) == IF x \in Written(c) THEN own[c][x] ELSE rows[x]

\* A statement begins.  Which rows are there to be deleted is decided now.
Start(c) ==
    /\ pc[c] = "run" /\ todo[c] = Between
    /\ todo' = [todo EXCEPT ![c] =
           {x \in DOMAIN Current(c).to : Current(c).do = "delete" => Visible(c, x) # NoRow}]
    /\ UNCHANGED <<wish, rows, pc, rest, own, lock, told>>

LockPlan(c) ==
    /\ Lacks(c) /\ Against(c, Needs(c)) = {}
    /\ lock' = [lock EXCEPT ![c] = Needs(c)]
    /\ UNCHANGED <<wish, rows, pc, rest, todo, own, told>>

\* The next row, once nobody else has it.  It is looked at again: what is there
\* is not inserted, what has gone is not deleted.
Touch(c, x) ==
    /\ pc[c] = "run" /\ todo[c] # Between /\ x \in todo[c] /\ ~Lacks(c) /\ Holders(c, x) = {}
    /\ todo' = [todo EXCEPT ![c] = @ \ {x}]
    /\ LET s == Current(c)
           idle == (s.do = "insert" /\ Visible(c, x) # NoRow) \/ (s.do = "delete" /\ Visible(c, x) = NoRow)
           write == [y \in Written(c) \cup {x} |-> IF y = x THEN s.to[x] ELSE own[c][y]]
       IN own' = [own EXCEPT ![c] = IF idle THEN @ ELSE write]
    /\ UNCHANGED <<wish, rows, pc, rest, lock, told>>

Ends(c) == pc[c] = "run" /\ todo[c] = {} /\ ~Lacks(c)

NextStatement(c) ==
    /\ Ends(c) /\ Len(rest[c][1]) > 1
    /\ rest' = [rest EXCEPT ![c] = <<Tail(@[1])>> \o Tail(@)]
    /\ todo' = [todo EXCEPT ![c] = Between]
    /\ UNCHANGED <<wish, rows, pc, own, lock, told>>

\* Mutants: what is written is all there is; the plan is read before the commit.
CommitSettings_Replaces(c) ==
    /\ Ends(c) /\ Len(rest[c][1]) = 1
    /\ rows' = own[c]
    /\ own' = [own EXCEPT ![c] = <<>>] /\ lock' = [lock EXCEPT ![c] = "no"]
    /\ rest' = [rest EXCEPT ![c] = Tail(@)] /\ todo' = [todo EXCEPT ![c] = Between]
    /\ pc' = [pc EXCEPT ![c] = IF Len(rest[c]) = 1 THEN "get" ELSE "run"]
    /\ UNCHANGED <<wish, told>>
CommitSettings_ReadsFirst(c) ==
    /\ Ends(c) /\ Len(rest[c][1]) = 1
    /\ rows' = [x \in Row |-> Visible(c, x)]
    /\ own' = [own EXCEPT ![c] = <<>>] /\ lock' = [lock EXCEPT ![c] = "no"]
    /\ rest' = [rest EXCEPT ![c] = Tail(@)] /\ todo' = [todo EXCEPT ![c] = Between]
    /\ pc' = [pc EXCEPT ![c] = IF Len(rest[c]) = 1 THEN "ok" ELSE "run"]
    /\ told' = [told EXCEPT ![c] = rows] /\ UNCHANGED wish
CommitSettings(c) ==
    /\ Ends(c) /\ Len(rest[c][1]) = 1
    /\ rows' = [x \in Row |-> Visible(c, x)]
    /\ own' = [own EXCEPT ![c] = <<>>] /\ lock' = [lock EXCEPT ![c] = "no"]
    /\ rest' = [rest EXCEPT ![c] = Tail(@)] /\ todo' = [todo EXCEPT ![c] = Between]
    /\ pc' = [pc EXCEPT ![c] = IF Len(rest[c]) = 1 THEN "get" ELSE "run"]
    /\ UNCHANGED <<wish, told>>

\* The plan is read again and sent.
Answer(c) ==
    /\ pc[c] = "get" /\ pc' = [pc EXCEPT ![c] = "ok"] /\ told' = [told EXCEPT ![c] = rows]
    /\ UNCHANGED <<wish, rows, rest, todo, own, lock>>

\* The database fails one of those who wait in a circle, and the transaction is
\* rolled back.  Mutant: it is not.
Deadlocked(c) == \E S \in SUBSET Client : c \in S /\ \A d \in S : WaitsFor(d) \cap S # {}

Fail_KeepsOpen(c) ==
    /\ pc[c] = "run" /\ Deadlocked(c)
    /\ pc' = [pc EXCEPT ![c] = "failed"] /\ UNCHANGED <<wish, rows, rest, told, todo, own, lock>>
Fail(c) ==
    /\ pc[c] = "run" /\ Deadlocked(c)
    /\ pc' = [pc EXCEPT ![c] = "failed"] /\ todo' = [todo EXCEPT ![c] = Between]
    /\ own' = [own EXCEPT ![c] = <<>>] /\ lock' = [lock EXCEPT ![c] = "no"]
    /\ UNCHANGED <<wish, rows, rest, told>>

Step(c) ==
    \/ Start(c) \/ LockPlan(c) \/ (\E x \in Row : Touch(c, x))
    \/ NextStatement(c) \/ CommitSettings(c) \/ Answer(c) \/ Fail(c)

SettingsNext == \E c \in Client : Step(c)

SettingsSpec == SettingsInit /\ [][SettingsNext]_settingsVars

-----------------------------------------------------------------------------
(* Properties *)

SettingsTypeOK ==
    /\ DOMAIN rows = Row
    /\ \A c \in Client :
           /\ pc[c] \in {"run", "get", "ok", "failed"} /\ lock[c] \in {"no", "share", "update"}
           /\ Written(c) \subseteq Row /\ (todo[c] = Between \/ todo[c] \subseteq Row)

Touches(c) == DOMAIN wish[c].set \cup wish[c].unset

\* What a request makes of a row that it touches, if nobody else is there.
\* Annotations are removed first, then added; resources are set, then unset.
Wanted(c, x) ==
    IF x \notin wish[c].unset \/ (wish[c].kind = "annotation" /\ x \in DOMAIN wish[c].set)
    THEN wish[c].set[x] ELSE NoRow

\* Rows that are set together are never seen from two requests: not when the
\* locks are taken in different orders, nor when one fails (SetResourceLimit).
Together(x, y) == \A c \in Client : (x \in DOMAIN wish[c].set <=> y \in DOMAIN wish[c].set)
                                    /\ {x, y} \cap wish[c].unset = {}
WholeSets ==
    \A x, y \in Row : Together(x, y) /\ rows[x] \notin {NoRow, There} =>
        \E c \in Client : {x, y} \subseteq DOMAIN wish[c].set
                           /\ rows[x] = wish[c].set[x] /\ rows[y] = wish[c].set[y]

\* When all are done, a row is as one of those who touched it wanted it; what a
\* request removed and added is there, unless another removed it
\* (UpdateAnnotations).
RowsAreWanted ==
    \A x \in Row :
        LET by == {c \in Client : x \in Touches(c)}
        IN by # {} /\ (\A c \in by : pc[c] = "ok") => \E c \in by : rows[x] = Wanted(c, x)

\* What a request is answered has its own change in it, or that of another.
ToldIsChanged ==
    \A c \in Client : pc[c] = "ok" =>
        \A x \in Touches(c) : \E d \in Client : x \in Touches(d)
            /\ told[c][x] \in {Wanted(d, x)} \cup (IF x \in DOMAIN wish[d].set THEN {wish[d].set[x]} ELSE {})

\* Settings are as one of those who changed them wanted, and as those who are
\* told of success were told: the four together.
SettingsAreWanted == SettingsTypeOK /\ WholeSets /\ RowsAreWanted /\ ToldIsChanged

\* "If you pass --set and --unset for same key, --set will take precedence."
SetTakesPrecedence ==
    \A c \in Client : \A x \in wish[c].unset \cap DOMAIN wish[c].set :
        pc[c] = "ok" /\ (\A d \in Others(c) : x \notin Touches(d)) => told[c][x] = wish[c].set[x]
=============================================================================
