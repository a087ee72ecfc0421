------------------------------- MODULE MCPlans -------------------------------
(***************************************************************************)
(* Plans for TLC: how they are stored, what users may ask for, how their   *)
(* settings are changed, how plans and lineages are drawn, and what the    *)
(* database answers and locks.  These share no state, so each behaviour is *)
(* one of one part.                                                        *)
(***************************************************************************)
EXTENDS Plans, PlanSettings, Drawings, Queries, StoreLocks, TLC

\* Plans with an input and an output of every sort, with two of them, and one
\* that is not active.
In(tags) == [tags |-> tags, id |-> {}]
ById(tags) == [tags |-> tags, id |-> {"1"}]
P(i, o) == [inputs |-> i, outputs |-> o, active |-> TRUE]
Sets == {{"x"}, {"y"}, {"x", "y"}}
Requests ==
    {P({i}, o) : i \in {In(t) : t \in Sets} \cup {ById({"x"}), ById({})}, o \in {{}} \cup {{t} : t \in Sets}}
    \cup {P({In({"x"}), ById({"y"})}, {{"y"}}), P({In({"x"}), In({"y"})}, {{}}), P({In({"x"})}, {{"y"}, {}}),
          [P({In({"y"})}, {{"x"}}) EXCEPT !.active = FALSE]}

VARIABLE
    part    \* what moves

drawing == <<lineageVars, planGraphVars>>

Part == {"plans", "paths", "twins", "settings", "runs", "changes", "feeds", "queries", "locks"}

-----------------------------------------------------------------------------
(* Requests for plans *)

Word == INSTANCE MCPlanSpec
AllParams == Word!PathParams \cup Word!WordParams

\* One request of any sort, or two that may be the same in other words.
OfPart == IF part = "paths" THEN Word!PathParams ELSE Word!WordParams

-----------------------------------------------------------------------------
(* Changes of settings: two resource types that are set together, one of   *)
(* them new, and a third; annotations, where the second client removes     *)
(* what the first adds, the third a key and a value of it at once          *)

To(on, v) == [x \in on |-> v]
Change(kind, set, unset) == [kind |-> kind, set |-> set, unset |-> unset]
Limits ==
    <<Change("resource", To({"a", "b"}, "one"), {"c"}), Change("resource", To({"a", "b"}, "two"), {}),
      Change("resource", To({"c"}, "three"), {"d"})>>
Notes ==
    <<Change("annotation", To({"a", "b"}, "there"), {"c"}), Change("annotation", To({"c"}, "there"), {"a", "b"}),
      Change("annotation", To({"b", "d"}, "there"), {"b", "d", "c"})>>
LimitsAndNotes == {Limits, Notes}

-----------------------------------------------------------------------------
(* Lineages and pipelines *)

Lives == INSTANCE MCLineage
PiecesOfData == Lives!Pieces
FourRuns == Lives!Runs
WhenItCame == Lives!Came
AllLineages == Lives!History
NoLimit == -1
AllDepths == {1, 2, NoLimit}

Pipes == INSTANCE MCPlanGraph
FourPlans == Pipes!FourPlans
InOrder == Pipes!InOrder
AllPipelines == Pipes!AllPipelines

-----------------------------------------------------------------------------
(* The database *)

Rows == INSTANCE MCQueries
SoundRows == Rows!Sound
OneMountpoint == [i \in {"i1"} |-> UserTag]

-----------------------------------------------------------------------------

ASSUME PlansAssumption ==
    /\ PlanSpecAssumption
    /\ PlanSettingsAssumption
    /\ LineageAssumption /\ PlanGraphAssumption
    /\ QueriesAssumption /\ StoreLocksAssumption

None == <<>>

PartInit ==
    /\ part \in Part
    /\ Init /\ RequestsInit
    /\ SettingsInit /\ (part # "settings" => wish = Limits /\ \A x \in Row : rows[x] = NoRow)
    /\ QueriesInit /\ (part # "queries" => db = CHOOSE d \in First : TRUE)
    /\ LocksInit /\ ("register" \in kinds <=> committed.inputs = {})
    /\ (part # "locks" => "register" \in kinds /\ committed.tagged = {} /\ committed.done = {})
    /\ IF part \in {"runs", "changes"}
       THEN LineageInit /\ (part = "changes" => arrows \in Lives!Small)
       ELSE /\ arrows = {} /\ there = {} /\ atFirst = {} /\ changes = 0 /\ ask = None /\ graph = None
            /\ said = None /\ phase = "-" /\ depth = 0 /\ layer = {} /\ next = {} /\ runs = {} /\ fetch = {}
    /\ IF part = "feeds" THEN PlanGraphInit /\ \E p \in PlanNode : PlanNode \ {p} \subseteq registered
       ELSE /\ feeds = {} /\ registered = {} /\ atStart = {} /\ wanted = None /\ planGraph = None
            /\ toldOf = None /\ stage = "-" /\ left = 0 /\ leaves = {} /\ grown = {}

PlansMove == part = "plans" /\ Next /\ UNCHANGED <<part, requestVars, settingsVars, drawing, queriesVars, locksVars>>
RequestsMove ==
    /\ part \in {"paths", "twins"} /\ asked < IF part = "paths" THEN 1 ELSE MaxRequests
    /\ \E p \in OfPart : Post(p)
    /\ UNCHANGED <<part, vars, settingsVars, drawing, queriesVars, locksVars>>
SettingsMove ==
    part = "settings" /\ SettingsNext /\ UNCHANGED <<part, vars, requestVars, drawing, queriesVars, locksVars>>
DrawingMoves ==
    /\ \/ part = "runs" /\ Trace /\ UNCHANGED planGraphVars
       \/ part = "changes" /\ LineageNext /\ UNCHANGED planGraphVars
       \/ part = "feeds" /\ PlanGraphNext /\ UNCHANGED lineageVars
    /\ UNCHANGED <<part, vars, requestVars, settingsVars, queriesVars, locksVars>>
AnswersMove ==
    part = "queries" /\ QueriesNext /\ UNCHANGED <<part, vars, requestVars, settingsVars, drawing, locksVars>>
LocksMove ==
    part = "locks" /\ LocksNext /\ UNCHANGED <<part, vars, requestVars, settingsVars, drawing, queriesVars>>

PartNext == PlansMove \/ RequestsMove \/ SettingsMove \/ DrawingMoves \/ AnswersMove \/ LocksMove
PartSpec == PartInit /\ [][PartNext]_<<part, vars, requestVars, settingsVars, drawing, queriesVars, locksVars>>

=============================================================================
