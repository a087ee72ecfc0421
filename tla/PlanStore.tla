------------------------------ MODULE PlanStore -----------------------------
(***************************************************************************)
(* The plans together.  The outputs of a plan feed the inputs of others by *)
(* their tags.  A registration follows the plans fed by the new one, step  *)
(* by step in one transaction, and is rolled back if it comes to the new   *)
(* one again.  Plans are found by tags, and told with what feeds them and  *)
(* what they feed.                                                         *)
(***************************************************************************)
EXTENDS Naturals, FiniteSets, Sequences

CONSTANTS
    Tag,        \* user tags
    Id,         \* values of knit#id
    OfData,     \* tags that some data has
    Request,    \* plans to be registered, see ValidPlans
    MaxPlans    \* bound

VARIABLES
    plans,  \* the plans, by their ids
    tx      \* the registration under way

vars == <<plans, tx>>

NoTx == [from |-> {}]

\* An input wants user tags and at most one knit#id; an output, or a log, has
\* user tags.  PlanSpec has the rest of what makes a plan valid.
ValidPlans ==
    [inputs : (SUBSET [tags : SUBSET Tag, id : {i \in SUBSET Id : Cardinality(i) <= 1}]) \ {{}},
     outputs : SUBSET SUBSET Tag, active : BOOLEAN]

ASSUME PlanStoreAssumption ==
    /\ Request \subseteq ValidPlans /\ OfData \subseteq Tag /\ MaxPlans \in Nat
    /\ \A p \in Request : \A i \in p.inputs : i.tags # {} \/ i.id # {}

Init == plans = <<>> /\ tx = NoTx

Plan == DOMAIN plans

-----------------------------------------------------------------------------
(* The check for cycles *)

\* Inputs that want system tags are left out, as they are in all that follows.
Feeds(tags, i) == i.id = {} /\ i.tags # {} /\ i.tags \subseteq tags

\* findPlanIdInDependants, with the new plan there already.
Dependants(all, from) ==
    {p \in DOMAIN all : \E q \in from : \E o \in all[q].outputs, i \in all[p].inputs : Feeds(o, i)}

\* The lock of the table is for one registration, from its first statement on.
Begin(p) ==
    /\ tx = NoTx /\ Len(plans) < MaxPlans
    /\ tx' = [from |-> {Len(plans) + 1}, plan |-> p] /\ UNCHANGED plans

Closes(next, new) == new \in next

Next1 == Dependants(Append(plans, tx.plan), tx.from)
New == Len(plans) + 1

Traverse ==
    /\ tx # NoTx /\ Next1 # {} /\ ~Closes(Next1, New)
    /\ tx' = [tx EXCEPT !.from = Next1] /\ UNCHANGED plans

Cyclic == tx # NoTx /\ Closes(Next1, New) /\ tx' = NoTx /\ UNCHANGED plans
\* Mutants: one step is looked at; outputs without tags are left out.
Commit_OneStep == tx # NoTx /\ ~Closes(Next1, New) /\ plans' = Append(plans, tx.plan) /\ tx' = NoTx
Commit_Tagged ==
    /\ tx # NoTx /\ Next1 = {} /\ tx' = NoTx
    /\ plans' = Append(plans, [tx.plan EXCEPT !.outputs = @ \ {{}}])
Commit == tx # NoTx /\ Next1 = {} /\ plans' = Append(plans, tx.plan) /\ tx' = NoTx

Register == Traverse \/ Cyclic \/ Commit
Next == (\E p \in Request : Begin(p)) \/ Register

Spec == Init /\ [][Next]_vars

-----------------------------------------------------------------------------
(* What is told of a plan: GetPlan has one statement for each direction *)

Downstreams(p, o) == {d \in UNION {{q} \X plans[q].inputs : q \in Plan} : Feeds(o, d[2])}

\* Mutant: inputs that want system tags are fed as well.
Upstreams_System(p, i) ==
    {u \in UNION {{q} \X plans[q].outputs : q \in Plan} : i.tags # {} /\ i.tags \subseteq u[2]}
Upstreams(p, i) ==
    {u \in UNION {{q} \X plans[q].outputs : q \in Plan} : i.id = {} /\ i.tags # {} /\ i.tags \subseteq u[2]}

-----------------------------------------------------------------------------
(* Find *)

Query == [in : SUBSET Tag, id : SUBSET Id, out : SUBSET Tag, active : {"any", "yes", "no"}]

\* Tags have rows from the first mount or data that has them.
Known == OfData \cup UNION {UNION {i.tags : i \in plans[p].inputs} \cup UNION plans[p].outputs : p \in Plan}

\* As many of the tags required, which are those with a row, as there are.
Most(asked, mounts) ==
    \/ asked \cap Known = {}
    \/ \E tags \in mounts : asked \cap Known \subseteq tags

\* Mutant: an output is enough.
InputTags_Either(p) == {i.tags : i \in plans[p].inputs} \cup plans[p].outputs
InputTags(p) == {i.tags : i \in plans[p].inputs}

\* makeTagQuery finds nothing for two ids; then the conditions are checked one
\* by one, each over all mounts of a plan.
Find(q) ==
    {p \in Plan :
        /\ Cardinality(q.id) <= 1
        /\ q.active \in {"any", IF plans[p].active THEN "yes" ELSE "no"}
        /\ Most(q.out, plans[p].outputs) /\ Most(q.in, InputTags(p))
        /\ q.id # {} => \E i \in plans[p].inputs : i.id = q.id}

-----------------------------------------------------------------------------
(* Properties *)

TypeOK ==
    /\ plans \in Seq(Request) /\ Len(plans) <= MaxPlans
    /\ \/ tx = NoTx
       \/ tx \in [from : SUBSET (1..Len(plans) + 1), plan : Request] /\ Len(plans) < MaxPlans

\* No plans feed each other in a circle, for their runs would make runs for ever:
\* there is no set of plans each of which is fed by one of the set
\* (planDependencyIsCyclic).
Acyclic == \A S \in (SUBSET Plan) \ {{}} : ~(S \subseteq Dependants(plans, S))

\* What feeds an input is fed by it: GetPlan says the same from both ends, and
\* it is what registration looks at.
UpstreamsMirror ==
    /\ \A p, q \in Plan : \A i \in plans[p].inputs, o \in plans[q].outputs :
           <<q, o>> \in Upstreams(p, i) <=> <<p, i>> \in Downstreams(q, o)
    /\ \A q \in Plan : Dependants(plans, {q}) = {d[1] : d \in UNION {Downstreams(q, o) : o \in plans[q].outputs}}

Has(mounts, asked) == asked = {} \/ \E tags \in mounts : asked \subseteq tags

\* With tags that are known, and no knit#id, Find answers the plans with an input
\* and an output that have all the tags asked of them.
FindsKnown ==
    \A in, out \in SUBSET Known, active \in {"any", "yes", "no"} :
        Find([in |-> in, id |-> {}, out |-> out, active |-> active]) =
            {p \in Plan : /\ Has({i.tags : i \in plans[p].inputs}, in) /\ Has(plans[p].outputs, out)
                          /\ active = "any" \/ (active = "yes" <=> plans[p].active)}

\* "plans with input mountpoint containing all of the specified tags"
FindsOnlyAsked ==
    \A q \in Query : q.id = {} => \A p \in Find(q) : Has({i.tags : i \in plans[p].inputs}, q.in)

\* The same, with knit#id among the tags.
FindsOneInput ==
    \A q \in Query : q.id # {} /\ q.in \subseteq Known =>
        \A p \in Find(q) : \E i \in plans[p].inputs : q.in \subseteq i.tags /\ q.id = i.id
=============================================================================
