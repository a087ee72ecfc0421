------------------------------- MODULE Catalog -------------------------------
(***************************************************************************)
(* The plans a deployment may come to know, their mountpoints, and when a  *)
(* mountpoint accepts a data item.                                         *)
(*                                                                         *)
(* Image plans are registered by users while the system runs; pseudo plans *)
(* (knit#uploaded, knit#imported) are part of the schema, have no input    *)
(* and one output.  The log of a worker is an output like any other.  Tags *)
(* "knit#timestamp" are left out: as a constraint on an input they behave  *)
(* as "knit#id" does, PinnedKnitId here.                                   *)
(***************************************************************************)
EXTENDS FiniteSets

CONSTANTS
    Plan,         \* image plans
    PseudoPlan,   \* pseudo plans
    Input,        \* input mountpoints of all plans
    Output,       \* output mountpoints of all plans
    Tag,          \* user tags
    KnitId,       \* identifiers of data
    NoKnitId,     \* an input without a knit#id tag, a mountpoint unassigned
    InputsOf,     \* [AnyPlan -> SUBSET Input]
    OutputsOf,    \* [AnyPlan -> SUBSET Output]
    InputTags,    \* [Input -> SUBSET Tag]
    OutputTags,   \* [Output -> SUBSET Tag]
    PinnedKnitId  \* [Input -> KnitId \cup {NoKnitId}]

AnyPlan == Plan \cup PseudoPlan

\* PlanSpec.validate: a plan has inputs, each with a tag; the schema's pseudo
\* plans have no input.  A mountpoint belongs to one plan.
ASSUME CatalogAssumption ==
    /\ Plan \cap PseudoPlan = {}
    /\ NoKnitId \notin KnitId
    /\ InputsOf \in [AnyPlan -> SUBSET Input]
    /\ OutputsOf \in [AnyPlan -> SUBSET Output]
    /\ InputTags \in [Input -> SUBSET Tag]
    /\ OutputTags \in [Output -> SUBSET Tag]
    /\ PinnedKnitId \in [Input -> KnitId \cup {NoKnitId}]
    /\ \A p \in Plan : InputsOf[p] # {}
    /\ \A p \in PseudoPlan : InputsOf[p] = {}
    /\ \A p, q \in AnyPlan : p # q => InputsOf[p] \cap InputsOf[q] = {}
    /\ \A p, q \in AnyPlan : p # q => OutputsOf[p] \cap OutputsOf[q] = {}
    /\ \A i \in Input : InputTags[i] # {} \/ PinnedKnitId[i] # NoKnitId

\* Input i accepts data d carrying the tags T: every tag the input asks for is
\* there, and a knit#id tag names this very data.
Matches(i, d, T) ==
    /\ InputTags[i] \subseteq T
    /\ PinnedKnitId[i] \in {NoKnitId, d}

\* An output of p, tagged as its plan tags it, would be an input of q.  Inputs
\* needing a system tag cannot make a cycle.
Feeds(p, q) ==
    \E o \in OutputsOf[p], i \in InputsOf[q] :
        PinnedKnitId[i] = NoKnitId /\ InputTags[i] \subseteq OutputTags[o]

\* Some plans of ps feed one another in a circle.
HasCycle(ps) ==
    \E S \in SUBSET ps : S # {} /\ \A q \in S : \E p \in S : Feeds(p, q)
=============================================================================
