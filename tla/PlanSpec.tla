------------------------------ MODULE PlanSpec ------------------------------
(***************************************************************************)
(* A user registers a plan: the request is validated and brought into a    *)
(* normal form, hashed, compared with the plans of the same hash, and      *)
(* stored.  Paths and arguments are sequences of characters, for what goes *)
(* wrong with them goes wrong there; a tag is a value of its own.          *)
(***************************************************************************)
EXTENDS Naturals, Sequences, SequencesExt

CONSTANTS
    Param,      \* what users ask for, see ParamType
    MaxRequests \* bound: requests

VARIABLES
    asked,  \* requests so far
    stored, \* the plans there are, in the order they came
    answer  \* the last request and what came of it

requestVars == <<asked, stored, answer>>

\* A character is a number, in the order of their codes: "-", "/" and letters.
Slash == 2
Char == 1..4

\* Tags are pairs of a key and a value.
SystemTags(tags) == {t \in tags : t[1] \in {"knit#id", "knit#timestamp", "knit#transient", "knit#other"}}

Mount == [path : Seq(Char), tags : SUBSET (STRING \X STRING)]
ParamType(p) ==
    /\ DOMAIN p = {"image", "inputs", "outputs", "log", "args", "onNode"}
    /\ p.image \in {"", "image"} /\ p.inputs \in Seq(Mount) /\ p.outputs \in Seq(Mount)
    /\ p.log \subseteq SUBSET (STRING \X STRING)    \* none, or one set of tags
    /\ p.args \in Seq(Seq(Char)) /\ p.onNode \in Seq(Nat)

PlanSpecAssumption == MaxRequests \in Nat /\ \A p \in Param : ParamType(p)

RequestsInit == asked = 0 /\ stored = <<>> /\ answer = [verdict |-> "none"]

-----------------------------------------------------------------------------
(* Paths *)

\* The order of strings: at the first character that differs, a ends or has the lower.
Sooner(a, b) ==
    \E n \in 1..Len(b) :
        /\ \A k \in 1..n - 1 : k <= Len(a) /\ a[k] = b[k]
        /\ n = Len(a) + 1 \/ (n <= Len(a) /\ a[n] < b[n])

EndsInSlash(path) == path # <<>> /\ Last(path) = Slash

\* filepath.IsAbs and filepath.Clean, where no name is "." or "..".
AbsoluteAndClean(path) ==
    /\ path # <<>> /\ Head(path) = Slash
    /\ path = <<Slash>> \/ ~EndsInSlash(path)
    /\ \A i \in 2..Len(path) : ~(path[i - 1] = Slash /\ path[i] = Slash)

WithSlash(path) == IF EndsInSlash(path) THEN path ELSE path \o <<Slash>>

PathOverlap(a, b) == IsPrefix(b, WithSlash(a)) \/ IsPrefix(a, WithSlash(b))

-----------------------------------------------------------------------------
(* Validation *)

\* utils/slices.Sorted; lead has who may stand before whom.
Sorted(s, lead) ==
    LET order == CHOOSE o \in Bijection(DOMAIN s, DOMAIN s) :
                     \A i, j \in DOMAIN s : i < j => <<s[o[i]], s[o[j]]>> \in lead
    IN  [i \in DOMAIN s |-> s[order[i]]]

ByPath(mounts) == Sorted(mounts, {p \in Range(mounts) \X Range(mounts) : ~Sooner(p[2].path, p[1].path)})
ByNode(nodes) == Sorted(nodes, {p \in Range(nodes) \X Range(nodes) : p[1] <= p[2]})
Trimmed(m) == [m EXCEPT !.path = IF EndsInSlash(@) THEN Front(@) ELSE @]
TrimmedByPath(mounts) == [i \in DOMAIN mounts |-> Trimmed(ByPath(mounts)[i])]

\* Mutant: nodes stay in the order they were asked for.
Normal_KeepsNodes(p) == [p EXCEPT !.inputs = TrimmedByPath(@), !.outputs = TrimmedByPath(@)]
\* Mounts are sorted before their paths are trimmed.
Normal(p) ==
    [p EXCEPT !.inputs = TrimmedByPath(@), !.outputs = TrimmedByPath(@), !.onNode = ByNode(@)]

Mounts(spec) == spec.inputs \o spec.outputs

GoodInputTags(tags) ==
    /\ tags # {}
    /\ \A s \in SystemTags(tags), t \in SystemTags(tags) :
           s[1] \in {"knit#id", "knit#timestamp"} /\ (s[1] = t[1] => s = t)

\* Mutant: an input is compared with the other inputs, but not with the outputs.
Overlaps_ByKind(spec, i) ==
    \E j \in DOMAIN Mounts(spec) :
        i < j /\ (i <= Len(spec.inputs) => j <= Len(spec.inputs)) /\ PathOverlap(Mounts(spec)[i].path, Mounts(spec)[j].path)
Overlaps(spec, i) == \E j \in DOMAIN Mounts(spec) : i < j /\ PathOverlap(Mounts(spec)[i].path, Mounts(spec)[j].path)

MountFault(spec, i) ==
    LET m == Mounts(spec)[i]
        good == IF i <= Len(spec.inputs) THEN GoodInputTags(m.tags) ELSE SystemTags(m.tags) = {}
    IN  IF ~AbsoluteAndClean(m.path) THEN "bad path"
        ELSE IF ~good THEN "bad tag" ELSE IF Overlaps(spec, i) THEN "overlap" ELSE "valid"

\* What is wrong with a request, in the order it is looked for: mount by mount,
\* after all that have no path.
Verdict(p) ==
    LET spec == Normal(p)
        bad == {i \in DOMAIN Mounts(spec) : MountFault(spec, i) # "valid"}
    IN  IF p.image = "" THEN "nameless"
        ELSE IF p.inputs = <<>> THEN "unreachable"
        ELSE IF \E i \in DOMAIN Mounts(p) : Mounts(p)[i].path = <<>> THEN "bad path"
        ELSE IF bad # {} THEN MountFault(spec, CHOOSE i \in bad : \A j \in bad : i <= j)
        ELSE IF \E tags \in p.log : SystemTags(tags) # {} THEN "bad tag" ELSE "valid"

-----------------------------------------------------------------------------
(* Equivalence *)

\* What is written to the hash, in a row; SHA256 is taken to be injective.
Hash(spec) ==
    LET ofMount(m) == <<m.path, m.tags>>
        row(mounts) == [i \in DOMAIN mounts |-> ofMount(mounts[i])]
    IN  <<spec.image, spec.onNode, row(spec.inputs), row(spec.outputs), spec.log, FlattenSeq(spec.args)>>

\* SliceContentEqWith: the same elements as often, in any order.
SameBag(s, t) ==
    /\ Len(s) = Len(t)
    /\ \A x \in Range(s) \cup Range(t) :
           Len(SelectSeq(s, LAMBDA y : y = x)) = Len(SelectSeq(t, LAMBDA y : y = x))

EquivPlan(spec, plan) ==
    /\ Hash(spec) = Hash(plan) /\ spec.image = plan.image /\ spec.log = plan.log
    /\ SameBag(spec.inputs, plan.inputs) /\ SameBag(spec.outputs, plan.outputs)
    /\ SameBag(spec.args, plan.args)

-----------------------------------------------------------------------------

Reply(p, verdict, at) == asked' = asked + 1 /\ answer' = [param |-> p, verdict |-> verdict, at |-> at]

Refuse(p) == Verdict(p) # "valid" /\ Reply(p, Verdict(p), 0) /\ UNCHANGED stored

\* One transaction, and the lock of the table "plan" for itself.
Conflict(p) ==
    /\ Verdict(p) = "valid"
    /\ \E i \in DOMAIN stored : EquivPlan(Normal(p), stored[i]) /\ Reply(p, "equivalent", i)
    /\ UNCHANGED stored

IsNew(p) == Verdict(p) = "valid" /\ \A i \in DOMAIN stored : ~EquivPlan(Normal(p), stored[i])

\* A node that is named twice breaks the primary key of "plan_on_node".
Repeats(nodes) == \E i, j \in DOMAIN nodes : i # j /\ nodes[i] = nodes[j]
Rollback(p) == IsNew(p) /\ Repeats(p.onNode) /\ Reply(p, "failed", 0) /\ UNCHANGED stored

RegisterPlan(p) ==
    /\ IsNew(p) /\ ~Repeats(p.onNode)
    /\ stored' = Append(stored, Normal(p)) /\ Reply(p, "registered", Len(stored'))

Post(p) == Refuse(p) \/ Conflict(p) \/ Rollback(p) \/ RegisterPlan(p)
RequestsNext == asked < MaxRequests /\ \E p \in Param : Post(p)
RequestsBehavior == RequestsInit /\ [][RequestsNext]_requestVars

-----------------------------------------------------------------------------
(* Properties *)

\* A directory lies in itself and in those that are named on the way to it.
Inside(a, b) == a = b \/ \E i \in DOMAIN a : a[i] = Slash /\ b = IF i = 1 THEN <<Slash>> ELSE SubSeq(a, 1, i - 1)

\* The same request but for the order of its mounts and nodes and for a slash
\* at the end of a path.
Essence(p) ==
    LET mounts(ms) == {Trimmed(ms[i]) : i \in DOMAIN ms}
    IN  <<p.image, mounts(p.inputs), mounts(p.outputs), p.log, p.args, {p.onNode[i] : i \in DOMAIN p.onNode}>>

\* No mount of a plan lies in another of the same plan: a worker would see one
\* volume through the other (validate).
MountsApart ==
    \A n \in DOMAIN stored : LET ms == Mounts(stored[n])
                             IN  \A i, j \in DOMAIN ms : Inside(ms[i].path, ms[j].path) => i = j

\* Never are there two plans that are the same in all that users write: their
\* hashes are equal, however the request was put (Hash, EquivPlan).  That holds
\* only as PathOverlap refuses more than it says: paths are sorted with the slash
\* that is trimmed then, and "/a/" comes after "/a-", which "/a" comes before.
NoTwins == \A i, j \in DOMAIN stored : Essence(stored[i]) = Essence(stored[j]) => i = j

\* "there are equiverent plan" is answered for a plan that is the same.
OnlyTwinsRefused == answer.verdict = "equivalent" => Essence(answer.param) = Essence(stored[answer.at])

\* "some mountpoint is subpath of other mountpoint" is answered if one is.
OverlapIsReal ==
    answer.verdict = "overlap" =>
        LET ms == Mounts(Normal(answer.param))
        IN  \E i, j \in DOMAIN ms : i # j /\ Inside(ms[i].path, ms[j].path)
=============================================================================
