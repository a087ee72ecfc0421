--------------------------- MODULE ClusterPromise ---------------------------
(***************************************************************************)
(* New* and Get* of the cluster: an object of Kubernetes is made or found, *)
(* and polled in the background until it meets what is required of it.     *)
(* The promise that comes of it carries a value, which the caller may      *)
(* close to have the object deleted, or an error, or both.                 *)
(***************************************************************************)
EXTENDS Naturals

CONSTANTS
    Kinds,      \* of objects that are asked for
    MaxLost     \* bound: refused requests, lost answers, objects that vanish

VARIABLES
    obj,    \* the object under the name that is asked for: who made it, how far it is
    call,   \* the call and its promise, with the stages it saw before it polled on
    done,   \* the context of the caller has ended
    late,   \* the deadline of the checkpoint has passed
    lost

promiseVars == <<obj, call, done, late, lost>>

ClusterPromiseAssumption ==
    Kinds \subseteq {"service", "deployment", "pvc", "job", "pod"} /\ MaxLost \in Nat

Stage == {"new", "pending", "unknown", "ready", "broken"}
Nothing == [by |-> "none", stage |-> "new"]
NoCall == [at |-> "idle", kind |-> "-", verb |-> "-", value |-> "none", err |-> "none", met |-> FALSE, saw |-> {}]

PromiseTypeOK ==
    /\ obj \in [by : {"none", "us", "other"}, stage : Stage]
    /\ call \in [at : {"idle", "poll", "over", "closed", "panicked"}, kind : Kinds \cup {"-"},
                 verb : {"-", "new", "get"}, value : {"none", "open", "stuck"},
                 err : {"none", "context", "conflict", "missing", "request", "deadline", "failed"},
                 met : BOOLEAN, saw : SUBSET Stage]
    /\ done \in BOOLEAN /\ late \in BOOLEAN /\ lost \in 0..MaxLost

PromiseInit ==
    /\ obj \in {Nothing} \cup [by : {"other"}, stage : Stage]
    /\ call = NoCall /\ done = FALSE /\ late = FALSE /\ lost = 0

Loss == lost < MaxLost /\ lost' = lost + 1

-----------------------------------------------------------------------------
(* Requirements *)

Again == "again"

\* PodHasBeenPending
Pended == {"pending", "ready", "broken"}

\* Mutant: what was satisfied once is asked for again.
WithCheckpoint_Forgets(met, stage) ==
    IF late THEN "deadline" ELSE IF stage \in Pended THEN "none" ELSE Again
\* A requirement that is to be met once, before a deadline.
WithCheckpoint(met, stage) ==
    IF met THEN "none" ELSE IF late THEN "deadline" ELSE IF stage \in Pended THEN "none" ELSE Again

\* satisfyAll: the first requirement that is not met decides.  The pod of a data
\* agent has a checkpoint, and fails for a warning; a Job is fine as it is; the
\* others are awaited.
Met(kind, met, stage) == met \/ (kind = "pod" /\ WithCheckpoint(met, stage) = "none")
SatisfyAll(kind, met, stage) ==
    IF kind = "job" THEN "none"
    ELSE IF kind = "pod" /\ WithCheckpoint(met, stage) # "none" THEN WithCheckpoint(met, stage)
    ELSE IF kind = "pod" /\ stage = "broken" THEN "failed"
    ELSE IF stage = "ready" THEN "none" ELSE Again

-----------------------------------------------------------------------------
(* Calls *)

Over(c, value, err) == call' = [c EXCEPT !.at = "over", !.value = value, !.err = err]

\* New*.  Services, deployments and volumes are looked at as they are created;
\* a deployment that is ready then has no function to close it with.
\* Mutant: what it is asked to wait for is handed out as an error.
Created_AtOnce(c, stage) == Over(c, "open", SatisfyAll(c.kind, FALSE, stage))
Created(c, stage) ==
    LET err == SatisfyAll(c.kind, FALSE, stage)
    IN IF c.kind \in {"job", "pod"} \/ err = Again THEN call' = [c EXCEPT !.at = "poll"]
       ELSE Over(c, IF c.kind = "deployment" THEN "stuck" ELSE "open", err)

\* Mutant: the object of another is taken for one's own.
Exists_Taken(c) == Over(c, "open", "none")
Exists(c) == Over(c, "none", "conflict")

NewObject(kind) ==
    LET c == [NoCall EXCEPT !.kind = kind, !.verb = "new"]
    IN /\ call.at = "idle"
       /\ \/ done /\ Over(c, "none", "context") /\ UNCHANGED <<obj, lost>>
          \/ ~done /\ obj.by # "none" /\ Exists(c) /\ UNCHANGED <<obj, lost>>
          \/ /\ ~done /\ obj.by = "none" /\ UNCHANGED lost
             /\ \E s \in {"new", "ready"} : obj' = [by |-> "us", stage |-> s] /\ Created(c, s)
          \/ /\ ~done /\ Loss /\ Over(c, "none", "request")
             /\ obj' = obj \/ (obj.by = "none" /\ obj' = [by |-> "us", stage |-> "new"])
       /\ UNCHANGED <<done, late>>

GetObject(kind) ==
    /\ call.at = "idle" /\ kind \in {"pvc", "job", "pod"}
    /\ call' = [NoCall EXCEPT !.kind = kind, !.verb = "get", !.at = "poll"]
    /\ UNCHANGED <<obj, done, late, lost>>

\* Blocking: the backoff ends with the context, with what the last look gave;
\* if the context ends just after, the request fails instead.
\* Mutant: the backoff goes on whatever the context.
Backoff_Deaf == FALSE
Backoff == done

\* Only Get* tells what is missing; services and deployments have the error as it came.
Absent == IF call.kind \in {"service", "deployment"} THEN "request" ELSE "missing"

Poll ==
    /\ call.at = "poll"
    /\ \/ Backoff /\ \E v \in {call.value, "open"} : Over(call, v, "context") /\ UNCHANGED lost
       \/ ~Backoff /\ obj.by = "none" /\ Over(call, "open", Absent) /\ UNCHANGED lost
       \/ /\ ~Backoff /\ obj.by # "none" /\ UNCHANGED lost
          /\ LET err == SatisfyAll(call.kind, call.met, obj.stage)
                 c   == [call EXCEPT !.value = "open", !.met = Met(call.kind, @, obj.stage)]
             IN IF err = Again THEN call' = [c EXCEPT !.saw = @ \cup {obj.stage}] ELSE Over(c, "open", err)
    /\ UNCHANGED <<obj, done, late>>

PollFails ==
    /\ call.at = "poll" /\ ~Backoff /\ Loss /\ Over(call, "open", "request")
    /\ UNCHANGED <<obj, done, late>>

\* The caller closes what it was given, if it was given something.
Close ==
    /\ call.at = "over" /\ call.value # "none"
    /\ IF call.value = "stuck" THEN call' = [call EXCEPT !.at = "panicked"] /\ UNCHANGED obj
       ELSE call' = [call EXCEPT !.at = "closed"] /\ obj' = Nothing
    /\ UNCHANGED <<done, late, lost>>

-----------------------------------------------------------------------------
(* Kubernetes and time *)

Move ==
    /\ obj.by # "none"
    /\ \E s \in CASE obj.stage = "new" -> {"pending"}
                  [] obj.stage = "pending" -> {"ready", "broken", "unknown"}
                  [] obj.stage = "ready" -> {"unknown"}
                  [] obj.stage = "unknown" -> {"pending"}
                  [] OTHER -> {} : obj' = [obj EXCEPT !.stage = s]
    /\ UNCHANGED <<call, done, late, lost>>

\* Another deletes the object.
ObjectVanishes == obj.by # "none" /\ Loss /\ obj' = Nothing /\ UNCHANGED <<call, done, late>>

CtxEnds == ~done /\ done' = TRUE /\ UNCHANGED <<obj, call, late, lost>>
DeadlinePasses == ~late /\ late' = TRUE /\ UNCHANGED <<obj, call, done, lost>>

PromiseNext ==
    \/ \E k \in Kinds : NewObject(k) \/ GetObject(k)
    \/ Poll \/ PollFails \/ Close \/ Move \/ ObjectVanishes \/ CtxEnds \/ DeadlinePasses

PromiseSpec == PromiseInit /\ [][PromiseNext]_promiseVars

-----------------------------------------------------------------------------
(* Properties *)

\* A caller that asked for a new object, and closes whatever its promise carries,
\* deletes nobody else's (cluster.go:1170, NewConflictCausedBy).
OthersStay == [][obj.by = "other" /\ obj' = Nothing => call.verb = "get" \/ UNCHANGED call]_promiseVars

\* The deadline of a checkpoint is not for a pod that was seen past it, even if it
\* has fallen back since (cluster.go:983, WithCheckpoint).
DeadlineIsForUnmet == call.err = "deadline" => call.saw \cap Pended = {}

\* The two, and types.
PromisesAreHonest == [](PromiseTypeOK /\ DeadlineIsForUnmet) /\ OthersStay

\* cluster.go:703 and the like: "Whether or not the Promise has Error, service can
\* be created. So, you may need to Close() it."
CreatedCanBeClosed == call.at = "over" /\ call.verb = "new" /\ obj.by = "us" => call.value # "none"

\* cluster.go:697: ErrMissing says that the object is missing before it meets its
\* requirements: with a context that lives and no request refused, nothing else is said.
MissingIsTold == call.at = "over" /\ call.err = "request" => obj.by # "none" \/ call.value = "none"

\* cluster.go:252: Close is there to release resources.
CloseReleases == call.at # "panicked"
=============================================================================
