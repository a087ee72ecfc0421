------------------------------- MODULE Uploads -------------------------------
(***************************************************************************)
(* Uploads, downloads and imports: the handlers of knitd_backend, the data *)
(* agents (pods) that they spawn, and the loops that clean up after them.  *)
(* An upload has a run and one output; a handler writes it or reads it     *)
(* through an agent of its own.                                            *)
(*                                                                         *)
(* Time: a deadline may pass at any moment, but the handler's own deadline *)
(* passes before the one that it stored in the database                    *)
(* (cmd/knitd_backend/handlers/data.go:140).                               *)
(***************************************************************************)
EXTENDS RunStatus, Naturals

CONSTANTS
    Upload,    \* handlers of PostData, each named as the data it writes
    Import,    \* data made by the two import handlers
    Reader,    \* handlers of GetData
    Source,    \* [Reader -> Upload], the data that each one reads
    LoseEvents, \* may the listing of a pod's events be empty?
    MaxCrashes  \* bound: how many handlers and loops crash

Data == Upload \cup Import
Handler == Upload \cup Reader

UploadsAssumption ==
    /\ Upload \cap Import = {} /\ Data \cap Reader = {}
    /\ Source \in [Reader -> Upload]
    /\ LoseEvents \in BOOLEAN /\ MaxCrashes \in Nat

VARIABLES
    status,  \* [Data -> status of its run, "none" before, "gone" after]
    kept,    \* data whose run is suspended (run.lifecycle_suspend_until)
    content, \* [Data -> what its volume holds, "none" if there is no PVC]
    doomed,  \* data whose PVC is to be deleted as soon as no pod uses it
    pc,      \* [Handler -> where the handler is]
    late,    \* handlers whose deadline has passed
    opened,  \* history: readers that began when the data was done
    met,     \* handlers that saw their pod before their deadline
    row,     \* handlers whose agent has a row in data_agent
    rest,    \* agents that housekeeping leaves alone for a while
    pod,     \* [Handler -> state of the agent's pod]
    mgr,     \* the run manager: its snapshot, the run it locked, its verdict
    hk,      \* housekeeping: the agent it locked and what it saw
    accepted, \* imports whose end was answered with 200
    crashes

handlerVars == <<pc, late, opened, met>>
agentVars == <<row, rest, pod>>
loopVars == <<mgr, hk>>
vars == <<status, kept, content, doomed, handlerVars, agentVars, loopVars, accepted, crashes>>

DataOf(h) == IF h \in Upload THEN h ELSE Source[h]

Nobody == "-" \* locked by no loop
Idle == [at |-> "idle", seen |-> {}, run |-> Nobody, to |-> "none"]
Rests == [at |-> "idle", agent |-> Nobody]

TypeOK ==
    /\ status \in [Data -> KnitRunStatus \cup {"none", "gone"}]
    /\ kept \subseteq Data /\ doomed \subseteq Data /\ accepted \subseteq Import
    /\ content \in [Data -> {"none", "empty", "partial", "whole"}]
    /\ pc \in [Handler -> {"idle", "run", "agent", "volume", "pod", "send", "stored", "refused",
                           "finish", "close", "remove", "abort", "fail", "end"}]
    /\ opened \subseteq Handler /\ late \subseteq Handler /\ met \subseteq Handler /\ row \subseteq Handler /\ rest \subseteq row
    /\ pod \in [Handler -> {"absent", "unscheduled", "pending", "stuck", "running",
                            "serving", "ended"}]
    /\ mgr.at \in {"idle", "lock", "commit"} /\ mgr.seen \subseteq Data
    /\ hk.at \in {"idle", "act", "drop", "keep", "panic"}
    /\ crashes \in 0..MaxCrashes

\* The row of the run is locked by the run manager: transactions on it wait.
Locked(d) == mgr.at = "commit" /\ mgr.run = d
\* The row of the agent is locked by housekeeping.
AgentLocked(h) == hk.at \in {"act", "drop", "keep"} /\ hk.agent = h

Goto(h, l) == pc' = [pc EXCEPT ![h] = l]

Init ==
    /\ status = [d \in Data |-> "none"] /\ content = [d \in Data |-> "none"]
    /\ kept = {} /\ doomed = {} /\ late = {} /\ opened = {} /\ met = {} /\ row = {} /\ rest = {}
    /\ pc = [h \in Handler |-> "idle"] /\ pod = [h \in Handler |-> "absent"]
    /\ mgr = Idle /\ hk = Rests /\ accepted = {} /\ crashes = 0

-----------------------------------------------------------------------------
(* PostData and GetData *)

\* PostData: a run of the pseudo plan, running, suspended till the deadline.
NewPseudo(d) ==
    /\ status[d] = "none" /\ status' = [status EXCEPT ![d] = "running"]
    /\ kept' = kept \cup {d}

Begin(h) ==
    /\ h \in Upload /\ pc[h] = "idle" /\ NewPseudo(h) /\ Goto(h, "run")
    /\ UNCHANGED <<content, doomed, late, opened, met, agentVars, loopVars, accepted, crashes>>

Suspend(h) == rest' = rest \cup {h}

\* The row of the agent.  Without data it is an error: for a reader, 404.
NewAgent(h) ==
    /\ pc[h] = IF h \in Upload THEN "run" ELSE "idle"
    /\ IF status[DataOf(h)] \in KnitRunStatus
       THEN row' = row \cup {h} /\ Suspend(h) /\ Goto(h, "agent")
       ELSE Goto(h, "end") /\ UNCHANGED <<row, rest>>
    /\ opened' = IF status[DataOf(h)] = "done" THEN opened \cup {h} ELSE opened
    /\ UNCHANGED <<status, kept, content, doomed, late, met, pod, loopVars, accepted, crashes>>

\* The abort that a handler of PostData that has not finished ends with.
Fail(h) == IF h \in Upload THEN "abort" ELSE "end"

\* Spawn asks for the volume, if it is to be written, and for the pod.
CreatePod(h) ==
    /\ pc[h] = "agent" /\ pod' = [pod EXCEPT ![h] = "unscheduled"] /\ Goto(h, "volume")
    /\ IF h \in Upload THEN content' = [content EXCEPT ![h] = "empty"] ELSE UNCHANGED content
    /\ UNCHANGED <<status, kept, doomed, late, opened, met, row, rest, loopVars, accepted, crashes>>

\* A request of Spawn is refused before there is a pod.
CannotCreate(h) ==
    /\ pc[h] = "agent" /\ Goto(h, Fail(h))
    /\ UNCHANGED <<status, kept, content, doomed, late, opened, met, agentVars, loopVars, accepted, crashes>>

\* The volume is bound.
WaitVolume(h) ==
    /\ pc[h] = "volume" /\ content[DataOf(h)] # "none" /\ Goto(h, "pod")
    /\ UNCHANGED <<status, kept, content, doomed, late, opened, met, agentVars, loopVars, accepted, crashes>>

\* Mutant: the deadline is not looked at.
Checkpoint_Always(h) ==
    /\ pc[h] \in {"volume", "pod"} /\ pod[h] # "absent" /\ h \notin met
    /\ met' = met \cup {h}
    /\ UNCHANGED <<status, kept, content, doomed, pc, late, opened, agentVars, loopVars, accepted, crashes>>

\* The checkpoint of the promise: the pod is there before the deadline.
Checkpoint(h) ==
    /\ pc[h] \in {"volume", "pod"} /\ pod[h] # "absent" /\ h \notin met \cup late
    /\ met' = met \cup {h}
    /\ UNCHANGED <<status, kept, content, doomed, pc, late, opened, agentVars, loopVars, accepted, crashes>>

\* The pod runs, or has run.
WaitPod(h) ==
    /\ pc[h] = "pod" /\ h \in met /\ pod[h] \in {"running", "ended"} /\ Goto(h, "send")
    /\ UNCHANGED <<status, kept, content, doomed, late, opened, met, agentVars, loopVars, accepted, crashes>>

\* Spawn gives up a volume that it got for writing.
GivesUpVolume(h) == pc[h] = "pod" /\ h \in Upload

\* Spawn fails: the deadline, a warning, a volume or pod that has gone, a
\* client that has left.  The pod of a failed promise is not closed.
CannotSpawn(h) ==
    /\ pc[h] \in {"volume", "pod"} /\ Goto(h, Fail(h))
    /\ doomed' = IF GivesUpVolume(h) THEN doomed \cup {DataOf(h)} ELSE doomed
    /\ UNCHANGED <<status, kept, content, late, opened, met, agentVars, loopVars, accepted, crashes>>

\* The request reaches the agent's server, which takes one.
Serve(h) ==
    /\ pc[h] = "send" /\ pod[h] = "running" /\ pod' = [pod EXCEPT ![h] = "serving"]
    /\ IF h \in Upload THEN content' = [content EXCEPT ![h] = "partial"] ELSE UNCHANGED content
    /\ UNCHANGED <<status, kept, doomed, handlerVars, row, rest, loopVars, accepted, crashes>>

\* A success is answered when everything has been written, and then the server stops.
Sent(h) ==
    /\ pc[h] = "send" /\ pod[h] = "serving" /\ pod' = [pod EXCEPT ![h] = "ended"]
    /\ IF h \in Upload
       THEN content' = [content EXCEPT ![h] = "whole"] /\ Goto(h, "stored")
       ELSE Goto(h, "close") /\ UNCHANGED content
    /\ UNCHANGED <<status, kept, doomed, late, opened, met, row, rest, loopVars, accepted, crashes>>

\* The agent refuses the request, after writing some of it or nothing.
Refused(h) ==
    /\ pc[h] = "send" /\ pod[h] = "serving" /\ pod' = [pod EXCEPT ![h] = "ended"]
    /\ Goto(h, IF h \in Upload THEN "refused" ELSE "close")
    /\ UNCHANGED <<status, kept, content, doomed, late, opened, met, row, rest, loopVars, accepted, crashes>>

\* The agent is not reached, or the connection is lost.
SendFails(h) ==
    /\ pc[h] = "send" /\ Goto(h, "close")
    /\ pod' = [pod EXCEPT ![h] = IF @ = "serving" THEN "ended" ELSE @]
    /\ UNCHANGED <<status, kept, content, doomed, late, opened, met, row, rest, loopVars, accepted, crashes>>

\* Mutant: a run that is stopping may change its mind.
Accepts_Stopping(st, new) == st = new \/ st \in {"running", "completing", "aborting"}
\* What SetStatus makes of a run that is asked to stop.
Accepts(st, new) == st = new \/ new \in NextStatuses[st] \ Finished

\* Mutant: any answer of the agent completes the run.
Verdict_Done(h) == "completing"
\* The status that the agent's answer calls for.
Verdict(h) == IF pc[h] = "stored" THEN "completing" ELSE "aborting"

\* SetStatus, and the error that it may be, of a client that has left too.
Report(h) ==
    /\ pc[h] \in {"stored", "refused"} /\ ~ Locked(h)
    /\ \/ /\ status[h] \in KnitRunStatus /\ Accepts(status[h], Verdict(h))
          /\ status' = [status EXCEPT ![h] = Verdict(h)] /\ Goto(h, "finish") /\ kept' = kept \ {h}
       \/ Goto(h, "close") /\ UNCHANGED <<status, kept>>
    /\ UNCHANGED <<content, doomed, late, opened, met, agentVars, loopVars, accepted, crashes>>

\* Finish of a run that is still stopping.
FinishRun(d) ==
    /\ status[d] \in {"completing", "aborting"}
    /\ status' = [status EXCEPT ![d] = FinishedStatus(@)] /\ kept' = kept \ {d}

\* An error, as when the finishing loop was faster, changes nothing.
FinishOrError(d) == FinishRun(d) \/ UNCHANGED <<status, kept>>

FinishUpload(h) ==
    /\ pc[h] = "finish" /\ ~ Locked(h) /\ Goto(h, "close")
    /\ FinishOrError(h)
    /\ UNCHANGED <<content, doomed, late, opened, met, agentVars, loopVars, accepted, crashes>>

\* The agent's pod is closed; if that is an error its row is left.
ClosePod(h) ==
    /\ pc[h] = "close"
    /\ Goto(h, IF pod[h] # "absent" THEN "remove" ELSE Fail(h))
    /\ pod' = [pod EXCEPT ![h] = "absent"]
    /\ UNCHANGED <<status, kept, content, doomed, late, opened, met, row, rest, loopVars, accepted, crashes>>

\* Mutant: the row is removed, and whatever waits for it is not told.
RemoveAgent_Half(h) ==
    /\ pc[h] = "remove" /\ ~ AgentLocked(h) /\ Goto(h, Fail(h)) /\ row' = row \ {h}
    /\ UNCHANGED <<status, kept, content, doomed, late, opened, met, rest, pod, loopVars, accepted, crashes>>

\* The context is the client's: if it has left the row stays.
RemoveAgent(h) ==
    /\ pc[h] = "remove" /\ ~ AgentLocked(h) /\ Goto(h, Fail(h))
    /\ \/ row' = row \ {h} /\ rest' = rest \ {h}
       \/ UNCHANGED <<row, rest>>
    /\ UNCHANGED <<status, kept, content, doomed, late, opened, met, pod, loopVars, accepted, crashes>>

\* The deferred SetStatus(aborting).  After a success it is not asked for,
\* and it is refused when the run has stopped already.
Abort(h) ==
    /\ pc[h] = "abort" /\ ~ Locked(h) /\ Goto(h, "fail")
    /\ IF status[h] = "running"
       THEN status' = [status EXCEPT ![h] = "aborting"] /\ kept' = kept \ {h}
       ELSE UNCHANGED <<status, kept>>
    /\ UNCHANGED <<content, doomed, late, opened, met, agentVars, loopVars, accepted, crashes>>

AbortFinish(h) ==
    /\ pc[h] = "fail" /\ ~ Locked(h) /\ Goto(h, "end")
    /\ FinishOrError(h)
    /\ UNCHANGED <<content, doomed, late, opened, met, agentVars, loopVars, accepted, crashes>>

HandlerStep(h) ==
    \/ Begin(h) \/ NewAgent(h) \/ CreatePod(h) \/ CannotCreate(h) \/ WaitVolume(h) \/ Checkpoint(h)
    \/ WaitPod(h) \/ CannotSpawn(h) \/ Serve(h) \/ Sent(h) \/ Refused(h) \/ SendFails(h)
    \/ Report(h) \/ FinishUpload(h)
    \/ ClosePod(h) \/ RemoveAgent(h) \/ Abort(h) \/ AbortFinish(h)
-----------------------------------------------------------------------------
(* Imports *)

BeginImport(d) ==
    /\ d \in Import /\ NewPseudo(d)
    /\ UNCHANGED <<content, doomed, handlerVars, agentVars, loopVars, accepted, crashes>>

\* The user makes a volume of the name in the token and fills it.
FillVolume(d) ==
    /\ d \in Import /\ status[d] = "running" /\ content[d] = "none"
    /\ content' = [content EXCEPT ![d] = "whole"]
    /\ UNCHANGED <<status, kept, doomed, handlerVars, agentVars, loopVars, accepted, crashes>>

\* Mutant: that the run cannot be completed any more is no error.
EndImport_Deaf(d) ==
    /\ d \in Import /\ status[d] \in KnitRunStatus /\ content[d] # "none" /\ ~ Locked(d)
    /\ status' = [status EXCEPT ![d] = IF Accepts(@, "completing") THEN "completing" ELSE @]
    /\ kept' = kept \ {d} /\ accepted' = accepted \cup {d}
    /\ UNCHANGED <<content, doomed, handlerVars, agentVars, loopVars, crashes>>

\* The volume is bound, and the run may still be completed.
EndImport(d) ==
    /\ d \in Import /\ status[d] \in KnitRunStatus /\ content[d] # "none" /\ ~ Locked(d)
    /\ Accepts(status[d], "completing")
    /\ status' = [status EXCEPT ![d] = "completing"] /\ kept' = kept \ {d}
    /\ accepted' = accepted \cup {d}
    /\ UNCHANGED <<content, doomed, handlerVars, agentVars, loopVars, crashes>>

-----------------------------------------------------------------------------
(* The loops *)

\* run_management: runs that are running and no longer suspended.
Select ==
    /\ mgr.at = "idle" /\ \E d \in Data : status[d] = "running" /\ d \notin kept
    /\ mgr' = [mgr EXCEPT !.at = "lock", !.seen = {d \in Data : status[d] = "running" /\ d \notin kept}]
    /\ UNCHANGED <<status, kept, content, doomed, handlerVars, agentVars, hk, accepted, crashes>>

\* Mutant: an upload is left to its handler.
Manage_Patient(d) ==
    IF d \in Import /\ status[d] = "running" THEN "aborting" ELSE status[d]
\* The managers of imports and of uploads: an import has run out of time; an
\* upload goes on as long as somebody writes it.
Manage(d) ==
    IF d \in Import
    THEN IF status[d] = "running" THEN "aborting" ELSE status[d]
    ELSE IF d \in row THEN status[d] ELSE "aborting"

\* The run is locked, which its snapshot may be too old for, and looked at.
Lock(d) ==
    /\ mgr.at = "lock" /\ d \in mgr.seen
    /\ mgr' = IF status[d] \in KnitRunStatus
              THEN [at |-> "commit", seen |-> {}, run |-> d, to |-> Manage(d)]
              ELSE Idle
    /\ UNCHANGED <<status, kept, content, doomed, handlerVars, agentVars, hk, accepted, crashes>>

\* setStatus; a change that is not accepted is rolled back.
Commit ==
    LET d == mgr.run
    IN  /\ mgr.at = "commit" /\ mgr' = Idle
        /\ \/ /\ mgr.to = status[d] /\ status[d] \notin Finished \cup {"invalidated"}
              /\ kept' = kept \cup {d} /\ UNCHANGED status
           \/ /\ mgr.to # status[d] /\ mgr.to \in NextStatuses[status[d]]
              /\ status' = [status EXCEPT ![d] = mgr.to] /\ kept' = kept \ {d}
           \/ /\ ~ Accepts(status[d], mgr.to) \/ status[d] \in Finished \cup {"invalidated"}
              /\ UNCHANGED <<status, kept>>
        /\ UNCHANGED <<content, doomed, handlerVars, agentVars, hk, accepted, crashes>>

\* finishing: pseudo runs have no worker to clean up.
Finishing(d) ==
    /\ d \notin kept /\ ~ Locked(d) /\ FinishRun(d)
    /\ UNCHANGED <<content, doomed, handlerVars, agentVars, loopVars, accepted, crashes>>

\* PodPhase, and what housekeeping does about it.  A pod that is scheduled and
\* has no events is more than it can handle.
PodPhase(h) ==
    CASE pod[h] \in {"stuck", "ended"} -> {"act"}
      [] pod[h] = "pending" /\ LoseEvents -> {"keep", "panic"}
      [] OTHER -> {"keep"}

\* Mutant: an agent without a pod is waited for, as it may be on its way.
Look_Waits(h) == IF pod[h] = "absent" THEN {"keep"} ELSE PodPhase(h)
\* FindDataAgent: without its pod or its volume the agent is missing.
Look(h) ==
    IF pod[h] = "absent" \/ content[DataOf(h)] = "none" THEN {"drop"} ELSE PodPhase(h)

\* PickAndRemoveAgent: an agent that is no longer suspended is locked.
Pick(h) ==
    /\ hk.at = "idle" /\ h \in row \ rest
    /\ \E l \in Look(h) : hk' = [at |-> l, agent |-> h]
    /\ UNCHANGED <<status, kept, content, doomed, handlerVars, agentVars, mgr, accepted, crashes>>

\* Its pod is closed; that is an error if somebody else was faster.
Close ==
    /\ hk.at = "act" /\ pod' = [pod EXCEPT ![hk.agent] = "absent"]
    /\ hk' = [hk EXCEPT !.at = IF pod[hk.agent] = "absent" THEN "keep" ELSE "drop"]
    /\ UNCHANGED <<status, kept, content, doomed, handlerVars, row, rest, mgr, accepted, crashes>>

\* The row is deleted, or suspended for another while.
Keep ==
    /\ hk.at \in {"drop", "keep"} /\ hk' = Rests
    /\ IF hk.at = "drop"
       THEN row' = row \ {hk.agent} /\ rest' = rest \ {hk.agent}
       ELSE rest' = rest \cup {hk.agent} /\ UNCHANGED row
    /\ UNCHANGED <<status, kept, content, doomed, handlerVars, pod, mgr, accepted, crashes>>

\* The process is restarted after a panic.
Restart ==
    /\ hk.at = "panic" /\ hk' = Rests
    /\ UNCHANGED <<status, kept, content, doomed, handlerVars, agentVars, mgr, accepted, crashes>>

-----------------------------------------------------------------------------
(* Users, time, the cluster and crashes *)

\* A finished run is deleted when nobody uses its data, its volume is garbage.
Delete(d) ==
    /\ status[d] \in Finished /\ ~ Locked(d) /\ \A h \in row : DataOf(h) # d
    /\ status' = [status EXCEPT ![d] = "gone"] /\ kept' = kept \ {d}
    /\ doomed' = doomed \cup {d}
    /\ UNCHANGED <<content, handlerVars, agentVars, loopVars, accepted, crashes>>

Late(h) ==
    /\ pc[h] # "idle" /\ h \notin late /\ late' = late \cup {h}
    /\ UNCHANGED <<status, kept, content, doomed, pc, opened, met, agentVars, loopVars, accepted, crashes>>

RunRested(d) ==
    /\ d \in kept /\ (d \in Upload => d \in late) /\ kept' = kept \ {d}
    /\ UNCHANGED <<status, content, doomed, handlerVars, agentVars, loopVars, accepted, crashes>>

AgentRested(h) ==
    /\ h \in rest \cap late /\ rest' = rest \ {h} /\ ~ AgentLocked(h)
    /\ UNCHANGED <<status, kept, content, doomed, handlerVars, row, pod, loopVars, accepted, crashes>>

\* A pod moves on its own; the agent's server stops when no request has come
\* for three minutes.
PodStep(h) ==
    /\ \/ /\ pod[h] = "unscheduled" /\ content[DataOf(h)] # "none" /\ DataOf(h) \notin doomed
          /\ pod' = [pod EXCEPT ![h] = "pending"]
       \/ pod[h] = "pending" /\ \E p \in {"stuck", "running"} : pod' = [pod EXCEPT ![h] = p]
       \/ pod[h] = "stuck" /\ pod' = [pod EXCEPT ![h] = "running"]
       \/ pod[h] \in {"running", "serving"} /\ pod' = [pod EXCEPT ![h] = "ended"]
    /\ UNCHANGED <<status, kept, content, doomed, handlerVars, row, rest, loopVars, accepted, crashes>>

\* A volume that is to be deleted goes when no pod that is scheduled uses it.
VolumeGone(d) ==
    /\ d \in doomed
    /\ \A h \in Handler : DataOf(h) = d => pod[h] \in {"absent", "unscheduled", "ended"}
    /\ doomed' = doomed \ {d} /\ content' = [content EXCEPT ![d] = "none"]
    /\ UNCHANGED <<status, kept, handlerVars, agentVars, loopVars, accepted, crashes>>

Crash ==
    /\ crashes < MaxCrashes /\ crashes' = crashes + 1
    /\ \/ \E h \in Handler : /\ pc[h] \notin {"idle", "end"} /\ Goto(h, "end")
                            /\ pod' = [pod EXCEPT ![h] = IF @ = "serving" THEN "ended" ELSE @]
                            /\ UNCHANGED loopVars
       \/ mgr.at # "idle" /\ mgr' = Idle /\ UNCHANGED <<pc, pod, hk>>
       \/ hk.at # "idle" /\ hk' = Rests /\ UNCHANGED <<pc, pod, mgr>>
    /\ UNCHANGED <<status, kept, content, doomed, late, opened, met, row, rest, accepted>>

Next ==
    \/ \E h \in Handler : HandlerStep(h) \/ Pick(h) \/ Late(h) \/ AgentRested(h) \/ PodStep(h)
    \/ \E d \in Data :
          \/ BeginImport(d) \/ FillVolume(d) \/ EndImport(d) \/ Lock(d) \/ Finishing(d)
          \/ Delete(d) \/ RunRested(d) \/ VolumeGone(d)
    \/ Select \/ Commit \/ Close \/ Keep \/ Restart \/ Crash

Spec == Init /\ [][Next]_vars

-----------------------------------------------------------------------------
(* Properties *)

\* Uploaded data is done only when all of it was written, however handler,
\* loops and crashes interleave, and it stays so until the run is deleted.
DoneIsWhole ==
    \A d \in Upload : status[d] = "done" => content[d] = "whole" /\ d \notin doomed

\* The run of done data that is being read is not deleted: the row of the
\* agent protects it even when the handler is slow or has crashed, since
\* housekeeping does not take a row away whose agent is still going to serve.
DataInUseStays ==
    \A h \in opened : pod[h] = "serving" => status[DataOf(h)] = "done"

\* An import whose end was answered with success is not aborted by the
\* manager that found it out of time.
AcceptedImportStays ==
    \A d \in accepted : status[d] \in {"completing", "done", "gone"}

\* What users may rely on: uploaded data is done only when all of it was
\* written, is not deleted while it is read, and no import that was answered
\* with success is aborted, whoever dies and whichever deadline passes.
DataIsSafe == TypeOK /\ DoneIsWhole /\ DataInUseStays /\ AcceptedImportStays

\* Uploads and imports live as runs without workers (RunLifecycle).
Lifecycle == INSTANCE RunLifecycle WITH Run <- Data, worker <- {}
ImplementsLifecycle == Lifecycle!Spec

\* "Whether or not the Promise has Error, Pod can be created.  So, you may
\* need to Close() it." (pkg/domain/knitfab/k8s/cluster/cluster.go:897): a pod
\* is accounted for by its handler or by a row that housekeeping will find.
PodsAreAccountedFor ==
    \A h \in Handler : pod[h] # "absent" => h \in row \/ pc[h] \notin {"abort", "fail", "end"}

\* "error is ignored because it is not critical." of the listing of a pod's
\* events (cluster.go:1367): housekeeping survives without them.
SurvivesWithoutEvents == hk.at # "panic"
=============================================================================
