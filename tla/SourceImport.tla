---------------------------- MODULE SourceImport ----------------------------
(***************************************************************************)
(* The import of one cloud source: the operator walks a pipeline of        *)
(* Kubernetes Jobs, keeps a row per stage in orchestration_stage and       *)
(* learns from the digests workers write into the status of the            *)
(* NgkgSourceImport where it stands.                                       *)
(*                                                                         *)
(* A reconciliation is a sequence of calls to the API server and to the    *)
(* catalog; Jobs, the TTL controller and crashes interleave with them.     *)
(* One operator runs and serialises the reconciliations of an import.      *)
(* Nobody else writes stage rows, so reading a Job and writing its row is  *)
(* one step, except after creating a Job, where a crash leaves a Job whose *)
(* row does not say RUNNING.  A reconciliation that returns always runs    *)
(* again: it is requeued, or the event it waits for wakes it.              *)
(***************************************************************************)
EXTENDS Naturals, FiniteSets

CONSTANTS
    Activation,       \* the number of stages, and the last of them
    Roots,            \* the last stage of each phase
    Awaited,          \* stages inside a phase whose digest the next one needs
    Collectable,      \* outcomes whose Jobs the TTL controller deletes
    MaxCollections,   \* bound on the Jobs it deletes
    MaxFaults         \* bound on failed Jobs and operator crashes

ASSUME CollectableAssumption == Collectable \subseteq {"complete", "failed"}
ASSUME BoundsAssumption == MaxCollections \in Nat /\ MaxFaults \in Nat

\* The source's pipeline has fourteen stages in six phases:
\*   1 source-import (discovery);
\*   2 source-decode, 3 source-decode-finalize;
\*   4 semantic-map, 5 semantic-dictionary, 6 semantic-partition, 7 semantic-finalize;
\*   8 ontology-project, 9 ontology-assemble, 10 ontology-qualify;
\*   11 offline-plan, 12 offline-partition, 13 offline-finalize;
\*   14 snapshot-activation.
\* The worker of a phase's last stage writes a digest (decode plan, compiler
\* handoff, semantic root, qualification root, offline root, activation
\* manifest) that selects the next phase; 5, 9 and 11 write one inside theirs.
Discovery == 1
Stages == Discovery .. Activation

ASSUME PipelineAssumption ==
    /\ Activation \in Nat
    /\ Roots \subseteq Stages /\ Discovery \in Roots /\ Activation \in Roots
    /\ Awaited \subseteq Stages \ Roots

VARIABLES
    row,           \* orchestration_stage.state of each stage
    job,           \* its Job
    late,          \* stages whose Job is deleted and whose pods may yet publish
    published,     \* stages whose output, and digest if any, is durable
    seen,          \* the part of published in the operator's copy of the status
    at,            \* where the running reconciliation stands
    import,        \* "live", "deleting" or "gone"
    doomed,        \* Jobs listed by the cleanup and not deleted yet
    collections,
    faults

cluster == <<job, late, published>>
operator == <<seen, at, doomed>>
bounds == <<collections, faults>>
vars == <<row, cluster, operator, import, bounds>>

Idle == [step |-> "idle", stage |-> 0]
At(step, n) == at = [step |-> step, stage |-> n]
Goto(step, n) == at' = [step |-> step, stage |-> n]
Return == at' = Idle

Init ==
    /\ row = [n \in Stages |-> "ABSENT"]
    /\ job = [n \in Stages |-> "none"]
    /\ late = {}
    /\ published = {}
    /\ seen = {}
    /\ at = Idle
    /\ import = "live"
    /\ doomed = {}
    /\ collections = 0
    /\ faults = 0

-----------------------------------------------------------------------------
(* Reconciliation                                                          *)

\* n is the first stage of the phase after the last root the operator has seen.
FirstStage(n) ==
    /\ n = Discovery \/ n - 1 \in Roots \cap seen
    /\ \A m \in Roots \cap seen : m < n

\* Every reconciliation of a phase starts over with its first stage; once the
\* activation is seen there is none.
reconcile_import_apply(n) ==
    /\ import = "live"
    /\ at = Idle
    /\ FirstStage(n)
    /\ Goto(IF n = Discovery THEN "inspect" ELSE "reserve", n)
    /\ UNCHANGED <<row, cluster, seen, import, doomed, bounds>>

\* Mutant: the Job is looked at whatever the row says.
reserve_ignoring_row(n) ==
    /\ At("reserve", n)
    /\ row' = [row EXCEPT ![n] = IF @ = "ABSENT" THEN "RESERVED" ELSE @]
    /\ Goto("inspect", n)
    /\ UNCHANGED <<cluster, seen, import, doomed, bounds>>

\* Mutant: nothing is left to do after a stage that has succeeded.
reserve_returns_when_done(n) ==
    /\ At("reserve", n)
    /\ row' = [row EXCEPT ![n] = IF @ = "ABSENT" THEN "RESERVED" ELSE @]
    /\ IF row[n] = "SUCCEEDED" THEN Return ELSE Goto("inspect", n)
    /\ UNCHANGED <<cluster, seen, import, doomed, bounds>>

\* A SUCCEEDED stage is not looked at again by ensure_cloud_stage_job.
reserve_orchestration_stage(n) ==
    /\ At("reserve", n)
    /\ row' = [row EXCEPT ![n] = IF @ = "ABSENT" THEN "RESERVED" ELSE @]
    /\ Goto(IF row[n] = "SUCCEEDED" THEN "look" ELSE "inspect", n)
    /\ UNCHANGED <<cluster, seen, import, doomed, bounds>>

\* The row trigger: a FAILED row only ever becomes FAILED or RUNNING, a
\* SUCCEEDED one never changes.
orchestration_stage_guard(from, to) ==
    /\ from # "SUCCEEDED"
    /\ from = "FAILED" => to \in {"FAILED", "RUNNING"}

\* Write the row and go on with step; an error ends the reconciliation.
SetRow(n, to, step) ==
    \/ /\ orchestration_stage_guard(row[n], to)
       /\ row' = [row EXCEPT ![n] = to]
       /\ IF step = "error" THEN Return ELSE Goto(step, n)
    \/ /\ ~orchestration_stage_guard(row[n], to)
       /\ Return
       /\ UNCHANGED row

\* The discovery Job has no row.
ensure_import_job ==
    /\ At("inspect", Discovery)
    /\ Goto(IF job[Discovery] = "none" THEN "create" ELSE "look", Discovery)
    /\ UNCHANGED <<row, cluster, seen, import, doomed, bounds>>

\* Mutant: a Job that has ended has succeeded.
ended_is_succeeded(n) ==
    /\ At("inspect", n)
    /\ n # Discovery
    /\ \/ job[n] = "none" /\ Goto("create", n) /\ UNCHANGED row
       \/ job[n] = "running" /\ SetRow(n, "RUNNING", "look")
       \/ job[n] \in {"complete", "failed"} /\ SetRow(n, "SUCCEEDED", "look")
    /\ UNCHANGED <<cluster, seen, import, doomed, bounds>>

\* A Job that failed is recorded and reported as an error.
ensure_cloud_stage_job(n) ==
    /\ At("inspect", n)
    /\ n # Discovery
    /\ \/ job[n] = "none" /\ Goto("create", n) /\ UNCHANGED row
       \/ job[n] = "running" /\ SetRow(n, "RUNNING", "look")
       \/ job[n] = "complete" /\ SetRow(n, "SUCCEEDED", "look")
       \/ job[n] = "failed" /\ SetRow(n, "FAILED", "error")
    /\ UNCHANGED <<cluster, seen, import, doomed, bounds>>

CreateJob(n) ==
    /\ At("create", n)
    /\ job' = [job EXCEPT ![n] = "running"]
    /\ Goto(IF n = Discovery THEN "look" ELSE "mark", n)
    /\ UNCHANGED <<row, late, published, seen, import, doomed, bounds>>

mark_orchestration_stage_running(n) ==
    /\ At("mark", n)
    /\ SetRow(n, "RUNNING", "look")
    /\ UNCHANGED <<cluster, seen, import, doomed, bounds>>

\* Mutant: the phase goes on while the Job is still running.
look_without_barrier(n) ==
    /\ At("look", n)
    /\ IF job[n] # "none" /\ n \notin Roots /\ (n \in Awaited => n \in seen)
         THEN Goto("reserve", n + 1)
         ELSE Return
    /\ UNCHANGED <<row, cluster, seen, import, doomed, bounds>>

\* The phase goes on to its next stage only past a Job that still exists and
\* is Complete, and a digest that has arrived.
LookAtJob(n) ==
    /\ At("look", n)
    /\ IF job[n] = "complete" /\ n \notin Roots /\ (n \in Awaited => n \in seen)
         THEN Goto("reserve", n + 1)
         ELSE Return
    /\ UNCHANGED <<row, cluster, seen, import, doomed, bounds>>

\* The watch brings the operator's copy of the status up to date.
WatchStatus ==
    /\ at = Idle
    /\ seen # published
    /\ seen' = published
    /\ UNCHANGED <<row, cluster, at, import, doomed, bounds>>

\* The operator dies, or a call of the reconciliation or of the cleanup returns
\* an error (a volume or claim that the cleanup refuses to delete included):
\* either way the next one starts over.
Crash ==
    /\ at # Idle
    /\ faults < MaxFaults
    /\ faults' = faults + 1
    /\ Return
    /\ doomed' = {}
    /\ UNCHANGED <<row, cluster, seen, import, collections>>

-----------------------------------------------------------------------------
(* Deletion                                                                *)

DeleteImport ==
    /\ import = "live"
    /\ import' = "deleting"
    /\ UNCHANGED <<row, cluster, operator, bounds>>

\* Mutant: Jobs that have ended are left to the TTL controller.
cleanup_running_jobs ==
    /\ import = "deleting"
    /\ at = Idle
    /\ doomed' = {n \in Stages : job[n] = "running"}
    /\ Goto("cleanup", 0)
    /\ UNCHANGED <<row, cluster, seen, import, bounds>>

\* The finalizer lists the Jobs of the import, deletes each one and then lets
\* the import go.
cleanup_import_runtime ==
    /\ import = "deleting"
    /\ at = Idle
    /\ doomed' = {n \in Stages : job[n] # "none"}
    /\ Goto("cleanup", 0)
    /\ UNCHANGED <<row, cluster, seen, import, bounds>>

\* The default policy of batch/v1 deletes the Job and orphans its pods.
DeleteJob(n) ==
    /\ At("cleanup", 0)
    /\ n \in doomed /\ \A m \in doomed : n <= m
    /\ doomed' = doomed \ {n}
    /\ job' = [job EXCEPT ![n] = "none"]
    /\ late' = IF job[n] = "running" /\ n \notin published THEN late \cup {n} ELSE late
    /\ UNCHANGED <<row, published, seen, at, import, bounds>>

\* Mutant: the import is kept until its pipeline has ended.
remove_finalizer_when_activated ==
    /\ At("cleanup", 0)
    /\ doomed = {}
    /\ Activation \in published
    /\ import' = "gone"
    /\ Return
    /\ UNCHANGED <<row, cluster, seen, doomed, bounds>>

RemoveFinalizer ==
    /\ At("cleanup", 0)
    /\ doomed = {}
    /\ import' = "gone"
    /\ Return
    /\ UNCHANGED <<row, cluster, seen, doomed, bounds>>

-----------------------------------------------------------------------------
(* Kubernetes: workers and the TTL controller                              *)

PodRuns(n) == job[n] = "running" \/ n \in late

\* A worker stores its output, or activates the snapshot, then writes its
\* digest into the status, if that is still there.
PublishOutput(n) ==
    /\ PodRuns(n)
    /\ n \notin published
    /\ published' = published \cup {n}
    /\ late' = late \ {n}
    /\ UNCHANGED <<row, job, operator, import, bounds>>

CompleteJob(n) ==
    /\ job[n] = "running"
    /\ n \in published
    /\ job' = [job EXCEPT ![n] = "complete"]
    /\ UNCHANGED <<row, late, published, operator, import, bounds>>

\* The retries of the Job are exhausted, before or after it published.
FailJob(n) ==
    /\ job[n] = "running"
    /\ faults < MaxFaults
    /\ faults' = faults + 1
    /\ job' = [job EXCEPT ![n] = "failed"]
    /\ UNCHANGED <<row, late, published, operator, import, collections>>

\* Orphaned pods that fail are not started again.
LatePodFails(n) ==
    /\ n \in late
    /\ late' = late \ {n}
    /\ UNCHANGED <<row, job, published, operator, import, bounds>>

CollectJob(n) ==
    /\ job[n] \in Collectable
    /\ collections < MaxCollections
    /\ collections' = collections + 1
    /\ job' = [job EXCEPT ![n] = "none"]
    /\ UNCHANGED <<row, late, published, operator, import, faults>>

-----------------------------------------------------------------------------

StageStep(n) ==
    \/ reserve_orchestration_stage(n)
    \/ ensure_cloud_stage_job(n)
    \/ CreateJob(n)
    \/ mark_orchestration_stage_running(n)
    \/ LookAtJob(n)

Reconcile ==
    \/ \E n \in Stages : reconcile_import_apply(n) \/ StageStep(n) \/ DeleteJob(n)
    \/ ensure_import_job
    \/ cleanup_import_runtime
    \/ RemoveFinalizer

Work(n) == PublishOutput(n) \/ CompleteJob(n) \/ FailJob(n) \/ LatePodFails(n)

Next ==
    \/ Reconcile
    \/ WatchStatus
    \/ Crash
    \/ DeleteImport
    \/ \E n \in Stages : Work(n) \/ CollectJob(n)

Spec == Init /\ [][Next]_vars

\* The operator keeps reconciling and Jobs end.  The watch runs beside the
\* reconciliations and only its effect is put off to their end: it is not
\* starved by them.
FairSpec ==
    /\ Spec
    /\ WF_vars(Reconcile)
    /\ SF_vars(WatchStatus)
    /\ \A n \in Stages : WF_vars(Work(n))

-----------------------------------------------------------------------------
(* Correctness                                                             *)

TypeOK ==
    /\ row \in [Stages -> {"ABSENT", "RESERVED", "RUNNING", "SUCCEEDED", "FAILED"}]
    /\ job \in [Stages -> {"none", "running", "complete", "failed"}]
    /\ late \in SUBSET Stages
    /\ published \in SUBSET Stages
    /\ seen \in SUBSET Stages
    /\ at \in [step : {"idle", "reserve", "inspect", "create", "mark", "look", "cleanup"},
               stage : 0 .. Activation]
    /\ import \in {"live", "deleting", "gone"}
    /\ doomed \in SUBSET Stages
    /\ collections \in 0 .. MaxCollections
    /\ faults \in 0 .. MaxFaults

\* A stage works only when the output of every earlier stage is durable,
\* whatever the operator's copy of the status, its crashes and the collection
\* of Jobs did to the bookkeeping.
StageBarrier ==
    \A n \in Stages :
      job[n] # "none" \/ n \in late \cup published => \A m \in 1 .. n - 1 : m \in published

\* The catalog's completion record is never ahead of the work.
SucceededIsDone ==
    \A n \in Stages : row[n] = "SUCCEEDED" => n \in published

\* A stage recorded as SUCCEEDED stays so and never runs again, not even after
\* its Job is collected or the operator restarts.
SucceededIsFinal ==
    [][\A n \in Stages : row[n] = "SUCCEEDED" =>
         row'[n] = "SUCCEEDED" /\ (job[n] = "none" => job'[n] = "none")]_vars

\* No Job is created between the listing and the removal of the finalizer.
NoJobOutlivesImport == import = "gone" => \A n \in Stages : job[n] = "none"

\* What a deletion leaves behind.  Its pods, which the deletion of their Jobs
\* does not stop, may still commit, an activation included, when the import is
\* gone; but at most one stage's can: the earlier stages have committed, and
\* no later one ever starts, since no Job is left.
DeletionLeavesOneStage ==
    import = "gone" =>
      /\ \A n \in Stages : job[n] = "none"
      /\ \A m, n \in late : m = n

\* Where a reconciliation may stand: at a stage whose inputs are durable, past
\* the reservation only if the stage has not succeeded, and in the cleanup with
\* every remaining Job on its list.
Position ==
    /\ at.step \in {"reserve", "inspect", "create", "mark", "look"} =>
         /\ at.stage \in Stages
         /\ import # "gone"
         /\ \A m \in 1 .. at.stage - 1 : m \in published
    /\ at.step \in {"inspect", "create", "mark"} => row[at.stage] # "SUCCEEDED"
    /\ at.step \in {"reserve", "mark"} => at.stage # Discovery
    /\ at.step = "cleanup" =>
         /\ import = "deleting"
         /\ \A n \in Stages : job[n] # "none" => n \in doomed

\* The inductive invariant behind the theorems on imports.
ImportInv ==
    /\ TypeOK
    /\ seen \subseteq published
    /\ \A n \in Stages : job[n] = "complete" => n \in published
    /\ late \cap published = {}
    /\ row[Discovery] = "ABSENT"
    /\ StageBarrier
    /\ SucceededIsDone
    /\ NoJobOutlivesImport
    /\ Position

\* An import that nobody deletes and none of whose Jobs fails ends with its
\* snapshot activated, whatever the operator's crashes and stale copies.
ImportCompletes ==
    <>(Activation \in published \/ import # "live" \/ \E n \in Stages : job[n] = "failed")

\* The same for an import none of whose Jobs the TTL controller collects: what
\* it says of Jobs that it does collect does not hold (ImportCompletes).
CompletesUnlessCollected ==
    <>(\/ Activation \in published
       \/ import # "live"
       \/ collections > 0
       \/ \E n \in Stages : job[n] = "failed")

\* A deleted import goes away.
DeletionCompletes == import = "deleting" ~> import = "gone"
=============================================================================
