------------------------- MODULE SourceImport_proofs ------------------------
(* Proofs about the import of a cloud source, for every pipeline and bound. *)
EXTENDS SourceImport, TLAPS

LEMMA StageNumbers ==
  /\ Stages \subseteq Nat /\ Activation \in Stages /\ Discovery \in Stages
  /\ \A n \in Stages : n # Activation => n + 1 \in Stages
  BY PipelineAssumption DEF Stages, Discovery

LEMMA ImportInit == Init => ImportInv
  BY BoundsAssumption, StageNumbers
  DEF Init, ImportInv, TypeOK, Idle, StageBarrier, SucceededIsDone,
      NoJobOutlivesImport, Position

\* The operator moves between the steps of a reconciliation without touching a
\* row or a Job.
LEMMA MoveInv ==
  ASSUME ImportInv, UNCHANGED <<row, cluster, seen, import, doomed, bounds>>,
         TypeOK', Position'
  PROVE  ImportInv'
  BY DEF ImportInv, cluster, StageBarrier, SucceededIsDone, NoJobOutlivesImport

LEMMA ApplyInv ==
  ASSUME ImportInv, NEW n \in Stages, reconcile_import_apply(n)
  PROVE  ImportInv'
  <1> USE DEF reconcile_import_apply, Goto, Idle, cluster, bounds
  <1>1. TypeOK'
    BY StageNumbers DEF ImportInv, TypeOK, Stages, Discovery
  <1>2. \A m \in 1 .. n - 1 : m \in published
    <2>1. CASE n = Discovery
      BY <2>1 DEF Discovery
    <2>2. CASE n - 1 \in seen
      BY <2>2, StageNumbers, PipelineAssumption
      DEF ImportInv, StageBarrier, TypeOK, Stages, Discovery
    <2>3. QED
      BY <2>1, <2>2 DEF FirstStage
  <1>3. Position'
    BY <1>2 DEF ImportInv, Position, TypeOK, Discovery
  <1>4. QED
    BY <1>1, <1>3, MoveInv

LEMMA DiscoveryInv ==
  ASSUME ImportInv, ensure_import_job
  PROVE  ImportInv'
  <1> USE DEF ensure_import_job, At, Goto, cluster, bounds
  <1>1. TypeOK'
    BY StageNumbers DEF ImportInv, TypeOK, Stages, Discovery
  <1>2. Position'
    BY StageNumbers DEF ImportInv, Position, TypeOK
  <1>3. QED
    BY <1>1, <1>2, MoveInv

\* A row becomes SUCCEEDED only for a stage whose output is durable, and no
\* SUCCEEDED row is ever written again.
LEMMA RowInv ==
  ASSUME ImportInv, NEW n \in Stages, n # Discovery,
         NEW to \in {"ABSENT", "RESERVED", "RUNNING", "SUCCEEDED", "FAILED"},
         row' = [row EXCEPT ![n] = to],
         to = "SUCCEEDED" => n \in published,
         UNCHANGED <<cluster, seen, import, doomed, bounds>>,
         TypeOK', Position'
  PROVE  ImportInv'
  BY DEF ImportInv, cluster, StageBarrier, SucceededIsDone, NoJobOutlivesImport,
     TypeOK, Stages, Discovery

LEMMA ReserveInv ==
  ASSUME ImportInv, NEW n \in Stages, reserve_orchestration_stage(n)
  PROVE  ImportInv'
  <1> USE DEF reserve_orchestration_stage, At, Goto, cluster, bounds
  <1> DEFINE to == IF row[n] = "ABSENT" THEN "RESERVED" ELSE row[n]
  <1>1. row' = [row EXCEPT ![n] = to]
    OBVIOUS
  <1>2. n # Discovery /\ to \in {"ABSENT", "RESERVED", "RUNNING", "SUCCEEDED", "FAILED"}
    BY DEF ImportInv, Position, TypeOK
  <1>3. to = "SUCCEEDED" => n \in published
    BY DEF ImportInv, SucceededIsDone
  <1>4. TypeOK'
    BY StageNumbers, <1>2 DEF ImportInv, TypeOK, Stages, Discovery
  <1>5. Position'
    BY <1>2 DEF ImportInv, Position, TypeOK
  <1> HIDE DEF to
  <1>6. QED
    BY <1>1, <1>2, <1>3, <1>4, <1>5, RowInv

\* SetRow, from the steps that call it.
LEMMA SetRowInv ==
  ASSUME ImportInv, NEW n \in Stages, n # Discovery,
         NEW to \in {"RUNNING", "SUCCEEDED", "FAILED"}, NEW step \in {"look", "error"},
         at.stage = n, at.step \in {"inspect", "mark"},
         to = "SUCCEEDED" => n \in published,
         SetRow(n, to, step),
         UNCHANGED <<cluster, seen, import, doomed, bounds>>
  PROVE  ImportInv'
  <1> USE DEF cluster, bounds
  <1>1. TypeOK'
    BY StageNumbers DEF SetRow, Return, Goto, Idle, ImportInv, TypeOK, Stages, Discovery
  <1>2. Position'
    BY DEF SetRow, Return, Goto, Idle, ImportInv, Position, TypeOK
  <1>3. CASE row' = [row EXCEPT ![n] = to]
    BY <1>1, <1>2, <1>3, RowInv
  <1>4. CASE UNCHANGED row
    BY <1>1, <1>2, <1>4, MoveInv
  <1>5. QED
    BY <1>3, <1>4 DEF SetRow

LEMMA InspectInv ==
  ASSUME ImportInv, NEW n \in Stages, ensure_cloud_stage_job(n)
  PROVE  ImportInv'
  <1> USE DEF ensure_cloud_stage_job, At
  <1>1. CASE job[n] = "none" /\ Goto("create", n) /\ UNCHANGED row
    <2> USE DEF cluster, bounds, Goto
    <2>1. TypeOK'
      BY <1>1, StageNumbers DEF ImportInv, TypeOK, Stages, Discovery
    <2>2. Position'
      BY <1>1 DEF ImportInv, Position, TypeOK
    <2>3. QED
      BY <1>1, <2>1, <2>2, MoveInv
  <1>2. CASE job[n] = "running" /\ SetRow(n, "RUNNING", "look")
    BY <1>2, SetRowInv
  <1>3. CASE job[n] = "complete" /\ SetRow(n, "SUCCEEDED", "look")
    BY <1>3, SetRowInv DEF ImportInv
  <1>4. CASE job[n] = "failed" /\ SetRow(n, "FAILED", "error")
    BY <1>4, SetRowInv
  <1>5. QED
    BY <1>1, <1>2, <1>3, <1>4

LEMMA MarkInv ==
  ASSUME ImportInv, NEW n \in Stages, mark_orchestration_stage_running(n)
  PROVE  ImportInv'
  <1>1. n # Discovery
    BY DEF ImportInv, Position, mark_orchestration_stage_running, At
  <1>2. QED
    BY <1>1, SetRowInv DEF mark_orchestration_stage_running, At

LEMMA LookInv ==
  ASSUME ImportInv, NEW n \in Stages, LookAtJob(n)
  PROVE  ImportInv'
  <1> USE DEF LookAtJob, At, Goto, Return, Idle, cluster, bounds
  <1>1. CASE at' = [step |-> "idle", stage |-> 0]
    <2>1. TypeOK' /\ Position'
      BY <1>1, StageNumbers DEF ImportInv, TypeOK, Position, Stages, Discovery
    <2>2. QED
      BY <2>1, MoveInv
  <1>2. CASE job[n] = "complete" /\ n \notin Roots /\ at' = [step |-> "reserve", stage |-> n + 1]
    <2>1. n + 1 \in Stages /\ n + 1 # Discovery /\ n + 1 \in 0 .. Activation
      BY <1>2, StageNumbers, PipelineAssumption DEF Stages, Discovery
    <2>2. \A m \in 1 .. n : m \in published
      BY <1>2, StageNumbers DEF ImportInv, StageBarrier, Stages, Discovery
    <2>3. TypeOK'
      BY <1>2, <2>1 DEF ImportInv, TypeOK
    <2>4. (n + 1) - 1 = n
      BY StageNumbers
    <2>5. Position'
      BY <1>2, <2>1, <2>2, <2>4 DEF ImportInv, Position, TypeOK
    <2>6. QED
      BY <2>3, <2>5, MoveInv
  <1>3. QED
    BY <1>1, <1>2

LEMMA CreateJobInv ==
  ASSUME ImportInv, NEW n \in Stages, CreateJob(n)
  PROVE  ImportInv'
  <1> USE DEF CreateJob, At, Goto, bounds
  <1>1. TypeOK'
    BY StageNumbers DEF ImportInv, TypeOK, Stages, Discovery
  <1>2. Position'
    BY DEF ImportInv, Position, TypeOK
  <1>3. StageBarrier'
    BY DEF ImportInv, Position, StageBarrier, TypeOK
  <1>4. SucceededIsDone' /\ NoJobOutlivesImport'
    BY DEF ImportInv, Position, SucceededIsDone, NoJobOutlivesImport, TypeOK
  <1>5. QED
    BY <1>1, <1>2, <1>3, <1>4 DEF ImportInv, TypeOK

LEMMA WatchInv ==
  ASSUME ImportInv, WatchStatus
  PROVE  ImportInv'
  BY DEF WatchStatus, cluster, bounds, ImportInv, TypeOK, StageBarrier,
     SucceededIsDone, NoJobOutlivesImport, Position

LEMMA CrashInv ==
  ASSUME ImportInv, Crash
  PROVE  ImportInv'
  <1> USE DEF Crash, Return, Idle, cluster
  <1>1. TypeOK'
    BY BoundsAssumption, StageNumbers DEF ImportInv, TypeOK, Stages, Discovery
  <1>2. Position'
    BY DEF ImportInv, Position
  <1>3. QED
    BY <1>1, <1>2 DEF ImportInv, StageBarrier, SucceededIsDone, NoJobOutlivesImport

LEMMA DeleteImportInv ==
  ASSUME ImportInv, DeleteImport
  PROVE  ImportInv'
  BY DEF DeleteImport, cluster, operator, bounds, ImportInv, TypeOK, StageBarrier,
     SucceededIsDone, NoJobOutlivesImport, Position

LEMMA CleanupInv ==
  ASSUME ImportInv, cleanup_import_runtime
  PROVE  ImportInv'
  <1> USE DEF cleanup_import_runtime, Goto, cluster, bounds
  <1>1. TypeOK'
    BY StageNumbers DEF ImportInv, TypeOK, Stages, Discovery
  <1>2. Position'
    BY DEF ImportInv, Position
  <1>3. QED
    BY <1>1, <1>2 DEF ImportInv, StageBarrier, SucceededIsDone, NoJobOutlivesImport

\* Removing a Job disturbs nothing but the list of the cleanup; the pods it may
\* leave behind are of a stage that has a Job.
LEMMA RemoveJobInv ==
  ASSUME ImportInv, NEW n \in Stages,
         job' = [job EXCEPT ![n] = "none"],
         \/ UNCHANGED late
         \/ job[n] # "none" /\ n \notin published /\ late' = late \cup {n},
         UNCHANGED <<row, published, seen, import>>,
         TypeOK', Position'
  PROVE  ImportInv'
  BY DEF ImportInv, TypeOK, StageBarrier, SucceededIsDone, NoJobOutlivesImport

LEMMA DeleteJobInv ==
  ASSUME ImportInv, NEW n \in Stages, DeleteJob(n)
  PROVE  ImportInv'
  <1> USE DEF DeleteJob, At, bounds
  <1>1. TypeOK'
    BY DEF ImportInv, TypeOK
  <1>2. Position'
    BY DEF ImportInv, TypeOK, Position
  <1>3. QED
    BY <1>1, <1>2, RemoveJobInv

LEMMA CollectJobInv ==
  ASSUME ImportInv, NEW n \in Stages, CollectJob(n)
  PROVE  ImportInv'
  <1> USE DEF CollectJob, operator
  <1>1. TypeOK'
    BY BoundsAssumption DEF ImportInv, TypeOK
  <1>2. Position'
    BY DEF ImportInv, TypeOK, Position
  <1>3. QED
    BY <1>1, <1>2, RemoveJobInv

LEMMA RemoveFinalizerInv ==
  ASSUME ImportInv, RemoveFinalizer
  PROVE  ImportInv'
  <1> USE DEF RemoveFinalizer, At, Return, Idle, cluster, bounds
  <1>1. TypeOK'
    BY StageNumbers DEF ImportInv, TypeOK, Stages, Discovery
  <1>2. Position' /\ NoJobOutlivesImport'
    BY DEF ImportInv, Position, NoJobOutlivesImport
  <1>3. QED
    BY <1>1, <1>2 DEF ImportInv, StageBarrier, SucceededIsDone

LEMMA PublishOutputInv ==
  ASSUME ImportInv, NEW n \in Stages, PublishOutput(n)
  PROVE  ImportInv'
  <1> USE DEF PublishOutput, PodRuns, operator, bounds
  <1>1. TypeOK'
    BY DEF ImportInv, TypeOK
  <1>2. Position'
    BY DEF ImportInv, TypeOK, Position
  <1>3. StageBarrier'
    BY DEF ImportInv, TypeOK, StageBarrier
  <1>4. QED
    BY <1>1, <1>2, <1>3 DEF ImportInv, SucceededIsDone, NoJobOutlivesImport

\* A running Job ends.
LEMMA EndJobInv ==
  ASSUME ImportInv, NEW n \in Stages, NEW outcome \in {"complete", "failed"},
         job[n] = "running", job' = [job EXCEPT ![n] = outcome],
         outcome = "complete" => n \in published,
         UNCHANGED <<row, late, published, operator, import>>,
         TypeOK'
  PROVE  ImportInv'
  <1> USE DEF operator
  <1>1. Position'
    BY DEF ImportInv, TypeOK, Position
  <1>2. StageBarrier'
    BY DEF ImportInv, TypeOK, StageBarrier
  <1>3. QED
    BY <1>1, <1>2 DEF ImportInv, TypeOK, SucceededIsDone, NoJobOutlivesImport

LEMMA WorkInv ==
  ASSUME ImportInv, NEW n \in Stages, Work(n)
  PROVE  ImportInv'
  <1>1. CASE PublishOutput(n)
    BY <1>1, PublishOutputInv
  <1>2. CASE CompleteJob(n)
    <2>1. TypeOK'
      BY <1>2 DEF CompleteJob, operator, bounds, ImportInv, TypeOK
    <2>2. QED
      BY <1>2, <2>1, EndJobInv DEF CompleteJob
  <1>3. CASE FailJob(n)
    <2>1. TypeOK'
      BY <1>3, BoundsAssumption DEF FailJob, operator, ImportInv, TypeOK
    <2>2. QED
      BY <1>3, <2>1, EndJobInv DEF FailJob
  <1>4. CASE LatePodFails(n)
    BY <1>4 DEF LatePodFails, operator, bounds, ImportInv, TypeOK, StageBarrier,
       SucceededIsDone, NoJobOutlivesImport, Position
  <1>5. QED
    BY <1>1, <1>2, <1>3, <1>4 DEF Work

LEMMA ReconcileInv ==
  ASSUME ImportInv, Reconcile
  PROVE  ImportInv'
  BY ApplyInv, ReserveInv, InspectInv, CreateJobInv, MarkInv, LookInv, DeleteJobInv,
     DiscoveryInv, CleanupInv, RemoveFinalizerInv
  DEF Reconcile, StageStep

LEMMA ImportNext == ImportInv /\ [Next]_vars => ImportInv'
  <1>1. ASSUME ImportInv, Next
        PROVE  ImportInv'
    BY <1>1, ReconcileInv, WatchInv, CrashInv, DeleteImportInv, WorkInv, CollectJobInv
    DEF Next
  <1>2. ASSUME ImportInv, UNCHANGED vars
        PROVE  ImportInv'
    BY <1>2 DEF vars, cluster, operator, bounds, ImportInv, TypeOK, StageBarrier,
       SucceededIsDone, NoJobOutlivesImport, Position
  <1>3. QED
    BY <1>1, <1>2

\* The inductive invariant of imports holds for every pipeline, every set of
\* awaited digests and any number of crashes, failed Jobs and collected Jobs.
THEOREM ImportInvariant == Spec => []ImportInv
  BY ImportInit, ImportNext, PTL DEF Spec

\* No stage starts before the output of every earlier one is durable.
THEOREM StagesInOrder == Spec => []StageBarrier
  <1>1. ImportInv => StageBarrier
    BY DEF ImportInv
  <1>2. QED
    BY <1>1, ImportInvariant, PTL

\* A stage is recorded as SUCCEEDED only when its output is durable.
THEOREM RecordsFollowWork == Spec => []SucceededIsDone
  <1>1. ImportInv => SucceededIsDone
    BY DEF ImportInv
  <1>2. QED
    BY <1>1, ImportInvariant, PTL

\* A deletion leaves no Job behind, and pods of one stage at most: a stage whose
\* pods have yet to commit has none before it that does, and the stages after
\* it never start.
THEOREM DeletionsLeaveOneStage == Spec => []DeletionLeavesOneStage
  <1>1. ASSUME ImportInv
        PROVE  DeletionLeavesOneStage
    <2>1. ASSUME NEW m \in late, NEW n \in late, m < n
          PROVE  FALSE
      <3>1. m \in Stages /\ n \in Stages /\ m \in 1 .. n - 1
        BY <1>1, <2>1, StageNumbers DEF ImportInv, TypeOK, Stages, Discovery
      <3>2. m \in published
        BY <1>1, <3>1 DEF ImportInv, StageBarrier
      <3>3. QED
        BY <1>1, <3>2 DEF ImportInv
    <2>2. \A m, n \in late : m \in Nat /\ n \in Nat
      BY <1>1, StageNumbers DEF ImportInv, TypeOK
    <2>3. \A m, n \in late : m = n
      BY <2>1, <2>2
    <2>4. QED
      BY <1>1, <2>3 DEF ImportInv, NoJobOutlivesImport, DeletionLeavesOneStage
  <1>2. QED
    BY <1>1, ImportInvariant, PTL

LEMMA FinalStep ==
  ASSUME ImportInv, [Next]_vars, NEW n \in Stages, row[n] = "SUCCEEDED"
  PROVE  row'[n] = "SUCCEEDED" /\ (job[n] = "none" => job'[n] = "none")
  <1>1. ASSUME NEW m \in Stages, reserve_orchestration_stage(m)
        PROVE  row'[n] = "SUCCEEDED" /\ job' = job
    BY <1>1 DEF reserve_orchestration_stage, cluster, ImportInv, TypeOK
  <1>2. ASSUME NEW m \in Stages, NEW to, NEW step, SetRow(m, to, step)
        PROVE  row'[n] = "SUCCEEDED"
    BY <1>2 DEF SetRow, orchestration_stage_guard, ImportInv, TypeOK
  <1>3. ASSUME NEW m \in Stages, ensure_cloud_stage_job(m)
        PROVE  row'[n] = "SUCCEEDED" /\ job' = job
    BY <1>2, <1>3 DEF ensure_cloud_stage_job, cluster
  <1>4. ASSUME NEW m \in Stages, mark_orchestration_stage_running(m)
        PROVE  row'[n] = "SUCCEEDED" /\ job' = job
    BY <1>2, <1>4 DEF mark_orchestration_stage_running, cluster
  <1>5. ASSUME NEW m \in Stages, CreateJob(m)
        PROVE  row' = row /\ job'[n] = job[n]
    BY <1>5 DEF CreateJob, At, ImportInv, TypeOK, Position
  <1>6. ASSUME NEW m \in Stages, reconcile_import_apply(m) \/ LookAtJob(m)
        PROVE  row' = row /\ job' = job
    BY <1>6 DEF reconcile_import_apply, LookAtJob, cluster
  <1>7. ASSUME NEW m \in Stages, DeleteJob(m) \/ CollectJob(m)
        PROVE  row' = row /\ (job[n] = "none" => job'[n] = "none")
    BY <1>7 DEF DeleteJob, CollectJob, ImportInv, TypeOK
  <1>8. ASSUME NEW m \in Stages, Work(m)
        PROVE  row' = row /\ (job[n] = "none" => job'[n] = "none")
    BY <1>8 DEF Work, PublishOutput, CompleteJob, FailJob, LatePodFails, ImportInv, TypeOK
  <1>9. ASSUME ensure_import_job \/ cleanup_import_runtime \/ RemoveFinalizer
                 \/ WatchStatus \/ Crash \/ DeleteImport \/ UNCHANGED vars
        PROVE  row' = row /\ job' = job
    BY <1>9 DEF ensure_import_job, cleanup_import_runtime, RemoveFinalizer,
       WatchStatus, Crash, DeleteImport, vars, cluster
  <1>10. QED
    BY <1>1, <1>3, <1>4, <1>5, <1>6, <1>7, <1>8, <1>9
    DEF Next, Reconcile, StageStep

\* A SUCCEEDED row is never rewritten and its stage never gets a new Job, even
\* when the Job is collected or the operator restarts.
THEOREM SucceededStaysFinal == Spec => SucceededIsFinal
  <1>1. ImportInv /\ [Next]_vars =>
          [\A n \in Stages : row[n] = "SUCCEEDED" =>
             row'[n] = "SUCCEEDED" /\ (job[n] = "none" => job'[n] = "none")]_vars
    BY FinalStep
  <1>2. QED
    BY <1>1, ImportInvariant, PTL DEF Spec, SucceededIsFinal
=============================================================================
