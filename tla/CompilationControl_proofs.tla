----------------------- MODULE CompilationControl_proofs ---------------------
(* The operators, their Jobs and their pods over the catalog, for any number *)
(* of operations, partitions and reducers and any bound on faults, Jobs and  *)
(* restarts.                                                                 *)
EXTENDS CompilationControl, Catalog_proofs

-----------------------------------------------------------------------------
(* Whatever the operators and the pods do, they do it through the catalog  *)

\* A pod's work is a call the catalog allows to anyone.
LEMMA WorkIsCatalogStep ==
  ASSUME TypeOK, NEW o \in Operations, NEW stage \in StagesOf(o), Work(o, stage)
  PROVE  Next
  <1>1. \/ \E digest \in Digests : \/ commit_distributed_root(o, digest)
                                   \/ register_artifact_plan(o, digest)
                                   \/ commit_artifact_root(o, digest)
        \/ \E p \in Partitions : commit_artifact(o, p)
        \/ \E digest, other \in Digests : \/ commit_serving_root(o, digest, other)
                                          \/ commit_serving_certification(o, digest, other)
        => (RowAdded => CommitEvidence(o))
    BY DEF CommitEvidence, RowAdded
  <1>2. build[o] \in Builds
    BY DEF TypeOK
  <1>3. CASE stage = "plan"
    BY <1>3 DEF Work, plan, Next
  <1>4. CASE stage = "projection"
    BY <1>4 DEF Work, project, Next
  <1>5. CASE stage = "reducer"
    BY <1>5 DEF Work, reduce, Next
  <1>6. CASE stage = "finalize"
    BY <1>1, <1>6 DEF Work, finalize, Next
  <1>7. CASE stage = "artifact-plan"
    BY <1>1, <1>7 DEF Work, prepare_artifacts, Next
  <1>8. CASE stage = "artifact"
    BY <1>1, <1>8 DEF Work, materialize_artifact, Next
  <1>9. CASE stage = "artifact-finalize"
    BY <1>1, <1>9 DEF Work, finalize_artifacts, Next
  <1>10. CASE stage = "serving-root"
    <2>1. build[o].artifact_root \in Digests
      BY <1>2, <1>10 DEF Work, prepare_serving_root, Builds
    <2>2. QED
      BY <1>1, <1>10, <2>1 DEF Work, prepare_serving_root, Next
  <1>11. CASE stage \in {"reasoner", "reference"}
    <2>1. build[o].serving_root # None => build[o].serving_root.root \in Digests
      BY <1>2 DEF Builds
    <2>2. run_attempt(o) \/ compile_again(o)
      BY <1>11 DEF Work
    <2>3. CASE compile_again(o)
      BY <2>3 DEF compile_again, Next
    <2>4. CASE run_attempt(o)
      BY <1>1, <2>1, <2>4 DEF run_attempt, Next
    <2>5. QED
      BY <2>2, <2>3, <2>4
  <1>12. QED
    BY <1>3, <1>4, <1>5, <1>6, <1>7, <1>8, <1>9, <1>10, <1>11 DEF StagesOf, Stages

LEMMA ControlIsCatalogStep ==
  ASSUME TypeOK, [ControlNext]_controlVars
  PROVE  [Next]_vars
  <1>1. CASE UNCHANGED controlVars
    BY <1>1 DEF controlVars
  <1>2. ASSUME NEW d \in Datasets, create_named_dataset(d)
        PROVE  Next
    BY <1>2 DEF create_named_dataset, Next
  <1>3. ASSUME NEW s \in Snapshots, ApiPublish(s)
        PROVE  Next
    BY <1>3 DEF ApiPublish, Next
  <1>4. ASSUME operator_restart
        PROVE  UNCHANGED vars
    BY <1>4 DEF operator_restart
  <1>5. ASSUME NEW o \in Operations, NEW r \in Requests, create_ingestion(o, r)
        PROVE  Next
    BY <1>5 DEF create_ingestion, Next
  <1>6. ASSUME NEW o \in Operations,
               cancel_job(o) \/ compile_fails(o) \/ publish_certified(o) \/ worker_lost(o)
        PROVE  Next
    BY <1>6 DEF cancel_job, compile_fails, publish_certified, worker_lost, Next
  <1>7. ASSUME NEW o \in Operations, ensure_compilation_resource(o)
        PROVE  UNCHANGED vars
    BY <1>7 DEF ensure_compilation_resource
  <1>8. ASSUME NEW o \in Operations, operator_step(o)
        PROVE  [Next]_vars
    <2>1. CASE fail_operation(o)
      BY <2>1 DEF fail_operation, Next
    <2>2. CASE ~fail_operation(o)
      BY <1>8, <2>2 DEF operator_step, reconcile, ensure_job, ensure_reference_job, EnsureJob,
         job_terminal, schedule_stage, patch_status, delete_stage_jobs
    <2>3. QED
      BY <2>1, <2>2
  <1>9. ASSUME NEW o \in Operations, NEW stage \in StagesOf(o), worker(o, stage)
        PROVE  Next
    BY <1>9, WorkIsCatalogStep DEF worker
  <1>10. ASSUME NEW o \in Operations, NEW stage \in StagesOf(o),
                \/ job_complete(o, stage) \/ job_fails(o, stage)
                \/ job_collected(o, stage) \/ pods_end(o, stage)
         PROVE  UNCHANGED vars
    BY <1>10 DEF job_complete, job_fails, job_collected, pods_end
  <1>11. QED
    BY <1>1, <1>2, <1>3, <1>4, <1>5, <1>6, <1>7, <1>8, <1>9, <1>10 DEF ControlNext

\* The API, the operators and the pods are callers the catalog allows for, so
\* every theorem about the catalog holds of the whole compilation.
THEOREM ControlImplementsCatalog == ControlSpec => Spec
  <1>1. ControlInit => Init /\ CatalogInv
    BY InitInv DEF ControlInit
  <1>2. CatalogInv /\ [ControlNext]_controlVars => [Next]_vars /\ CatalogInv'
    BY ControlIsCatalogStep, NextInv DEF CatalogInv
  <1>3. QED
    BY <1>1, <1>2, PTL DEF ControlSpec, Spec

\* In particular, what a dataset serves stays servable, stands on complete
\* evidence and forms one chain, whatever the operators and the pods do.
THEOREM CompilationsServeSafely ==
  ControlSpec => /\ [](ActiveIsServable /\ CertificateStandsOnBuild /\ ServingJobIsPublishable)
                 /\ []Lineage!Chain
                 /\ NoLostPublication
  <1>1. QED
    BY ControlImplementsCatalog, ActiveIsAlwaysServable, CertificatesStandOnBuilds,
       ServingJobsArePublishable, ServedSnapshotsFormAChain, NoPublicationIsLost, PTL

-----------------------------------------------------------------------------
(* Why an operation is failed                                              *)

JobPhases == {"none", "active", "complete", "failed"}

\* Where the operator may stand in the reconciliation of o, and with which
\* arguments.
Positions(o) ==
  {Idle, <<"delete">>}
    \cup {<<name, stage>> : name \in {"ensure", "look"}, stage \in StagesOf(o)}
    \cup {<<name, stage, phase>> : name \in {"check", "fail"}, stage \in StagesOf(o),
                                   phase \in {"complete", "failed"}}
    \cup {<<"patch", reported, action>> : reported \in JobStates,
                                          action \in {"await_change", "requeue"}}

\* What Committed says of a job in state s with the rows b and no later step
\* can take back: a worker may return to an operation it has certified.
Done(stage, s, b) ==
  /\ stage = "plan" => b.plan
  /\ stage = "projection" => b.projected = Partitions
  /\ stage = "reducer" => b.reduced = Reducers
  /\ stage = "finalize" => b.distributed_root # None
  /\ stage = "artifact-plan" => b.artifact_plan # None
  /\ stage = "artifact" => b.artifacts = Partitions
  /\ stage = "artifact-finalize" => b.artifact_root # None
  /\ stage = "serving-root" => b.serving_root # None
  /\ stage \in {"reasoner", "reference"} => s \in {"CERTIFIED", "PUBLISHED"}

\* A Job that has ended, or what an operator remembers of one, ended for a
\* cause: its work is done, or there was a fault, or the job was aborted.
ForCause(stage, phase, s, b, f) ==
  /\ phase = "complete" => Done(stage, s, b)
  /\ phase = "failed" => f > 0 \/ s \in Aborted

JobsOf(o, row, s, b, f) ==
  /\ row \in [StagesOf(o) -> JobPhases]
  /\ \A stage \in StagesOf(o) : ForCause(stage, row[stage], s, b, f)

\* A distributed stage whose Job completed is never on its way to fail.
Standing(o, a, s, b, f) ==
  /\ a \in Positions(o)
  /\ a[1] \in {"check", "fail"} => ForCause(a[2], a[3], s, b, f)
  /\ a[1] = "fail" /\ a[3] = "complete" => a[2] = "reference"

PlanLeavesRegistered ==
  \A o \in Operations : build[o].plan => state[o] \notin {"ABSENT", "REGISTERED"}

ControlInv ==
  /\ Operations = DOMAIN jobs /\ Operations = DOMAIN at /\ Operations = DOMAIN error
  /\ faults \in Nat
  /\ \A o \in Operations : JobsOf(o, jobs[o], state[o], build[o], faults)
  /\ \A o \in Operations : Standing(o, at[o], state[o], build[o], faults)
  /\ PlanLeavesRegistered
  /\ FailedForCause

LEMMA ControlInitInv == ControlInit => ControlInv
  <1> SUFFICES ASSUME ControlInit PROVE ControlInv
    OBVIOUS
  <1>1. \A o \in Operations : JobsOf(o, jobs[o], state[o], build[o], faults)
    BY DEF ControlInit, JobsOf, JobPhases, ForCause
  <1>2. \A o \in Operations : Standing(o, at[o], state[o], build[o], faults)
    BY DEF ControlInit, Standing, Positions, Idle
  <1>3. PlanLeavesRegistered
    BY DEF ControlInit, Init, EmptyBuild, PlanLeavesRegistered
  <1>4. FailedForCause
    <2>1. \A o \in Operations : error[o] = None
      BY DEF ControlInit
    <2>2. QED
      BY <2>1, NoneCodeAssumption DEF FailedForCause
  <1>5. QED
    BY <1>1, <1>2, <1>3, <1>4 DEF ControlInit, ControlInv

\* Outcomes are final, a certified job at most gets published, and no job goes
\* back to REGISTERED.
LEMMA StateSteps ==
  ASSUME CatalogInv, [Next]_vars, NEW p \in Operations
  PROVE  /\ state[p] \in Aborted => state'[p] = state[p]
         /\ state[p] \in {"CERTIFIED", "PUBLISHED"} => state'[p] \in {"CERTIFIED", "PUBLISHED"}
         /\ state'[p] = "ABSENT" => state[p] = "ABSENT"
         /\ state'[p] = "REGISTERED" => state[p] \in {"ABSENT", "REGISTERED"}
  <1>1. CASE Rests(p)
    BY <1>1 DEF Rests, Aborted
  <1>2. CASE state[p] = "ABSENT" /\ state'[p] = "REGISTERED"
    BY <1>2 DEF Aborted
  <1>3. ASSUME NEW path, LegalWalk(state[p], path), Walked(p, path)
        PROVE  /\ state[p] \notin Aborted
               /\ state[p] \in {"CERTIFIED", "PUBLISHED"} => state'[p] = "PUBLISHED"
               /\ state'[p] \notin {"ABSENT", "REGISTERED"}
    <2>1. \A from, to : may_transition(from, to) =>
            /\ from \notin Aborted \cup {"PUBLISHED"}
            /\ from = "CERTIFIED" => to = "PUBLISHED"
            /\ to \notin {"ABSENT", "REGISTERED"}
      BY DEF may_transition, ForwardEdges, Compiling, Aborted
    <2>2. CASE Len(path) = 1
      BY <1>3, <2>1, <2>2 DEF LegalWalk, Walked
    <2>3. CASE Len(path) # 1
      <3> DEFINE n == Len(path)
      <3>0. n \in Nat /\ n # 0 /\ n # 1
        BY <1>3, <2>3 DEF LegalWalk
      <3> HIDE DEF n
      <3>1. n - 1 \in 1 .. n - 1 /\ 1 \in 1 .. n - 1 /\ (n - 1) + 1 = n
        BY <3>0
      <3>2. may_transition(path[1], path[2]) /\ may_transition(path[Len(path) - 1], path[Len(path)])
        BY <1>3, <3>1 DEF LegalWalk, n
      <3>3. QED
        BY <1>3, <2>1, <3>2 DEF LegalWalk, Walked
    <2>4. QED
      BY <2>2, <2>3
  <1>4. QED
    BY <1>1, <1>2, <1>3, JobSteps

\* Causes do not go away.
LEMMA CausesLast ==
  ASSUME NEW b \in Builds, NEW c \in Builds, Keeps(b, c), NEW s, NEW t,
         s \in Aborted => t = s,
         s \in {"CERTIFIED", "PUBLISHED"} => t \in {"CERTIFIED", "PUBLISHED"},
         NEW f \in Nat, NEW g \in Nat, f <= g, NEW stage, NEW phase,
         ForCause(stage, phase, s, b, f)
  PROVE  ForCause(stage, phase, t, c, g)
  <1>1. Done(stage, s, b) => Done(stage, t, c)
    BY DEF Done, Keeps, Builds
  <1>2. QED
    BY <1>1 DEF ForCause

LEMMA CommittedIsDone ==
  ASSUME NEW o \in Operations, NEW stage \in StagesOf(o), Committed(o, stage)
  PROVE  Done(stage, state[o], build[o])
  BY DEF Committed, Done, StagesOf, Stages

\* schedule_stage reads the catalog again after the Job has ended: it does not
\* expect a commit that was made.
LEMMA DoneIsNotExpected ==
  ASSUME BuildInv, PlanLeavesRegistered, NEW o \in Operations, NEW stage \in Stages,
         Done(stage, state[o], build[o])
  PROVE  ~still_expected(o, stage)
  <1>1. CASE stage \in {"plan", "projection", "reducer", "reasoner"}
    BY <1>1 DEF BuildInv, BarriersExact, PlanLeavesRegistered, Done, still_expected, state_for_stage
  <1>2. CASE stage = "finalize"
    BY <1>2 DEF Done, still_expected
  <1>3. CASE stage \notin {"plan", "projection", "reducer", "reasoner", "finalize"}
    BY <1>3 DEF Done, still_expected, Committed, Stages
  <1>4. QED
    BY <1>1, <1>2, <1>3

\* What every Job and every operator stood on before a step, it still stands
\* on after it.
LEMMA CausesKept ==
  ASSUME CatalogInv, CatalogInv', ControlInv, [Next]_vars, faults' \in Nat, faults <= faults',
         NEW o \in Operations
  PROVE  /\ JobsOf(o, jobs[o], state'[o], build'[o], faults')
         /\ Standing(o, at[o], state'[o], build'[o], faults')
  <1>1. \A stage, phase : ForCause(stage, phase, state[o], build[o], faults)
                            => ForCause(stage, phase, state'[o], build'[o], faults')
    <2>1. build[o] \in Builds /\ build'[o] \in Builds /\ faults \in Nat
      BY DEF CatalogInv, TypeOK, ControlInv
    <2>2. Keeps(build[o], build'[o])
      BY EvidenceKept
    <2>3. /\ state[o] \in Aborted => state'[o] = state[o]
          /\ state[o] \in {"CERTIFIED", "PUBLISHED"} => state'[o] \in {"CERTIFIED", "PUBLISHED"}
      BY StateSteps
    <2>4. QED
      BY <2>1, <2>2, <2>3, CausesLast
  <1>2. JobsOf(o, jobs[o], state[o], build[o], faults) /\ Standing(o, at[o], state[o], build[o], faults)
    BY DEF ControlInv
  <1>3. QED
    BY <1>1, <1>2 DEF JobsOf, Standing

LEMMA PlanStep ==
  ASSUME CatalogInv, BuildInv, PlanLeavesRegistered, [Next]_vars
  PROVE  PlanLeavesRegistered'
  <1> SUFFICES ASSUME NEW o \in Operations, build'[o].plan
               PROVE  state'[o] \notin {"ABSENT", "REGISTERED"}
    BY DEF PlanLeavesRegistered
  <1>1. CASE state[o] \notin {"ABSENT", "REGISTERED"}
    BY <1>1, StateSteps
  <1>2. CASE state[o] \in {"ABSENT", "REGISTERED"}
    <2>1. ~build[o].plan
      BY <1>2 DEF PlanLeavesRegistered
    <2>2. ~CommitEvidence(o)
      BY <1>2 DEF CommitEvidence, commit_artifact, commit_distributed_root,
         register_artifact_plan, commit_artifact_root, commit_serving_root,
         commit_serving_certification
    <2>3. register_distributed_plan(o)
      BY <2>1, <2>2, BuildSteps DEF commit_projection, commit_reducer
    <2>4. state'[o] = "PARTITIONED"
      <3>1. "REGISTERED" \in Compiling /\ "PARTITIONED" \in Compiling
        BY DEF Compiling
      <3>2. Path("REGISTERED", "PARTITIONED")[Len(Path("REGISTERED", "PARTITIONED"))] = "PARTITIONED"
        BY <3>1, RankOrder, PathIsLegal
      <3>3. QED
        BY <2>3, <3>2 DEF register_distributed_plan, transition_locked, CatalogInv, TypeOK
    <2>5. QED
      BY <2>4
  <1>3. QED
    BY <1>1, <1>2

\* The arguments of a position, by its name.
LEMMA PositionFields ==
  ASSUME NEW o \in Operations, NEW a \in Positions(o)
  PROVE  /\ a[1] \in {"ensure", "look"} => a[2] \in StagesOf(o)
         /\ a[1] \in {"check", "fail"} => a[2] \in StagesOf(o) /\ a[3] \in {"complete", "failed"}
  BY DEF Positions, Idle

\* Positions in which nothing is held against the operation.
LEMMA HarmlessPositions ==
  ASSUME NEW o \in Operations, NEW s, NEW b, NEW f
  PROVE  /\ Standing(o, Idle, s, b, f)
         /\ Standing(o, <<"delete">>, s, b, f)
         /\ \A stage \in StagesOf(o) :
              Standing(o, <<"ensure", stage>>, s, b, f) /\ Standing(o, <<"look", stage>>, s, b, f)
         /\ \A reported \in JobStates, action \in {"await_change", "requeue"} :
              Standing(o, <<"patch", reported, action>>, s, b, f)
  BY DEF Standing, Positions, Idle

LEMMA NextStageExists ==
  ASSUME NEW o \in Operations
  PROVE  NextStage(o) \in StagesOf(o)
  <1>1. CASE o \notin Distributed
    BY <1>1 DEF NextStage, StagesOf
  <1>2. CASE o \in Distributed
    <2>1. reconcile_artifact_barrier(build[o]) \in Stages
      BY DEF reconcile_artifact_barrier, Stages
    <2>2. NextStage(o) \in Stages
      BY <1>2, <2>1 DEF NextStage, Stages
    <2>3. QED
      BY <1>2, <2>2 DEF StagesOf
  <1>3. QED
    BY <1>1, <1>2

LEMMA FaultsGrow ==
  ASSUME faults \in Nat, [ControlNext]_controlVars
  PROVE  faults' \in Nat /\ faults <= faults'
  <1>1. CASE UNCHANGED faults
    BY <1>1
  <1>2. CASE Fault
    BY <1>2 DEF Fault
  <1>3. UNCHANGED bounds => UNCHANGED faults
    BY DEF bounds
  <1>4. UNCHANGED control => UNCHANGED faults
    BY DEF control, bounds
  <1>5. ASSUME NEW o \in Operations, operator_step(o)
        PROVE  UNCHANGED bounds
    BY <1>5 DEF operator_step, reconcile, ensure_job, ensure_reference_job, EnsureJob,
       job_terminal, schedule_stage, fail_operation, patch_status, delete_stage_jobs
  <1>6. UNCHANGED faults \/ Fault
    <2>1. CASE UNCHANGED controlVars
      BY <1>4, <2>1 DEF controlVars
    <2>2. CASE ControlNext
      BY <1>3, <1>4, <1>5, <2>2 DEF ControlNext, create_named_dataset, ApiPublish, operator_restart,
         create_ingestion, ensure_compilation_resource, cancel_job, compile_fails,
         publish_certified, worker_lost, worker, job_complete, job_fails, job_collected, pods_end
    <2>3. QED
      BY <2>1, <2>2
  <1>7. QED
    BY <1>1, <1>2, <1>6

Rows ==
  /\ Operations = DOMAIN jobs /\ Operations = DOMAIN at
  /\ \A o \in Operations : JobsOf(o, jobs[o], state[o], build[o], faults)
  /\ \A o \in Operations : Standing(o, at[o], state[o], build[o], faults)

LEMMA RowsStep ==
  ASSUME CatalogInv, CatalogInv', BuildInv, ControlInv, [Next]_vars, [ControlNext]_controlVars
  PROVE  Rows'
  <1>1. faults \in Nat /\ faults' \in Nat /\ faults <= faults'
    BY FaultsGrow DEF ControlInv
  <1>2. \A o \in Operations : /\ JobsOf(o, jobs[o], state'[o], build'[o], faults')
                              /\ Standing(o, at[o], state'[o], build'[o], faults')
    BY <1>1, CausesKept
  <1>3. Operations = DOMAIN jobs /\ Operations = DOMAIN at
    BY DEF ControlInv
  <1>4. ASSUME UNCHANGED <<jobs, at>>
        PROVE  Rows'
    BY <1>2, <1>3, <1>4 DEF Rows
  <1>5. ASSUME UNCHANGED jobs, NEW o \in Operations, NEW a, Goto(o, a),
               Standing(o, a, state'[o], build'[o], faults')
        PROVE  Rows'
    BY <1>2, <1>3, <1>5 DEF Rows, Goto
  <1>6. ASSUME NEW o \in Operations, NEW stage \in StagesOf(o), NEW phase \in JobPhases,
               jobs' = [jobs EXCEPT ![o][stage] = phase],
               ForCause(stage, phase, state'[o], build'[o], faults')
        PROVE  /\ Operations = DOMAIN jobs'
               /\ \A p \in Operations : JobsOf(p, jobs'[p], state'[p], build'[p], faults')
    <2>1. \A p \in Operations \ {o} : jobs'[p] = jobs[p]
      BY <1>3, <1>6
    <2>2. jobs'[o] = [jobs[o] EXCEPT ![stage] = phase]
      BY <1>3, <1>6
    <2>3. JobsOf(o, jobs'[o], state'[o], build'[o], faults')
      BY <1>2, <1>6, <2>2 DEF JobsOf
    <2>4. QED
      BY <1>2, <1>3, <1>6, <2>1, <2>3
  <1>7. ASSUME UNCHANGED at, NEW o \in Operations, NEW stage \in StagesOf(o), NEW phase \in JobPhases,
               jobs' = [jobs EXCEPT ![o][stage] = phase],
               ForCause(stage, phase, state'[o], build'[o], faults')
        PROVE  Rows'
    BY <1>2, <1>3, <1>6, <1>7 DEF Rows
  <1> HIDE DEF Rows
  <1>8. ASSUME UNCHANGED control
        PROVE  Rows'
    BY <1>4, <1>8 DEF control
  <1>9. ASSUME NEW o \in Operations, reconcile(o)
        PROVE  Rows'
    <2>1. state[o] \in JobStates \cup {"ABSENT"}
      BY DEF CatalogInv, TypeOK
    <2>2. \E a : /\ a \in {<<"delete">>, <<"ensure", NextStage(o)>>}
                          \cup {<<"patch", reported, "await_change">> : reported \in JobStates}
                 /\ Goto(o, a)
      BY <1>9, <2>1 DEF reconcile, JobStates, Compiling, Aborted
    <2>3. QED
      BY <1>5, <1>9, <2>2, HarmlessPositions, NextStageExists DEF reconcile
  <1>10. ASSUME NEW o \in Operations, NEW stage \in StagesOf(o), EnsureJob(o, stage)
         PROVE  Rows'
    <2> DEFINE phase == IF jobs[o][stage] = "none" THEN "active" ELSE jobs[o][stage]
    <2>1. jobs' = [jobs EXCEPT ![o][stage] = phase]
      BY <1>10 DEF EnsureJob
    <2>2. phase \in JobPhases /\ ForCause(stage, phase, state'[o], build'[o], faults')
      BY <1>2 DEF JobsOf, JobPhases, ForCause
    <2>3. \E a \in {Idle, <<"look", stage>>} : at' = [at EXCEPT ![o] = a]
      BY <1>10 DEF EnsureJob, Goto
    <2>4. Operations = DOMAIN at' /\ \A p \in Operations :
            Standing(p, at'[p], state'[p], build'[p], faults')
      <3>1. PICK a \in {Idle, <<"look", stage>>} : at' = [at EXCEPT ![o] = a]
        BY <2>3
      <3>2. Standing(o, a, state'[o], build'[o], faults')
        BY <1>10, <3>1, HarmlessPositions
      <3> HIDE DEF phase
      <3>3. QED
        BY <1>2, <1>3, <3>1, <3>2
    <2> HIDE DEF phase
    <2>5. QED
      BY <1>6, <2>1, <2>2, <2>4 DEF Rows
  <1>11. ASSUME NEW o \in Operations, ensure_job(o) \/ ensure_reference_job(o)
         PROVE  Rows'
    <2>1. at[o] \in Positions(o)
      BY <1>2 DEF Standing
    <2>2. o \notin Distributed => "reference" \in StagesOf(o)
      BY DEF StagesOf
    <2>3. QED
      BY <1>10, <1>11, <2>1, <2>2, PositionFields DEF ensure_job, ensure_reference_job, At
  <1>12. ASSUME NEW o \in Operations, job_terminal(o)
         PROVE  Rows'
    <2> DEFINE stage == at[o][2]
               phase == jobs[o][stage]
    <2>1. stage \in StagesOf(o)
      BY <1>2, <1>12, PositionFields DEF job_terminal, At, Standing
    <2>2. phase \in JobPhases /\ ForCause(stage, phase, state'[o], build'[o], faults')
      BY <1>2, <2>1 DEF JobsOf
    <2>3. state_for_stage(stage) \in JobStates
      BY DEF state_for_stage, JobStates, Compiling
    <2>4. CASE phase \notin {"complete", "failed"}
      <3>1. Goto(o, <<"patch", state_for_stage(stage), "requeue">>)
        BY <1>12, <2>4 DEF job_terminal
      <3>2. QED
        BY <1>5, <1>12, <2>3, <3>1, HarmlessPositions DEF job_terminal
    <2>5. CASE phase \in {"complete", "failed"}
      <3> DEFINE name == IF stage = "reference" THEN "fail" ELSE "check"
                 a == <<name, stage, phase>>
      <3>1. Goto(o, a)
        BY <1>12, <2>5 DEF job_terminal
      <3>2. a \in Positions(o) /\ a[1] = name /\ a[2] = stage /\ a[3] = phase
        BY <2>1, <2>5 DEF Positions
      <3>3. Standing(o, a, state'[o], build'[o], faults')
        BY <2>2, <3>2 DEF Standing
      <3> HIDE DEF a
      <3>4. QED
        BY <1>5, <1>12, <3>1, <3>3 DEF job_terminal
    <2>6. QED
      BY <2>4, <2>5
  <1>13. ASSUME NEW o \in Operations, schedule_stage(o)
         PROVE  Rows'
    <2> DEFINE stage == at[o][2]
               phase == at[o][3]
               a == <<"fail", stage, phase>>
    <2>1. /\ stage \in StagesOf(o) /\ phase \in {"complete", "failed"}
          /\ ForCause(stage, phase, state'[o], build'[o], faults')
      BY <1>2, <1>13, PositionFields DEF schedule_stage, At, Standing
    <2>2. ForCause(stage, phase, state[o], build[o], faults)
      BY <1>13 DEF schedule_stage, At, ControlInv, Standing
    <2>3. CASE ~still_expected(o, stage)
      BY <1>5, <1>13, <2>3, HarmlessPositions DEF schedule_stage
    <2>4. CASE still_expected(o, stage)
      <3>1. phase = "complete" => stage = "reference"
        <4>1. stage \in Stages \cup {"reference"}
          BY <2>1 DEF StagesOf
        <4>2. QED
          BY <2>2, <2>4, <4>1, DoneIsNotExpected DEF ForCause, ControlInv
      <3>2. a \in Positions(o) /\ a[1] = "fail" /\ a[2] = stage /\ a[3] = phase
        BY <2>1 DEF Positions
      <3>3. Standing(o, a, state'[o], build'[o], faults')
        BY <2>1, <3>1, <3>2 DEF Standing
      <3>4. Goto(o, a)
        BY <1>13, <2>4 DEF schedule_stage
      <3> HIDE DEF a
      <3>5. QED
        BY <1>5, <1>13, <3>3, <3>4 DEF schedule_stage
    <2>5. QED
      BY <2>3, <2>4
  <1>14. ASSUME NEW o \in Operations, fail_operation(o)
         PROVE  Rows'
    <2>1. \E a \in {Idle, <<"patch", "FAILED", "await_change">>} : Goto(o, a)
      BY <1>14 DEF fail_operation
    <2>2. "FAILED" \in JobStates
      BY DEF JobStates, Aborted
    <2>3. QED
      BY <1>5, <1>14, <2>1, <2>2, HarmlessPositions DEF fail_operation
  <1>15. ASSUME NEW o \in Operations, patch_status(o)
         PROVE  Rows'
    BY <1>5, <1>15, HarmlessPositions DEF patch_status
  <1>16. ASSUME NEW o \in Operations, delete_stage_jobs(o)
         PROVE  Rows'
    <2>1. CASE Goto(o, <<"patch", "CANCELLED", "await_change">>) /\ UNCHANGED jobs
      BY <1>5, <2>1, HarmlessPositions DEF JobStates, Aborted
    <2>2. ASSUME NEW stage \in StagesOf(o), jobs' = [jobs EXCEPT ![o][stage] = "none"], UNCHANGED at
          PROVE  Rows'
      BY <1>7, <2>2 DEF JobPhases, ForCause
    <2>3. QED
      BY <1>16, <2>1, <2>2 DEF delete_stage_jobs
  <1>17. ASSUME operator_restart
         PROVE  Rows'
    BY <1>2, <1>3, <1>17, HarmlessPositions DEF operator_restart, Rows
  <1>18. ASSUME NEW o \in Operations, NEW stage \in StagesOf(o), job_complete(o, stage)
         PROVE  Rows'
    <2>1. Done(stage, state[o], build[o]) /\ UNCHANGED <<state, build>>
      BY <1>18, CommittedIsDone DEF job_complete, vars, job
    <2>2. ForCause(stage, "complete", state'[o], build'[o], faults')
      BY <2>1 DEF ForCause
    <2>3. QED
      BY <1>7, <1>18, <2>2 DEF job_complete, JobPhases
  <1>19. ASSUME NEW o \in Operations, NEW stage \in StagesOf(o), job_fails(o, stage)
         PROVE  Rows'
    <2>1. faults' > 0 \/ state'[o] \in Aborted
      BY <1>1, <1>19 DEF job_fails, Fault, vars, job
    <2>2. QED
      BY <1>7, <1>19, <2>1 DEF job_fails, JobPhases, ForCause
  <1>20. ASSUME NEW o \in Operations, NEW stage \in StagesOf(o), job_collected(o, stage)
         PROVE  Rows'
    BY <1>7, <1>20 DEF job_collected, JobPhases, ForCause
  <1>21. ASSUME NEW o \in Operations, NEW stage \in StagesOf(o), pods_end(o, stage)
         PROVE  Rows'
    BY <1>4, <1>21 DEF pods_end
  <1>22. ASSUME NEW o \in Operations, operator_step(o)
         PROVE  Rows'
    BY <1>9, <1>11, <1>12, <1>13, <1>14, <1>15, <1>16, <1>22 DEF operator_step
  <1>23. ASSUME NEW o \in Operations, compile_fails(o) \/ ensure_compilation_resource(o)
         PROVE  Rows'
    BY <1>4, <1>23 DEF compile_fails, ensure_compilation_resource
  <1>24. CASE UNCHANGED controlVars
    BY <1>8, <1>24 DEF controlVars
  <1>25. CASE ControlNext
    BY <1>8, <1>17, <1>18, <1>19, <1>20, <1>21, <1>22, <1>23, <1>25
    DEF ControlNext, create_named_dataset, ApiPublish, create_ingestion, cancel_job,
        publish_certified, worker_lost, worker
  <1>26. QED
    BY <1>24, <1>25

\* The steps that give an operation its error code.
LEMMA ErrorSteps ==
  ASSUME [ControlNext]_controlVars
  PROVE  \/ UNCHANGED error
         \/ \E o \in Operations : fail_operation(o) \/ compile_fails(o)
  <1>1. ASSUME NEW o \in Operations, operator_step(o)
        PROVE  fail_operation(o) \/ UNCHANGED error
    BY <1>1 DEF operator_step, reconcile, ensure_job, ensure_reference_job, EnsureJob,
       job_terminal, schedule_stage, patch_status, delete_stage_jobs
  <1>2. UNCHANGED control => UNCHANGED error
    BY DEF control
  <1>3. CASE UNCHANGED controlVars
    BY <1>2, <1>3 DEF controlVars
  <1>4. CASE ControlNext
    BY <1>1, <1>2, <1>4 DEF ControlNext, create_named_dataset, ApiPublish, operator_restart,
       create_ingestion, ensure_compilation_resource, cancel_job,
       publish_certified, worker_lost, worker, job_complete, job_fails, job_collected, pods_end
  <1>5. QED
    BY <1>3, <1>4

LEMMA ErrorStep ==
  ASSUME CatalogInv, CatalogInv', ControlInv, [Next]_vars, [ControlNext]_controlVars
  PROVE  Operations = DOMAIN error' /\ FailedForCause'
  <1>1. faults \in Nat /\ faults' \in Nat /\ faults <= faults'
    BY FaultsGrow DEF ControlInv
  <1>2. Operations = DOMAIN error /\ FailedForCause
    BY DEF ControlInv
  <1>3. \A o \in Operations : state[o] = "FAILED" => state'[o] = "FAILED"
    BY StateSteps DEF Aborted
  <1>4. ASSUME UNCHANGED error
        PROVE  Operations = DOMAIN error' /\ FailedForCause'
    BY <1>1, <1>2, <1>3, <1>4 DEF FailedForCause
  <1>5. ASSUME NEW o \in Operations, NEW code, error' = [error EXCEPT ![o] = code],
               fail(o), faults' > 0, \A stage \in StagesOf(o) : code # CompletedWithoutCommit(stage)
        PROVE  Operations = DOMAIN error' /\ FailedForCause'
    <2>1. state'[o] = "FAILED"
      BY <1>5 DEF fail, Abort, transition_locked, CatalogInv, TypeOK
    <2>2. QED
      BY <1>1, <1>2, <1>3, <1>5, <2>1 DEF FailedForCause
  <1>6. ASSUME NEW o \in Operations, fail_operation(o)
        PROVE  Operations = DOMAIN error' /\ FailedForCause'
    <2> DEFINE stage == at[o][2]
               code == IF at[o][3] = "failed" THEN RetryExhausted(stage)
                       ELSE CompletedWithoutCommit(stage)
    <2>1. CASE UNCHANGED error
      BY <1>4, <2>1
    <2>2. CASE fail(o) /\ error' = [error EXCEPT ![o] = code]
      <3>1. state[o] \in Compiling
        BY <2>2 DEF fail, Abort, may_transition, ForwardEdges
      <3>2. /\ stage \in StagesOf(o) /\ at[o][3] \in {"complete", "failed"}
            /\ ForCause(stage, at[o][3], state[o], build[o], faults)
            /\ at[o][3] = "complete" => stage = "reference"
        BY <1>6, PositionFields DEF fail_operation, At, ControlInv, Standing
      <3>3. at[o][3] # "complete"
        BY <3>1, <3>2 DEF ForCause, Done, Compiling
      <3>4. faults > 0
        BY <3>1, <3>2, <3>3 DEF ForCause, Compiling, Aborted
      <3>5. \A s \in StagesOf(o) : code # CompletedWithoutCommit(s)
        BY <3>2, <3>3 DEF RetryExhausted, CompletedWithoutCommit
      <3>6. faults' > 0
        BY <1>1, <3>4
      <3> HIDE DEF code
      <3>7. QED
        BY <1>5, <2>2, <3>5, <3>6
    <2>3. QED
      BY <1>6, <2>1, <2>2 DEF fail_operation
  <1>7. ASSUME NEW o \in Operations, compile_fails(o)
        PROVE  Operations = DOMAIN error' /\ FailedForCause'
    <2>1. \A stage \in StagesOf(o) : CompilationFailed # CompletedWithoutCommit(stage)
      BY DEF CompilationFailed, CompletedWithoutCommit
    <2>2. faults' > 0
      BY <1>1, <1>7 DEF compile_fails, Fault
    <2>3. QED
      BY <1>5, <1>7, <2>1, <2>2 DEF compile_fails
  <1>8. QED
    BY <1>4, <1>6, <1>7, ErrorSteps

LEMMA ControlStep ==
  ASSUME CatalogInv, BuildInv, ControlInv, [ControlNext]_controlVars
  PROVE  ControlInv'
  <1>1. [Next]_vars
    BY ControlIsCatalogStep DEF CatalogInv
  <1>2. CatalogInv'
    BY <1>1, NextInv
  <1>3. Rows' /\ PlanLeavesRegistered' /\ Operations = DOMAIN error' /\ FailedForCause'
    BY <1>1, <1>2, RowsStep, PlanStep, ErrorStep DEF ControlInv
  <1>4. faults' \in Nat
    BY FaultsGrow DEF ControlInv
  <1>5. QED
    BY <1>3, <1>4 DEF Rows, ControlInv

\* What a Job or an operator stands on stays true however old it is: a
\* completed Job did its work, and only a lost one is held against its
\* operation.
THEOREM ControlInvariant == ControlSpec => []ControlInv
  <1>1. ControlInit => ControlInv
    BY ControlInitInv
  <1>2. CatalogInv /\ BuildInv /\ ControlInv /\ [ControlNext]_controlVars => ControlInv'
    BY ControlStep
  <1>3. QED
    BY <1>1, <1>2, ControlImplementsCatalog, CatalogInvariant, BuildInvariant, PTL DEF ControlSpec

\* No operator, reading the catalog before and after it looks at a Job, fails
\* an operation whose work is done.
THEOREM OperationsFailForCause == ControlSpec => []FailedForCause
  <1>1. ControlInv => FailedForCause
    BY DEF ControlInv
  <1>2. QED
    BY <1>1, ControlInvariant, PTL

-----------------------------------------------------------------------------
(* What becomes of an aborted operation                                    *)

\* A late commit of an aborted operation is one it has already made.
LEMMA AbortedBuildStays ==
  ASSUME CatalogInv, [Next]_vars, NEW o \in Operations, state[o] \in Aborted
  PROVE  build'[o] = build[o]
  <1>1. state[o] \notin {"REGISTERED", "PARTITIONED", "PROJECTED", "INDEXED", "REASONED",
                         "CERTIFIED", "PUBLISHED"}
    BY DEF Aborted
  <1>2. build \in [Operations -> Builds]
    BY DEF CatalogInv, TypeOK
  <1>3. ASSUME NEW k \in Partitions, commit_projection(o, k)
        PROVE  build'[o] = build[o]
    <2>1. build'[o] = [build[o] EXCEPT !.projected = @ \cup {k}] /\ k \in build[o].projected
      BY <1>1, <1>2, <1>3 DEF commit_projection
    <2>2. build[o].projected \cup {k} = build[o].projected
      BY <2>1
    <2>3. QED
      BY <1>2, <2>1, <2>2 DEF Builds
  <1>4. ASSUME NEW r \in Reducers, commit_reducer(o, r)
        PROVE  build'[o] = build[o]
    <2>1. build'[o] = [build[o] EXCEPT !.reduced = @ \cup {r}] /\ r \in build[o].reduced
      BY <1>1, <1>2, <1>4 DEF commit_reducer
    <2>2. build[o].reduced \cup {r} = build[o].reduced
      BY <2>1
    <2>3. QED
      BY <1>2, <2>1, <2>2 DEF Builds
  <1>5. ~CommitEvidence(o)
    BY <1>1 DEF CommitEvidence, commit_artifact, commit_distributed_root,
       register_artifact_plan, commit_artifact_root, commit_serving_root,
       commit_serving_certification
  <1>6. ~register_distributed_plan(o)
    BY <1>1 DEF register_distributed_plan
  <1>7. QED
    BY <1>3, <1>4, <1>5, <1>6, BuildSteps

\* The target of an aborted operation stays without a snapshot: no other
\* operation has it.
LEMMA AbortedTargetStays ==
  ASSUME CatalogInv, [Next]_vars, NEW o \in Operations, state[o] \in Aborted
  PROVE  snapshot'[request[o].target] = snapshot[request[o].target]
  <1> DEFINE t == request[o].target
  <1>1. request[o] \in Requests /\ t \in Snapshots
    BY DEF Aborted, CatalogInv, RequestRows, TypeOK, Requests
  <1>2. snapshot[t] = None
    <2> SUFFICES ASSUME snapshot[t] # None PROVE FALSE
      OBVIOUS
    <2>1. /\ snapshot[t].operation \in Operations
          /\ request[snapshot[t].operation] # None
          /\ request[snapshot[t].operation].target = t
          /\ state[snapshot[t].operation] \in {"CERTIFIED", "PUBLISHED"}
      BY <1>1 DEF CatalogInv, TypeOK, SnapshotRows, TablesAgree
    <2>2. snapshot[t].operation = o
      BY <1>1, <2>1, NoneRowAssumption DEF CatalogInv, RequestRows
    <2>3. QED
      BY <2>1, <2>2 DEF Aborted
  <1>3. ASSUME NEW s \in Snapshots, PublishTx(s),
               UNCHANGED <<datasets, request, build, cloud_activation, crashes>>
        PROVE  snapshot'[t] = None
    BY <1>1, <1>2, <1>3, PublishEffect
  <1>4. ASSUME NEW p \in Operations, NEW manifest \in Digests, Certify(p, manifest)
        PROVE  snapshot'[t] = None
    <2>1. state[p] \in Compiling /\ p # o
      BY <1>4 DEF Certify, Compiling, Aborted
    <2>2. request[p] # None /\ request[p].target # t
      BY <1>1, <2>1, NoneRowAssumption DEF Compiling, CatalogInv, RequestRows
    <2>3. QED
      BY <1>1, <1>2, <1>4, <2>2 DEF Certify, CatalogInv, TypeOK
  <1>5. QED
    BY <1>2, <1>3, <1>4, CertifyingSteps
    DEF commit_reference_certification, commit_cloud_snapshot_activation

LEMMA AbortedErrorStays ==
  ASSUME CatalogInv, ControlInv, [ControlNext]_controlVars, NEW o \in Operations, state[o] \in Aborted
  PROVE  error'[o] = error[o]
  <1>1. ~fail(o) /\ Operations = DOMAIN error
    BY DEF fail, Abort, may_transition, ForwardEdges, Compiling, Aborted, ControlInv
  <1>2. ASSUME NEW p \in Operations, fail(p), NEW code, error' = [error EXCEPT ![p] = code]
        PROVE  error'[o] = error[o]
    BY <1>1, <1>2
  <1>3. ASSUME NEW p \in Operations, fail_operation(p) \/ compile_fails(p)
        PROVE  error'[o] = error[o]
    BY <1>2, <1>3 DEF fail_operation, compile_fails
  <1>4. QED
    BY <1>3, ErrorSteps

\* Pods outlive their Job and their operation, and clients and operators act
\* on old states; an aborted operation keeps its outcome, its reason and its
\* evidence and never gets a snapshot.
THEOREM AbortedStaysFrozen == ControlSpec => AbortedIsFrozen
  <1>1. CatalogInv /\ ControlInv /\ [ControlNext]_controlVars =>
          [\A o \in Operations : state[o] \in Aborted =>
             /\ state'[o] = state[o] /\ build'[o] = build[o] /\ error'[o] = error[o]
             /\ snapshot'[request[o].target] = snapshot[request[o].target]]_controlVars
    <2> SUFFICES ASSUME CatalogInv, ControlInv, [ControlNext]_controlVars,
                        NEW o \in Operations, state[o] \in Aborted
                 PROVE  /\ state'[o] = state[o] /\ build'[o] = build[o] /\ error'[o] = error[o]
                        /\ snapshot'[request[o].target] = snapshot[request[o].target]
      OBVIOUS
    <2>1. [Next]_vars
      BY ControlIsCatalogStep DEF CatalogInv
    <2>2. QED
      BY <2>1, StateSteps, AbortedBuildStays, AbortedTargetStays, AbortedErrorStays
  <1>2. QED
    BY <1>1, ControlInvariant, ControlImplementsCatalog, CatalogInvariant, PTL
    DEF ControlSpec, AbortedIsFrozen
=============================================================================
