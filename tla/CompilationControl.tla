------------------------- MODULE CompilationControl -------------------------
(***************************************************************************)
(* Who calls the catalog: the API, the two compilation operators and the   *)
(* pods of the Jobs they create.                                           *)
(*                                                                         *)
(* An operator serves the compilations of its own resource profile.  The   *)
(* reference operator runs one Job.  The distributed operator walks nine   *)
(* stages: it reads how far the catalog says the build is, ensures the Job *)
(* of the next stage, and fails the operation when that Job ends without   *)
(* the commit it was created for.  Between those calls pods commit, Jobs   *)
(* end or are collected, clients cancel, and the operator may restart.     *)
(* Each operator is a single replica and runs one reconciliation of a      *)
(* resource at a time.                                                     *)
(*                                                                         *)
(* The catalog's rows are only ever added, and an operator reads them in   *)
(* the order in which they are added, so its reads of one reconciliation   *)
(* are one step.                                                           *)
(***************************************************************************)
EXTENDS Catalog

CONSTANTS
    MaxOperations,   \* bound on the compilations clients request
    MaxJobs,         \* bound on the Jobs of an operation not yet collected
    MaxRestarts,     \* bound on restarts and rollouts of the operators
    MaxFaults        \* bound on lost Jobs and failed compilations

ASSUME ControlBounds ==
    MaxJobs \in Nat \ {0} /\ {MaxOperations, MaxRestarts, MaxFaults} \subseteq Nat

VARIABLES
    resource,   \* operations with an NgkgCompilation
    jobs,       \* the Job of each stage
    outdated,   \* stages whose Job an earlier release of the operator created
    late,       \* stages whose Job is over while its pods still run
    at,         \* where the operator stands in the reconciliation of each
    awaiting,   \* resources it looks at again only when something changes
    status,     \* status.catalogState
    error,      \* operation.error_code
    restarts,
    faults

bounds == <<restarts, faults>>
control == <<resource, jobs, outdated, late, at, awaiting, status, error, bounds>>
controlVars == <<vars, control>>

Stages == {"plan", "projection", "reducer", "finalize", "artifact-plan", "artifact",
           "artifact-finalize", "serving-root", "reasoner"}

StagesOf(o) == IF o \in Distributed THEN Stages ELSE {"reference"}

-----------------------------------------------------------------------------
(* The catalog as the operators read it                                    *)

reconcile_artifact_barrier(b) ==
    IF b.artifact_plan = None THEN "artifact-plan"
    ELSE IF b.artifact_root # None
         THEN IF b.serving_root # None THEN "reasoner" ELSE "serving-root"
    ELSE IF b.artifacts = Partitions THEN "artifact-finalize"
    ELSE "artifact"

\* The stage an unfinished operation waits for.  States between two barriers
\* are never seen: the catalog crosses them inside one transaction.
NextStage(o) ==
    IF o \notin Distributed THEN "reference"
    ELSE CASE state[o] = "REGISTERED" -> "plan"
           [] state[o] = "PARTITIONED" -> "projection"
           [] state[o] = "PROJECTED" -> "reducer"
           [] OTHER -> IF build[o].distributed_root = None THEN "finalize"
                       ELSE reconcile_artifact_barrier(build[o])

state_for_stage(stage) ==
    CASE stage \in {"plan", "reference"} -> "REGISTERED"
      [] stage = "projection" -> "PARTITIONED"
      [] stage = "reducer" -> "PROJECTED"
      [] OTHER -> "INDEXED"

\* The rows a pod of the stage commits, after which it exits with success, and
\* which a restarted pod finds and does so too.
Committed(o, stage) ==
    LET b == build[o]
    IN CASE stage = "plan" -> b.plan
         [] stage = "projection" -> b.projected = Partitions
         [] stage = "reducer" -> b.reduced = Reducers
         [] stage = "finalize" -> b.distributed_root # None
         [] stage = "artifact-plan" -> b.artifact_plan # None
         [] stage = "artifact" -> b.artifacts = Partitions
         [] stage = "artifact-finalize" -> b.artifact_root # None
         [] stage = "serving-root" -> b.serving_root # None
         [] stage \in {"reasoner", "reference"} ->
              state[o] \in {"CERTIFIED", "PUBLISHED"} /\ o \notin followup \cup lost

\* Mutant: the operator trusts what it read before it looked at the Job.
expected_when_read(o, stage) == stage # "reference"

\* What schedule_stage reads again once the Job has ended.
still_expected(o, stage) ==
    CASE stage \in {"plan", "projection", "reducer", "reasoner"} ->
             state[o] = state_for_stage(stage)
      [] stage = "finalize" -> state[o] = "INDEXED" /\ build[o].distributed_root = None
      [] OTHER -> ~Committed(o, stage)

RetryExhausted(stage) == <<stage, "RETRY_EXHAUSTED">>
CompletedWithoutCommit(stage) == <<stage, "COMPLETED_WITHOUT_COMMIT">>
CompilationFailed == <<"worker", "REFERENCE_COMPILATION_FAILED">>

\* A NULL error_code is no code.
ASSUME NoneCodeAssumption ==
    \A o \in Operations : \A stage \in StagesOf(o) : None # CompletedWithoutCommit(stage)

-----------------------------------------------------------------------------
Idle == <<"idle">>
NoStatus == "none"

ControlInit ==
    /\ Init
    /\ resource = {}
    /\ jobs = [o \in Operations |-> [stage \in StagesOf(o) |-> "none"]]
    /\ outdated = [o \in Operations |-> {}]
    /\ late = [o \in Operations |-> {}]
    /\ at = [o \in Operations |-> Idle]
    /\ awaiting = {}
    /\ status = [o \in Operations |-> NoStatus]
    /\ error = [o \in Operations |-> None]
    /\ restarts = 0
    /\ faults = 0

Fault == faults < MaxFaults /\ faults' = faults + 1

(* The API *)

create_ingestion(o, r) ==
    /\ Cardinality({p \in Operations : state[p] # "ABSENT"}) < MaxOperations
    /\ create_or_get_compilation(o, r)
    /\ UNCHANGED control

\* The second half of create_ingestion: reached at once, or when the client
\* repeats a request whose first call died half way.
ensure_compilation_resource(o) ==
    /\ state[o] # "ABSENT" /\ o \notin resource
    /\ resource' = resource \cup {o}
    /\ UNCHANGED <<vars, jobs, outdated, late, at, awaiting, status, error, bounds>>

cancel_job(o) == cancel(o) /\ UNCHANGED control

create_named_dataset(d) == create_dataset(d) /\ UNCHANGED control

ApiPublish(s) == publish_snapshot(s) /\ UNCHANGED control

-----------------------------------------------------------------------------
(* The operators                                                           *)

At(o, name) == at[o][1] = name
Goto(o, step) == at' = [at EXCEPT ![o] = step]

\* Runs after a requeue; a resource that awaits a change is reconciled when one
\* of its Jobs changes or the operator restarts.
reconcile(o) ==
    /\ at[o] = Idle
    /\ o \in resource \ awaiting
    /\ Goto(o, CASE state[o] = "CANCELLED" -> <<"delete">>
                 [] state[o] \in {"FAILED", "CERTIFIED", "PUBLISHED"} ->
                      <<"patch", state[o], "await_change">>
                 [] OTHER -> <<"ensure", NextStage(o)>>)
    /\ UNCHANGED <<vars, resource, jobs, outdated, late, awaiting, status, error, bounds>>

\* An existing Job is accepted if its work-spec hash, which covers the images
\* and limits of the operator's release, is the one expected.
verify_existing_job(o, stage) == stage \notin outdated[o]

\* get_opt, then create; a 409 is as good as having created it.  A Job of
\* another release is an error, after which the resource is requeued.
EnsureJob(o, stage) ==
    /\ Cardinality({other \in StagesOf(o) \ {stage} : jobs[o][other] # "none"}) < MaxJobs
    /\ jobs' = [jobs EXCEPT ![o][stage] = IF @ = "none" THEN "active" ELSE @]
    /\ Goto(o, IF jobs[o][stage] = "none" \/ verify_existing_job(o, stage)
               THEN <<"look", stage>> ELSE Idle)
    /\ UNCHANGED <<vars, resource, outdated, late, awaiting, status, error, bounds>>

ensure_job(o) == At(o, "ensure") /\ o \in Distributed /\ EnsureJob(o, at[o][2])

ensure_reference_job(o) ==
    At(o, "ensure") /\ o \notin Distributed /\ EnsureJob(o, "reference")

\* The reference operator does not read the catalog again.
job_terminal(o) ==
    /\ At(o, "look")
    /\ LET stage == at[o][2]
       IN Goto(o, IF jobs[o][stage] \in {"complete", "failed"}
                  THEN <<IF stage = "reference" THEN "fail" ELSE "check", stage, jobs[o][stage]>>
                  ELSE <<"patch", state_for_stage(stage), "requeue">>)
    /\ UNCHANGED <<vars, resource, jobs, outdated, late, awaiting, status, error, bounds>>

schedule_stage(o) ==
    /\ At(o, "check")
    /\ Goto(o, IF still_expected(o, at[o][2]) THEN <<"fail", at[o][2], at[o][3]>> ELSE Idle)
    /\ UNCHANGED <<vars, resource, jobs, outdated, late, awaiting, status, error, bounds>>

\* catalog.fail: accepted while the operation compiles, repeated for the same
\* code, and otherwise an error, after which the resource is requeued.
fail_operation(o) ==
    /\ At(o, "fail")
    /\ LET code == IF at[o][3] = "failed" THEN RetryExhausted(at[o][2])
                   ELSE CompletedWithoutCommit(at[o][2])
       IN \/ /\ fail(o)
             /\ error' = [error EXCEPT ![o] = code]
             /\ Goto(o, <<"patch", "FAILED", "await_change">>)
          \/ /\ ~(may_transition(state[o], "FAILED") /\ operation_transition_guard)
             /\ Goto(o, IF state[o] = "FAILED" /\ error[o] = code
                        THEN <<"patch", "FAILED", "await_change">> ELSE Idle)
             /\ UNCHANGED <<vars, error>>
    /\ UNCHANGED <<resource, jobs, outdated, late, awaiting, status, bounds>>

patch_status(o) ==
    /\ At(o, "patch")
    /\ status' = [status EXCEPT ![o] = at[o][2]]
    /\ Goto(o, Idle)
    /\ awaiting' = IF at[o][3] = "await_change" THEN awaiting \cup {o} ELSE awaiting
    /\ UNCHANGED <<vars, resource, jobs, outdated, late, error, bounds>>

\* Mutant: only the Job of the stage the status names is deleted.
delete_reported_job(o) ==
    /\ at[o] = <<"delete">>
    /\ jobs' = [jobs EXCEPT ![o] = [stage \in StagesOf(o) |->
                   IF state_for_stage(stage) = status[o] THEN "none" ELSE @[stage]]]
    /\ Goto(o, <<"patch", "CANCELLED", "await_change">>)
    /\ UNCHANGED <<vars, resource, outdated, late, awaiting, status, error, bounds>>

\* Every Job of the operation is deleted, one call after the other.  The
\* default propagation of a batch/v1 Job leaves its pods alone.
delete_stage_jobs(o) ==
    /\ at[o] = <<"delete">>
    /\ \/ \E stage \in StagesOf(o) :
            /\ jobs[o][stage] # "none"
            /\ jobs' = [jobs EXCEPT ![o][stage] = "none"]
            /\ late' = IF jobs[o][stage] = "active"
                       THEN [late EXCEPT ![o] = @ \cup {stage}] ELSE late
            /\ outdated' = [outdated EXCEPT ![o] = @ \ {stage}]
            /\ UNCHANGED at
       \/ /\ \A stage \in StagesOf(o) : jobs[o][stage] = "none"
          /\ Goto(o, <<"patch", "CANCELLED", "await_change">>)
          /\ UNCHANGED <<jobs, outdated, late>>
    /\ UNCHANGED <<vars, resource, awaiting, status, error, bounds>>

\* An operator dies, and comes back in the same release or in another one.  It
\* begins with every resource.
operator_restart ==
    /\ restarts < MaxRestarts
    /\ restarts' = restarts + 1
    /\ \/ UNCHANGED outdated
       \/ outdated' = [o \in Operations |->
                         {stage \in StagesOf(o) : jobs[o][stage] # "none"}]
    /\ at' = [o \in Operations |-> Idle]
    /\ awaiting' = {}
    /\ UNCHANGED <<vars, resource, jobs, late, status, error, faults>>

-----------------------------------------------------------------------------
(* Pods                                                                    *)

PodRuns(o, stage) == jobs[o][stage] = "active" \/ stage \in late[o]

RowAdded == UNCHANGED <<datasets, request, job, cloud_activation, publication, caller>>

plan(o) == register_distributed_plan(o)

project(o) == \E p \in Partitions : p \notin build[o].projected /\ commit_projection(o, p)

reduce(o) == \E r \in Reducers : r \notin build[o].reduced /\ commit_reducer(o, r)

finalize(o) == (\E digest \in Digests : commit_distributed_root(o, digest)) /\ RowAdded

prepare_artifacts(o) ==
    (\E digest \in Digests : register_artifact_plan(o, digest)) /\ RowAdded

materialize_artifact(o) == (\E p \in Partitions : commit_artifact(o, p)) /\ RowAdded

finalize_artifacts(o) ==
    (\E digest \in Digests : commit_artifact_root(o, digest)) /\ RowAdded

prepare_serving_root(o) ==
    /\ build[o].artifact_root # None
    /\ \E digest \in Digests : commit_serving_root(o, digest, build[o].artifact_root)
    /\ RowAdded

\* The state compile_object_store starts an attempt in.
Executable(o) == state[o] = IF o \in Distributed THEN "INDEXED" ELSE "REGISTERED"

\* run_attempt commits the serving certification, if there is a serving root,
\* and then the reference certification over the same manifest.
run_attempt(o) ==
    \/ /\ Executable(o) /\ build[o].serving_root # None
       /\ \E manifest \in Digests :
            commit_serving_certification(o, build[o].serving_root.root, manifest)
       /\ RowAdded
    \/ /\ o \in Distributed => build[o].serving_root # None
       /\ \E manifest \in Digests : commit_reference_certification(o, manifest)

\* A certified operation whose worker died before it had published it.
compile_again(o) == o \in lost /\ RetryCertification(o)

Work(o, stage) ==
    CASE stage = "plan" -> plan(o)
      [] stage = "projection" -> project(o)
      [] stage = "reducer" -> reduce(o)
      [] stage = "finalize" -> finalize(o)
      [] stage = "artifact-plan" -> prepare_artifacts(o)
      [] stage = "artifact" -> materialize_artifact(o)
      [] stage = "artifact-finalize" -> finalize_artifacts(o)
      [] stage = "serving-root" -> prepare_serving_root(o)
      [] stage \in {"reasoner", "reference"} -> run_attempt(o) \/ compile_again(o)

worker(o, stage) ==
    /\ PodRuns(o, stage)
    /\ Work(o, stage)
    /\ UNCHANGED control

\* A deterministic error of an attempt is the worker's to report; an attempt
\* that started while the operation was executable may report it late.
compile_fails(o) ==
    /\ \E stage \in {"reasoner", "reference"} \cap StagesOf(o) : PodRuns(o, stage)
    /\ Fault
    /\ fail(o)
    /\ error' = [error EXCEPT ![o] = CompilationFailed]
    /\ UNCHANGED <<resource, jobs, outdated, late, at, awaiting, status, restarts>>

publish_certified(o) == FinishCertification(o) /\ UNCHANGED control

worker_lost(o) == Crash(o) /\ UNCHANGED control

-----------------------------------------------------------------------------
(* Jobs                                                                    *)

\* The operators watch the Jobs they own.
JobEvent(o) == awaiting' = awaiting \ {o}

job_complete(o, stage) ==
    /\ jobs[o][stage] = "active"
    /\ Committed(o, stage)
    /\ jobs' = [jobs EXCEPT ![o][stage] = "complete"]
    /\ JobEvent(o)
    /\ UNCHANGED <<vars, resource, outdated, late, at, status, error, bounds>>

\* The backoff limit or the deadline is reached, with or without the commit;
\* for an operation that has been aborted the pods fail by themselves.
job_fails(o, stage) ==
    /\ jobs[o][stage] = "active"
    /\ Fault \/ (state[o] \in Aborted /\ UNCHANGED faults)
    /\ jobs' = [jobs EXCEPT ![o][stage] = "failed"]
    /\ late' = [late EXCEPT ![o] = @ \cup {stage}]
    /\ JobEvent(o)
    /\ UNCHANGED <<vars, resource, outdated, at, status, error, restarts>>

\* The TTL controller deletes an ended Job.  It waits for a day and a requeued
\* reconciliation for seconds: that the Job of the awaited stage goes before
\* the operator has seen it is counted as a fault.
Awaited(o, stage) ==
    state[o] \in Compiling /\ NextStage(o) = stage /\ verify_existing_job(o, stage)

job_collected(o, stage) ==
    /\ jobs[o][stage] \in {"complete", "failed"}
    /\ Fault \/ (~Awaited(o, stage) /\ UNCHANGED faults)
    /\ jobs' = [jobs EXCEPT ![o][stage] = "none"]
    /\ outdated' = [outdated EXCEPT ![o] = @ \ {stage}]
    /\ JobEvent(o)
    /\ UNCHANGED <<vars, resource, late, at, status, error, restarts>>

pods_end(o, stage) ==
    /\ stage \in late[o]
    /\ late' = [late EXCEPT ![o] = @ \ {stage}]
    /\ UNCHANGED <<vars, resource, jobs, outdated, at, awaiting, status, error, bounds>>

-----------------------------------------------------------------------------
operator_step(o) ==
    \/ reconcile(o)
    \/ ensure_job(o)
    \/ ensure_reference_job(o)
    \/ job_terminal(o)
    \/ schedule_stage(o)
    \/ fail_operation(o)
    \/ patch_status(o)
    \/ delete_stage_jobs(o)

ControlNext ==
    \/ \E d \in Datasets : create_named_dataset(d)
    \/ \E s \in Snapshots : ApiPublish(s)
    \/ operator_restart
    \/ \E o \in Operations :
         \/ \E r \in Requests : create_ingestion(o, r)
         \/ ensure_compilation_resource(o)
         \/ cancel_job(o)
         \/ operator_step(o)
         \/ compile_fails(o)
         \/ publish_certified(o)
         \/ worker_lost(o)
         \/ \E stage \in StagesOf(o) :
              \/ worker(o, stage)
              \/ job_complete(o, stage)
              \/ job_fails(o, stage)
              \/ job_collected(o, stage)
              \/ pods_end(o, stage)

ControlSpec == ControlInit /\ [][ControlNext]_controlVars

\* Requeued resources are reconciled again, an error is requeued.  The pods of
\* an active Job are rescheduled until they succeed or the Job ends, a process
\* between its two transactions goes on or dies, and ended Jobs are collected;
\* none of these can go on for ever while the operator does nothing.
cluster_step(o) ==
    \/ publish_certified(o)
    \/ \E stage \in StagesOf(o) :
         \/ jobs[o][stage] = "active" /\ worker(o, stage)
         \/ job_complete(o, stage)
         \/ ~Awaited(o, stage) /\ job_collected(o, stage)

ControlFairness ==
    \A o \in Operations :
        /\ WF_controlVars(operator_step(o))
        /\ WF_controlVars(cluster_step(o))

ControlFairSpec == ControlSpec /\ ControlFairness

-----------------------------------------------------------------------------
(* Properties                                                              *)

\* An operation is failed for a cause: a Job whose retries were exhausted or a
\* compilation that failed.  No operator, however old the state it acts on,
\* takes a Job that did its work for one that ended without its commit.
FailedForCause ==
    \A o \in Operations :
        /\ error[o] # None => state[o] = "FAILED" /\ faults > 0
        /\ \A stage \in StagesOf(o) : error[o] # CompletedWithoutCommit(stage)

\* Pods outlive their Job and their operation.  Whatever they still commit, a
\* FAILED or CANCELLED operation keeps its outcome and its reason, adds no
\* evidence and never gets a snapshot.
AbortedIsFrozen ==
    [][\A o \in Operations : state[o] \in Aborted =>
         /\ state'[o] = state[o] /\ build'[o] = build[o] /\ error'[o] = error[o]
         /\ snapshot'[request[o].target] = snapshot[request[o].target]]_controlVars

Settled(o) ==
    /\ state[o] \in {"CERTIFIED", "PUBLISHED"} =>
           status[o] \in {"CERTIFIED", "PUBLISHED"}
    /\ state[o] \notin {"CERTIFIED", "PUBLISHED"} =>
           state[o] \in Aborted /\ status[o] = state[o]
    /\ state[o] = "CANCELLED" => \A stage \in StagesOf(o) : jobs[o][stage] = "none"

\* Every compilation whose resource exists is certified, failed or cancelled,
\* though Jobs fail, are collected, or end while the operator restarts; its
\* status then stays with the outcome (a publication that follows may not be
\* reported); and the Jobs of a cancelled one are gone for good, also when one
\* of them was created from an older state.
CompilationSettles == \A o \in Operations : o \in resource ~> []Settled(o)

TargetPublishable(o) == request[o] # None /\ Publishable(request[o].target)

\* An AUTOMATIC operation is published once its certification allows it, also
\* when the worker dies between the two transactions, unless the Job that
\* would restart it is over too or another publication gets in first.
AutomaticPublicationCompletes ==
    \A o \in Operations :
        (o \in followup /\ TargetPublishable(o)) ~>
            \/ ~TargetPublishable(o)
            \/ o \in lost /\ \A stage \in StagesOf(o) : jobs[o][stage] # "active"
=============================================================================
