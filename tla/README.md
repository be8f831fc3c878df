# Verification of the NGKG control plane and query path

NGKG is an ontology-native, distributed RDF database written in Rust: sources
are compiled into immutable snapshots by Jobs on Kubernetes, and readers query
the snapshot that is active for a dataset. This directory holds TLA+ models of
the parts of it that run concurrently and survive faults, the TLC
configurations that check them and proofs that TLAPS checks. Paths below are
relative to `src/`.

## 1. Inventory

| Component | Where | State | Operations | Hard because |
|---|---|---|---|---|
| Catalog: jobs | `crates/ngkg-catalog`, `migrations/0001`, `0002`, `0011` | `operation` (state, revision), `operation_audit`, `compilation_request` | create, cancel, fail, transition | clients, operators and workers change one row; a trigger guards every update |
| Catalog: build evidence | same, `migrations/0003`-`0005` | plan, work rows, five roots | register, commit work, commit roots | barriers passed by whichever worker commits last; retries, late workers |
| Catalog: publication | same, `migrations/0007` | `snapshot`, `dataset.active_snapshot_id`, `cloud_snapshot_activation` | certify, activate, publish, read active | compare-and-swap races, two transactions with a crash between them |
| Catalog: stages | same, `migrations/0010` | `orchestration_stage` | reserve, mark running, complete | outlives the Jobs it records |
| Compilation operators and workers | `services/operator`, `services/distributed-*`, `services/reference-worker` | Jobs, objects, status | reconcile of `NgkgCompilation`, nine build stages, the reference compile | an operator acts on what it read several calls ago; pods outlive Jobs; restarts and rollouts |
| Operator: source import | `services/operator` | none of its own: a watched copy of the status | reconcile, cleanup | many API calls per reconciliation, crashes, stale copies, TTL collection, deletion |
| Cloud workers | `services/reference-worker/src/cloud_*.rs` | objects, digests in the status | import, decode, semantic, ontology, offline, activate | write the digest that moves the pipeline before their Job ends |
| Storage recovery | `crates/ngkg-storage-recovery`, `services/storage-recovery-*`, `migrations/0008` | recovery operations, replicas, backups | plan, create, transition, fail, commit | two operators without leader election, partial copies, repeated requests |
| Online serving, query cache, query log | `services/online-serving`, `crates/ngkg-query-cache`, `migrations/0009` | per-pod caches, locks, flights, log rows | query, load, hydrate, cache, finalize | publications between the reads of one query, shared locks, disconnects |
| CPU work plane | `mcp-agents/crates/ngkg-cpu-work-plane`, `mcp-agents/services/qualification-worker`, `mcp-agents/migrations-agents/0006` | workloads, partitions, a claim queue | create, claim, checkpoint, complete, fail, cancel | leases that expire, late reports, a report in two transactions |
| Tenant admission, source uploads, shuffle cache, grace join | `services/online-serving/src/tenant_admission.rs`, `crates/` | permits, reservations, entries | admit; reserve, publish; fetch; spill | limits, retries |
| Reasoners, compilers, query engine | remaining `crates/` | data | pure transformations | size of the data, not interleavings |
| Other agents | `mcp-agents/` | leases, slices, memory, turns | claim, renew, release; broker calls | lease expiry, collection against use |

Components interact through PostgreSQL (one transaction per repository method),
the Kubernetes API (Jobs, the status of custom resources, watches), the object
store (immutable, content-addressed objects) and HTTP between query and
hydration pods. `PROJECT.json` lists every component, the hazards at their lines
and the properties that cover them.

What makes each modelled part correct:

* jobs: a gap-free history of legal edges; no job is both aborted and certified;
* evidence: complete, bound to what it was derived from, never replaced;
* publication: no lost update of the active pointer, a reader that never fails,
  one unbroken chain of served snapshots per dataset;
* compilations: failed only for a cause, frozen once aborted, and settled;
* imports: stages in order, a completion record that is true and final, no Job and
  at most one stage still committing after a deletion, and an end;
* storage: what is offered is verified, every artifact stays available, an
  outcome is decided once and reported;
* queries: an answer of one snapshot that was not already replaced when the
  query began, one computation per cache key at a time, and an end;
* work plane: a complete workload is whole, only the last lease reports, a
  cancelled workload stops, and what is READY is claimed.

## 2. Modules

| Module | Models |
|---|---|
| `JobLifecycle` | `JobState`, `may_transition` and the paths walked in one transaction |
| `Catalog` | the repository methods of the first three rows above; one action per method |
| `SnapshotLineage` | abstract specification: what the catalog promises its readers |
| `CompilationControl` | extends `Catalog` with its callers: API, both operators, Jobs and pods |
| `SourceImport` | the import pipeline: operator, stage rows, Jobs, workers, TTL, deletion |
| `StorageRecovery` | plans, operations, replicas and backups; API, operator replicas, both Jobs |
| `QueryServing` | extends `SnapshotLineage` with its readers: queries on a query and a hydration pod |
| `WorkPlane` | the work plane's three tables, its transactions and its worker processes |
| `MCCatalog`, `MCRecovery`, `MCWorkPlane` | symmetry sets and instances for TLC; a check of the certification loop |
| `*_proofs` | theorems and lemmas |

`Catalog` extends `JobLifecycle` and instantiates `SnapshotLineage` with a
refinement mapping, so `QueryServing`, which reads the abstract lineage, holds
over the catalog as well. Definitions marked `Mutant: ...` in their comments are
plausible bugs of the code; they are used by no specification and document what
each property would catch.

### Catalog

One action is one transaction: every method locks the rows it decides on (`FOR
UPDATE`, or a guarded `UPDATE`) before it reads them. Callers are unconstrained,
so every order of clients, operators and workers is a behaviour. An error, or a
repeated call, that changes nothing is a stuttering step. The certifying methods
commit and then call `publish_snapshot` in a second transaction: `followup`
holds the calls in between, `Crash` moves one to `lost`, and
`RetryCertification` is the retried call. `build[o]` gathers the rows of one
build: the plan, the finished work by kind, and the roots, whose contents are
members of `Digests`. A distributed plan is registered only for the operations
in `Distributed`, since the distributed operator only serves its own resource
profile. `SchemaVersion` selects the row trigger: schema 10 repeats the check of
`may_transition`; schema 11 is the function of `migrations/0011`, which cannot
run. `ready()` accepts any schema from 9 on, and the passing runs use 10.

### CompilationControl

`at[o]` is the operator's position in the reconciliation of a resource: read the
catalog, ensure the Job of the stage that is due, look at it, read the catalog
again, fail the operation or patch the status. The reads of one reconciliation
are one step: rows are only added, and they are read in the order in which they
are added. A Job deleted with the default policy of `batch/v1` leaves its pods
running, so `late` pods still commit. A release changes the hash of the work
specification; the Jobs of an earlier one (`outdated`) are refused until they
are collected. Each operator has one replica. Collecting the Job of the awaited
stage before the operator has looked at it counts as a fault: the TTL is a day
in the chart. Pod templates and arguments are left out, and what a worker computes
is a digest.

### SourceImport

The import walks fourteen stages in six phases. `Roots` are the last stages of
the phases, whose workers write the digest that selects the next phase;
`Awaited` are stages whose digest the same phase waits for. A reconciliation is
the sequence of steps in `at`: reserve the row, inspect the Job, create it, mark
the row, look at the Job again and go on to the next stage or return. `seen` is
the operator's copy of the status. One operator runs (`operator.replicas: 1` in
the chart) and the controller serialises the reconciliations of one import.
Jobs run, publish, complete, fail and are collected at any time. The cleanup
deletes Jobs with the default policy of `batch/v1` too, which orphans their pods:
`late` are the stages whose pods may still publish, and activate, without a Job,
even when the import is gone. The persistent volume and its claim are left out;
the cleanup deletes them after the Jobs and before the finalizer goes, and a
failure there, or a refusal (a claim that is not the import's, a volume that does
not validate), is a `Crash`: the finalizer stays and the cleanup starts over.
`DeletionCompletes` therefore assumes that such refusals do not go on for ever; a
claim somebody else owns would keep the import until it is removed. The RBAC objects, the text of conditions and the hash of the
stage specification (constant while an import runs) are left out.

### StorageRecovery

A request becomes a plan (`Tasks`: copies chosen by rendezvous rank in failure
domains not used yet), an operation row, primary replica rows and a resource.
Every call of a reconciliation is a step, for each replica of the operator: the
chart runs two and no leader is elected. Pods copy, write results and are lost
between the two. Left out: status conditions, the separate write of the restore
certificate, the discovery of the artifact closure (`Artifacts`). A reconciliation
starts from a current copy of the resource. Collecting a complete Job that is still
waited for counts as a fault; a FAILED operation awaits a change, but the TTL
deletion of its Job is one, so it is reconciled again.

### QueryServing

A query is a future that moves through `request[r].pc`: log record, graph
authorization, semantic state, resolution, flight, cache lookup, evaluation,
hydration on the other pod, cache insert, log record. The active snapshot is read
for the authorization, for the semantic state and again in the authorization
nested in it, and on the hydration pod; `Publication` may fall between any two.
Load locks are the steps that hold them; a flight is a mutex per cache key in
a registry, and the lease dropped by a request spawns the `Cleanup` task that may
remove the key. `lookup` may always miss: eviction, a bad checksum and a refused
entry look the same. A query that asks for hydration may qualify no entity in the
snapshots of `Barren`; it is answered, and cached, without. A `Cleanup` task runs
beside the drop that spawned it, so it may count the reference of its own dropped
lease and leave the key; how often counts against `MaxFaults`. `Error` and `Disconnect` end a future wherever it stands; its
locks go with it and its log record stays RUNNING when nobody finalizes it.
`authorization_state` is one step: its cache is only touched under its lock, whose
holder waits for nobody. Left out: the `online_direct` mode, scatter to other pods,
blocking tasks that go on after their request was dropped, restarts of pods.

### WorkPlane

`part` and `queue` are the two rows of each partition, `workload` the header with its
counters. A lease token is a fresh UUID in the code and the attempt number here,
which tells the claims of one partition apart. A clock reading is reduced to
whether the stored expiry has passed: `Expire` lets it pass, a renewal takes it
back, and a renewal may also be refused, since the trigger demands a later expiry
than the stored one (`0006:121`) and the worker's clock may trail the database's.
`claim_cpu_partition` of migration 0006 raises whenever it finds a row (finding 4):
`AmbiguousClaim = TRUE` is that function, in which nothing is ever claimed, and
`FALSE` the function with its columns qualified, as in migrations 0003 and 0007. The
second only adds behaviours, so the safety properties checked and proved of it hold
of the code as it is; they are what the rest of the work plane (reports, leases,
cancellation) has to offer a claim that works. `claim` skips
rows other transactions have locked, so it may meet any claimable rows in queue
order. The three lock orders (claim: queue, partition, workload; report:
partition, queue, workload; cancellation: workload, partition, queue) can deadlock;
PostgreSQL aborts one, which is a `DatabaseError`. Checkpoints are never read back
and are left out.

## 3. Runs

| Run | Configuration | Bounds | Shows |
|---|---|---|---|
| `build` | `Build.cfg` | 1 job, 2 partitions, 2 reducers, 2 contents, 1 crash | evidence complete, bound and final; barriers exact and rows in order (the inductive `BuildInv`); audit is a history; the reader never fails |
| `publication` | `Publication.cfg` | 3 jobs, 2 datasets, 3 snapshots | tables agree, no lost publication, refinement of `SnapshotLineage` |
| `compilation` | `Compilation.cfg` | 1 of 2 compilations (distributed or reference), 1 restart, 1 fault, 1 crash | failed only for a cause, frozen when aborted, settled; automatic publication finished |
| `import` | `Import.cfg` | 5 stages, 3 phases, 2 faults, 2 collections | order, truth and finality of stage records; a deletion leaves no Job and at most one stage; imports and deletions end |
| `recovery` | `Recovery.cfg` | 2 operations of any kind, 4 targets, 1 operator, no fault | the inductive `RecoveryInv`; offered replicas verified, artifacts available, restores have sources, distinct failure domains |
| `recovery_race` | `RecoveryRace.cfg` | 1 operation, 2 operators, 2 faults | decided once, ends, certificate reported |
| `work_plane` | `WorkPlane.cfg` | 2 workloads, 3 partitions, 2 workers, 2 attempts, 1 fault | the inductive invariant and its parts, with the claim qualified; the triggers refuse nothing but renewals |
| `serving` | `Serving.cfg` | 2 snapshots, 2 concurrent queries and a third, 1 fault | whole and fresh answers, single flight, chain, queries end |
| `schema_eleven` | `SchemaEleven.cfg` | as `compilation` | **violation**: no job leaves its state under migration 0011 |
| `serving_certificate` | `ServingCertificate.cfg` | as `build` | **violation**: a cloud activation publishes without the serving certificate PHASE_19 requires |
| `import_ttl` | `ImportTtl.cfg` | 7 stages, 4 phases, 1 collection, no fault | **violation**: an import waits for a collected Job for ever |
| `work_claim` | `WorkClaim.cfg` | 1 workload of 2 partitions, 2 workers, the claim of migration 0006 | **violation**: no READY partition is ever leased |

Why the bounds are enough. Two partitions and two reducers separate "one is
finished" from "all are finished"; two contents separate a matching root from
another one. Three jobs on two datasets give a race between siblings, a child of
the winner, and a foreign parent. One compilation at a time meets every stage,
every stale read and one restart; the races between compilations are those of
`publication`. Five import stages include a phase with an awaited stage inside
and one without; the fourteen-stage pipeline takes TLC too long, and the theorems
cover every pipeline. Two storage operations give a relocation after a
relocation and a restore of a backup, without faults (pods that die part way are
covered by the theorem `OfferedReplicasAreVerified`); two operators on one operation with two
faults give every lost patch and late decision. Two attempts let a partition be
taken over, reported late and exhausted, and the second workload shares workers
and queue with the first. Two snapshots put one publication between any two reads
of a query; the third query, which takes the place of one that has ended and
counts against `MaxFaults`, is what a removed and remade flight needs.
`recovery` and `recovery_race` check for deadlock too. The other runs do not:
a catalog nobody calls, an import that has ended or gone, finished work and
answered queries may stop.

Symmetry is used in the safety runs of the catalog only; its sets permute
identifiers that no action distinguishes.

### Fairness

* Compilations: `operator_step`, a controller requeues or is woken and its calls
  return; `cluster_step`, pods and the Job controller go on, so a Job completes
  or fails. A client's cancellation, a restart and a loss are not fair.
* Imports: `Reconcile` and `Work` likewise. `WatchStatus` is strongly fair: the
  watch runs beside the reconciliations and the model only delays its effect to
  their end, so it cannot be starved.
* Storage: `reconcile_step` of each operator, `job_step`, and the TTL collection
  of failed Jobs, which `ttlSecondsAfterFinished` guarantees.
* Queries: the executor polls futures and spawned tasks; evaluations are bounded by
  the query timeout. Publications, errors and further queries are not fair.
* Work plane, in `work_claim` only: a worker's loop claims again and again, a kernel
  on bounded input ends and reports, and time passes.

Weak fairness is enough for the waiting ones too: Tokio's mutexes are granted in
order of arrival, and the number of queries, which a request could be overtaken
by, is bounded.

## 4. Findings

1. `migrations/0011:11` reads `NEW.kind`, a column `operation` does not have; every
   transition fails under the newest schema (`schema_eleven`).
2. `publish_snapshot` accepts a cloud activation *or* a serving certification,
   `docs/phases/PHASE_19.md` requires the certification whenever a serving root
   exists (`serving_certificate`). What is served stays consistent. The trace is one
   of calls the catalog accepts; no shipped service makes both on one operation.
3. A SUCCEEDED stage whose Job is gone is skipped by `ensure_cloud_stage_job` and
   then waited for by its caller (`import_ttl`). It takes a phase longer than the
   TTL: for instance a failed stage, which is only replaced after its own TTL.
   `CompletesUnlessCollected` states what remains.
4. `claim_cpu_partition` (`mcp-agents/migrations-agents/0006:140`) returns a table
   whose column names are PL/pgSQL variables too, and its updates
   (`0006:156-163`) use them unqualified: PostgreSQL raises 42702 in every call that
   finds a row, and nothing is ever leased (`work_claim`), while
   `mcp-agents/docs/CPU_HPC_KUBERNETES.md:12` describes workers that claim and
   recover leases through it.

Noticed, not stated as runs:

* the last stage of an import's phase is normally not inspected again once its
  digest is visible, so its row stays RUNNING, while
  `docs/ENTERPRISE_STABILIZATION_PHASE_4.md:8` wants terminal evidence
  committed before collection; nothing later depends on that row;
* `complete_orchestration_stage` admits FAILED to SUCCEEDED while the trigger of
  `migrations/0010` refuses it, so a stage retried after a crash between creating
  its Job and marking its row errs until the Job is collected;
* the specification hash of a stage includes the worker image, so an upgrade
  during an import is a conflict, and during a compilation a wait for the TTL;
* `observedGeneration` is among the fields both of the operator and of the
  discovery worker;
* a reference-only job with the AUTOMATIC policy has no evidence
  `publish_snapshot` accepts and stays CERTIFIED;
* the Jobs of a FAILED storage operation are created and run again after every
  TTL; their outcome is refused;
* pods orphaned by the deletion of an import may still write their output, the
  activation of a snapshot included, when the import is gone (`late`);
* hidden as long as nothing can be claimed: `complete` reports a partition in one
  transaction and completes the workload in a second one that nobody repeats, so a
  fault between them leaves the workload RUNNING for ever
  (`ngkg-cpu-work-plane/src/lib.rs:339`); partitions of a FAILED workload go on being
  claimed and run; any infrastructure error of a worker, a first renewal refused
  because its clock trails the database's included, fails its whole workload;
* an uncertified query keeps the graph set of its first authorization when a
  publication follows, so its set and its rows may be of two snapshots; certified
  queries compare the two, and `AnswerIsWhole` claims it for those only;
* a cleanup task that counts the lease that spawned it, or two that count each
  other, may leave an idle cache key in the registry, against `docs/phases/PHASE_26.md:56`; the next request for the key
  reuses it;
* a query whose client goes away keeps its log record RUNNING.

## 5. Proofs

Every invariant and action property of a passing run is a theorem. All theorems
hold for every value of the constants that satisfies the named assumptions: bounds
are naturals; `None`, SQL's NULL, is no row, no identifier and no error code; work
has at least one partition and one reducer; the first and the last stage of an
import are roots; storage requests have a known kind and a replication factor from
1 to 16 and every artifact ranks the targets; every partition of the queue has an
owner. The theorems on queries are for one dataset, finitely many snapshots and
finitely many request slots; a slot serves one query after another.

* `SnapshotLineage_proofs`: `LineageIsAChain`. `Chain` is inductive together with
  the type invariant.
* `Catalog_proofs`: `CatalogInvariant` proves
  `CatalogInv == TypeOK /\ RequestRows /\ TablesAgree /\ EvidenceRows`. The
  agreement of the tables is not inductive alone: publication needs that targets
  are unique and parents belong to the dataset (`RequestRows`), and the reader
  needs that an activation names the manifest of its snapshot and a certificate
  its serving root (`EvidenceRows`). From it follow `TablesAgreeAlways`,
  `ActiveIsAlwaysServable`, `NoPublicationIsLost`, the refinement
  `CatalogRefinesLineage` and, through it, `ServedSnapshotsFormAChain`.
  `AuditIsAlwaysHistory`: the audit rows of a job are its legal path, numbered
  without a gap; an absent job has revision 0. `BuildInvariant` proves `BuildInv`:
  that the barriers are exact is not inductive alone, it needs that the rows of a
  build arrive in order (`InOrder`), each after the row it was derived from.
  From it follow `CertificatesStandOnBuilds`, `EvidenceIsAlwaysFinal` and
  `ServingJobsArePublishable`.
* `CompilationControl_proofs`: `ControlImplementsCatalog`: every step of the API, the
  operators, the Jobs and the pods is a catalog step or leaves its tables alone,
  so all the theorems on the catalog hold of a compilation;
  `CompilationsServeSafely` collects the ones a reader relies on.
  `ControlInvariant` proves `ControlInv` (defined in this module): a complete Job
  stands for work that is durable and a failed one for a fault or an aborted
  operation, and so does what an operator remembers of a Job between two calls.
  Both stay true because rows are only added, faults only counted up, and an
  aborted job stays aborted; the step that decides to fail an operation also needs
  `BuildInv` and that a registered plan has moved its job out of REGISTERED. From it
  follow `OperationsFailForCause` and, step by step, `AbortedStaysFrozen`.
* `SourceImport_proofs`: `ImportInvariant` proves `ImportInv`, whose part
  `Position` says where a reconciliation may stand: only at a stage whose inputs
  are durable, past the reservation only if the stage has not succeeded, in the
  cleanup with every remaining Job on its list. From it follow `StagesInOrder`,
  `RecordsFollowWork`, `DeletionsLeaveOneStage` and `SucceededStaysFinal`. At most one
  stage outlives a deletion because a stage whose pods have yet to publish has all
  earlier ones published, and nothing published is still `late`.
* `StorageRecovery_proofs`: `RecoveryInvariant` proves `RecoveryInv`. That every
  artifact keeps a READY replica needs that only primary rows are ever retired and
  that they are registered before an operation has a resource (`PrimariesStand`,
  `ResourcesStand`); that an offered replica was verified needs the chain from a
  SUCCEEDED operation over its certificate and its results to the copies
  (`EvidenceStands`); that a restore has its sources needs that the backup it names
  stays committed and was accepted with targets in two failure domains, so that its
  plan covers every artifact (`RequestsStand`). From it follow `OfferedReplicasAreVerified`,
  `ArtifactsAreAvailable`, `RestoreSourcesExist`, `CopiesAreSpread` and, step by
  step, `OutcomesAreFinal`, for any number of operator replicas and faults.
* `QueryServing_proofs`: `ServingInvariant` proves `ServingInv` (defined in this
  module). An answer is fresh because a publication only serves a snapshot that was
  never served before, so no snapshot a request saw replaced becomes active again;
  it is whole because the snapshot a request is bound to fixes its cache key, its
  rows and its hydration (`RequestsStand`), and a cached answer is of the snapshot in
  its key (`CachesStand`). One computation per key needs that whoever has a lease
  has it on the mutex the registry holds for its key (`FlightsStand`), which the
  reference count in the cleanup task keeps. `Flights` is finite; a counting
  lemma shows that an unused mutex always exists, so the bound excludes no
  behaviour. From it follow `ServingTyping`, `ServingKeepsTheChain`,
  `AnswersAreWhole`, `AnswersAreFresh` and `FlightsAreSingle`.
* `WorkPlane_proofs`: `WorkInvariant` proves `WorkInv`. A complete workload is whole
  only because the counter `finalize_if_complete` trusts is exact
  (`CountIsExact`), which needs that a report closes a row no other report has
  closed: `QueueMirrors` (the queue and the partition's row agree) and
  `LeasesFit` (a lease is held by the latest attempt alone). `HeadersFit` says
  that a workload that is READY has no claimed partition, so the first claim
  finds counters at zero. From it follow `CompleteWorkIsWhole`,
  `LastLeaseReports`, `CancellationStops` and, step by step,
  `TriggersRefuseRenewalsOnly`, all for both values of `AmbiguousClaim`. The abstract
  clock does not carry the later-expiry condition on renewals, so that theorem says
  nothing of them: `checkpoint` lets every one be refused.
  The counting steps cite the cardinality theorems of `FiniteSetTheorems`.
* `JobLifecycle_proofs`: lemmas on edges and paths.

Only model-checked: the liveness properties, since fairness is out of the prover's
reach (`CompilationSettles`, `AutomaticPublicationCompletes`,
`CompletesUnlessCollected`, `DeletionCompletes`, `OperationsEnd`,
`CertificatesReported`, `QueriesEnd`), and `LoopIsPath` of `MCCatalog`,
which compares the certification loop of the code with the path `Catalog` uses.
`ControlInv` and `ServingInv` were checked by TLC on the instances of `compilation`
and `serving` before they were proved.

## 6. Not modelled, and the plan

Most of the repository's hundred thousand lines are reasoning, SPARQL compilation
and execution, file formats, hashing and numerical code: sequential
transformations of large data, out of TLC's reach, whose results appear here as
digests. The validating and reading routes of the HTTP API, pod templates and
metrics change no shared state. What remains of the concurrent code, in the order
in which it is worth modelling:

1. Tenant admission (`services/online-serving`): weighted turns, pending slots and
   permits, and whether three tenants can use up the pending slots of a fourth.
2. Prompt compilation leases (`ngkg-agent-input`), after the pattern of
   `WorkPlane`: their claim works, so that every prompt ends, and the gap between
   the two transactions of their report, are worth stating there; context slices against their collection; the orchestrator's turns.
3. `PublishStatements`: the statements and row locks of `publish_snapshot`, shown
   to implement the one-step `PublishTx`.
4. Source uploads: reservation and publication under retries.
5. Server-side apply of the import status by its managers.

Each comes with its inductive invariant, checked by a run and then proved, as
above.
