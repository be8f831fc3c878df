------------------------------ MODULE Catalog -------------------------------
(***************************************************************************)
(* The PostgreSQL catalog of ngkg-catalog: compilation jobs, the evidence  *)
(* distributed workers commit for them, the snapshots they certify and the *)
(* active snapshot of each dataset.                                        *)
(*                                                                         *)
(* One action is one repository method, and one method is one transaction: *)
(* every method locks the rows it decides on (FOR UPDATE, or a guarded     *)
(* UPDATE) before it reads them.  The exceptions are the two certifying    *)
(* methods, which run publish_snapshot in a second transaction; the calls  *)
(* between their two transactions are the set followup.  A call that       *)
(* returns an error, or repeats what is already committed, changes nothing *)
(* and is a stuttering step.  Callers are unconstrained: any method may be *)
(* called at any time, by any number of workers, operators and clients.    *)
(***************************************************************************)
EXTENDS JobLifecycle, FiniteSets

CONSTANTS
    Operations,      \* idempotency keys; operation_id is one-to-one with them
    Distributed,     \* operations whose resource profile the distributed operator serves
    Datasets,
    Snapshots,       \* snapshot identifiers a client may choose as a target
    Partitions,      \* logical partitions of a distributed plan
    Reducers,
    Digests,         \* contents of roots and manifests, told apart by sha256
    None,            \* NULL, or a row that does not exist
    SchemaVersion,   \* highest migration applied: 10, or 11
    MaxCrashes       \* bound on the workers lost between two transactions

ASSUME DistributedAssumption == Distributed \subseteq Operations
ASSUME WorkAssumption == Partitions # {} /\ Reducers # {}
ASSUME NoneAssumption ==
    None \notin Operations \cup Datasets \cup Snapshots \cup Digests
ASSUME SchemaAssumption == SchemaVersion \in {10, 11}
ASSUME MaxCrashesAssumption == MaxCrashes \in Nat

VARIABLES
    datasets,        \* rows of dataset
    active,          \* dataset.active_snapshot_id
    request,         \* rows of compilation_request
    state,           \* operation.state, or "ABSENT" without the row
    revision,        \* operation.revision
    audit,           \* operation_audit.new_state in revision order
    build,           \* the rows of the distributed build of each operation
    cloud_activation, \* its reference manifest
    snapshot,        \* rows of snapshot
    followup,        \* certified by a live worker that has still to publish
    lost,            \* its worker died there; the Kubernetes Job restarts it
    crashes

job == <<state, revision, audit>>
publication == <<active, snapshot>>
caller == <<followup, lost, crashes>>
vars == <<datasets, request, job, build, cloud_activation, publication, caller>>

Policies == {"MANUAL_AFTER_CERTIFICATION", "AUTOMATIC_AFTER_CERTIFICATION"}

Requests == [dataset : Datasets, target : Snapshots,
             parent : Snapshots \cup {None}, policy : Policies]

\* distributed_plan, the SUCCEEDED rows of distributed_work by kind, and the
\* five rows committed after them.
Builds == [plan : BOOLEAN,
           projected : SUBSET Partitions,
           reduced : SUBSET Reducers,
           artifacts : SUBSET Partitions,
           distributed_root : Digests \cup {None},
           artifact_plan : Digests \cup {None},
           artifact_root : Digests \cup {None},
           serving_root : [root : Digests, source : Digests] \cup {None},
           serving_certification : [root : Digests, manifest : Digests] \cup {None}]

EmptyBuild == [plan |-> FALSE, projected |-> {}, reduced |-> {}, artifacts |-> {},
               distributed_root |-> None, artifact_plan |-> None,
               artifact_root |-> None, serving_root |-> None,
               serving_certification |-> None]

SnapshotRows == [dataset : Datasets, parent : Snapshots \cup {None},
                 operation : Operations, manifest : Digests,
                 state : {"CERTIFIED", "PUBLISHED", "RETIRED"}]

ASSUME NoneRowAssumption ==
    /\ None \notin Requests
    /\ None \notin SnapshotRows
    /\ None \notin [root : Digests, source : Digests]
    /\ None \notin [root : Digests, manifest : Digests]
    /\ None \notin [dataset : Datasets, parent : Snapshots \cup {None}]

Init ==
    /\ datasets = {}
    /\ active = [d \in Datasets |-> None]
    /\ request = [o \in Operations |-> None]
    /\ state = [o \in Operations |-> "ABSENT"]
    /\ revision = [o \in Operations |-> 0]
    /\ audit = [o \in Operations |-> << >>]
    /\ build = [o \in Operations |-> EmptyBuild]
    /\ cloud_activation = [o \in Operations |-> None]
    /\ snapshot = [s \in Snapshots |-> None]
    /\ followup = {}
    /\ lost = {}
    /\ crashes = 0

-----------------------------------------------------------------------------
(* Jobs                                                                    *)

\* The row trigger that runs before every UPDATE of operation.  Up to schema
\* 10 it checks the edge may_transition has just checked.  Schema 11 replaces
\* it by a function that reads NEW.kind, a column the table does not have, so
\* the statement fails and its transaction with it.
operation_transition_guard == SchemaVersion < 11

\* Mutant: several transitions in one transaction count as one revision.
transition_locked_once(o, path) ==
    /\ operation_transition_guard
    /\ state' = [state EXCEPT ![o] = path[Len(path)]]
    /\ revision' = [revision EXCEPT ![o] = @ + 1]
    /\ audit' = [audit EXCEPT ![o] = @ \o path]

\* Walk one locked operation along the states of path, one revision and one
\* audit row for each.
transition_locked(o, path) ==
    /\ operation_transition_guard
    /\ state' = [state EXCEPT ![o] = path[Len(path)]]
    /\ revision' = [revision EXCEPT ![o] = @ + Len(path)]
    /\ audit' = [audit EXCEPT ![o] = @ \o path]

create_dataset(d) ==
    /\ d \notin datasets
    /\ datasets' = datasets \cup {d}
    /\ UNCHANGED <<request, job, build, cloud_activation, publication, caller>>

\* Mutant: the parent is looked up without its dataset.
create_with_any_parent(o, r) ==
    /\ r.dataset \in datasets
    /\ r.parent # None => snapshot[r.parent] # None
    /\ state[o] = "ABSENT"
    /\ \A p \in Operations : request[p] # None => request[p].target # r.target
    /\ request' = [request EXCEPT ![o] = r]
    /\ state' = [state EXCEPT ![o] = "REGISTERED"]
    /\ audit' = [audit EXCEPT ![o] = <<"REGISTERED">>]
    /\ UNCHANGED <<datasets, revision, build, cloud_activation, publication, caller>>

\* The target is unique among all requests of the tenant.
create_or_get_compilation(o, r) ==
    /\ r.dataset \in datasets
    /\ r.parent # None =>
         /\ snapshot[r.parent] # None
         /\ snapshot[r.parent].dataset = r.dataset
    /\ state[o] = "ABSENT"
    /\ \A p \in Operations : request[p] # None => request[p].target # r.target
    /\ request' = [request EXCEPT ![o] = r]
    /\ state' = [state EXCEPT ![o] = "REGISTERED"]
    /\ audit' = [audit EXCEPT ![o] = <<"REGISTERED">>]
    /\ UNCHANGED <<datasets, revision, build, cloud_activation, publication, caller>>

Abort(o, to) ==
    /\ may_transition(state[o], to)
    /\ transition_locked(o, <<to>>)
    /\ UNCHANGED <<datasets, request, build, cloud_activation, publication, caller>>

\* The caller holds the current revision; with an older one it is refused.
cancel(o) == Abort(o, "CANCELLED")

fail(o) == Abort(o, "FAILED")

-----------------------------------------------------------------------------
(* The distributed build: plan, work barriers, roots                       *)

register_distributed_plan(o) ==
    /\ o \in Distributed
    /\ ~build[o].plan
    /\ state[o] = "REGISTERED"
    /\ build' = [build EXCEPT ![o].plan = TRUE]
    /\ transition_locked(o, Path("REGISTERED", "PARTITIONED"))
    /\ UNCHANGED <<datasets, request, cloud_activation, publication, caller>>

\* Mutants: the summary is loaded before the commit it should count.
commit_projection_stale_summary(o, p) ==
    /\ build[o].plan
    /\ p \in build[o].projected \/ state[o] = "PARTITIONED"
    /\ build' = [build EXCEPT ![o].projected = @ \cup {p}]
    /\ IF state[o] = "PARTITIONED" /\ build[o].projected = Partitions
         THEN transition_locked(o, <<"PROJECTED">>)
         ELSE UNCHANGED job
    /\ UNCHANGED <<datasets, request, cloud_activation, publication, caller>>

commit_reducer_stale_summary(o, r) ==
    /\ build[o].plan
    /\ r \in build[o].reduced \/ state[o] = "PROJECTED"
    /\ build' = [build EXCEPT ![o].reduced = @ \cup {r}]
    /\ IF state[o] = "PROJECTED" /\ build[o].reduced = Reducers
         THEN transition_locked(o, Path("PROJECTED", "INDEXED"))
         ELSE UNCHANGED job
    /\ UNCHANGED <<datasets, request, cloud_activation, publication, caller>>

\* commit_distributed_work, by kind.  The commit that completes a kind also
\* moves the job over the barrier; a repeated commit counts again.
commit_projection(o, p) ==
    /\ build[o].plan
    /\ p \in build[o].projected \/ state[o] = "PARTITIONED"
    /\ build' = [build EXCEPT ![o].projected = @ \cup {p}]
    /\ IF state[o] = "PARTITIONED" /\ build[o].projected \cup {p} = Partitions
         THEN transition_locked(o, <<"PROJECTED">>)
         ELSE UNCHANGED job
    /\ UNCHANGED <<datasets, request, cloud_activation, publication, caller>>

commit_reducer(o, r) ==
    /\ build[o].plan
    /\ r \in build[o].reduced \/ state[o] = "PROJECTED"
    /\ build' = [build EXCEPT ![o].reduced = @ \cup {r}]
    /\ IF state[o] = "PROJECTED" /\ build[o].reduced \cup {r} = Reducers
         THEN transition_locked(o, Path("PROJECTED", "INDEXED"))
         ELSE UNCHANGED job
    /\ UNCHANGED <<datasets, request, cloud_activation, publication, caller>>

\* Mutant: work is accepted whatever has become of the job.
commit_artifact_late(o, p) ==
    /\ build[o].artifact_plan # None
    /\ p \notin build[o].artifacts
    /\ build' = [build EXCEPT ![o].artifacts = @ \cup {p}]

\* The rows below are written while the job is INDEXED and move it nowhere.
commit_artifact(o, p) ==
    /\ state[o] = "INDEXED"
    /\ build[o].artifact_plan # None
    /\ p \notin build[o].artifacts
    /\ build' = [build EXCEPT ![o].artifacts = @ \cup {p}]

commit_distributed_root(o, digest) ==
    /\ state[o] = "INDEXED"
    /\ build[o].plan
    /\ build[o].reduced = Reducers
    /\ build[o].distributed_root = None
    /\ build' = [build EXCEPT ![o].distributed_root = digest]

\* digest is the dictionary the plan was made for.
register_artifact_plan(o, digest) ==
    /\ state[o] = "INDEXED"
    /\ build[o].plan
    /\ build[o].distributed_root = digest
    /\ build[o].artifact_plan = None
    /\ build' = [build EXCEPT ![o].artifact_plan = digest]

\* Mutant: one finished artifact is taken for all of them.
commit_artifact_root_early(o, digest) ==
    /\ state[o] = "INDEXED"
    /\ build[o].artifact_plan # None
    /\ build[o].artifacts # {}
    /\ build[o].artifact_root = None
    /\ build' = [build EXCEPT ![o].artifact_root = digest]

commit_artifact_root(o, digest) ==
    /\ state[o] = "INDEXED"
    /\ build[o].artifact_plan # None
    /\ build[o].artifacts = Partitions
    /\ build[o].artifact_root = None
    /\ build' = [build EXCEPT ![o].artifact_root = digest]

\* source is the locator the serving root was built from.
commit_serving_root(o, digest, source) ==
    /\ state[o] = "INDEXED"
    /\ build[o].artifact_plan # None
    /\ build[o].artifact_root = source
    /\ build[o].serving_root = None
    /\ build' = [build EXCEPT ![o].serving_root = [root |-> digest, source |-> source]]

\* Mutant: a second certificate replaces the first (ON CONFLICT DO UPDATE).
replace_serving_certification(o, digest, manifest) ==
    /\ state[o] \in {"INDEXED", "REASONED", "CERTIFIED", "PUBLISHED"}
    /\ build[o].serving_root # None
    /\ build[o].serving_root.root = digest
    /\ build' = [build EXCEPT ![o].serving_certification =
                   [root |-> digest, manifest |-> manifest]]

\* Also after certification: the state is only required to be at least INDEXED.
commit_serving_certification(o, digest, manifest) ==
    /\ state[o] \in {"INDEXED", "REASONED", "CERTIFIED", "PUBLISHED"}
    /\ build[o].serving_root # None
    /\ build[o].serving_root.root = digest
    /\ build[o].serving_certification = None
    /\ build' = [build EXCEPT ![o].serving_certification =
                   [root |-> digest, manifest |-> manifest]]

CommitEvidence(o) ==
    /\ \/ \E p \in Partitions : commit_artifact(o, p)
       \/ \E digest \in Digests :
            \/ commit_distributed_root(o, digest)
            \/ register_artifact_plan(o, digest)
            \/ commit_artifact_root(o, digest)
       \/ \E digest, other \in Digests :
            \/ commit_serving_root(o, digest, other)
            \/ commit_serving_certification(o, digest, other)
    /\ UNCHANGED <<datasets, request, job, cloud_activation, publication, caller>>

-----------------------------------------------------------------------------
(* Certification                                                           *)

Automatic(o) == request[o].policy = "AUTOMATIC_AFTER_CERTIFICATION"

\* The first transaction of a certifying method: all remaining transitions and
\* the snapshot row, all or nothing.
Certify(o, manifest) ==
    /\ state[o] \in Compiling
    /\ transition_locked(o, Path(state[o], "CERTIFIED"))
    /\ snapshot' = [snapshot EXCEPT ![request[o].target] =
                      [dataset |-> request[o].dataset, parent |-> request[o].parent,
                       operation |-> o, manifest |-> manifest, state |-> "CERTIFIED"]]
    /\ followup' = IF Automatic(o) THEN followup \cup {o} ELSE followup
    /\ UNCHANGED <<datasets, active, request, build, lost, crashes>>

\* Mutant: the certificate is required but its manifest is not compared.
ServingCertified(o, manifest) ==
    build[o].serving_root # None => build[o].serving_certification # None

\* A job with a serving root is certified only with the manifest its serving
\* certification was computed for.
ServingAgrees(o, manifest) ==
    build[o].serving_root # None =>
      /\ build[o].serving_certification # None
      /\ build[o].serving_certification.manifest = manifest

commit_reference_certification(o, manifest) ==
    /\ ServingAgrees(o, manifest)
    /\ Certify(o, manifest)
    /\ UNCHANGED cloud_activation

commit_cloud_snapshot_activation(o, manifest) ==
    /\ cloud_activation[o] = None
    /\ cloud_activation' = [cloud_activation EXCEPT ![o] = manifest]
    /\ Certify(o, manifest)

\* Mutant: a repeated call finds the job CERTIFIED and returns.
RetryReturnsEarly(o) ==
    /\ state[o] = "CERTIFIED"
    /\ o \in lost
    /\ lost' = lost \ {o}
    /\ UNCHANGED <<datasets, request, job, build, cloud_activation, publication,
                   followup, crashes>>

\* A repeated call of either method on a CERTIFIED job, with the manifest
\* already recorded, goes on to publish it.
RetryCertification(o) ==
    /\ state[o] = "CERTIFIED"
    /\ \/ ServingAgrees(o, snapshot[request[o].target].manifest)
       \/ cloud_activation[o] # None
    /\ Automatic(o)
    /\ followup' = followup \cup {o}
    /\ lost' = lost \ {o}
    /\ UNCHANGED <<datasets, request, job, build, cloud_activation, publication, crashes>>

-----------------------------------------------------------------------------
(* Publication                                                             *)

\* activation_ready or legacy_ready.
PublicationEvidence(s) ==
    LET o == snapshot[s].operation IN
    \/ cloud_activation[o] = snapshot[s].manifest
    \/ /\ build[o].serving_certification # None
       /\ build[o].serving_certification.manifest = snapshot[s].manifest

\* Mutant: any certified snapshot may be published.
PublishableWithoutEvidence(s) ==
    /\ snapshot[s] # None
    /\ snapshot[s].state = "CERTIFIED"
    /\ active[snapshot[s].dataset] = snapshot[s].parent
    /\ snapshot[s].parent # None =>
         /\ snapshot[snapshot[s].parent].dataset = snapshot[s].dataset
         /\ snapshot[snapshot[s].parent].state = "PUBLISHED"
    /\ may_transition(state[snapshot[s].operation], "PUBLISHED")
    /\ operation_transition_guard

\* Mutant: the active pointer is overwritten, not compared and swapped.
PublishableWithoutSwap(s) ==
    /\ snapshot[s] # None
    /\ snapshot[s].state = "CERTIFIED"
    /\ PublicationEvidence(s)
    /\ may_transition(state[snapshot[s].operation], "PUBLISHED")
    /\ operation_transition_guard

\* Every check of publish_snapshot passes.
Publishable(s) ==
    /\ snapshot[s] # None
    /\ snapshot[s].state = "CERTIFIED"
    /\ PublicationEvidence(s)
    /\ active[snapshot[s].dataset] = snapshot[s].parent
    /\ snapshot[s].parent # None =>
         /\ snapshot[snapshot[s].parent].dataset = snapshot[s].dataset
         /\ snapshot[snapshot[s].parent].state = "PUBLISHED"
    /\ may_transition(state[snapshot[s].operation], "PUBLISHED")
    /\ operation_transition_guard

\* Mutant: the parent is not retired.
PublishBesideParent(s) ==
    /\ Publishable(s)
    /\ active' = [active EXCEPT ![snapshot[s].dataset] = s]
    /\ transition_locked(snapshot[s].operation, <<"PUBLISHED">>)
    /\ snapshot' = [snapshot EXCEPT ![s].state = "PUBLISHED"]

\* The compare-and-swap of the active pointer, the retirement of the parent,
\* the job's last transition and the snapshot's own, in one transaction.
PublishTx(s) ==
    /\ Publishable(s)
    /\ active' = [active EXCEPT ![snapshot[s].dataset] = s]
    /\ transition_locked(snapshot[s].operation, <<"PUBLISHED">>)
    /\ snapshot' =
         [x \in Snapshots |->
            IF x = s THEN [snapshot[x] EXCEPT !.state = "PUBLISHED"]
            ELSE IF x = snapshot[s].parent
                 THEN [snapshot[x] EXCEPT !.state = "RETIRED"]
                 ELSE snapshot[x]]

\* A client's publish request.
publish_snapshot(s) ==
    /\ PublishTx(s)
    /\ UNCHANGED <<datasets, request, build, cloud_activation, caller>>

\* The second transaction of a certifying method.  A lost race is reported to
\* the caller and leaves the snapshot CERTIFIED.
FinishCertification(o) ==
    /\ o \in followup
    /\ followup' = followup \ {o}
    /\ \/ PublishTx(request[o].target)
       \/ ~Publishable(request[o].target) /\ UNCHANGED <<job, publication>>
    /\ UNCHANGED <<datasets, request, build, cloud_activation, lost, crashes>>

\* The worker dies between the two transactions.
Crash(o) ==
    /\ o \in followup
    /\ crashes < MaxCrashes
    /\ followup' = followup \ {o}
    /\ lost' = lost \cup {o}
    /\ crashes' = crashes + 1
    /\ UNCHANGED <<datasets, request, job, build, cloud_activation, publication>>

-----------------------------------------------------------------------------

Next ==
    \/ \E d \in Datasets : create_dataset(d)
    \/ \E o \in Operations :
         \/ \E r \in Requests : create_or_get_compilation(o, r)
         \/ cancel(o)
         \/ fail(o)
         \/ register_distributed_plan(o)
         \/ \E p \in Partitions : commit_projection(o, p)
         \/ \E r \in Reducers : commit_reducer(o, r)
         \/ CommitEvidence(o)
         \/ \E manifest \in Digests :
              \/ commit_reference_certification(o, manifest)
              \/ commit_cloud_snapshot_activation(o, manifest)
         \/ RetryCertification(o)
         \/ FinishCertification(o)
         \/ Crash(o)
    \/ \E s \in Snapshots : publish_snapshot(s)

Spec == Init /\ [][Next]_vars

-----------------------------------------------------------------------------
(* Correctness                                                             *)

TypeOK ==
    /\ datasets \in SUBSET Datasets
    /\ active \in [Datasets -> Snapshots \cup {None}]
    /\ request \in [Operations -> Requests \cup {None}]
    /\ state \in [Operations -> JobStates \cup {"ABSENT"}]
    /\ revision \in [Operations -> Nat]
    /\ audit \in [Operations -> Seq(JobStates)]
    /\ build \in [Operations -> Builds]
    /\ cloud_activation \in [Operations -> Digests \cup {None}]
    /\ snapshot \in [Snapshots -> SnapshotRows \cup {None}]
    /\ followup \in SUBSET Operations
    /\ lost \in SUBSET Operations
    /\ crashes \in 0 .. MaxCrashes

\* get_active_serving_snapshot returns a snapshot, not an error.
get_active_serving_snapshot(d) ==
    LET row == snapshot[active[d]]
        b == build[row.operation]
    IN  /\ row # None
        /\ row.dataset = d
        /\ row.state = "PUBLISHED"
        /\ IF cloud_activation[row.operation] # None
             THEN cloud_activation[row.operation] = row.manifest
             ELSE /\ b.serving_root # None
                  /\ b.serving_certification # None
                  /\ b.serving_certification.manifest = row.manifest
                  /\ b.serving_certification.root = b.serving_root.root

\* Once a dataset has an active snapshot, get_active_serving_snapshot never
\* fails: publish_snapshot checks less than the reader does, and evidence
\* rows keep arriving after publication, yet the reader always finds a
\* PUBLISHED row of its dataset with matching evidence.
ActiveIsServable ==
    \A d \in Datasets : active[d] # None => get_active_serving_snapshot(d)

\* Three tables tell the same story about every job: operation.state,
\* snapshot.state and dataset.active_snapshot_id.  A job has a snapshot row
\* exactly from CERTIFIED on (so a FAILED or CANCELLED job never has one), the
\* row is under its own target, and a row is PUBLISHED exactly while active.
TablesAgree ==
    /\ \A s \in Snapshots : snapshot[s] # None =>
         LET o == snapshot[s].operation IN
         /\ request[o] # None
         /\ request[o].target = s
         /\ request[o].dataset = snapshot[s].dataset
         /\ request[o].parent = snapshot[s].parent
         /\ state[o] = IF snapshot[s].state = "CERTIFIED"
                         THEN "CERTIFIED" ELSE "PUBLISHED"
         /\ snapshot[s].state = "PUBLISHED" <=> active[snapshot[s].dataset] = s
    /\ \A o \in Operations : state[o] \in {"CERTIFIED", "PUBLISHED"} =>
         /\ snapshot[request[o].target] # None
         /\ snapshot[request[o].target].operation = o
    /\ \A d \in Datasets : active[d] # None =>
         snapshot[active[d]] # None /\ snapshot[active[d]].dataset = d

\* Requests and jobs come into being together; no two requests share a
\* target; a parent is a snapshot of the same dataset; and only jobs with a
\* snapshot have a call between its two transactions.
RequestRows ==
    /\ \A o \in Operations :
         /\ state[o] = "ABSENT" <=> request[o] = None
         /\ request[o] # None /\ request[o].parent # None =>
              /\ snapshot[request[o].parent] # None
              /\ snapshot[request[o].parent].dataset = request[o].dataset
    /\ \A o, p \in Operations :
         request[o] # None /\ request[p] # None /\ request[o].target = request[p].target
           => o = p
    /\ \A o \in followup \cup lost : state[o] \in {"CERTIFIED", "PUBLISHED"}

\* An activation and the snapshot it certified name the same manifest, a
\* certificate names the serving root it was computed for, and a snapshot that
\* has been served keeps the evidence it was published on.
EvidenceRows ==
    /\ \A o \in Operations :
         /\ cloud_activation[o] # None =>
              /\ state[o] \in {"CERTIFIED", "PUBLISHED"}
              /\ snapshot[request[o].target].manifest = cloud_activation[o]
         /\ build[o].serving_certification # None =>
              /\ build[o].serving_root # None
              /\ build[o].serving_certification.root = build[o].serving_root.root
    /\ \A s \in Snapshots :
         snapshot[s] # None /\ snapshot[s].state # "CERTIFIED" => PublicationEvidence(s)

\* The inductive invariant behind the catalog's theorems.
CatalogInv == TypeOK /\ RequestRows /\ TablesAgree /\ EvidenceRows

\* A serving certificate stands on a complete build: every projection,
\* reducer and artifact of the plan committed, and every root bound to the
\* one it was derived from (register_artifact_plan to the dictionary,
\* commit_serving_root to the locator, the certificate to the serving root).
CertificateStandsOnBuild ==
    \A o \in Operations : build[o].serving_certification # None =>
      /\ build[o].plan
      /\ build[o].projected = Partitions
      /\ build[o].reduced = Reducers
      /\ build[o].artifacts = Partitions
      /\ build[o].distributed_root # None
      /\ build[o].artifact_plan = build[o].distributed_root
      /\ build[o].serving_root # None
      /\ build[o].serving_root.source = build[o].artifact_root
      /\ build[o].serving_certification.root = build[o].serving_root.root

\* A stage barrier is neither passed early nor left standing: a PARTITIONED
\* job has a projection to wait for and a PROJECTED one a reducer (otherwise
\* no later commit would ever move it), and work counts for a stage only once
\* the stage before it is complete.
BarriersExact ==
    \A o \in Operations :
      /\ state[o] = "PARTITIONED" => build[o].plan /\ build[o].projected # Partitions
      /\ state[o] = "PROJECTED" => build[o].reduced # Reducers
      /\ state[o] \in {"PROJECTED", "INDEXED"} => build[o].projected = Partitions
      /\ state[o] = "INDEXED" => build[o].reduced = Reducers
      /\ build[o].reduced # {} => build[o].projected = Partitions
      /\ build[o].artifacts # {} => build[o].reduced = Reducers

\* The rows of one build arrive in order: none before the plan, and each with
\* the row it was derived from already there.
InOrder(b) ==
    /\ ~b.plan => b = EmptyBuild
    /\ b.distributed_root # None => b.reduced = Reducers
    /\ b.artifact_plan # None => b.artifact_plan = b.distributed_root
    /\ b.artifacts # {} => b.artifact_plan # None
    /\ b.artifact_root # None => b.artifacts = Partitions
    /\ b.serving_root # None => b.artifact_root # None /\ b.serving_root.source = b.artifact_root
    /\ b.serving_certification # None =>
         b.serving_root # None /\ b.serving_certification.root = b.serving_root.root

\* The inductive invariant of the distributed build: its barriers are exact
\* and its evidence is in order, whichever workers repeat or delay a commit.
BuildInv ==
    /\ BarriersExact
    /\ \A o \in Operations : InOrder(build[o])

\* A job that was certified with a serving root can be published: the
\* manifest of its snapshot is the one its certificate was computed for, and
\* no order of commits leaves it CERTIFIED with the wrong evidence.
ServingJobIsPublishable ==
    \A s \in Snapshots :
      /\ snapshot[s] # None
      /\ build[snapshot[s].operation].serving_root # None
      => PublicationEvidence(s)

\* What docs/phases/PHASE_19.md promises of publish_snapshot: a job with a
\* serving root is published only with a serving certificate that names the
\* published manifest.
PublicationNeedsServingCertificate ==
    \A s \in Snapshots :
      /\ snapshot[s] # None
      /\ snapshot[s].state = "PUBLISHED"
      /\ build[snapshot[s].operation].serving_root # None
      => /\ build[snapshot[s].operation].serving_certification # None
         /\ build[snapshot[s].operation].serving_certification.manifest =
              snapshot[s].manifest

\* operation_audit is a gap-free record of legal edges that ends in the
\* current state, and operation.revision counts its rows: the value cancel
\* compares identifies one row of the history.
AuditIsHistory ==
    \A o \in Operations :
      /\ state[o] = "ABSENT" <=> audit[o] = << >>
      /\ state[o] = "ABSENT" => revision[o] = 0
      /\ state[o] # "ABSENT" =>
           /\ Len(audit[o]) = revision[o] + 1
           /\ audit[o][1] = "REGISTERED"
           /\ audit[o][Len(audit[o])] = state[o]
      /\ \A i \in 1 .. Len(audit[o]) - 1 : may_transition(audit[o][i], audit[o][i + 1])

\* No caller moves the active pointer over a publication it has not seen: it
\* only ever moves from a snapshot to one compiled against it, and a snapshot
\* once retired never serves again.
NoLostPublication ==
    [][\A d \in Datasets : active'[d] # active[d] =>
         /\ snapshot'[active'[d]].parent = active[d]
         /\ snapshot[active'[d]].state = "CERTIFIED"]_publication

\* A committed root, certificate, plan or work item is never replaced, whatever
\* a retried or late worker brings (all commits are insert-if-absent).
EvidenceIsFinal ==
    [][\A o \in Operations :
         /\ build[o].plan => build'[o].plan
         /\ build[o].projected \subseteq build'[o].projected
         /\ build[o].reduced \subseteq build'[o].reduced
         /\ build[o].artifacts \subseteq build'[o].artifacts
         /\ \A f \in {"distributed_root", "artifact_plan", "artifact_root",
                      "serving_root", "serving_certification"} :
              build[o][f] # None => build'[o][f] = build[o][f]]_build

\* Refinement mapping: a snapshot is prepared when its row exists and served
\* from the moment it is PUBLISHED.
Lineage == INSTANCE SnapshotLineage WITH
    active <- active,
    prepared <- [s \in Snapshots |->
                   IF snapshot[s] = None THEN None
                   ELSE [dataset |-> snapshot[s].dataset, parent |-> snapshot[s].parent]],
    served <- {s \in Snapshots : snapshot[s] # None /\ snapshot[s].state # "CERTIFIED"}

\* The catalog, with jobs, evidence, retries and crashes, only ever does what
\* the abstract publication protocol allows.
RefinesLineage == Lineage!Spec
=============================================================================
