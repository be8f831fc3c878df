--------------------------- MODULE StorageRecovery ---------------------------
(***************************************************************************)
(* Replication, relocation, repair, backup and restore of one snapshot's   *)
(* artifacts.                                                              *)
(*                                                                         *)
(* The API turns a request into an immutable plan, a row of                *)
(* storage_recovery_operation and an NgkgStorageRecovery resource.  The    *)
(* storage-recovery operator runs a copy Job with one index per task and   *)
(* then a verify Job, whose certificate it commits.  At least two replicas *)
(* of the operator run and no leader is elected: both reconcile every      *)
(* resource, each at its own pace, and only the catalog's compare-and-swap *)
(* on the operation's state keeps them in step.                            *)
(*                                                                         *)
(* Each call of a reconciliation to the API server or to the catalog is a  *)
(* step of its own.                                                        *)
(***************************************************************************)
EXTENDS Naturals, FiniteSets

CONSTANTS
    Operations,   \* operation ids: one per idempotency key and request
    Requests,     \* the requests clients may make
    Controllers,  \* replicas of the operator
    Artifacts,    \* the closure of the snapshot's roots
    Targets,      \* the registered storage targets
    Primary,      \* the target the snapshot was built on
    Domain,       \* the failure domain of a target
    Writable,     \* the writable targets
    Rank,         \* Rank[a][t]: the place of t in the rendezvous order of a
    MaxOpen,      \* bound on the operations at work at the same time
    MaxFaults     \* bound on failed and lost Jobs and on crashes

ASSUME TargetsAssumption ==
    /\ Primary \in Targets
    /\ Writable \subseteq Targets
    /\ Rank \in [Artifacts -> [Targets -> Nat]]
    /\ \A a \in Artifacts, t, u \in Targets : Rank[a][t] = Rank[a][u] => t = u

ASSUME RequestsAssumption ==
    \A q \in Requests :
        /\ q.kind \in {"REPLICATE", "RELOCATE", "NODE_LOSS", "BACKUP", "RESTORE"}
        /\ q.factor \in 1 .. 16
        /\ q.destination \in Targets
        /\ q.backup \in Operations

ASSUME BoundsAssumption == MaxOpen \in Nat /\ MaxFaults \in Nat

VARIABLES
    request,      \* what each operation was asked to do
    api,          \* the next step of the API call serving it
    state,        \* storage_recovery_operation.state
    error,        \* storage_recovery_operation.error_code
    resource,     \* operations with an NgkgStorageRecovery
    ready,        \* READY rows of snapshot_artifact_replica
    retiring,     \* RETIRING rows
    backups,      \* operations with a row of snapshot_backup
    copied,       \* tasks whose destination object is durable and verified
    results,      \* tasks with a durable result
    certificates, \* operations with a durable recovery certificate
    manifests,    \* operations with a durable backup manifest
    job,          \* the copy and the verify Job of each operation
    at,           \* where a replica stands in the reconciliation of each
    reported,     \* operations whose status holds the certificate
    faults

catalog == <<state, error, ready, retiring, backups>>
store == <<copied, results, certificates, manifests>>
vars == <<request, api, catalog, resource, store, job, at, reported, faults>>

Stages == {"copy", "verify"}
Steps == {"idle", "ensure", "transition", "get", "fail", "commit", "patch", "report"}
Idle == <<"idle", "copy">>

NoRequest == [kind |-> "NONE"]
Kind(o) == request[o].kind

-----------------------------------------------------------------------------
(* Plans                                                                   *)

\* The targets a plan of the request may use.
storage_plan_inputs(q) ==
    IF q.kind \in {"BACKUP", "RELOCATE"}
    THEN [targets |-> {Primary, q.destination}, factor |-> 2]
    ELSE [targets |-> Targets, factor |-> q.factor]

\* Mutant: the best ranked targets, whatever their failure domains.
select_best_ranked(a, targets, factor) ==
    {t \in targets \cap Writable :
        Cardinality({u \in targets \cap Writable : Rank[a][u] < Rank[a][t]}) < factor}

\* The best ranked writable target of each domain, and of those the best
\* `factor' many.
select_replica_targets(a, targets, factor) ==
    LET best == {t \in targets \cap Writable :
                    \A u \in targets \cap Writable :
                        Domain[u] = Domain[t] => Rank[a][t] <= Rank[a][u]}
    IN {t \in best : Cardinality({u \in best : Rank[a][u] < Rank[a][t]}) < factor}

\* The primary always counts as verified; its copy is never a task.
build_recovery_plan(q) ==
    LET in == storage_plan_inputs(q)
    IN UNION {{[artifact |-> a, source |-> Primary, destination |-> t] :
                  t \in select_replica_targets(a, in.targets, in.factor) \ {Primary}}
              : a \in Artifacts}

build_restore_plan(q) ==
    {[artifact |-> a, source |-> request[q.backup].destination,
      destination |-> q.destination] : a \in Artifacts}

Tasks(o) == IF request[o] = NoRequest THEN {}
            ELSE IF Kind(o) = "RESTORE" THEN build_restore_plan(request[o])
            ELSE build_recovery_plan(request[o])

\* Requests the API answers 422 to are not modelled further.
AcceptsStorageOperation(q) ==
    LET in == storage_plan_inputs(q)
    IN /\ q.kind # "RESTORE"
       /\ q.kind \in {"BACKUP", "RELOCATE"} =>
              q.destination # Primary /\ q.destination \in Writable
       /\ Cardinality({Domain[t] : t \in in.targets \cap Writable}) >= in.factor

\* Mutant: a backup is looked up among the operations, not among the backups.
accept_restore_of_any_backup(q) ==
    /\ q.kind = "RESTORE"
    /\ request[q.backup] # NoRequest /\ Kind(q.backup) = "BACKUP"
    /\ q.destination # request[q.backup].destination
    /\ q.destination \in Writable

\* get_backup and the checks of create_restore.
AcceptsRestore(q) ==
    /\ q.kind = "RESTORE"
    /\ q.backup \in backups
    /\ q.destination # request[q.backup].destination
    /\ q.destination \in Writable

-----------------------------------------------------------------------------
Init ==
    /\ request = [o \in Operations |-> NoRequest]
    /\ api = [o \in Operations |-> "idle"]
    /\ state = [o \in Operations |-> "ABSENT"]
    /\ error = [o \in Operations |-> "none"]
    /\ resource = {}
    /\ ready = {}
    /\ retiring = {}
    /\ backups = {}
    /\ copied = [o \in Operations |-> {}]
    /\ results = [o \in Operations |-> {}]
    /\ certificates = {}
    /\ manifests = {}
    /\ job = [o \in Operations |-> [stage \in Stages |-> "none"]]
    /\ at = [c \in Controllers |-> [o \in Operations |-> Idle]]
    /\ reported = {}
    /\ faults = 0

(* The API *)

\* The operations at work: also a FAILED one, whose Jobs run again once the
\* failed ones are collected.
Open == {o \in Operations : request[o] # NoRequest /\ o \notin reported}

\* A client's first request fixes the operation; the plan it writes is a
\* function of the request.  A client repeats a request it has no answer to,
\* or whose answer it lost.
create_storage_operation(o, q) ==
    /\ api[o] = "idle"
    /\ request[o] \in {NoRequest, q}
    /\ request[o] = NoRequest => Cardinality(Open) < MaxOpen
    /\ AcceptsStorageOperation(q) \/ AcceptsRestore(q)
    /\ request' = [request EXCEPT ![o] = q]
    /\ api' = [api EXCEPT ![o] = "register"]
    /\ UNCHANGED <<catalog, resource, store, job, at, reported, faults>>

\* Mutant: the row starts in the first state of the enum.
create_registered(o) ==
    /\ api[o] = "register"
    /\ state' = [state EXCEPT ![o] = IF @ = "ABSENT" THEN "REGISTERED" ELSE @]
    /\ api' = [api EXCEPT ![o] = IF Kind(o) = "RESTORE" THEN "resource" ELSE "primaries"]
    /\ UNCHANGED <<request, error, ready, retiring, backups, resource, store, job, at,
                   reported, faults>>

\* A repeated request finds the row of the first one.
create_or_get(o) ==
    /\ api[o] = "register"
    /\ state' = [state EXCEPT ![o] = IF @ = "ABSENT" THEN "PLANNED" ELSE @]
    /\ api' = [api EXCEPT ![o] = IF Kind(o) = "RESTORE" THEN "resource" ELSE "primaries"]
    /\ UNCHANGED <<request, error, ready, retiring, backups, resource, store, job, at,
                   reported, faults>>

Row(a, t, key) == [artifact |-> a, target |-> t, key |-> key]
PrimaryRows == {Row(a, Primary, "original") : a \in Artifacts}

register_primary_replicas(o) ==
    /\ api[o] = "primaries"
    /\ ready' = ready \cup (PrimaryRows \ retiring)
    /\ api' = [api EXCEPT ![o] = "resource"]
    /\ UNCHANGED <<request, state, error, retiring, backups, resource, store, job, at,
                   reported, faults>>

ensure_storage_recovery_resource(o) ==
    /\ api[o] = "resource"
    /\ resource' = resource \cup {o}
    /\ api' = [api EXCEPT ![o] = "idle"]
    /\ UNCHANGED <<request, catalog, store, job, at, reported, faults>>

\* An API pod dies between two steps of a call; the client will call again.
api_crash(o) ==
    /\ api[o] # "idle"
    /\ faults < MaxFaults
    /\ faults' = faults + 1
    /\ api' = [api EXCEPT ![o] = "idle"]
    /\ UNCHANGED <<request, catalog, resource, store, job, at, reported>>

-----------------------------------------------------------------------------
(* The operator *)

At(c, o, step, stage) == at[c][o] = <<step, stage>>
Goto(c, o, step, stage) == at' = [at EXCEPT ![c][o] = <<step, stage>>]
Return(c, o) == at' = [at EXCEPT ![c][o] = Idle]

\* A resource whose status has the certificate awaits a change.
reconcile(c, o) ==
    /\ at[c][o] = Idle
    /\ o \in resource \ reported
    /\ IF Tasks(o) = {} THEN Goto(c, o, "transition", "verify") ELSE Goto(c, o, "ensure", "copy")
    /\ UNCHANGED <<request, api, catalog, resource, store, job, reported, faults>>

\* get_opt, then create; a 409 is as good as having created it.
ensure_job(c, o, stage) ==
    /\ At(c, o, "ensure", stage)
    /\ job' = [job EXCEPT ![o][stage] = IF @ = "none" THEN "active" ELSE @]
    /\ Goto(c, o, IF stage = "copy" THEN "transition" ELSE "get", stage)
    /\ UNCHANGED <<request, api, catalog, resource, store, reported, faults>>

\* StorageRecoveryRepository::transition; the operator ignores a conflict.
transition(o, expected, next) ==
    state' = [state EXCEPT ![o] = IF @ = expected THEN next ELSE @]

\* Mutant: a conflict ends the reconciliation like any other error.
transition_or_return(c, o) ==
    /\ At(c, o, "transition", "copy")
    /\ transition(o, "PLANNED", "RUNNING")
    /\ IF state[o] \in {"PLANNED", "RUNNING"} THEN Goto(c, o, "get", "copy") ELSE Return(c, o)
    /\ UNCHANGED <<request, api, error, ready, retiring, backups, resource, store, job,
                   reported, faults>>

transition_to_running(c, o) ==
    /\ At(c, o, "transition", "copy")
    /\ transition(o, "PLANNED", "RUNNING")
    /\ Goto(c, o, "get", "copy")
    /\ UNCHANGED <<request, api, error, ready, retiring, backups, resource, store, job,
                   reported, faults>>

transition_to_verifying(c, o) ==
    /\ At(c, o, "transition", "verify")
    /\ transition(o, IF Tasks(o) = {} THEN "PLANNED" ELSE "RUNNING", "VERIFYING")
    /\ Goto(c, o, "ensure", "verify")
    /\ UNCHANGED <<request, api, error, ready, retiring, backups, resource, store, job,
                   reported, faults>>

\* jobs.get and what follows from the Job's conditions; a Job collected since
\* ensure_job is an error, which ends the reconciliation.
inspect_job(c, o, stage) ==
    /\ At(c, o, "get", stage)
    /\ CASE job[o][stage] = "none" -> Return(c, o)
         [] job[o][stage] = "failed" -> Goto(c, o, "fail", stage)
         [] job[o][stage] = "active" -> Goto(c, o, "patch", stage)
         [] job[o][stage] = "complete" ->
                Goto(c, o, IF stage = "copy" THEN "transition" ELSE "commit", "verify")
    /\ UNCHANGED <<request, api, catalog, resource, store, job, reported, faults>>

ErrorCode(stage) ==
    IF stage = "copy" THEN "TRANSFER_JOB_FAILED" ELSE "VERIFICATION_BARRIER_FAILED"

Unfinished == {"PLANNED", "RUNNING", "VERIFYING"}

\* Mutant: the update is not restricted to unfinished operations.
fail_any(c, o, stage) ==
    /\ At(c, o, "fail", stage)
    /\ state' = [state EXCEPT ![o] = "FAILED"]
    /\ error' = [error EXCEPT ![o] = ErrorCode(stage)]
    /\ Goto(c, o, "patch", stage)
    /\ UNCHANGED <<request, api, ready, retiring, backups, resource, store, job, reported,
                   faults>>

\* StorageRecoveryRepository::fail.  An operation with another outcome is a
\* conflict, which ends the reconciliation with an error.
fail(c, o, stage) ==
    /\ At(c, o, "fail", stage)
    /\ IF state[o] \in Unfinished
       THEN /\ state' = [state EXCEPT ![o] = "FAILED"]
            /\ error' = [error EXCEPT ![o] = ErrorCode(stage)]
       ELSE UNCHANGED <<state, error>>
    /\ IF state[o] \in Unfinished \/ error[o] = ErrorCode(stage)
       THEN Goto(c, o, "patch", stage)
       ELSE Return(c, o)
    /\ UNCHANGED <<request, api, ready, retiring, backups, resource, store, job, reported,
                   faults>>

\* The rows commit_success inserts for the tasks of an operation.
ExposedRows(o) ==
    IF Kind(o) \in {"BACKUP", "RESTORE"} THEN {}
    ELSE {Row(k.artifact, k.destination, o) : k \in Tasks(o)}

\* Mutant: the update forgets to ask for rows of the source target.
retire_everywhere(o, rows) ==
    IF Kind(o) # "RELOCATE" THEN {}
    ELSE {r \in rows : \E k \in Tasks(o) :
             /\ r.artifact = k.artifact
             /\ \E s \in rows : s.artifact = k.artifact /\ s.target = k.destination}

\* The rows a relocation retires: a READY replacement exists at the destination.
RetiredRows(o, rows) ==
    IF Kind(o) # "RELOCATE" THEN {}
    ELSE {r \in rows : \E k \in Tasks(o) :
             /\ r.artifact = k.artifact /\ r.target = k.source
             /\ \E s \in rows : s.artifact = k.artifact /\ s.target = k.destination}

\* Mutant: a second commit of the same certificate is a conflict.
commit_success_once(c, o) ==
    /\ At(c, o, "commit", "verify")
    /\ o \in certificates
    /\ Kind(o) = "BACKUP" => o \in manifests
    /\ state[o] = "VERIFYING"
    /\ LET rows == ready \cup ExposedRows(o)
       IN /\ state' = [state EXCEPT ![o] = "SUCCEEDED"]
          /\ ready' = rows \ RetiredRows(o, rows)
          /\ retiring' = retiring \cup RetiredRows(o, rows)
          /\ backups' = IF Kind(o) = "BACKUP" THEN backups \cup {o} ELSE backups
    /\ Goto(c, o, "report", "verify")
    /\ UNCHANGED <<request, api, error, resource, store, job, reported, faults>>

\* commit_verified reads the certificate, and the backup manifest of a backup,
\* and commits them in one transaction.  The certificate of an operation never
\* changes, so a SUCCEEDED operation has committed this one; any other state is
\* a conflict, which ends the reconciliation with an error.
commit_success(c, o) ==
    /\ At(c, o, "commit", "verify")
    /\ o \in certificates
    /\ Kind(o) = "BACKUP" => o \in manifests
    /\ IF state[o] = "VERIFYING"
       THEN LET rows == ready \cup ExposedRows(o)
            IN /\ state' = [state EXCEPT ![o] = "SUCCEEDED"]
               /\ ready' = rows \ RetiredRows(o, rows)
               /\ retiring' = retiring \cup RetiredRows(o, rows)
               /\ backups' = IF Kind(o) = "BACKUP" THEN backups \cup {o} ELSE backups
       ELSE UNCHANGED <<state, ready, retiring, backups>>
    /\ IF state[o] \in {"VERIFYING", "SUCCEEDED"}
       THEN Goto(c, o, "report", "verify")
       ELSE Return(c, o)
    /\ UNCHANGED <<request, api, error, resource, store, job, reported, faults>>

\* The patches of an unfinished or failed reconciliation start from the status
\* as it was read, without a certificate, and a merge patch writes its absent
\* fields as null: what another replica reported meanwhile is erased.
patch_status(c, o) ==
    /\ \E stage \in Stages : At(c, o, "patch", stage)
    /\ reported' = reported \ {o}
    /\ Return(c, o)
    /\ UNCHANGED <<request, api, catalog, resource, store, job, faults>>

patch_certificate(c, o) ==
    /\ At(c, o, "report", "verify")
    /\ reported' = reported \cup {o}
    /\ Return(c, o)
    /\ UNCHANGED <<request, api, catalog, resource, store, job, faults>>

controller_crash(c, o) ==
    /\ at[c][o] # Idle
    /\ faults < MaxFaults
    /\ faults' = faults + 1
    /\ Return(c, o)
    /\ UNCHANGED <<request, api, catalog, resource, store, job, reported>>

-----------------------------------------------------------------------------
(* Jobs *)

\* The source object of a task: the primary's, or the backup's.
SourceObjectExists(o, k) ==
    Kind(o) = "RESTORE" =>
        \E b \in copied[request[o].backup] :
            b.artifact = k.artifact /\ b.destination = k.source

\* A pod of the copy Job reads and verifies the source, writes and verifies
\* the destination.
execute_transfer(o, k) ==
    /\ job[o].copy = "active"
    /\ SourceObjectExists(o, k)
    /\ copied' = [copied EXCEPT ![o] = @ \cup {k}]
    /\ UNCHANGED <<request, api, catalog, resource, results, certificates, manifests, job, at,
                   reported, faults>>

\* Mutant: the result is written before the transfer has happened.
record_before_transfer(o, k) ==
    /\ job[o].copy = "active"
    /\ results' = [results EXCEPT ![o] = @ \cup {k}]
    /\ UNCHANGED <<request, api, catalog, resource, copied, certificates, manifests, job, at,
                   reported, faults>>

\* Its result is the same bytes whichever pod writes it.  The record of a
\* failed attempt goes to a key of its own and nobody reads it.
run_transfer(o, k) ==
    /\ job[o].copy = "active"
    /\ k \in copied[o]
    /\ results' = [results EXCEPT ![o] = @ \cup {k}]
    /\ UNCHANGED <<request, api, catalog, resource, copied, certificates, manifests, job, at,
                   reported, faults>>

\* Indexed completion: every index of the copy Job has succeeded.
copy_job_complete(o) ==
    /\ job[o].copy = "active"
    /\ Tasks(o) \subseteq results[o]
    /\ job' = [job EXCEPT ![o].copy = "complete"]
    /\ UNCHANGED <<request, api, catalog, resource, store, at, reported, faults>>

\* run_finalize: the accumulator observes a result per task in dense order,
\* the certificate is written, then the manifest of a backup.
run_finalize(o) ==
    /\ job[o].verify = "active"
    /\ Tasks(o) \subseteq results[o]
    /\ certificates' = certificates \cup {o}
    /\ UNCHANGED <<request, api, catalog, resource, copied, results, manifests, job, at,
                   reported, faults>>

verify_job_complete(o) ==
    /\ job[o].verify = "active"
    /\ o \in certificates
    /\ manifests' = IF Kind(o) = "BACKUP" /\ Tasks(o) # {} THEN manifests \cup {o}
                    ELSE manifests
    /\ job' = [job EXCEPT ![o].verify = "complete"]
    /\ UNCHANGED <<request, api, catalog, resource, copied, results, certificates, at,
                   reported, faults>>

\* Pods failed beyond the backoff limit, or the deadline passed.
job_fails(o, stage) ==
    /\ job[o][stage] = "active"
    /\ faults < MaxFaults
    /\ faults' = faults + 1
    /\ job' = [job EXCEPT ![o][stage] = "failed"]
    /\ UNCHANGED <<request, api, catalog, resource, store, at, reported>>

\* The TTL controller deletes a finished Job.  It waits for days, a requeued
\* reconciliation for seconds: that a complete Job goes before its operation
\* has used it is counted as a fault.
job_collected(o, stage) ==
    /\ job[o][stage] \in {"complete", "failed"}
    /\ job[o][stage] = "complete" => faults < MaxFaults
    /\ faults' = IF job[o][stage] = "complete" THEN faults + 1 ELSE faults
    /\ job' = [job EXCEPT ![o][stage] = "none"]
    /\ UNCHANGED <<request, api, catalog, resource, store, at, reported>>

-----------------------------------------------------------------------------
reconcile_step(c, o) ==
    \/ reconcile(c, o)
    \/ transition_to_running(c, o)
    \/ transition_to_verifying(c, o)
    \/ \E stage \in Stages :
          ensure_job(c, o, stage) \/ inspect_job(c, o, stage) \/ fail(c, o, stage)
    \/ commit_success(c, o)
    \/ patch_status(c, o)
    \/ patch_certificate(c, o)

job_step(o) ==
    \/ \E k \in Tasks(o) : execute_transfer(o, k) \/ run_transfer(o, k)
    \/ copy_job_complete(o)
    \/ run_finalize(o)
    \/ verify_job_complete(o)

api_step(o) ==
    \/ \E q \in Requests : create_storage_operation(o, q)
    \/ create_or_get(o)
    \/ register_primary_replicas(o)
    \/ ensure_storage_recovery_resource(o)
    \/ api_crash(o)

Next ==
    \E o \in Operations :
        \/ api_step(o)
        \/ job_step(o)
        \/ \E c \in Controllers : reconcile_step(c, o) \/ controller_crash(c, o)
        \/ \E stage \in Stages : job_fails(o, stage) \/ job_collected(o, stage)

Spec == Init /\ [][Next]_vars

\* Requeues and Job events run a reconciliation again, pods are rescheduled,
\* and a failed Job is deleted after its TTL.
Fairness ==
    \A o \in Operations :
        /\ WF_vars(job_step(o))
        /\ \A c \in Controllers : WF_vars(reconcile_step(c, o))
        /\ \A stage \in Stages : WF_vars(job[o][stage] = "failed" /\ job_collected(o, stage))

FairSpec == Spec /\ Fairness

-----------------------------------------------------------------------------
(* Properties                                                              *)

AllTasks == [artifact : Artifacts, source : Targets, destination : Targets]
AllRows == [artifact : Artifacts, target : Targets, key : Operations \cup {"original"}]

\* The variables keep to the values of the catalog's enums, the Jobs' states
\* and the steps of the API and of the reconciliation.
TypeOK ==
    /\ request \in [Operations -> Requests \cup {NoRequest}]
    /\ api \in [Operations -> {"idle", "register", "primaries", "resource"}]
    /\ state \in [Operations -> {"ABSENT", "SUCCEEDED", "FAILED"} \cup Unfinished]
    /\ error \in [Operations -> {"none", ErrorCode("copy"), ErrorCode("verify")}]
    /\ resource \subseteq Operations
    /\ ready \cup retiring \subseteq AllRows
    /\ backups \cup certificates \cup manifests \cup reported \subseteq Operations
    /\ copied \in [Operations -> SUBSET AllTasks]
    /\ results \in [Operations -> SUBSET AllTasks]
    /\ job \in [Operations -> [Stages -> {"none", "active", "complete", "failed"}]]
    /\ at \in [Controllers -> [Operations -> Steps \X Stages]]
    /\ faults \in 0 .. MaxFaults

\* A replica the catalog offers, READY or RETIRING, is a durable and verified
\* object: the primary's, or one a SUCCEEDED operation copied.  An operation
\* that failed, or is still at work, has exposed none.
OfferedReplicasVerified ==
    \A r \in ready \cup retiring : r.key # "original" =>
        /\ state[r.key] = "SUCCEEDED"
        /\ \E k \in copied[r.key] : k.artifact = r.artifact /\ k.destination = r.target

\* Once the snapshot's primary replicas are registered every artifact has a
\* READY replica: commit_success retires one only when its replacement is
\* READY, whatever other relocations did before.
ArtifactsStayAvailable ==
    ready \cup retiring # {} =>
        \A a \in Artifacts : \E r \in ready : r.artifact = a

\* What the API accepted stays acceptable: a restore's backup is committed, and
\* a committed backup was accepted for a destination of its own.
RequestsStand ==
    /\ \A o \in Operations : request[o] # NoRequest =>
           IF Kind(o) = "RESTORE" THEN request[o].backup \in backups
           ELSE AcceptsStorageOperation(request[o])
    /\ \A o \in Operations :
           api[o] # "idle" \/ state[o] # "ABSENT" \/ o \in resource => request[o] # NoRequest
    /\ \A b \in backups : Kind(b) = "BACKUP" /\ state[b] = "SUCCEEDED"

\* The chain from a SUCCEEDED operation to its objects: a certificate, which
\* stands on a result for every task, each of which stands on a verified copy.
EvidenceStands ==
    \A o \in Operations :
        /\ results[o] \subseteq copied[o] /\ copied[o] \subseteq Tasks(o)
        /\ o \in certificates => Tasks(o) \subseteq results[o]
        /\ state[o] = "SUCCEEDED" => o \in certificates

\* Only primary rows are ever retired; and they are registered before an
\* operation has a resource, so before the operator can replace them.
PrimariesStand ==
    /\ retiring \cap ready = {}
    /\ \A r \in retiring : r.target = Primary
    /\ \A o \in Operations :
           (o \in resource \/ api[o] = "resource") /\ Kind(o) # "RESTORE" =>
               PrimaryRows \subseteq ready \cup retiring

\* Reconciliations, Jobs and certificates are of operations with a resource.
ResourcesStand ==
    /\ \A c \in Controllers, o \in Operations : at[c][o] # Idle => o \in resource
    /\ \A o \in Operations, stage \in Stages : job[o][stage] # "none" => o \in resource
    /\ certificates \subseteq resource

\* The inductive invariant of a storage recovery: what the API, the Jobs and
\* the replicas of the operator may each rely on when they take their next
\* step, whatever the others have done since they looked.
RecoveryInv ==
    /\ TypeOK
    /\ RequestsStand
    /\ EvidenceStands
    /\ PrimariesStand
    /\ ResourcesStand
    /\ OfferedReplicasVerified
    /\ ArtifactsStayAvailable

\* A restore copies from a backup all of whose objects were certified before
\* the restore was planned, so none of its tasks lacks its source.
RestoresHaveSources ==
    \A o \in Operations : state[o] # "ABSENT" =>
        \A k \in Tasks(o) : SourceObjectExists(o, k)

\* The outcome of an operation is decided once, whichever replica of the
\* operator, however late, tries to decide it again; and a retired replica
\* stays retired when a client repeats an old request.
OutcomesFinal ==
    [][/\ \A o \in Operations : state[o] \in {"SUCCEEDED", "FAILED"} =>
              state'[o] = state[o] /\ error'[o] = error[o]
       /\ retiring \subseteq retiring' /\ retiring' \cap ready' = {}]_vars

\* Copies of one artifact made by one operation are in distinct failure
\* domains, none of them the domain of another copy the plan counts.
CopiesInDistinctDomains ==
    \A o \in Operations : \A k, l \in Tasks(o) :
        k.artifact = l.artifact /\ k # l => Domain[k.destination] # Domain[l.destination]

\* Every operation whose resource exists is decided, though Jobs fail or are
\* collected and reconciliations die half way.
OperationsEnd ==
    \A o \in Operations : o \in resource ~> state[o] \in {"SUCCEEDED", "FAILED"}

\* A committed certificate reaches the status even if the replica that
\* committed it died before its patch, or the other one erased it.
CertificatesReported ==
    \A o \in Operations : state[o] = "SUCCEEDED" ~> o \in reported
==============================================================================
