----------------------- MODULE StorageRecovery_proofs -----------------------
(* Proofs about storage recovery, for any number of operations, requests,    *)
(* replicas of the operator, artifacts, targets and faults.                 *)
EXTENDS StorageRecovery, FiniteSetTheorems, TLAPS

-----------------------------------------------------------------------------
(* Plans                                                                   *)

LEMMA RequestsAreSomething ==
  ASSUME NEW q \in Requests
  PROVE  q # NoRequest
  BY RequestsAssumption DEF NoRequest

\* A target is selected at most once per failure domain.
LEMMA SelectedInDistinctDomains ==
  ASSUME NEW a \in Artifacts, NEW targets \in SUBSET Targets, NEW factor,
         NEW t \in select_replica_targets(a, targets, factor),
         NEW u \in select_replica_targets(a, targets, factor),
         Domain[t] = Domain[u]
  PROVE  t = u
  <1>1. t \in targets \cap Writable /\ u \in targets \cap Writable
    BY DEF select_replica_targets
  <1>2. Rank[a][t] <= Rank[a][u] /\ Rank[a][u] <= Rank[a][t]
    BY <1>1 DEF select_replica_targets
  <1>3. Rank[a][t] \in Nat /\ Rank[a][u] \in Nat
    BY <1>1, TargetsAssumption
  <1>4. Rank[a][t] = Rank[a][u]
    BY <1>2, <1>3
  <1>5. QED
    BY <1>1, <1>4, TargetsAssumption

\* A plan moves every artifact away from the primary, and only from there.
LEMMA PlanShape ==
  ASSUME NEW q \in Requests
  PROVE  /\ storage_plan_inputs(q).targets \in SUBSET Targets
         /\ \A k \in build_recovery_plan(q) :
               /\ k \in AllTasks
               /\ k.source = Primary
               /\ k.destination # Primary
               /\ k = [artifact |-> k.artifact, source |-> Primary, destination |-> k.destination]
               /\ k.destination \in select_replica_targets(k.artifact,
                      storage_plan_inputs(q).targets, storage_plan_inputs(q).factor)
  <1>1. storage_plan_inputs(q).targets \in SUBSET Targets
    BY TargetsAssumption, RequestsAssumption DEF storage_plan_inputs
  <1>2. ASSUME NEW k \in build_recovery_plan(q)
        PROVE  /\ k \in AllTasks
               /\ k.source = Primary
               /\ k.destination # Primary
               /\ k = [artifact |-> k.artifact, source |-> Primary, destination |-> k.destination]
               /\ k.destination \in select_replica_targets(k.artifact,
                      storage_plan_inputs(q).targets, storage_plan_inputs(q).factor)
    <2>1. PICK a \in Artifacts : \E t \in select_replica_targets(a,
              storage_plan_inputs(q).targets, storage_plan_inputs(q).factor) \ {Primary} :
                  k = [artifact |-> a, source |-> Primary, destination |-> t]
      BY DEF build_recovery_plan
    <2>2. PICK t \in select_replica_targets(a,
              storage_plan_inputs(q).targets, storage_plan_inputs(q).factor) \ {Primary} :
                  k = [artifact |-> a, source |-> Primary, destination |-> t]
      BY <2>1
    <2>3. t \in Targets
      BY <1>1, <2>2 DEF select_replica_targets
    <2>4. QED
      BY <2>2, <2>3, TargetsAssumption DEF AllTasks
  <1>3. QED
    BY <1>1, <1>2

\* An accepted backup has two writable targets in two failure domains, so it
\* copies every artifact.
LEMMA BackupCopiesAll ==
  ASSUME NEW q \in Requests, AcceptsStorageOperation(q), q.kind = "BACKUP",
         NEW a \in Artifacts
  PROVE  [artifact |-> a, source |-> Primary, destination |-> q.destination]
             \in build_recovery_plan(q)
  <1> DEFINE d == q.destination
             two == {Primary, d} \cap Writable
             best == {t \in two : \A u \in two : Domain[u] = Domain[t] => Rank[a][t] <= Rank[a][u]}
             below == {u \in best : Rank[a][u] < Rank[a][d]}
  <1>1. storage_plan_inputs(q) = [targets |-> {Primary, d}, factor |-> 2]
    BY DEF storage_plan_inputs
  <1>2. d # Primary /\ d \in Writable /\ Cardinality({Domain[t] : t \in two}) >= 2
    BY <1>1 DEF AcceptsStorageOperation
  <1>3. d \in Targets /\ Rank[a][d] \in Nat /\ Rank[a][Primary] \in Nat
    BY RequestsAssumption, TargetsAssumption
  <1>4. Domain[Primary] # Domain[d]
    <2>1. SUFFICES ASSUME Domain[Primary] = Domain[d] PROVE FALSE
      OBVIOUS
    <2>2. {Domain[t] : t \in two} = {Domain[d]}
      BY <1>2, <2>1
    <2>3. Cardinality({Domain[d]}) = 1
      BY FS_Singleton
    <2>4. QED
      BY <1>2, <2>2, <2>3
  <1>5. d \in best
    BY <1>2, <1>3, <1>4
  <1>6. Cardinality(below) < 2
    <2>1. below \subseteq {Primary}
      BY <1>3
    <2>2. IsFiniteSet({Primary}) /\ Cardinality({Primary}) = 1
      BY FS_Singleton
    <2>3. IsFiniteSet(below) /\ Cardinality(below) <= 1
      BY <2>1, <2>2, FS_Subset
    <2>4. Cardinality(below) \in Nat
      BY <2>3, FS_CardinalityType
    <2>5. QED
      BY <2>3, <2>4
  <1>7. d \in select_replica_targets(a, {Primary, d}, 2)
    <2>1. best = {t \in {Primary, d} \cap Writable :
                    \A u \in {Primary, d} \cap Writable :
                        Domain[u] = Domain[t] => Rank[a][t] <= Rank[a][u]}
      OBVIOUS
    <2> HIDE DEF best
    <2>2. QED
      BY <1>5, <1>6, <2>1 DEF select_replica_targets
  <1>8. d \in select_replica_targets(a, storage_plan_inputs(q).targets,
                                     storage_plan_inputs(q).factor) \ {Primary}
    BY <1>1, <1>2, <1>7
  <1> HIDE DEF d
  <1>9. [artifact |-> a, source |-> Primary, destination |-> d] \in build_recovery_plan(q)
    BY <1>8 DEF build_recovery_plan
  <1>10. QED
    BY <1>9 DEF d

\* A restore takes one task per artifact, any other operation one per artifact
\* and selected target: two copies of an artifact are in distinct domains.
LEMMA PlansAreSpread ==
  ASSUME TypeOK
  PROVE  CopiesInDistinctDomains
  <1> SUFFICES ASSUME NEW o \in Operations, NEW k \in Tasks(o), NEW l \in Tasks(o),
                      k.artifact = l.artifact, Domain[k.destination] = Domain[l.destination]
               PROVE  k = l
    BY DEF CopiesInDistinctDomains
  <1>1. request[o] \in Requests
    BY DEF TypeOK, Tasks
  <1>2. request[o] # NoRequest
    BY DEF Tasks
  <1>3. CASE Kind(o) = "RESTORE"
    BY <1>2, <1>3 DEF Tasks, build_restore_plan
  <1>4. CASE Kind(o) # "RESTORE"
    <2>1. k \in build_recovery_plan(request[o]) /\ l \in build_recovery_plan(request[o])
      BY <1>2, <1>4 DEF Tasks
    <2>2. k.artifact \in Artifacts
      BY <1>1, <2>1, PlanShape DEF AllTasks
    <2>3. k.destination = l.destination
      BY <1>1, <2>1, <2>2, PlanShape, SelectedInDistinctDomains
    <2>4. QED
      BY <1>1, <2>1, <2>3, PlanShape
  <1>5. QED
    BY <1>3, <1>4

\* The tasks of an operation that is no restore start at the primary.
LEMMA TasksOfOthers ==
  ASSUME TypeOK, NEW o \in Operations, Kind(o) # "RESTORE", NEW k \in Tasks(o)
  PROVE  /\ k \in AllTasks
         /\ k.source = Primary
         /\ k.destination # Primary
  <1>1. request[o] \in Requests /\ k \in build_recovery_plan(request[o])
    BY DEF TypeOK, Tasks
  <1>2. QED
    BY <1>1, PlanShape

\* What the API relies on when it reads a backup for a restore.
LEMMA BackupRequest ==
  ASSUME TypeOK, RequestsStand, NEW b \in backups
  PROVE  /\ b \in Operations
         /\ request[b] \in Requests
         /\ request[b] # NoRequest
         /\ Kind(b) = "BACKUP"
         /\ AcceptsStorageOperation(request[b])
  <1>1. b \in Operations /\ Kind(b) = "BACKUP"
    BY DEF TypeOK, RequestsStand
  <1>2. request[b] # NoRequest
    BY <1>1 DEF Kind, NoRequest
  <1>3. QED
    BY <1>1, <1>2 DEF TypeOK, RequestsStand

LEMMA TasksTyping ==
  ASSUME TypeOK, RequestsStand, NEW o \in Operations
  PROVE  Tasks(o) \subseteq AllTasks
  <1>1. CASE request[o] = NoRequest
    BY <1>1 DEF Tasks
  <1>2. CASE request[o] # NoRequest /\ Kind(o) # "RESTORE"
    BY <1>2, TasksOfOthers
  <1>3. CASE request[o] # NoRequest /\ Kind(o) = "RESTORE"
    <2>1. request[o] \in Requests /\ request[o].backup \in backups
      BY <1>3 DEF TypeOK, RequestsStand
    <2>2. request[request[o].backup].destination \in Targets /\ request[o].destination \in Targets
      BY <2>1, BackupRequest, RequestsAssumption
    <2>3. QED
      BY <1>3, <2>2 DEF Tasks, build_restore_plan, AllTasks
  <1>4. QED
    BY <1>1, <1>2, <1>3

\* Every task of a restore has its source: the backup was committed, so it was
\* certified, so every one of its copies exists.
LEMMA RestoreSources ==
  ASSUME RecoveryInv
  PROVE  RestoresHaveSources
  <1> USE DEF RecoveryInv
  <1> SUFFICES ASSUME NEW o \in Operations, NEW k \in Tasks(o), Kind(o) = "RESTORE"
               PROVE  \E c \in copied[request[o].backup] :
                          c.artifact = k.artifact /\ c.destination = k.source
    BY DEF RestoresHaveSources, SourceObjectExists
  <1> DEFINE b == request[o].backup
  <1>1. request[o] # NoRequest
    BY DEF Tasks
  <1>2. b \in backups
    BY <1>1 DEF RequestsStand
  <1>3. /\ b \in Operations /\ request[b] \in Requests /\ request[b] # NoRequest
        /\ Kind(b) = "BACKUP" /\ AcceptsStorageOperation(request[b])
    BY <1>2, BackupRequest
  <1>4. k.artifact \in Artifacts /\ k.source = request[b].destination
    BY <1>1 DEF Tasks, build_restore_plan
  <1> DEFINE t == [artifact |-> k.artifact, source |-> Primary, destination |-> request[b].destination]
  <1>5. t \in Tasks(b)
    BY <1>3, <1>4, BackupCopiesAll DEF Kind, Tasks
  <1>6. state[b] = "SUCCEEDED"
    BY <1>2 DEF RequestsStand
  <1>7. t \in copied[b]
    BY <1>3, <1>5, <1>6 DEF EvidenceStands
  <1>8. t.artifact = k.artifact /\ t.destination = k.source
    BY <1>4
  <1>9. QED
    BY <1>7, <1>8

-----------------------------------------------------------------------------
(* The inductive invariant                                                 *)

LEMMA RecoveryInit == Init => RecoveryInv
  <1> SUFFICES ASSUME Init PROVE RecoveryInv
    OBVIOUS
  <1>1. TypeOK
    BY BoundsAssumption DEF Init, TypeOK, Stages, Steps, Idle
  <1>2. \A o \in Operations : Tasks(o) = {}
    BY DEF Init, Tasks
  <1>3. RequestsStand
    BY DEF Init, RequestsStand
  <1>4. EvidenceStands
    BY <1>2 DEF Init, EvidenceStands
  <1>5. PrimariesStand /\ ResourcesStand
    BY DEF Init, PrimariesStand, ResourcesStand
  <1>6. OfferedReplicasVerified /\ ArtifactsStayAvailable
    BY DEF Init, OfferedReplicasVerified, ArtifactsStayAvailable
  <1>7. QED
    BY <1>1, <1>3, <1>4, <1>5, <1>6 DEF RecoveryInv

LEMMA TasksKeep ==
  ASSUME request' = request, NEW o
  PROVE  Tasks(o)' = Tasks(o) /\ Kind(o)' = Kind(o)
  BY DEF Tasks, Kind, build_restore_plan

\* A step that records neither evidence nor rows and decides no operation.
LEMMA ControlStepInv ==
  ASSUME RecoveryInv, TypeOK',
         UNCHANGED <<request, ready, retiring, backups, copied, results, certificates>>,
         \A o \in Operations : state'[o] # state[o] =>
             /\ state[o] # "SUCCEEDED" /\ state'[o] # "SUCCEEDED"
             /\ request[o] # NoRequest,
         \A o \in Operations :
             /\ api'[o] # "idle" => api[o] # "idle"
             /\ api'[o] = "resource" => api[o] = "resource" \/ Kind(o) = "RESTORE",
         resource \subseteq resource',
         \A o \in resource' \ resource : api[o] = "resource",
         \A c \in Controllers, o \in Operations : at'[c][o] # Idle => o \in resource',
         \A o \in Operations, stage \in Stages : job'[o][stage] # "none" => o \in resource'
  PROVE  RecoveryInv'
  <1>1. \A o \in Operations : Tasks(o)' = Tasks(o) /\ Kind(o)' = Kind(o)
    BY TasksKeep
  <1>2. \A o \in Operations : state[o] = "SUCCEEDED" <=> state'[o] = "SUCCEEDED"
    OBVIOUS
  <1>3. RequestsStand'
    <2>1. \A b \in backups : Kind(b)' = "BACKUP" /\ state'[b] = "SUCCEEDED"
      BY <1>1, <1>2 DEF RecoveryInv, TypeOK, RequestsStand
    <2>2. ASSUME NEW o \in Operations, api'[o] # "idle" \/ state'[o] # "ABSENT" \/ o \in resource'
          PROVE  request[o] # NoRequest
      <3>1. CASE state'[o] # state[o]
        BY <3>1
      <3>2. CASE state'[o] = state[o]
        BY <2>2, <3>2 DEF RecoveryInv, RequestsStand
      <3>3. QED
        BY <3>1, <3>2
    <2>3. \A o \in Operations : request[o] # NoRequest =>
              IF Kind(o)' = "RESTORE" THEN request[o].backup \in backups
              ELSE AcceptsStorageOperation(request[o])
      BY <1>1 DEF RecoveryInv, RequestsStand
    <2>4. QED
      BY <2>1, <2>2, <2>3 DEF RequestsStand, AcceptsStorageOperation
  <1>4. EvidenceStands'
    BY <1>1, <1>2 DEF RecoveryInv, EvidenceStands
  <1>5. PrimariesStand'
    <2>1. ASSUME NEW o \in Operations, o \in resource' \/ api'[o] = "resource", Kind(o)' # "RESTORE"
          PROVE  PrimaryRows \subseteq ready \cup retiring
      BY <1>1, <2>1 DEF RecoveryInv, PrimariesStand
    <2>2. QED
      BY <2>1 DEF RecoveryInv, PrimariesStand, PrimaryRows, Row
  <1>6. OfferedReplicasVerified'
    <2>1. ASSUME NEW r \in ready \cup retiring, r.key # "original"
          PROVE  r.key \in Operations
      BY <2>1 DEF RecoveryInv, TypeOK, AllRows
    <2>2. QED
      BY <1>2, <2>1 DEF RecoveryInv, OfferedReplicasVerified
  <1>7. ArtifactsStayAvailable' /\ ResourcesStand'
    BY DEF RecoveryInv, ArtifactsStayAvailable, ResourcesStand
  <1>8. QED
    BY <1>3, <1>4, <1>5, <1>6, <1>7 DEF RecoveryInv

\* A replica of the operator moves in the reconciliation of an operation that
\* has a resource.
LEMMA ReplicaMoves ==
  ASSUME TypeOK, ResourcesStand, NEW c \in Controllers, NEW o \in resource,
         NEW step \in Steps, NEW stage \in Stages,
         at' = [at EXCEPT ![c][o] = <<step, stage>>]
  PROVE  /\ at' \in [Controllers -> [Operations -> Steps \X Stages]]
         /\ \A d \in Controllers, p \in Operations : at'[d][p] # Idle => p \in resource
  <1>1. o \in Operations
    BY DEF TypeOK
  <1>2. at' \in [Controllers -> [Operations -> Steps \X Stages]]
    BY <1>1 DEF TypeOK
  <1>3. ASSUME NEW d \in Controllers, NEW p \in Operations, at'[d][p] # Idle
        PROVE  p \in resource
    <2>1. CASE p = o
      BY <2>1
    <2>2. CASE p # o
      BY <1>1, <1>3, <2>2 DEF TypeOK, ResourcesStand
    <2>3. QED
      BY <2>1, <2>2
  <1>4. QED
    BY <1>2, <1>3

LEMMA IdleIsAPlace == "idle" \in Steps /\ "copy" \in Stages
  BY DEF Steps, Stages

\* A reconciliation step that touches nothing but its own place, a Job and
\* the status.
LEMMA ReconcileStepInv ==
  ASSUME RecoveryInv, NEW c \in Controllers, NEW o \in resource,
         NEW step \in Steps, NEW stage \in Stages,
         at' = [at EXCEPT ![c][o] = <<step, stage>>],
         UNCHANGED <<request, api, catalog, resource, store>>,
         job' \in [Operations -> [Stages -> {"none", "active", "complete", "failed"}]],
         \A p \in Operations, here \in Stages : job'[p][here] # "none" => p \in resource,
         reported' \subseteq Operations, faults' \in 0 .. MaxFaults
  PROVE  RecoveryInv'
  <1>1. /\ at' \in [Controllers -> [Operations -> Steps \X Stages]]
        /\ \A d \in Controllers, p \in Operations : at'[d][p] # Idle => p \in resource
    BY ReplicaMoves DEF RecoveryInv
  <1>2. TypeOK'
    BY <1>1 DEF RecoveryInv, TypeOK, catalog, store
  <1>3. QED
    BY <1>1, <1>2, ControlStepInv DEF catalog, store

LEMMA ReconcileInv ==
  ASSUME RecoveryInv, NEW c \in Controllers, NEW o \in Operations, reconcile(c, o)
  PROVE  RecoveryInv'
  <1>1. o \in resource
    BY DEF reconcile
  <1>2. \/ at' = [at EXCEPT ![c][o] = <<"transition", "verify">>]
        \/ at' = [at EXCEPT ![c][o] = <<"ensure", "copy">>]
    BY DEF reconcile, Goto
  <1>3. {"transition", "ensure"} \subseteq Steps /\ {"copy", "verify"} \subseteq Stages
    BY DEF Steps, Stages
  <1>4. /\ UNCHANGED <<request, api, catalog, resource, store, job, reported, faults>>
        /\ job \in [Operations -> [Stages -> {"none", "active", "complete", "failed"}]]
        /\ \A p \in Operations, here \in Stages : job[p][here] # "none" => p \in resource
        /\ reported \subseteq Operations /\ faults \in 0 .. MaxFaults
    BY DEF reconcile, RecoveryInv, TypeOK, ResourcesStand
  <1>5. QED
    BY <1>1, <1>2, <1>3, <1>4, ReconcileStepInv

LEMMA EnsureJobInv ==
  ASSUME RecoveryInv, NEW c \in Controllers, NEW o \in Operations, NEW stage \in Stages,
         ensure_job(c, o, stage)
  PROVE  RecoveryInv'
  <1>1. o \in resource
    BY DEF ensure_job, At, Idle, RecoveryInv, ResourcesStand
  <1>2. \/ at' = [at EXCEPT ![c][o] = <<"transition", stage>>]
        \/ at' = [at EXCEPT ![c][o] = <<"get", stage>>]
    BY DEF ensure_job, Goto
  <1>3. {"transition", "get"} \subseteq Steps
    BY DEF Steps
  <1>4. /\ UNCHANGED <<request, api, catalog, resource, store, reported, faults>>
        /\ job' \in [Operations -> [Stages -> {"none", "active", "complete", "failed"}]]
        /\ \A p \in Operations, here \in Stages : job'[p][here] # "none" => p \in resource
        /\ reported \subseteq Operations /\ faults \in 0 .. MaxFaults
    BY <1>1 DEF ensure_job, RecoveryInv, TypeOK, ResourcesStand
  <1>5. QED
    BY <1>1, <1>2, <1>3, <1>4, ReconcileStepInv

LEMMA InspectJobInv ==
  ASSUME RecoveryInv, NEW c \in Controllers, NEW o \in Operations, NEW stage \in Stages,
         inspect_job(c, o, stage)
  PROVE  RecoveryInv'
  <1>1. o \in resource
    BY DEF inspect_job, At, Idle, RecoveryInv, ResourcesStand
  <1>2. job[o][stage] \in {"none", "active", "complete", "failed"}
    BY DEF RecoveryInv, TypeOK
  <1>3. \E step \in {"idle", "fail", "patch", "transition", "commit"}, there \in {stage, "copy", "verify"} :
            at' = [at EXCEPT ![c][o] = <<step, there>>]
    <2>1. CASE job[o][stage] = "none"
      BY <2>1 DEF inspect_job, Return, Idle
    <2>2. CASE job[o][stage] = "failed"
      BY <2>2 DEF inspect_job, Goto
    <2>3. CASE job[o][stage] = "active"
      BY <2>3 DEF inspect_job, Goto
    <2>4. CASE job[o][stage] = "complete"
      BY <2>4 DEF inspect_job, Goto
    <2>5. QED
      BY <1>2, <2>1, <2>2, <2>3, <2>4
  <1>4. /\ {"idle", "fail", "patch", "transition", "commit"} \subseteq Steps
        /\ {stage, "copy", "verify"} \subseteq Stages
    BY DEF Steps, Stages
  <1>5. /\ UNCHANGED <<request, api, catalog, resource, store, job, reported, faults>>
        /\ job \in [Operations -> [Stages -> {"none", "active", "complete", "failed"}]]
        /\ \A p \in Operations, here \in Stages : job[p][here] # "none" => p \in resource
        /\ reported \subseteq Operations /\ faults \in 0 .. MaxFaults
    BY DEF inspect_job, RecoveryInv, TypeOK, ResourcesStand
  <1>6. QED
    BY <1>1, <1>3, <1>4, <1>5, ReconcileStepInv

\* A reconciliation ends: it has patched the status, or its replica died.
LEMMA ReturnInv ==
  ASSUME RecoveryInv, NEW c \in Controllers, NEW o \in Operations,
         patch_status(c, o) \/ patch_certificate(c, o) \/ controller_crash(c, o)
  PROVE  RecoveryInv'
  <1>1. at[c][o] # Idle
    BY DEF patch_status, patch_certificate, controller_crash, At, Idle
  <1>2. o \in resource
    BY <1>1 DEF RecoveryInv, ResourcesStand
  <1>3. at' = [at EXCEPT ![c][o] = <<"idle", "copy">>]
    BY DEF patch_status, patch_certificate, controller_crash, Return, Idle
  <1>4. /\ UNCHANGED <<request, api, catalog, resource, store, job>>
        /\ job \in [Operations -> [Stages -> {"none", "active", "complete", "failed"}]]
        /\ \A p \in Operations, here \in Stages : job[p][here] # "none" => p \in resource
    BY DEF patch_status, patch_certificate, controller_crash, RecoveryInv, TypeOK, ResourcesStand
  <1>5. reported' \subseteq Operations
    BY DEF patch_status, patch_certificate, controller_crash, RecoveryInv, TypeOK
  <1>6. faults' \in 0 .. MaxFaults
    BY BoundsAssumption DEF patch_status, patch_certificate, controller_crash, RecoveryInv, TypeOK
  <1>7. QED
    BY <1>2, <1>3, <1>4, <1>5, <1>6, IdleIsAPlace, ReconcileStepInv

\* The catalog's transitions leave decided operations alone.
LEMMA TransitionInv ==
  ASSUME RecoveryInv, NEW c \in Controllers, NEW o \in Operations,
         \/ transition_to_running(c, o)
         \/ transition_to_verifying(c, o)
         \/ \E stage \in Stages : fail(c, o, stage)
  PROVE  RecoveryInv'
  <1>1. at[c][o] # Idle
    BY DEF transition_to_running, transition_to_verifying, fail, At, Idle
  <1>2. o \in resource
    BY <1>1 DEF RecoveryInv, ResourcesStand
  <1> DEFINE Moves == \E step \in Steps, stage \in Stages :
                          at' = [at EXCEPT ![c][o] = <<step, stage>>]
  <1>3. Moves
    <2>0. {"get", "ensure", "patch", "idle"} \subseteq Steps /\ {"copy", "verify"} \subseteq Stages
      BY DEF Steps, Stages
    <2>1. CASE transition_to_running(c, o)
      BY <2>0, <2>1 DEF transition_to_running, Goto
    <2>2. CASE transition_to_verifying(c, o)
      BY <2>0, <2>2 DEF transition_to_verifying, Goto
    <2>3. ASSUME NEW stage \in Stages, fail(c, o, stage)
          PROVE  Moves
      BY <2>0, <2>3 DEF fail, Goto, Return, Idle
    <2>4. QED
      BY <2>1, <2>2, <2>3
  <1>4. /\ at' \in [Controllers -> [Operations -> Steps \X Stages]]
        /\ \A d \in Controllers, p \in Operations : at'[d][p] # Idle => p \in resource
    BY <1>2, <1>3, ReplicaMoves DEF RecoveryInv
  <1>5. UNCHANGED <<request, api, ready, retiring, backups, resource, store, job, reported, faults>>
    BY DEF transition_to_running, transition_to_verifying, fail
  <1> DEFINE Keeps ==
        /\ state' \in [Operations -> {"ABSENT", "SUCCEEDED", "FAILED"} \cup Unfinished]
        /\ error' \in [Operations -> {"none", ErrorCode("copy"), ErrorCode("verify")}]
        /\ \A p \in Operations : state'[p] # state[p] =>
               state[p] \in Unfinished /\ state'[p] # "SUCCEEDED"
  <1>6. Keeps
    <2>1. CASE transition_to_running(c, o) \/ transition_to_verifying(c, o)
      BY <2>1 DEF transition_to_running, transition_to_verifying, transition, RecoveryInv, TypeOK,
                  Unfinished
    <2>2. ASSUME NEW stage \in Stages, fail(c, o, stage)
          PROVE  Keeps
      <3>1. ErrorCode(stage) \in {"none", ErrorCode("copy"), ErrorCode("verify")}
        BY DEF Stages
      <3>2. CASE state[o] \in Unfinished
        BY <2>2, <3>1, <3>2, ZenonT(60) DEF fail, RecoveryInv, TypeOK
      <3>3. CASE state[o] \notin Unfinished
        BY <2>2, <3>3 DEF fail, RecoveryInv, TypeOK
      <3>4. QED
        BY <3>2, <3>3
    <2>3. QED
      BY <2>1, <2>2
  <1>7. TypeOK'
    BY <1>4, <1>5, <1>6 DEF RecoveryInv, TypeOK, store
  <1>8. \A p \in Operations : state[p] \in Unfinished => request[p] # NoRequest
    BY DEF RecoveryInv, RequestsStand, Unfinished
  <1>9. QED
    BY <1>4, <1>5, <1>6, <1>7, <1>8, ControlStepInv
    DEF store, Unfinished, RecoveryInv, ResourcesStand

\* The API's steps after the request is accepted, but for the registration of
\* the primary replicas.
LEMMA ApiStepInv ==
  ASSUME RecoveryInv, NEW o \in Operations,
         create_or_get(o) \/ ensure_storage_recovery_resource(o) \/ api_crash(o)
  PROVE  RecoveryInv'
  <1>1. CASE create_or_get(o)
    <2>1. TypeOK'
      BY <1>1 DEF create_or_get, RecoveryInv, TypeOK, Unfinished, store
    <2>2. \A p \in Operations : state'[p] # state[p] =>
              /\ state[p] # "SUCCEEDED" /\ state'[p] # "SUCCEEDED"
              /\ request[p] # NoRequest
      BY <1>1 DEF create_or_get, RecoveryInv, TypeOK, RequestsStand
    <2>3. \A p \in Operations :
              /\ api'[p] # "idle" => api[p] # "idle"
              /\ api'[p] = "resource" => api[p] = "resource" \/ Kind(p) = "RESTORE"
      BY <1>1 DEF create_or_get, RecoveryInv, TypeOK
    <2>4. QED
      BY <1>1, <2>1, <2>2, <2>3, ControlStepInv
      DEF create_or_get, store, RecoveryInv, ResourcesStand
  <1>2. CASE ensure_storage_recovery_resource(o)
    <2>1. TypeOK'
      BY <1>2 DEF ensure_storage_recovery_resource, RecoveryInv, TypeOK, catalog, store
    <2>2. \A p \in Operations : api'[p] # "idle" => api'[p] = api[p]
      BY <1>2 DEF ensure_storage_recovery_resource, RecoveryInv, TypeOK
    <2>3. QED
      BY <1>2, <2>1, <2>2, ControlStepInv
      DEF ensure_storage_recovery_resource, catalog, store, RecoveryInv, ResourcesStand
  <1>3. CASE api_crash(o)
    <2>1. TypeOK'
      BY <1>3, BoundsAssumption DEF api_crash, RecoveryInv, TypeOK, catalog, store
    <2>2. \A p \in Operations : api'[p] # "idle" => api'[p] = api[p]
      BY <1>3 DEF api_crash, RecoveryInv, TypeOK
    <2>3. QED
      BY <1>3, <2>1, <2>2, ControlStepInv
      DEF api_crash, catalog, store, RecoveryInv, ResourcesStand
  <1>4. QED
    BY <1>1, <1>2, <1>3

\* A Job that exists belongs to an operation with a resource, and so does
\* whatever becomes of it.
LEMMA JobMoves ==
  ASSUME TypeOK, ResourcesStand, NEW o \in Operations, NEW stage \in Stages,
         job[o][stage] # "none", NEW next \in {"none", "active", "complete", "failed"},
         job' = [job EXCEPT ![o][stage] = next]
  PROVE  /\ job' \in [Operations -> [Stages -> {"none", "active", "complete", "failed"}]]
         /\ \A p \in Operations, here \in Stages : job'[p][here] # "none" => p \in resource
  <1>1. job' \in [Operations -> [Stages -> {"none", "active", "complete", "failed"}]]
    BY DEF TypeOK
  <1>2. o \in resource
    BY DEF ResourcesStand
  <1>3. ASSUME NEW p \in Operations, NEW here \in Stages, job'[p][here] # "none"
        PROVE  p \in resource
    <2>1. CASE p = o
      BY <1>2, <2>1
    <2>2. CASE p # o
      <3>1. job'[p] = job[p]
        BY <2>2 DEF TypeOK
      <3>2. QED
        BY <1>3, <3>1 DEF ResourcesStand
    <2>3. QED
      BY <2>1, <2>2
  <1>4. QED
    BY <1>1, <1>3

\* What becomes of a Job.
LEMMA JobStepInv ==
  ASSUME RecoveryInv, NEW o \in Operations,
         \/ copy_job_complete(o)
         \/ verify_job_complete(o)
         \/ \E stage \in Stages : job_fails(o, stage) \/ job_collected(o, stage)
  PROVE  RecoveryInv'
  <1>1. UNCHANGED <<request, api, catalog, resource, copied, results, certificates, at, reported>>
    BY DEF copy_job_complete, verify_job_complete, job_fails, job_collected, store
  <1>2. PICK stage \in Stages, next \in {"none", "complete", "failed"} :
            job[o][stage] # "none" /\ job' = [job EXCEPT ![o][stage] = next]
    <2> DEFINE Moves == \E stage \in Stages, next \in {"none", "complete", "failed"} :
                            job[o][stage] # "none" /\ job' = [job EXCEPT ![o][stage] = next]
    <2>1. CASE copy_job_complete(o)
      <3>1. job[o]["copy"] # "none" /\ job' = [job EXCEPT ![o]["copy"] = "complete"]
        BY <2>1 DEF copy_job_complete
      <3>2. QED
        BY <3>1 DEF Stages
    <2>2. CASE verify_job_complete(o)
      <3>1. job[o]["verify"] # "none" /\ job' = [job EXCEPT ![o]["verify"] = "complete"]
        BY <2>2 DEF verify_job_complete
      <3>2. QED
        BY <3>1 DEF Stages
    <2>3. ASSUME NEW stage \in Stages, job_fails(o, stage) \/ job_collected(o, stage)
          PROVE  Moves
      BY <2>3 DEF job_fails, job_collected
    <2>4. QED
      BY <2>1, <2>2, <2>3
  <1>3. /\ job' \in [Operations -> [Stages -> {"none", "active", "complete", "failed"}]]
        /\ \A p \in Operations, here \in Stages : job'[p][here] # "none" => p \in resource
    BY <1>2, JobMoves DEF RecoveryInv
  <1>4. manifests' \subseteq Operations /\ faults' \in 0 .. MaxFaults
    BY BoundsAssumption
    DEF copy_job_complete, verify_job_complete, job_fails, job_collected, RecoveryInv, TypeOK, store
  <1>5. TypeOK'
    BY <1>1, <1>3, <1>4 DEF RecoveryInv, TypeOK, catalog
  <1>6. \A c \in Controllers, p \in Operations : at'[c][p] # Idle => p \in resource
    BY <1>1 DEF RecoveryInv, ResourcesStand
  <1>7. QED
    BY <1>1, <1>3, <1>5, <1>6, ControlStepInv DEF catalog

\* A first request fixes an operation's tasks; no other operation's change, for
\* a restore already planned reads a request that was fixed before.
LEMMA CreateInv ==
  ASSUME RecoveryInv, NEW o \in Operations, NEW q \in Requests, create_storage_operation(o, q)
  PROVE  RecoveryInv'
  <1>1. /\ request[o] \in {NoRequest, q}
        /\ request' = [request EXCEPT ![o] = q]
        /\ api' = [api EXCEPT ![o] = "register"]
        /\ UNCHANGED <<state, error, ready, retiring, backups, resource, copied, results,
                       certificates, manifests, job, at, reported, faults>>
        /\ AcceptsStorageOperation(q) \/ AcceptsRestore(q)
    BY DEF create_storage_operation, catalog, store
  <1>2. TypeOK'
    BY <1>1 DEF RecoveryInv, TypeOK
  <1>3. \A p \in Operations : request[p] # NoRequest => request'[p] = request[p]
    BY <1>1 DEF RecoveryInv, TypeOK
  <1>4. request'[o] = q /\ q # NoRequest
    BY <1>1, RequestsAreSomething DEF RecoveryInv, TypeOK
  <1>5. ASSUME NEW p \in Operations, request[p] # NoRequest
        PROVE  Kind(p)' = Kind(p) /\ Tasks(p)' = Tasks(p)
    <2>1. Kind(p)' = Kind(p)
      BY <1>3, <1>5 DEF Kind
    <2>2. CASE Kind(p) # "RESTORE"
      BY <1>3, <1>5, <2>1, <2>2 DEF Tasks
    <2>3. CASE Kind(p) = "RESTORE"
      <3>1. request[p].backup \in backups
        BY <1>5, <2>3 DEF RecoveryInv, RequestsStand
      <3>2. request'[request[p].backup] = request[request[p].backup]
        BY <1>3, <3>1, BackupRequest DEF RecoveryInv
      <3>3. QED
        BY <1>3, <1>5, <2>1, <2>3, <3>2 DEF Tasks, build_restore_plan
    <2>4. QED
      BY <2>2, <2>1, <2>3
  <1>6. RequestsStand'
    <2>1. \A b \in backups : Kind(b)' = "BACKUP" /\ state[b] = "SUCCEEDED"
      <3> SUFFICES ASSUME NEW b \in backups PROVE Kind(b)' = "BACKUP" /\ state[b] = "SUCCEEDED"
        OBVIOUS
      <3>1. b \in Operations /\ request[b] # NoRequest /\ Kind(b) = "BACKUP"
        BY BackupRequest DEF RecoveryInv
      <3>2. QED
        BY <1>5, <3>1 DEF RecoveryInv, RequestsStand
    <2>2. ASSUME NEW p \in Operations, api'[p] # "idle" \/ state[p] # "ABSENT" \/ p \in resource
          PROVE  request'[p] # NoRequest
      <3>1. CASE p = o
        BY <1>4, <3>1
      <3>2. CASE p # o
        <4>1. api'[p] = api[p]
          BY <1>1, <3>2 DEF RecoveryInv, TypeOK
        <4>2. QED
          BY <1>3, <2>2, <4>1 DEF RecoveryInv, RequestsStand
      <3>3. QED
        BY <3>1, <3>2
    <2>3. ASSUME NEW p \in Operations, request'[p] # NoRequest
          PROVE  IF Kind(p)' = "RESTORE" THEN request'[p].backup \in backups
                 ELSE AcceptsStorageOperation(request'[p])
      <3>1. CASE request[p] # NoRequest
        BY <1>3, <1>5, <3>1 DEF RecoveryInv, RequestsStand
      <3>2. CASE request[p] = NoRequest
        <4>1. p = o
          BY <1>1, <2>3, <3>2 DEF RecoveryInv, TypeOK
        <4>2. Kind(p)' = q.kind
          BY <1>4, <4>1 DEF Kind
        <4>3. CASE AcceptsStorageOperation(q)
          BY <1>4, <4>1, <4>2, <4>3 DEF AcceptsStorageOperation
        <4>4. CASE AcceptsRestore(q)
          BY <1>4, <4>1, <4>2, <4>4 DEF AcceptsRestore
        <4>5. QED
          BY <1>1, <4>3, <4>4
      <3>3. QED
        BY <3>1, <3>2
    <2>4. QED
      BY <1>1, <2>1, <2>2, <2>3 DEF RequestsStand, AcceptsStorageOperation
  <1>7. EvidenceStands'
    <2> SUFFICES ASSUME NEW p \in Operations
                 PROVE  /\ results[p] \subseteq copied[p] /\ copied[p] \subseteq Tasks(p)'
                        /\ p \in certificates => Tasks(p)' \subseteq results[p]
                        /\ state[p] = "SUCCEEDED" => p \in certificates
      BY <1>1 DEF EvidenceStands
    <2>1. CASE request[p] # NoRequest
      BY <1>5, <2>1 DEF RecoveryInv, EvidenceStands
    <2>2. CASE request[p] = NoRequest
      <3>1. p \notin certificates
        BY <2>2 DEF RecoveryInv, TypeOK, ResourcesStand, RequestsStand
      <3>2. Tasks(p) = {}
        BY <2>2 DEF Tasks
      <3>3. QED
        BY <3>1, <3>2 DEF RecoveryInv, EvidenceStands
    <2>3. QED
      BY <2>1, <2>2
  <1>8. PrimariesStand'
    <2>1. ASSUME NEW p \in Operations, p \in resource \/ api'[p] = "resource", Kind(p)' # "RESTORE"
          PROVE  PrimaryRows \subseteq ready \cup retiring
      <3>1. p \in resource \/ api[p] = "resource"
        BY <1>1, <2>1 DEF RecoveryInv, TypeOK
      <3>2. request[p] # NoRequest
        BY <3>1 DEF RecoveryInv, RequestsStand
      <3>3. QED
        BY <1>5, <2>1, <3>1, <3>2 DEF RecoveryInv, PrimariesStand
    <2>2. QED
      BY <1>1, <2>1 DEF RecoveryInv, PrimariesStand, PrimaryRows, Row
  <1>9. OfferedReplicasVerified' /\ ArtifactsStayAvailable' /\ ResourcesStand'
    BY <1>1 DEF RecoveryInv, OfferedReplicasVerified, ArtifactsStayAvailable, ResourcesStand
  <1>10. QED
    BY <1>2, <1>6, <1>7, <1>8, <1>9 DEF RecoveryInv

\* A second registration does not bring a retired primary back.
LEMMA RegisterPrimariesInv ==
  ASSUME RecoveryInv, NEW o \in Operations, register_primary_replicas(o)
  PROVE  RecoveryInv'
  <1>1. /\ ready' = ready \cup (PrimaryRows \ retiring)
        /\ api' = [api EXCEPT ![o] = "resource"] /\ api[o] = "primaries"
        /\ UNCHANGED <<request, state, error, retiring, backups, resource, copied, results,
                       certificates, manifests, job, at, reported, faults>>
    BY DEF register_primary_replicas, store
  <1>2. \A p \in Operations : Tasks(p)' = Tasks(p) /\ Kind(p)' = Kind(p)
    BY <1>1, TasksKeep
  <1>3. PrimaryRows \subseteq AllRows /\ \A r \in PrimaryRows : r.key = "original"
    BY TargetsAssumption DEF PrimaryRows, Row, AllRows
  <1>4. TypeOK'
    BY <1>1, <1>3 DEF RecoveryInv, TypeOK
  <1>5. RequestsStand'
    <2>1. \A p \in Operations : api'[p] # "idle" => api[p] # "idle"
      BY <1>1 DEF RecoveryInv, TypeOK
    <2>2. QED
      BY <1>1, <1>2, <2>1 DEF RecoveryInv, RequestsStand, TypeOK, AcceptsStorageOperation
  <1>6. EvidenceStands' /\ ResourcesStand'
    BY <1>1, <1>2 DEF RecoveryInv, EvidenceStands, ResourcesStand
  <1>7. PrimariesStand'
    <2>1. PrimaryRows \subseteq ready' \cup retiring'
      BY <1>1
    <2>2. retiring' \cap ready' = {} /\ \A r \in retiring' : r.target = Primary
      BY <1>1 DEF RecoveryInv, PrimariesStand
    <2>3. PrimaryRows' = PrimaryRows
      BY DEF PrimaryRows, Row
    <2>4. QED
      BY <2>1, <2>2, <2>3 DEF PrimariesStand
  <1>8. OfferedReplicasVerified'
    BY <1>1, <1>3 DEF RecoveryInv, OfferedReplicasVerified
  <1>9. ArtifactsStayAvailable'
    <2> SUFFICES ASSUME NEW a \in Artifacts PROVE \E r \in ready' : r.artifact = a
      BY DEF ArtifactsStayAvailable
    <2>1. CASE ready \cup retiring # {}
      BY <1>1, <2>1 DEF RecoveryInv, ArtifactsStayAvailable
    <2>2. CASE ready \cup retiring = {}
      <3>1. Row(a, Primary, "original") \in ready'
        BY <1>1, <2>2 DEF PrimaryRows
      <3>2. QED
        BY <3>1 DEF Row
    <2>3. QED
      BY <2>1, <2>2
  <1>10. QED
    BY <1>4, <1>5, <1>6, <1>7, <1>8, <1>9 DEF RecoveryInv

\* Evidence only grows: a pod transfers, a result is recorded, or a
\* certificate is written.
LEMMA EvidenceStepInv ==
  ASSUME RecoveryInv, NEW o \in Operations,
         \/ \E k \in Tasks(o) : execute_transfer(o, k) \/ run_transfer(o, k)
         \/ run_finalize(o)
  PROVE  RecoveryInv'
  <1>1. UNCHANGED <<request, api, state, error, ready, retiring, backups, resource, manifests, job,
                    at, reported, faults>>
    BY DEF execute_transfer, run_transfer, run_finalize, catalog
  <1>2. \A p \in Operations : Tasks(p)' = Tasks(p) /\ Kind(p)' = Kind(p)
    BY <1>1, TasksKeep
  <1>3. Tasks(o) \subseteq AllTasks
    BY TasksTyping DEF RecoveryInv
  <1> DEFINE Grows ==
        /\ copied' \in [Operations -> SUBSET AllTasks] /\ results' \in [Operations -> SUBSET AllTasks]
        /\ certificates \subseteq certificates' /\ certificates' \subseteq resource
        /\ \A p \in Operations : copied[p] \subseteq copied'[p]
        /\ EvidenceStands'
  <1>4. ASSUME NEW k \in Tasks(o), execute_transfer(o, k)
        PROVE  Grows
    <2>1. copied' = [copied EXCEPT ![o] = @ \cup {k}] /\ UNCHANGED <<results, certificates>>
      BY <1>4 DEF execute_transfer
    <2>2. copied' \in [Operations -> SUBSET AllTasks] /\ results' \in [Operations -> SUBSET AllTasks]
      BY <1>3, <2>1 DEF RecoveryInv, TypeOK
    <2>3. \A p \in Operations : copied[p] \subseteq copied'[p] /\ copied'[p] \subseteq Tasks(p)
      BY <2>1 DEF RecoveryInv, TypeOK, EvidenceStands
    <2>4. QED
      BY <1>1, <1>2, <2>1, <2>2, <2>3 DEF RecoveryInv, EvidenceStands, ResourcesStand
  <1>5. ASSUME NEW k \in Tasks(o), run_transfer(o, k)
        PROVE  Grows
    <2>1. /\ results' = [results EXCEPT ![o] = @ \cup {k}] /\ UNCHANGED <<copied, certificates>>
          /\ k \in copied[o]
      BY <1>5 DEF run_transfer
    <2>2. copied' \in [Operations -> SUBSET AllTasks] /\ results' \in [Operations -> SUBSET AllTasks]
      BY <1>3, <2>1 DEF RecoveryInv, TypeOK
    <2>3. \A p \in Operations : results[p] \subseteq results'[p] /\ results'[p] \subseteq copied[p]
      BY <2>1 DEF RecoveryInv, TypeOK, EvidenceStands
    <2>4. QED
      BY <1>1, <1>2, <2>1, <2>2, <2>3 DEF RecoveryInv, EvidenceStands, ResourcesStand
  <1>6. ASSUME run_finalize(o)
        PROVE  Grows
    <2>1. /\ certificates' = certificates \cup {o} /\ UNCHANGED <<copied, results>>
          /\ Tasks(o) \subseteq results[o] /\ job[o]["verify"] = "active"
      BY <1>6 DEF run_finalize
    <2>2. o \in resource
      BY <2>1 DEF RecoveryInv, ResourcesStand, Stages
    <2>3. copied' \in [Operations -> SUBSET AllTasks] /\ results' \in [Operations -> SUBSET AllTasks]
      BY <2>1 DEF RecoveryInv, TypeOK
    <2>4. EvidenceStands'
      BY <1>1, <1>2, <2>1 DEF RecoveryInv, EvidenceStands
    <2>5. certificates' \subseteq resource
      BY <2>1, <2>2 DEF RecoveryInv, ResourcesStand
    <2>6. QED
      BY <2>1, <2>3, <2>4, <2>5
  <1> HIDE DEF Grows
  <1>7. Grows
    BY <1>4, <1>5, <1>6
  <1>8. TypeOK'
    <2>1. certificates' \subseteq Operations
      BY <1>7 DEF Grows, RecoveryInv, TypeOK
    <2>2. QED
      BY <1>1, <1>7, <2>1 DEF Grows, RecoveryInv, TypeOK
  <1>9. RequestsStand' /\ PrimariesStand'
    <2>1. PrimaryRows' = PrimaryRows
      BY DEF PrimaryRows, Row
    <2>2. RequestsStand'
      BY <1>1, <1>2 DEF RecoveryInv, TypeOK, RequestsStand, AcceptsStorageOperation
    <2>3. PrimariesStand'
      BY <1>1, <1>2, <2>1 DEF RecoveryInv, PrimariesStand
    <2>4. QED
      BY <2>2, <2>3
  <1>10. ResourcesStand' /\ ArtifactsStayAvailable'
    <2>1. ResourcesStand'
      BY <1>1, <1>7 DEF Grows, RecoveryInv, ResourcesStand
    <2>2. ArtifactsStayAvailable'
      BY <1>1 DEF RecoveryInv, ArtifactsStayAvailable
    <2>3. QED
      BY <2>1, <2>2
  <1>11. OfferedReplicasVerified'
    <2> SUFFICES ASSUME NEW r \in ready \cup retiring, r.key # "original"
                 PROVE  /\ state[r.key] = "SUCCEEDED"
                        /\ \E k \in copied'[r.key] : k.artifact = r.artifact /\ k.destination = r.target
      BY <1>1 DEF OfferedReplicasVerified
    <2>1. r.key \in Operations
      BY DEF RecoveryInv, TypeOK, AllRows
    <2>2. QED
      BY <1>7, <2>1 DEF Grows, RecoveryInv, OfferedReplicasVerified
  <1>12. QED
    BY <1>7, <1>8, <1>9, <1>10, <1>11 DEF Grows, RecoveryInv

\* commit_success exposes copies that its certificate stands on, and retires a
\* primary only where the replacement is READY and is no primary itself.
LEMMA CommitInv ==
  ASSUME RecoveryInv, NEW c \in Controllers, NEW o \in Operations, commit_success(c, o)
  PROVE  RecoveryInv'
  <1> DEFINE rows == ready \cup ExposedRows(o)
             gone == RetiredRows(o, rows)
  <1>1. /\ At(c, o, "commit", "verify")
        /\ o \in certificates
        /\ UNCHANGED <<request, api, error, resource, copied, results, certificates, manifests, job,
                       reported, faults>>
    BY DEF commit_success, store
  <1>2. o \in resource /\ request[o] # NoRequest
    BY <1>1 DEF RecoveryInv, TypeOK, ResourcesStand, RequestsStand
  <1>3. \/ at' = [at EXCEPT ![c][o] = <<"report", "verify">>]
        \/ at' = [at EXCEPT ![c][o] = <<"idle", "copy">>]
    BY DEF commit_success, Goto, Return, Idle
  <1>4. {"report", "idle"} \subseteq Steps /\ {"verify", "copy"} \subseteq Stages
    BY DEF Steps, Stages
  <1>5. /\ at' \in [Controllers -> [Operations -> Steps \X Stages]]
        /\ \A d \in Controllers, p \in Operations : at'[d][p] # Idle => p \in resource
    BY <1>2, <1>3, <1>4, ReplicaMoves DEF RecoveryInv
  <1>6. CASE state[o] # "VERIFYING"
    <2>1. UNCHANGED <<state, ready, retiring, backups>>
      BY <1>6 DEF commit_success
    <2>2. TypeOK'
      BY <1>1, <1>5, <2>1 DEF RecoveryInv, TypeOK
    <2>3. \A p \in Operations, stage \in Stages : job'[p][stage] # "none" => p \in resource'
      BY <1>1 DEF RecoveryInv, ResourcesStand
    <2>4. QED
      BY <1>1, <1>5, <2>1, <2>2, <2>3, ControlStepInv
  <1>7. CASE state[o] = "VERIFYING"
    <2>1. /\ state' = [state EXCEPT ![o] = "SUCCEEDED"]
          /\ ready' = rows \ gone
          /\ retiring' = retiring \cup gone
          /\ backups' = IF Kind(o) = "BACKUP" THEN backups \cup {o} ELSE backups
      BY <1>7 DEF commit_success
    <2>2. \A p \in Operations : Tasks(p)' = Tasks(p) /\ Kind(p)' = Kind(p)
      BY <1>1, TasksKeep
    <2>3. Tasks(o) \subseteq AllTasks /\ Tasks(o) \subseteq copied[o]
      BY <1>1, TasksTyping DEF RecoveryInv, EvidenceStands
    <2>4. ASSUME NEW r \in ExposedRows(o)
          PROVE  /\ r \in AllRows /\ r.key = o /\ r.target # Primary
                 /\ \E k \in copied[o] : k.artifact = r.artifact /\ k.destination = r.target
      <3>1. Kind(o) # "RESTORE" /\ \E k \in Tasks(o) : r = Row(k.artifact, k.destination, o)
        BY <2>4 DEF ExposedRows
      <3>2. PICK k \in Tasks(o) : r = Row(k.artifact, k.destination, o)
        BY <3>1
      <3>3. k \in AllTasks /\ k.destination # Primary
        BY <3>1, TasksOfOthers DEF RecoveryInv
      <3>4. QED
        BY <2>3, <3>2, <3>3 DEF Row, AllRows, AllTasks
    <2>5. ASSUME NEW r \in gone
          PROVE  /\ r \in rows /\ r.target = Primary
                 /\ \E s \in rows : s.artifact = r.artifact /\ s.target # Primary
      <3>1. Kind(o) = "RELOCATE" /\ r \in rows
        BY <2>5 DEF RetiredRows
      <3>2. PICK k \in Tasks(o) :
               /\ r.artifact = k.artifact /\ r.target = k.source
               /\ \E s \in rows : s.artifact = k.artifact /\ s.target = k.destination
        BY <2>5, <3>1 DEF RetiredRows
      <3>3. k.source = Primary /\ k.destination # Primary
        BY <3>1, TasksOfOthers DEF RecoveryInv
      <3>4. QED
        BY <3>1, <3>2, <3>3
    <2> HIDE DEF rows, gone
    <2>6. ready' \cup retiring' = rows \cup retiring
      BY <2>1, <2>5
    <2>7. rows = ready \cup ExposedRows(o)
      BY DEF rows
    <2>8. TypeOK'
      <3>1. rows \cup retiring \subseteq AllRows
        BY <2>4, <2>7 DEF RecoveryInv, TypeOK
      <3>2. backups' \subseteq Operations
        BY <2>1 DEF RecoveryInv, TypeOK
      <3>3. state' \in [Operations -> {"ABSENT", "SUCCEEDED", "FAILED"} \cup Unfinished]
        BY <2>1 DEF RecoveryInv, TypeOK
      <3>4. AllRows' = AllRows /\ AllTasks' = AllTasks
        BY DEF AllRows, AllTasks
      <3>5. QED
        BY <1>1, <1>5, <2>6, <3>1, <3>2, <3>3, <3>4 DEF RecoveryInv, TypeOK
    <2>9. \A p \in Operations : state'[p] = IF p = o THEN "SUCCEEDED" ELSE state[p]
      BY <2>1 DEF RecoveryInv, TypeOK
    <2>10. RequestsStand'
      <3>1. \A b \in backups' : Kind(b)' = "BACKUP" /\ state'[b] = "SUCCEEDED"
        BY <2>1, <2>2, <2>9 DEF RecoveryInv, TypeOK, RequestsStand
      <3>2. \A p \in Operations : api'[p] # "idle" \/ state'[p] # "ABSENT" \/ p \in resource' =>
                request'[p] # NoRequest
        BY <1>1, <1>2, <2>9 DEF RecoveryInv, RequestsStand
      <3>3. backups \subseteq backups'
        BY <2>1
      <3>4. \A p \in Operations : request'[p] # NoRequest =>
                IF Kind(p)' = "RESTORE" THEN request'[p].backup \in backups'
                ELSE AcceptsStorageOperation(request'[p])
        BY <1>1, <2>2, <3>3 DEF RecoveryInv, RequestsStand
      <3>5. QED
        BY <3>1, <3>2, <3>4 DEF RequestsStand, AcceptsStorageOperation
    <2>11. EvidenceStands'
      BY <1>1, <2>2, <2>9 DEF RecoveryInv, EvidenceStands
    <2>12. PrimariesStand'
      <3>1. retiring' \cap ready' = {}
        BY <2>1, <2>4, <2>7 DEF RecoveryInv, PrimariesStand
      <3>2. \A r \in retiring' : r.target = Primary
        BY <2>1, <2>5 DEF RecoveryInv, PrimariesStand
      <3>3. ready \cup retiring \subseteq ready' \cup retiring'
        BY <2>6, <2>7
      <3>4. PrimaryRows' = PrimaryRows
        BY DEF PrimaryRows, Row
      <3>5. \A p \in Operations :
               (p \in resource' \/ api'[p] = "resource") /\ Kind(p)' # "RESTORE" =>
                   PrimaryRows \subseteq ready' \cup retiring'
        BY <1>1, <2>2, <3>3 DEF RecoveryInv, PrimariesStand
      <3>6. QED
        BY <3>1, <3>2, <3>4, <3>5 DEF PrimariesStand
    <2>13. ResourcesStand'
      BY <1>1, <1>5 DEF RecoveryInv, ResourcesStand
    <2>14. OfferedReplicasVerified'
      <3> SUFFICES ASSUME NEW r \in rows \cup retiring, r.key # "original"
                   PROVE  /\ state'[r.key] = "SUCCEEDED"
                          /\ \E k \in copied[r.key] :
                                 k.artifact = r.artifact /\ k.destination = r.target
        BY <1>1, <2>6 DEF OfferedReplicasVerified
      <3>1. CASE r \in ExposedRows(o)
        BY <2>4, <2>9, <3>1
      <3>2. CASE r \in ready \cup retiring
        <4>1. r.key \in Operations
          BY <3>2 DEF RecoveryInv, TypeOK, AllRows
        <4>2. QED
          BY <2>9, <3>2, <4>1 DEF RecoveryInv, OfferedReplicasVerified
      <3>3. QED
        BY <2>7, <3>1, <3>2
    <2>15. ArtifactsStayAvailable'
      <3> SUFFICES ASSUME ready' \cup retiring' # {}, NEW a \in Artifacts
                   PROVE  \E r \in ready' : r.artifact = a
        BY DEF ArtifactsStayAvailable
      <3>1. ready \cup retiring # {}
        <4>1. CASE ExposedRows(o) = {}
          BY <2>6, <2>7, <4>1
        <4>2. CASE ExposedRows(o) # {}
          <5>1. Kind(o) # "RESTORE"
            BY <4>2 DEF ExposedRows
          <5>2. Row(a, Primary, "original") \in ready \cup retiring
            BY <1>2, <5>1 DEF RecoveryInv, PrimariesStand, PrimaryRows
          <5>3. QED
            BY <5>2
        <4>3. QED
          BY <4>1, <4>2
      <3>2. PICK r \in ready : r.artifact = a
        BY <3>1 DEF RecoveryInv, ArtifactsStayAvailable
      <3>3. CASE r \notin gone
        BY <2>1, <2>7, <3>2, <3>3
      <3>4. CASE r \in gone
        <4>1. PICK s \in rows : s.artifact = a /\ s.target # Primary
          BY <2>5, <3>2, <3>4
        <4>2. s \notin gone
          BY <2>5, <4>1
        <4>3. QED
          BY <2>1, <4>1, <4>2
      <3>5. QED
        BY <3>3, <3>4
    <2>16. QED
      BY <2>8, <2>10, <2>11, <2>12, <2>13, <2>14, <2>15 DEF RecoveryInv
  <1>8. QED
    BY <1>6, <1>7

LEMMA RecoveryNext ==
  ASSUME RecoveryInv, [Next]_vars
  PROVE  RecoveryInv'
  <1>1. CASE UNCHANGED vars
    <2>1. TypeOK'
      BY <1>1 DEF vars, catalog, store, RecoveryInv, TypeOK, AllRows, AllTasks
    <2>2. QED
      BY <1>1, <2>1, ControlStepInv DEF vars, catalog, store, RecoveryInv, ResourcesStand
  <1>2. ASSUME NEW o \in Operations, api_step(o)
        PROVE  RecoveryInv'
    BY <1>2, CreateInv, ApiStepInv, RegisterPrimariesInv DEF api_step
  <1>3. ASSUME NEW o \in Operations, job_step(o)
        PROVE  RecoveryInv'
    BY <1>3, EvidenceStepInv, JobStepInv DEF job_step
  <1>4. ASSUME NEW o \in Operations, NEW c \in Controllers,
               reconcile_step(c, o) \/ controller_crash(c, o)
        PROVE  RecoveryInv'
    BY <1>4, ReconcileInv, EnsureJobInv, InspectJobInv, ReturnInv, TransitionInv, CommitInv
    DEF reconcile_step
  <1>5. ASSUME NEW o \in Operations, NEW stage \in Stages,
               job_fails(o, stage) \/ job_collected(o, stage)
        PROVE  RecoveryInv'
    BY <1>5, JobStepInv
  <1>6. QED
    BY <1>1, <1>2, <1>3, <1>4, <1>5 DEF Next

-----------------------------------------------------------------------------
(* Theorems                                                                *)

\* Whatever the API, the Jobs and the replicas of the operator do, and
\* whichever of their steps fail or are repeated, the next step of each finds
\* what it relies on: a committed backup behind a restore, a certificate behind
\* a SUCCEEDED operation, a result behind a certificate, a copy behind a result.
THEOREM RecoveryInvariant == Spec => []RecoveryInv
  <1>1. Init => RecoveryInv
    BY RecoveryInit
  <1>2. RecoveryInv /\ [Next]_vars => RecoveryInv'
    BY RecoveryNext
  <1>3. QED
    BY <1>1, <1>2, PTL DEF Spec

\* A row snapshot_artifact_replica offers, READY or RETIRING, stands for an
\* object a SUCCEEDED operation copied and verified, or for the primary's.
THEOREM OfferedReplicasAreVerified == Spec => []OfferedReplicasVerified
  <1>1. RecoveryInv => OfferedReplicasVerified
    BY DEF RecoveryInv
  <1>2. QED
    BY <1>1, RecoveryInvariant, PTL

\* However many relocations commit, in whatever order, commit_success leaves
\* every artifact a READY replica.
THEOREM ArtifactsAreAvailable == Spec => []ArtifactsStayAvailable
  <1>1. RecoveryInv => ArtifactsStayAvailable
    BY DEF RecoveryInv
  <1>2. QED
    BY <1>1, RecoveryInvariant, PTL

\* A restore that create_restore accepted never lacks a source object: the
\* backup it names covers every artifact, because a backup is only accepted
\* for two writable targets in two failure domains.
THEOREM RestoreSourcesExist == Spec => []RestoresHaveSources
  <1>1. RecoveryInv => RestoresHaveSources
    BY RestoreSources
  <1>2. QED
    BY <1>1, RecoveryInvariant, PTL

\* select_replica_targets never places two copies of an artifact in one
\* failure domain, whatever the targets, their order and the factor.
THEOREM CopiesAreSpread == Spec => []CopiesInDistinctDomains
  <1>1. RecoveryInv => CopiesInDistinctDomains
    BY PlansAreSpread DEF RecoveryInv
  <1>2. QED
    BY <1>1, RecoveryInvariant, PTL

\* What a step may do to a decided operation and to a retired row.
LEMMA DecidedStays ==
  ASSUME RecoveryInv, [Next]_vars
  PROVE  /\ \A p \in Operations : state[p] \in {"SUCCEEDED", "FAILED"} =>
                state'[p] = state[p] /\ error'[p] = error[p]
         /\ retiring \subseteq retiring'
  <1> DEFINE Stays == /\ \A p \in Operations : state[p] \in {"SUCCEEDED", "FAILED"} =>
                             state'[p] = state[p] /\ error'[p] = error[p]
                      /\ retiring \subseteq retiring'
  <1>1. ASSUME UNCHANGED <<state, error, retiring>>
        PROVE  Stays
    BY <1>1
  <1>2. ASSUME UNCHANGED vars
        PROVE  Stays
    BY <1>1, <1>2 DEF vars, catalog
  <1>3. ASSUME NEW o \in Operations, api_step(o)
        PROVE  Stays
    <2>1. ASSUME create_or_get(o)
          PROVE  Stays
      BY <2>1 DEF create_or_get, RecoveryInv, TypeOK
    <2>2. ASSUME ~create_or_get(o)
          PROVE  UNCHANGED <<state, error, retiring>>
      BY <1>3, <2>2 DEF api_step, create_storage_operation, register_primary_replicas,
            ensure_storage_recovery_resource, api_crash, catalog
    <2>3. QED
      BY <1>1, <2>1, <2>2
  <1>4. ASSUME NEW o \in Operations, job_step(o)
        PROVE  Stays
    <2>1. UNCHANGED <<state, error, retiring>>
      BY <1>4 DEF job_step, execute_transfer, run_transfer, copy_job_complete, run_finalize,
                  verify_job_complete, catalog
    <2>2. QED
      BY <1>1, <2>1
  <1>5. ASSUME NEW o \in Operations, NEW c \in Controllers,
               reconcile_step(c, o) \/ controller_crash(c, o)
        PROVE  Stays
    <2>1. ASSUME commit_success(c, o)
          PROVE  Stays
      <3>1. CASE state[o] = "VERIFYING"
        <4>1. /\ state' = [state EXCEPT ![o] = "SUCCEEDED"] /\ error' = error
              /\ retiring \subseteq retiring'
          BY <2>1, <3>1 DEF commit_success
        <4>2. QED
          BY <3>1, <4>1 DEF RecoveryInv, TypeOK
      <3>2. CASE state[o] # "VERIFYING"
        BY <1>1, <2>1, <3>2 DEF commit_success
      <3>3. QED
        BY <3>1, <3>2
    <2>2. ASSUME NEW stage \in Stages, fail(c, o, stage)
          PROVE  Stays
      <3>1. CASE state[o] \in Unfinished
        BY <2>2, <3>1 DEF fail, RecoveryInv, TypeOK, Unfinished
      <3>2. CASE state[o] \notin Unfinished
        BY <1>1, <2>2, <3>2 DEF fail
      <3>3. QED
        BY <3>1, <3>2
    <2>3. ASSUME transition_to_running(c, o) \/ transition_to_verifying(c, o)
          PROVE  Stays
      BY <2>3 DEF transition_to_running, transition_to_verifying, transition, RecoveryInv, TypeOK
    <2>4. ASSUME \/ reconcile(c, o)
                 \/ \E stage \in Stages : ensure_job(c, o, stage) \/ inspect_job(c, o, stage)
                 \/ patch_status(c, o)
                 \/ patch_certificate(c, o)
                 \/ controller_crash(c, o)
          PROVE  UNCHANGED <<state, error, retiring>>
      BY <2>4 DEF reconcile, ensure_job, inspect_job, patch_status, patch_certificate,
                  controller_crash, catalog
    <2>5. QED
      BY <1>1, <1>5, <2>1, <2>2, <2>3, <2>4 DEF reconcile_step
  <1>6. ASSUME NEW o \in Operations, NEW stage \in Stages,
               job_fails(o, stage) \/ job_collected(o, stage)
        PROVE  Stays
    BY <1>1, <1>6 DEF job_fails, job_collected, catalog
  <1> HIDE DEF Stays
  <1>7. Stays
    BY <1>2, <1>3, <1>4, <1>5, <1>6 DEF Next
  <1>8. QED
    BY <1>7 DEF Stays

\* An operation is decided once: no replica of the operator, however late it
\* calls fail, transition or commit_success, changes SUCCEEDED or FAILED or the
\* error code; and a retired row is never offered as READY again, whichever
\* request is repeated.
THEOREM OutcomesAreFinal == Spec => OutcomesFinal
  <1>1. ASSUME RecoveryInv, RecoveryInv', [Next]_vars
        PROVE  [/\ \A o \in Operations : state[o] \in {"SUCCEEDED", "FAILED"} =>
                      state'[o] = state[o] /\ error'[o] = error[o]
                /\ retiring \subseteq retiring' /\ retiring' \cap ready' = {}]_vars
    <2>1. retiring' \cap ready' = {}
      BY <1>1 DEF RecoveryInv, PrimariesStand
    <2>2. QED
      BY <1>1, <2>1, DecidedStays
  <1>2. QED
    BY <1>1, RecoveryInvariant, PTL DEF Spec, OutcomesFinal

=============================================================================
