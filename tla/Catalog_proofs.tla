--------------------------- MODULE Catalog_proofs ---------------------------
(* The catalog's invariant and refinement, for any number of operations,    *)
(* datasets, snapshots, partitions, reducers and digests.                   *)
EXTENDS Catalog, JobLifecycle_proofs

\* transition_locked keeps the job columns well typed.
LEMMA TransitionTyping ==
  ASSUME TypeOK, NEW o \in Operations, NEW path \in Seq(JobStates),
         Len(path) \in Nat \ {0}, transition_locked(o, path)
  PROVE  /\ state' \in [Operations -> JobStates \cup {"ABSENT"}]
         /\ revision' \in [Operations -> Nat]
         /\ audit' \in [Operations -> Seq(JobStates)]
  <1>1. path[Len(path)] \in JobStates
    OBVIOUS
  <1>2. audit[o] \o path \in Seq(JobStates)
    BY ConcatProperties DEF TypeOK
  <1>3. QED
    BY <1>1, <1>2 DEF transition_locked, TypeOK

LEMMA InitInv == Init => CatalogInv
  <1> SUFFICES ASSUME Init PROVE CatalogInv
    OBVIOUS
  <1>1. TypeOK
    BY MaxCrashesAssumption DEF Init, TypeOK, EmptyBuild, Builds
  <1>2. RequestRows
    BY DEF Init, RequestRows
  <1>3. TablesAgree
    BY DEF Init, TablesAgree
  <1>4. EvidenceRows
    BY DEF Init, EvidenceRows, EmptyBuild
  <1>5. QED
    BY <1>1, <1>2, <1>3, <1>4 DEF CatalogInv

LEMMA CreateDatasetInv ==
  ASSUME CatalogInv, NEW d \in Datasets, create_dataset(d)
  PROVE  CatalogInv'
  <1> USE DEF CatalogInv, create_dataset, job, publication, caller
  <1>1. TypeOK'
    BY DEF TypeOK
  <1>2. RequestRows'
    BY DEF RequestRows
  <1>3. TablesAgree'
    BY DEF TablesAgree
  <1>4. EvidenceRows'
    BY DEF EvidenceRows, PublicationEvidence
  <1>5. QED
    BY <1>1, <1>2, <1>3, <1>4

LEMMA CreateCompilationInv ==
  ASSUME CatalogInv, NEW o \in Operations, NEW r \in Requests,
         create_or_get_compilation(o, r)
  PROVE  CatalogInv'
  <1> USE DEF CatalogInv
  <1>1. /\ request' = [request EXCEPT ![o] = r]
        /\ state' = [state EXCEPT ![o] = "REGISTERED"]
        /\ audit' = [audit EXCEPT ![o] = <<"REGISTERED">>]
        /\ UNCHANGED <<datasets, revision, build, cloud_activation, active,
                       snapshot, followup, lost, crashes>>
        /\ state[o] = "ABSENT" /\ request[o] = None /\ r # None
    BY NoneRowAssumption
    DEF create_or_get_compilation, publication, caller, RequestRows
  <1>2. TypeOK'
    BY <1>1 DEF TypeOK, JobStates, Compiling
  <1>3. RequestRows'
    BY <1>1 DEF create_or_get_compilation, RequestRows, TypeOK
  <1>4. TablesAgree'
    BY <1>1 DEF TablesAgree, TypeOK, SnapshotRows
  <1>5. EvidenceRows'
    <2>1. \A s \in Snapshots : PublicationEvidence(s) <=> PublicationEvidence(s)'
      BY <1>1 DEF PublicationEvidence
    <2>2. QED
      BY <1>1, <2>1 DEF EvidenceRows, TypeOK
  <1>6. QED
    BY <1>2, <1>3, <1>4, <1>5

\* c is a build record with the serving rows of b.
SameServing(b, c) ==
  /\ c \in Builds
  /\ c.serving_root = b.serving_root
  /\ c.serving_certification = b.serving_certification

\* Failing or cancelling a job, or walking it within its compiling states,
\* touches no snapshot: such a job has none.
LEMMA CompilingStepInv ==
  ASSUME CatalogInv, NEW o \in Operations, state[o] \in Compiling,
         state' \in [Operations -> JobStates \cup {"ABSENT"}],
         revision' \in [Operations -> Nat],
         audit' \in [Operations -> Seq(JobStates)],
         build' \in [Operations -> Builds],
         state' = state \/ \E to \in Compiling \cup Aborted : state' = [state EXCEPT ![o] = to],
         \A p \in Operations : SameServing(build[p], build'[p]),
         UNCHANGED <<datasets, request, cloud_activation, active, snapshot,
                     followup, lost, crashes>>
  PROVE  CatalogInv'
  <1> USE DEF CatalogInv
  <1>1. /\ state'[o] \notin {"ABSENT", "CERTIFIED", "PUBLISHED"}
        /\ state[o] \notin {"ABSENT", "CERTIFIED", "PUBLISHED"}
        /\ \A p \in Operations \ {o} : state'[p] = state[p]
    BY DEF TypeOK, Compiling, Aborted
  <1>2. TypeOK'
    BY DEF TypeOK
  <1>3. RequestRows'
    BY <1>1 DEF RequestRows, TypeOK
  <1>4. TablesAgree'
    <2>1. \A s \in Snapshots : snapshot[s] # None => snapshot[s].operation \in Operations \ {o}
      BY <1>1 DEF TablesAgree, TypeOK, SnapshotRows
    <2>2. QED
      BY <1>1, <2>1 DEF TablesAgree, TypeOK, SnapshotRows
  <1>5. EvidenceRows'
    <2>1. \A s \in Snapshots : snapshot[s] # None =>
            (PublicationEvidence(s) <=> PublicationEvidence(s)')
      BY DEF PublicationEvidence, TypeOK, SnapshotRows, SameServing
    <2>2. QED
      BY <1>1, <2>1, ZenonT(60) DEF EvidenceRows, TypeOK, SameServing
  <1>6. QED
    BY <1>2, <1>3, <1>4, <1>5

LEMMA AbortInv ==
  ASSUME CatalogInv, NEW o \in Operations, NEW to \in Aborted, Abort(o, to)
  PROVE  CatalogInv'
  <1>1. state[o] \in Compiling
    BY DEF Abort, may_transition, ForwardEdges, Aborted
  <1>2. /\ <<to>> \in Seq(JobStates) /\ Len(<<to>>) = 1 /\ <<to>>[1] = to
        /\ transition_locked(o, <<to>>)
    BY DEF Abort, JobStates
  <1>3. /\ state' \in [Operations -> JobStates \cup {"ABSENT"}]
        /\ revision' \in [Operations -> Nat]
        /\ audit' \in [Operations -> Seq(JobStates)]
    <2> DEFINE path == <<to>>
    <2>1. path \in Seq(JobStates) /\ Len(path) \in Nat \ {0} /\ transition_locked(o, path)
      BY <1>2
    <2> HIDE DEF path
    <2>2. QED
      BY <2>1, TransitionTyping DEF CatalogInv
  <1>4. state' = [state EXCEPT ![o] = to]
    BY <1>2 DEF transition_locked
  <1>5. UNCHANGED <<datasets, request, build, cloud_activation, active, snapshot,
                    followup, lost, crashes>>
    BY DEF Abort, publication, caller
  <1>6. /\ build' \in [Operations -> Builds]
        /\ \A p \in Operations : SameServing(build[p], build'[p])
    BY <1>5 DEF CatalogInv, TypeOK, SameServing
  <1>7. QED
    BY <1>1, <1>3, <1>4, <1>5, <1>6, CompilingStepInv

\* Filling in one field of a build record leaves its serving rows alone.
LEMMA BuildFields ==
  ASSUME NEW b \in Builds
  PROVE  /\ SameServing(b, [b EXCEPT !.plan = TRUE])
         /\ \A P \in SUBSET Partitions :
              /\ SameServing(b, [b EXCEPT !.projected = P])
              /\ SameServing(b, [b EXCEPT !.artifacts = P])
         /\ \A R \in SUBSET Reducers : SameServing(b, [b EXCEPT !.reduced = R])
         /\ \A digest \in Digests :
              /\ SameServing(b, [b EXCEPT !.distributed_root = digest])
              /\ SameServing(b, [b EXCEPT !.artifact_plan = digest])
              /\ SameServing(b, [b EXCEPT !.artifact_root = digest])
  <1>1. SameServing(b, [b EXCEPT !.plan = TRUE])
    BY DEF SameServing, Builds
  <1>2. ASSUME NEW P \in SUBSET Partitions
        PROVE  SameServing(b, [b EXCEPT !.projected = P])
    BY DEF SameServing, Builds
  <1>3. ASSUME NEW P \in SUBSET Partitions
        PROVE  SameServing(b, [b EXCEPT !.artifacts = P])
    BY DEF SameServing, Builds
  <1>4. ASSUME NEW R \in SUBSET Reducers
        PROVE  SameServing(b, [b EXCEPT !.reduced = R])
    BY DEF SameServing, Builds
  <1>5. ASSUME NEW digest \in Digests
        PROVE  SameServing(b, [b EXCEPT !.distributed_root = digest])
    BY DEF SameServing, Builds
  <1>6. ASSUME NEW digest \in Digests
        PROVE  SameServing(b, [b EXCEPT !.artifact_plan = digest])
    BY DEF SameServing, Builds
  <1>7. ASSUME NEW digest \in Digests
        PROVE  SameServing(b, [b EXCEPT !.artifact_root = digest])
    BY DEF SameServing, Builds
  <1>8. QED
    BY <1>1, <1>2, <1>3, <1>4, <1>5, <1>6, <1>7

\* The same for the build records of all operations.
LEMMA BuildUpdate ==
  ASSUME TypeOK, NEW o \in Operations, NEW c, SameServing(build[o], c),
         build' = [build EXCEPT ![o] = c]
  PROVE  /\ build' \in [Operations -> Builds]
         /\ \A p \in Operations : SameServing(build[p], build'[p])
  BY DEF TypeOK, SameServing

\* A step of the distributed build that may walk the job over a barrier.
LEMMA BarrierStepInv ==
  ASSUME CatalogInv, NEW o \in Operations, NEW from \in Compiling, NEW to \in Compiling,
         Rank[from] < Rank[to], state[o] = from,
         transition_locked(o, Path(from, to)) \/ UNCHANGED job,
         build' \in [Operations -> Builds],
         \A p \in Operations : SameServing(build[p], build'[p]),
         UNCHANGED <<datasets, request, cloud_activation, publication, caller>>
  PROVE  CatalogInv'
  <1>1. UNCHANGED <<datasets, request, cloud_activation, active, snapshot,
                    followup, lost, crashes>>
    BY DEF publication, caller
  <1>2. CASE transition_locked(o, Path(from, to))
    <2>1. /\ Path(from, to) \in Seq(JobStates) /\ Len(Path(from, to)) \in Nat \ {0}
          /\ Path(from, to)[Len(Path(from, to))] = to
      BY PathIsLegal
    <2>2. /\ state' \in [Operations -> JobStates \cup {"ABSENT"}]
          /\ revision' \in [Operations -> Nat]
          /\ audit' \in [Operations -> Seq(JobStates)]
      BY <1>2, <2>1, TransitionTyping DEF CatalogInv
    <2>3. state' = [state EXCEPT ![o] = to]
      BY <1>2, <2>1 DEF transition_locked
    <2>4. QED
      BY <1>1, <2>2, <2>3, CompilingStepInv
  <1>3. CASE UNCHANGED job
    <2>1. /\ state' = state
          /\ state' \in [Operations -> JobStates \cup {"ABSENT"}]
          /\ revision' \in [Operations -> Nat]
          /\ audit' \in [Operations -> Seq(JobStates)]
      BY <1>3 DEF job, CatalogInv, TypeOK
    <2>2. QED
      BY <1>1, <2>1, CompilingStepInv
  <1>4. QED
    BY <1>2, <1>3

LEMMA RegisterPlanInv ==
  ASSUME CatalogInv, NEW o \in Operations, register_distributed_plan(o)
  PROVE  CatalogInv'
  <1>1. build[o] \in Builds
    BY DEF CatalogInv, TypeOK
  <1>2. /\ build' \in [Operations -> Builds]
        /\ \A q \in Operations : SameServing(build[q], build'[q])
    <2> DEFINE c == [build[o] EXCEPT !.plan = TRUE]
    <2>1. SameServing(build[o], c)
      BY <1>1, BuildFields
    <2>2. build' = [build EXCEPT ![o] = c]
      BY <1>1 DEF register_distributed_plan, CatalogInv, TypeOK
    <2> HIDE DEF c
    <2>3. QED
      BY <2>1, <2>2, BuildUpdate DEF CatalogInv
  <1>3. "REGISTERED" \in Compiling /\ "PARTITIONED" \in Compiling
    BY DEF Compiling
  <1>4. QED
    BY <1>2, <1>3, RankOrder, BarrierStepInv DEF register_distributed_plan

\* A repeated commit of finished work outside its stage changes nothing.
LEMMA RepeatedWorkInv ==
  ASSUME CatalogInv, NEW o \in Operations, build' = build, UNCHANGED job,
         UNCHANGED <<datasets, request, cloud_activation, publication, caller>>
  PROVE  CatalogInv'
  BY DEF CatalogInv, job, publication, caller, TypeOK, RequestRows, TablesAgree,
         EvidenceRows, PublicationEvidence

LEMMA ProjectionInv ==
  ASSUME CatalogInv, NEW o \in Operations, NEW p \in Partitions, commit_projection(o, p)
  PROVE  CatalogInv'
  <1>1. build[o] \in Builds
    BY DEF CatalogInv, TypeOK
  <1>2. /\ build' \in [Operations -> Builds]
        /\ \A q \in Operations : SameServing(build[q], build'[q])
    <2> DEFINE c == [build[o] EXCEPT !.projected = build[o].projected \cup {p}]
    <2>1. SameServing(build[o], c)
      BY <1>1, BuildFields DEF Builds
    <2>2. build' = [build EXCEPT ![o] = c]
      BY <1>1 DEF commit_projection, CatalogInv, TypeOK
    <2> HIDE DEF c
    <2>3. QED
      BY <2>1, <2>2, BuildUpdate DEF CatalogInv
  <1>3. /\ "PARTITIONED" \in Compiling /\ "PROJECTED" \in Compiling
        /\ Rank["PARTITIONED"] < Rank["PROJECTED"]
    BY DEF Compiling, Rank
  <1>4. Path("PARTITIONED", "PROJECTED") = <<"PROJECTED">>
    <2>1. Path("PARTITIONED", "PROJECTED") = SubSeq(Pipeline, 5, 5)
      BY DEF Path, Rank
    <2>2. Pipeline[5] = "PROJECTED" /\ Pipeline \in Seq(JobStates) /\ Len(Pipeline) = 11
      BY PipelineEdges DEF Pipeline
    <2>3. QED
      BY <2>1, <2>2
  <1>5. /\ transition_locked(o, <<"PROJECTED">>) \/ UNCHANGED job
        /\ UNCHANGED <<datasets, request, cloud_activation, publication, caller>>
    BY DEF commit_projection
  <1>6. CASE state[o] = "PARTITIONED"
    BY <1>2, <1>3, <1>4, <1>5, <1>6, BarrierStepInv
  <1>7. CASE state[o] # "PARTITIONED"
    <2>1. p \in build[o].projected /\ UNCHANGED job
      BY <1>7 DEF commit_projection
    <2>2. build' = build
      BY <1>1, <2>1 DEF commit_projection, CatalogInv, TypeOK, Builds
    <2>3. QED
      BY <1>5, <2>1, <2>2, RepeatedWorkInv
  <1>8. QED
    BY <1>6, <1>7

LEMMA ReducerInv ==
  ASSUME CatalogInv, NEW o \in Operations, NEW r \in Reducers, commit_reducer(o, r)
  PROVE  CatalogInv'
  <1>1. build[o] \in Builds
    BY DEF CatalogInv, TypeOK
  <1>2. /\ build' \in [Operations -> Builds]
        /\ \A q \in Operations : SameServing(build[q], build'[q])
    <2> DEFINE c == [build[o] EXCEPT !.reduced = build[o].reduced \cup {r}]
    <2>1. SameServing(build[o], c)
      BY <1>1, BuildFields DEF Builds
    <2>2. build' = [build EXCEPT ![o] = c]
      BY <1>1 DEF commit_reducer, CatalogInv, TypeOK
    <2> HIDE DEF c
    <2>3. QED
      BY <2>1, <2>2, BuildUpdate DEF CatalogInv
  <1>3. "PROJECTED" \in Compiling /\ "INDEXED" \in Compiling
    BY DEF Compiling
  <1>4. CASE state[o] = "PROJECTED"
    BY <1>2, <1>3, <1>4, RankOrder, BarrierStepInv DEF commit_reducer
  <1>5. CASE state[o] # "PROJECTED"
    <2>1. r \in build[o].reduced /\ UNCHANGED job
      BY <1>5 DEF commit_reducer
    <2>2. build' = build
      BY <1>1, <2>1 DEF commit_reducer, CatalogInv, TypeOK, Builds
    <2>3. QED
      BY <2>1, <2>2, RepeatedWorkInv DEF commit_reducer
  <1>6. QED
    BY <1>4, <1>5

\* Evidence rows are only added: what a reader or a publication relied on stays.
LEMMA CommitEvidenceInv ==
  ASSUME CatalogInv, NEW o \in Operations, CommitEvidence(o)
  PROVE  CatalogInv'
  <1>1. UNCHANGED <<datasets, request, state, revision, audit, cloud_activation,
                    active, snapshot, followup, lost, crashes>>
    BY DEF CommitEvidence, job, publication, caller
  <1> DEFINE Grown(b, c) ==
        /\ c \in Builds
        /\ b.serving_root # None => c.serving_root = b.serving_root
        /\ b.serving_certification # None =>
             c.serving_certification = b.serving_certification
        /\ c.serving_certification # b.serving_certification =>
             /\ c.serving_root # None
             /\ c.serving_certification.root = c.serving_root.root
  <1>2. build[o] \in Builds /\ build \in [Operations -> Builds]
    BY DEF CatalogInv, TypeOK
  <1>3. \E c \in Builds : Grown(build[o], c) /\ build' = [build EXCEPT ![o] = c]
    <2> HIDE DEF Grown
    <2>1. \A c : SameServing(build[o], c) => c \in Builds /\ Grown(build[o], c)
      BY DEF Grown, SameServing
    <2>2. ASSUME NEW p \in Partitions, commit_artifact(o, p)
          PROVE  \E c \in Builds : Grown(build[o], c) /\ build' = [build EXCEPT ![o] = c]
      <3> DEFINE c == [build[o] EXCEPT !.artifacts = build[o].artifacts \cup {p}]
      <3>1. SameServing(build[o], c)
        BY <1>2, BuildFields DEF Builds
      <3>2. build' = [build EXCEPT ![o] = c]
        BY <1>2, <2>2 DEF commit_artifact
      <3> HIDE DEF c
      <3>3. QED
        BY <2>1, <3>1, <3>2
    <2>3. ASSUME NEW digest \in Digests, commit_distributed_root(o, digest)
          PROVE  \E c \in Builds : Grown(build[o], c) /\ build' = [build EXCEPT ![o] = c]
      <3> DEFINE c == [build[o] EXCEPT !.distributed_root = digest]
      <3>1. SameServing(build[o], c)
        BY <1>2, BuildFields
      <3>2. build' = [build EXCEPT ![o] = c]
        BY <1>2, <2>3 DEF commit_distributed_root
      <3> HIDE DEF c
      <3>3. QED
        BY <2>1, <3>1, <3>2
    <2>4. ASSUME NEW digest \in Digests, register_artifact_plan(o, digest)
          PROVE  \E c \in Builds : Grown(build[o], c) /\ build' = [build EXCEPT ![o] = c]
      <3> DEFINE c == [build[o] EXCEPT !.artifact_plan = digest]
      <3>1. SameServing(build[o], c)
        BY <1>2, BuildFields
      <3>2. build' = [build EXCEPT ![o] = c]
        BY <1>2, <2>4 DEF register_artifact_plan
      <3> HIDE DEF c
      <3>3. QED
        BY <2>1, <3>1, <3>2
    <2>5. ASSUME NEW digest \in Digests, commit_artifact_root(o, digest)
          PROVE  \E c \in Builds : Grown(build[o], c) /\ build' = [build EXCEPT ![o] = c]
      <3> DEFINE c == [build[o] EXCEPT !.artifact_root = digest]
      <3>1. SameServing(build[o], c)
        BY <1>2, BuildFields
      <3>2. build' = [build EXCEPT ![o] = c]
        BY <1>2, <2>5 DEF commit_artifact_root
      <3> HIDE DEF c
      <3>3. QED
        BY <2>1, <3>1, <3>2
    <2>6. ASSUME NEW digest \in Digests, NEW source \in Digests,
                 commit_serving_root(o, digest, source)
          PROVE  \E c \in Builds : Grown(build[o], c) /\ build' = [build EXCEPT ![o] = c]
      <3> DEFINE b == build[o]
                 c == [b EXCEPT !.serving_root = [root |-> digest, source |-> source]]
      <3>1. b \in Builds /\ b.serving_root = None
        BY <1>2, <2>6 DEF commit_serving_root
      <3>2. build' = [build EXCEPT ![o] = c]
        BY <1>2, <2>6 DEF commit_serving_root
      <3> HIDE DEF b
      <3>3. c \in Builds /\ c.serving_certification = b.serving_certification
        BY <3>1 DEF Builds
      <3> HIDE DEF c
      <3>4. Grown(b, c)
        BY <3>1, <3>3 DEF Grown
      <3>5. QED
        BY <3>2, <3>3, <3>4 DEF b
    <2>7. ASSUME NEW digest \in Digests, NEW manifest \in Digests,
                 commit_serving_certification(o, digest, manifest)
          PROVE  \E c \in Builds : Grown(build[o], c) /\ build' = [build EXCEPT ![o] = c]
      <3> DEFINE b == build[o]
                 c == [b EXCEPT !.serving_certification =
                         [root |-> digest, manifest |-> manifest]]
      <3>1. /\ b \in Builds /\ b.serving_certification = None
            /\ b.serving_root # None /\ b.serving_root.root = digest
        BY <1>2, <2>7 DEF commit_serving_certification
      <3>2. build' = [build EXCEPT ![o] = c]
        BY <1>2, <2>7 DEF commit_serving_certification
      <3> HIDE DEF b
      <3>3. /\ c \in Builds /\ c.serving_root = b.serving_root
            /\ c.serving_certification.root = digest
        BY <3>1 DEF Builds
      <3> HIDE DEF c
      <3>4. Grown(b, c)
        BY <3>1, <3>3 DEF Grown
      <3>5. QED
        BY <3>2, <3>3, <3>4 DEF b
    <2>8. QED
      BY <2>2, <2>3, <2>4, <2>5, <2>6, <2>7 DEF CommitEvidence
  <1>4. /\ build' \in [Operations -> Builds]
         /\ \A p \in Operations : build'[p] = build[p] \/ Grown(build[p], build'[p])
    BY <1>2, <1>3
  <1>5. TypeOK'
    BY <1>1, <1>4 DEF CatalogInv, TypeOK
  <1>6. RequestRows'
    BY <1>1 DEF CatalogInv, RequestRows
  <1>7. TablesAgree'
    BY <1>1 DEF CatalogInv, TablesAgree
  <1>8. EvidenceRows'
    <2>1. \A s \in Snapshots : snapshot[s] # None =>
            (PublicationEvidence(s) => PublicationEvidence(s)')
      BY <1>1, <1>4 DEF PublicationEvidence, CatalogInv, TypeOK, SnapshotRows
    <2>2. QED
      BY <1>1, <1>4, <2>1 DEF CatalogInv, EvidenceRows
  <1>9. QED
    BY <1>5, <1>6, <1>7, <1>8 DEF CatalogInv

LEMMA RetryInv ==
  ASSUME CatalogInv, NEW o \in Operations, RetryCertification(o)
  PROVE  CatalogInv'
  <1> USE DEF CatalogInv, RetryCertification, job, publication
  <1>1. TypeOK'
    BY DEF TypeOK
  <1>2. RequestRows'
    BY DEF RequestRows
  <1>3. TablesAgree'
    BY DEF TablesAgree
  <1>4. EvidenceRows'
    BY DEF EvidenceRows, PublicationEvidence
  <1>5. QED
    BY <1>1, <1>2, <1>3, <1>4

LEMMA CrashInv ==
  ASSUME CatalogInv, NEW o \in Operations, Crash(o)
  PROVE  CatalogInv'
  <1> USE DEF CatalogInv, Crash, job, publication
  <1>1. TypeOK'
    BY MaxCrashesAssumption DEF TypeOK
  <1>2. RequestRows'
    BY DEF RequestRows
  <1>3. TablesAgree'
    BY DEF TablesAgree
  <1>4. EvidenceRows'
    BY DEF EvidenceRows, PublicationEvidence
  <1>5. QED
    BY <1>1, <1>2, <1>3, <1>4

\* The first transaction of a certifying call: the target row did not exist,
\* and no other request may claim it.
LEMMA CertifyInv ==
  ASSUME CatalogInv, NEW o \in Operations, NEW manifest \in Digests,
         Certify(o, manifest),
         \/ UNCHANGED cloud_activation
         \/ cloud_activation' = [cloud_activation EXCEPT ![o] = manifest]
  PROVE  /\ CatalogInv'
         /\ request[o] \in Requests
         /\ snapshot[request[o].target] = None
  <1> DEFINE t == request[o].target
             row == [dataset |-> request[o].dataset, parent |-> request[o].parent,
                     operation |-> o, manifest |-> manifest, state |-> "CERTIFIED"]
  <1>1. /\ state[o] \in Compiling
        /\ transition_locked(o, Path(state[o], "CERTIFIED"))
        /\ snapshot' = [snapshot EXCEPT ![t] = row]
        /\ followup' \in {followup, followup \cup {o}}
        /\ UNCHANGED <<datasets, active, request, build, lost, crashes>>
    BY DEF Certify
  <1>2. /\ state[o] \notin {"ABSENT", "CERTIFIED", "PUBLISHED"}
        /\ request[o] # None /\ request[o] \in Requests /\ t \in Snapshots
    BY <1>1 DEF Compiling, CatalogInv, RequestRows, TypeOK, Requests
  <1>3. /\ row \in SnapshotRows /\ row # None
        /\ row.operation = o /\ row.state = "CERTIFIED" /\ row.manifest = manifest
        /\ row.dataset = request[o].dataset /\ row.parent = request[o].parent
    BY <1>2, NoneRowAssumption DEF SnapshotRows, Requests
  <1> HIDE DEF row
  <1>4. snapshot[t] = None
    <2> SUFFICES ASSUME snapshot[t] # None PROVE FALSE
      OBVIOUS
    <2>1. /\ snapshot[t].operation \in Operations
          /\ request[snapshot[t].operation] # None
          /\ request[snapshot[t].operation].target = t
          /\ state[snapshot[t].operation] \in {"CERTIFIED", "PUBLISHED"}
      BY <1>2 DEF CatalogInv, TablesAgree, TypeOK, SnapshotRows
    <2>2. snapshot[t].operation = o
      BY <1>2, <2>1 DEF CatalogInv, RequestRows
    <2>3. QED
      BY <1>2, <2>1, <2>2
  <1> HIDE DEF t
  <1>5. /\ Path(state[o], "CERTIFIED") \in Seq(JobStates)
        /\ Len(Path(state[o], "CERTIFIED")) \in Nat \ {0}
        /\ Path(state[o], "CERTIFIED")[Len(Path(state[o], "CERTIFIED"))] = "CERTIFIED"
    BY <1>1, RankOrder, PathIsLegal
  <1>6. /\ state' = [state EXCEPT ![o] = "CERTIFIED"]
        /\ revision' \in [Operations -> Nat]
        /\ audit' \in [Operations -> Seq(JobStates)]
    BY <1>1, <1>5, TransitionTyping DEF CatalogInv, transition_locked
  <1>7. \A s \in Snapshots : snapshot[s] # None =>
          /\ s # t /\ snapshot'[s] = snapshot[s]
          /\ snapshot[s].operation \in Operations \ {o}
          /\ state'[snapshot[s].operation] = state[snapshot[s].operation]
    BY <1>1, <1>2, <1>4, <1>6 DEF CatalogInv, TablesAgree, TypeOK, SnapshotRows
  <1>8. snapshot'[t] = row /\ t \in Snapshots
    BY <1>1, <1>2 DEF CatalogInv, TypeOK, t
  <1>9. TypeOK'
    BY <1>1, <1>2, <1>3, <1>6 DEF CatalogInv, TypeOK, JobStates, Compiling
  <1>10. RequestRows'
    <2>1. \A p \in Operations : state'[p] = "ABSENT" <=> request'[p] = None
      BY <1>1, <1>2, <1>6 DEF CatalogInv, RequestRows, TypeOK
    <2>2. \A p \in Operations : request'[p] # None /\ request'[p].parent # None =>
              /\ snapshot'[request'[p].parent] # None
              /\ snapshot'[request'[p].parent].dataset = request'[p].dataset
      BY <1>1, <1>7 DEF CatalogInv, RequestRows, TypeOK, Requests
    <2>3. \A p \in (followup \cup lost)' : state'[p] \in {"CERTIFIED", "PUBLISHED"}
      BY <1>1, <1>6 DEF CatalogInv, RequestRows, TypeOK
    <2>4. QED
      BY <1>1, <2>1, <2>2, <2>3 DEF CatalogInv, RequestRows
  <1>11. TablesAgree'
    <2>1. active[request[o].dataset] # t
      BY <1>2, <1>4, <1>8, NoneAssumption DEF CatalogInv, TablesAgree, Requests
    <2>2. ASSUME NEW s \in Snapshots, snapshot'[s] # None
          PROVE  /\ request'[snapshot'[s].operation] # None
                 /\ request'[snapshot'[s].operation].target = s
                 /\ request'[snapshot'[s].operation].dataset = snapshot'[s].dataset
                 /\ request'[snapshot'[s].operation].parent = snapshot'[s].parent
                 /\ state'[snapshot'[s].operation] =
                      IF snapshot'[s].state = "CERTIFIED" THEN "CERTIFIED" ELSE "PUBLISHED"
                 /\ snapshot'[s].state = "PUBLISHED" <=> active'[snapshot'[s].dataset] = s
      <3>1. CASE s = t
        BY <3>1, <1>1, <1>2, <1>3, <1>6, <1>8, <2>1 DEF CatalogInv, TypeOK, t
      <3>2. CASE s # t
        <4>1. snapshot[s] # None /\ snapshot'[s] = snapshot[s]
          BY <3>2, <2>2, <1>1 DEF CatalogInv, TypeOK
        <4>2. QED
          BY <4>1, <1>1, <1>7 DEF CatalogInv, TablesAgree
      <3>3. QED
        BY <3>1, <3>2
    <2>3. ASSUME NEW p \in Operations, state'[p] \in {"CERTIFIED", "PUBLISHED"}
          PROVE  /\ snapshot'[request'[p].target] # None
                 /\ snapshot'[request'[p].target].operation = p
      <3>1. CASE p = o
        BY <3>1, <1>1, <1>3, <1>8 DEF t
      <3>2. CASE p # o
        <4>1. state[p] \in {"CERTIFIED", "PUBLISHED"} /\ request[p] # None
              /\ request[p].target \in Snapshots
          BY <3>2, <2>3, <1>6 DEF CatalogInv, TypeOK, RequestRows, Requests
        <4>2. QED
          BY <4>1, <1>1, <1>7 DEF CatalogInv, TablesAgree
      <3>3. QED
        BY <3>1, <3>2
    <2>4. \A d \in Datasets : active'[d] # None =>
            snapshot'[active'[d]] # None /\ snapshot'[active'[d]].dataset = d
      BY <1>1, <1>7 DEF CatalogInv, TablesAgree, TypeOK
    <2>5. QED
      BY <2>2, <2>3, <2>4 DEF TablesAgree
  <1>12. EvidenceRows'
    <2>1. ASSUME NEW p \in Operations, cloud_activation'[p] # None
          PROVE  /\ state'[p] \in {"CERTIFIED", "PUBLISHED"}
                 /\ snapshot'[request'[p].target].manifest = cloud_activation'[p]
      <3>1. CASE p = o
        <4>1. cloud_activation[o] = None
          BY <1>2 DEF CatalogInv, EvidenceRows
        <4>2. cloud_activation'[o] = manifest
          BY <2>1, <3>1, <4>1 DEF CatalogInv, TypeOK
        <4>3. QED
          BY <3>1, <4>2, <1>1, <1>3, <1>6, <1>8 DEF CatalogInv, TypeOK, t
      <3>2. CASE p # o
        <4>1. cloud_activation'[p] = cloud_activation[p] /\ state'[p] = state[p]
          BY <3>2, <1>6 DEF CatalogInv, TypeOK
        <4>2. /\ state[p] \in {"CERTIFIED", "PUBLISHED"}
              /\ snapshot[request[p].target].manifest = cloud_activation[p]
          BY <2>1, <4>1 DEF CatalogInv, EvidenceRows
        <4>3. request[p] # None /\ request[p].target \in Snapshots
          BY <4>2 DEF CatalogInv, TypeOK, RequestRows, Requests
        <4>4. snapshot[request[p].target] # None
          BY <4>2 DEF CatalogInv, TablesAgree
        <4>5. QED
          BY <4>1, <4>2, <4>3, <4>4, <1>1, <1>7
      <3>3. QED
        BY <3>1, <3>2
    <2>2. ASSUME NEW s \in Snapshots, snapshot'[s] # None, snapshot'[s].state # "CERTIFIED"
          PROVE  PublicationEvidence(s)'
      <3>1. s # t
        BY <2>2, <1>3, <1>8
      <3>2. snapshot'[s] = snapshot[s] /\ snapshot[s].operation \in Operations \ {o}
        BY <3>1, <2>2, <1>1, <1>7 DEF CatalogInv, TypeOK
      <3>3. PublicationEvidence(s)
        BY <2>2, <3>2 DEF CatalogInv, EvidenceRows
      <3>4. cloud_activation'[snapshot[s].operation] = cloud_activation[snapshot[s].operation]
        BY <3>2 DEF CatalogInv, TypeOK
      <3>5. QED
        BY <3>2, <3>3, <3>4, <1>1 DEF PublicationEvidence
    <2>3. QED
      BY <2>1, <2>2, <1>1 DEF CatalogInv, EvidenceRows
  <1>13. QED
    BY <1>2, <1>4, <1>9, <1>10, <1>11, <1>12 DEF CatalogInv, t

\* A row update of the state leaves the rest of the row.
LEMMA RowUpdate ==
  ASSUME NEW r \in SnapshotRows, NEW v, NEW q, q = [r EXCEPT !.state = v]
  PROVE  /\ q.dataset = r.dataset /\ q.parent = r.parent /\ q.operation = r.operation
         /\ q.manifest = r.manifest /\ q.state = v
  BY DEF SnapshotRows

\* The publishing transaction: what it changes, row by row.
LEMMA PublishEffect ==
  ASSUME CatalogInv, NEW s \in Snapshots, PublishTx(s),
         UNCHANGED <<datasets, request, build, cloud_activation, crashes>>
  PROVE  /\ snapshot[s] \in SnapshotRows /\ snapshot[s] # None
         /\ snapshot[s].state = "CERTIFIED" /\ PublicationEvidence(s)
         /\ snapshot[s].dataset \in Datasets /\ snapshot[s].operation \in Operations
         /\ active[snapshot[s].dataset] = snapshot[s].parent
         /\ active' = [active EXCEPT ![snapshot[s].dataset] = s]
         /\ state' = [state EXCEPT ![snapshot[s].operation] = "PUBLISHED"]
         /\ revision' \in [Operations -> Nat]
         /\ audit' \in [Operations -> Seq(JobStates)]
         /\ snapshot' \in [Snapshots -> SnapshotRows \cup {None}]
         /\ snapshot'[s].state = "PUBLISHED"
         /\ \A x \in Snapshots \ {s} :
              /\ x = snapshot[s].parent =>
                   /\ snapshot[x].dataset = snapshot[s].dataset
                   /\ snapshot[x].state = "PUBLISHED"
                   /\ snapshot'[x].state = "RETIRED"
              /\ x # snapshot[s].parent => snapshot'[x] = snapshot[x]
         /\ \A x \in Snapshots :
              /\ snapshot'[x] = None <=> snapshot[x] = None
              /\ snapshot[x] # None =>
                   /\ snapshot'[x].dataset = snapshot[x].dataset
                   /\ snapshot'[x].parent = snapshot[x].parent
                   /\ snapshot'[x].operation = snapshot[x].operation
                   /\ snapshot'[x].manifest = snapshot[x].manifest
  <1> DEFINE row == snapshot[s]
             path == <<"PUBLISHED">>
  <1>1. /\ row \in SnapshotRows /\ row # None
        /\ row.state = "CERTIFIED" /\ PublicationEvidence(s)
        /\ row.dataset \in Datasets /\ row.operation \in Operations
        /\ active[row.dataset] = row.parent
        /\ row.parent # None => /\ snapshot[row.parent].dataset = row.dataset
                               /\ snapshot[row.parent].state = "PUBLISHED"
    BY DEF PublishTx, Publishable, CatalogInv, TypeOK, SnapshotRows
  <1>2. /\ active' = [active EXCEPT ![row.dataset] = s]
        /\ transition_locked(row.operation, path)
        /\ snapshot' =
             [x \in Snapshots |->
                IF x = s THEN [snapshot[x] EXCEPT !.state = "PUBLISHED"]
                ELSE IF x = row.parent THEN [snapshot[x] EXCEPT !.state = "RETIRED"]
                ELSE snapshot[x]]
    BY DEF PublishTx
  <1>3. /\ path \in Seq(JobStates) /\ Len(path) \in Nat \ {0}
        /\ path[Len(path)] = "PUBLISHED"
    BY DEF JobStates
  <1> HIDE DEF path
  <1>4. /\ state' = [state EXCEPT ![row.operation] = "PUBLISHED"]
        /\ revision' \in [Operations -> Nat]
        /\ audit' \in [Operations -> Seq(JobStates)]
    BY <1>1, <1>2, <1>3, TransitionTyping DEF CatalogInv, transition_locked
  <1>5. row.parent # None => snapshot[row.parent] # None /\ row.parent \in Snapshots
    <2>1. row.dataset \in Datasets
      BY <1>1 DEF SnapshotRows
    <2>2. QED
      BY <1>1, <2>1 DEF CatalogInv, TablesAgree, TypeOK
  <1>6. \A x \in Snapshots : x = row.parent =>
          /\ x # s
          /\ snapshot[x] \in SnapshotRows
          /\ snapshot[x].dataset = row.dataset
          /\ snapshot[x].state = "PUBLISHED"
    BY <1>1, <1>5, NoneAssumption DEF CatalogInv, TypeOK
  <1>7. \A r \in SnapshotRows :
          /\ [r EXCEPT !.state = "PUBLISHED"] \in SnapshotRows
          /\ [r EXCEPT !.state = "RETIRED"] \in SnapshotRows
    BY DEF SnapshotRows
  <1>8. snapshot' \in [Snapshots -> SnapshotRows \cup {None}]
    BY <1>1, <1>2, <1>6, <1>7 DEF CatalogInv, TypeOK
  <1>9. /\ snapshot'[s] = [snapshot[s] EXCEPT !.state = "PUBLISHED"]
        /\ \A x \in Snapshots \ {s} :
             snapshot'[x] = IF x = row.parent
                              THEN [snapshot[x] EXCEPT !.state = "RETIRED"]
                              ELSE snapshot[x]
    BY <1>2
  <1>10. \A x \in Snapshots :
           /\ snapshot'[x] = None <=> snapshot[x] = None
           /\ snapshot[x] # None =>
                /\ snapshot'[x].dataset = snapshot[x].dataset
                /\ snapshot'[x].parent = snapshot[x].parent
                /\ snapshot'[x].operation = snapshot[x].operation
                /\ snapshot'[x].manifest = snapshot[x].manifest
    <2> SUFFICES ASSUME NEW x \in Snapshots,
                        x = s \/ x = row.parent
                 PROVE  /\ snapshot[x] # None /\ snapshot'[x] # None
                        /\ snapshot'[x].dataset = snapshot[x].dataset
                        /\ snapshot'[x].parent = snapshot[x].parent
                        /\ snapshot'[x].operation = snapshot[x].operation
                        /\ snapshot'[x].manifest = snapshot[x].manifest
      BY <1>9
    <2>1. PICK v \in {"PUBLISHED", "RETIRED"} : snapshot'[x] = [snapshot[x] EXCEPT !.state = v]
      BY <1>9
    <2>2. snapshot[x] \in SnapshotRows
      BY <1>1, <1>6
    <2>3. snapshot'[x] \in SnapshotRows
      BY <1>7, <2>1, <2>2
    <2>4. QED
      BY <2>1, <2>2, <2>3, RowUpdate, NoneRowAssumption
  <1>11. /\ snapshot'[s].state = "PUBLISHED"
         /\ \A x \in Snapshots \ {s} : x = row.parent => snapshot'[x].state = "RETIRED"
    <2>1. snapshot'[s].state = "PUBLISHED"
      BY <1>1, <1>9, RowUpdate
    <2>2. ASSUME NEW x \in Snapshots \ {s}, x = row.parent
          PROVE  snapshot'[x].state = "RETIRED"
      <3>1. snapshot[x] \in SnapshotRows /\ snapshot'[x] = [snapshot[x] EXCEPT !.state = "RETIRED"]
        BY <1>6, <1>9, <2>2
      <3>2. QED
        BY <3>1, RowUpdate
    <2>3. QED
      BY <2>1, <2>2
  <1>12. QED
    BY <1>1, <1>2, <1>4, <1>6, <1>8, <1>9, <1>10, <1>11

\* Publishing makes one row PUBLISHED, its parent RETIRED, and moves the
\* active pointer and the job with them.
LEMMA PublishInv ==
  ASSUME CatalogInv, NEW s \in Snapshots, PublishTx(s),
         followup' \subseteq followup, lost' = lost,
         UNCHANGED <<datasets, request, build, cloud_activation, crashes>>
  PROVE  CatalogInv'
  <1> DEFINE d == snapshot[s].dataset
             o == snapshot[s].operation
             p == snapshot[s].parent
  <1>1. /\ snapshot[s] \in SnapshotRows /\ snapshot[s] # None
        /\ snapshot[s].state = "CERTIFIED" /\ PublicationEvidence(s)
        /\ d \in Datasets /\ o \in Operations /\ active[d] = p
        /\ active' = [active EXCEPT ![d] = s]
        /\ state' = [state EXCEPT ![o] = "PUBLISHED"]
        /\ revision' \in [Operations -> Nat]
        /\ audit' \in [Operations -> Seq(JobStates)]
        /\ snapshot' \in [Snapshots -> SnapshotRows \cup {None}]
    BY PublishEffect
  <1>2. \A x \in Snapshots :
          /\ snapshot'[x] = None <=> snapshot[x] = None
          /\ snapshot[x] # None =>
               /\ snapshot'[x].dataset = snapshot[x].dataset
               /\ snapshot'[x].parent = snapshot[x].parent
               /\ snapshot'[x].operation = snapshot[x].operation
               /\ snapshot'[x].manifest = snapshot[x].manifest
    BY PublishEffect
  <1>3. /\ snapshot'[s].state = "PUBLISHED"
        /\ \A x \in Snapshots \ {s} :
             /\ x = p => /\ snapshot[x].dataset = d
                         /\ snapshot[x].state = "PUBLISHED"
                         /\ snapshot'[x].state = "RETIRED"
             /\ x # p => snapshot'[x].state = snapshot[x].state
    BY PublishEffect
  <1>4. /\ state[o] = "CERTIFIED" /\ request[o] # None /\ request[o].target = s
        /\ \A x \in Snapshots \ {s} : snapshot[x] # None => snapshot[x].operation # o
    BY <1>1 DEF CatalogInv, TablesAgree
  <1> HIDE DEF d, o, p
  <1>5. TypeOK'
    BY <1>1 DEF CatalogInv, TypeOK, JobStates
  <1>6. RequestRows'
    <2>1. \A q \in Operations : state'[q] = "ABSENT" <=> request'[q] = None
      BY <1>1, <1>4 DEF CatalogInv, RequestRows, TypeOK
    <2>2. \A q \in Operations : request'[q] # None /\ request'[q].parent # None =>
              /\ snapshot'[request'[q].parent] # None
              /\ snapshot'[request'[q].parent].dataset = request'[q].dataset
      <3> SUFFICES ASSUME NEW q \in Operations, request[q] # None,
                          request[q].parent # None
                   PROVE  /\ snapshot'[request[q].parent] # None
                          /\ snapshot'[request[q].parent].dataset = request[q].dataset
        OBVIOUS
      <3>1. /\ request[q].parent \in Snapshots /\ snapshot[request[q].parent] # None
            /\ snapshot[request[q].parent].dataset = request[q].dataset
        BY DEF CatalogInv, RequestRows, TypeOK, Requests
      <3>2. QED
        BY <3>1, <1>2
    <2>3. \A q \in (followup \cup lost)' : state'[q] \in {"CERTIFIED", "PUBLISHED"}
      BY <1>1 DEF CatalogInv, RequestRows, TypeOK
    <2>4. QED
      BY <2>1, <2>2, <2>3 DEF CatalogInv, RequestRows
  <1>7. TablesAgree'
    <2>1. ASSUME NEW x \in Snapshots, snapshot'[x] # None
          PROVE  /\ request'[snapshot'[x].operation] # None
                 /\ request'[snapshot'[x].operation].target = x
                 /\ request'[snapshot'[x].operation].dataset = snapshot'[x].dataset
                 /\ request'[snapshot'[x].operation].parent = snapshot'[x].parent
      BY <2>1, <1>2 DEF CatalogInv, TablesAgree
    <2>2. ASSUME NEW x \in Snapshots, snapshot'[x] # None
          PROVE  state'[snapshot'[x].operation] =
                   IF snapshot'[x].state = "CERTIFIED" THEN "CERTIFIED" ELSE "PUBLISHED"
      <3>1. CASE x = s
        BY <3>1, <1>1, <1>2, <1>3 DEF CatalogInv, TypeOK, o
      <3>2. CASE x # s
        <4>1. /\ snapshot[x] # None
              /\ snapshot'[x].operation = snapshot[x].operation
              /\ state'[snapshot[x].operation] = state[snapshot[x].operation]
              /\ snapshot[x].operation \in Operations
          BY <3>2, <2>2, <1>1, <1>2, <1>4 DEF CatalogInv, TypeOK, SnapshotRows
        <4>2. snapshot'[x].state = "CERTIFIED" <=> snapshot[x].state = "CERTIFIED"
          BY <3>2, <1>3
        <4>3. QED
          BY <4>1, <4>2 DEF CatalogInv, TablesAgree
      <3>3. QED
        BY <3>1, <3>2
    <2>3. ASSUME NEW x \in Snapshots, snapshot'[x] # None
          PROVE  snapshot'[x].state = "PUBLISHED" <=> active'[snapshot'[x].dataset] = x
      <3>1. /\ snapshot[x] # None /\ snapshot[x].dataset \in Datasets
            /\ snapshot'[x].dataset = snapshot[x].dataset
            /\ snapshot[x].state = "PUBLISHED" <=> active[snapshot[x].dataset] = x
        BY <2>3, <1>2 DEF CatalogInv, TypeOK, SnapshotRows, TablesAgree
      <3>2. CASE x = s
        BY <3>1, <3>2, <1>1, <1>3 DEF CatalogInv, TypeOK, d
      <3>3. CASE x # s /\ snapshot[x].dataset = d
        <4>1. snapshot'[x].state # "PUBLISHED"
          BY <3>1, <3>3, <1>1, <1>3
        <4>2. active'[d] = s
          BY <1>1 DEF CatalogInv, TypeOK
        <4>3. QED
          BY <4>1, <4>2, <3>1, <3>3
      <3>4. CASE x # s /\ snapshot[x].dataset # d
        <4>1. active'[snapshot[x].dataset] = active[snapshot[x].dataset]
          BY <3>1, <3>4, <1>1 DEF CatalogInv, TypeOK
        <4>2. snapshot'[x].state = snapshot[x].state
          BY <3>4, <1>3
        <4>3. QED
          BY <4>1, <4>2, <3>1
      <3>5. QED
        BY <3>2, <3>3, <3>4
    <2>4. ASSUME NEW q \in Operations, state'[q] \in {"CERTIFIED", "PUBLISHED"}
          PROVE  /\ snapshot'[request'[q].target] # None
                 /\ snapshot'[request'[q].target].operation = q
      <3>1. state[q] \in {"CERTIFIED", "PUBLISHED"}
        BY <2>4, <1>1, <1>4 DEF CatalogInv, TypeOK
      <3>2. request[q] # None /\ request[q].target \in Snapshots
        BY <3>1 DEF CatalogInv, TypeOK, RequestRows, Requests
      <3>3. QED
        BY <3>1, <3>2, <1>2 DEF CatalogInv, TablesAgree
    <2>5. ASSUME NEW e \in Datasets, active'[e] # None
          PROVE  snapshot'[active'[e]] # None /\ snapshot'[active'[e]].dataset = e
      <3>1. CASE e = d
        BY <3>1, <1>1, <1>2 DEF CatalogInv, TypeOK, d
      <3>2. CASE e # d
        <4>1. active'[e] = active[e] /\ active[e] \in Snapshots
          BY <3>2, <2>5, <1>1 DEF CatalogInv, TypeOK
        <4>2. QED
          BY <4>1, <2>5, <1>2 DEF CatalogInv, TablesAgree
      <3>3. QED
        BY <3>1, <3>2
    <2>6. QED
      BY <2>1, <2>2, <2>3, <2>4, <2>5 DEF TablesAgree
  <1>8. EvidenceRows'
    <2>1. ASSUME NEW q \in Operations, cloud_activation'[q] # None
          PROVE  /\ state'[q] \in {"CERTIFIED", "PUBLISHED"}
                 /\ snapshot'[request'[q].target].manifest = cloud_activation'[q]
      <3>1. /\ state[q] \in {"CERTIFIED", "PUBLISHED"}
            /\ snapshot[request[q].target].manifest = cloud_activation[q]
        BY <2>1 DEF CatalogInv, EvidenceRows
      <3>2. request[q] # None /\ request[q].target \in Snapshots
        BY <3>1 DEF CatalogInv, TypeOK, RequestRows, Requests
      <3>3. snapshot[request[q].target] # None
        BY <3>1 DEF CatalogInv, TablesAgree
      <3>4. QED
        BY <3>1, <3>2, <3>3, <1>1, <1>2 DEF CatalogInv, TypeOK
    <2>2. \A x \in Snapshots : snapshot[x] # None =>
            (PublicationEvidence(x) => PublicationEvidence(x)')
      BY <1>2 DEF PublicationEvidence
    <2>3. ASSUME NEW x \in Snapshots, snapshot'[x] # None, snapshot'[x].state # "CERTIFIED"
          PROVE  PublicationEvidence(x)'
      <3>1. CASE x = s
        BY <3>1, <1>1, <2>2
      <3>2. CASE x # s
        <4>1. snapshot[x] # None /\ snapshot[x].state # "CERTIFIED"
          BY <3>2, <2>3, <1>2, <1>3
        <4>2. QED
          BY <4>1, <2>2 DEF CatalogInv, EvidenceRows
      <3>3. QED
        BY <3>1, <3>2
    <2>4. QED
      BY <2>1, <2>3 DEF CatalogInv, EvidenceRows
  <1>9. QED
    BY <1>5, <1>6, <1>7, <1>8 DEF CatalogInv

\* A certifying call that loses its race, or any other end of a follow-up.
LEMMA FinishInv ==
  ASSUME CatalogInv, NEW o \in Operations, FinishCertification(o)
  PROVE  CatalogInv'
  <1>1. CASE PublishTx(request[o].target)
    <2>1. request[o].target \in Snapshots
      BY DEF FinishCertification, CatalogInv, RequestRows, TypeOK, Requests
    <2>2. /\ followup' \subseteq followup /\ lost' = lost
          /\ UNCHANGED <<datasets, request, build, cloud_activation, crashes>>
      BY DEF FinishCertification
    <2>3. QED
      BY <1>1, <2>1, <2>2, PublishInv
  <1>2. CASE UNCHANGED <<job, publication>>
    <2> USE <1>2 DEF CatalogInv, FinishCertification, job, publication
    <2>1. TypeOK'
      BY DEF TypeOK
    <2>2. RequestRows'
      BY DEF RequestRows
    <2>3. TablesAgree'
      BY DEF TablesAgree
    <2>4. EvidenceRows'
      BY DEF EvidenceRows, PublicationEvidence
    <2>5. QED
      BY <2>1, <2>2, <2>3, <2>4
  <1>3. QED
    BY <1>1, <1>2 DEF FinishCertification

\* Every step keeps the catalog's tables in agreement.
LEMMA NextInv == CatalogInv /\ [Next]_vars => CatalogInv'
  <1> SUFFICES ASSUME CatalogInv, [Next]_vars
               PROVE  CatalogInv'
    OBVIOUS
  <1>1. CASE UNCHANGED vars
    <2> USE <1>1 DEF vars, job, publication, caller, CatalogInv
    <2>1. TypeOK'
      BY DEF TypeOK
    <2>2. RequestRows'
      BY DEF RequestRows
    <2>3. TablesAgree'
      BY DEF TablesAgree
    <2>4. EvidenceRows'
      BY DEF EvidenceRows, PublicationEvidence
    <2>5. QED
      BY <2>1, <2>2, <2>3, <2>4
  <1>2. ASSUME NEW d \in Datasets, create_dataset(d)
        PROVE  CatalogInv'
    BY <1>2, CreateDatasetInv
  <1>3. ASSUME NEW o \in Operations, NEW r \in Requests, create_or_get_compilation(o, r)
        PROVE  CatalogInv'
    BY <1>3, CreateCompilationInv
  <1>4. ASSUME NEW o \in Operations, cancel(o) \/ fail(o)
        PROVE  CatalogInv'
    BY <1>4, AbortInv DEF cancel, fail, Aborted
  <1>5. ASSUME NEW o \in Operations, register_distributed_plan(o)
        PROVE  CatalogInv'
    BY <1>5, RegisterPlanInv
  <1>6. ASSUME NEW o \in Operations, NEW p \in Partitions, commit_projection(o, p)
        PROVE  CatalogInv'
    BY <1>6, ProjectionInv
  <1>7. ASSUME NEW o \in Operations, NEW r \in Reducers, commit_reducer(o, r)
        PROVE  CatalogInv'
    BY <1>7, ReducerInv
  <1>8. ASSUME NEW o \in Operations, CommitEvidence(o)
        PROVE  CatalogInv'
    BY <1>8, CommitEvidenceInv
  <1>9. ASSUME NEW o \in Operations, NEW manifest \in Digests,
               \/ commit_reference_certification(o, manifest)
               \/ commit_cloud_snapshot_activation(o, manifest)
        PROVE  CatalogInv'
    BY <1>9, CertifyInv
    DEF commit_reference_certification, commit_cloud_snapshot_activation
  <1>10. ASSUME NEW o \in Operations, RetryCertification(o)
         PROVE  CatalogInv'
    BY <1>10, RetryInv
  <1>11. ASSUME NEW o \in Operations, FinishCertification(o)
         PROVE  CatalogInv'
    BY <1>11, FinishInv
  <1>12. ASSUME NEW o \in Operations, Crash(o)
         PROVE  CatalogInv'
    BY <1>12, CrashInv
  <1>13. ASSUME NEW s \in Snapshots, publish_snapshot(s)
         PROVE  CatalogInv'
    BY <1>13, PublishInv DEF publish_snapshot, caller
  <1>14. QED
    BY <1>1, <1>2, <1>3, <1>4, <1>5, <1>6, <1>7, <1>8, <1>9, <1>10, <1>11, <1>12, <1>13
    DEF Next

\* Requests, jobs, snapshots, evidence and active pointers agree in every
\* reachable state, whatever order workers, operators and clients call in.
THEOREM CatalogInvariant == Spec => []CatalogInv
  BY InitInv, NextInv, PTL DEF Spec

\* A job has a snapshot row exactly from CERTIFIED on, and a snapshot is
\* PUBLISHED exactly while its dataset points at it.
THEOREM TablesAgreeAlways == Spec => []TablesAgree
  <1>1. CatalogInv => TablesAgree
    BY DEF CatalogInv
  <1>2. QED
    BY <1>1, CatalogInvariant, PTL

\* get_active_serving_snapshot never fails for a dataset with an active
\* snapshot.
THEOREM ActiveIsAlwaysServable == Spec => []ActiveIsServable
  <1>1. CatalogInv => ActiveIsServable
    <2> SUFFICES ASSUME CatalogInv, NEW d \in Datasets, active[d] # None
                 PROVE  get_active_serving_snapshot(d)
      BY DEF ActiveIsServable
    <2> DEFINE row == snapshot[active[d]]
               o == row.operation
    <2>1. /\ active[d] \in Snapshots /\ row # None /\ row \in SnapshotRows
          /\ row.dataset = d /\ row.state = "PUBLISHED" /\ o \in Operations
          /\ request[o].target = active[d]
      BY DEF CatalogInv, TypeOK, TablesAgree, SnapshotRows
    <2>2. PublicationEvidence(active[d])
      BY <2>1 DEF CatalogInv, EvidenceRows
    <2>3. CASE cloud_activation[o] # None
      BY <2>1, <2>3 DEF CatalogInv, EvidenceRows, get_active_serving_snapshot
    <2>4. CASE cloud_activation[o] = None
      <3>1. cloud_activation[o] # row.manifest
        BY <2>1, <2>4, NoneAssumption DEF SnapshotRows
      <3>2. /\ build[o].serving_certification # None
            /\ build[o].serving_certification.manifest = row.manifest
        BY <2>2, <3>1 DEF PublicationEvidence
      <3>3. QED
        BY <2>1, <2>4, <3>2 DEF CatalogInv, EvidenceRows, get_active_serving_snapshot
    <2>5. QED
      BY <2>3, <2>4
  <1>2. QED
    BY <1>1, CatalogInvariant, PTL

-----------------------------------------------------------------------------
(* Publication                                                             *)

\* The steps that change a snapshot row or an active pointer.
LEMMA PublicationSteps ==
  ASSUME [Next]_vars
  PROVE  \/ UNCHANGED publication
         \/ \E o \in Operations, manifest \in Digests :
              /\ Certify(o, manifest)
              /\ \/ UNCHANGED cloud_activation
                 \/ cloud_activation' = [cloud_activation EXCEPT ![o] = manifest]
         \/ \E s \in Snapshots :
              /\ PublishTx(s)
              /\ UNCHANGED <<datasets, request, build, cloud_activation, crashes>>
         \/ \E o \in Operations :
              /\ o \in followup
              /\ PublishTx(request[o].target)
              /\ UNCHANGED <<datasets, request, build, cloud_activation, crashes>>
  <1>1. CASE UNCHANGED vars
    BY <1>1 DEF vars
  <1>2. CASE Next
    BY <1>2 DEF Next, create_dataset, create_or_get_compilation, cancel, fail, Abort,
       register_distributed_plan, commit_projection, commit_reducer, CommitEvidence,
       commit_reference_certification, commit_cloud_snapshot_activation,
       RetryCertification, FinishCertification, Crash, publish_snapshot, caller
  <1>3. QED
    BY <1>1, <1>2

\* The same, with the follow-up of a certifying call among the publications.
LEMMA PublishingSteps ==
  ASSUME CatalogInv, [Next]_vars
  PROVE  \/ UNCHANGED publication
         \/ \E o \in Operations, manifest \in Digests :
              /\ Certify(o, manifest)
              /\ \/ UNCHANGED cloud_activation
                 \/ cloud_activation' = [cloud_activation EXCEPT ![o] = manifest]
         \/ \E s \in Snapshots :
              /\ PublishTx(s)
              /\ UNCHANGED <<datasets, request, build, cloud_activation, crashes>>
  <1>1. \A o \in followup : request[o].target \in Snapshots
    BY DEF CatalogInv, RequestRows, TypeOK, Requests
  <1>2. QED
    BY <1>1, PublicationSteps

\* The active pointer moves only from a snapshot to one compiled against it
\* that has never been served.
THEOREM NoPublicationIsLost == Spec => NoLostPublication
  <1> DEFINE Move == \A d \in Datasets : active'[d] # active[d] =>
                       /\ snapshot'[active'[d]].parent = active[d]
                       /\ snapshot[active'[d]].state = "CERTIFIED"
  <1>1. CatalogInv /\ [Next]_vars => [Move]_publication
    <2> SUFFICES ASSUME CatalogInv, [Next]_vars, ~ UNCHANGED publication
                 PROVE  Move
      OBVIOUS
    <2>1. ASSUME NEW o \in Operations, NEW manifest \in Digests, Certify(o, manifest)
          PROVE  Move
      BY <2>1 DEF Certify
    <2>2. ASSUME NEW s \in Snapshots, PublishTx(s),
                 UNCHANGED <<datasets, request, build, cloud_activation, crashes>>
          PROVE  Move
      BY <2>2, PublishEffect, ZenonT(60) DEF CatalogInv, TypeOK
    <2>3. QED
      BY <2>1, <2>2, PublishingSteps
  <1>2. QED
    BY <1>1, CatalogInvariant, PTL DEF Spec, NoLostPublication

\* The images of the snapshot rows under the refinement mapping of Catalog.
Prepared == [s \in Snapshots |->
               IF snapshot[s] = None THEN None
               ELSE [dataset |-> snapshot[s].dataset, parent |-> snapshot[s].parent]]

Served == {s \in Snapshots : snapshot[s] # None /\ snapshot[s].state # "CERTIFIED"}

\* Certifying a job prepares its target.
LEMMA CertifyIsPrepare ==
  ASSUME CatalogInv, NEW o \in Operations, NEW manifest \in Digests, Certify(o, manifest),
         \/ UNCHANGED cloud_activation
         \/ cloud_activation' = [cloud_activation EXCEPT ![o] = manifest]
  PROVE  Lineage!Next
  <1>1. PICK t \in Snapshots, d \in Datasets, p \in Snapshots \cup {None} :
          /\ t = request[o].target /\ d = request[o].dataset /\ p = request[o].parent
          /\ request[o] # None
          /\ snapshot[t] = None
          /\ p # None => snapshot[p] # None /\ snapshot[p].dataset = d
    BY CertifyInv, NoneRowAssumption DEF CatalogInv, RequestRows, Requests
  <1> DEFINE row == [dataset |-> d, parent |-> p, operation |-> o,
                     manifest |-> manifest, state |-> "CERTIFIED"]
  <1>2. /\ snapshot' = [snapshot EXCEPT ![t] = row]
        /\ UNCHANGED active
    BY <1>1 DEF Certify
  <1>3. row # None /\ row.dataset = d /\ row.parent = p /\ row.state = "CERTIFIED"
    BY <1>1, NoneRowAssumption DEF SnapshotRows
  <1> HIDE DEF row
  <1>4. Prepared' = [Prepared EXCEPT ![t] = [dataset |-> d, parent |-> p]]
    BY <1>1, <1>2, <1>3 DEF Prepared, CatalogInv, TypeOK
  <1>5. Served' = Served
    BY <1>1, <1>2, <1>3 DEF Served, CatalogInv, TypeOK
  <1>6. Prepared[t] = None
    BY <1>1 DEF Prepared
  <1>7. p # None => Prepared[p] # None /\ Prepared[p].dataset = d
    <2> SUFFICES ASSUME p # None PROVE Prepared[p] # None /\ Prepared[p].dataset = d
      OBVIOUS
    <2>1. /\ p \in Snapshots /\ snapshot[p] \in SnapshotRows
          /\ snapshot[p].dataset \in Datasets /\ snapshot[p].dataset = d
          /\ snapshot[p].parent \in Snapshots \cup {None}
      BY <1>1 DEF CatalogInv, TypeOK, SnapshotRows
    <2>2. Prepared[p] = [dataset |-> snapshot[p].dataset, parent |-> snapshot[p].parent]
      BY <1>1, <2>1 DEF Prepared
    <2>3. QED
      BY <2>1, <2>2, NoneRowAssumption
  <1>8. Lineage!Prepare(t, d, p)
    BY <1>2, <1>4, <1>5, <1>6, <1>7 DEF Lineage!Prepare, Prepared, Served
  <1>9. QED
    BY <1>8 DEF Lineage!Next

\* Publishing a snapshot serves it.
LEMMA PublishIsServe ==
  ASSUME CatalogInv, NEW s \in Snapshots, PublishTx(s),
         UNCHANGED <<datasets, request, build, cloud_activation, crashes>>
  PROVE  Lineage!Next
  <1>1. /\ snapshot[s] # None /\ snapshot[s].state = "CERTIFIED"
        /\ snapshot[s].dataset \in Datasets
        /\ snapshot[s].parent \in Snapshots \cup {None}
        /\ active[snapshot[s].dataset] = snapshot[s].parent
        /\ active' = [active EXCEPT ![snapshot[s].dataset] = s]
    BY PublishEffect DEF SnapshotRows
  <1>2. Prepared[s] = [dataset |-> snapshot[s].dataset, parent |-> snapshot[s].parent]
        /\ Prepared[s] # None
    BY <1>1, NoneRowAssumption DEF Prepared
  <1>3. Prepared' = Prepared
    BY PublishEffect DEF Prepared
  <1>4. s \notin Served /\ Served' = Served \cup {s}
    <2>1. \A x \in Snapshots \ {s} : snapshot[x] # None =>
            (snapshot'[x].state = "CERTIFIED" <=> snapshot[x].state = "CERTIFIED")
      BY PublishEffect
    <2>2. snapshot'[s] # None /\ snapshot'[s].state = "PUBLISHED"
          /\ \A x \in Snapshots : snapshot'[x] = None <=> snapshot[x] = None
      BY PublishEffect
    <2>3. QED
      BY <1>1, <2>1, <2>2 DEF Served
  <1>5. Prepared[s].dataset = snapshot[s].dataset /\ Prepared[s].parent = snapshot[s].parent
    BY <1>2
  <1>6. Lineage!Serve(s)
    BY <1>1, <1>2, <1>3, <1>4, <1>5 DEF Lineage!Serve, Prepared, Served
  <1>7. QED
    BY <1>6 DEF Lineage!Next

\* The catalog implements the abstract publication protocol.
THEOREM CatalogRefinesLineage == Spec => RefinesLineage
  <1>1. Init => Lineage!Init
    BY DEF Init, Lineage!Init
  <1>2. CatalogInv /\ [Next]_vars => [Lineage!Next]_(Lineage!vars)
    <2> SUFFICES ASSUME CatalogInv, [Next]_vars
                 PROVE  [Lineage!Next]_(Lineage!vars)
      OBVIOUS
    <2>1. CASE UNCHANGED publication
      BY <2>1 DEF publication, Lineage!vars
    <2>2. QED
      BY <2>1, PublishingSteps, CertifyIsPrepare, PublishIsServe
  <1>3. QED
    BY <1>1, <1>2, CatalogInvariant, PTL DEF Spec, RefinesLineage, Lineage!Spec

Abstract == INSTANCE SnapshotLineage_proofs WITH
    active <- active, prepared <- Prepared, served <- Served

\* So the snapshots a dataset has ever served form one unbroken chain of
\* parents that ends in its active snapshot.
THEOREM ServedSnapshotsFormAChain == Spec => []Lineage!Chain
  <1>1. Lineage!Init => Abstract!Init
    BY DEF Lineage!Init, Abstract!Init, Prepared, Served
  <1>2. [Lineage!Next]_(Lineage!vars) => [Abstract!Next]_(Abstract!vars)
    BY DEF Lineage!Next, Abstract!Next, Lineage!vars, Abstract!vars, Prepared, Served,
       Lineage!Prepare, Abstract!Prepare, Lineage!Serve, Abstract!Serve
  <1>3. Abstract!Chain => Lineage!Chain
    BY DEF Lineage!Chain, Abstract!Chain, Lineage!ParentsServed, Abstract!ParentsServed,
       Lineage!NoFork, Abstract!NoFork, Lineage!ActiveIsLast, Abstract!ActiveIsLast,
       Lineage!Parent, Abstract!Parent, Lineage!Home, Abstract!Home, Prepared, Served
  <1>4. None \notin Snapshots /\ None \notin Datasets
    BY NoneAssumption
  <1>5. Abstract!Spec => []Abstract!Chain
    BY <1>4, Abstract!LineageIsAChain
  <1>6. QED
    BY <1>1, <1>2, <1>3, <1>5, CatalogRefinesLineage, PTL
    DEF RefinesLineage, Lineage!Spec, Abstract!Spec

-----------------------------------------------------------------------------
(* The history of a job                                                    *)

\* A walk along the edges may_transition accepts, from the state given.
LegalWalk(from, path) ==
  /\ path \in Seq(JobStates)
  /\ Len(path) \in Nat \ {0}
  /\ may_transition(from, path[1])
  /\ \A i \in 1 .. Len(path) - 1 : may_transition(path[i], path[i + 1])

LEMMA SingleEdge ==
  ASSUME NEW from, NEW to \in JobStates, may_transition(from, to)
  PROVE  LegalWalk(from, <<to>>)
  BY DEF LegalWalk

\* What transition_locked does to one job.
Walked(o, path) ==
  /\ state'[o] = path[Len(path)]
  /\ revision'[o] = revision[o] + Len(path)
  /\ audit'[o] = audit[o] \o path

Rests(o) ==
  /\ state'[o] = state[o]
  /\ revision'[o] = revision[o]
  /\ audit'[o] = audit[o]

LEMMA TransitionWalks ==
  ASSUME TypeOK, NEW o \in Operations, NEW path, transition_locked(o, path)
  PROVE  /\ Walked(o, path)
         /\ \A p \in Operations \ {o} : Rests(p)
  BY DEF TypeOK, transition_locked, Walked, Rests

\* Every step leaves a job alone, creates it or walks it along legal edges.
LEMMA JobSteps ==
  ASSUME CatalogInv, [Next]_vars, NEW p \in Operations
  PROVE  \/ Rests(p)
         \/ /\ state[p] = "ABSENT" /\ state'[p] = "REGISTERED"
            /\ audit'[p] = <<"REGISTERED">> /\ revision'[p] = revision[p]
         \/ \E path : LegalWalk(state[p], path) /\ Walked(p, path)
  <1> DEFINE Moves == \/ Rests(p)
                      \/ /\ state[p] = "ABSENT" /\ state'[p] = "REGISTERED"
                         /\ audit'[p] = <<"REGISTERED">> /\ revision'[p] = revision[p]
                      \/ \E path : LegalWalk(state[p], path) /\ Walked(p, path)
  <1>1. ASSUME UNCHANGED job
        PROVE  Moves
    BY <1>1 DEF job, Rests
  <1>2. ASSUME NEW o \in Operations, NEW path, LegalWalk(state[o], path), transition_locked(o, path)
        PROVE  Moves
    <2>1. CASE p = o
      BY <1>2, <2>1, TransitionWalks DEF CatalogInv
    <2>2. CASE p # o
      BY <1>2, <2>2, TransitionWalks DEF CatalogInv
    <2>3. QED
      BY <2>1, <2>2
  <1>3. ASSUME UNCHANGED vars
        PROVE  Moves
    BY <1>1, <1>3 DEF vars
  <1>4. ASSUME NEW d \in Datasets, create_dataset(d)
        PROVE  Moves
    BY <1>1, <1>4 DEF create_dataset
  <1>5. ASSUME NEW o \in Operations, NEW r \in Requests, create_or_get_compilation(o, r)
        PROVE  Moves
    BY <1>5 DEF create_or_get_compilation, CatalogInv, TypeOK, Rests
  <1>6. ASSUME NEW o \in Operations, NEW to \in Aborted, Abort(o, to)
        PROVE  Moves
    <2>1. LegalWalk(state[o], <<to>>)
      BY <1>6, SingleEdge DEF Abort, JobStates
    <2>2. QED
      BY <1>2, <1>6, <2>1 DEF Abort
  <1>7. ASSUME NEW o \in Operations, register_distributed_plan(o)
        PROVE  Moves
    <2>1. "REGISTERED" \in Compiling /\ "PARTITIONED" \in Compiling
      BY DEF Compiling
    <2>2. LegalWalk("REGISTERED", Path("REGISTERED", "PARTITIONED"))
      BY <2>1, RankOrder, PathIsLegal DEF LegalWalk
    <2>3. QED
      BY <1>2, <1>7, <2>2 DEF register_distributed_plan
  <1>8. ASSUME NEW o \in Operations, NEW k \in Partitions, commit_projection(o, k)
        PROVE  Moves
    <2>1. LegalWalk("PARTITIONED", <<"PROJECTED">>)
      BY SingleEdge DEF may_transition, ForwardEdges, JobStates, Compiling
    <2>2. UNCHANGED job \/ (state[o] = "PARTITIONED" /\ transition_locked(o, <<"PROJECTED">>))
      BY <1>8 DEF commit_projection
    <2>3. QED
      BY <1>1, <1>2, <2>1, <2>2
  <1>9. ASSUME NEW o \in Operations, NEW r \in Reducers, commit_reducer(o, r)
        PROVE  Moves
    <2>1. "PROJECTED" \in Compiling /\ "INDEXED" \in Compiling
      BY DEF Compiling
    <2>2. LegalWalk("PROJECTED", Path("PROJECTED", "INDEXED"))
      BY <2>1, RankOrder, PathIsLegal DEF LegalWalk
    <2>3. \/ UNCHANGED job
          \/ state[o] = "PROJECTED" /\ transition_locked(o, Path("PROJECTED", "INDEXED"))
      BY <1>9 DEF commit_reducer
    <2>4. QED
      BY <1>1, <1>2, <2>2, <2>3
  <1>10. ASSUME NEW o \in Operations, CommitEvidence(o) \/ RetryCertification(o) \/ Crash(o)
         PROVE  Moves
    BY <1>1, <1>10 DEF CommitEvidence, RetryCertification, Crash
  <1>11. ASSUME NEW o \in Operations, NEW manifest \in Digests, Certify(o, manifest)
         PROVE  Moves
    <2>1. /\ state[o] \in Compiling
          /\ transition_locked(o, Path(state[o], "CERTIFIED"))
      BY <1>11 DEF Certify
    <2>2. LegalWalk(state[o], Path(state[o], "CERTIFIED"))
      BY <2>1, RankOrder, PathIsLegal DEF LegalWalk
    <2>3. QED
      BY <1>2, <2>1, <2>2
  <1>12. ASSUME NEW s \in Snapshots, PublishTx(s)
         PROVE  Moves
    <2>1. /\ snapshot[s].operation \in Operations
          /\ may_transition(state[snapshot[s].operation], "PUBLISHED")
          /\ transition_locked(snapshot[s].operation, <<"PUBLISHED">>)
      BY <1>12 DEF PublishTx, Publishable, CatalogInv, TypeOK, SnapshotRows
    <2>2. LegalWalk(state[snapshot[s].operation], <<"PUBLISHED">>)
      BY <2>1, SingleEdge DEF JobStates
    <2>3. QED
      BY <1>2, <2>1, <2>2
  <1>13. ASSUME NEW o \in Operations, FinishCertification(o)
         PROVE  Moves
    <2>1. request[o].target \in Snapshots
      BY <1>13, Zenon DEF FinishCertification, CatalogInv, RequestRows, TypeOK, Requests
    <2>2. QED
      BY <1>1, <1>12, <1>13, <2>1 DEF FinishCertification
  <1> HIDE DEF Moves
  <1>14. ASSUME Next
         PROVE  Moves
    BY <1>4, <1>5, <1>6, <1>7, <1>8, <1>9, <1>10, <1>11, <1>12, <1>13, <1>14
    DEF Next, cancel, fail, Aborted, commit_reference_certification,
        commit_cloud_snapshot_activation, publish_snapshot
  <1>15. QED
    BY <1>3, <1>14 DEF Moves

\* A history that ends in `from', continued by a legal walk from there.
LEMMA WalkExtends ==
  ASSUME NEW a \in Seq(JobStates), NEW from, NEW path, LegalWalk(from, path),
         Len(a) # 0, a[Len(a)] = from,
         \A i \in 1 .. Len(a) - 1 : may_transition(a[i], a[i + 1])
  PROVE  /\ Len(a \o path) = Len(a) + Len(path)
         /\ (a \o path)[1] = a[1]
         /\ (a \o path)[Len(a \o path)] = path[Len(path)]
         /\ \A i \in 1 .. Len(a \o path) - 1 :
              may_transition((a \o path)[i], (a \o path)[i + 1])
  <1> DEFINE c == a \o path
             m == Len(a)
             n == Len(path)
  <1>1. m \in Nat \ {0} /\ n \in Nat \ {0} /\ path \in Seq(JobStates)
    BY DEF LegalWalk
  <1>2. /\ Len(c) = m + n
        /\ \A i \in 1 .. m : c[i] = a[i]
        /\ \A i \in m + 1 .. m + n : c[i] = path[i - m]
    BY <1>1
  <1> HIDE DEF c
  <1>3. c[1] = a[1] /\ c[Len(c)] = path[n]
    <2>1. 1 \in 1 .. m /\ m + n \in m + 1 .. m + n /\ (m + n) - m = n
      BY <1>1
    <2> HIDE DEF m, n
    <2>2. QED
      BY <1>2, <2>1
  <1>4. ASSUME NEW i \in 1 .. m + n - 1
        PROVE  may_transition(c[i], c[i + 1])
    <2>1. CASE i \in 1 .. m - 1
      <3>1. i \in 1 .. m /\ i + 1 \in 1 .. m
        BY <1>1, <2>1
      <3>2. c[i] = a[i] /\ c[i + 1] = a[i + 1]
        BY <1>2, <3>1
      <3>3. QED
        BY <2>1, <3>2
    <2>2. CASE i = m
      <3>1. m \in 1 .. m /\ m + 1 \in m + 1 .. m + n /\ (m + 1) - m = 1
        BY <1>1
      <3> HIDE DEF m, n
      <3>2. c[i] = a[m] /\ c[i + 1] = path[1]
        BY <1>2, <2>2, <3>1
      <3>3. QED
        BY <3>2 DEF LegalWalk, m
    <2>3. CASE i \in m + 1 .. m + n - 1
      <3>1. /\ i \in m + 1 .. m + n /\ i + 1 \in m + 1 .. m + n
            /\ i - m \in 1 .. n - 1 /\ (i + 1) - m = (i - m) + 1
        BY <1>1, <2>3
      <3> HIDE DEF m, n
      <3>2. c[i] = path[i - m] /\ c[i + 1] = path[(i - m) + 1]
        BY <1>2, <3>1
      <3>3. QED
        BY <3>1, <3>2 DEF LegalWalk, n
    <2>4. i \in 1 .. m - 1 \/ i = m \/ i \in m + 1 .. m + n - 1
      BY <1>1
    <2>5. QED
      BY <2>1, <2>2, <2>3, <2>4
  <1>5. \A i \in 1 .. Len(c) - 1 : may_transition(c[i], c[i + 1])
    <2>1. Len(c) - 1 = m + n - 1
      BY <1>1, <1>2
    <2> HIDE DEF m, n
    <2>2. QED
      BY <1>4, <2>1, Zenon
  <1>6. Len(c) = m + n /\ c[1] = a[1] /\ c[Len(c)] = path[n]
    BY <1>2, <1>3, Zenon
  <1>7. QED
    BY <1>5, <1>6, Zenon DEF c

LEMMA HistoryStep ==
  ASSUME CatalogInv, AuditIsHistory, [Next]_vars
  PROVE  AuditIsHistory'
  <1> DEFINE History(s, r, a) ==
        /\ s = "ABSENT" <=> a = << >>
        /\ s = "ABSENT" => r = 0
        /\ s # "ABSENT" =>
             /\ Len(a) = r + 1
             /\ a[1] = "REGISTERED"
             /\ a[Len(a)] = s
        /\ \A i \in 1 .. Len(a) - 1 : may_transition(a[i], a[i + 1])
  <1> SUFFICES ASSUME NEW p \in Operations PROVE History(state'[p], revision'[p], audit'[p])
    BY DEF AuditIsHistory
  <1>1. /\ History(state[p], revision[p], audit[p])
        /\ audit[p] \in Seq(JobStates) /\ revision[p] \in Nat
    BY DEF AuditIsHistory, CatalogInv, TypeOK
  <1>2. CASE Rests(p)
    BY <1>1, <1>2 DEF Rests
  <1>3. CASE /\ state[p] = "ABSENT" /\ state'[p] = "REGISTERED"
             /\ audit'[p] = <<"REGISTERED">> /\ revision'[p] = revision[p]
    BY <1>1, <1>3
  <1>4. ASSUME NEW path, LegalWalk(state[p], path), Walked(p, path)
        PROVE  History(state'[p], revision'[p], audit'[p])
    <2>1. state[p] # "ABSENT"
      BY <1>4 DEF LegalWalk, may_transition, ForwardEdges, Compiling
    <2>2. /\ Len(audit[p]) = revision[p] + 1 /\ audit[p][1] = "REGISTERED"
          /\ audit[p][Len(audit[p])] = state[p] /\ Len(audit[p]) # 0
      BY <1>1, <2>1
    <2> DEFINE c == audit[p] \o path
    <2>3. /\ Len(c) = Len(audit[p]) + Len(path)
          /\ c[1] = audit[p][1]
          /\ c[Len(c)] = path[Len(path)]
          /\ \A i \in 1 .. Len(c) - 1 : may_transition(c[i], c[i + 1])
      BY <1>1, <1>4, <2>2, WalkExtends
    <2>4. /\ audit'[p] = c /\ state'[p] = path[Len(path)]
          /\ revision'[p] = revision[p] + Len(path) /\ Len(path) \in Nat \ {0}
          /\ path[Len(path)] \in JobStates
      BY <1>4 DEF Walked, LegalWalk
    <2> HIDE DEF c
    <2>5. state'[p] # "ABSENT"
      BY <2>4 DEF JobStates, Compiling, Aborted
    <2>6. Len(c) = revision'[p] + 1 /\ Len(c) # 0
      <3>1. revision[p] \in Nat
        BY <1>1
      <3>2. Len(c) = (revision[p] + 1) + Len(path)
        BY <2>2, <2>3
      <3>3. Len(path) \in Nat /\ revision'[p] = revision[p] + Len(path)
        BY <2>4
      <3>4. QED
        BY <3>1, <3>2, <3>3
    <2>7. c # << >>
      BY <2>6
    <2>8. History(state'[p], revision'[p], c)
      <3>1. c[1] = "REGISTERED" /\ c[Len(c)] = state'[p]
        BY <2>2, <2>3, <2>4
      <3>2. QED
        BY <2>3, <2>5, <2>6, <2>7, <3>1
    <2>9. QED
      BY <2>4, <2>8
  <1>5. QED
    BY <1>2, <1>3, <1>4, JobSteps

\* operation_audit is a gap-free record of legal edges that ends in the job's
\* state, and operation.revision counts it, however many transitions a
\* transaction of transition_locked makes.
THEOREM AuditIsAlwaysHistory == Spec => []AuditIsHistory
  <1>1. Init => AuditIsHistory
    BY DEF Init, AuditIsHistory
  <1>2. CatalogInv /\ AuditIsHistory /\ [Next]_vars => AuditIsHistory'
    BY HistoryStep
  <1>3. QED
    BY <1>1, <1>2, CatalogInvariant, PTL DEF Spec

-----------------------------------------------------------------------------
(* The distributed build                                                   *)

\* What BuildInv says of one job.
Barriers(st, b) ==
  /\ st = "PARTITIONED" => b.plan /\ b.projected # Partitions
  /\ st = "PROJECTED" => b.reduced # Reducers
  /\ st \in {"PROJECTED", "INDEXED"} => b.projected = Partitions
  /\ st = "INDEXED" => b.reduced = Reducers
  /\ b.reduced # {} => b.projected = Partitions
  /\ b.artifacts # {} => b.reduced = Reducers

LEMMA BuildInvByJob ==
  /\ BuildInv <=> \A o \in Operations : Barriers(state[o], build[o]) /\ InOrder(build[o])
  /\ BuildInv' <=> \A o \in Operations : Barriers(state'[o], build'[o]) /\ InOrder(build'[o])
  BY DEF BuildInv, BarriersExact, Barriers, InOrder

\* A step of the build is a step of one job's build; any other step leaves
\* every build alone and enters no state with a barrier.
LEMMA BuildSteps ==
  ASSUME CatalogInv, [Next]_vars, NEW p \in Operations
  PROVE  \/ /\ build'[p] = build[p]
            /\ state'[p] = state[p] \/ state'[p] \notin {"PARTITIONED", "PROJECTED", "INDEXED"}
         \/ register_distributed_plan(p)
         \/ \E k \in Partitions : commit_projection(p, k)
         \/ \E r \in Reducers : commit_reducer(p, r)
         \/ CommitEvidence(p)
  <1> DEFINE Other == /\ build'[p] = build[p]
                      /\ state'[p] = state[p] \/ state'[p] \notin {"PARTITIONED", "PROJECTED", "INDEXED"}
             Moves == \/ Other
                      \/ register_distributed_plan(p)
                      \/ \E k \in Partitions : commit_projection(p, k)
                      \/ \E r \in Reducers : commit_reducer(p, r)
                      \/ CommitEvidence(p)
  <1>1. ASSUME UNCHANGED <<state, build>>
        PROVE  Other
    BY <1>1
  <1>2. ASSUME NEW o \in Operations, NEW path, transition_locked(o, path), UNCHANGED build,
               path[Len(path)] \notin {"PARTITIONED", "PROJECTED", "INDEXED"}
        PROVE  Other
    BY <1>2 DEF transition_locked, CatalogInv, TypeOK
  <1>3. ASSUME NEW o \in Operations \ {p}, NEW path, NEW b,
               UNCHANGED state \/ transition_locked(o, path), build' = [build EXCEPT ![o] = b]
        PROVE  Other
    BY <1>3 DEF transition_locked, CatalogInv, TypeOK
  <1>4. ASSUME UNCHANGED vars
        PROVE  Other
    BY <1>1, <1>4 DEF vars, job
  <1>5. ASSUME NEW d \in Datasets, create_dataset(d)
        PROVE  Other
    BY <1>1, <1>5 DEF create_dataset, job
  <1>6. ASSUME NEW o \in Operations, NEW r \in Requests, create_or_get_compilation(o, r)
        PROVE  Other
    BY <1>6 DEF create_or_get_compilation, CatalogInv, TypeOK
  <1>7. ASSUME NEW o \in Operations, NEW to \in Aborted, Abort(o, to)
        PROVE  Other
    <2>1. <<to>>[Len(<<to>>)] \notin {"PARTITIONED", "PROJECTED", "INDEXED"}
      BY DEF Aborted
    <2>2. QED
      BY <1>2, <1>7, <2>1 DEF Abort
  <1>8. ASSUME NEW o \in Operations, register_distributed_plan(o)
        PROVE  Moves
    BY <1>3, <1>8 DEF register_distributed_plan
  <1>9. ASSUME NEW o \in Operations, NEW k \in Partitions, commit_projection(o, k)
        PROVE  Moves
    BY <1>3, <1>9 DEF commit_projection, job
  <1>10. ASSUME NEW o \in Operations, NEW r \in Reducers, commit_reducer(o, r)
         PROVE  Moves
    BY <1>3, <1>10 DEF commit_reducer, job
  <1>11. ASSUME NEW o \in Operations, CommitEvidence(o)
         PROVE  Moves
    <2>1. UNCHANGED state /\ \E b : build' = [build EXCEPT ![o] = b]
      BY <1>11 DEF CommitEvidence, job, commit_artifact, commit_distributed_root,
            register_artifact_plan, commit_artifact_root, commit_serving_root,
            commit_serving_certification
    <2>2. QED
      BY <1>3, <1>11, <2>1
  <1>12. ASSUME NEW o \in Operations, RetryCertification(o) \/ Crash(o)
         PROVE  Other
    BY <1>1, <1>12 DEF RetryCertification, Crash, job
  <1>13. ASSUME NEW o \in Operations, NEW manifest \in Digests, Certify(o, manifest)
         PROVE  Other
    <2>1. /\ state[o] \in Compiling
          /\ transition_locked(o, Path(state[o], "CERTIFIED"))
          /\ UNCHANGED build
      BY <1>13 DEF Certify
    <2>2. Path(state[o], "CERTIFIED")[Len(Path(state[o], "CERTIFIED"))] = "CERTIFIED"
      BY <2>1, RankOrder, PathIsLegal
    <2>3. QED
      BY <1>2, <2>1, <2>2
  <1>14. ASSUME NEW s \in Snapshots, PublishTx(s), UNCHANGED build
         PROVE  Other
    <2>1. /\ snapshot[s].operation \in Operations
          /\ transition_locked(snapshot[s].operation, <<"PUBLISHED">>)
      BY <1>14 DEF PublishTx, Publishable, CatalogInv, TypeOK, SnapshotRows
    <2>2. <<"PUBLISHED">>[Len(<<"PUBLISHED">>)] = "PUBLISHED"
      OBVIOUS
    <2>3. QED
      BY <1>2, <1>14, <2>1, <2>2
  <1>15. ASSUME NEW o \in Operations, FinishCertification(o)
         PROVE  Other
    <2>1. request[o].target \in Snapshots /\ UNCHANGED build
      BY <1>15, Zenon DEF FinishCertification, CatalogInv, RequestRows, TypeOK, Requests
    <2>2. PublishTx(request[o].target) \/ UNCHANGED state
      BY <1>15 DEF FinishCertification, job
    <2>3. QED
      BY <1>1, <1>14, <2>1, <2>2
  <1> HIDE DEF Other
  <1>16. ASSUME Next
         PROVE  Moves
    <2> HIDE DEF Moves
    <2>1. Other => Moves
      BY DEF Moves
    <2>2. QED
      BY <1>5, <1>6, <1>7, <1>8, <1>9, <1>10, <1>11, <1>12, <1>13, <1>14, <1>15, <1>16, <2>1
      DEF Next, cancel, fail, Aborted, commit_reference_certification,
          commit_cloud_snapshot_activation, publish_snapshot
  <1>17. QED
    BY <1>4, <1>16 DEF Other

\* A job whose stage has a barrier, or any of whose rows is there, has a plan.
LEMMA PlanFirst ==
  ASSUME NEW b \in Builds, InOrder(b), ~b.plan
  PROVE  /\ b.projected = {} /\ b.reduced = {} /\ b.artifacts = {}
         /\ b.distributed_root = None /\ b.artifact_plan = None /\ b.artifact_root = None
         /\ b.serving_root = None /\ b.serving_certification = None
  BY DEF InOrder, EmptyBuild

LEMMA RegisterPlanBuild ==
  ASSUME CatalogInv, BuildInv, NEW o \in Operations, register_distributed_plan(o)
  PROVE  Barriers(state'[o], build'[o]) /\ InOrder(build'[o])
  <1> DEFINE b == build[o]
             c == [b EXCEPT !.plan = TRUE]
  <1>1. b \in Builds /\ InOrder(b) /\ ~b.plan
    BY BuildInvByJob DEF CatalogInv, TypeOK, register_distributed_plan
  <1>2. build'[o] = c
    BY DEF register_distributed_plan, CatalogInv, TypeOK
  <1>3. state'[o] = "PARTITIONED"
    <2>1. "REGISTERED" \in Compiling /\ "PARTITIONED" \in Compiling
      BY DEF Compiling
    <2>2. Path("REGISTERED", "PARTITIONED")[Len(Path("REGISTERED", "PARTITIONED"))] = "PARTITIONED"
      BY <2>1, RankOrder, PathIsLegal
    <2>3. QED
      BY <2>2 DEF register_distributed_plan, transition_locked, CatalogInv, TypeOK
  <1> HIDE DEF b
  <1>4. /\ c.plan /\ c.projected = {} /\ c.reduced = {} /\ c.artifacts = {}
        /\ c.distributed_root = None /\ c.artifact_plan = None /\ c.artifact_root = None
        /\ c.serving_root = None /\ c.serving_certification = None
    BY <1>1, PlanFirst DEF Builds
  <1> HIDE DEF c
  <1>5. QED
    BY <1>2, <1>3, <1>4, WorkAssumption DEF Barriers, InOrder

LEMMA ProjectionBuild ==
  ASSUME CatalogInv, BuildInv, NEW o \in Operations, NEW k \in Partitions, commit_projection(o, k)
  PROVE  Barriers(state'[o], build'[o]) /\ InOrder(build'[o])
  <1> DEFINE b == build[o]
             done == b.projected \cup {k}
             c == [b EXCEPT !.projected = done]
  <1>1. b \in Builds /\ Barriers(state[o], b) /\ InOrder(b) /\ b.plan
    BY BuildInvByJob DEF CatalogInv, TypeOK, commit_projection
  <1>2. build'[o] = c
    BY DEF commit_projection, CatalogInv, TypeOK
  <1>3. /\ c.plan = b.plan /\ c.projected = done /\ c.reduced = b.reduced
        /\ c.artifacts = b.artifacts /\ c.distributed_root = b.distributed_root
        /\ c.artifact_plan = b.artifact_plan /\ c.artifact_root = b.artifact_root
        /\ c.serving_root = b.serving_root /\ c.serving_certification = b.serving_certification
    BY <1>1 DEF Builds
  <1>4. \/ state[o] = "PARTITIONED" /\ done = Partitions /\ state'[o] = "PROJECTED"
        \/ state[o] = "PARTITIONED" /\ done # Partitions /\ state'[o] = state[o]
        \/ k \in b.projected /\ state'[o] = state[o]
    <2>1. <<"PROJECTED">>[Len(<<"PROJECTED">>)] = "PROJECTED"
      OBVIOUS
    <2>2. QED
      BY <2>1 DEF commit_projection, transition_locked, job, CatalogInv, TypeOK
  <1>5. b.projected \subseteq Partitions
    BY <1>1 DEF Builds
  <1> HIDE DEF b, c
  <1>6. InOrder(c)
    BY <1>1, <1>3 DEF InOrder
  <1>7. Barriers(state'[o], c)
    BY <1>1, <1>3, <1>4, <1>5, WorkAssumption DEF Barriers
  <1>8. QED
    BY <1>2, <1>6, <1>7

LEMMA ReducerBuild ==
  ASSUME CatalogInv, BuildInv, NEW o \in Operations, NEW r \in Reducers, commit_reducer(o, r)
  PROVE  Barriers(state'[o], build'[o]) /\ InOrder(build'[o])
  <1> DEFINE b == build[o]
             done == b.reduced \cup {r}
             c == [b EXCEPT !.reduced = done]
  <1>1. b \in Builds /\ Barriers(state[o], b) /\ InOrder(b) /\ b.plan
    BY BuildInvByJob DEF CatalogInv, TypeOK, commit_reducer
  <1>2. build'[o] = c
    BY DEF commit_reducer, CatalogInv, TypeOK
  <1>3. /\ c.plan = b.plan /\ c.projected = b.projected /\ c.reduced = done
        /\ c.artifacts = b.artifacts /\ c.distributed_root = b.distributed_root
        /\ c.artifact_plan = b.artifact_plan /\ c.artifact_root = b.artifact_root
        /\ c.serving_root = b.serving_root /\ c.serving_certification = b.serving_certification
    BY <1>1 DEF Builds
  <1>4. \/ state[o] = "PROJECTED" /\ done = Reducers /\ state'[o] = "INDEXED"
        \/ state[o] = "PROJECTED" /\ done # Reducers /\ state'[o] = state[o]
        \/ r \in b.reduced /\ state'[o] = state[o]
    <2>1. "PROJECTED" \in Compiling /\ "INDEXED" \in Compiling
      BY DEF Compiling
    <2>2. Path("PROJECTED", "INDEXED")[Len(Path("PROJECTED", "INDEXED"))] = "INDEXED"
      BY <2>1, RankOrder, PathIsLegal
    <2>3. QED
      BY <2>2 DEF commit_reducer, transition_locked, job, CatalogInv, TypeOK
  <1>5. b.reduced \subseteq Reducers
    BY <1>1 DEF Builds
  <1>6. b.reduced = Reducers => done = b.reduced
    BY <1>5
  <1> HIDE DEF b, c
  <1>7. InOrder(c)
    <2>1. c.distributed_root # None => c.reduced = Reducers
      BY <1>1, <1>3, <1>6 DEF InOrder
    <2>2. QED
      BY <1>1, <1>3, <2>1 DEF InOrder
  <1>8. Barriers(state'[o], c)
    BY <1>1, <1>3, <1>4, <1>5, <1>6 DEF Barriers
  <1>9. QED
    BY <1>2, <1>7, <1>8

\* The rows of an INDEXED job, and its certificate.
LEMMA EvidenceBuild ==
  ASSUME CatalogInv, BuildInv, NEW o \in Operations, CommitEvidence(o)
  PROVE  Barriers(state'[o], build'[o]) /\ InOrder(build'[o])
  <1> DEFINE b == build[o]
             Kept(c) == Barriers(state[o], c) /\ InOrder(c)
  <1>1. b \in Builds /\ Barriers(state[o], b) /\ InOrder(b)
    BY BuildInvByJob DEF CatalogInv, TypeOK
  <1>2. state'[o] = state[o]
    BY DEF CommitEvidence, job
  <1>3. build \in [Operations -> Builds]
    BY DEF CatalogInv, TypeOK
  <1>4. ASSUME NEW p \in Partitions, commit_artifact(o, p)
        PROVE  Kept(build'[o])
    <2> DEFINE c == [b EXCEPT !.artifacts = b.artifacts \cup {p}]
    <2>1. build'[o] = c /\ state[o] = "INDEXED" /\ b.artifact_plan # None /\ p \notin b.artifacts
      BY <1>3, <1>4 DEF commit_artifact
    <2> HIDE DEF b
    <2>2. /\ c.plan = b.plan /\ c.projected = b.projected /\ c.reduced = b.reduced
          /\ c.artifacts = b.artifacts \cup {p} /\ c.distributed_root = b.distributed_root
          /\ c.artifact_plan = b.artifact_plan /\ c.artifact_root = b.artifact_root
          /\ c.serving_root = b.serving_root /\ c.serving_certification = b.serving_certification
      BY <1>1 DEF Builds
    <2> HIDE DEF c
    <2>3. b.plan /\ b.artifact_root = None
      BY <1>1, <2>1, PlanFirst DEF InOrder
    <2>4. QED
      BY <1>1, <2>1, <2>2, <2>3 DEF InOrder, Barriers
  <1>5. ASSUME NEW digest \in Digests, commit_distributed_root(o, digest)
        PROVE  Kept(build'[o])
    <2> DEFINE c == [b EXCEPT !.distributed_root = digest]
    <2>1. /\ build'[o] = c /\ b.plan /\ b.reduced = Reducers /\ b.distributed_root = None
      BY <1>3, <1>5 DEF commit_distributed_root
    <2> HIDE DEF b
    <2>2. /\ c.plan = b.plan /\ c.projected = b.projected /\ c.reduced = b.reduced
          /\ c.artifacts = b.artifacts /\ c.distributed_root = digest
          /\ c.artifact_plan = b.artifact_plan /\ c.artifact_root = b.artifact_root
          /\ c.serving_root = b.serving_root /\ c.serving_certification = b.serving_certification
      BY <1>1 DEF Builds
    <2> HIDE DEF c
    <2>3. b.artifact_plan = None
      BY <1>1, <2>1 DEF InOrder
    <2>4. QED
      BY <1>1, <2>1, <2>2, <2>3 DEF InOrder, Barriers
  <1>6. ASSUME NEW digest \in Digests, register_artifact_plan(o, digest)
        PROVE  Kept(build'[o])
    <2> DEFINE c == [b EXCEPT !.artifact_plan = digest]
    <2>1. /\ build'[o] = c /\ b.plan /\ b.distributed_root = digest /\ b.artifact_plan = None
      BY <1>3, <1>6 DEF register_artifact_plan
    <2> HIDE DEF b
    <2>2. /\ c.plan = b.plan /\ c.projected = b.projected /\ c.reduced = b.reduced
          /\ c.artifacts = b.artifacts /\ c.distributed_root = b.distributed_root
          /\ c.artifact_plan = digest /\ c.artifact_root = b.artifact_root
          /\ c.serving_root = b.serving_root /\ c.serving_certification = b.serving_certification
      BY <1>1 DEF Builds
    <2> HIDE DEF c
    <2>3. digest # None
      BY NoneAssumption
    <2>4. QED
      BY <1>1, <2>1, <2>2, <2>3 DEF InOrder, Barriers
  <1>7. ASSUME NEW digest \in Digests, commit_artifact_root(o, digest)
        PROVE  Kept(build'[o])
    <2> DEFINE c == [b EXCEPT !.artifact_root = digest]
    <2>1. /\ build'[o] = c /\ b.artifact_plan # None /\ b.artifacts = Partitions
          /\ b.artifact_root = None
      BY <1>3, <1>7 DEF commit_artifact_root
    <2> HIDE DEF b
    <2>2. /\ c.plan = b.plan /\ c.projected = b.projected /\ c.reduced = b.reduced
          /\ c.artifacts = b.artifacts /\ c.distributed_root = b.distributed_root
          /\ c.artifact_plan = b.artifact_plan /\ c.artifact_root = digest
          /\ c.serving_root = b.serving_root /\ c.serving_certification = b.serving_certification
      BY <1>1 DEF Builds
    <2> HIDE DEF c
    <2>3. b.plan /\ b.serving_root = None
      BY <1>1, <2>1, PlanFirst DEF InOrder
    <2>4. QED
      BY <1>1, <2>1, <2>2, <2>3 DEF InOrder, Barriers
  <1>8. ASSUME NEW digest \in Digests, NEW source \in Digests, commit_serving_root(o, digest, source)
        PROVE  Kept(build'[o])
    <2> DEFINE root == [root |-> digest, source |-> source]
               c == [b EXCEPT !.serving_root = root]
    <2>1. /\ build'[o] = c /\ b.artifact_plan # None /\ b.artifact_root = source
          /\ b.serving_root = None
      BY <1>3, <1>8 DEF commit_serving_root
    <2>2. root.source = source /\ source # None
      BY NoneAssumption
    <2> HIDE DEF b, root
    <2>3. /\ c.plan = b.plan /\ c.projected = b.projected /\ c.reduced = b.reduced
          /\ c.artifacts = b.artifacts /\ c.distributed_root = b.distributed_root
          /\ c.artifact_plan = b.artifact_plan /\ c.artifact_root = b.artifact_root
          /\ c.serving_root = root /\ c.serving_certification = b.serving_certification
      BY <1>1 DEF Builds
    <2> HIDE DEF c
    <2>4. b.plan /\ b.serving_certification = None
      BY <1>1, <2>1, PlanFirst DEF InOrder
    <2>5. QED
      BY <1>1, <2>1, <2>2, <2>3, <2>4 DEF InOrder, Barriers
  <1>9. ASSUME NEW digest \in Digests, NEW manifest \in Digests,
               commit_serving_certification(o, digest, manifest)
        PROVE  Kept(build'[o])
    <2> DEFINE cert == [root |-> digest, manifest |-> manifest]
               c == [b EXCEPT !.serving_certification = cert]
    <2>1. /\ build'[o] = c /\ b.serving_root # None /\ b.serving_root.root = digest
      BY <1>3, <1>9 DEF commit_serving_certification
    <2>2. cert.root = digest
      OBVIOUS
    <2> HIDE DEF b, cert
    <2>3. /\ c.plan = b.plan /\ c.projected = b.projected /\ c.reduced = b.reduced
          /\ c.artifacts = b.artifacts /\ c.distributed_root = b.distributed_root
          /\ c.artifact_plan = b.artifact_plan /\ c.artifact_root = b.artifact_root
          /\ c.serving_root = b.serving_root /\ c.serving_certification = cert
      BY <1>1 DEF Builds
    <2> HIDE DEF c
    <2>4. b.plan
      BY <1>1, <2>1, PlanFirst DEF InOrder
    <2>5. QED
      BY <1>1, <2>1, <2>2, <2>3, <2>4 DEF InOrder, Barriers
  <1> HIDE DEF Kept
  <1>10. Kept(build'[o])
    BY <1>4, <1>5, <1>6, <1>7, <1>8, <1>9 DEF CommitEvidence
  <1>11. QED
    BY <1>2, <1>10 DEF Kept

LEMMA BuildStep ==
  ASSUME CatalogInv, BuildInv, [Next]_vars
  PROVE  BuildInv'
  <1> SUFFICES ASSUME NEW p \in Operations
               PROVE  Barriers(state'[p], build'[p]) /\ InOrder(build'[p])
    BY BuildInvByJob
  <1>1. CASE /\ build'[p] = build[p]
             /\ state'[p] = state[p] \/ state'[p] \notin {"PARTITIONED", "PROJECTED", "INDEXED"}
    <2>1. Barriers(state[p], build[p]) /\ InOrder(build[p])
      BY BuildInvByJob
    <2>2. QED
      BY <1>1, <2>1 DEF Barriers
  <1>2. QED
    BY <1>1, BuildSteps, RegisterPlanBuild, ProjectionBuild, ReducerBuild, EvidenceBuild

\* The barriers of a distributed build are exact and its rows arrive in order,
\* whatever commits commit_distributed_work and the root commits accept.
THEOREM BuildInvariant == Spec => []BuildInv
  <1>1. Init => BuildInv
    <2> SUFFICES ASSUME Init PROVE BuildInv
      OBVIOUS
    <2>1. \A o \in Operations : state[o] = "ABSENT" /\ build[o] = EmptyBuild
      BY DEF Init
    <2>2. Barriers("ABSENT", EmptyBuild) /\ InOrder(EmptyBuild)
      BY DEF Barriers, InOrder, EmptyBuild
    <2>3. QED
      BY <2>1, <2>2, BuildInvByJob
  <1>2. CatalogInv /\ BuildInv /\ [Next]_vars => BuildInv'
    BY BuildStep
  <1>3. QED
    BY <1>1, <1>2, CatalogInvariant, PTL DEF Spec

\* A serving certificate stands on a complete build: by the order of its rows,
\* and because every stage has something to do.
LEMMA CertificateNeedsBuild == TypeOK /\ BuildInv => CertificateStandsOnBuild
  <1> SUFFICES ASSUME TypeOK, BuildInv, NEW o \in Operations,
                      build[o].serving_certification # None
               PROVE  /\ build[o].plan
                      /\ build[o].projected = Partitions
                      /\ build[o].reduced = Reducers
                      /\ build[o].artifacts = Partitions
                      /\ build[o].distributed_root # None
                      /\ build[o].artifact_plan = build[o].distributed_root
                      /\ build[o].serving_root # None
                      /\ build[o].serving_root.source = build[o].artifact_root
                      /\ build[o].serving_certification.root = build[o].serving_root.root
    BY DEF CertificateStandsOnBuild
  <1> DEFINE b == build[o]
  <1>1. b \in Builds /\ Barriers(state[o], b) /\ InOrder(b)
    BY BuildInvByJob DEF TypeOK
  <1> HIDE DEF b
  <1>2. b.serving_root # None /\ b.artifact_root # None /\ b.artifacts = Partitions
    BY <1>1 DEF InOrder, b
  <1>3. b.artifact_plan # None /\ b.distributed_root # None /\ b.reduced = Reducers
    BY <1>1, <1>2, WorkAssumption DEF InOrder
  <1>4. b.projected = Partitions
    BY <1>1, <1>3, WorkAssumption DEF Barriers
  <1>5. b.plan
    BY <1>1, <1>2, PlanFirst
  <1>6. QED
    BY <1>1, <1>2, <1>3, <1>4, <1>5 DEF InOrder, b

\* commit_serving_certification never certifies a build with a missing
\* projection, reducer or artifact, or with a root derived from another one.
THEOREM CertificatesStandOnBuilds == Spec => []CertificateStandsOnBuild
  <1>1. CatalogInv /\ BuildInv => CertificateStandsOnBuild
    BY CertificateNeedsBuild DEF CatalogInv
  <1>2. QED
    BY <1>1, CatalogInvariant, BuildInvariant, PTL

\* c keeps every row of b.
Keeps(b, c) ==
  /\ b.plan => c.plan
  /\ b.projected \subseteq c.projected
  /\ b.reduced \subseteq c.reduced
  /\ b.artifacts \subseteq c.artifacts
  /\ b.distributed_root # None => c.distributed_root = b.distributed_root
  /\ b.artifact_plan # None => c.artifact_plan = b.artifact_plan
  /\ b.artifact_root # None => c.artifact_root = b.artifact_root
  /\ b.serving_root # None => c.serving_root = b.serving_root
  /\ b.serving_certification # None => c.serving_certification = b.serving_certification

\* Every commit is an insert of a row that was not there; and a serving root
\* arrives only while its job is INDEXED.
LEMMA EvidenceKept ==
  ASSUME CatalogInv, [Next]_vars, NEW o \in Operations
  PROVE  /\ Keeps(build[o], build'[o])
         /\ build'[o].serving_root # build[o].serving_root => state[o] = "INDEXED"
  <1> DEFINE b == build[o]
             Good(c) == Keeps(b, c) /\ (c.serving_root # b.serving_root => state[o] = "INDEXED")
  <1>1. b \in Builds /\ build \in [Operations -> Builds]
    BY DEF CatalogInv, TypeOK
  <1>2. Good(b)
    BY DEF Keeps
  <1>3. ASSUME register_distributed_plan(o)
        PROVE  Good(build'[o])
    <2>1. build'[o] = [b EXCEPT !.plan = TRUE]
      BY <1>1, <1>3 DEF register_distributed_plan
    <2> HIDE DEF b
    <2>2. QED
      BY <1>1, <2>1 DEF Keeps, Builds
  <1>4. ASSUME NEW k \in Partitions, commit_projection(o, k)
        PROVE  Good(build'[o])
    <2>1. build'[o] = [b EXCEPT !.projected = b.projected \cup {k}]
      BY <1>1, <1>4 DEF commit_projection
    <2> HIDE DEF b
    <2>2. QED
      BY <1>1, <2>1 DEF Keeps, Builds
  <1>5. ASSUME NEW r \in Reducers, commit_reducer(o, r)
        PROVE  Good(build'[o])
    <2>1. build'[o] = [b EXCEPT !.reduced = b.reduced \cup {r}]
      BY <1>1, <1>5 DEF commit_reducer
    <2> HIDE DEF b
    <2>2. QED
      BY <1>1, <2>1 DEF Keeps, Builds
  <1>6. ASSUME NEW p \in Partitions, commit_artifact(o, p)
        PROVE  Good(build'[o])
    <2>1. build'[o] = [b EXCEPT !.artifacts = b.artifacts \cup {p}]
      BY <1>1, <1>6 DEF commit_artifact
    <2> HIDE DEF b
    <2>2. QED
      BY <1>1, <2>1 DEF Keeps, Builds
  <1>7. ASSUME NEW digest \in Digests, commit_distributed_root(o, digest)
        PROVE  Good(build'[o])
    <2>1. build'[o] = [b EXCEPT !.distributed_root = digest] /\ b.distributed_root = None
      BY <1>1, <1>7 DEF commit_distributed_root
    <2> HIDE DEF b
    <2>2. QED
      BY <1>1, <2>1 DEF Keeps, Builds
  <1>8. ASSUME NEW digest \in Digests, register_artifact_plan(o, digest)
        PROVE  Good(build'[o])
    <2>1. build'[o] = [b EXCEPT !.artifact_plan = digest] /\ b.artifact_plan = None
      BY <1>1, <1>8 DEF register_artifact_plan
    <2> HIDE DEF b
    <2>2. QED
      BY <1>1, <2>1 DEF Keeps, Builds
  <1>9. ASSUME NEW digest \in Digests, commit_artifact_root(o, digest)
        PROVE  Good(build'[o])
    <2>1. build'[o] = [b EXCEPT !.artifact_root = digest] /\ b.artifact_root = None
      BY <1>1, <1>9 DEF commit_artifact_root
    <2> HIDE DEF b
    <2>2. QED
      BY <1>1, <2>1 DEF Keeps, Builds
  <1>10. ASSUME NEW digest \in Digests, NEW source \in Digests,
                commit_serving_root(o, digest, source)
         PROVE  Good(build'[o])
    <2> DEFINE root == [root |-> digest, source |-> source]
    <2>1. /\ build'[o] = [b EXCEPT !.serving_root = root] /\ b.serving_root = None
          /\ state[o] = "INDEXED"
      BY <1>1, <1>10 DEF commit_serving_root
    <2> HIDE DEF b, root
    <2>2. QED
      BY <1>1, <2>1 DEF Keeps, Builds
  <1>11. ASSUME NEW digest \in Digests, NEW manifest \in Digests,
                commit_serving_certification(o, digest, manifest)
         PROVE  Good(build'[o])
    <2> DEFINE cert == [root |-> digest, manifest |-> manifest]
    <2>1. /\ build'[o] = [b EXCEPT !.serving_certification = cert]
          /\ b.serving_certification = None
      BY <1>1, <1>11 DEF commit_serving_certification
    <2> HIDE DEF b, cert
    <2>2. QED
      BY <1>1, <2>1 DEF Keeps, Builds
  <1> HIDE DEF Good
  <1>12. Good(build'[o])
    BY <1>2, <1>3, <1>4, <1>5, <1>6, <1>7, <1>8, <1>9, <1>10, <1>11, BuildSteps
    DEF CommitEvidence
  <1>13. QED
    BY <1>12 DEF Good

\* No commit, however late or repeated, replaces a row of the build.
THEOREM EvidenceIsAlwaysFinal == Spec => EvidenceIsFinal
  <1> DEFINE Final == \A o \in Operations :
         /\ build[o].plan => build'[o].plan
         /\ build[o].projected \subseteq build'[o].projected
         /\ build[o].reduced \subseteq build'[o].reduced
         /\ build[o].artifacts \subseteq build'[o].artifacts
         /\ \A f \in {"distributed_root", "artifact_plan", "artifact_root",
                      "serving_root", "serving_certification"} :
              build[o][f] # None => build'[o][f] = build[o][f]
  <1>1. CatalogInv /\ [Next]_vars => [Final]_build
    <2> SUFFICES ASSUME CatalogInv, [Next]_vars PROVE Final
      OBVIOUS
    <2> SUFFICES ASSUME NEW o \in Operations
                 PROVE  /\ build[o].plan => build'[o].plan
                        /\ build[o].projected \subseteq build'[o].projected
                        /\ build[o].reduced \subseteq build'[o].reduced
                        /\ build[o].artifacts \subseteq build'[o].artifacts
                        /\ \A f \in {"distributed_root", "artifact_plan", "artifact_root",
                                     "serving_root", "serving_certification"} :
                             build[o][f] # None => build'[o][f] = build[o][f]
      OBVIOUS
    <2>1. Keeps(build[o], build'[o])
      BY EvidenceKept
    <2>2. QED
      BY <2>1 DEF Keeps
  <1>2. QED
    BY <1>1, CatalogInvariant, PTL DEF Spec, EvidenceIsFinal

\* The steps that change a snapshot row or an activation.
LEMMA CertifyingSteps ==
  ASSUME CatalogInv, [Next]_vars
  PROVE  \/ UNCHANGED <<snapshot, cloud_activation>>
         \/ \E o \in Operations, manifest \in Digests :
              \/ commit_reference_certification(o, manifest)
              \/ commit_cloud_snapshot_activation(o, manifest)
         \/ \E s \in Snapshots :
              PublishTx(s) /\ UNCHANGED <<datasets, request, build, cloud_activation, crashes>>
  <1>1. \A o \in followup : request[o].target \in Snapshots
    BY DEF CatalogInv, RequestRows, TypeOK, Requests
  <1>2. CASE UNCHANGED vars
    BY <1>2 DEF vars, publication
  <1>3. CASE Next
    BY <1>1, <1>3 DEF Next, create_dataset, create_or_get_compilation, cancel, fail, Abort,
       register_distributed_plan, commit_projection, commit_reducer, CommitEvidence,
       RetryCertification, FinishCertification, Crash, publish_snapshot, publication, caller
  <1>4. QED
    BY <1>2, <1>3

\* Evidence for a row that stays in place outlives any step that leaves its
\* activation alone.
LEMMA EvidenceLasts ==
  ASSUME CatalogInv, [Next]_vars, NEW s \in Snapshots, snapshot[s] # None,
         snapshot'[s].operation = snapshot[s].operation,
         snapshot'[s].manifest = snapshot[s].manifest,
         cloud_activation'[snapshot[s].operation] = cloud_activation[snapshot[s].operation],
         build[snapshot[s].operation].serving_root # None => PublicationEvidence(s),
         build'[snapshot[s].operation].serving_root # None
  PROVE  PublicationEvidence(s)'
  <1> DEFINE o == snapshot[s].operation
  <1>1. o \in Operations /\ state[o] \in {"CERTIFIED", "PUBLISHED"}
    BY DEF CatalogInv, TypeOK, SnapshotRows, TablesAgree
  <1>2. Keeps(build[o], build'[o]) /\ build'[o].serving_root = build[o].serving_root
    BY <1>1, EvidenceKept
  <1>3. PublicationEvidence(s)
    BY <1>2
  <1>4. QED
    BY <1>2, <1>3 DEF PublicationEvidence, Keeps

LEMMA PublishableStep ==
  ASSUME CatalogInv, ServingJobIsPublishable, [Next]_vars
  PROVE  ServingJobIsPublishable'
  <1> SUFFICES ASSUME NEW s \in Snapshots, snapshot'[s] # None,
                      build'[snapshot'[s].operation].serving_root # None
               PROVE  PublicationEvidence(s)'
    BY DEF ServingJobIsPublishable
  <1>0. snapshot[s] # None => (build[snapshot[s].operation].serving_root # None => PublicationEvidence(s))
    BY DEF ServingJobIsPublishable
  <1>1. CASE UNCHANGED <<snapshot, cloud_activation>>
    BY <1>0, <1>1, EvidenceLasts
  <1>2. ASSUME NEW t \in Snapshots, PublishTx(t),
               UNCHANGED <<datasets, request, build, cloud_activation, crashes>>
        PROVE  PublicationEvidence(s)'
    <2>1. /\ snapshot[s] # None
          /\ snapshot'[s].operation = snapshot[s].operation
          /\ snapshot'[s].manifest = snapshot[s].manifest
      BY <1>2, PublishEffect
    <2>2. QED
      BY <1>0, <1>2, <2>1, EvidenceLasts
  <1>3. ASSUME NEW o \in Operations, NEW manifest \in Digests,
               \/ commit_reference_certification(o, manifest)
               \/ commit_cloud_snapshot_activation(o, manifest)
        PROVE  PublicationEvidence(s)'
    <2> DEFINE row == [dataset |-> request[o].dataset, parent |-> request[o].parent,
                       operation |-> o, manifest |-> manifest, state |-> "CERTIFIED"]
    <2>1. /\ Certify(o, manifest)
          /\ \/ UNCHANGED cloud_activation
             \/ cloud_activation' = [cloud_activation EXCEPT ![o] = manifest]
          /\ snapshot' = [snapshot EXCEPT ![request[o].target] = row]
          /\ state[o] \in Compiling
          /\ UNCHANGED build
      BY <1>3 DEF commit_reference_certification, commit_cloud_snapshot_activation, Certify
    <2>2. request[o] \in Requests /\ snapshot[request[o].target] = None
      BY <2>1, CertifyInv
    <2>3. row.operation = o /\ row.manifest = manifest
      OBVIOUS
    <2> HIDE DEF row
    <2>4. CASE s = request[o].target
      <3>1. snapshot'[s] = row
        BY <2>1, <2>4 DEF CatalogInv, TypeOK
      <3>2. CASE commit_reference_certification(o, manifest)
        <4>1. ServingAgrees(o, manifest)
          BY <3>2 DEF commit_reference_certification
        <4>2. /\ build'[o].serving_certification # None
              /\ build'[o].serving_certification.manifest = manifest
          BY <2>1, <2>3, <3>1, <4>1 DEF ServingAgrees
        <4>3. QED
          BY <2>3, <3>1, <4>2 DEF PublicationEvidence
      <3>3. CASE commit_cloud_snapshot_activation(o, manifest)
        <4>1. cloud_activation'[o] = manifest
          BY <3>3 DEF commit_cloud_snapshot_activation, CatalogInv, TypeOK
        <4>2. QED
          BY <2>3, <3>1, <4>1 DEF PublicationEvidence
      <3>4. QED
        BY <1>3, <3>2, <3>3
    <2>5. CASE s # request[o].target
      <3>1. snapshot'[s] = snapshot[s] /\ snapshot[s] # None
        BY <2>1, <2>5 DEF CatalogInv, TypeOK
      <3>2. snapshot[s].operation # o
        BY <2>1, <3>1 DEF CatalogInv, TablesAgree, Compiling
      <3>3. cloud_activation'[snapshot[s].operation] = cloud_activation[snapshot[s].operation]
        BY <2>1, <3>1, <3>2 DEF CatalogInv, TypeOK, SnapshotRows
      <3>4. QED
        BY <1>0, <3>1, <3>3, EvidenceLasts
    <2>6. QED
      BY <2>4, <2>5
  <1>4. QED
    BY <1>1, <1>2, <1>3, CertifyingSteps

\* A job certified with a serving root has the evidence publish_snapshot asks
\* for, in whatever order certificate, activation and certification came.
THEOREM ServingJobsArePublishable == Spec => []ServingJobIsPublishable
  <1>1. Init => ServingJobIsPublishable
    BY DEF Init, ServingJobIsPublishable
  <1>2. CatalogInv /\ ServingJobIsPublishable /\ [Next]_vars => ServingJobIsPublishable'
    BY PublishableStep
  <1>3. QED
    BY <1>1, <1>2, CatalogInvariant, PTL DEF Spec

=============================================================================
