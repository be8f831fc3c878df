------------------------- MODULE JobLifecycle_proofs ------------------------
(* Facts about the edges and paths of a job, used by the catalog's proofs. *)
EXTENDS JobLifecycle, Integers, SequenceTheorems, TLAPS

\* The forward order is a sequence of eleven states joined by legal edges.
LEMMA PipelineEdges ==
  /\ Pipeline \in Seq(JobStates)
  /\ Len(Pipeline) = 11
  /\ \A i \in 1 .. 11 : Pipeline[i] \in JobStates
  /\ \A i \in 1 .. 10 : may_transition(Pipeline[i], Pipeline[i + 1])
  <1>1. Pipeline \in Seq(JobStates) /\ Len(Pipeline) = 11
    BY DEF Pipeline, JobStates, Compiling
  <1>2. \A i \in 1 .. 10 : <<Pipeline[i], Pipeline[i + 1]>> \in ForwardEdges
    BY DEF Pipeline, ForwardEdges
  <1>3. \A i \in 1 .. 11 : Pipeline[i] \in JobStates
    BY DEF Pipeline, JobStates, Compiling
  <1>4. QED
    BY <1>1, <1>2, <1>3 DEF may_transition

\* Rank is the position of a state in that order.
LEMMA RankPosition ==
  ASSUME NEW s \in Compiling \cup {"CERTIFIED", "PUBLISHED"}
  PROVE  Rank[s] \in 1 .. 11 /\ Pipeline[Rank[s]] = s
  BY DEF Rank, Pipeline, Compiling

LEMMA RankOrder ==
  /\ \A s \in Compiling : Rank[s] < Rank["CERTIFIED"]
  /\ Rank["REGISTERED"] < Rank["PARTITIONED"]
  /\ Rank["PROJECTED"] < Rank["INDEXED"]
  BY DEF Rank, Compiling

\* A path walks legal edges only: from the state the job is in to the one the
\* caller wants it in.
LEMMA PathIsLegal ==
  ASSUME NEW from \in Compiling, NEW to \in Compiling \cup {"CERTIFIED", "PUBLISHED"},
         Rank[from] < Rank[to]
  PROVE  /\ Path(from, to) \in Seq(JobStates)
         /\ Len(Path(from, to)) \in Nat \ {0}
         /\ Path(from, to)[Len(Path(from, to))] = to
         /\ may_transition(from, Path(from, to)[1])
         /\ \A i \in 1 .. Len(Path(from, to)) - 1 :
              may_transition(Path(from, to)[i], Path(from, to)[i + 1])
  <1> DEFINE m == Rank[from]
             n == Rank[to]
             P == Path(from, to)
  <1>1. /\ m \in 1 .. 11 /\ n \in 1 .. 11 /\ m < n
        /\ Pipeline[m] = from /\ Pipeline[n] = to
    BY RankPosition
  <1>2. Pipeline \in Seq(JobStates) /\ Len(Pipeline) = 11
    BY PipelineEdges
  <1>3. P = SubSeq(Pipeline, m + 1, n)
    BY DEF Path
  <1> HIDE DEF m, n, P
  <1>4. /\ P \in Seq(JobStates)
        /\ Len(P) = n - m
        /\ \A i \in 1 .. n - m : P[i] = Pipeline[m + i]
    <2>1. m + 1 \in Int /\ n \in Int /\ m + 1 <= n
      BY <1>1
    <2>2. \A i \in m + 1 .. n : Pipeline[i] \in JobStates
      BY <1>1, PipelineEdges
    <2>3. /\ P \in Seq(JobStates)
          /\ Len(P) = n - (m + 1) + 1
          /\ \A i \in 1 .. n - (m + 1) + 1 : P[i] = Pipeline[m + 1 + i - 1]
      <3> DEFINE k == m + 1
      <3>1. k \in Int /\ n \in Int /\ k <= n /\ P = SubSeq(Pipeline, k, n)
        BY <1>3, <2>1
      <3>2. \A i \in k .. n : Pipeline[i] \in JobStates
        BY <2>2
      <3> HIDE DEF k
      <3>3. /\ P \in Seq(JobStates)
            /\ Len(P) = IF k <= n THEN n - k + 1 ELSE 0
            /\ \A i \in 1 .. n - k + 1 : P[i] = Pipeline[k + i - 1]
        BY <3>1, <3>2, SubSeqProperties
      <3>4. QED
        BY <3>1, <3>3 DEF k
    <2>4. n - (m + 1) + 1 = n - m /\ \A i \in 1 .. n - m : m + 1 + i - 1 = m + i
      BY <1>1
    <2>5. QED
      BY <2>3, <2>4
  <1>5. P[Len(P)] = to /\ P[1] = Pipeline[m + 1]
    BY <1>1, <1>4
  <1>6. may_transition(from, P[1])
    BY <1>1, <1>5, PipelineEdges, SMTT(40)
  <1>7. \A i \in 1 .. Len(P) - 1 : may_transition(P[i], P[i + 1])
    <2> SUFFICES ASSUME NEW i \in 1 .. Len(P) - 1
                 PROVE  may_transition(P[i], P[i + 1])
      OBVIOUS
    <2>1. m + i \in 1 .. 10 /\ i \in 1 .. n - m /\ i + 1 \in 1 .. n - m
          /\ m + (i + 1) = (m + i) + 1
      BY <1>1, <1>4
    <2>2. P[i] = Pipeline[m + i] /\ P[i + 1] = Pipeline[(m + i) + 1]
      BY <2>1, <1>4
    <2>3. QED
      BY <2>1, <2>2, PipelineEdges
  <1>8. QED
    BY <1>1, <1>4, <1>5, <1>6, <1>7 DEF P
=============================================================================
