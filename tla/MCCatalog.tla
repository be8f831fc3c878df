----------------------------- MODULE MCCatalog ------------------------------
(* Instances of Catalog for TLC. *)
EXTENDS Catalog, TLC, SequencesExt

Symmetry == Permutations(Operations \ Distributed) \cup Permutations(Snapshots)
              \cup Permutations(Datasets)

BuildSymmetry == Permutations(Partitions) \cup Permutations(Reducers)
                   \cup Permutations(Digests)

\* The loop of the certifying methods: try every forward state in turn and take
\* those may_transition accepts from the state reached so far.
CertificationLoop(from) ==
    FoldLeft(LAMBDA acc, next :
               IF may_transition(acc.at, next)
                 THEN [at |-> next, path |-> Append(acc.path, next)]
                 ELSE acc,
             [at |-> from, path |-> << >>],
             SubSeq(Pipeline, 2, Rank["CERTIFIED"]))

\* From every state a job can be certified in, that loop walks exactly Path.
ASSUME LoopIsPath ==
    \A from \in Compiling : CertificationLoop(from).path = Path(from, "CERTIFIED")
=============================================================================
