---------------------------- MODULE JobLifecycle ----------------------------
(***************************************************************************)
(* The life cycle of one compilation job: the states of JobState, the      *)
(* edges may_transition accepts and the paths the repository walks inside  *)
(* one database transaction.                                               *)
(***************************************************************************)
EXTENDS Naturals, Sequences

\* The forward order of a job that is never failed or cancelled.
Pipeline ==
    << "REGISTERED", "SOURCE_PLANNED", "MAPPING_VALIDATED", "PARTITIONED",
       "PROJECTED", "IDENTIFIED", "SPINE_WRITTEN", "INDEXED", "REASONED",
       "CERTIFIED", "PUBLISHED" >>

\* The position of each forward state in Pipeline.
Rank ==
    [REGISTERED |-> 1, SOURCE_PLANNED |-> 2, MAPPING_VALIDATED |-> 3,
     PARTITIONED |-> 4, PROJECTED |-> 5, IDENTIFIED |-> 6, SPINE_WRITTEN |-> 7,
     INDEXED |-> 8, REASONED |-> 9, CERTIFIED |-> 10, PUBLISHED |-> 11]

\* The states from which a job may still be failed, cancelled or certified.
Compiling ==
    {"REGISTERED", "SOURCE_PLANNED", "MAPPING_VALIDATED", "PARTITIONED",
     "PROJECTED", "IDENTIFIED", "SPINE_WRITTEN", "INDEXED", "REASONED"}

Aborted == {"FAILED", "CANCELLED"}

JobStates == Compiling \cup {"CERTIFIED", "PUBLISHED"} \cup Aborted

ForwardEdges ==
    { <<"REGISTERED", "SOURCE_PLANNED">>, <<"SOURCE_PLANNED", "MAPPING_VALIDATED">>,
      <<"MAPPING_VALIDATED", "PARTITIONED">>, <<"PARTITIONED", "PROJECTED">>,
      <<"PROJECTED", "IDENTIFIED">>, <<"IDENTIFIED", "SPINE_WRITTEN">>,
      <<"SPINE_WRITTEN", "INDEXED">>, <<"INDEXED", "REASONED">>,
      <<"REASONED", "CERTIFIED">>, <<"CERTIFIED", "PUBLISHED">> }

\* Mutant: a certified job can still be failed or cancelled.
may_abort_certified(from, to) ==
    \/ <<from, to>> \in ForwardEdges
    \/ from \in Compiling \cup {"CERTIFIED"} /\ to \in Aborted

may_transition(from, to) ==
    \/ <<from, to>> \in ForwardEdges
    \/ from \in Compiling /\ to \in Aborted

\* The states entered, in order, when a job is walked forward inside one
\* transaction: every caller of transition_locked that loops over states.
Path(from, to) == SubSeq(Pipeline, Rank[from] + 1, Rank[to])

=============================================================================
