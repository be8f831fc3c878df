-------------------------- MODULE SnapshotLineage ---------------------------
(***************************************************************************)
(* What the catalog promises its readers, without jobs, evidence, locks or *)
(* retries: each dataset serves one snapshot at a time, and a prepared     *)
(* snapshot starts to be served only in place of the parent it was         *)
(* compiled against.                                                       *)
(***************************************************************************)
CONSTANTS Datasets, Snapshots, None

ASSUME LineageAssumption == None \notin Snapshots /\ None \notin Datasets

VARIABLES
    active,     \* the snapshot each dataset serves, or None
    prepared,   \* dataset and parent of each certified snapshot, or None
    served      \* every snapshot that has ever been active

vars == <<active, prepared, served>>

Bindings == [dataset : Datasets, parent : Snapshots \cup {None}]

Init ==
    /\ active = [d \in Datasets |-> None]
    /\ prepared = [s \in Snapshots |-> None]
    /\ served = {}

Prepare(s, d, p) ==
    /\ prepared[s] = None
    /\ p # None => prepared[p] # None /\ prepared[p].dataset = d
    /\ prepared' = [prepared EXCEPT ![s] = [dataset |-> d, parent |-> p]]
    /\ UNCHANGED <<active, served>>

\* Mutant: the active snapshot is overwritten, not compared and swapped.
ServeUnchecked(s) ==
    /\ prepared[s] # None
    /\ s \notin served
    /\ active' = [active EXCEPT ![prepared[s].dataset] = s]
    /\ served' = served \cup {s}
    /\ UNCHANGED prepared

Serve(s) ==
    /\ prepared[s] # None
    /\ s \notin served
    /\ active[prepared[s].dataset] = prepared[s].parent
    /\ active' = [active EXCEPT ![prepared[s].dataset] = s]
    /\ served' = served \cup {s}
    /\ UNCHANGED prepared

Next ==
    \E s \in Snapshots :
      \/ \E d \in Datasets, p \in Snapshots \cup {None} : Prepare(s, d, p)
      \/ Serve(s)

Spec == Init /\ [][Next]_vars

-----------------------------------------------------------------------------

TypeOK ==
    /\ active \in [Datasets -> Snapshots \cup {None}]
    /\ prepared \in [Snapshots -> Bindings \cup {None}]
    /\ served \in SUBSET Snapshots

Parent(s) == prepared[s].parent
Home(s) == prepared[s].dataset

\* Every served snapshot was prepared, and took over from a parent that was
\* itself served before it in the same dataset.
ParentsServed ==
    \A s \in served :
      /\ prepared[s] # None
      /\ Parent(s) # None => Parent(s) \in served /\ Home(Parent(s)) = Home(s)

\* No two served snapshots of a dataset took over from the same parent: the
\* history does not fork.
NoFork ==
    \A s, t \in served : Home(s) = Home(t) /\ Parent(s) = Parent(t) => s = t

\* The active snapshot is the newest end of that history: the one served
\* snapshot of its dataset that no other took over from.
ActiveIsLast ==
    \A d \in Datasets :
      /\ active[d] # None => active[d] \in served /\ Home(active[d]) = d
      /\ active[d] = None => \A s \in served : Home(s) # d
      /\ \A s \in served : Home(s) = d =>
           (s = active[d] <=> \A t \in served : Parent(t) # s)

\* The served snapshots of a dataset form one unbroken chain that ends in the
\* active snapshot.
Chain == ParentsServed /\ NoFork /\ ActiveIsLast
=============================================================================
