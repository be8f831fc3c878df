----------------------------- MODULE MCRecovery -----------------------------
(***************************************************************************)
(* Four targets in three failure domains, and a request of each kind: a    *)
(* replication with two copies per artifact, a repair that finds nothing   *)
(* to do (the primary is ranked first), and a restore of o1.               *)
(***************************************************************************)
EXTENDS StorageRecovery

CONSTANTS o1, primary, near, far, edge

Request(kind, factor, destination) ==
    [kind |-> kind, factor |-> factor, destination |-> destination, backup |-> o1]

PairRequests ==
    {Request("REPLICATE", 3, far), Request("RELOCATE", 2, far), Request("BACKUP", 2, near),
     Request("RESTORE", 1, far)}

RaceRequests == {Request("RELOCATE", 2, far), Request("NODE_LOSS", 1, far)}

MCDomain == [t \in Targets |->
                CASE t = primary -> 1 [] t \in {near, far} -> 2 [] t = edge -> 3]
MCRank == [a \in Artifacts |-> [t \in Targets |->
              CASE t = primary -> 1 [] t = near -> 2 [] t = far -> 3 [] t = edge -> 4]]
=============================================================================
