-------------------------- MODULE WorkPlane_proofs --------------------------
(* Proofs about the CPU work plane, for any number of workloads, partitions, *)
(* workers, attempts and faults.                                            *)
EXTENDS WorkPlane, FiniteSetTheorems, TLAPS

LEMMA OfIsFinite ==
  ASSUME NEW w
  PROVE  Of(w) \subseteq Partitions /\ IsFiniteSet(Of(w)) /\ Cardinality(Of(w)) \in Nat
  <1>1. IsFiniteSet(Partitions)
    BY WorkPlaneAssumption, FS_Interval DEF Partitions
  <1>2. Of(w) \subseteq Partitions
    BY DEF Of
  <1>3. QED
    BY <1>1, <1>2, FS_Subset, FS_CardinalityType

LEMMA DoneIsFinite ==
  ASSUME NEW w
  PROVE  Done(w) \subseteq Of(w) /\ IsFiniteSet(Done(w)) /\ Cardinality(Done(w)) \in Nat
  <1>1. Done(w) \subseteq Of(w)
    BY DEF Done
  <1>2. QED
    BY <1>1, OfIsFinite, FS_Subset, FS_CardinalityType

\* What closing a row does to its fields.
LEMMA ClosedPart ==
  ASSUME NEW state \in RowStates, NEW row \in PartRows
  PROVE  /\ Closed(row, state) \in PartRows
         /\ Closed(row, state).state = state
         /\ Closed(row, state).token = None
         /\ ~Closed(row, state).expired
         /\ Closed(row, state).attempt = row.attempt
         /\ Closed(row, state).result = row.result
  BY DEF PartRows, Closed

LEMMA ClosedEntry ==
  ASSUME NEW state \in RowStates, NEW row \in EntryRows
  PROVE  /\ Closed(row, state) \in EntryRows
         /\ Closed(row, state).state = state
         /\ Closed(row, state).token = None
         /\ ~Closed(row, state).expired
  BY DEF EntryRows, Closed

LEMMA MovedWorkload ==
  ASSUME NEW state \in WorkloadStates, NEW row \in WorkloadRows
  PROVE  /\ [row EXCEPT !.state = state] \in WorkloadRows
         /\ [row EXCEPT !.state = state].state = state
         /\ [row EXCEPT !.state = state].completed = row.completed
         /\ [row EXCEPT !.state = state].failed = row.failed
         /\ [row EXCEPT !.state = state].root = row.root
  BY DEF WorkloadRows

LEMMA WorkInit == Init => WorkInv
  <1> SUFFICES ASSUME Init PROVE WorkInv
    OBVIOUS
  <1>1. TypeOK
    BY WorkPlaneAssumption
    DEF Init, TypeOK, AbsentWorkload, AbsentPart, AbsentEntry, Idle, NoRoot,
        WorkloadStates, RowStates, Steps, WorkloadRows, PartRows, EntryRows
  <1>2. QueueMirrors /\ HeadersFit /\ LeasesFit /\ WorkersFit
    BY DEF Init, QueueMirrors, HeadersFit, LeasesFit, WorkersFit, AbsentWorkload, AbsentPart, AbsentEntry, Idle, Of
  <1>3. CountIsExact /\ CompleteIsWhole /\ ResultOfLastLease /\ CancelledStops
    BY DEF Init, CountIsExact, CompleteIsWhole, ResultOfLastLease, CancelledStops, Open,
           AbsentWorkload, AbsentPart
  <1>4. QED
    BY <1>1, <1>2, <1>3 DEF WorkInv

\* A worker moves on and no row changes.
LEMMA WorkerMoves ==
  ASSUME WorkInv, UNCHANGED <<workload, part, queue>>, faults' \in 0..MaxFaults,
         NEW k \in Workers,
         \/ worker' = [worker EXCEPT ![k] = Idle]
         \/ worker[k].step # "idle" /\ \E step \in Steps : worker' = [worker EXCEPT ![k].step = step]
  PROVE  WorkInv'
  <1>1. TypeOK'
    <2>1. Idle \in [step : Steps, part : Partitions \cup {None}, token : Tokens \cup {None}]
      BY DEF Idle, Steps
    <2>2. CASE worker' = [worker EXCEPT ![k] = Idle]
      BY <2>1, <2>2 DEF WorkInv, TypeOK
    <2>3. ASSUME NEW step \in Steps, worker' = [worker EXCEPT ![k].step = step]
          PROVE  TypeOK'
      BY <2>3 DEF WorkInv, TypeOK
    <2>4. QED
      BY <2>2, <2>3
  <1>2. QueueMirrors'
    BY DEF WorkInv, QueueMirrors
  <1>3. HeadersFit' /\ LeasesFit' /\ WorkersFit'
    BY DEF WorkInv, HeadersFit, LeasesFit, WorkersFit, TypeOK, Idle, Of
  <1>4. CountIsExact' /\ CompleteIsWhole' /\ ResultOfLastLease' /\ CancelledStops'
    BY DEF WorkInv, CountIsExact, CompleteIsWhole, ResultOfLastLease, CancelledStops, Open, Done, Of
  <1>5. QED
    BY <1>1, <1>2, <1>3, <1>4 DEF WorkInv

LEMMA CreateInv ==
  ASSUME WorkInv, NEW w \in Workloads, create_qualification(w)
  PROVE  WorkInv'
  <1>1. /\ workload' = [workload EXCEPT ![w] = [workload[w] EXCEPT !.state = "READY"]]
        /\ UNCHANGED <<worker, faults>>
        /\ workload[w].state = "ABSENT"
    BY DEF create_qualification
  <1>2. \A p \in Partitions : Owner[p] # w => part'[p] = part[p] /\ queue'[p] = queue[p]
    BY DEF create_qualification
  <1>3. \A p \in Partitions : Owner[p] = w =>
          /\ part'[p] \in PartRows
          /\ part'[p].state = "READY"
          /\ part'[p].attempt = part[p].attempt
          /\ part'[p].token = part[p].token
          /\ part'[p].expired <=> part[p].expired
          /\ part'[p].result = part[p].result
    <2> SUFFICES ASSUME NEW p \in Partitions, Owner[p] = w
                 PROVE  /\ part'[p] \in PartRows
                        /\ part'[p].state = "READY"
                        /\ part'[p].attempt = part[p].attempt
                        /\ part'[p].token = part[p].token
                        /\ part'[p].expired <=> part[p].expired
                        /\ part'[p].result = part[p].result
      OBVIOUS
    <2>1. part'[p] = [part[p] EXCEPT !.state = "READY"] /\ part[p] \in PartRows
      BY DEF create_qualification, WorkInv, TypeOK
    <2>2. QED
      BY <2>1 DEF PartRows, RowStates
  <1>4. \A p \in Partitions : Owner[p] = w =>
          /\ queue'[p] \in EntryRows
          /\ queue'[p].state = "READY"
          /\ queue'[p].token = queue[p].token
          /\ queue'[p].expired <=> queue[p].expired
    <2> SUFFICES ASSUME NEW p \in Partitions, Owner[p] = w
                 PROVE  /\ queue'[p] \in EntryRows
                        /\ queue'[p].state = "READY"
                        /\ queue'[p].token = queue[p].token
                        /\ queue'[p].expired <=> queue[p].expired
      OBVIOUS
    <2>1. queue'[p] = [queue[p] EXCEPT !.state = "READY"] /\ queue[p] \in EntryRows
      BY DEF create_qualification, WorkInv, TypeOK
    <2>2. QED
      BY <2>1 DEF EntryRows, RowStates
  <1>5. /\ workload'[w] \in WorkloadRows
        /\ workload'[w].state = "READY"
        /\ workload'[w].completed = 0
        /\ workload'[w].failed = 0
        /\ \A v \in Workloads : v # w => workload'[v] = workload[v]
    BY <1>1, MovedWorkload DEF WorkInv, TypeOK, HeadersFit, WorkloadStates
  <1>6. TypeOK'
    <2>1. workload' \in [Workloads -> WorkloadRows]
      BY <1>1, <1>5 DEF WorkInv, TypeOK
    <2>2. part' \in [Partitions -> PartRows]
      BY <1>2, <1>3 DEF create_qualification, WorkInv, TypeOK
    <2>3. queue' \in [Partitions -> EntryRows]
      BY <1>2, <1>4 DEF create_qualification, WorkInv, TypeOK
    <2>4. QED
      BY <1>1, <2>1, <2>2, <2>3 DEF WorkInv, TypeOK
  <1>7. QueueMirrors'
    BY <1>2, <1>3, <1>4 DEF WorkInv, QueueMirrors
  <1>8. HeadersFit' /\ LeasesFit' /\ WorkersFit'
    <2>1. \A p \in Partitions : Owner[p] = w => part[p].state = "ABSENT"
      BY <1>1 DEF WorkInv, HeadersFit, Of
    <2>2. HeadersFit'
      BY <1>2, <1>3, <1>5 DEF WorkInv, HeadersFit, Of
    <2>3. LeasesFit'
      BY <1>2, <1>3, <2>1 DEF WorkInv, LeasesFit
    <2>4. QED
      BY <1>1, <2>2, <2>3 DEF WorkInv, WorkersFit
  <1>9. CountIsExact'
    <2> SUFFICES ASSUME NEW v \in Workloads, Open(v)'
                 PROVE  /\ (workload[v].completed = Cardinality(Done(v)))'
                        /\ (\A p \in Of(v) : part[p].state \notin {"FAILED", "CANCELLED"})'
      BY DEF CountIsExact
    <2>1. CASE v = w
      <3>1. Done(w)' = {}
        BY <1>3 DEF Done, Of
      <3>2. QED
        BY <2>1, <3>1, <1>3, <1>5, FS_EmptySet DEF Of
    <2>2. CASE v # w
      <3>1. Done(v)' = Done(v)
        BY <1>2, <2>2 DEF Done, Of
      <3>2. QED
        BY <1>2, <1>5, <2>2, <3>1 DEF WorkInv, CountIsExact, Open, Of
    <2>3. QED
      BY <2>1, <2>2
  <1>10. CompleteIsWhole'
    <2> SUFFICES ASSUME NEW v \in Workloads, workload'[v].state = "COMPLETED"
                 PROVE  /\ workload'[v].root = {<<p, part'[p].result>> : p \in Of(v)}
                        /\ \A p \in Of(v) : part'[p].state = "COMPLETED" /\ part'[p].result # None
      BY DEF CompleteIsWhole, Of
    <2>1. workload'[v] = workload[v] /\ \A p \in Of(v) : part'[p] = part[p]
      BY <1>2, <1>5 DEF Of
    <2>2. QED
      BY <2>1 DEF WorkInv, CompleteIsWhole
  <1>11. ResultOfLastLease' /\ CancelledStops'
    BY <1>2, <1>3, <1>5 DEF WorkInv, ResultOfLastLease, CancelledStops, Of
  <1>12. QED
    BY <1>6, <1>7, <1>8, <1>9, <1>10, <1>11 DEF WorkInv

LEMMA CancelInv ==
  ASSUME WorkInv, NEW w \in Workloads, cancel(w)
  PROVE  WorkInv'
  <1> DEFINE stopped(p) == Owner[p] = w /\ part[p].state \in {"READY", "LEASED"}
  <1>1. /\ workload' = [workload EXCEPT ![w] = [workload[w] EXCEPT !.state = "CANCELLED"]]
        /\ UNCHANGED <<worker, faults>>
        /\ Open(w)
    BY DEF cancel
  <1>2. part' = [p \in Partitions |->
                   IF stopped(p) THEN Closed(part[p], "CANCELLED") ELSE part[p]]
    BY DEF cancel, Of
  <1>3. queue' = [p \in Partitions |->
                    IF stopped(p) THEN Closed(queue[p], "CANCELLED") ELSE queue[p]]
    BY DEF cancel, Of, WorkInv, QueueMirrors
  <1>4. \A p \in Partitions : stopped(p) =>
          /\ part'[p] \in PartRows /\ queue'[p] \in EntryRows
          /\ part'[p].state = "CANCELLED" /\ queue'[p].state = "CANCELLED"
          /\ part'[p].token = None /\ queue'[p].token = None
          /\ ~part'[p].expired /\ ~queue'[p].expired
          /\ part'[p].attempt = part[p].attempt /\ part'[p].result = part[p].result
    <2> SUFFICES ASSUME NEW p \in Partitions, stopped(p)
                 PROVE  /\ part'[p] \in PartRows /\ queue'[p] \in EntryRows
                        /\ part'[p].state = "CANCELLED" /\ queue'[p].state = "CANCELLED"
                        /\ part'[p].token = None /\ queue'[p].token = None
                        /\ ~part'[p].expired /\ ~queue'[p].expired
                        /\ part'[p].attempt = part[p].attempt /\ part'[p].result = part[p].result
      OBVIOUS
    <2>1. part[p] \in PartRows /\ queue[p] \in EntryRows /\ "CANCELLED" \in RowStates
      BY DEF WorkInv, TypeOK, RowStates
    <2>2. part'[p] = Closed(part[p], "CANCELLED") /\ queue'[p] = Closed(queue[p], "CANCELLED")
      BY <1>2, <1>3
    <2> HIDE DEF stopped
    <2>3. /\ part'[p] \in PartRows /\ part'[p].state = "CANCELLED" /\ part'[p].token = None
          /\ ~part'[p].expired /\ part'[p].attempt = part[p].attempt
          /\ part'[p].result = part[p].result
      BY <2>1, <2>2, ClosedPart
    <2>4. /\ queue'[p] \in EntryRows /\ queue'[p].state = "CANCELLED" /\ queue'[p].token = None
          /\ ~queue'[p].expired
      BY <2>1, <2>2, ClosedEntry
    <2>5. QED
      BY <2>3, <2>4
  <1>5. \A p \in Partitions : ~stopped(p) => part'[p] = part[p] /\ queue'[p] = queue[p]
    BY <1>2, <1>3
  <1>6. /\ workload'[w] \in WorkloadRows
        /\ workload'[w].state = "CANCELLED"
        /\ workload'[w].failed = 0
        /\ \A v \in Workloads : v # w => workload'[v] = workload[v]
    BY <1>1, MovedWorkload DEF WorkInv, TypeOK, HeadersFit, WorkloadStates, Open
  <1>7. TypeOK'
    <2>1. workload' \in [Workloads -> WorkloadRows]
      BY <1>1, <1>6 DEF WorkInv, TypeOK
    <2>2. part' \in [Partitions -> PartRows] /\ queue' \in [Partitions -> EntryRows]
      BY <1>2, <1>3, <1>4, <1>5 DEF WorkInv, TypeOK
    <2>3. QED
      BY <1>1, <2>1, <2>2 DEF WorkInv, TypeOK
  <1>8. QueueMirrors'
    BY <1>4, <1>5 DEF WorkInv, QueueMirrors
  <1>9. HeadersFit'
    <2>1. \A p \in Of(w) : part'[p].state # "ABSENT"
      BY <1>1, <1>4, <1>5 DEF WorkInv, HeadersFit, Open, Of
    <2>2. \A v \in Workloads : v # w => \A p \in Of(v) : part'[p] = part[p]
      BY <1>5 DEF Of
    <2>3. \A v : Of(v)' = Of(v)
      BY DEF Of
    <2> HIDE DEF stopped
    <2>4. QED
      BY <1>6, <2>1, <2>2, <2>3 DEF WorkInv, HeadersFit
  <1>10. LeasesFit' /\ WorkersFit'
    BY <1>1, <1>4, <1>5 DEF WorkInv, LeasesFit, WorkersFit
  <1>11. CountIsExact'
    <2> SUFFICES ASSUME NEW v \in Workloads, Open(v)'
                 PROVE  /\ (workload[v].completed = Cardinality(Done(v)))'
                        /\ (\A p \in Of(v) : part[p].state \notin {"FAILED", "CANCELLED"})'
      BY DEF CountIsExact
    <2>1. v # w
      BY <1>6 DEF Open
    <2>2. Done(v)' = Done(v)
      BY <1>5, <2>1 DEF Done, Of
    <2>3. QED
      BY <1>5, <1>6, <2>1, <2>2 DEF WorkInv, CountIsExact, Open, Of
  <1>12. CompleteIsWhole'
    <2> SUFFICES ASSUME NEW v \in Workloads, workload'[v].state = "COMPLETED"
                 PROVE  /\ workload'[v].root = {<<p, part'[p].result>> : p \in Of(v)}
                        /\ \A p \in Of(v) : part'[p].state = "COMPLETED" /\ part'[p].result # None
      BY DEF CompleteIsWhole, Of
    <2>1. workload'[v] = workload[v] /\ \A p \in Of(v) : part'[p] = part[p]
      BY <1>5, <1>6 DEF Of
    <2>2. QED
      BY <2>1 DEF WorkInv, CompleteIsWhole
  <1>13. ResultOfLastLease'
    BY <1>4, <1>5 DEF WorkInv, ResultOfLastLease
  <1>14. CancelledStops'
    <2> SUFFICES ASSUME NEW v \in Workloads, workload'[v].state = "CANCELLED", NEW p \in Of(v)
                 PROVE  part'[p].state \in Ended
      BY <1>8 DEF CancelledStops, QueueMirrors, Of
    <2>1. CASE v = w
      <3>1. part[p].state \in RowStates /\ part[p].state # "ABSENT"
        BY <1>1, <2>1 DEF WorkInv, TypeOK, PartRows, HeadersFit, Open, Of
      <3>2. CASE stopped(p)
        BY <1>4, <3>2 DEF Of, Ended
      <3>3. CASE ~stopped(p)
        BY <1>5, <2>1, <3>1, <3>3 DEF Of, Ended, RowStates
      <3>4. QED
        BY <3>2, <3>3
    <2>2. CASE v # w
      BY <1>5, <1>6, <2>2 DEF WorkInv, CancelledStops, Of
    <2>3. QED
      BY <2>1, <2>2
  <1>15. QED
    BY <1>7, <1>8, <1>9, <1>10, <1>11, <1>12, <1>13, <1>14 DEF WorkInv

\* What claiming does to a partition and to its entry in the queue.
LEMMA ClaimedRows ==
  ASSUME NEW row \in PartRows, row.attempt < MaxAttempts, NEW new,
         new = [row EXCEPT !.state = "LEASED", !.attempt = row.attempt + 1,
                           !.token = row.attempt + 1, !.expired = FALSE]
  PROVE  /\ new \in PartRows
         /\ new.state = "LEASED"
         /\ new.attempt = row.attempt + 1
         /\ new.token = row.attempt + 1
         /\ ~new.expired
         /\ new.result = row.result
         /\ row.attempt + 1 \in Tokens
  <1>1. row.attempt \in 0..MaxAttempts
    BY DEF PartRows
  <1>2. row.attempt + 1 \in Tokens /\ row.attempt + 1 \in 0..MaxAttempts
    BY <1>1, WorkPlaneAssumption DEF Tokens
  <1>3. "LEASED" \in RowStates
    BY DEF RowStates
  <1>4. QED
    BY <1>2, <1>3 DEF PartRows

LEMMA FailedWorkload ==
  ASSUME NEW row \in WorkloadRows, row.failed = 0, NEW new,
         new = [row EXCEPT !.state = "FAILED", !.failed = row.failed + 1]
  PROVE  new \in WorkloadRows /\ new.state = "FAILED"
  <1>1. row.failed + 1 \in 0..1 /\ "FAILED" \in WorkloadStates
    BY DEF WorkloadStates
  <1>2. QED
    BY <1>1 DEF WorkloadRows

LEMMA ClaimInv ==
  ASSUME WorkInv, NEW k \in Workers, claim(k)
  PROVE  WorkInv'
  <1>1. PICK spent \in SUBSET {q \in Partitions : Claimable(q) /\ Exhausted(q)},
             taken \in SUBSET {q \in Partitions : Claimable(q) /\ ~Exhausted(q)} :
          /\ part' = [p \in Partitions |-> ClaimedPart(p, spent, taken)]
          /\ queue' = [p \in Partitions |-> ClaimedEntry(p, spent, taken)]
          /\ workload' = [w \in Workloads |-> ClaimedWorkload(w, spent, taken)]
          /\ \/ taken = {} /\ UNCHANGED worker
             \/ \E p \in taken :
                  worker' = [worker EXCEPT ![k] = [step |-> "running", part |-> p,
                                                   token |-> part[p].attempt + 1]]
    BY DEF claim
  <1>2. \A p \in spent \cup taken : p \in Partitions /\ part[p].state \in {"READY", "LEASED"}
    BY DEF Claimable, WorkInv, QueueMirrors
  <1>3. \A p \in spent :
          /\ part'[p] \in PartRows /\ part'[p].state = "FAILED" /\ part'[p].token = None
          /\ ~part'[p].expired /\ part'[p].attempt = part[p].attempt
          /\ part'[p].result = part[p].result
    <2> SUFFICES ASSUME NEW p \in spent
                 PROVE  /\ part'[p] \in PartRows /\ part'[p].state = "FAILED" /\ part'[p].token = None
                        /\ ~part'[p].expired /\ part'[p].attempt = part[p].attempt
                        /\ part'[p].result = part[p].result
      OBVIOUS
    <2>1. part'[p] = Closed(part[p], "FAILED")
      BY <1>1, <1>2 DEF ClaimedPart
    <2>2. part[p] \in PartRows /\ "FAILED" \in RowStates
      BY <1>2 DEF WorkInv, TypeOK, RowStates
    <2>3. QED
      BY <2>1, <2>2, ClosedPart
  <1>4. \A p \in spent :
          queue'[p] \in EntryRows /\ queue'[p].state = "FAILED" /\ queue'[p].token = None
            /\ ~queue'[p].expired
    <2> SUFFICES ASSUME NEW p \in spent
                 PROVE  queue'[p] \in EntryRows /\ queue'[p].state = "FAILED"
                          /\ queue'[p].token = None /\ ~queue'[p].expired
      OBVIOUS
    <2>1. queue'[p] = Closed(queue[p], "FAILED")
      BY <1>1, <1>2 DEF ClaimedEntry
    <2>2. queue[p] \in EntryRows /\ "FAILED" \in RowStates
      BY <1>2 DEF WorkInv, TypeOK, RowStates
    <2>3. QED
      BY <2>1, <2>2, ClosedEntry
  <1>5. \A p \in taken :
          /\ p \notin spent /\ part[p] \in PartRows /\ part[p].attempt < MaxAttempts
    <2> SUFFICES ASSUME NEW p \in taken
                 PROVE  p \notin spent /\ part[p] \in PartRows /\ part[p].attempt < MaxAttempts
      OBVIOUS
    <2>1. part[p] \in PartRows /\ ~Exhausted(p) /\ p \notin spent
      BY <1>2 DEF WorkInv, TypeOK
    <2>2. QED
      BY <2>1, WorkPlaneAssumption DEF Exhausted, PartRows
  <1>6. \A p \in taken :
          /\ part'[p] \in PartRows /\ part'[p].state = "LEASED"
          /\ part'[p].attempt = part[p].attempt + 1 /\ part'[p].token = part[p].attempt + 1
          /\ ~part'[p].expired /\ part'[p].result = part[p].result
          /\ part[p].attempt + 1 \in Tokens
    <2> SUFFICES ASSUME NEW p \in taken
                 PROVE  /\ part'[p] \in PartRows /\ part'[p].state = "LEASED"
                        /\ part'[p].attempt = part[p].attempt + 1
                        /\ part'[p].token = part[p].attempt + 1
                        /\ ~part'[p].expired /\ part'[p].result = part[p].result
                        /\ part[p].attempt + 1 \in Tokens
      OBVIOUS
    <2>1. part'[p] = [part[p] EXCEPT !.state = "LEASED", !.attempt = @ + 1,
                                     !.token = part[p].attempt + 1, !.expired = FALSE]
      BY <1>1, <1>2, <1>5 DEF ClaimedPart
    <2>2. QED
      BY <2>1, <1>5, ClaimedRows, ZenonT(60)
  <1>7. \A p \in taken :
          /\ queue'[p] \in EntryRows /\ queue'[p].state = "LEASED"
          /\ queue'[p].token = part[p].attempt + 1 /\ ~queue'[p].expired
    <2> SUFFICES ASSUME NEW p \in taken
                 PROVE  /\ queue'[p] \in EntryRows /\ queue'[p].state = "LEASED"
                        /\ queue'[p].token = part[p].attempt + 1 /\ ~queue'[p].expired
      OBVIOUS
    <2>1. queue'[p] = [state |-> "LEASED", token |-> part[p].attempt + 1, expired |-> FALSE]
      BY <1>1, <1>2, <1>5 DEF ClaimedEntry
    <2>2. part[p].attempt + 1 \in Tokens
      BY <1>6
    <2>3. QED
      BY <2>1, <2>2 DEF EntryRows, RowStates
  <1>8. \A p \in Partitions \ (spent \cup taken) : part'[p] = part[p] /\ queue'[p] = queue[p]
    BY <1>1 DEF ClaimedPart, ClaimedEntry
  <1>9. \A w \in Workloads :
          \/ /\ Open(w) /\ workload'[w] \in WorkloadRows /\ workload'[w].state = "FAILED"
          \/ /\ spent \cap Of(w) = {} /\ workload[w].state = "READY"
             /\ workload'[w] \in WorkloadRows /\ workload'[w].state = "RUNNING"
             /\ workload'[w].completed = workload[w].completed
             /\ workload'[w].failed = workload[w].failed
          \/ /\ workload'[w] = workload[w]
             /\ Open(w) => spent \cap Of(w) = {}
             /\ workload[w].state = "READY" => taken \cap Of(w) = {}
    <2> SUFFICES ASSUME NEW w \in Workloads
                 PROVE  \/ /\ Open(w) /\ workload'[w] \in WorkloadRows /\ workload'[w].state = "FAILED"
                        \/ /\ spent \cap Of(w) = {} /\ workload[w].state = "READY"
                           /\ workload'[w] \in WorkloadRows /\ workload'[w].state = "RUNNING"
                           /\ workload'[w].completed = workload[w].completed
                           /\ workload'[w].failed = workload[w].failed
                        \/ /\ workload'[w] = workload[w]
                           /\ Open(w) => spent \cap Of(w) = {}
                           /\ workload[w].state = "READY" => taken \cap Of(w) = {}
      OBVIOUS
    <2>1. workload'[w] = ClaimedWorkload(w, spent, taken) /\ workload[w] \in WorkloadRows
      BY <1>1 DEF WorkInv, TypeOK
    <2>2. CASE Open(w) /\ spent \cap Of(w) # {}
      <3>1. workload[w].failed = 0
        BY <2>2 DEF WorkInv, HeadersFit, Open
      <3>2. workload'[w] = [workload[w] EXCEPT !.state = "FAILED", !.failed = @ + 1]
        BY <2>1, <2>2 DEF ClaimedWorkload
      <3>3. QED
        BY <2>1, <2>2, <3>1, <3>2, FailedWorkload
    <2>3. CASE ~(Open(w) /\ spent \cap Of(w) # {}) /\ workload[w].state = "READY"
                 /\ taken \cap Of(w) # {}
      <3>1. workload'[w] = [workload[w] EXCEPT !.state = "RUNNING"]
        BY <2>1, <2>3 DEF ClaimedWorkload
      <3>2. "RUNNING" \in WorkloadStates
        BY DEF WorkloadStates
      <3>3. QED
        BY <2>1, <2>3, <3>1, <3>2, MovedWorkload DEF Open
    <2>4. CASE ~(Open(w) /\ spent \cap Of(w) # {})
                 /\ ~(workload[w].state = "READY" /\ taken \cap Of(w) # {})
      BY <2>1, <2>4 DEF ClaimedWorkload
    <2>5. QED
      BY <2>2, <2>3, <2>4
  <1>10. TypeOK'
    <2>1. part' \in [Partitions -> PartRows] /\ queue' \in [Partitions -> EntryRows]
      BY <1>1, <1>3, <1>4, <1>6, <1>7, <1>8, ZenonT(60) DEF WorkInv, TypeOK
    <2>2. workload' \in [Workloads -> WorkloadRows]
      BY <1>1, <1>9 DEF WorkInv, TypeOK
    <2>3. worker' \in [Workers -> [step : Steps, part : Partitions \cup {None},
                                   token : Tokens \cup {None}]]
      <3>1. CASE UNCHANGED worker
        BY <3>1 DEF WorkInv, TypeOK
      <3>2. ASSUME NEW p \in taken,
                   worker' = [worker EXCEPT ![k] = [step |-> "running", part |-> p,
                                                    token |-> part[p].attempt + 1]]
            PROVE  worker' \in [Workers -> [step : Steps, part : Partitions \cup {None},
                                            token : Tokens \cup {None}]]
        <4>1. p \in Partitions /\ part[p].attempt + 1 \in Tokens
          BY <1>2, <1>6
        <4>2. QED
          BY <3>2, <4>1 DEF WorkInv, TypeOK, Steps
      <3>3. QED
        BY <1>1, <3>1, <3>2
    <2>4. QED
      BY <2>1, <2>2, <2>3 DEF WorkInv, TypeOK, claim
  <1>11. QueueMirrors'
    BY <1>3, <1>4, <1>6, <1>7, <1>8 DEF WorkInv, QueueMirrors
  <1>12. HeadersFit'
    <2> SUFFICES ASSUME NEW w \in Workloads
                 PROVE  /\ workload'[w].state = "ABSENT" => \A p \in Of(w) : part'[p].state = "ABSENT"
                        /\ workload'[w].state = "READY" => \A p \in Of(w) : part'[p].state = "READY"
                        /\ workload'[w].state # "ABSENT" => \A p \in Of(w) : part'[p].state # "ABSENT"
                        /\ workload'[w].state = "ABSENT" => workload'[w].completed = 0
                        /\ workload'[w].state # "FAILED" => workload'[w].failed = 0
      BY DEF HeadersFit, Of
    <2>1. Of(w) \subseteq Partitions
      BY DEF Of
    <2>2. CASE workload'[w] = workload[w] /\ workload[w].state = "ABSENT"
      BY <1>2, <1>8, <2>1, <2>2 DEF WorkInv, HeadersFit
    <2>3. CASE workload'[w] = workload[w] /\ workload[w].state = "READY"
      BY <1>8, <1>9, <2>1, <2>3 DEF WorkInv, HeadersFit, Open
    <2>4. ASSUME workload[w].state # "ABSENT"
          PROVE  \A p \in Of(w) : part'[p].state # "ABSENT"
      BY <1>3, <1>6, <1>8, <2>1, <2>4 DEF WorkInv, HeadersFit
    <2>5. CASE workload'[w] = workload[w] /\ workload[w].state \notin {"ABSENT", "READY"}
      BY <2>4, <2>5 DEF WorkInv, HeadersFit
    <2>6. CASE Open(w) /\ workload'[w].state = "FAILED"
      BY <2>4, <2>6 DEF Open
    <2>7. CASE /\ workload[w].state = "READY" /\ workload'[w].state = "RUNNING"
               /\ workload'[w].failed = workload[w].failed
      BY <2>4, <2>7 DEF WorkInv, HeadersFit
    <2>8. QED
      BY <1>9, <2>2, <2>3, <2>5, <2>6, <2>7
  <1>13. LeasesFit'
    <2>1. \A p \in taken : part[p].attempt \in Nat
      BY <1>5, WorkPlaneAssumption DEF PartRows
    <2>2. QED
      BY <1>2, <1>3, <1>6, <1>8, <2>1 DEF WorkInv, LeasesFit
  <1>14. WorkersFit'
    <2>1. CASE UNCHANGED worker
      BY <2>1 DEF WorkInv, WorkersFit
    <2>2. ASSUME NEW p \in taken,
                 worker' = [worker EXCEPT ![k] = [step |-> "running", part |-> p,
                                                  token |-> part[p].attempt + 1]]
          PROVE  WorkersFit'
      <3>1. p \in Partitions /\ part[p].attempt + 1 \in Tokens
        BY <1>2, <1>6
      <3>2. QED
        BY <2>2, <3>1 DEF WorkInv, WorkersFit, TypeOK
    <2>3. QED
      BY <1>1, <2>1, <2>2
  <1>15. CountIsExact'
    <2> SUFFICES ASSUME NEW w \in Workloads, Open(w)'
                 PROVE  /\ (workload[w].completed = Cardinality(Done(w)))'
                        /\ (\A p \in Of(w) : part[p].state \notin {"FAILED", "CANCELLED"})'
      BY DEF CountIsExact
    <2>1. Open(w) /\ spent \cap Of(w) = {} /\ workload'[w].completed = workload[w].completed
      BY <1>9 DEF Open
    <2>2. Done(w)' = Done(w)
      BY <1>2, <1>6, <1>8, <2>1 DEF Done, Of
    <2>3. QED
      BY <1>6, <1>8, <2>1, <2>2 DEF WorkInv, CountIsExact, Of
  <1>16. CompleteIsWhole'
    <2> SUFFICES ASSUME NEW w \in Workloads, workload'[w].state = "COMPLETED"
                 PROVE  /\ workload'[w].root = {<<p, part'[p].result>> : p \in Of(w)}
                        /\ \A p \in Of(w) : part'[p].state = "COMPLETED" /\ part'[p].result # None
      BY DEF CompleteIsWhole, Of
    <2>1. workload'[w] = workload[w]
      BY <1>9
    <2>2. \A p \in Of(w) : part'[p] = part[p]
      BY <1>2, <1>8, <2>1 DEF WorkInv, CompleteIsWhole, Of
    <2>3. QED
      BY <2>1, <2>2 DEF WorkInv, CompleteIsWhole
  <1>17. ResultOfLastLease'
    BY <1>3, <1>6, <1>8 DEF WorkInv, ResultOfLastLease
  <1>18. CancelledStops'
    <2> SUFFICES ASSUME NEW w \in Workloads, workload'[w].state = "CANCELLED", NEW p \in Of(w)
                 PROVE  part'[p].state \in Ended
      BY <1>11 DEF CancelledStops, QueueMirrors, Of
    <2>1. workload'[w] = workload[w]
      BY <1>9
    <2>2. part[p].state \in Ended /\ p \in Partitions
      BY <2>1 DEF WorkInv, CancelledStops, Of
    <2>3. QED
      BY <1>2, <1>8, <2>2 DEF Ended
  <1>19. QED
    BY <1>10, <1>11, <1>12, <1>13, <1>14, <1>15, <1>16, <1>17, <1>18 DEF WorkInv

LEMMA RenewInv ==
  ASSUME WorkInv, NEW k \in Workers, worker[k].step # "idle", NEW step \in Steps,
         Holds(k), RenewLease(worker[k].part), Goto(k, step), UNCHANGED <<workload, faults>>
  PROVE  WorkInv'
  <1> DEFINE p == worker[k].part
  <1>1. p \in Partitions /\ part[p].state = "LEASED"
    BY DEF WorkInv, WorkersFit, Holds
  <1>2. /\ part'[p] \in PartRows /\ part'[p].state = part[p].state
        /\ part'[p].attempt = part[p].attempt /\ part'[p].token = part[p].token
        /\ ~part'[p].expired /\ part'[p].result = part[p].result
    <2>1. part'[p] = [part[p] EXCEPT !.expired = FALSE] /\ part[p] \in PartRows
      BY <1>1 DEF RenewLease, WorkInv, TypeOK
    <2>2. QED
      BY <2>1 DEF PartRows
  <1>3. /\ queue'[p] \in EntryRows /\ queue'[p].state = queue[p].state
        /\ queue'[p].token = queue[p].token /\ ~queue'[p].expired
    <2>1. queue'[p] = [queue[p] EXCEPT !.expired = FALSE] /\ queue[p] \in EntryRows
      BY <1>1 DEF RenewLease, WorkInv, TypeOK
    <2>2. QED
      BY <2>1 DEF EntryRows
  <1>4. \A q \in Partitions \ {p} : part'[q] = part[q] /\ queue'[q] = queue[q]
    BY DEF RenewLease, WorkInv, TypeOK
  <1> HIDE DEF p
  <1>5. \A q \in Partitions :
          part'[q].state = part[q].state /\ part'[q].result = part[q].result
            /\ part'[q].attempt = part[q].attempt /\ part'[q].token = part[q].token
    BY <1>2, <1>4
  <1>6. TypeOK'
    <2>1. part' \in [Partitions -> PartRows] /\ queue' \in [Partitions -> EntryRows]
      BY <1>2, <1>3, <1>4 DEF WorkInv, TypeOK, RenewLease
    <2>2. worker' \in [Workers -> [step : Steps, part : Partitions \cup {None},
                                   token : Tokens \cup {None}]]
      BY DEF Goto, WorkInv, TypeOK
    <2>3. QED
      BY <2>1, <2>2 DEF WorkInv, TypeOK
  <1>7. QueueMirrors'
    BY <1>2, <1>3, <1>4 DEF WorkInv, QueueMirrors
  <1>8. HeadersFit'
    BY <1>5 DEF WorkInv, HeadersFit, Of
  <1>9. LeasesFit'
    BY <1>1, <1>2, <1>4 DEF WorkInv, LeasesFit
  <1>10. WorkersFit'
    BY DEF WorkInv, WorkersFit, Goto, TypeOK
  <1>11. CountIsExact'
    <2>1. \A w : Done(w)' = Done(w)
      BY <1>5 DEF Done, Of
    <2>2. QED
      BY <1>5, <2>1 DEF WorkInv, CountIsExact, Open, Of
  <1>12. CompleteIsWhole' /\ ResultOfLastLease'
    <2>1. \A w : {<<q, part'[q].result>> : q \in Of(w)} = {<<q, part[q].result>> : q \in Of(w)}
      BY <1>5 DEF Of
    <2>2. QED
      BY <1>5, <2>1 DEF WorkInv, CompleteIsWhole, ResultOfLastLease, Of
  <1>13. CancelledStops'
    BY <1>5, <1>7 DEF WorkInv, CancelledStops, QueueMirrors, Of
  <1>14. QED
    BY <1>6, <1>7, <1>8, <1>9, <1>10, <1>11, <1>12, <1>13 DEF WorkInv

LEMMA ExpireInv ==
  ASSUME WorkInv, NEW p \in Partitions, Expire(p)
  PROVE  WorkInv'
  <1>1. /\ part'[p] \in PartRows /\ part'[p].state = part[p].state
        /\ part'[p].attempt = part[p].attempt /\ part'[p].token = part[p].token
        /\ part'[p].expired /\ part'[p].result = part[p].result
    <2>1. part'[p] = [part[p] EXCEPT !.expired = TRUE] /\ part[p] \in PartRows
      BY DEF Expire, WorkInv, TypeOK
    <2>2. QED
      BY <2>1 DEF PartRows
  <1>2. /\ queue'[p] \in EntryRows /\ queue'[p].state = queue[p].state
        /\ queue'[p].token = queue[p].token /\ queue'[p].expired
    <2>1. queue'[p] = [queue[p] EXCEPT !.expired = TRUE] /\ queue[p] \in EntryRows
      BY DEF Expire, WorkInv, TypeOK
    <2>2. QED
      BY <2>1 DEF EntryRows
  <1>3. \A q \in Partitions \ {p} : part'[q] = part[q] /\ queue'[q] = queue[q]
    BY DEF Expire, WorkInv, TypeOK
  <1>4. \A q \in Partitions :
          part'[q].state = part[q].state /\ part'[q].result = part[q].result
            /\ part'[q].attempt = part[q].attempt /\ part'[q].token = part[q].token
    BY <1>1, <1>3
  <1>5. TypeOK'
    <2>1. part' \in [Partitions -> PartRows] /\ queue' \in [Partitions -> EntryRows]
      BY <1>1, <1>2, <1>3 DEF WorkInv, TypeOK, Expire
    <2>2. QED
      BY <2>1 DEF WorkInv, TypeOK, Expire
  <1>6. QueueMirrors'
    BY <1>1, <1>2, <1>3 DEF WorkInv, QueueMirrors
  <1>7. HeadersFit' /\ WorkersFit'
    BY <1>4 DEF WorkInv, HeadersFit, WorkersFit, Of, Expire
  <1>8. LeasesFit'
    BY <1>1, <1>3 DEF WorkInv, LeasesFit, Expire
  <1>9. CountIsExact'
    <2>1. \A w : Done(w)' = Done(w)
      BY <1>4 DEF Done, Of
    <2>2. QED
      BY <1>4, <2>1 DEF WorkInv, CountIsExact, Open, Of, Expire
  <1>10. CompleteIsWhole' /\ ResultOfLastLease'
    <2>1. \A w : {<<q, part'[q].result>> : q \in Of(w)} = {<<q, part[q].result>> : q \in Of(w)}
      BY <1>4 DEF Of
    <2>2. QED
      BY <1>4, <2>1 DEF WorkInv, CompleteIsWhole, ResultOfLastLease, Of, Expire
  <1>11. CancelledStops'
    BY <1>4, <1>6 DEF WorkInv, CancelledStops, QueueMirrors, Of, Expire
  <1>12. QED
    BY <1>5, <1>6, <1>7, <1>8, <1>9, <1>10, <1>11 DEF WorkInv

\* A lease can only be held while the workload runs or has already failed.
LEMMA LeaseNeedsWorkload ==
  ASSUME WorkInv, NEW p \in Partitions, part[p].state = "LEASED"
  PROVE  Owner[p] \in Workloads /\ workload[Owner[p]].state \in {"RUNNING", "FAILED"}
  <1>1. Owner[p] \in Workloads /\ p \in Of(Owner[p])
    BY WorkPlaneAssumption DEF Of
  <1>2. workload[Owner[p]].state \in WorkloadStates
    BY <1>1 DEF WorkInv, TypeOK, WorkloadRows
  <1>3. workload[Owner[p]].state \notin {"ABSENT", "READY"}
    BY <1>1 DEF WorkInv, HeadersFit
  <1>4. workload[Owner[p]].state \notin {"COMPLETED", "CANCELLED"}
    BY <1>1 DEF WorkInv, CompleteIsWhole, CancelledStops, Ended
  <1>5. QED
    BY <1>1, <1>2, <1>3, <1>4 DEF WorkloadStates

LEMMA FinishInv ==
  ASSUME WorkInv, NEW k \in Workers, worker[k].step # "idle",
         NEW state \in {"COMPLETED", "FAILED"}, finish(k, state),
         \/ worker' = [worker EXCEPT ![k] = Idle]
         \/ \E step \in Steps : worker' = [worker EXCEPT ![k].step = step],
         faults' \in 0..MaxFaults
  PROVE  WorkInv'
  <1> DEFINE p == worker[k].part
             w == Owner[p]
             result == IF state = "COMPLETED" THEN worker[k].token ELSE None
  <1>1. /\ p \in Partitions /\ part[p].state = "LEASED"
        /\ worker[k].token = part[p].attempt /\ worker[k].token \in Tokens
        /\ part[p] \in PartRows /\ queue[p] \in EntryRows
    BY DEF WorkInv, TypeOK, WorkersFit, LeasesFit, finish, Holds
  <1>2. w \in Workloads /\ workload[w].state \in {"RUNNING", "FAILED"}
    BY <1>1, LeaseNeedsWorkload
  <1>3. /\ part'[p] \in PartRows /\ part'[p].state = state /\ part'[p].token = None
        /\ ~part'[p].expired /\ part'[p].attempt = part[p].attempt
        /\ part'[p].result = result
    <2>1. /\ Closed(part[p], state) \in PartRows /\ Closed(part[p], state).state = state
          /\ Closed(part[p], state).token = None /\ ~Closed(part[p], state).expired
          /\ Closed(part[p], state).attempt = part[p].attempt
      BY <1>1, ClosedPart DEF RowStates
    <2>2. part'[p] = [Closed(part[p], state) EXCEPT !.result = result]
      BY <1>1 DEF finish, ClosePart, WorkInv, TypeOK
    <2>3. result \in Tokens \cup {None}
      BY <1>1
    <2> HIDE DEF result
    <2>4. QED
      BY <2>1, <2>2, <2>3 DEF PartRows
  <1>4. /\ queue'[p] \in EntryRows /\ queue'[p].state = state
        /\ queue'[p].token = None /\ ~queue'[p].expired
    <2>1. queue'[p] = Closed(queue[p], state)
      BY <1>1 DEF finish, CloseEntry, WorkInv, TypeOK
    <2>2. QED
      BY <1>1, <2>1, ClosedEntry DEF RowStates
  <1>5. \A q \in Partitions \ {p} : part'[q] = part[q] /\ queue'[q] = queue[q]
    BY DEF finish, ClosePart, CloseEntry, WorkInv, TypeOK
  <1>6. \A v \in Workloads \ {w} : workload'[v] = workload[v]
    BY DEF finish, Count, WorkInv, TypeOK
  <1>7. \/ workload[w].state = "FAILED" /\ workload'[w] = workload[w]
        \/ /\ workload[w].state = "RUNNING" /\ state = "COMPLETED"
           /\ workload'[w] = [workload[w] EXCEPT !.completed = workload[w].completed + 1]
        \/ /\ workload[w].state = "RUNNING"
           /\ workload'[w] = [workload[w] EXCEPT !.state = "FAILED", !.failed = workload[w].failed + 1]
    <2>1. workload'[w] = Counted(workload[w], state)
      BY <1>2 DEF finish, Count, WorkInv, TypeOK
    <2> HIDE DEF w
    <2>2. CASE workload[w].state = "FAILED"
      BY <2>1, <2>2 DEF Counted
    <2>3. CASE workload[w].state = "RUNNING" /\ state = "COMPLETED"
      BY <2>1, <2>3 DEF Counted
    <2>4. CASE workload[w].state = "RUNNING" /\ state = "FAILED"
      BY <2>1, <2>4 DEF Counted
    <2>5. QED
      BY <1>2, <2>2, <2>3, <2>4
  <1>8. workload[w] \in WorkloadRows
    BY <1>2, SMTT(40) DEF WorkInv, TypeOK
  <1>9. \/ /\ workload'[w] \in WorkloadRows /\ workload'[w].state = "FAILED"
        \/ /\ workload'[w] \in WorkloadRows /\ workload'[w].state = "RUNNING"
           /\ workload[w].state = "RUNNING" /\ state = "COMPLETED"
           /\ workload'[w].completed = workload[w].completed + 1
           /\ workload'[w].failed = workload[w].failed
    <2>1. CASE workload[w].state = "FAILED" /\ workload'[w] = workload[w]
      BY <1>8, <2>1, SMTT(40)
    <2>2. CASE /\ workload[w].state = "RUNNING" /\ state = "COMPLETED"
               /\ workload'[w] = [workload[w] EXCEPT !.completed = workload[w].completed + 1]
      BY <1>8, <2>2 DEF WorkloadRows
    <2>3. CASE /\ workload[w].state = "RUNNING"
               /\ workload'[w] = [workload[w] EXCEPT !.state = "FAILED", !.failed = workload[w].failed + 1]
      <3>1. workload[w].failed = 0
        BY <1>2, <2>3 DEF WorkInv, HeadersFit
      <3>2. QED
        BY <1>8, <2>3, <3>1, FailedWorkload
    <2>4. QED
      BY <1>7, <2>1, <2>2, <2>3
  <1>10. TypeOK'
    <2>1. part' \in [Partitions -> PartRows] /\ queue' \in [Partitions -> EntryRows]
      BY <1>3, <1>4, <1>5 DEF finish, ClosePart, CloseEntry, WorkInv, TypeOK
    <2>2. workload' \in [Workloads -> WorkloadRows]
      BY <1>6, <1>9 DEF finish, Count, WorkInv, TypeOK
    <2>3. Idle \in [step : Steps, part : Partitions \cup {None}, token : Tokens \cup {None}]
      BY DEF Idle, Steps
    <2>4. worker' \in [Workers -> [step : Steps, part : Partitions \cup {None},
                                   token : Tokens \cup {None}]]
      <3>1. CASE worker' = [worker EXCEPT ![k] = Idle]
        BY <2>3, <3>1 DEF WorkInv, TypeOK
      <3>2. ASSUME NEW step \in Steps, worker' = [worker EXCEPT ![k].step = step]
            PROVE  worker' \in [Workers -> [step : Steps, part : Partitions \cup {None},
                                            token : Tokens \cup {None}]]
        BY <3>2 DEF WorkInv, TypeOK
      <3>3. QED
        BY <3>1, <3>2
    <2>5. QED
      BY <2>1, <2>2, <2>4 DEF TypeOK
  <1>11. WorkersFit'
    BY DEF WorkInv, WorkersFit, TypeOK, Idle
  <1>12. QueueMirrors'
    BY <1>3, <1>4, <1>5 DEF WorkInv, QueueMirrors
  <1>13. p \in Of(w) /\ \A v \in Workloads \ {w} : \A q \in Of(v) : part'[q] = part[q]
    BY <1>1, <1>5 DEF Of
  <1> HIDE DEF p, w, result
  <1>14. HeadersFit'
    <2>1. \A q \in Of(w) : part'[q].state # "ABSENT"
      BY <1>2, <1>3, <1>5 DEF WorkInv, HeadersFit, Of
    <2>2. \A v : Of(v)' = Of(v)
      BY DEF Of
    <2>3. QED
      BY <1>2, <1>6, <1>9, <1>13, <2>1, <2>2 DEF WorkInv, HeadersFit
  <1>15. LeasesFit'
    BY <1>1, <1>3, <1>5, WorkPlaneAssumption DEF WorkInv, LeasesFit, result, Tokens
  <1>16. CountIsExact'
    <2> SUFFICES ASSUME NEW v \in Workloads, Open(v)'
                 PROVE  /\ (workload[v].completed = Cardinality(Done(v)))'
                        /\ (\A q \in Of(v) : part[q].state \notin {"FAILED", "CANCELLED"})'
      BY DEF CountIsExact
    <2>1. CASE v # w
      <3>1. Done(v)' = Done(v)
        BY <1>13, <2>1 DEF Done, Of
      <3>2. QED
        BY <1>6, <1>13, <2>1, <3>1 DEF WorkInv, CountIsExact, Open, Of
    <2>2. CASE v = w
      <3>1. /\ workload[v].state = "RUNNING" /\ state = "COMPLETED"
            /\ workload'[v].completed = workload[v].completed + 1
        BY <1>9, <2>2 DEF Open
      <3>2. \A q \in Of(v) : part'[q].state = "COMPLETED" <=> q = p \/ part[q].state = "COMPLETED"
        BY <1>3, <1>5, <3>1 DEF Of
      <3>3. {q \in Of(v) : part'[q].state = "COMPLETED"} = Done(v) \cup {p} /\ p \notin Done(v)
        BY <1>1, <1>13, <2>2, <3>2 DEF Done
      <3>4. Done(v)' = {q \in Of(v) : part'[q].state = "COMPLETED"}
        BY DEF Done, Of
      <3>5. Cardinality(Done(v)') = Cardinality(Done(v)) + 1
        BY <3>3, <3>4, DoneIsFinite, FS_AddElement
      <3>6. /\ workload[v].completed = Cardinality(Done(v))
            /\ \A q \in Of(v) : part[q].state \notin {"FAILED", "CANCELLED"}
        BY <3>1 DEF WorkInv, CountIsExact, Open
      <3>7. \A q \in Of(v) : part'[q].state \notin {"FAILED", "CANCELLED"}
        BY <1>3, <1>5, <3>1, <3>6 DEF Of
      <3>8. QED
        BY <3>1, <3>5, <3>6, <3>7 DEF Of
    <2>3. QED
      BY <2>1, <2>2
  <1>17. CompleteIsWhole'
    <2> SUFFICES ASSUME NEW v \in Workloads, workload'[v].state = "COMPLETED"
                 PROVE  /\ workload'[v].root = {<<q, part'[q].result>> : q \in Of(v)}
                        /\ \A q \in Of(v) : part'[q].state = "COMPLETED" /\ part'[q].result # None
      BY DEF CompleteIsWhole, Of
    <2>1. v # w /\ workload'[v] = workload[v]
      BY <1>6, <1>9
    <2>2. QED
      BY <1>13, <2>1 DEF WorkInv, CompleteIsWhole
  <1>18. ResultOfLastLease'
    BY <1>1, <1>3, <1>5 DEF WorkInv, ResultOfLastLease, result
  <1>19. CancelledStops'
    <2> SUFFICES ASSUME NEW v \in Workloads, workload'[v].state = "CANCELLED", NEW q \in Of(v)
                 PROVE  part'[q].state \in Ended
      BY <1>12 DEF CancelledStops, QueueMirrors, Of
    <2>1. v # w /\ workload'[v] = workload[v]
      BY <1>6, <1>9
    <2>2. QED
      BY <1>13, <2>1 DEF WorkInv, CancelledStops
  <1>20. QED
    BY <1>10, <1>11, <1>12, <1>14, <1>15, <1>16, <1>17, <1>18, <1>19 DEF WorkInv

LEMMA FinalizeInv ==
  ASSUME WorkInv, NEW k \in Workers, finalize_if_complete(k)
  PROVE  WorkInv'
  <1> DEFINE w == Owner[worker[k].part]
             ready == /\ workload[w].state = "RUNNING"
                      /\ workload[w].failed = 0
                      /\ workload[w].completed = Cardinality(Of(w))
             root == {<<p, part[p].result>> : p \in Of(w)}
  <1>1. /\ worker' = [worker EXCEPT ![k] = Idle] /\ UNCHANGED <<part, queue, faults>>
        /\ worker[k].part \in Partitions
    BY DEF finalize_if_complete, WorkInv, WorkersFit
  <1>2. w \in Workloads
    BY <1>1, WorkPlaneAssumption
  <1>3. CASE ~ready
    <2>1. workload' = workload
      BY <1>3 DEF finalize_if_complete
    <2>2. faults' \in 0..MaxFaults
      BY <1>1 DEF WorkInv, TypeOK
    <2>3. QED
      BY <1>1, <2>1, <2>2, WorkerMoves
  <1>4. CASE ready
    <2>1. workload' = [workload EXCEPT ![w] = [workload[w] EXCEPT !.state = "COMPLETED", !.root = root]]
      BY <1>4 DEF finalize_if_complete
    <2>2. Done(w) = Of(w)
      <3>1. workload[w].completed = Cardinality(Done(w))
        BY <1>2, <1>4 DEF WorkInv, CountIsExact, Open
      <3>2. QED
        BY <1>4, <3>1, OfIsFinite, DoneIsFinite, FS_Subset
    <2>3. \A p \in Of(w) : p \in Partitions /\ part[p].state = "COMPLETED" /\ part[p].result # None
      BY <2>2 DEF Done, Of, WorkInv, LeasesFit
    <2>4. root \in SUBSET (Partitions \X (Tokens \cup {None}))
      BY <2>3 DEF WorkInv, TypeOK, PartRows
    <2>5. workload[w] \in WorkloadRows /\ "COMPLETED" \in WorkloadStates
      BY <1>2 DEF WorkInv, TypeOK, WorkloadStates
    <2> HIDE DEF root, w
    <2>6. /\ workload'[w] \in WorkloadRows /\ workload'[w].state = "COMPLETED"
          /\ workload'[w].failed = workload[w].failed /\ workload'[w].root = root
      <3>1. workload'[w] = [workload[w] EXCEPT !.state = "COMPLETED", !.root = root]
        BY <1>2, <2>1 DEF WorkInv, TypeOK
      <3>2. QED
        BY <2>4, <2>5, <3>1 DEF WorkloadRows
    <2>7. \A v \in Workloads \ {w} : workload'[v] = workload[v]
      BY <2>1 DEF WorkInv, TypeOK
    <2>8. Idle \in [step : Steps, part : Partitions \cup {None}, token : Tokens \cup {None}]
      BY DEF Idle, Steps
    <2>9. TypeOK'
      <3>1. workload' \in [Workloads -> WorkloadRows]
        BY <2>1, <2>6, <2>7 DEF WorkInv, TypeOK
      <3>2. QED
        BY <1>1, <2>8, <3>1 DEF WorkInv, TypeOK
    <2>10. QueueMirrors' /\ LeasesFit' /\ ResultOfLastLease'
      BY <1>1 DEF WorkInv, QueueMirrors, LeasesFit, ResultOfLastLease
    <2>11. WorkersFit'
      BY <1>1 DEF WorkInv, WorkersFit, TypeOK, Idle
    <2>12. HeadersFit'
      <3>1. \A v : Of(v)' = Of(v)
        BY DEF Of
      <3>2. workload'[w].failed = 0
        BY <1>4, <2>6 DEF w
      <3>3. QED
        BY <1>1, <2>3, <2>6, <2>7, <3>1, <3>2 DEF WorkInv, HeadersFit
    <2>13. CountIsExact'
      <3> SUFFICES ASSUME NEW v \in Workloads, Open(v)'
                   PROVE  /\ (workload[v].completed = Cardinality(Done(v)))'
                          /\ (\A p \in Of(v) : part[p].state \notin {"FAILED", "CANCELLED"})'
        BY DEF CountIsExact
      <3>1. workload'[v] = workload[v] /\ Open(v)
        BY <2>6, <2>7 DEF Open
      <3>2. Done(v)' = Done(v)
        BY <1>1 DEF Done, Of
      <3>3. QED
        BY <1>1, <3>1, <3>2 DEF WorkInv, CountIsExact, Of
    <2>14. CompleteIsWhole'
      <3> SUFFICES ASSUME NEW v \in Workloads, workload'[v].state = "COMPLETED"
                   PROVE  /\ workload'[v].root = {<<p, part[p].result>> : p \in Of(v)}
                          /\ \A p \in Of(v) : part[p].state = "COMPLETED" /\ part[p].result # None
        BY <1>1 DEF CompleteIsWhole, Of
      <3>1. CASE v = w
        BY <2>3, <2>6, <3>1 DEF root
      <3>2. CASE v # w
        BY <2>7, <3>2 DEF WorkInv, CompleteIsWhole
      <3>3. QED
        BY <3>1, <3>2
    <2>15. CancelledStops'
      <3> SUFFICES ASSUME NEW v \in Workloads, workload'[v].state = "CANCELLED", NEW p \in Of(v)
                   PROVE  part[p].state \in Ended /\ queue[p].state \in Ended
        BY <1>1 DEF CancelledStops, Of
      <3>1. workload'[v] = workload[v]
        BY <2>6, <2>7
      <3>2. QED
        BY <3>1 DEF WorkInv, CancelledStops
    <2>16. QED
      BY <2>9, <2>10, <2>11, <2>12, <2>13, <2>14, <2>15 DEF WorkInv
  <1>5. QED
    BY <1>3, <1>4

\* A step of the protocol keeps the invariant.
LEMMA WorkStep == WorkInv /\ [Next]_vars => WorkInv'
  <1> SUFFICES ASSUME WorkInv, [Next]_vars PROVE WorkInv'
    OBVIOUS
  <1>1. faults \in 0..MaxFaults /\ (faults < MaxFaults => faults + 1 \in 0..MaxFaults)
    BY WorkPlaneAssumption DEF WorkInv, TypeOK
  <1>2. ASSUME NEW w \in Workloads, create_qualification(w) \/ cancel(w) PROVE WorkInv'
    BY <1>2, CreateInv, CancelInv
  <1>3. ASSUME NEW k \in Workers, NEW next \in Steps, worker[k].step # "idle", checkpoint(k, next)
        PROVE  WorkInv'
    <2>1. CASE Holds(k) /\ RenewLease(worker[k].part) /\ Goto(k, next)
      BY <1>3, <2>1, RenewInv DEF checkpoint
    <2>2. CASE Goto(k, "failing") /\ UNCHANGED <<part, queue>>
      <3>1. "failing" \in Steps
        BY DEF Steps
      <3>2. worker' = [worker EXCEPT ![k].step = "failing"]
        BY <2>2 DEF Goto
      <3>3. QED
        BY <1>1, <1>3, <2>2, <3>1, <3>2, WorkerMoves DEF checkpoint
    <2>3. QED
      BY <1>3, <2>1, <2>2 DEF checkpoint
  <1>4. ASSUME NEW k \in Workers, heartbeat(k) \/ checkpoint_result(k) PROVE WorkInv'
    BY <1>3, <1>4 DEF heartbeat, checkpoint_result, Steps
  <1>5. ASSUME NEW k \in Workers, canonical_lineset(k) PROVE WorkInv'
    BY <1>1, <1>5, WorkerMoves DEF canonical_lineset, Goto, Steps
  <1>6. ASSUME NEW k \in Workers, complete(k) PROVE WorkInv'
    <2>1. CASE finish(k, "COMPLETED") /\ Goto(k, "finalizing")
      BY <1>1, <1>6, <2>1, FinishInv DEF complete, Goto, Steps
    <2>2. CASE Goto(k, "failing") /\ UNCHANGED <<workload, part, queue>>
      BY <1>1, <1>6, <2>2, WorkerMoves DEF complete, Goto, Steps
    <2>3. QED
      BY <1>6, <2>1, <2>2 DEF complete
  <1>7. ASSUME NEW k \in Workers, fail(k) PROVE WorkInv'
    <2>1. CASE finish(k, "FAILED")
      BY <1>1, <1>7, <2>1, FinishInv DEF fail
    <2>2. CASE UNCHANGED <<workload, part, queue>>
      BY <1>1, <1>7, <2>2, WorkerMoves DEF fail
    <2>3. QED
      BY <1>7, <2>1, <2>2 DEF fail
  <1>8. ASSUME NEW k \in Workers, Crash(k) \/ DatabaseError(k) PROVE WorkInv'
    BY <1>1, <1>8, WorkerMoves DEF Crash, DatabaseError, Goto, Steps
  <1>9. ASSUME NEW k \in Workers, LostAnswer(k) PROVE WorkInv'
    BY <1>1, <1>9, FinishInv DEF LostAnswer, Goto, Steps
  <1>10. CASE UNCHANGED vars
    <2>1. TypeOK' /\ QueueMirrors'
      BY <1>10 DEF vars, WorkInv, TypeOK, QueueMirrors
    <2>2. HeadersFit' /\ LeasesFit' /\ WorkersFit'
      BY <1>10 DEF vars, WorkInv, HeadersFit, LeasesFit, WorkersFit, Of
    <2>3. CountIsExact' /\ CompleteIsWhole' /\ ResultOfLastLease' /\ CancelledStops'
      BY <1>10 DEF vars, WorkInv, CountIsExact, CompleteIsWhole, ResultOfLastLease,
                   CancelledStops, Open, Done, Of
    <2>4. QED
      BY <2>1, <2>2, <2>3 DEF WorkInv
  <1>11. QED
    BY <1>2, <1>4, <1>5, <1>6, <1>7, <1>8, <1>9, <1>10, ClaimInv, FinalizeInv, ExpireInv
    DEF Next, Work

\* The inductive invariant of the work plane: queue and partitions agree, the
\* counters of open workloads are exact and leases belong to the last attempt.
THEOREM WorkInvariant == Spec => []WorkInv
  BY WorkInit, WorkStep, PTL DEF Spec

\* A complete workload's root is made of one result per partition.
THEOREM CompleteWorkIsWhole == Spec => []CompleteIsWhole
  <1>1. WorkInv => CompleteIsWhole
    BY DEF WorkInv
  <1>2. QED
    BY <1>1, WorkInvariant, PTL

\* Only the last lease of a partition leaves its result.
THEOREM LastLeaseReports == Spec => []ResultOfLastLease
  <1>1. WorkInv => ResultOfLastLease
    BY DEF WorkInv
  <1>2. QED
    BY <1>1, WorkInvariant, PTL

\* Cancellation leaves nothing to claim or to report.
THEOREM CancellationStops == Spec => []CancelledStops
  <1>1. WorkInv => CancelledStops
    BY DEF WorkInv
  <1>2. QED
    BY <1>1, WorkInvariant, PTL

-----------------------------------------------------------------------------
(* No transaction is one the row triggers would refuse. *)

LegalStep ==
  /\ \A w \in Workloads : LegalWorkload(workload[w], workload'[w])
  /\ \A p \in Partitions : LegalPart(part[p], part'[p])

LEMMA CreateLegal ==
  ASSUME WorkInv, NEW w \in Workloads, create_qualification(w)
  PROVE  LegalStep
  <1>1. ASSUME NEW v \in Workloads PROVE LegalWorkload(workload[v], workload'[v])
    <2>1. CASE v = w
      <3>1. workload'[w] = [workload[w] EXCEPT !.state = "READY"] /\ workload[w] \in WorkloadRows
        BY DEF create_qualification, WorkInv, TypeOK
      <3>2. workload'[w].state = "READY" /\ workload[w].state = "ABSENT"
        BY <3>1 DEF create_qualification, WorkloadRows
      <3>3. QED
        BY <2>1, <3>2 DEF LegalWorkload
    <2>2. CASE v # w
      BY <2>2 DEF LegalWorkload, create_qualification, WorkInv, TypeOK
    <2>3. QED
      BY <2>1, <2>2
  <1>2. ASSUME NEW p \in Partitions PROVE LegalPart(part[p], part'[p])
    <2>1. CASE Owner[p] = w
      <3>1. part'[p] = [part[p] EXCEPT !.state = "READY"] /\ part[p] \in PartRows
        BY <2>1 DEF create_qualification, WorkInv, TypeOK
      <3>2. part'[p].state = "READY"
        BY <3>1 DEF PartRows
      <3>3. part[p].state = "ABSENT"
        BY <2>1 DEF create_qualification, WorkInv, HeadersFit, Of
      <3>4. QED
        BY <3>2, <3>3 DEF LegalPart
    <2>2. CASE Owner[p] # w
      BY <2>2 DEF LegalPart, create_qualification
    <2>3. QED
      BY <2>1, <2>2
  <1>3. QED
    BY <1>1, <1>2 DEF LegalStep

LEMMA CancelLegal ==
  ASSUME WorkInv, NEW w \in Workloads, cancel(w)
  PROVE  LegalStep
  <1>1. ASSUME NEW v \in Workloads PROVE LegalWorkload(workload[v], workload'[v])
    <2>1. CASE v = w
      <3>1. workload'[w] = [workload[w] EXCEPT !.state = "CANCELLED"] /\ workload[w] \in WorkloadRows
        BY DEF cancel, WorkInv, TypeOK
      <3>2. workload'[w].state = "CANCELLED" /\ Open(w)
        BY <3>1 DEF cancel, WorkloadRows
      <3>3. QED
        BY <2>1, <3>2 DEF LegalWorkload, Open
    <2>2. CASE v # w
      BY <2>2 DEF LegalWorkload, cancel, WorkInv, TypeOK
    <2>3. QED
      BY <2>1, <2>2
  <1>2. ASSUME NEW p \in Partitions PROVE LegalPart(part[p], part'[p])
    <2>1. CASE Owner[p] = w /\ part[p].state \in {"READY", "LEASED"}
      <3>1. part'[p] = Closed(part[p], "CANCELLED") /\ part[p] \in PartRows
        BY <2>1 DEF cancel, Of, WorkInv, TypeOK
      <3>2. part'[p].state = "CANCELLED"
        BY <3>1, ClosedPart DEF RowStates
      <3>3. QED
        BY <2>1, <3>2 DEF LegalPart, Ended
    <2>2. CASE ~(Owner[p] = w /\ part[p].state \in {"READY", "LEASED"})
      BY <2>2 DEF LegalPart, cancel, Of
    <2>3. QED
      BY <2>1, <2>2
  <1>3. QED
    BY <1>1, <1>2 DEF LegalStep

LEMMA ClaimLegal ==
  ASSUME WorkInv, NEW k \in Workers, claim(k)
  PROVE  LegalStep
  <1>1. PICK spent \in SUBSET {q \in Partitions : Claimable(q) /\ Exhausted(q)},
             taken \in SUBSET {q \in Partitions : Claimable(q) /\ ~Exhausted(q)} :
          /\ part' = [p \in Partitions |-> ClaimedPart(p, spent, taken)]
          /\ workload' = [w \in Workloads |-> ClaimedWorkload(w, spent, taken)]
    BY DEF claim
  <1>2. ASSUME NEW w \in Workloads PROVE LegalWorkload(workload[w], workload'[w])
    <2>1. workload'[w] = ClaimedWorkload(w, spent, taken) /\ workload[w] \in WorkloadRows
      BY <1>1 DEF WorkInv, TypeOK
    <2>2. CASE Open(w) /\ spent \cap Of(w) # {}
      <3>1. workload'[w] = [workload[w] EXCEPT !.state = "FAILED", !.failed = @ + 1]
        BY <2>1, <2>2 DEF ClaimedWorkload
      <3>2. workload'[w].state = "FAILED"
        BY <2>1, <3>1 DEF WorkloadRows
      <3>3. QED
        BY <2>2, <3>2 DEF LegalWorkload, Open
    <2>3. CASE ~(Open(w) /\ spent \cap Of(w) # {}) /\ workload[w].state = "READY"
                 /\ taken \cap Of(w) # {}
      <3>1. workload'[w] = [workload[w] EXCEPT !.state = "RUNNING"]
        BY <2>1, <2>3 DEF ClaimedWorkload
      <3>2. workload'[w].state = "RUNNING"
        BY <2>1, <3>1, MovedWorkload DEF WorkloadStates
      <3>3. QED
        BY <2>3, <3>2 DEF LegalWorkload
    <2>4. CASE ~(Open(w) /\ spent \cap Of(w) # {})
                 /\ ~(workload[w].state = "READY" /\ taken \cap Of(w) # {})
      BY <2>1, <2>4 DEF ClaimedWorkload, LegalWorkload
    <2>5. QED
      BY <2>2, <2>3, <2>4
  <1>3. ASSUME NEW p \in Partitions PROVE LegalPart(part[p], part'[p])
    <2>1. part'[p] = ClaimedPart(p, spent, taken) /\ part[p] \in PartRows
      BY <1>1 DEF WorkInv, TypeOK
    <2>2. p \in spent \cup taken =>
            part[p].state = "READY" \/ (part[p].state = "LEASED" /\ part[p].expired)
      BY DEF Claimable, WorkInv, QueueMirrors
    <2>3. CASE p \in spent
      <3>1. part'[p] = Closed(part[p], "FAILED")
        BY <2>1, <2>3 DEF ClaimedPart
      <3>2. part'[p].state = "FAILED"
        BY <2>1, <3>1, ClosedPart DEF RowStates
      <3>3. QED
        BY <2>2, <2>3, <3>2 DEF LegalPart, Ended
    <2>4. CASE p \in taken /\ p \notin spent
      <3>1. part'[p] = [part[p] EXCEPT !.state = "LEASED", !.attempt = part[p].attempt + 1,
                                       !.token = part[p].attempt + 1, !.expired = FALSE]
        BY <2>1, <2>4 DEF ClaimedPart
      <3>2. /\ part'[p].state = "LEASED" /\ part'[p].attempt = part[p].attempt + 1
            /\ part'[p].token = part[p].attempt + 1
        BY <2>1, <3>1 DEF PartRows
      <3>3. part[p].attempt \in Nat
        BY <2>1, WorkPlaneAssumption DEF PartRows
      <3>4. part[p].state = "LEASED" => part'[p].token # part[p].token
        BY <3>2, <3>3 DEF WorkInv, LeasesFit
      <3>5. QED
        BY <2>2, <2>4, <3>2, <3>4 DEF LegalPart, LegalLease
    <2>5. CASE p \notin spent \cup taken
      BY <2>1, <2>5 DEF ClaimedPart, LegalPart
    <2>6. QED
      BY <2>3, <2>4, <2>5
  <1>4. QED
    BY <1>2, <1>3 DEF LegalStep

LEMMA LeaseLegal ==
  ASSUME WorkInv, NEW p \in Partitions, part[p].state = "LEASED", NEW expired \in BOOLEAN,
         part' = [part EXCEPT ![p].expired = expired], UNCHANGED workload
  PROVE  LegalStep
  <1>1. part'[p] = [part[p] EXCEPT !.expired = expired] /\ part[p] \in PartRows
    BY DEF WorkInv, TypeOK
  <1>2. /\ part'[p].state = part[p].state /\ part'[p].token = part[p].token
        /\ part'[p].attempt = part[p].attempt
    BY <1>1 DEF PartRows
  <1>3. LegalPart(part[p], part'[p])
    BY <1>2 DEF LegalPart, LegalLease
  <1>4. \A q \in Partitions \ {p} : part'[q] = part[q]
    BY DEF WorkInv, TypeOK
  <1>5. QED
    BY <1>3, <1>4 DEF LegalStep, LegalPart, LegalWorkload

LEMMA FinishLegal ==
  ASSUME WorkInv, NEW k \in Workers, worker[k].step # "idle",
         NEW state \in {"COMPLETED", "FAILED"}, finish(k, state)
  PROVE  LegalStep
  <1> DEFINE p == worker[k].part
             w == Owner[p]
  <1>1. p \in Partitions /\ part[p].state = "LEASED" /\ part[p] \in PartRows
    BY DEF WorkInv, TypeOK, WorkersFit, finish, Holds
  <1>2. w \in Workloads /\ workload[w].state \in {"RUNNING", "FAILED"} /\ workload[w] \in WorkloadRows
    BY <1>1, LeaseNeedsWorkload DEF WorkInv, TypeOK
  <1>3. part'[p].state = state
    <2>1. PICK result :
            part'[p] = [Closed(part[p], state) EXCEPT !.result = result]
      BY <1>1 DEF finish, ClosePart, WorkInv, TypeOK
    <2>2. Closed(part[p], state) \in PartRows /\ Closed(part[p], state).state = state
      BY <1>1, ClosedPart DEF RowStates
    <2>3. QED
      BY <2>1, <2>2 DEF PartRows
  <1>4. \A q \in Partitions \ {p} : part'[q] = part[q]
    BY DEF finish, ClosePart, WorkInv, TypeOK
  <1>5. \A v \in Workloads \ {w} : workload'[v] = workload[v]
    BY DEF finish, Count, WorkInv, TypeOK
  <1>6. workload'[w] = Counted(workload[w], state)
    BY <1>2 DEF finish, Count, WorkInv, TypeOK
  <1> HIDE DEF p, w
  <1>7. LegalWorkload(workload[w], workload'[w])
    <2>1. CASE workload[w].state = "FAILED"
      BY <1>6, <2>1 DEF Counted, LegalWorkload
    <2>2. CASE workload[w].state = "RUNNING"
      <3>1. Counted(workload[w], state).state \in {"RUNNING", "FAILED"}
        BY <1>2, <2>2 DEF Counted, WorkloadRows
      <3>2. QED
        BY <1>6, <2>2, <3>1 DEF LegalWorkload
    <2>3. QED
      BY <1>2, <2>1, <2>2
  <1>8. LegalPart(part[p], part'[p])
    BY <1>1, <1>3, SMTT(40) DEF LegalPart, Ended
  <1>9. QED
    BY <1>4, <1>5, <1>7, <1>8 DEF LegalStep, LegalPart, LegalWorkload

LEMMA FinalizeLegal ==
  ASSUME WorkInv, NEW k \in Workers, finalize_if_complete(k)
  PROVE  LegalStep
  <1> DEFINE w == Owner[worker[k].part]
  <1>1. ASSUME NEW v \in Workloads PROVE LegalWorkload(workload[v], workload'[v])
    <2>1. CASE workload'[v] = workload[v]
      BY <2>1 DEF LegalWorkload
    <2>2. CASE workload'[v] # workload[v]
      <3>1. PICK root : workload' = [workload EXCEPT ![w].state = "COMPLETED", ![w].root = root]
        BY <2>2 DEF finalize_if_complete
      <3>2. v = w /\ workload[v] \in WorkloadRows
        BY <2>2, <3>1 DEF WorkInv, TypeOK
      <3>3. workload'[v].state = "COMPLETED"
        BY <3>1, <3>2, SMTT(40) DEF WorkInv, TypeOK, WorkloadRows
      <3>4. workload[v].state = "RUNNING"
        BY <2>2, <3>2 DEF finalize_if_complete
      <3>5. QED
        BY <3>3, <3>4, SMTT(40) DEF LegalWorkload
    <2>3. QED
      BY <2>1, <2>2
  <1>2. QED
    BY <1>1 DEF LegalStep, LegalPart, finalize_if_complete

LEMMA NextIsLegal == WorkInv /\ Next => LegalStep
  <1> SUFFICES ASSUME WorkInv, Next PROVE LegalStep
    OBVIOUS
  <1>1. CASE UNCHANGED <<workload, part>>
    BY <1>1 DEF LegalStep, LegalWorkload, LegalPart
  <1>2. ASSUME NEW w \in Workloads, create_qualification(w) \/ cancel(w) PROVE LegalStep
    BY <1>2, CreateLegal, CancelLegal
  <1>3. ASSUME NEW k \in Workers, worker[k].step # "idle", NEW next, checkpoint(k, next)
        PROVE  LegalStep
    <2>1. CASE Holds(k) /\ RenewLease(worker[k].part)
      BY <1>3, <2>1, LeaseLegal DEF checkpoint, RenewLease, Holds, WorkInv, WorkersFit
    <2>2. CASE UNCHANGED <<part, queue>>
      BY <1>1, <1>3, <2>2 DEF checkpoint
    <2>3. QED
      BY <1>3, <2>1, <2>2 DEF checkpoint
  <1>4. ASSUME NEW k \in Workers, heartbeat(k) \/ checkpoint_result(k) PROVE LegalStep
    BY <1>3, <1>4 DEF heartbeat, checkpoint_result
  <1>5. ASSUME NEW k \in Workers, complete(k) \/ fail(k) \/ LostAnswer(k) PROVE LegalStep
    BY <1>1, <1>5, FinishLegal DEF complete, fail, LostAnswer
  <1>6. ASSUME NEW k \in Workers, canonical_lineset(k) \/ Crash(k) \/ DatabaseError(k)
        PROVE  LegalStep
    BY <1>1, <1>6 DEF canonical_lineset, Crash, DatabaseError
  <1>7. ASSUME NEW p \in Partitions, Expire(p) PROVE LegalStep
    BY <1>7, LeaseLegal DEF Expire
  <1>8. QED
    BY <1>2, <1>4, <1>5, <1>6, <1>7, ClaimLegal, FinalizeLegal DEF Next, Work

\* Whatever claims, takeovers, reports, failures and cancellations write is let
\* through by the two row triggers: a renewal that is not later is the only
\* write of the work plane they abort.
THEOREM TriggersRefuseRenewalsOnly == Spec => OnlyRenewalsRefused
  <1>1. WorkInv /\ [Next]_vars =>
          [/\ \A w \in Workloads : LegalWorkload(workload[w], workload'[w])
           /\ \A p \in Partitions : LegalPart(part[p], part'[p])]_vars
    BY NextIsLegal DEF LegalStep
  <1>2. QED
    BY <1>1, WorkInvariant, PTL DEF Spec, OnlyRenewalsRefused
=============================================================================
