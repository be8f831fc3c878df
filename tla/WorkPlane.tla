----------------------------- MODULE WorkPlane ------------------------------
(***************************************************************************)
(* The CPU work plane: a workload is a row with its counters, a row per    *)
(* partition and a mirror of each of those in a claim queue, all in        *)
(* PostgreSQL; worker processes claim partitions under a lease, renew it   *)
(* while a kernel runs, and report.  One action per transaction of         *)
(* CpuWorkRepository and per step of a worker between two of them.         *)
(*                                                                         *)
(* A lease token is a fresh UUID per claim; here it is the attempt number  *)
(* the claim writes, which tells the claims of one partition apart.  Clock *)
(* readings are abstracted to whether the stored expiry lies in the past.  *)
(* A worker's clock may trail the database's, so a renewal of a live lease *)
(* may be refused by the trigger that demands a later expiry.              *)
(*                                                                         *)
(* The function claim_cpu_partition of migration 0006 raises whenever it   *)
(* finds a row: the names of its result columns are variables too, and its *)
(* updates use them unqualified (42702, ambiguous).  AmbiguousClaim = TRUE *)
(* is that function.  FALSE is the function with the columns qualified, as *)
(* those of migrations 0003 and 0007 are; it adds behaviours and takes     *)
(* none away, so what no behaviour of it violates no behaviour of the      *)
(* function as it is violates.                                             *)
(***************************************************************************)
EXTENDS Integers, FiniteSets

CONSTANTS
    Workloads,
    Workers,
    Total,          \* the queue holds partitions 1..Total in claim order
    Owner,          \* the workload of each partition
    MaxAttempts,    \* cpu_workload.maximum_attempts
    AmbiguousClaim, \* whether claim_cpu_partition is the one of migration 0006
    MaxFaults,      \* crashes and database errors a behaviour may have
    None

Partitions == 1..Total

ASSUME WorkPlaneAssumption ==
    /\ Total \in Nat
    /\ Owner \in [Partitions -> Workloads]
    /\ MaxAttempts \in Nat \ {0}
    /\ AmbiguousClaim \in BOOLEAN
    /\ MaxFaults \in Nat
    /\ None \notin Nat
    /\ IsFiniteSet(Workers)

VARIABLES
    workload,   \* cpu_workload: state, completed and failed partitions, root
    part,       \* cpu_work_partition: state, attempt, lease, result
    queue,      \* cpu_work_queue: state and lease
    worker,     \* what each worker process is doing, for which lease
    faults

vars == <<workload, part, queue, worker, faults>>

WorkloadStates == {"ABSENT", "READY", "RUNNING", "COMPLETED", "FAILED", "CANCELLED"}
RowStates == {"ABSENT", "READY", "LEASED", "COMPLETED", "FAILED", "CANCELLED"}
Steps == {"idle", "running", "computed", "reporting", "finalizing", "failing"}
Ended == {"COMPLETED", "FAILED", "CANCELLED"}

Of(w) == {p \in Partitions : Owner[p] = w}
Tokens == 1..MaxAttempts

NoRoot == {}
AbsentWorkload == [state |-> "ABSENT", completed |-> 0, failed |-> 0, root |-> NoRoot]
AbsentPart == [state |-> "ABSENT", attempt |-> 0, token |-> None, expired |-> FALSE, result |-> None]
AbsentEntry == [state |-> "ABSENT", token |-> None, expired |-> FALSE]
Idle == [step |-> "idle", part |-> None, token |-> None]

Init ==
    /\ workload = [w \in Workloads |-> AbsentWorkload]
    /\ part = [p \in Partitions |-> AbsentPart]
    /\ queue = [p \in Partitions |-> AbsentEntry]
    /\ worker = [k \in Workers |-> Idle]
    /\ faults = 0

-----------------------------------------------------------------------------
(* The repository *)

\* A repeated request finds its idempotency key and changes nothing.
create_qualification(w) ==
    /\ workload[w].state = "ABSENT"
    /\ Of(w) # {}
    /\ workload' = [workload EXCEPT ![w].state = "READY"]
    /\ part' = [p \in Partitions |->
                  IF Owner[p] = w THEN [part[p] EXCEPT !.state = "READY"] ELSE part[p]]
    /\ queue' = [p \in Partitions |->
                   IF Owner[p] = w THEN [queue[p] EXCEPT !.state = "READY"] ELSE queue[p]]
    /\ UNCHANGED <<worker, faults>>

\* A row that ends gives up its lease.
Closed(row, state) == [row EXCEPT !.state = state, !.token = None, !.expired = FALSE]

Open(w) == workload[w].state \in {"READY", "RUNNING"}

\* Mutant: the workload is cancelled and its partitions are left in the queue.
CancelHeaderOnly(w) ==
    /\ Open(w)
    /\ workload' = [workload EXCEPT ![w].state = "CANCELLED"]
    /\ UNCHANGED <<part, queue, worker, faults>>

cancel(w) ==
    LET rest == {p \in Of(w) : part[p].state \in {"READY", "LEASED"}}
        waiting == {p \in Of(w) : queue[p].state \in {"READY", "LEASED"}}
    IN /\ Open(w)
       /\ workload' = [workload EXCEPT ![w].state = "CANCELLED"]
       /\ part' = [p \in Partitions |-> IF p \in rest THEN Closed(part[p], "CANCELLED") ELSE part[p]]
       /\ queue' = [p \in Partitions |-> IF p \in waiting THEN Closed(queue[p], "CANCELLED") ELSE queue[p]]
       /\ UNCHANGED <<worker, faults>>

\* Mutant: a lease is taken over without waiting for its expiry.
ClaimableWhileLeased(p) == queue[p].state \in {"READY", "LEASED"}

Claimable(p) == queue[p].state = "READY" \/ (queue[p].state = "LEASED" /\ queue[p].expired)
Exhausted(p) == part[p].attempt >= MaxAttempts

\* What a claim does to the rows: the exhausted rows it met are failed, then
\* the first other row, if it met one, is leased.
ClaimedPart(p, spent, taken) ==
    IF p \in spent THEN Closed(part[p], "FAILED")
    ELSE IF p \in taken
         THEN [part[p] EXCEPT !.state = "LEASED", !.attempt = @ + 1,
                              !.token = part[p].attempt + 1, !.expired = FALSE]
         ELSE part[p]

ClaimedEntry(p, spent, taken) ==
    IF p \in spent THEN Closed(queue[p], "FAILED")
    ELSE IF p \in taken
         THEN [state |-> "LEASED", token |-> part[p].attempt + 1, expired |-> FALSE]
         ELSE queue[p]

ClaimedWorkload(w, spent, taken) ==
    IF Open(w) /\ spent \cap Of(w) # {}
    THEN [workload[w] EXCEPT !.state = "FAILED", !.failed = @ + 1]
    ELSE IF workload[w].state = "READY" /\ taken \cap Of(w) # {}
         THEN [workload[w] EXCEPT !.state = "RUNNING"]
         ELSE workload[w]

\* One transaction, which loops over the queue in order and skips the rows
\* other transactions have locked: any claimable rows may be the ones it meets.
\* A claim that meets no row, or that raises at the first one and is rolled
\* back, changes nothing.
claim(k) ==
    /\ ~AmbiguousClaim
    /\ worker[k].step = "idle"
    /\ \E spent \in SUBSET {q \in Partitions : Claimable(q) /\ Exhausted(q)},
          taken \in SUBSET {q \in Partitions : Claimable(q) /\ ~Exhausted(q)} :
         /\ spent \cup taken # {}
         /\ \A p, q \in taken : p = q
         /\ \A p \in spent, q \in taken : p < q
         /\ part' = [p \in Partitions |-> ClaimedPart(p, spent, taken)]
         /\ queue' = [p \in Partitions |-> ClaimedEntry(p, spent, taken)]
         /\ workload' = [w \in Workloads |-> ClaimedWorkload(w, spent, taken)]
         /\ \/ taken = {} /\ UNCHANGED worker
            \/ \E p \in taken :
                 worker' = [worker EXCEPT ![k] = [step |-> "running", part |-> p,
                                                  token |-> part[p].attempt + 1]]
    /\ UNCHANGED faults

Holds(k) ==
    LET p == worker[k].part
    IN part[p].state = "LEASED" /\ part[p].token = worker[k].token

\* The heartbeat and the checkpoint of the result: a renewed lease is not
\* expired, whether or not it was; without the lease, or with an expiry no
\* later than the stored one, the transaction is refused.
RenewLease(p) ==
    /\ part' = [part EXCEPT ![p].expired = FALSE]
    /\ queue' = [queue EXCEPT ![p].expired = FALSE]

Goto(k, step) == worker' = [worker EXCEPT ![k].step = step]

checkpoint(k, next) ==
    /\ \/ Holds(k) /\ RenewLease(worker[k].part) /\ Goto(k, next)
       \/ Goto(k, "failing") /\ UNCHANGED <<part, queue>>
    /\ UNCHANGED <<workload, faults>>

\* What finish_cpu_partition writes: the partition, its queue entry and, while
\* the workload runs, its counters.
ClosePart(k, state) ==
    part' = [part EXCEPT ![worker[k].part] =
               [Closed(@, state) EXCEPT
                  !.result = IF state = "COMPLETED" THEN worker[k].token ELSE None]]

CloseEntry(k, state) == queue' = [queue EXCEPT ![worker[k].part] = Closed(@, state)]

Counted(row, state) ==
    IF row.state # "RUNNING" THEN row
    ELSE IF state = "COMPLETED" THEN [row EXCEPT !.completed = row.completed + 1]
    ELSE [row EXCEPT !.state = "FAILED", !.failed = row.failed + 1]

Count(k, state) ==
    workload' = [workload EXCEPT ![Owner[worker[k].part]] = Counted(@, state)]

\* Mutant: the report is taken from any worker while the row is leased.
FinishAnyToken(k, state) ==
    /\ part[worker[k].part].state = "LEASED"
    /\ ClosePart(k, state) /\ CloseEntry(k, state) /\ Count(k, state)

\* Mutant: the queue row is not closed with the partition.
FinishPartitionOnly(k, state) ==
    /\ Holds(k)
    /\ ClosePart(k, state) /\ Count(k, state)
    /\ UNCHANGED queue

finish(k, state) ==
    /\ Holds(k)
    /\ ClosePart(k, state) /\ CloseEntry(k, state) /\ Count(k, state)

-----------------------------------------------------------------------------
(* The worker process *)

heartbeat(k) == worker[k].step = "running" /\ checkpoint(k, "running")

\* The kernel ends; it, the fetch of the source and the budget may all fail.
canonical_lineset(k) ==
    /\ worker[k].step = "running"
    /\ Goto(k, "computed") \/ Goto(k, "failing")
    /\ UNCHANGED <<workload, part, queue, faults>>

checkpoint_result(k) == worker[k].step = "computed" /\ checkpoint(k, "reporting")

\* The first of the two transactions that report a result.
complete(k) ==
    /\ worker[k].step = "reporting"
    /\ \/ finish(k, "COMPLETED") /\ Goto(k, "finalizing")
       \/ ~Holds(k) /\ Goto(k, "failing") /\ UNCHANGED <<workload, part, queue>>
    /\ UNCHANGED faults

\* Mutant: the workload is finished without counting its partitions.
FinalizeAnyCount(k) ==
    LET w == Owner[worker[k].part]
        ready == workload[w].state = "RUNNING" /\ workload[w].failed = 0
    IN /\ worker[k].step = "finalizing"
       /\ workload' = IF ready
                      THEN [workload EXCEPT ![w].state = "COMPLETED",
                                            ![w].root = {<<p, part[p].result>> : p \in Of(w)}]
                      ELSE workload
       /\ worker' = [worker EXCEPT ![k] = Idle]
       /\ UNCHANGED <<part, queue, faults>>

\* The second: only the process that has just reported calls it.
finalize_if_complete(k) ==
    LET w == Owner[worker[k].part]
        ready == /\ workload[w].state = "RUNNING"
                 /\ workload[w].failed = 0
                 /\ workload[w].completed = Cardinality(Of(w))
    IN /\ worker[k].step = "finalizing"
       /\ workload' = IF ready
                      THEN [workload EXCEPT ![w].state = "COMPLETED",
                                            ![w].root = {<<p, part[p].result>> : p \in Of(w)}]
                      ELSE workload
       /\ worker' = [worker EXCEPT ![k] = Idle]
       /\ UNCHANGED <<part, queue, faults>>

\* Any error fails the partition; the worker ignores whether that worked.
fail(k) ==
    /\ worker[k].step = "failing"
    /\ \/ finish(k, "FAILED")
       \/ ~Holds(k) /\ UNCHANGED <<workload, part, queue>>
    /\ worker' = [worker EXCEPT ![k] = Idle]
    /\ UNCHANGED faults

\* A process dies and is restarted, at any point between two transactions.
Crash(k) ==
    /\ faults < MaxFaults
    /\ worker[k] # Idle
    /\ worker' = [worker EXCEPT ![k] = Idle]
    /\ faults' = faults + 1
    /\ UNCHANGED <<workload, part, queue>>

\* A transaction is aborted (a deadlock with a claim or a cancellation, a lost
\* connection): the error takes the worker to fail, or out of it.
DatabaseError(k) ==
    /\ faults < MaxFaults
    /\ \/ worker[k].step \in {"running", "computed", "reporting", "finalizing"} /\ Goto(k, "failing")
       \/ worker[k].step = "failing" /\ worker' = [worker EXCEPT ![k] = Idle]
    /\ faults' = faults + 1
    /\ UNCHANGED <<workload, part, queue>>

\* The report is committed and the connection lost before the answer.
LostAnswer(k) ==
    /\ faults < MaxFaults
    /\ worker[k].step = "reporting"
    /\ finish(k, "COMPLETED")
    /\ Goto(k, "failing")
    /\ faults' = faults + 1

\* The database clock passes the expiry of a lease.
Expire(p) ==
    /\ part[p].state = "LEASED" /\ ~part[p].expired
    /\ part' = [part EXCEPT ![p].expired = TRUE]
    /\ queue' = [queue EXCEPT ![p].expired = TRUE]
    /\ UNCHANGED <<workload, worker, faults>>

Work(k) ==
    \/ canonical_lineset(k) \/ checkpoint_result(k)
    \/ complete(k) \/ finalize_if_complete(k) \/ fail(k)

Next ==
    \/ \E w \in Workloads : create_qualification(w) \/ cancel(w)
    \/ \E k \in Workers :
         claim(k) \/ heartbeat(k) \/ Work(k) \/ Crash(k) \/ DatabaseError(k) \/ LostAnswer(k)
    \/ \E p \in Partitions : Expire(p)

Spec == Init /\ [][Next]_vars

\* The worker's loop claims again and again, a kernel on bounded input ends,
\* a report is made once the kernel has ended, and time passes.
Fairness ==
    /\ \A k \in Workers : WF_vars(claim(k)) /\ WF_vars(Work(k))
    /\ \A p \in Partitions : WF_vars(Expire(p))

FairSpec == Spec /\ Fairness

-----------------------------------------------------------------------------
(* Properties *)

WorkloadRows ==
    [state : WorkloadStates, completed : Nat, failed : 0..1,
     root : SUBSET (Partitions \X (Tokens \cup {None}))]
PartRows ==
    [state : RowStates, attempt : 0..MaxAttempts, token : Tokens \cup {None},
     expired : BOOLEAN, result : Tokens \cup {None}]
EntryRows == [state : RowStates, token : Tokens \cup {None}, expired : BOOLEAN]

TypeOK ==
    /\ workload \in [Workloads -> WorkloadRows]
    /\ part \in [Partitions -> PartRows]
    /\ queue \in [Partitions -> EntryRows]
    /\ worker \in [Workers -> [step : Steps, part : Partitions \cup {None},
                               token : Tokens \cup {None}]]
    /\ faults \in 0..MaxFaults

\* The claim queue says of every partition what the partition's own row says:
\* state, lease and expiry.  claim trusts the first and the triggers judge the
\* second, so a difference would make every later claim of the row fail.
QueueMirrors ==
    \A p \in Partitions :
      /\ queue[p].state = part[p].state
      /\ queue[p].token = part[p].token
      /\ queue[p].expired <=> part[p].expired

\* "The workload becomes complete only after every contiguous partition result
\* is present": a complete workload's root lists one result for every one of
\* its partitions, the one that partition's row holds, and no row of it can be
\* claimed, failed or rewritten any more.
CompleteIsWhole ==
    \A w \in Workloads : workload[w].state = "COMPLETED" =>
      /\ workload[w].root = {<<p, part[p].result>> : p \in Of(w)}
      /\ \A p \in Of(w) : part[p].state = "COMPLETED" /\ part[p].result # None

Done(w) == {p \in Of(w) : part[p].state = "COMPLETED"}

\* While a workload is open its counter is exactly the number of its completed
\* partitions, whatever was retried, reported late or repeated.
CountIsExact ==
    \A w \in Workloads : Open(w) =>
      /\ workload[w].completed = Cardinality(Done(w))
      /\ \A p \in Of(w) : part[p].state \notin {"FAILED", "CANCELLED"}

\* "Completion is committed only by the current lease token": the result a
\* partition keeps is the one of the last lease it was given, never that of a
\* worker that lost it.
ResultOfLastLease ==
    \A p \in Partitions : part[p].state = "COMPLETED" => part[p].result = part[p].attempt

\* A cancelled workload has no partition a worker could still claim or report,
\* although claim never looks at the workload's state.
CancelledStops ==
    \A w \in Workloads : workload[w].state = "CANCELLED" =>
      \A p \in Of(w) : part[p].state \in Ended /\ queue[p].state \in Ended

\* What the two transition triggers let through; a step outside would abort the
\* transaction that tries it.
LegalWorkload(old, new) ==
    \/ old = new
    \/ old.state = "ABSENT" /\ new.state = "READY"
    \/ old.state = "READY" /\ new.state \in {"READY", "RUNNING", "FAILED", "CANCELLED"}
    \/ old.state = "RUNNING" /\ new.state \in {"RUNNING", "COMPLETED", "FAILED", "CANCELLED"}

\* A renewal must also write a later expiry, which rows without clock readings
\* cannot show: checkpoint lets every renewal be refused for it.
LegalLease(old, new) ==
    \/ new.token = old.token /\ new.attempt = old.attempt
    \/ old.expired /\ new.token # old.token /\ new.attempt = old.attempt + 1

LegalPart(old, new) ==
    \/ old = new
    \/ old.state = "ABSENT" /\ new.state = "READY"
    \/ old.state = "READY" /\ new.state = "LEASED" /\ new.attempt = old.attempt + 1
    \/ old.state = "READY" /\ new.state \in {"FAILED", "CANCELLED"}
    \/ old.state = "LEASED" /\ new.state = "LEASED" /\ LegalLease(old, new)
    \/ old.state = "LEASED" /\ new.state \in Ended

\* No claim, takeover, report, failure or cancellation, in any order, writes a
\* row its transition trigger refuses, although each decides on the other
\* table, or on what it read in an earlier transaction.  Only a renewal can be
\* refused, for an expiry that is not later; of its other conditions (same
\* token, same attempt) the property says that they hold.
OnlyRenewalsRefused ==
    [][/\ \A w \in Workloads : LegalWorkload(workload[w], workload'[w])
       /\ \A p \in Partitions : LegalPart(part[p], part'[p])]_vars

\* What ties the rows together between transactions, whatever was interrupted.
\* Nothing of an absent workload exists, and nothing of a READY one has been
\* claimed.
HeadersFit ==
    \A w \in Workloads :
      /\ workload[w].state = "ABSENT" => \A p \in Of(w) : part[p].state = "ABSENT"
      /\ workload[w].state = "READY" => \A p \in Of(w) : part[p].state = "READY"
      /\ workload[w].state # "ABSENT" => \A p \in Of(w) : part[p].state # "ABSENT"
      /\ workload[w].state = "ABSENT" => workload[w].completed = 0
      /\ workload[w].state # "FAILED" => workload[w].failed = 0

\* A lease is held by the latest attempt alone.
LeasesFit ==
    \A p \in Partitions :
      /\ part[p].state = "LEASED" => part[p].attempt >= 1 /\ part[p].token = part[p].attempt
      /\ part[p].state # "LEASED" => part[p].token = None /\ ~part[p].expired
      /\ part[p].state \in {"ABSENT", "READY"} => part[p].attempt = 0
      /\ part[p].state = "COMPLETED" <=> part[p].result # None

\* A busy worker has a partition and a token.
WorkersFit ==
    \A k \in Workers : worker[k].step # "idle" =>
      worker[k].part \in Partitions /\ worker[k].token \in Tokens

\* The inductive invariant behind the theorems on the work plane.
WorkInv ==
    /\ TypeOK
    /\ QueueMirrors
    /\ HeadersFit
    /\ LeasesFit
    /\ WorkersFit
    /\ CountIsExact
    /\ CompleteIsWhole
    /\ ResultOfLastLease
    /\ CancelledStops

\* "Workers use FOR UPDATE SKIP LOCKED through a narrow security-definer
\* function": a queued partition is leased, unless its workload is cancelled.
WorkIsLeased ==
    \A p \in Partitions : part[p].state = "READY" ~> part[p].state # "READY"
=============================================================================
