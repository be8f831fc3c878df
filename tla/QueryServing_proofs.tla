------------------------ MODULE QueryServing_proofs -------------------------
(* Whole, fresh and single-flight answers, for any number of snapshots and  *)
(* requests and any bound on faults.                                        *)
EXTENDS QueryServing, SnapshotLineage_proofs, FiniteSetTheorems

Evaluating == {"lock", "execute", "hydrate", "physAuth", "physLoad", "physical", "store"}

Steps == {"new", "authorize", "semantic", "semAuth", "semLoad", "resolve", "respond",
          "failing", "ended"} \cup Evaluating

RequestRecords ==
  [pc : Steps, hydrate : BOOLEAN, wanted : Snapshots \cup {None}, retired : SUBSET Snapshots,
   graphs : Snapshots \cup {None}, sem : Snapshots \cup {None}, phys : Snapshots \cup {None},
   flight : Flights \cup {None}, certified : BOOLEAN, answer : Answers \cup {None}]

Tasks == [flight : Flights, key : Keys]

\* The answer of a request is of the snapshot the request is bound to.
Fits(rec, a) ==
  /\ a \in Answers
  /\ a.snapshot = rec.sem
  /\ a.hydrated \in {None, rec.sem}
  /\ a.hydrate = rec.hydrate
  /\ rec.certified => a.graphs = rec.sem

\* What a request has read so far, while now is active and srv were served: a
\* snapshot that was not replaced before the request began, the graphs it is
\* allowed, and nothing else once its evaluation has begun.
Reads(rec, now, srv) ==
  /\ rec \in RequestRecords
  /\ rec.retired \subseteq srv /\ now \notin rec.retired
  /\ {rec.graphs, rec.sem, rec.phys} \subseteq srv \cup {None}
  /\ rec.sem \notin rec.retired

Bound(rec) ==
  /\ rec.pc \in {"semantic", "semAuth", "semLoad", "resolve"} \cup Evaluating => rec.graphs # None
  /\ rec.pc \in {"semAuth", "semLoad", "resolve", "respond"} \cup Evaluating => rec.sem # None
  /\ rec.pc \in {"physAuth", "physLoad", "physical"} => rec.phys # None
  /\ rec.pc \in Evaluating \cup {"respond"} => rec.wanted \in {None, rec.sem}
  /\ rec.pc = "lock" => rec.certified
  /\ rec.certified => rec.pc \in Evaluating \cup {"respond"}
  /\ rec.certified /\ rec.pc # "respond" => rec.graphs = rec.sem
  /\ rec.flight # None <=> rec.certified /\ rec.pc \in Evaluating
  /\ IF rec.pc \in {"store", "respond"} THEN Fits(rec, rec.answer) ELSE rec.answer = None

\* A cached answer is of the snapshot of its key.
CacheRow(k, a) ==
  /\ a \in Answers
  /\ a.snapshot = k[1] /\ a.graphs = k[1]
  /\ a.hydrated \in {None, k[1]}
  /\ a.hydrate = k[2]

RequestsStand ==
  /\ request \in [Requests -> RequestRecords]
  /\ \A r \in Requests : Reads(request[r], Now, served) /\ Bound(request[r])

\* Whoever has a lease has it on the mutex the registry holds for its key, and
\* one mutex is held by one request.
FlightsStand ==
  /\ \A r \in Requests : HasLease(r) => registry[Key(r)] = request[r].flight
  /\ \A q, r \in Requests :
       q # r /\ Locked(q) /\ Locked(r) => request[q].flight # request[r].flight

CachesStand ==
  /\ {semantic, physical} \subseteq served \cup {None}
  /\ results \in [Keys -> Answers \cup {None}]
  /\ \A k \in Keys : results[k] # None => CacheRow(k, results[k])

TasksStand ==
  /\ registry \in [Keys -> Flights \cup {None}]
  /\ cleanup \in [Requests -> Tasks \cup {None}]
  /\ log \in [Requests -> {"ABSENT", "RUNNING", "COMPLETED", "FAILED"}]

ServingInv ==
  TypeOK /\ Chain /\ RequestsStand /\ FlightsStand /\ CachesStand /\ TasksStand

LEMMA DatasetExists == Dataset \in Datasets
  <1>1. Datasets # {}
    BY FS_EmptySet, ServingAssumption
  <1>2. QED
    BY <1>1 DEF Dataset

LEMMA KeysFinite == IsFiniteSet(Keys) /\ Cardinality(Keys) \in Nat
  <1>1. IsFiniteSet(BOOLEAN)
    <2>1. IsFiniteSet({TRUE}) /\ IsFiniteSet({TRUE} \cup {FALSE})
      BY FS_Singleton, FS_AddElement
    <2>2. BOOLEAN = {TRUE} \cup {FALSE}
      OBVIOUS
    <2>3. QED
      BY <2>1, <2>2
  <1>2. QED
    BY <1>1, FS_Product, FS_CardinalityType, ServingAssumption DEF Keys

\* The image of a finite set is no larger than the set.
LEMMA ImageIsSmall ==
  ASSUME NEW S, IsFiniteSet(S), NEW T, NEW f \in [S -> T]
  PROVE  LET image == {f[x] : x \in S}
         IN  IsFiniteSet(image) /\ Cardinality(image) <= Cardinality(S)
  <1> DEFINE image == {f[x] : x \in S}
  <1>1. f \in Surjection(S, image)
    BY DEF Surjection
  <1> HIDE DEF image
  <1>2. IsFiniteSet(image) /\ Cardinality(image) <= Cardinality(S)
    BY <1>1, FS_Surjection
  <1>3. QED
    BY <1>2 DEF image

\* Arc::new always finds a mutex nobody refers to.
LEMMA UnusedExists ==
  ASSUME ServingInv
  PROVE  Unused \in Flights
  <1> DEFINE Flight == [r \in Requests |-> request[r].flight]
             Task == [r \in Requests |-> IF cleanup[r] = None THEN None ELSE cleanup[r].flight]
             A == {registry[k] : k \in Keys}
             B == {Flight[r] : r \in Requests}
             C == {Task[r] : r \in Requests}
             a == Cardinality(Keys)
             b == Cardinality(Requests)
  <1>1. IsFiniteSet(A) /\ Cardinality(A) <= a
    BY KeysFinite, ImageIsSmall DEF ServingInv, TasksStand
  <1>2. IsFiniteSet(B) /\ Cardinality(B) <= b
    <2>1. Flight \in [Requests -> Flights \cup {None}]
      BY DEF ServingInv, RequestsStand, RequestRecords
    <2> HIDE DEF Flight
    <2>2. QED
      BY <2>1, ImageIsSmall, ServingAssumption
  <1>3. IsFiniteSet(C) /\ Cardinality(C) <= b
    <2>1. Task \in [Requests -> Flights \cup {None}]
      BY DEF ServingInv, TasksStand, Tasks
    <2> HIDE DEF Task
    <2>2. QED
      BY <2>1, ImageIsSmall, ServingAssumption
  <1>4. \A f \in Flights : InUse(f) => f \in (A \cup B) \cup C
    BY DEF InUse
  <1>5. a \in Nat /\ b \in Nat
    BY KeysFinite, FS_CardinalityType, ServingAssumption
  <1> HIDE DEF A, B, C, a, b
  <1>6. IsFiniteSet(A \cup B) /\ Cardinality(A \cup B) <= a + b
    <2>1. Cardinality(A \cap B) \in Nat /\ Cardinality(A) \in Nat /\ Cardinality(B) \in Nat
      BY <1>1, <1>2, FS_CardinalityType, FS_Intersection
    <2>2. Cardinality(A \cup B) = Cardinality(A) + Cardinality(B) - Cardinality(A \cap B)
          /\ IsFiniteSet(A \cup B)
      BY <1>1, <1>2, FS_Union
    <2>3. QED
      BY <1>1, <1>2, <1>5, <2>1, <2>2
  <1>7. IsFiniteSet((A \cup B) \cup C) /\ Cardinality((A \cup B) \cup C) <= a + 2 * b
    <2>1. /\ Cardinality((A \cup B) \cap C) \in Nat /\ Cardinality(A \cup B) \in Nat
          /\ Cardinality(C) \in Nat
      BY <1>3, <1>6, FS_CardinalityType, FS_Intersection
    <2>2. Cardinality((A \cup B) \cup C) =
            Cardinality(A \cup B) + Cardinality(C) - Cardinality((A \cup B) \cap C)
          /\ IsFiniteSet((A \cup B) \cup C)
      BY <1>3, <1>6, FS_Union
    <2>3. QED
      BY <1>3, <1>5, <1>6, <2>1, <2>2
  <1>8. Flights = 1 .. (a + 2 * b + 1)
    BY DEF Flights, a, b
  <1>9. Cardinality(Flights) = a + 2 * b + 1
    BY <1>5, <1>8, FS_Interval
  <1>10. \E f \in Flights : ~InUse(f)
    <2> SUFFICES ASSUME \A f \in Flights : InUse(f)
                 PROVE  FALSE
      OBVIOUS
    <2>1. Flights \in SUBSET ((A \cup B) \cup C)
      BY <1>4
    <2>2. Cardinality(Flights) <= Cardinality((A \cup B) \cup C)
      BY <1>7, <2>1, FS_Subset
    <2>3. Cardinality((A \cup B) \cup C) \in Nat
      BY <1>7, FS_CardinalityType
    <2>4. QED
      BY <1>5, <1>7, <1>9, <2>2, <2>3
  <1>11. QED
    BY <1>10 DEF Unused

\* A request that has read nothing stands on nothing.
Fresh(rec) ==
  /\ rec \in RequestRecords
  /\ rec.pc \in {"new", "authorize", "failing", "ended"}
  /\ rec.retired = {} /\ ~rec.certified
  /\ rec.graphs = None /\ rec.sem = None /\ rec.phys = None
  /\ rec.flight = None /\ rec.answer = None

LEMMA FreshStands ==
  ASSUME NEW now, NEW srv, NEW rec, Fresh(rec)
  PROVE  Reads(rec, now, srv) /\ Bound(rec)
  BY DEF Fresh, Reads, Bound, Evaluating

LEMMA NewIsFresh ==
  /\ Fresh(New)
  /\ \A pc \in {"failing", "ended"} : Fresh(Over(pc))
  <1>1. Fresh(New)
    BY DEF New, Fresh, RequestRecords, Steps
  <1>2. ASSUME NEW pc \in {"failing", "ended"}
        PROVE  Fresh(Over(pc))
    <2>1. Over(pc) \in RequestRecords
      BY <1>1 DEF Over, Fresh, RequestRecords, Steps
    <2>2. QED
      BY <2>1 DEF Over, New, Fresh
  <1>3. QED
    BY <1>1, <1>2

LEMMA ServingInitInv == ServingInit => ServingInv
  <1> SUFFICES ASSUME ServingInit PROVE ServingInv
    OBVIOUS
  <1>1. TypeOK /\ Chain
    BY DEF ServingInit, TypeOK, Chain, ParentsServed, NoFork, ActiveIsLast
  <1>2. RequestsStand
    <2>1. Reads(New, None, {}) /\ Bound(New)
      BY NewIsFresh, FreshStands
    <2>2. Now = None /\ served = {}
      BY DatasetExists DEF ServingInit, Now
    <2>3. QED
      BY <2>1, <2>2 DEF ServingInit, RequestsStand, Reads
  <1>3. FlightsStand
    BY DEF ServingInit, FlightsStand, HasLease, Locked, New
  <1>4. CachesStand /\ TasksStand
    BY DEF ServingInit, CachesStand, TasksStand
  <1>5. QED
    BY <1>1, <1>2, <1>3, <1>4 DEF ServingInv

\* The effect of Update when the registry stays: the new record stands, and
\* its lease, if it has one, is the one it had before.
KeepsLease(old, rec) ==
  \/ rec.flight = None
  \/ /\ rec.flight = old.flight /\ rec.sem = old.sem /\ rec.hydrate = old.hydrate
     /\ rec.pc # "lock" => old.pc # "lock"

LEMMA UpdateStep ==
  ASSUME ServingInv, NEW r \in Requests, NEW rec, Update(r, rec), UNCHANGED <<lineage, registry>>,
         Reads(rec, Now, served), Bound(rec), KeepsLease(request[r], rec)
  PROVE  /\ RequestsStand' /\ FlightsStand'
         /\ cleanup' \in [Requests -> Tasks \cup {None}]
  <1>1. request' = [request EXCEPT ![r] = rec] /\ request \in [Requests -> RequestRecords]
    BY DEF Update, ServingInv, RequestsStand
  <1>2. rec \in RequestRecords /\ Now' = Now /\ served' = served
    BY DEF Reads, lineage, Now
  <1>3. RequestsStand'
    BY <1>1, <1>2 DEF RequestsStand, ServingInv
  <1>4. \A q \in Requests \ {r} : request'[q] = request[q]
    BY <1>1
  <1>5. request'[r] = rec
    BY <1>1
  <1>6. FlightsStand'
    <2>1. \A q \in Requests : HasLease(q)' => /\ HasLease(q)
                                              /\ Key(q)' = Key(q)
                                              /\ request'[q].flight = request[q].flight
                                              /\ Locked(q)' => Locked(q)
      BY <1>4, <1>5 DEF HasLease, Locked, Key, KeepsLease
    <2>2. \A q \in Requests : Locked(q)' => HasLease(q)'
      BY DEF Locked
    <2>3. QED
      BY <2>1, <2>2 DEF FlightsStand, ServingInv
  <1>7. cleanup' \in [Requests -> Tasks \cup {None}]
    <2>1. cleanup \in [Requests -> Tasks \cup {None}]
      BY DEF ServingInv, TasksStand
    <2>2. CASE HasLease(r)
      <3>1. request[r] \in RequestRecords /\ request[r].pc \in Evaluating
        BY <1>1, <2>2 DEF HasLease, ServingInv, RequestsStand, Bound
      <3>2. Key(r) \in Keys
        BY <3>1 DEF Key, Keys, ServingInv, RequestsStand, Bound, RequestRecords
      <3>3. [flight |-> request[r].flight, key |-> Key(r)] \in Tasks
        BY <2>2, <3>1, <3>2 DEF HasLease, Tasks, RequestRecords
      <3>4. QED
        BY <2>1, <3>3 DEF Update
    <2>3. CASE ~HasLease(r)
      BY <2>1, <2>3 DEF Update
    <2>4. QED
      BY <2>2, <2>3
  <1>8. QED
    BY <1>3, <1>6, <1>7

LEMMA RequestStep ==
  ASSUME ServingInv, NEW r \in Requests, NEW rec, Update(r, rec), UNCHANGED <<lineage, registry>>,
         Reads(rec, Now, served), Bound(rec), KeepsLease(request[r], rec),
         CachesStand', log' \in [Requests -> {"ABSENT", "RUNNING", "COMPLETED", "FAILED"}]
  PROVE  ServingInv'
  <1>1. /\ RequestsStand' /\ FlightsStand'
        /\ cleanup' \in [Requests -> Tasks \cup {None}]
    BY UpdateStep
  <1>2. TypeOK' /\ Chain'
    BY DEF ServingInv, lineage, TypeOK, Chain, ParentsServed, NoFork, ActiveIsLast, Parent, Home
  <1>3. TasksStand'
    BY <1>1 DEF TasksStand, ServingInv
  <1>4. QED
    BY <1>1, <1>2, <1>3 DEF ServingInv

LEMMA CachesKept ==
  ASSUME ServingInv, UNCHANGED <<lineage, caches, results>>
  PROVE  CachesStand'
  BY DEF ServingInv, CachesStand, lineage, caches

LEMMA QuietStep ==
  ASSUME ServingInv, NEW r \in Requests, NEW rec, Update(r, rec),
         UNCHANGED <<lineage, log, caches, results, registry>>,
         Reads(rec, Now, served), Bound(rec), KeepsLease(request[r], rec)
  PROVE  ServingInv'
  <1>1. CachesStand' /\ log' \in [Requests -> {"ABSENT", "RUNNING", "COMPLETED", "FAILED"}]
    BY CachesKept DEF ServingInv, TasksStand
  <1>2. QED
    BY <1>1, RequestStep

LEMMA FreshStep ==
  ASSUME ServingInv, NEW r \in Requests, NEW rec, Update(r, rec), Fresh(rec),
         UNCHANGED <<lineage, caches, results, registry>>,
         log' \in [Requests -> {"ABSENT", "RUNNING", "COMPLETED", "FAILED"}]
  PROVE  ServingInv'
  <1>1. Reads(rec, Now, served) /\ Bound(rec) /\ KeepsLease(request[r], rec)
    BY FreshStands DEF Fresh, KeepsLease
  <1>2. QED
    BY <1>1, CachesKept, RequestStep

\* What the invariant says of one request and of the active snapshot.
LEMMA RequestFacts ==
  ASSUME ServingInv, NEW r \in Requests
  PROVE  /\ request[r] \in RequestRecords
         /\ Reads(request[r], Now, served) /\ Bound(request[r])
         /\ Now \in served \cup {None} /\ served \subseteq Snapshots /\ None \notin served
         /\ log \in [Requests -> {"ABSENT", "RUNNING", "COMPLETED", "FAILED"}]
  BY DatasetExists, LineageAssumption
  DEF ServingInv, RequestsStand, TasksStand, Now, Chain, ActiveIsLast, TypeOK

LEMMA BeginStep ==
  ASSUME ServingInv, NEW r \in Requests, begin_query_execution_log(r)
  PROVE  ServingInv'
  <1>1. PICK hydrated \in BOOLEAN, wanted \in served \cup {None} :
          Update(r, [New EXCEPT !.pc = "authorize", !.hydrate = hydrated, !.wanted = wanted,
                                !.retired = served \ {Now}])
    BY DEF begin_query_execution_log
  <1> DEFINE rec == [New EXCEPT !.pc = "authorize", !.hydrate = hydrated, !.wanted = wanted,
                                !.retired = served \ {Now}]
  <1>2. rec \in RequestRecords /\ rec.pc = "authorize" /\ rec.retired = served \ {Now}
        /\ rec.graphs = None /\ rec.sem = None /\ rec.phys = None /\ rec.flight = None
        /\ rec.answer = None /\ rec.certified = FALSE
    BY RequestFacts, NewIsFresh, ZenonT(60) DEF Fresh, New, RequestRecords, Steps
  <1>3. Update(r, rec)
    BY <1>1
  <1> HIDE DEF rec
  <1>4. Reads(rec, Now, served) /\ Bound(rec) /\ KeepsLease(request[r], rec)
    BY <1>2, RequestFacts DEF Reads, Bound, KeepsLease, Evaluating
  <1>5. CachesStand' /\ log' \in [Requests -> {"ABSENT", "RUNNING", "COMPLETED", "FAILED"}]
    BY CachesKept, RequestFacts DEF begin_query_execution_log
  <1>6. QED
    BY <1>3, <1>4, <1>5, RequestStep DEF begin_query_execution_log

\* A request that ends without an answer.
LEMMA FailStep ==
  ASSUME ServingInv, NEW r \in Requests, NEW pc \in {"failing", "ended"}, Update(r, Over(pc)),
         UNCHANGED <<lineage, log, caches, results, registry>>
  PROVE  ServingInv'
  BY FreshStep, NewIsFresh, RequestFacts

\* A request that reads the active snapshot: while it authorizes, for its
\* semantic state, or on the hydration pod.
LEMMA AuthorizationStep ==
  ASSUME ServingInv, NEW r \in Requests, authorization_state(r)
  PROVE  ServingInv'
  <1> DEFINE rec == [request[r] EXCEPT !.pc = "semantic", !.graphs = Now]
             old == request[r]
  <1>1. CASE Now = None
    BY <1>1, FailStep DEF authorization_state
  <1>2. CASE Now # None
    <2>1. rec \in RequestRecords /\ rec.pc = "semantic" /\ rec.graphs = Now
          /\ rec.retired = old.retired /\ rec.sem = old.sem /\ rec.phys = old.phys
          /\ rec.flight = old.flight /\ rec.answer = old.answer /\ rec.certified = old.certified
      BY RequestFacts DEF RequestRecords, Steps
    <2>2. Update(r, rec) /\ old.pc = "authorize"
      BY <1>2 DEF authorization_state, At
    <2> HIDE DEF rec
    <2>3. Reads(rec, Now, served) /\ Bound(rec) /\ KeepsLease(old, rec)
      BY <1>2, <2>1, <2>2, RequestFacts DEF Reads, Bound, KeepsLease, Evaluating
    <2>4. QED
      BY <2>2, <2>3, QuietStep DEF authorization_state
  <1>3. QED
    BY <1>1, <1>2

\* The steps that only advance a request.
Moves == {<<"semAuth", "semLoad">>, <<"semLoad", "resolve">>, <<"resolve", "execute">>,
          <<"lock", "execute">>, <<"execute", "hydrate">>, <<"physAuth", "physLoad">>,
          <<"physLoad", "physical">>}

LEMMA MoveStands ==
  ASSUME ServingInv, NEW r \in Requests, NEW pc, <<request[r].pc, pc>> \in Moves,
         pc = "execute" => Requested(r)
  PROVE  /\ Reads([request[r] EXCEPT !.pc = pc], Now, served)
         /\ Bound([request[r] EXCEPT !.pc = pc])
         /\ request[r].pc # "lock" => KeepsLease(request[r], [request[r] EXCEPT !.pc = pc])
  <1> DEFINE old == request[r]
             rec == [request[r] EXCEPT !.pc = pc]
  <1>1. pc \in Steps
    BY DEF Moves, Steps, Evaluating
  <1>2. rec \in RequestRecords /\ rec.pc = pc /\ rec.graphs = old.graphs
        /\ rec.retired = old.retired /\ rec.sem = old.sem /\ rec.phys = old.phys
        /\ rec.hydrate = old.hydrate /\ rec.wanted = old.wanted
        /\ rec.flight = old.flight /\ rec.answer = old.answer /\ rec.certified = old.certified
    BY <1>1, RequestFacts DEF RequestRecords
  <1> HIDE DEF rec
  <1>3. (Reads(rec, Now, served) /\ KeepsLease(old, rec)) \/ old.pc = "lock"
    BY <1>2, RequestFacts DEF Reads, KeepsLease
  <1>4. Reads(rec, Now, served)
    BY <1>2, RequestFacts DEF Reads
  <1>5. Bound(rec)
    BY <1>2, RequestFacts DEF Bound, Moves, Evaluating, Requested
  <1>6. QED
    BY <1>3, <1>4, <1>5 DEF rec

LEMMA SemanticStep ==
  ASSUME ServingInv, NEW r \in Requests, semantic_state(r)
  PROVE  ServingInv'
  <1> DEFINE old == request[r]
  <1>1. ASSUME NEW pc \in {"resolve", "semAuth"}, SemanticRead(r), Now # None,
               Update(r, [request[r] EXCEPT !.pc = pc, !.sem = Now])
        PROVE  ServingInv'
    <2> DEFINE rec == [request[r] EXCEPT !.pc = pc, !.sem = Now]
    <2>1. rec \in RequestRecords /\ rec.pc = pc /\ rec.graphs = old.graphs
          /\ rec.retired = old.retired /\ rec.sem = Now /\ rec.phys = old.phys
          /\ rec.flight = old.flight /\ rec.answer = old.answer /\ rec.certified = old.certified
      BY RequestFacts DEF RequestRecords, Steps
    <2>2. Update(r, rec) /\ old.pc = "semantic"
      BY <1>1 DEF SemanticRead, At
    <2> HIDE DEF rec
    <2>3. Reads(rec, Now, served) /\ Bound(rec) /\ KeepsLease(old, rec)
      BY <1>1, <2>1, <2>2, RequestFacts DEF Reads, Bound, KeepsLease, Evaluating
    <2>4. QED
      BY <1>1, <2>2, <2>3, QuietStep DEF SemanticRead
  <1>2. CASE SemanticRead(r)
    BY <1>1, <1>2, FailStep DEF SemanticRead
  <1>3. CASE SemanticAuthorize(r)
    <2>1. old.pc = "semAuth"
      BY <1>3 DEF SemanticAuthorize, At
    <2>2. QED
      BY <1>3, <2>1, FailStep, QuietStep, MoveStands DEF SemanticAuthorize, Moves
  <1>4. CASE SemanticLoad(r)
    <2>1. old.sem \in served
      BY <1>4, RequestFacts DEF SemanticLoad, At, Reads, Bound
    <2>2. CachesStand'
      BY <1>4, <2>1 DEF SemanticLoad, ServingInv, CachesStand, lineage
    <2>3. QED
      BY <1>4, <2>2, RequestStep, RequestFacts, MoveStands DEF SemanticLoad, At, Goto, Moves
  <1>5. QED
    BY <1>2, <1>3, <1>4 DEF semantic_state

LEMMA ResolveStep ==
  ASSUME ServingInv, NEW r \in Requests, resolve(r)
  PROVE  ServingInv'
  <1>1. CASE Requested(r) /\ Goto(r, "execute")
    <2>1. request[r].pc = "resolve"
      BY DEF resolve, At
    <2>2. QED
      BY <1>1, <2>1, MoveStands, QuietStep DEF resolve, Goto, Moves
  <1>2. CASE Update(r, Over("failing"))
    BY <1>2, FailStep DEF resolve
  <1>3. QED
    BY <1>1, <1>2 DEF resolve

\* A request that takes its answer gives its lease back.
LEMMA AnsweredStands ==
  ASSUME ServingInv, NEW r \in Requests, request[r].pc \in {"lock", "store"},
         NEW a, Fits(request[r], a)
  PROVE  /\ Reads(Answered(r, a), Now, served) /\ Bound(Answered(r, a))
         /\ KeepsLease(request[r], Answered(r, a))
  <1> DEFINE old == request[r]
             rec == Answered(r, a)
  <1>1. rec \in RequestRecords /\ rec.pc = "respond" /\ rec.graphs = None
        /\ rec.retired = old.retired /\ rec.sem = old.sem /\ rec.phys = None
        /\ rec.hydrate = old.hydrate /\ rec.wanted = old.wanted
        /\ rec.flight = None /\ rec.answer = a /\ rec.certified = old.certified
    BY RequestFacts, Zenon DEF Answered, RequestRecords, Steps, Fits
  <1> HIDE DEF rec
  <1>2. Reads(rec, Now, served) /\ KeepsLease(old, rec)
    BY <1>1, RequestFacts DEF Reads, KeepsLease
  <1>3. Fits(rec, a)
    BY <1>1 DEF Fits
  <1>4. Bound(rec)
    BY <1>1, <1>3, RequestFacts DEF Bound, Evaluating
  <1>5. QED
    BY <1>2, <1>4 DEF rec

\* lock_owned and the lookup: a hit is an answer of the request's own key, and
\* on a miss the request is the only one to hold the mutex.
LEMMA LookupStep ==
  ASSUME ServingInv, NEW r \in Requests, lookup(r)
  PROVE  ServingInv'
  <1> DEFINE old == request[r]
  <1>1. old.pc = "lock" /\ old.certified /\ old.sem \in Snapshots /\ Key(r) \in Keys
        /\ Key(r)[1] = old.sem /\ Key(r)[2] = old.hydrate
    BY RequestFacts DEF lookup, At, Bound, RequestRecords, Key, Keys, Evaluating
  <1>2. CASE results[Key(r)] # None /\ Update(r, Answered(r, results[Key(r)]))
    <2>1. CacheRow(Key(r), results[Key(r)])
      BY <1>1, <1>2 DEF ServingInv, CachesStand
    <2>2. Fits(old, results[Key(r)])
      BY <1>1, <2>1 DEF CacheRow, Fits
    <2>3. QED
      BY <1>1, <1>2, <2>2, AnsweredStands, QuietStep DEF lookup
  <1>3. CASE Goto(r, "execute")
    <2> DEFINE rec == [request[r] EXCEPT !.pc = "execute"]
    <2>1. Reads(rec, Now, served) /\ Bound(rec)
      BY <1>1, MoveStands, RequestFacts DEF Moves, Bound, Requested, Evaluating
    <2>2. request' = [request EXCEPT ![r] = rec] /\ UNCHANGED cleanup
          /\ request \in [Requests -> RequestRecords]
          /\ rec.flight = old.flight /\ rec.sem = old.sem /\ rec.hydrate = old.hydrate
          /\ old.flight # None
      BY <1>1, <1>3, RequestFacts
      DEF Goto, Update, HasLease, ServingInv, RequestsStand, RequestRecords, Bound, Evaluating
    <2> HIDE DEF rec
    <2>3. /\ request'[r] = rec /\ \A q \in Requests \ {r} : request'[q] = request[q]
          /\ UNCHANGED <<lineage, registry, results, caches, log>>
          /\ Now' = Now /\ served' = served
      BY <2>2 DEF lookup, lineage, Now
    <2>4. RequestsStand'
      BY <2>1, <2>2, <2>3 DEF ServingInv, RequestsStand, Reads
    <2>5. FlightsStand'
      <3>1. \A q \in Requests : /\ HasLease(q)' <=> HasLease(q)
                                /\ Key(q)' = Key(q)
                                /\ request'[q].flight = request[q].flight
        BY <2>2, <2>3 DEF HasLease, Key
      <3>2. \A q \in Requests \ {r} : Locked(q)' => Locked(q)
        BY <2>3 DEF Locked, HasLease
      <3>3. \A q \in Requests \ {r} : Locked(q) => request[q].flight # request[r].flight
        BY DEF lookup, MutexFree
      <3>4. QED
        BY <2>3, <3>1, <3>2, <3>3 DEF FlightsStand, ServingInv
    <2>6. CachesStand' /\ TasksStand'
      BY <2>2, <2>3, CachesKept DEF TasksStand, ServingInv
    <2>7. TypeOK' /\ Chain'
      BY <2>3 DEF ServingInv, lineage, TypeOK, Chain, ParentsServed, NoFork, ActiveIsLast, Parent, Home
    <2>8. QED
      BY <2>4, <2>5, <2>6, <2>7 DEF ServingInv
  <1>4. QED
    BY <1>2, <1>3 DEF lookup

\* The lease is on the mutex of the key: the one in the registry, or a new one
\* when no request has any.
LEMMA FlightStep ==
  ASSUME ServingInv, NEW r \in Requests, query_cache_flight(r)
  PROVE  ServingInv'
  <1> DEFINE old == request[r]
             f == IF registry[Key(r)] # None THEN registry[Key(r)] ELSE Unused
             rec == [request[r] EXCEPT !.pc = "lock", !.certified = TRUE, !.flight = f,
                                       !.graphs = request[r].sem]
  <1>1. /\ old.pc = "resolve" /\ Requested(r) /\ Update(r, rec)
        /\ registry' = [registry EXCEPT ![Key(r)] = f]
        /\ UNCHANGED <<lineage, log, caches, results>>
    BY DEF query_cache_flight, Take, At
  <1>2. old.sem \in Snapshots /\ Key(r) \in Keys /\ old.flight = None
        /\ old.sem # None /\ old.answer = None
    BY <1>1, RequestFacts DEF Bound, RequestRecords, Key, Keys, Evaluating
  <1>3. f \in Flights /\ f # None
    <2>1. registry[Key(r)] \in Flights \cup {None}
      BY <1>2 DEF ServingInv, TasksStand
    <2>2. f \in Flights
      BY <2>1, UnusedExists
    <2> HIDE DEF f
    <2>3. f \in Nat
      <3>1. Cardinality(Keys) \in Nat /\ Cardinality(Requests) \in Nat
        BY KeysFinite, FS_CardinalityType, ServingAssumption
      <3>2. QED
        BY <2>2, <3>1 DEF Flights
    <2>4. QED
      BY <2>2, <2>3, ServingAssumption
  <1>4. registry[Key(r)] # None => f = registry[Key(r)]
    OBVIOUS
  <1> HIDE DEF f
  <1>5. rec \in RequestRecords /\ rec.pc = "lock" /\ rec.graphs = old.sem
        /\ rec.retired = old.retired /\ rec.sem = old.sem /\ rec.phys = old.phys
        /\ rec.hydrate = old.hydrate /\ rec.wanted = old.wanted
        /\ rec.flight = f /\ rec.answer = old.answer /\ rec.certified = TRUE
    BY <1>2, <1>3, RequestFacts, Zenon DEF RequestRecords, Steps, Evaluating
  <1> HIDE DEF rec
  <1>6. Reads(rec, Now, served)
    BY <1>5, RequestFacts DEF Reads
  <1>7. Bound(rec)
    BY <1>1, <1>2, <1>3, <1>5 DEF Bound, Evaluating, Requested
  <1>8. /\ request' = [request EXCEPT ![r] = rec] /\ request \in [Requests -> RequestRecords]
        /\ UNCHANGED cleanup
    BY <1>1, <1>2 DEF Update, HasLease, ServingInv, RequestsStand
  <1>9. /\ request'[r] = rec /\ \A q \in Requests \ {r} : request'[q] = request[q]
        /\ Now' = Now /\ served' = served
        /\ registry'[Key(r)] = f
        /\ \A k \in Keys \ {Key(r)} : registry'[k] = registry[k]
    BY <1>1, <1>2, <1>8 DEF lineage, Now, ServingInv, TasksStand
  <1>10. RequestsStand'
    BY <1>5, <1>6, <1>7, <1>8, <1>9 DEF ServingInv, RequestsStand
  <1>11. FlightsStand'
    <2>1. Key(r)' = Key(r) /\ ~Locked(r)'
      BY <1>5, <1>9 DEF Key, Locked
    <2>2. \A q \in Requests \ {r} : /\ HasLease(q)' <=> HasLease(q)
                                    /\ Locked(q)' <=> Locked(q)
                                    /\ Key(q)' = Key(q)
      BY <1>9 DEF HasLease, Locked, Key
    <2>3. ASSUME NEW q \in Requests, HasLease(q)'
          PROVE  registry'[Key(q)'] = request'[q].flight
      <3>1. CASE q = r
        BY <1>5, <1>9, <2>1, <3>1
      <3>2. CASE q # r
        <4>1. registry[Key(q)] = request[q].flight /\ request[q].flight # None /\ Key(q) \in Keys
          BY <2>2, <2>3, <3>2, RequestFacts
          DEF HasLease, ServingInv, FlightsStand, Key, Keys, RequestRecords, Bound, Evaluating
        <4>2. registry'[Key(q)] = registry[Key(q)]
          BY <1>4, <1>9, <4>1
        <4>3. QED
          BY <1>9, <2>2, <3>2, <4>1, <4>2
      <3>3. QED
        BY <3>1, <3>2
    <2>4. QED
      BY <1>9, <2>1, <2>2, <2>3 DEF FlightsStand, ServingInv
  <1>12. CachesStand' /\ TasksStand'
    BY <1>1, <1>2, <1>3, <1>8, CachesKept DEF TasksStand, ServingInv
  <1>13. TypeOK' /\ Chain'
    BY <1>1 DEF ServingInv, lineage, TypeOK, Chain, ParentsServed, NoFork, ActiveIsLast, Parent, Home
  <1>14. QED
    BY <1>10, <1>11, <1>12, <1>13 DEF ServingInv

\* The evaluated answer: of the snapshot the request is bound to, and hydrated
\* from no other.
LEMMA AnswerStands ==
  ASSUME ServingInv, NEW r \in Requests, request[r].pc \in {"execute", "physical"},
         NEW hydrated \in {None, request[r].sem}
  PROVE  LET rec == [request[r] EXCEPT !.pc = "store", !.answer = Answer(r, hydrated)]
         IN  Reads(rec, Now, served) /\ Bound(rec) /\ KeepsLease(request[r], rec)
  <1> DEFINE old == request[r]
             a == Answer(r, hydrated)
             rec == [request[r] EXCEPT !.pc = "store", !.answer = a]
  <1>1. old.sem \in Snapshots /\ old.graphs \in Snapshots /\ old.hydrate \in BOOLEAN
        /\ (old.certified => old.graphs = old.sem)
    BY RequestFacts DEF Bound, RequestRecords, Evaluating
  <1>2. Fits(old, a)
    BY <1>1 DEF Fits, Answer, Answers
  <1> HIDE DEF a
  <1>3. rec \in RequestRecords /\ rec.pc = "store" /\ rec.graphs = old.graphs
        /\ rec.retired = old.retired /\ rec.sem = old.sem /\ rec.phys = old.phys
        /\ rec.hydrate = old.hydrate /\ rec.wanted = old.wanted
        /\ rec.flight = old.flight /\ rec.answer = a /\ rec.certified = old.certified
    BY <1>2, RequestFacts, ZenonT(60) DEF RequestRecords, Steps, Evaluating, Fits
  <1> HIDE DEF rec
  <1>4. Reads(rec, Now, served) /\ KeepsLease(old, rec)
    BY <1>3, RequestFacts DEF Reads, KeepsLease
  <1>5. Fits(rec, a)
    BY <1>2, <1>3 DEF Fits
  <1>6. Bound(rec)
    BY <1>3, <1>5, RequestFacts DEF Bound, Evaluating
  <1>7. QED
    BY <1>4, <1>6 DEF rec, a

LEMMA ExecuteStep ==
  ASSUME ServingInv, NEW r \in Requests, execute(r)
  PROVE  ServingInv'
  <1>1. request[r].pc = "execute"
    BY DEF execute, At
  <1>2. CASE Goto(r, "hydrate")
    BY <1>1, <1>2, MoveStands, QuietStep, SMTT(40) DEF execute, Goto, Moves
  <1>3. CASE Update(r, [request[r] EXCEPT !.pc = "store", !.answer = Answer(r, None)])
    BY <1>1, <1>3, AnswerStands, QuietStep DEF execute
  <1>4. CASE Update(r, Over("failing"))
    BY <1>4, FailStep DEF execute
  <1>5. QED
    BY <1>2, <1>3, <1>4 DEF execute

LEMMA HydrateStep ==
  ASSUME ServingInv, NEW r \in Requests, hydrate(r)
  PROVE  ServingInv'
  <1>1. request[r].pc = "physical"
    BY SMTT(40) DEF hydrate, At
  <1>2. CASE /\ request[r].phys = request[r].sem
             /\ Update(r, [request[r] EXCEPT !.pc = "store", !.answer = Answer(r, request[r].phys)])
    BY <1>1, <1>2, AnswerStands, QuietStep DEF hydrate
  <1>3. CASE Update(r, Over("failing"))
    BY <1>3, FailStep DEF hydrate
  <1>4. QED
    BY <1>2, <1>3 DEF hydrate

LEMMA PhysicalStep ==
  ASSUME ServingInv, NEW r \in Requests, physical_state(r)
  PROVE  ServingInv'
  <1> DEFINE old == request[r]
             pc == IF physical = Now THEN "physical" ELSE "physAuth"
             rec == [request[r] EXCEPT !.pc = pc, !.phys = Now]
  <1>1. CASE /\ At(r, "hydrate") /\ Now # None /\ Update(r, rec)
             /\ UNCHANGED <<lineage, log, caches, results, registry>>
    <2>1. rec \in RequestRecords /\ rec.pc \in {"physical", "physAuth"} /\ rec.graphs = old.graphs
          /\ rec.retired = old.retired /\ rec.sem = old.sem /\ rec.phys = Now
          /\ rec.hydrate = old.hydrate /\ rec.wanted = old.wanted
          /\ rec.flight = old.flight /\ rec.answer = old.answer /\ rec.certified = old.certified
      BY RequestFacts, Zenon DEF RequestRecords, Steps, Evaluating
    <2>2. old.pc = "hydrate"
      BY <1>1 DEF At
    <2> HIDE DEF rec, pc
    <2>3. Reads(rec, Now, served) /\ KeepsLease(old, rec)
      BY <2>1, <2>2, RequestFacts DEF Reads, KeepsLease
    <2>4. Bound(rec)
      BY <1>1, <2>1, <2>2, RequestFacts DEF Bound, Evaluating
    <2>5. QED
      BY <1>1, <2>3, <2>4, QuietStep
  <1>2. CASE /\ At(r, "physAuth")
             /\ Update(r, IF Now = old.phys THEN [request[r] EXCEPT !.pc = "physLoad"]
                          ELSE Over("failing"))
             /\ UNCHANGED <<lineage, log, caches, results, registry>>
    <2>1. old.pc = "physAuth"
      BY <1>2 DEF At
    <2>2. QED
      BY <1>2, <2>1, FailStep, QuietStep, MoveStands DEF Moves
  <1>3. CASE /\ At(r, "physLoad") /\ physical' = old.phys /\ Goto(r, "physical")
             /\ UNCHANGED <<lineage, log, semantic, results, registry>>
    <2>1. old.pc = "physLoad" /\ old.phys \in served
      BY <1>3, RequestFacts DEF At, Reads, Bound
    <2>2. CachesStand'
      BY <1>3, <2>1 DEF ServingInv, CachesStand, lineage
    <2>3. QED
      BY <1>3, <2>1, <2>2, RequestStep, RequestFacts, MoveStands DEF Goto, Moves
  <1>4. QED
    BY <1>1, <1>2, <1>3 DEF physical_state

LEMMA StoreStep ==
  ASSUME ServingInv, NEW r \in Requests, store(r)
  PROVE  ServingInv'
  <1> DEFINE old == request[r]
  <1>1. old.pc = "store" /\ Fits(old, old.answer) /\ Key(r) \in Keys
        /\ Key(r)[1] = old.sem /\ Key(r)[2] = old.hydrate
    BY RequestFacts DEF store, At, Bound, RequestRecords, Key, Keys, Evaluating
  <1>2. \/ UNCHANGED results
        \/ old.certified /\ results' = [results EXCEPT ![Key(r)] = old.answer]
    BY DEF store
  <1>3. CachesStand'
    <2>1. UNCHANGED <<lineage, caches>>
      BY DEF store
    <2>2. CASE UNCHANGED results
      BY <2>1, <2>2, CachesKept
    <2>3. CASE old.certified /\ results' = [results EXCEPT ![Key(r)] = old.answer]
      <3>1. CacheRow(Key(r), old.answer)
        BY <1>1, <2>3 DEF Fits, CacheRow
      <3>2. old.answer \in Answers
        BY <1>1 DEF Fits
      <3>3. QED
        BY <1>1, <2>1, <2>3, <3>1, <3>2 DEF ServingInv, CachesStand, lineage, caches
    <2>4. QED
      BY <1>2, <2>2, <2>3
  <1>4. QED
    BY <1>1, <1>3, AnsweredStands, RequestStep, RequestFacts DEF store

LEMMA EndStep ==
  ASSUME ServingInv, NEW r \in Requests,
         finalize_query_execution_log(r) \/ Error(r) \/ Disconnect(r) \/ Repeat(r)
  PROVE  ServingInv'
  <1>1. CASE finalize_query_execution_log(r)
    BY <1>1, FreshStep, NewIsFresh, RequestFacts DEF finalize_query_execution_log
  <1>2. CASE Error(r)
    <2> DEFINE pc == IF request[r].pc \in {"respond", "failing"} THEN "ended" ELSE "failing"
    <2>1. pc \in {"failing", "ended"} /\ Update(r, Over(pc))
          /\ UNCHANGED <<lineage, log, caches, results, registry>>
      BY <1>2 DEF Error
    <2> HIDE DEF pc
    <2>2. QED
      BY <2>1, FailStep
  <1>3. CASE Disconnect(r)
    BY <1>3, FailStep DEF Disconnect
  <1>4. CASE Repeat(r)
    BY <1>4, FreshStep, NewIsFresh, RequestFacts DEF Repeat
  <1>5. QED
    BY <1>1, <1>2, <1>3, <1>4

\* The task of a dropped lease removes the key only when nobody else has a
\* lease on the mutex, so nobody who has one for the key loses it.
LEMMA CleanupStep ==
  ASSUME ServingInv, NEW r \in Requests, Cleanup(r)
  PROVE  ServingInv'
  <1> DEFINE f == cleanup[r].flight
             k == cleanup[r].key
  <1>1. /\ UNCHANGED <<lineage, request, log, caches, results>>
        /\ cleanup' = [cleanup EXCEPT ![r] = None]
        /\ \/ UNCHANGED registry
           \/ /\ registry' = [registry EXCEPT ![k] = None]
              /\ registry[k] = f /\ \A q \in Requests : request[q].flight # f
    BY DEF Cleanup
  <1>2. k \in Keys /\ f \in Flights
    BY DEF Cleanup, ServingInv, TasksStand, Tasks
  <1> HIDE DEF f, k
  <1>3. TasksStand'
    BY <1>1, <1>2 DEF ServingInv, TasksStand
  <1>4. FlightsStand'
    <2>1. \A q \in Requests : (HasLease(q)' <=> HasLease(q)) /\ (Locked(q)' <=> Locked(q))
                              /\ Key(q)' = Key(q)
      BY <1>1 DEF HasLease, Locked, Key
    <2>2. \A q \in Requests : HasLease(q) => Key(q) \in Keys
      BY RequestFacts DEF HasLease, Bound, RequestRecords, Key, Keys, Evaluating
    <2>3. \A q \in Requests : HasLease(q) => registry'[Key(q)] = registry[Key(q)]
      BY <1>1, <1>2, <2>2 DEF ServingInv, FlightsStand, TasksStand
    <2>4. QED
      BY <1>1, <2>1, <2>3 DEF ServingInv, FlightsStand
  <1>5. RequestsStand' /\ CachesStand'
    BY <1>1, CachesKept DEF ServingInv, RequestsStand, lineage, Now
  <1>6. TypeOK' /\ Chain'
    BY <1>1 DEF ServingInv, lineage, TypeOK, Chain, ParentsServed, NoFork, ActiveIsLast, Parent, Home
  <1>7. QED
    BY <1>3, <1>4, <1>5, <1>6 DEF ServingInv

\* A publication makes a snapshot active that was never served, so it is in
\* nobody's past.
LEMMA PublicationStep ==
  ASSUME ServingInv, Publication
  PROVE  ServingInv'
  <1>1. PICK s \in Snapshots : Serve(s)
    BY DEF Publication
  <1>2. TypeOK' /\ Chain'
    <2>1. TypeOK'
      BY <1>1 DEF ServingInv, TypeOK, Serve, Bindings
    <2>2. QED
      BY <1>1, <2>1, ServePreservesChain DEF ServingInv
  <1>3. Now' \in {Now, s} /\ s \notin served /\ served' = served \cup {s}
    BY <1>1, DatasetExists DEF Serve, Now, ServingInv, TypeOK, Bindings
  <1>4. UNCHANGED <<request, log, semantic, physical, results, registry, cleanup>>
    BY DEF Publication, caches, flights
  <1>5. RequestsStand'
    BY <1>3, <1>4 DEF ServingInv, RequestsStand, Reads
  <1>6. FlightsStand' /\ TasksStand'
    BY <1>4 DEF ServingInv, FlightsStand, TasksStand, HasLease, Locked, Key
  <1>7. CachesStand'
    BY <1>3, <1>4 DEF ServingInv, CachesStand
  <1>8. QED
    BY <1>2, <1>5, <1>6, <1>7 DEF ServingInv

LEMMA ServingStep == ServingInv /\ [ServingNext]_servingVars => ServingInv'
  <1> SUFFICES ASSUME ServingInv, [ServingNext]_servingVars
               PROVE  ServingInv'
    OBVIOUS
  <1>1. CASE UNCHANGED servingVars
    BY <1>1 DEF servingVars, lineage, caches, flights, ServingInv, TypeOK, Chain, ParentsServed,
       NoFork, ActiveIsLast, Parent, Home, RequestsStand, FlightsStand, CachesStand, TasksStand,
       Now, HasLease, Locked, Key
  <1>2. ASSUME NEW r \in Requests, Step(r)
        PROVE  ServingInv'
    BY <1>2, BeginStep, AuthorizationStep, SemanticStep, ResolveStep, FlightStep, LookupStep,
       ExecuteStep, PhysicalStep, HydrateStep, StoreStep, EndStep DEF Step
  <1>3. CASE ServingNext
    BY <1>2, <1>3, PublicationStep, CleanupStep, EndStep DEF ServingNext
  <1>4. QED
    BY <1>1, <1>3

\* What query_inner, the load locks, the caches and the flight registry keep
\* true between them, however many queries run and whatever is published.
THEOREM ServingInvariant == ServingSpec => []ServingInv
  <1>1. QED
    BY ServingInitInv, ServingStep, PTL DEF ServingSpec

\* Type correctness: caches hold only snapshots that were served, and leases
\* and results are of the keys they are filed under.
THEOREM ServingTyping == ServingSpec => []ServingTypeOK
  <1>1. ServingInv => ServingTypeOK
    <2> SUFFICES ASSUME ServingInv PROVE ServingTypeOK
      OBVIOUS
    <2>1. ASSUME NEW r \in Requests
          PROVE  /\ request[r].retired \subseteq served
                 /\ {request[r].graphs, request[r].sem, request[r].phys} \subseteq served \cup {None}
                 /\ request[r].flight \in Flights \cup {None}
                 /\ request[r].answer \in
                      IF request[r].pc \in {"store", "respond"} THEN Answers ELSE {None}
                 /\ log[r] \in {"ABSENT", "RUNNING", "COMPLETED", "FAILED"}
      BY RequestFacts DEF Reads, Bound, Fits, RequestRecords
    <2>2. QED
      BY <2>1 DEF ServingInv, CachesStand, TasksStand, ServingTypeOK
  <1>2. QED
    BY <1>1, ServingInvariant, PTL

\* The snapshots the pods serve form one chain, as the catalog promises.
THEOREM ServingKeepsTheChain == ServingSpec => []Chain
  <1>1. ServingInv => Chain
    BY DEF ServingInv
  <1>2. QED
    BY <1>1, ServingInvariant, PTL

\* The reads of the active snapshot a query makes on its way may differ; its
\* answer is of one of them, or there is none.
THEOREM AnswersAreWhole == ServingSpec => []AnswerIsWhole
  <1>1. ServingInv => AnswerIsWhole
    BY RequestFacts DEF AnswerIsWhole, At, Bound, Fits
  <1>2. QED
    BY <1>1, ServingInvariant, PTL

\* Whichever cache it went through, an answer is of a snapshot that was still
\* active when the query began, or became so later.
THEOREM AnswersAreFresh == ServingSpec => []NoStaleAnswer
  <1>1. ServingInv => NoStaleAnswer
    BY RequestFacts DEF NoStaleAnswer, At, Reads, Bound, Fits
  <1>2. QED
    BY <1>1, ServingInvariant, PTL

\* No two requests evaluate the same key at once, though the registry forgets
\* mutexes while leases come and go.
THEOREM FlightsAreSingle == ServingSpec => []SingleFlight
  <1>1. ServingInv => SingleFlight
    BY DEF ServingInv, FlightsStand, SingleFlight, Locked
  <1>2. QED
    BY <1>1, ServingInvariant, PTL
=============================================================================
