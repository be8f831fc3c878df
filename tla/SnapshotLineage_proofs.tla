----------------------- MODULE SnapshotLineage_proofs -----------------------
(* The chain of served snapshots, for any number of datasets and snapshots. *)
EXTENDS SnapshotLineage, TLAPS

\* Type correctness of the abstract publication protocol.
THEOREM LineageTyping == Spec => []TypeOK
  <1>1. Init => TypeOK
    BY DEF Init, TypeOK
  <1>2. TypeOK /\ [Next]_vars => TypeOK'
    BY DEF TypeOK, Next, vars, Prepare, Serve, Bindings
  <1>3. QED
    BY <1>1, <1>2, PTL DEF Spec

\* Preparing a snapshot changes no served one.
LEMMA PreparePreservesChain ==
  ASSUME TypeOK, Chain,
         NEW s \in Snapshots, NEW d \in Datasets, NEW p \in Snapshots \cup {None},
         Prepare(s, d, p)
  PROVE  Chain'
  <1>1. s \notin served /\ served' = served /\ active' = active
    BY DEF Prepare, Chain, ParentsServed
  <1>2. \A t \in served : prepared'[t] = prepared[t]
    BY <1>1 DEF Prepare, TypeOK
  <1>3. \A t \in served : Parent(t)' = Parent(t) /\ Home(t)' = Home(t)
    BY <1>2 DEF Parent, Home
  <1>4. \A t \in served : Parent(t) # None => Home(Parent(t))' = Home(Parent(t))
    BY <1>3 DEF Chain, ParentsServed, Home, Parent
  <1>5. ParentsServed'
    BY <1>1, <1>2, <1>3, <1>4 DEF Chain, ParentsServed, Parent, Home
  <1>6. NoFork'
    BY <1>1, <1>3 DEF Chain, NoFork
  <1>7. ActiveIsLast'
    BY <1>1, <1>3 DEF Chain, ActiveIsLast, Home, Parent
  <1>8. QED
    BY <1>5, <1>6, <1>7 DEF Chain

\* Serving a snapshot extends the chain of its dataset by one.
LEMMA ServePreservesChain ==
  ASSUME TypeOK, Chain, NEW s \in Snapshots, Serve(s)
  PROVE  Chain'
  <1> DEFINE d == Home(s)
             p == Parent(s)
  <1>1. /\ d \in Datasets /\ p \in Snapshots \cup {None}
        /\ s \notin served /\ prepared[s] # None
        /\ active[d] = p
        /\ active' = [active EXCEPT ![d] = s]
        /\ served' = served \cup {s}
        /\ prepared' = prepared
    BY DEF Serve, TypeOK, Bindings, Home, Parent
  <1>2. \A t \in Snapshots : Parent(t)' = Parent(t) /\ Home(t)' = Home(t)
    BY <1>1 DEF Parent, Home
  <1>3. p # None => p \in served /\ Home(p) = d
    BY <1>1 DEF Chain, ActiveIsLast
  <1>4. p # s
    BY <1>1, <1>3, LineageAssumption
  <1>5. \A t \in served : Parent(t) # s
    BY <1>1, LineageAssumption DEF Chain, ParentsServed
  <1>6. \A t \in served : Home(t) = d => Parent(t) # p
    <2>1. CASE p = None
      BY <2>1, <1>1 DEF Chain, ActiveIsLast
    <2>2. CASE p # None
      BY <2>2, <1>1, <1>3 DEF Chain, ActiveIsLast
    <2>3. QED
      BY <2>1, <2>2
  <1>7. ParentsServed'
    BY <1>1, <1>2, <1>3 DEF Chain, ParentsServed, Parent, Home, TypeOK
  <1>8. NoFork'
    BY <1>1, <1>2, <1>6 DEF Chain, NoFork, TypeOK
  <1>9. ActiveIsLast'
    <2> SUFFICES ASSUME NEW e \in Datasets
                 PROVE /\ active'[e] # None => active'[e] \in served' /\ Home(active'[e]) = e
                       /\ active'[e] = None => \A t \in served' : Home(t) # e
                       /\ \A t \in served' : Home(t) = e =>
                            (t = active'[e] <=> \A u \in served' : Parent(u) # t)
      BY <1>1 DEF ActiveIsLast, Home, Parent
    <2>1. CASE e = d
      <3>1. active'[e] = s /\ s # None
        BY <2>1, <1>1, LineageAssumption DEF TypeOK
      <3>2. \A u \in served' : Parent(u) # s
        BY <1>1, <1>4, <1>5
      <3>3. \A t \in served : Home(t) = e => \E u \in served' : Parent(u) = t
        BY <2>1, <1>1 DEF Chain, ActiveIsLast
      <3>4. QED
        BY <2>1, <3>1, <3>2, <3>3, <1>1
    <2>2. CASE e # d
      <3>1. active'[e] = active[e]
        BY <2>2, <1>1 DEF TypeOK
      <3>2. \A t \in served : Home(t) = e => t # p
        BY <2>2, <1>3, LineageAssumption DEF TypeOK
      <3>3. \A t \in served' : Home(t) = e => t \in served
        BY <2>2, <1>1
      <3>4. \A t \in served : Home(t) = e =>
              ((\A u \in served' : Parent(u) # t) <=> (\A u \in served : Parent(u) # t))
        BY <3>2, <1>1
      <3>5. QED
        BY <3>1, <3>3, <3>4, <1>1 DEF Chain, ActiveIsLast
    <2>3. QED
      BY <2>1, <2>2
  <1>10. QED
    BY <1>7, <1>8, <1>9 DEF Chain

\* In every reachable state the snapshots a dataset has served form one
\* unbroken chain of parents that ends in its active snapshot.
THEOREM LineageIsAChain == Spec => []Chain
  <1>1. Init => Chain
    BY DEF Init, Chain, ParentsServed, NoFork, ActiveIsLast
  <1>2. TypeOK /\ Chain /\ [Next]_vars => Chain'
    <2> SUFFICES ASSUME TypeOK, Chain, [Next]_vars
                 PROVE  Chain'
      OBVIOUS
    <2>1. CASE UNCHANGED vars
      BY <2>1 DEF vars, Chain, ParentsServed, NoFork, ActiveIsLast, Parent, Home
    <2>2. CASE Next
      BY <2>2, PreparePreservesChain, ServePreservesChain DEF Next
    <2>3. QED
      BY <2>1, <2>2
  <1>3. QED
    BY <1>1, <1>2, LineageTyping, PTL DEF Spec
=============================================================================
