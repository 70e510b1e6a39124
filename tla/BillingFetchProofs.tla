------------------------- MODULE BillingFetchProofs -------------------------
(***************************************************************************)
(* Proofs about BillingFetch, for every finite set of metrics, every       *)
(* catalog, every set of answers and every number of workers.              *)
(***************************************************************************)
EXTENDS BillingFetch, FoldTheorems, FiniteSetTheorems, TLAPS

Holding == {m \in Metrics : pc[m] \in {"start", "fetch", "merge", "warn", "count", "show", "release"}}
Through == {"count", "show", "release", "gone"}

\* The slots and the counter are those of the goroutines that hold or have
\* taken one.
CountInv ==
  /\ TypeOK
  /\ sem = Cardinality(Holding)
  /\ done = Cardinality(Finished)
  /\ \A m \in Finished : mine[m] # 0
  /\ \A m, n \in Finished : mine[m] = mine[n] => m = n

\* What is in the result, and why something is not.
ResultInv ==
  /\ main = "done" => \A m \in Metrics : pc[m] = "gone"
  /\ \A m \in Metrics :
       /\ pc[m] \in {"select", "start", "fetch", "warn"} => byVar[m] = None
       /\ pc[m] = "merge" => byVar[m] \in Answers
       /\ m \in warnings => pc[m] \in Through /\ byVar[m] = None
       /\ pc[m] \in Through /\ SeriesOf(m) # {} => m \in warnings \/ byVar[m] \in Answers
  /\ \A s \in Catalog :
       s \in DOMAIN result <=> pc[MetricOf[s]] \in Through /\ s \in Billed(MetricOf[s])

LEMMA SetsFinite ==
  /\ IsFiniteSet(Holding) /\ Cardinality(Holding) \in Nat
  /\ IsFiniteSet(Finished) /\ Cardinality(Finished) \in Nat
  /\ Cardinality(Finished) <= Cardinality(Metrics)
  /\ Cardinality(Metrics) \in Nat
  <1>1. Holding \subseteq Metrics /\ Finished \subseteq Metrics
    BY DEF Holding, Finished
  <1>2. IsFiniteSet(Holding) /\ IsFiniteSet(Finished) /\ Cardinality(Finished) <= Cardinality(Metrics)
    BY <1>1, MetricsAssumption, FS_Subset
  <1> QED
    BY <1>2, MetricsAssumption, FS_CardinalityType

LEMMA InitInv == Init => CountInv /\ ResultInv
  <1> SUFFICES ASSUME Init PROVE CountInv /\ ResultInv
    OBVIOUS
  <1>1. Holding = {} /\ Finished = {}
    BY DEF Init, Holding, Finished
  <1>2. Cardinality({}) = 0
    BY FS_EmptySet
  <1>3. 0 \in 0..Workers /\ 0 \in 0..Cardinality(Metrics)
    BY WorkersAssumption, SetsFinite
  <1>4. DOMAIN None = {}
    BY DEF None
  <1>5. TypeOK
    <2>1. /\ pc \in [Metrics -> {"select", "start", "fetch", "merge", "warn", "count", "show",
                                "release", "gone"}]
          /\ byVar \in [Metrics -> Answers \cup {None}]
      BY DEF Init
    <2>2. mine \in [Metrics -> 0..done] /\ shown \in 0..done
      BY DEF Init
    <2>3. DOMAIN result = {} /\ DOMAIN split = {}
      BY <1>4 DEF Init
    <2> QED
      BY <1>3, <2>1, <2>2, <2>3 DEF Init, TypeOK
  <1>6. CountInv
    <2>1. sem = Cardinality(Holding) /\ done = Cardinality(Finished)
      <3>1. sem = 0 /\ done = 0
        BY DEF Init
      <3> QED
        BY <1>1, <1>2, <3>1, Zenon
    <2>2. \A m \in Finished : FALSE
      BY <1>1
    <2> QED
      BY <1>5, <2>1, <2>2 DEF CountInv
  <1>7. ResultInv
    <2>1. \A s \in Catalog : MetricOf[s] \in Metrics
      BY CatalogAssumption
    <2>2. DOMAIN result = {} /\ warnings = {} /\ main = "wait"
      BY <1>4 DEF Init
    <2>3. \A m \in Metrics : pc[m] = "select" /\ byVar[m] = None
      BY DEF Init
    <2> QED
      BY <2>1, <2>2, <2>3 DEF ResultInv, Through
  <1> QED
    BY <1>6, <1>7

\* A step of a goroutine that stays among those that hold a slot, or does not,
\* and leaves the counters alone.
LEMMA QuietCount ==
  ASSUME CountInv, TypeOK', Holding' = Holding, Finished' = Finished,
         UNCHANGED <<sem, progress>>
  PROVE  CountInv'
  BY DEF CountInv, progress

LEMMA ShowCount ==
  ASSUME CountInv, NEW m \in Metrics, Show(m) PROVE CountInv'
  <1>1. Holding' = Holding /\ Finished' = Finished
    BY DEF CountInv, TypeOK, Show, Goto, Holding, Finished
  <1>2. TypeOK'
    BY DEF CountInv, TypeOK, Show, Goto
  <1> QED
    BY <1>1, <1>2 DEF CountInv, Show

LEMMA CountCount ==
  ASSUME CountInv, NEW m \in Metrics, Count(m) PROVE CountInv'
  <1>1. Holding' = Holding
    BY DEF CountInv, TypeOK, Count, Goto, Holding
  <1>2. Finished' = Finished \cup {m} /\ m \notin Finished
    BY DEF CountInv, TypeOK, Count, Goto, Finished
  <1>3. Cardinality(Finished') = done + 1
    BY <1>2, SetsFinite, FS_AddElement DEF CountInv
  <1>4. done + 1 <= Cardinality(Metrics) /\ done \in Nat
    <2>1. Finished' \subseteq Metrics
      BY DEF Finished
    <2>2. Cardinality(Finished') <= Cardinality(Metrics)
      BY <2>1, MetricsAssumption, FS_Subset
    <2> QED
      BY <1>3, <2>2, SetsFinite DEF CountInv
  <1>5. done' = done + 1 /\ mine' = [mine EXCEPT ![m] = done + 1]
    BY DEF Count
  <1>6. mine' \in [Metrics -> 0..done'] /\ shown' \in 0..done' /\ done' \in 0..Cardinality(Metrics)
    BY <1>4, <1>5, SetsFinite DEF CountInv, TypeOK, Count
  <1>7. TypeOK'
    BY <1>6 DEF CountInv, TypeOK, Count, Goto
  <1>8. \A n \in Finished : mine'[n] = mine[n] /\ mine'[n] <= done /\ mine'[n] # done + 1
    BY <1>2, <1>4, <1>5 DEF CountInv, TypeOK, Finished
  <1>9. mine'[m] = done + 1 /\ done + 1 # 0
    BY <1>4, <1>5 DEF CountInv, TypeOK
  <1>10. /\ \A n \in Finished' : mine'[n] # 0
         /\ \A n, k \in Finished' : mine'[n] = mine'[k] => n = k
    BY <1>2, <1>8, <1>9 DEF CountInv
  <1> QED
    BY <1>1, <1>3, <1>5, <1>7, <1>10 DEF CountInv, Count

LEMMA AcquireCount ==
  ASSUME CountInv, NEW m \in Metrics, Acquire(m) PROVE CountInv'
  <1>1. Holding' = Holding \cup {m} /\ m \notin Holding
    BY DEF CountInv, TypeOK, Acquire, Goto, Holding
  <1>2. Finished' = Finished
    BY DEF CountInv, TypeOK, Acquire, Goto, Finished
  <1>3. sem' = sem + 1 /\ Cardinality(Holding') = sem + 1
    BY <1>1, SetsFinite, FS_AddElement DEF CountInv, Acquire
  <1>4. sem' \in 0..Workers
    BY <1>3, WorkersAssumption DEF CountInv, TypeOK, Acquire
  <1>5. TypeOK'
    BY <1>4 DEF CountInv, TypeOK, Acquire, Goto, progress
  <1> QED
    BY <1>2, <1>3, <1>5 DEF CountInv, Acquire, progress

LEMMA ReleaseCount ==
  ASSUME CountInv, NEW m \in Metrics, Release(m) PROVE CountInv'
  <1>1. Holding' = Holding \ {m} /\ m \in Holding
    BY DEF CountInv, TypeOK, Release, Goto, Holding
  <1>2. Finished' = Finished
    BY DEF CountInv, TypeOK, Release, Goto, Finished
  <1>3. sem' = sem - 1 /\ Cardinality(Holding') = sem - 1 /\ Cardinality(Holding') \in Nat
    BY <1>1, SetsFinite, FS_RemoveElement, FS_CardinalityType DEF CountInv, Release
  <1>4. sem' \in 0..Workers
    BY <1>3, WorkersAssumption DEF CountInv, TypeOK
  <1>5. TypeOK'
    BY <1>4 DEF CountInv, TypeOK, Release, Goto, progress
  <1> QED
    BY <1>2, <1>3, <1>5 DEF CountInv, Release, progress

\* The merge puts the billed series of m into the two maps.
LEMMA MergeFacts ==
  ASSUME TypeOK, NEW m \in Metrics, Merge(m)
  PROVE  /\ DOMAIN result' = DOMAIN result \cup Billed(m)
         /\ DOMAIN split' = DOMAIN split \cup Billed(m)
  BY DEF Merge

LEMMA QuietSteps ==
  ASSUME CountInv, NEW m \in Metrics,
         \/ Call(m) \/ FetchFails(m) \/ Warn(m) \/ Merge(m)
         \/ \E answer \in Answers : FetchReturns(m, answer)
  PROVE  CountInv'
  <1>1. Holding' = Holding /\ Finished' = Finished
    BY
       DEF CountInv, TypeOK, Call, FetchFails, Warn, Merge, FetchReturns, Goto, Holding, Finished
  <1>2. UNCHANGED <<sem, progress>>
    BY DEF Call, FetchFails, Warn, Merge, FetchReturns
  <1>3. TypeOK'
    <2>1. CASE Call(m) \/ FetchFails(m) \/ Warn(m)
      BY <2>1 DEF CountInv, TypeOK, Call, FetchFails, Warn, Goto, progress
    <2>2. CASE \E answer \in Answers : FetchReturns(m, answer)
      BY <2>2 DEF CountInv, TypeOK, FetchReturns, Goto, progress
    <2>3. CASE Merge(m)
      <3>1. /\ DOMAIN result' \subseteq Catalog
            /\ DOMAIN split' = DOMAIN result'
        BY <2>3, MergeFacts DEF CountInv, TypeOK, Billed, SeriesOf
      <3> QED
        BY <2>3, <3>1 DEF CountInv, TypeOK, Merge, Goto, progress
    <2> QED
      BY <2>1, <2>2, <2>3
  <1> QED
    BY <1>1, <1>2, <1>3, QuietCount

LEMMA WaitCount == ASSUME CountInv, WaitReturns PROVE CountInv'
  <1>1. Holding' = Holding /\ Finished' = Finished
    BY DEF WaitReturns, Holding, Finished
  <1>2. TypeOK'
    BY DEF CountInv, TypeOK, WaitReturns, progress
  <1> QED
    BY <1>1, <1>2, QuietCount DEF WaitReturns

LEMMA NextCount == CountInv /\ [Next]_vars => CountInv'
  <1> SUFFICES ASSUME CountInv, [Next]_vars PROVE CountInv'
    OBVIOUS
  <1>1. CASE UNCHANGED vars
    BY <1>1 DEF CountInv, TypeOK, Holding, Finished, vars, progress
  <1>2. ASSUME NEW m \in Metrics, Worker(m) \/ Answered(m) PROVE CountInv'
    BY <1>2, AcquireCount, QuietSteps, CountCount, ShowCount, ReleaseCount DEF Worker, Answered
  <1> QED
    BY <1>1, <1>2, WaitCount DEF Next

-----------------------------------------------------------------------------
(* The results.                                                            *)

LEMMA NextResult == TypeOK /\ ResultInv /\ [Next]_vars => ResultInv'
  <1> SUFFICES ASSUME TypeOK, ResultInv, [Next]_vars PROVE ResultInv'
    OBVIOUS
  <1>1. CASE UNCHANGED vars
    BY <1>1 DEF ResultInv, Billed, SeriesOf, vars
  <1>2. CASE WaitReturns
    BY <1>2 DEF ResultInv, Billed, SeriesOf, WaitReturns
  <1>3. ASSUME NEW m \in Metrics, Worker(m) \/ Answered(m) PROVE ResultInv'
    <2>1. main' = main /\ (main = "done" => pc[m] = "gone")
      BY <1>3 DEF ResultInv, Worker, Answered, Acquire, Call, Warn, Merge, Count, Show, Release,
                  FetchFails, FetchReturns
    <2>2. CASE Acquire(m) \/ Count(m) \/ Show(m) \/ Release(m) \/ FetchFails(m)
      <3>1. UNCHANGED <<main, byVar, result, warnings>>
        BY <2>2 DEF Acquire, Count, Show, Release, FetchFails, progress
      <3>2. /\ pc' = [pc EXCEPT ![m] = pc'[m]]
            /\ pc[m] # "gone"
            /\ pc'[m] \in Through <=> pc[m] \in Through
            /\ pc'[m] # "merge"
            /\ pc'[m] \in {"select", "start", "fetch", "warn"}
                => pc[m] \in {"select", "start", "fetch", "warn"}
        BY <2>2 DEF TypeOK, Through, Acquire, Count, Show, Release, FetchFails, Goto
      <3>3. \A n \in Metrics : Billed(n)' = Billed(n)
        BY <3>1 DEF Billed, SeriesOf
      <3>4. main # "done"
        BY <3>2 DEF ResultInv
      <3>5. \A n \in Metrics : n # m => pc'[n] = pc[n]
        BY <3>2 DEF TypeOK
      <3>6. \A n \in Metrics : pc'[n] \in Through <=> pc[n] \in Through
        BY <3>2, <3>5
      <3>7. \A s \in Catalog :
              s \in DOMAIN result' <=> pc'[MetricOf[s]] \in Through /\ s \in Billed(MetricOf[s])'
        BY <3>1, <3>3, <3>6, CatalogAssumption DEF ResultInv
      <3>8. \A n \in Metrics :
              /\ pc'[n] \in {"select", "start", "fetch", "warn"} => byVar'[n] = None
              /\ pc'[n] = "merge" => byVar'[n] \in Answers
              /\ n \in warnings' => pc'[n] \in Through /\ byVar'[n] = None
              /\ pc'[n] \in Through /\ SeriesOf(n) # {} => n \in warnings' \/ byVar'[n] \in Answers
        BY <3>1, <3>2, <3>5, <3>6 DEF ResultInv
      <3> QED
        BY <3>1, <3>4, <3>7, <3>8 DEF ResultInv, SeriesOf
    <2>3. CASE Call(m)
      <3>1. DOMAIN None = {}
        BY DEF None
      <3> QED
        BY <2>3, <3>1, CatalogAssumption
           DEF TypeOK, ResultInv, Billed, SeriesOf, Through, Call, Goto
    <2>4. CASE \E answer \in Answers : FetchReturns(m, answer)
      BY <2>4, CatalogAssumption DEF TypeOK, ResultInv, Billed, Through, FetchReturns, Goto
    <2>5. CASE Warn(m)
      <3>1. DOMAIN None = {}
        BY DEF None
      <3> QED
        BY <2>5, <3>1, CatalogAssumption DEF TypeOK, ResultInv, Billed, Through, Warn, Goto
    <2>6. CASE Merge(m)
      BY <2>6, MergeFacts, CatalogAssumption
         DEF TypeOK, ResultInv, Billed, SeriesOf, Through, Merge, Goto
    <2> QED
      BY <1>3, <2>2, <2>3, <2>4, <2>5, <2>6 DEF Worker, Answered
  <1> QED
    BY <1>1, <1>2, <1>3 DEF Next

LEMMA SpecInv == Spec => [](CountInv /\ ResultInv)
  <1>1. CountInv => TypeOK
    BY DEF CountInv
  <1> QED
    BY <1>1, InitInv, NextCount, NextResult, PTL DEF Spec

\* The variables keep their types: the semaphore is never overdrawn.
THEOREM Typed == Spec => []TypeOK
  <1>1. CountInv => TypeOK
    BY DEF CountInv
  <1> QED
    BY <1>1, SpecInv, PTL

\* The status line never counts a metric that is not finished.
THEOREM ProgressIsHonest == Spec => []ProgressHonest
  <1>1. CountInv => ProgressHonest
    BY SetsFinite DEF CountInv, TypeOK, ProgressHonest
  <1> QED
    BY <1>1, SpecInv, PTL

\* Whatever fails, every other metric's billing is in the result.
THEOREM NothingLost == Spec => []OneFailureLosesNothing
  <1>1. ASSUME CountInv, ResultInv PROVE OneFailureLosesNothing
    <2> SUFFICES ASSUME Done
                 PROVE  /\ DOMAIN result = UNION {Billed(m) : m \in Metrics}
                        /\ \A m \in warnings : Billed(m) = {}
                        /\ \A m \in Metrics : SeriesOf(m) # {} => m \in warnings \/ byVar[m] \in Answers
      BY DEF OneFailureLosesNothing
    <2>1. \A m \in Metrics : pc[m] \in Through
      BY <1>1 DEF ResultInv, Done, Through
    <2>2. DOMAIN None = {}
      BY DEF None
    <2>3. \A m \in warnings : Billed(m) = {}
      BY <1>1, <2>2 DEF ResultInv, CountInv, TypeOK, Billed
    <2>4. \A s \in Catalog : s \in DOMAIN result <=> s \in Billed(MetricOf[s])
      BY <1>1, <2>1, CatalogAssumption DEF ResultInv
    <2>5. DOMAIN result = UNION {Billed(m) : m \in Metrics}
      <3>1. DOMAIN result \subseteq Catalog
        BY <1>1 DEF CountInv, TypeOK
      <3>2. \A s \in Catalog : MetricOf[s] \in Metrics
        BY CatalogAssumption
      <3>3. \A m \in Metrics : \A s \in Billed(m) : s \in Catalog /\ MetricOf[s] = m
        BY DEF Billed, SeriesOf
      <3>4. ASSUME NEW s \in DOMAIN result PROVE s \in UNION {Billed(m) : m \in Metrics}
        BY <2>4, <3>1, <3>2
      <3>5. ASSUME NEW m \in Metrics, NEW s \in Billed(m) PROVE s \in DOMAIN result
        BY <2>4, <3>3
      <3> QED
        BY <3>4, <3>5
    <2> QED
      BY <1>1, <2>1, <2>3, <2>5 DEF ResultInv
  <1> QED
    BY <1>1, SpecInv, PTL
-----------------------------------------------------------------------------
(* The shares.                                                             *)

\* What is in the result for a series was computed from the answer that is
\* still in byVar, and by the size of its group.
ShareOf(s) == Split(byVar[MetricOf[s]][KeyOf[s]], Cardinality(Group(s)))

ShareInv ==
  \A s \in DOMAIN result : result[s] = ShareOf(s) /\ split[s] = Cardinality(Group(s))

LEMMA InitShare == Init => ShareInv
  BY DEF Init, ShareInv, None

LEMMA NextShare == TypeOK /\ ResultInv /\ ShareInv /\ [Next]_vars => ShareInv'
  <1> SUFFICES ASSUME TypeOK, ResultInv, ShareInv, [Next]_vars PROVE ShareInv'
    OBVIOUS
  <1>1. CASE UNCHANGED <<byVar, result, split>>
    BY <1>1 DEF ShareInv, ShareOf
  <1>2. ASSUME NEW m \in Metrics, NEW answer \in Answers, FetchReturns(m, answer)
        PROVE  ShareInv'
    <2>1. pc[m] = "fetch" /\ byVar' = [byVar EXCEPT ![m] = answer] /\ UNCHANGED <<result, split>>
      BY <1>2 DEF FetchReturns, Goto
    <2>2. ASSUME NEW s \in DOMAIN result
          PROVE  byVar'[MetricOf[s]] = byVar[MetricOf[s]]
      <3>1. s \in Catalog /\ pc[MetricOf[s]] \in Through
        BY DEF TypeOK, ResultInv
      <3>2. MetricOf[s] # m
        BY <2>1, <3>1 DEF Through
      <3> QED BY <2>1, <3>2 DEF TypeOK
    <2> QED BY <2>1, <2>2 DEF ShareInv, ShareOf
  <1>3. ASSUME NEW m \in Metrics, Merge(m)
        PROVE  ShareInv'
    <2>1. /\ byVar' = byVar
          /\ result' = [s \in DOMAIN result \cup Billed(m) |->
                          IF s \in Billed(m)
                            THEN Split(byVar[m][KeyOf[s]], Cardinality(Group(s))) ELSE result[s]]
          /\ split' = [s \in DOMAIN split \cup Billed(m) |->
                         IF s \in Billed(m) THEN Cardinality(Group(s)) ELSE split[s]]
      BY <1>3 DEF Merge
    <2>2. DOMAIN split = DOMAIN result
      BY DEF TypeOK
    <2>3. ASSUME NEW s \in DOMAIN result'
          PROVE  result'[s] = ShareOf(s) /\ split'[s] = Cardinality(Group(s))
      <3>1. CASE s \in Billed(m)
        <4>1. MetricOf[s] = m
          BY <3>1 DEF Billed, SeriesOf
        <4> QED BY <2>1, <3>1, <4>1 DEF ShareOf
      <3>2. CASE s \notin Billed(m)
        <4>1. s \in DOMAIN result
          BY <2>1, <3>2
        <4>2. result'[s] = result[s] /\ split'[s] = split[s]
          BY <2>1, <2>2, <3>2, <4>1
        <4> QED BY <4>1, <4>2 DEF ShareInv
      <3> QED BY <3>1, <3>2
    <2> QED BY <2>1, <2>3 DEF ShareInv, ShareOf
  <1>4. ASSUME NEW m \in Metrics,
               Acquire(m) \/ Call(m) \/ Warn(m) \/ Count(m) \/ Show(m) \/ Release(m) \/ FetchFails(m)
        PROVE  UNCHANGED <<byVar, result, split>>
    BY <1>4 DEF Acquire, Call, Warn, Count, Show, Release, FetchFails
  <1>5. WaitReturns \/ UNCHANGED vars => UNCHANGED <<byVar, result, split>>
    BY DEF WaitReturns, vars
  <1> QED
    BY <1>1, <1>2, <1>3, <1>4, <1>5 DEF Next, Worker, Answered

\* n shares of b, each b \div n, leave a remainder of less than n.
LEMMA Remainder ==
  ASSUME NEW b \in Nat, NEW n \in Nat \ {0}
  PROVE  b \div n \in Nat /\ b - (b \div n) * n \in 0..(n - 1)
  OBVIOUS

\* What the goroutines share out of a variation is all of it but a remainder
\* that is less than the number of shares.
THEOREM NothingSharedTwice == Spec => []SharesAddUp
  <1>1. ASSUME CountInv, ResultInv, ShareInv PROVE SharesAddUp
    <2> SUFFICES ASSUME Done, NEW s \in DOMAIN result
                 PROVE  LET sharers == {t \in DOMAIN result : MetricOf[t] = MetricOf[s] /\ KeyOf[t] = KeyOf[s]}
                            lost    == byVar[MetricOf[s]][KeyOf[s]].bytes
                                         - SumFunctionOnSet([t \in sharers |-> result[t].bytes], sharers)
                        IN  lost \in 0..(split[s] - 1) /\ split[s] = Cardinality(sharers)
      BY DEF SharesAddUp
    <2> DEFINE sharers == {t \in DOMAIN result : MetricOf[t] = MetricOf[s] /\ KeyOf[t] = KeyOf[s]}
               bytesOf == [t \in sharers |-> result[t].bytes]
               m == MetricOf[s]
               u == byVar[m][KeyOf[s]]
               n == Cardinality(Group(s))
    <2>1. s \in Catalog /\ m \in Metrics /\ DOMAIN result \subseteq Catalog
      BY <1>1, CatalogAssumption DEF CountInv, TypeOK
    <2>2. pc[m] \in Through /\ s \in Billed(m)
      BY <1>1, <2>1 DEF ResultInv
    <2>3. sharers = Group(s)
      BY <1>1, <2>1, <2>2 DEF ResultInv, Group, SeriesOf, Billed
    <2>4. IsFiniteSet(Group(s)) /\ n \in Nat \ {0}
      <3>1. Group(s) \subseteq Catalog /\ s \in Group(s)
        BY <2>1 DEF Group, SeriesOf
      <3>2. IsFiniteSet(Group(s))
        BY <3>1, CatalogAssumption, FS_Subset
      <3> QED BY <3>1, <3>2, FS_CardinalityType, FS_EmptySet
    <2>5. DOMAIN u = {"bytes", "days"} /\ u.bytes \in Nat
      <3>1. byVar[m] \in Answers \cup {None} /\ KeyOf[s] \in DOMAIN byVar[m]
        BY <1>1, <2>1, <2>2 DEF CountInv, TypeOK, Billed
      <3>2. DOMAIN None = {}
        BY DEF None
      <3>3. byVar[m] \in Answers
        BY <3>1, <3>2
      <3> QED BY <3>1, <3>3, AnswersAssumption
    <2>6. ASSUME NEW t \in Group(s)
          PROVE  t \in DOMAIN result /\ result[t].bytes = Split(u, n).bytes
      <3>1. t \in DOMAIN result
        BY <2>3
      <3>2. MetricOf[t] = m /\ KeyOf[t] = KeyOf[s] /\ Group(t) = Group(s)
        BY DEF Group, SeriesOf
      <3> QED BY <1>1, <3>1, <3>2 DEF ShareInv, ShareOf
    <2> HIDE DEF sharers, n, u, m
    <2>7. CASE n = 1
      <3>1. \A t \in Group(s) : bytesOf[t] = u.bytes
        BY <2>3, <2>6, <2>7 DEF Split
      <3>2. SumFunctionOnSet(bytesOf, Group(s)) = u.bytes * n
        BY <2>4, <2>5, <3>1, SumConstant DEF n
      <3>3. u.bytes - SumFunctionOnSet(bytesOf, sharers) = 0 /\ split[s] = 1 /\ Cardinality(sharers) = 1
        <4>1. split[s] = n
          BY <1>1 DEF ShareInv, n
        <4> HIDE DEF bytesOf
        <4> QED BY <2>3, <2>5, <2>7, <3>2, <4>1 DEF n
      <3> QED BY <3>3 DEF sharers, u, m
    <2>8. CASE n > 1
      <3>1. \A t \in Group(s) : bytesOf[t] = u.bytes \div n
        <4>1. Split(u, n).bytes = u.bytes \div n
          BY <2>4, <2>5, <2>8 DEF Split
        <4> QED BY <2>3, <2>6, <4>1
      <3>2. u.bytes \div n \in Nat /\ u.bytes - (u.bytes \div n) * n \in 0..(n - 1)
        BY <2>4, <2>5, Remainder
      <3>3. SumFunctionOnSet(bytesOf, Group(s)) = (u.bytes \div n) * n
        BY <2>4, <3>1, <3>2, SumConstant DEF n
      <3>4. split[s] = n
        BY <1>1 DEF ShareInv, n
      <3>5. u.bytes - SumFunctionOnSet(bytesOf, sharers) \in 0..(split[s] - 1) /\ Cardinality(sharers) = split[s]
        <4> HIDE DEF bytesOf
        <4> QED BY <2>3, <3>2, <3>3, <3>4 DEF n
      <3> QED BY <3>5 DEF sharers, u, m
    <2> QED BY <2>4, <2>7, <2>8
  <1>2. CountInv => TypeOK
    BY DEF CountInv
  <1>3. Spec => []ShareInv
    BY <1>2, InitShare, NextShare, SpecInv, PTL DEF Spec
  <1> QED
    BY <1>1, <1>3, SpecInv, PTL
=============================================================================
