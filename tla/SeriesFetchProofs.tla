------------------------- MODULE SeriesFetchProofs -------------------------
(***************************************************************************)
(* Proofs about SeriesFetch, for every finite set of metrics and series,   *)
(* every number of workers and every limit.                                *)
(***************************************************************************)
EXTENDS SeriesFetch, FiniteSetTheorems, TLAPS

-----------------------------------------------------------------------------
(* Types and slots.                                                        *)

\* The goroutines that hold a slot of the semaphore.
Holding == {m \in Metrics : pc[m] \in {"fetch", "merge", "count", "release"}}

\* sem counts them: that is why it is not negative when one gives its slot back.
SlotInv == TypeOK /\ sem = Cardinality(Holding)

LEMMA SlotInit == Init => SlotInv
  <1> SUFFICES ASSUME Init PROVE SlotInv
    OBVIOUS
  <1>1. Holding = {}
    BY DEF Init, Holding
  <1>2. Cardinality(Holding) = 0
    BY <1>1, FS_EmptySet
  <1>3. sem = 0 /\ 0 \in 0..Workers
    BY WorkersAssumption DEF Init
  <1>4. TypeOK
    BY <1>3 DEF Init, TypeOK
  <1> QED BY <1>2, <1>3, <1>4 DEF SlotInv

LEMMA HoldingFinite == IsFiniteSet(Holding) /\ Cardinality(Holding) \in Nat
  <1>1. IsFiniteSet(Holding)
    BY MetricsAssumption, FS_Subset DEF Holding
  <1> QED BY <1>1, FS_CardinalityType

\* A goroutine's step keeps the count.
LEMMA SlotWorker ==
  ASSUME SlotInv, NEW m \in Metrics, Worker(m)
  PROVE  SlotInv'
  <1> USE DEF SlotInv, Goto, shared, group
  <1>1. CASE Acquire(m)
    <2>1. Holding' = Holding \cup {m} /\ m \notin Holding
      BY <1>1 DEF Acquire, Holding, TypeOK
    <2>2. Cardinality(Holding') = Cardinality(Holding) + 1
      BY <2>1, HoldingFinite, FS_AddElement
    <2>3. sem' = sem + 1 /\ sem' \in 0..Workers
      BY <1>1, WorkersAssumption DEF Acquire, TypeOK
    <2> QED BY <1>1, <2>2, <2>3 DEF Acquire, TypeOK
  <1>2. CASE Release(m)
    <2>1. Holding' = Holding \ {m} /\ m \in Holding
      BY <1>2 DEF Release, Holding, TypeOK
    <2>2. Cardinality(Holding') = Cardinality(Holding) - 1
      BY <2>1, HoldingFinite, FS_RemoveElement
    <2>3. Cardinality(Holding') \in Nat
      BY <2>1, HoldingFinite, FS_RemoveElement, FS_CardinalityType
    <2>4. sem' = sem - 1 /\ sem' \in 0..Workers
      BY <1>2, <2>2, <2>3, WorkersAssumption DEF Release, TypeOK
    <2> QED BY <1>2, <2>2, <2>4 DEF Release, TypeOK
  <1>3. ASSUME UNCHANGED sem, Holding' = Holding, TypeOK' PROVE SlotInv'
    BY <1>3
  <1>4. CASE GiveUp(m)
    <2>1. Holding' = Holding
      BY <1>4 DEF GiveUp, Holding, TypeOK
    <2> QED BY <1>3, <1>4, <2>1 DEF GiveUp, TypeOK
  <1>5. ASSUME NEW series \in SUBSET Series, FetchReturns(m, series) PROVE SlotInv'
    <2>1. Holding' = Holding
      BY <1>5 DEF FetchReturns, Holding, TypeOK
    <2> QED BY <1>3, <1>5, <2>1 DEF FetchReturns, TypeOK
  <1>6. ASSUME NEW why \in {"own", "canceled"}, FetchFails(m, why) PROVE SlotInv'
    <2>1. Holding' = Holding
      BY <1>6 DEF FetchFails, Holding, TypeOK
    <2> QED BY <1>3, <1>6, <2>1 DEF FetchFails, TypeOK
  <1>7. CASE Merge(m)
    <2>1. Holding' = Holding
      BY <1>7 DEF Merge, Holding, TypeOK
    <2> QED BY <1>3, <1>7, <2>1 DEF Merge, TypeOK
  <1>8. CASE Count(m)
    <2>1. Holding' = Holding
      BY <1>8 DEF Count, Holding, TypeOK
    <2> QED BY <1>3, <1>8, <2>1 DEF Count, TypeOK
  <1>9. CASE Return(m)
    <2>1. Holding' = Holding
      BY <1>9 DEF Return, Holding, TypeOK
    <2> QED BY <1>3, <1>9, <2>1 DEF Return, TypeOK
  <1> QED BY <1>1, <1>2, <1>4, <1>5, <1>6, <1>7, <1>8, <1>9 DEF Worker

LEMMA SlotStep == SlotInv /\ [Next]_vars => SlotInv'
  <1> SUFFICES ASSUME SlotInv, [Next]_vars PROVE SlotInv'
    OBVIOUS
  <1> USE DEF SlotInv, TypeOK, shared, group
  <1>1. CASE UNCHANGED <<pc, sem>> /\ TypeOK'
    BY <1>1 DEF Holding
  <1>2. ASSUME NEW m \in Metrics, Spawn(m) PROVE SlotInv'
    <2>1. Holding' = Holding
      BY <1>2 DEF Spawn, Goto, Holding
    <2> QED BY <1>2, <2>1 DEF Spawn, Goto
  <1>3. CASE StartWait
    BY <1>1, <1>3 DEF StartWait
  <1>4. CASE WaitReturns
    BY <1>1, <1>4 DEF WaitReturns
  <1>5. CASE UNCHANGED vars
    BY <1>1, <1>5 DEF vars
  <1> QED BY <1>2, <1>3, <1>4, <1>5, SlotWorker DEF Next

\* Every variable keeps its type; in particular sem stays within 0..Workers.
THEOREM TypeCorrect == Spec => []TypeOK
  <1>1. SlotInv => TypeOK
    BY DEF SlotInv
  <1> QED BY <1>1, SlotInit, SlotStep, PTL DEF Spec

\* At most Workers requests are under way.
THEOREM Bounded == Spec => []FetchesBounded
  <1>1. SlotInv => FetchesBounded
    <2> SUFFICES ASSUME SlotInv PROVE FetchesBounded
      OBVIOUS
    <2> DEFINE F == {m \in Metrics : pc[m] = "fetch"}
    <2>1. F \subseteq Holding
      BY DEF Holding
    <2>2. Cardinality(F) <= Cardinality(Holding) /\ IsFiniteSet(F)
      BY <2>1, HoldingFinite, FS_Subset
    <2>3. Cardinality(F) \in Nat
      BY <2>2, FS_CardinalityType
    <2> QED BY <2>2, <2>3, HoldingFinite, WorkersAssumption
            DEF FetchesBounded, SlotInv, TypeOK
  <1> QED BY <1>1, SlotInit, SlotStep, PTL DEF Spec

-----------------------------------------------------------------------------
(* Errors.                                                                 *)

\* gctx is cancelled exactly when the errgroup has its error, so that the first
\* error returned to it is no cancellation; and a goroutine with an error has
\* no answer in the catalog.
ErrInv ==
  /\ TypeOK
  /\ \A m \in Metrics :
       /\ err[m] # "none" => pc[m] \in {"release", "return", "gone"}
       /\ err[m] = "canceled" => cancelled
       /\ err[m] # "none" /\ pc[m] = "gone" => first # NoMetric
  /\ cancelled <=> first # NoMetric
  /\ first # NoMetric => pc[first] = "gone" /\ err[first] = "own"
  /\ Finished => \A m \in Metrics : pc[m] = "gone"
  /\ main = "ok" => first = NoMetric
  /\ main = "failed" => first # NoMetric

LEMMA ErrInit == Init => ErrInv
  BY SlotInit, MetricsAssumption DEF Init, ErrInv, SlotInv, Finished

LEMMA ErrWorker ==
  ASSUME ErrInv, TypeOK', NEW m \in Metrics, Spawn(m) \/ Worker(m)
  PROVE  ErrInv'
  <1>1. ~Finished /\ NoMetric \notin Metrics
    BY MetricsAssumption DEF ErrInv, Spawn, Worker, Acquire, GiveUp, FetchReturns,
         FetchFails, Merge, Count, Release, Return, Goto
  <1> USE <1>1 DEF ErrInv, TypeOK, Finished, Goto, shared, group
  <1>2. CASE Spawn(m)    BY <1>2 DEF Spawn
  <1>3. CASE Acquire(m)  BY <1>3 DEF Acquire
  <1>4. CASE GiveUp(m)   BY <1>4 DEF GiveUp
  <1>5. ASSUME NEW series \in SUBSET Series, FetchReturns(m, series) PROVE ErrInv'
    BY <1>5 DEF FetchReturns
  <1>6. ASSUME NEW why \in {"own", "canceled"}, FetchFails(m, why) PROVE ErrInv'
    BY <1>6 DEF FetchFails
  <1>7. CASE Merge(m)    BY <1>7 DEF Merge
  <1>8. CASE Count(m)    BY <1>8 DEF Count
  <1>9. CASE Release(m)  BY <1>9 DEF Release
  <1>10. CASE Return(m)
    <2>1. CASE err[m] # "none" /\ first = NoMetric
      <3>1. err[m] = "own"
        BY <2>1
      <3> QED BY <1>10, <2>1, <3>1 DEF Return
    <2>2. CASE ~(err[m] # "none" /\ first = NoMetric)
      BY <1>10, <2>2 DEF Return
    <2> QED BY <2>1, <2>2
  <1> QED BY <1>2, <1>3, <1>4, <1>5, <1>6, <1>7, <1>8, <1>9, <1>10 DEF Worker

LEMMA ErrStep == ErrInv /\ TypeOK' /\ [Next]_vars => ErrInv'
  <1> SUFFICES ASSUME ErrInv, TypeOK', [Next]_vars PROVE ErrInv'
    OBVIOUS
  <1> USE DEF ErrInv, TypeOK, Finished, shared, group
  <1>1. ASSUME NEW m \in Metrics, Spawn(m) \/ Worker(m) PROVE ErrInv'
    BY <1>1, ErrWorker
  <1>2. CASE StartWait          BY <1>2 DEF StartWait
  <1>3. CASE WaitReturns        BY <1>3 DEF WaitReturns
  <1>4. CASE UNCHANGED vars     BY <1>4 DEF vars
  <1> QED BY <1>1, <1>2, <1>3, <1>4 DEF Next

LEMMA ErrAlways == Spec => []ErrInv
  BY ErrInit, ErrStep, TypeCorrect, PTL DEF Spec

\* The error that scan.Run returns is the failure of a request, never the
\* cancellation that followed it.
THEOREM RootCause == Spec => []RootCauseReported
  <1>1. ErrInv => RootCauseReported
    BY DEF ErrInv, TypeOK, RootCauseReported
  <1> QED BY <1>1, ErrAlways, PTL

-----------------------------------------------------------------------------
(* Completeness.                                                           *)

\* What the shared variables have taken in: the answers that are merged, those
\* of them that reached the limit, and the metrics that are counted.
Collected == {m \in Metrics : Merged(m)}
Cut       == {m \in Collected : Cardinality(answer[m]) >= Limit}
Counted   == {m \in Metrics : err[m] = "none" /\ pc[m] \in {"release", "return", "gone"}}

CompleteInv ==
  /\ ErrInv
  /\ \A m \in Metrics : Cardinality(answer[m]) <= Limit
  /\ catalog = UNION {answer[m] : m \in Collected}
  /\ truncated = Cardinality(Cut)
  /\ done = Cardinality(Counted)

LEMMA Parts ==
  ASSUME TypeOK
  PROVE  /\ IsFiniteSet(Cut) /\ Cardinality(Cut) \in Nat
         /\ IsFiniteSet(Counted) /\ Cardinality(Counted) \in Nat
         /\ \A m \in Metrics : Cardinality(answer[m]) \in Nat
  <1>1. Cut \subseteq Metrics /\ Counted \subseteq Metrics
    BY DEF Cut, Collected, Counted
  <1>2. IsFiniteSet(Cut) /\ IsFiniteSet(Counted)
    BY <1>1, MetricsAssumption, FS_Subset
  <1>3. ASSUME NEW m \in Metrics PROVE Cardinality(answer[m]) \in Nat
    <2>1. answer[m] \subseteq Series
      BY DEF TypeOK
    <2> QED BY <2>1, SeriesAssumption, FS_Subset, FS_CardinalityType
  <1> QED BY <1>2, <1>3, FS_CardinalityType

LEMMA CompleteInit == Init => CompleteInv
  <1> SUFFICES ASSUME Init PROVE CompleteInv
    OBVIOUS
  <1>1. Collected = {} /\ Cut = {} /\ Counted = {}
    BY DEF Init, Collected, Merged, Cut, Counted
  <1>2. Cardinality({}) = 0
    BY FS_EmptySet
  <1>3. \A m \in Metrics : answer[m] = {}
    BY DEF Init
  <1>4. \A m \in Metrics : Cardinality(answer[m]) <= Limit
    BY <1>2, <1>3, LimitAssumption
  <1>5. UNION {answer[m] : m \in Collected} = {}
    BY <1>1
  <1>6. truncated = Cardinality(Cut) /\ done = Cardinality(Counted)
    <2>1. truncated = 0 /\ done = 0
      BY DEF Init
    <2> QED BY <1>1, <1>2, <2>1, Zenon
  <1> QED BY <1>4, <1>5, <1>6, ErrInit DEF Init, CompleteInv

\* A step that neither merges nor counts.
LEMMA CompleteQuiet ==
  ASSUME CompleteInv, ErrInv', Collected' = Collected, Counted' = Counted, UNCHANGED shared,
         \A m \in Collected : answer'[m] = answer[m],
         \A m \in Metrics : Cardinality(answer'[m]) <= Limit
  PROVE  CompleteInv'
  <1>1. Cut' = Cut
    BY DEF Cut
  <1>2. {answer'[m] : m \in Collected'} = {answer[m] : m \in Collected}
    OBVIOUS
  <1> QED BY <1>1, <1>2 DEF CompleteInv, shared

LEMMA CompleteMerge ==
  ASSUME CompleteInv, ErrInv', NEW m \in Metrics, Merge(m)
  PROVE  CompleteInv'
  <1>1. /\ pc[m] = "merge" /\ pc' = [pc EXCEPT ![m] = "count"]
        /\ catalog' = catalog \cup answer[m]
        /\ truncated' = truncated + IF Truncated(answer[m]) THEN 1 ELSE 0
        /\ answer' = answer /\ err' = err /\ done' = done
    BY DEF Merge, Goto
  <1>2. err[m] = "none" /\ pc \in [Metrics -> {"new", "select", "fetch", "merge", "count",
                                              "release", "return", "gone"}]
    BY <1>1 DEF CompleteInv, ErrInv, TypeOK
  <1>3. Collected' = Collected \cup {m} /\ m \notin Collected
    BY <1>1, <1>2 DEF Collected, Merged
  <1>4. Counted' = Counted
    BY <1>1, <1>2 DEF Counted
  <1>5. UNION {answer'[x] : x \in Collected'} = catalog'
    BY <1>1, <1>3 DEF CompleteInv
  <1>6. truncated' = Cardinality(Cut')
    <2> USE Parts DEF CompleteInv, ErrInv
    <2>1. CASE Cardinality(answer[m]) >= Limit
      <3>1. Cut' = Cut \cup {m} /\ m \notin Cut
        BY <1>1, <1>3, <2>1 DEF Cut
      <3>2. Cardinality(Cut') = Cardinality(Cut) + 1
        BY <3>1, FS_AddElement
      <3> QED BY <1>1, <2>1, <3>2 DEF Truncated
    <2>2. CASE ~(Cardinality(answer[m]) >= Limit)
      <3>1. Cut' = Cut
        BY <1>1, <1>3, <2>2 DEF Cut
      <3> QED BY <1>1, <2>2, <3>1 DEF Truncated
    <2> QED BY <2>1, <2>2
  <1> QED BY <1>1, <1>4, <1>5, <1>6 DEF CompleteInv

LEMMA CompleteCount ==
  ASSUME CompleteInv, ErrInv', NEW m \in Metrics, Count(m)
  PROVE  CompleteInv'
  <1>1. /\ pc[m] = "count" /\ pc' = [pc EXCEPT ![m] = "release"]
        /\ done' = done + 1
        /\ answer' = answer /\ err' = err /\ catalog' = catalog /\ truncated' = truncated
    BY DEF Count, Goto
  <1>2. err[m] = "none" /\ pc \in [Metrics -> {"new", "select", "fetch", "merge", "count",
                                              "release", "return", "gone"}]
    BY <1>1 DEF CompleteInv, ErrInv, TypeOK
  <1>3. Collected' = Collected
    BY <1>1, <1>2 DEF Collected, Merged
  <1>4. Counted' = Counted \cup {m} /\ m \notin Counted
    BY <1>1, <1>2 DEF Counted
  <1>5. Cardinality(Counted') = Cardinality(Counted) + 1
    BY <1>4, Parts, FS_AddElement DEF CompleteInv, ErrInv
  <1>6. Cut' = Cut
    BY <1>1, <1>3 DEF Cut
  <1>7. {answer'[x] : x \in Collected'} = {answer[x] : x \in Collected}
    BY <1>1, <1>3
  <1> QED BY <1>1, <1>5, <1>6, <1>7 DEF CompleteInv

LEMMA CompleteStep == CompleteInv /\ ErrInv' /\ [Next]_vars => CompleteInv'
  <1> SUFFICES ASSUME CompleteInv, ErrInv', [Next]_vars PROVE CompleteInv'
    OBVIOUS
  <1>1. ASSUME UNCHANGED <<shared, answer>>, Collected' = Collected, Counted' = Counted
        PROVE  CompleteInv'
    BY <1>1, CompleteQuiet DEF CompleteInv
  <1> USE DEF ErrInv, TypeOK, Goto, Collected, Counted, Merged, group
  <1>2. ASSUME NEW m \in Metrics,
               \/ Spawn(m) \/ Acquire(m) \/ GiveUp(m) \/ Release(m) \/ Return(m)
               \/ \E why \in {"own", "canceled"} : FetchFails(m, why)
        PROVE  CompleteInv'
    <2>1. UNCHANGED <<shared, answer>>
      BY <1>2 DEF Spawn, Acquire, GiveUp, Release, Return, FetchFails
    <2>2. Collected' = Collected /\ Counted' = Counted
      BY <1>2 DEF CompleteInv, Spawn, Acquire, GiveUp, Release, Return, FetchFails
    <2> QED BY <1>1, <2>1, <2>2
  <1>3. ASSUME NEW m \in Metrics, NEW series \in SUBSET Series, FetchReturns(m, series)
        PROVE  CompleteInv'
    <2>1. /\ UNCHANGED shared /\ Cardinality(series) <= Limit
          /\ answer' = [answer EXCEPT ![m] = series] /\ pc[m] = "fetch"
      BY <1>3 DEF FetchReturns
    <2>2. Collected' = Collected /\ Counted' = Counted
      BY <1>3 DEF CompleteInv, FetchReturns
    <2>3. \A x \in Metrics : answer'[x] = IF x = m THEN series ELSE answer[x]
      BY <2>1 DEF CompleteInv
    <2>4. m \notin Collected
      BY <2>1
    <2>5. \A x \in Metrics : Cardinality(answer'[x]) <= Limit
      BY <2>1, <2>3 DEF CompleteInv
    <2>6. \A x \in Collected : answer'[x] = answer[x]
      BY <2>3, <2>4
    <2> QED BY <2>1, <2>2, <2>5, <2>6, CompleteQuiet
  <1>4. CASE StartWait
    BY <1>1, <1>4 DEF StartWait
  <1>5. CASE WaitReturns
    BY <1>1, <1>5 DEF WaitReturns
  <1>6. CASE UNCHANGED vars
    BY <1>1, <1>6 DEF vars
  <1> QED BY <1>2, <1>3, <1>4, <1>5, <1>6, CompleteMerge, CompleteCount DEF Next, Worker

\* scan.Run goes on only with every metric's series, and with the true number
\* of those that were cut at the limit.
THEOREM Complete == Spec => []ReportIsComplete
  <1>1. CompleteInv => ReportIsComplete
    <2> SUFFICES ASSUME CompleteInv, main = "ok" PROVE ReportIsComplete
      BY DEF ReportIsComplete
    <2>1. \A m \in Metrics : pc[m] = "gone" /\ err[m] = "none"
      BY DEF CompleteInv, ErrInv, TypeOK, Finished
    <2>2. Collected = Metrics /\ Counted = Metrics
      BY <2>1 DEF Collected, Counted, Merged
    <2>3. \A m \in Metrics : Cardinality(answer[m]) >= Limit <=> Cardinality(answer[m]) = Limit
      BY Parts, LimitAssumption DEF CompleteInv, ErrInv
    <2>4. Cut = {m \in Metrics : Cardinality(answer[m]) = Limit}
      BY <2>2, <2>3 DEF Cut
    <2> QED BY <2>2, <2>4 DEF CompleteInv, ReportIsComplete
  <1> QED BY <1>1, CompleteInit, CompleteStep, ErrAlways, PTL DEF Spec

-----------------------------------------------------------------------------
(* Refinement.                                                             *)

LEMMA RefinesInit == Init => G!Init
  <1> SUFFICES ASSUME Init PROVE G!Init
    OBVIOUS
  <1>1. {m \in Metrics : ~Merged(m)} = Metrics
    BY DEF Init, Merged
  <1> QED BY <1>1 DEF Init, G!Init, Finished

\* Merge is Collect, a Return that gives the errgroup its error is Blame,
\* WaitReturns is Finish, and nothing else can be seen in Gather.
LEMMA RefinesStep == ErrInv /\ [Next]_vars => [G!Next]_(G!vars)
  <1> SUFFICES ASSUME ErrInv, [Next]_vars PROVE [G!Next]_(G!vars)
    OBVIOUS
  <1> DEFINE Pending == {m \in Metrics : ~Merged(m)}
             Verdict == IF Finished THEN main ELSE "running"
  <1>1. ASSUME UNCHANGED <<main, shared, first>>, Pending' = Pending
        PROVE  UNCHANGED G!vars
    BY <1>1 DEF G!vars, Finished, shared
  <1>2. ASSUME NEW m \in Metrics, Spawn(m) \/ Worker(m)
        PROVE  [G!Next]_(G!vars)
    <2>1. main \in {"spawn", "wait"} /\ main' = main /\ Verdict = "running"
      BY <1>2 DEF ErrInv, TypeOK, Spawn, Worker, Acquire, GiveUp, FetchReturns,
           FetchFails, Merge, Count, Release, Return, Goto, Finished
    <2> USE DEF ErrInv, TypeOK, Goto, Merged, group
    <2>2. CASE Spawn(m)
      BY <1>1, <2>2 DEF Spawn
    <2>3. CASE Acquire(m)
      BY <1>1, <2>3 DEF Acquire
    <2>4. CASE GiveUp(m)
      BY <1>1, <2>4 DEF GiveUp
    <2>5. ASSUME NEW series \in SUBSET Series, FetchReturns(m, series)
          PROVE  [G!Next]_(G!vars)
      BY <1>1, <2>5 DEF FetchReturns
    <2>6. ASSUME NEW why \in {"own", "canceled"}, FetchFails(m, why)
          PROVE  [G!Next]_(G!vars)
      BY <1>1, <2>6 DEF FetchFails
    <2>7. CASE Merge(m)
      <3>1. m \in Pending /\ m # first /\ Pending' = Pending \ {m}
        BY <2>7, MetricsAssumption DEF Merge
      <3>2. /\ catalog' = catalog \cup answer[m]
            /\ truncated' = truncated + IF Truncated(answer[m]) THEN 1 ELSE 0
            /\ first' = first
        BY <2>7 DEF Merge
      <3>3. PICK listed \in SUBSET Series : listed = answer[m]
        BY DEF ErrInv, TypeOK
      <3>4. Verdict' = Verdict
        BY <2>1 DEF Finished
      <3> HIDE DEF Pending, Verdict
      <3>5. G!Collect(m, listed)
        BY <3>1, <3>2, <3>3, <3>4 DEF G!Collect, Pending, Verdict
      <3>6. \E l \in SUBSET Series : G!Collect(m, l)
        BY <3>5
      <3>7. (IF Finished THEN main ELSE "running") = "running"
        BY <2>1 DEF Verdict
      <3>8. G!Next
        BY <3>6, <3>7, Zenon DEF G!Next
      <3> QED BY <3>8, Zenon
    <2>8. CASE Count(m)
      <3>1. Pending' = Pending
        BY <2>8 DEF Count
      <3>2. UNCHANGED G!vars
        BY <2>1, <2>8, <3>1 DEF Count, G!vars, Finished
      <3> QED BY <3>2
    <2>9. CASE Release(m)
      BY <1>1, <2>9 DEF Release
    <2>10. CASE Return(m)
      <3>1. Pending' = Pending /\ UNCHANGED shared
        BY <2>10 DEF Return
      <3>2. CASE err[m] # "none" /\ first = NoMetric
        <4>1. m \in Pending /\ first' = m
          BY <2>10, <3>2 DEF Return
        <4>2. G!Blame(m)
          BY <2>1, <3>1, <3>2, <4>1 DEF G!Blame, shared, Finished
        <4> QED BY <2>1, <4>2 DEF G!Next
      <3>3. CASE ~(err[m] # "none" /\ first = NoMetric)
        BY <1>1, <2>1, <2>10, <3>1, <3>3 DEF Return
      <3> QED BY <3>2, <3>3
    <2> QED BY <1>2, <2>2, <2>3, <2>4, <2>5, <2>6, <2>7, <2>8, <2>9, <2>10 DEF Worker
  <1>3. CASE StartWait
    <2>1. UNCHANGED <<shared, first>> /\ Pending' = Pending
      BY <1>3 DEF StartWait, Merged, group
    <2>2. Verdict = "running" /\ Verdict' = "running"
      BY <1>3 DEF StartWait, Finished
    <2> QED BY <2>1, <2>2 DEF G!vars, shared
  <1>4. CASE WaitReturns
    <2>1. UNCHANGED <<shared, first>> /\ Pending' = Pending
      BY <1>4 DEF WaitReturns, Merged, group
    <2>2. first = NoMetric => Pending = {}
      BY <1>4 DEF WaitReturns, Merged, ErrInv
    <2>3. Verdict = "running" /\ Verdict' = IF first = NoMetric THEN "ok" ELSE "failed"
      BY <1>4 DEF WaitReturns, Finished
    <2>4. G!Finish
      BY <2>1, <2>2, <2>3 DEF G!Finish, shared
    <2> QED BY <2>3, <2>4 DEF G!Next
  <1>5. CASE UNCHANGED vars
    BY <1>1, <1>5 DEF vars, group, Merged
  <1> QED BY <1>2, <1>3, <1>4, <1>5 DEF Next

\* The parallel fetch implements Gather.
THEOREM FetchImplementsGather == Spec => ImplementsGather
  <1>1. Spec => G!Init /\ [][G!Next]_(G!vars)
    BY RefinesInit, RefinesStep, ErrAlways, PTL DEF Spec
  <1> QED BY <1>1 DEF ImplementsGather, G!Spec
=============================================================================
