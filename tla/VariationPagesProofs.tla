----------------------- MODULE VariationPagesProofs -----------------------
(***************************************************************************)
(* Proofs about VariationPages, for every window, every lists of           *)
(* variations and every page size.                                         *)
(***************************************************************************)
EXTENDS VariationPages, FoldTheorems, FiniteSetTheorems, TLAPS

\* What was listed at the start has been read or lies at or behind offset,
\* since the service moves rows only towards the end; and the function returns
\* only when offset is behind every list.
PageInv ==
  /\ pos \in [Days -> [Rows -> Int]]
  /\ len \in [Days -> Nat]
  /\ offset \in Nat
  /\ initial \subseteq Cells
  /\ \A d \in Days, r \in Rows : pos[d][r] < len[d]
  /\ \A d \in Days, r \in Rows : <<d, r>> \in initial =>
       pos[d][r] >= 0 /\ (<<d, r>> \in read \/ pos[d][r] >= offset)
  /\ pc = "done" => \A d \in Days : offset >= len[d]
  /\ pc # "done" /\ offset > 0 => \E d \in Days : offset < len[d]
  /\ RequestsBounded

LEMMA PageInit == Init => PageInv
  <1> SUFFICES ASSUME Init PROVE PageInv
    OBVIOUS
  <1>1. ASSUME NEW d \in Days
        PROVE  /\ len[d] \in Nat
               /\ len[d] = Cardinality({r \in Rows : pos[d][r] # Unlisted})
    BY RowsAssumption, FS_Subset, FS_CardinalityType DEF Init
  <1>2. ASSUME NEW d \in Days, NEW r \in Rows
        PROVE  /\ pos[d] \in [Rows -> Int]
               /\ pos[d][r] >= Unlisted
               /\ pos[d][r] < len[d]
    <2>1. pos[d] \in Lists
      BY DEF Init
    <2>2. Cardinality(Rows) \in Nat
      BY RowsAssumption, FS_CardinalityType
    <2>3. pos[d] \in [Rows -> Unlisted..(Cardinality(Rows) - 1)]
      BY <2>1 DEF Lists
    <2>4. IsList(pos[d], Cardinality({q \in Rows : pos[d][q] # Unlisted}))
      BY <2>1 DEF Lists
    <2>5. pos[d][r] < len[d]
      BY <1>1, <2>4 DEF IsList
    <2> QED BY <2>2, <2>3, <2>5 DEF Unlisted
  <1>3. pos \in [Days -> [Rows -> Int]] /\ len \in [Days -> Nat]
    <2>1. pos \in [Days -> Lists] /\ Lists \subseteq [Rows -> Int]
      <3>1. Cardinality(Rows) \in Nat
        BY RowsAssumption, FS_CardinalityType
      <3>2. Unlisted..(Cardinality(Rows) - 1) \subseteq Int
        OBVIOUS
      <3> QED BY <3>2 DEF Lists, Init
    <2>2. len = [d \in Days |-> len[d]]
      BY DEF Init
    <2> QED BY <1>1, <2>1, <2>2
  <1>4. \A d \in Days, r \in Rows : <<d, r>> \in initial => pos[d][r] >= 0
    <2> SUFFICES ASSUME NEW d \in Days, NEW r \in Rows, <<d, r>> \in initial
                 PROVE  pos[d][r] >= 0
      OBVIOUS
    <2>1. Listed(<<d, r>>)
      BY DEF Init
    <2>2. pos[d][r] # Unlisted
      BY <2>1 DEF Listed
    <2> QED BY <1>2, <2>2 DEF Unlisted
  <1>5. pc = "fetch" /\ offset = 0 /\ initial \subseteq Cells
    BY DEF Init
  <1>6. \A d \in Days, r \in Rows : pos[d][r] < len[d]
    BY <1>2
  <1>7. RequestsBounded
    BY <1>5, PageSizeAssumption DEF RequestsBounded
  <1> QED BY <1>3, <1>4, <1>5, <1>6, <1>7 DEF PageInv

LEMMA PageStep == PageInv /\ [Next]_vars => PageInv'
  <1> SUFFICES ASSUME PageInv, [Next]_vars PROVE PageInv'
    OBVIOUS
  <1> USE PageSizeAssumption DEF PageInv, RequestsBounded, client, history
  <1>1. ASSUME NEW d \in Days, NEW r \in Rows, NEW i \in 0..len[d], TakeIn(d, r, i)
        PROVE  PageInv'
    <2> DEFINE moved == [q \in Rows |-> IF q = r THEN i
                                        ELSE IF pos[d][q] >= i THEN pos[d][q] + 1
                                        ELSE pos[d][q]]
    <2>1. pos' = [pos EXCEPT ![d] = moved] /\ moved \in [Rows -> Int]
      BY <1>1 DEF TakeIn
    <2>2. len' = [len EXCEPT ![d] = len[d] + 1] /\ pc = "fetch"
      BY <1>1 DEF TakeIn
    <2>3. \A q \in Rows : /\ moved[q] < len[d] + 1
                          /\ q # r => moved[q] >= pos[d][q]
      OBVIOUS
    <2>4. pos[d][r] = Unlisted /\ <<d, r>> \notin initial
      BY <1>1 DEF TakeIn, Unlisted
    <2> HIDE DEF moved
    <2>5. \A e \in Days, q \in Rows : pos'[e][q] = IF e = d THEN moved[q] ELSE pos[e][q]
      BY <2>1
    <2>6. \A e \in Days : len'[e] = IF e = d THEN len[d] + 1 ELSE len[e]
      BY <2>2
    <2>7. pos' \in [Days -> [Rows -> Int]] /\ len' \in [Days -> Nat]
      BY <2>1, <2>2
    <2>8. \A e \in Days, q \in Rows : pos'[e][q] < len'[e]
      BY <2>3, <2>5, <2>6
    <2>9. \A e \in Days, q \in Rows : <<e, q>> \in initial =>
            pos'[e][q] >= 0 /\ (<<e, q>> \in read \/ pos'[e][q] >= offset)
      <3> SUFFICES ASSUME NEW e \in Days, NEW q \in Rows, <<e, q>> \in initial
                   PROVE  pos'[e][q] >= pos[e][q] /\ pos'[e][q] \in Int
        OBVIOUS
      <3>1. CASE e = d
        <4>1. q # r
          BY <2>4, <3>1
        <4> QED BY <2>1, <2>3, <2>5, <3>1, <4>1
      <3>2. CASE e # d
        BY <2>5, <3>2
      <3> QED BY <3>1, <3>2
    <2>10. offset > 0 => \E e \in Days : offset < len'[e]
      BY <2>2, <2>6
    <2>11. UNCHANGED <<pc, offset, initial, read>>
      BY <1>1 DEF TakeIn
    <2>12. offset > PageSize => \E e \in Days : offset - PageSize < len'[e]
      BY <2>2, <2>6
    <2> QED BY <2>2, <2>7, <2>8, <2>9, <2>10, <2>11, <2>12
  <1>2. CASE FetchPage
    <2>1. offset' = offset + PageSize /\ offset' \in Nat
      BY <1>2 DEF FetchPage, NextOffset
    <2>2. ASSUME NEW d \in Days, NEW r \in Rows, <<d, r>> \in initial
          PROVE  <<d, r>> \in read' \/ pos[d][r] >= offset'
      <3>1. CASE <<d, r>> \in read
        BY <1>2, <3>1 DEF FetchPage
      <3>2. CASE pos[d][r] >= offset /\ pos[d][r] < offset + PageSize
        <4>1. pos[d][r] \in offset..(offset + PageSize - 1)
          BY <3>2
        <4>2. <<d, r>> \in Page(offset)
          BY <4>1 DEF Page, Cells
        <4> QED BY <1>2, <4>2 DEF FetchPage
      <3>3. CASE pos[d][r] >= offset + PageSize
        BY <2>1, <3>3
      <3> QED BY <2>2, <3>1, <3>2, <3>3
    <2>3. pc' = "done" => \A d \in Days : offset' >= len[d]
      BY <1>2 DEF FetchPage, NextOffset, Exhausted
    <2>4. pc' # "done" => \E d \in Days : offset' < len[d]
      BY <1>2 DEF FetchPage, NextOffset, Exhausted
    <2>5. offset' > PageSize => \E d \in Days : offset' - PageSize < len[d]
      BY <1>2, <2>1 DEF FetchPage
    <2> QED BY <1>2, <2>1, <2>2, <2>3, <2>4, <2>5 DEF FetchPage
  <1>3. CASE FetchFails
    BY <1>3 DEF FetchFails
  <1>4. CASE UNCHANGED vars
    BY <1>4 DEF vars
  <1> QED BY <1>1, <1>2, <1>3, <1>4 DEF Next

LEMMA PageAlways == Spec => []PageInv
  BY PageInit, PageStep, PTL DEF Spec

\* No variation that was listed at the call is missing from the result.
THEOREM AllRowsRead == Spec => []NoRowMissed
  <1>1. PageInv => NoRowMissed
    <2> SUFFICES ASSUME PageInv, pc = "done", NEW x \in initial PROVE x \in read
      BY DEF NoRowMissed
    <2>1. PICK d \in Days, r \in Rows : x = <<d, r>>
      BY DEF PageInv, Cells
    <2> QED BY <2>1 DEF PageInv
  <1> QED BY <1>1, PageAlways, PTL

\* No request after the first is for rows behind the end of every list.
THEOREM NoEmptyRequest == Spec => []RequestsBounded
  <1>1. PageInv => RequestsBounded
    BY DEF PageInv
  <1> QED BY <1>1, PageAlways, PTL
-----------------------------------------------------------------------------
(* What the pages add up to.                                               *)

\* The rows that lie in front of position o.
Behind(p, o) == {x \in Cells : p[x[1]][x[2]] \in 0..(o - 1)}

\* The sums are those of the rows behind offset, as long as no row has moved.
SumInv ==
  /\ TypeOK
  /\ \A d \in Days, r \in Rows : pos[d][r] >= Unlisted
  /\ ~changed => out = Fold(NoUsage, Behind(pos, offset))

LEMMA CellsFinite == IsFiniteSet(Cells)
  BY DaysAssumption, RowsAssumption, FS_Product DEF Cells

LEMMA UnitsOfIsNat == \A x \in Cells : UnitsOf[x] \in Nat
  BY UnitsAssumption DEF UnitsOf, Cells

\* What a key gets of some rows is a number.
LEMMA SharesAreNat ==
  ASSUME NEW page, page \subseteq Cells, NEW k
  PROVE  /\ IsFiniteSet(OfKey(page, k))
         /\ SumFunctionOnSet(UnitsOf, OfKey(page, k)) \in Nat
         /\ Cardinality(OfKey(page, k)) \in Nat
  <1>1. OfKey(page, k) \subseteq Cells
    BY DEF OfKey
  <1>2. IsFiniteSet(OfKey(page, k))
    BY <1>1, CellsFinite, FS_Subset
  <1> QED
    BY <1>1, <1>2, UnitsOfIsNat, SumIsNat, FS_CardinalityType

LEMMA CardinalityDisjoint ==
  ASSUME NEW a, IsFiniteSet(a), NEW b, IsFiniteSet(b), a \cap b = {}
  PROVE  Cardinality(a \cup b) = Cardinality(a) + Cardinality(b)
  <1>1. Cardinality({}) = 0
    BY FS_EmptySet
  <1>2. Cardinality(a) \in Nat /\ Cardinality(b) \in Nat
    BY FS_CardinalityType
  <1>3. Cardinality(a \cup b) = Cardinality(a) + Cardinality(b) - Cardinality(a \cap b)
    BY FS_Union
  <1>4. Cardinality(a \cap b) = 0
    BY <1>1, Zenon
  <1> QED BY <1>2, <1>3, <1>4

IsUsage(sums) == \A k \in Keys : sums[k].units \in Nat /\ sums[k].days \in Nat

LEMMA FoldIsUsage ==
  ASSUME NEW sums, IsUsage(sums), NEW page, page \subseteq Cells
  PROVE  DOMAIN Fold(sums, page) = Keys /\ IsUsage(Fold(sums, page))
  <1>1. \A k \in Keys : /\ SumFunctionOnSet(UnitsOf, OfKey(page, k)) \in Nat
                        /\ Cardinality(OfKey(page, k)) \in Nat
    BY SharesAreNat
  <1> QED
    BY <1>1 DEF Fold, IsUsage

LEMMA NoUsageIsUsage == DOMAIN NoUsage = Keys /\ IsUsage(NoUsage)
  BY DEF NoUsage, IsUsage

\* One page after another is both at once, if they have no row in common.
LEMMA FoldTwice ==
  ASSUME NEW a, a \subseteq Cells, NEW b, b \subseteq Cells, a \cap b = {},
         NEW sums, IsUsage(sums)
  PROVE  Fold(Fold(sums, a), b) = Fold(sums, a \cup b)
  <1>1. ASSUME NEW k \in Keys
        PROVE  /\ SumFunctionOnSet(UnitsOf, OfKey(a \cup b, k)) =
                    SumFunctionOnSet(UnitsOf, OfKey(a, k)) + SumFunctionOnSet(UnitsOf, OfKey(b, k))
               /\ Cardinality(OfKey(a \cup b, k)) =
                    Cardinality(OfKey(a, k)) + Cardinality(OfKey(b, k))
    <2>1. /\ OfKey(a \cup b, k) = OfKey(a, k) \cup OfKey(b, k)
          /\ OfKey(a, k) \cap OfKey(b, k) = {}
          /\ OfKey(a, k) \subseteq Cells /\ OfKey(b, k) \subseteq Cells
      BY DEF OfKey
    <2>2. IsFiniteSet(OfKey(a, k)) /\ IsFiniteSet(OfKey(b, k))
      BY SharesAreNat
    <2>3. \A x \in OfKey(a, k) \cup OfKey(b, k) : UnitsOf[x] \in Nat
      BY <2>1, UnitsOfIsNat
    <2>4. Cardinality(OfKey(a, k) \cup OfKey(b, k)) = Cardinality(OfKey(a, k)) + Cardinality(OfKey(b, k))
      BY <2>1, <2>2, CardinalityDisjoint
    <2> QED BY <2>1, <2>2, <2>3, <2>4, SumDisjoint
  <1>2. ASSUME NEW k \in Keys
        PROVE  /\ SumFunctionOnSet(UnitsOf, OfKey(a, k)) \in Nat
               /\ SumFunctionOnSet(UnitsOf, OfKey(b, k)) \in Nat
               /\ Cardinality(OfKey(a, k)) \in Nat
               /\ Cardinality(OfKey(b, k)) \in Nat
               /\ sums[k].units \in Nat /\ sums[k].days \in Nat
    BY SharesAreNat DEF IsUsage
  <1>3. ASSUME NEW k \in Keys
        PROVE  Fold(Fold(sums, a), b)[k] = Fold(sums, a \cup b)[k]
    <2> DEFINE ua == SumFunctionOnSet(UnitsOf, OfKey(a, k))
               ub == SumFunctionOnSet(UnitsOf, OfKey(b, k))
               da == Cardinality(OfKey(a, k))
               db == Cardinality(OfKey(b, k))
    <2>1. Fold(sums, a)[k] = [units |-> sums[k].units + ua, days |-> sums[k].days + da]
      BY DEF Fold
    <2>2. Fold(Fold(sums, a), b)[k] =
            [units |-> Fold(sums, a)[k].units + ub, days |-> Fold(sums, a)[k].days + db]
      BY DEF Fold
    <2>3. Fold(sums, a \cup b)[k] =
            [units |-> sums[k].units + (ua + ub), days |-> sums[k].days + (da + db)]
      BY <1>1 DEF Fold
    <2> HIDE DEF ua, ub, da, db
    <2>4. ua \in Nat /\ ub \in Nat /\ da \in Nat /\ db \in Nat
      BY <1>2 DEF ua, ub, da, db
    <2> QED BY <1>2, <2>1, <2>2, <2>3, <2>4
  <1> QED
    BY <1>3 DEF Fold

\* What lies behind a page is what lay behind the one before it, and its rows.
LEMMA NextBehind ==
  ASSUME PageInv
  PROVE  /\ Behind(pos, offset + PageSize) = Behind(pos, offset) \cup Page(offset)
         /\ Behind(pos, offset) \cap Page(offset) = {}
  <1>1. ASSUME NEW x \in Cells
        PROVE  /\ x \in Behind(pos, offset + PageSize) <=> x \in Behind(pos, offset) \/ x \in Page(offset)
               /\ ~(x \in Behind(pos, offset) /\ x \in Page(offset))
    <2> DEFINE p == pos[x[1]][x[2]]
               next == offset + PageSize
    <2>1. p \in Int /\ offset \in Nat /\ PageSize \in Nat \ {0}
      BY PageSizeAssumption DEF Cells, PageInv
    <2>2. /\ x \in Behind(pos, next) <=> p \in 0..(next - 1)
          /\ x \in Behind(pos, offset) <=> p \in 0..(offset - 1)
          /\ x \in Page(offset) <=> p \in offset..(offset + PageSize - 1)
      BY DEF Behind, Page
    <2>3. next = offset + PageSize
      OBVIOUS
    <2> HIDE DEF p, next
    <2>4. /\ x \in Behind(pos, next) <=> x \in Behind(pos, offset) \/ x \in Page(offset)
          /\ ~(x \in Behind(pos, offset) /\ x \in Page(offset))
      BY <2>1, <2>2, <2>3
    <2> QED BY <2>4 DEF next
  <1>2. /\ Behind(pos, offset + PageSize) \subseteq Cells
        /\ Behind(pos, offset) \subseteq Cells /\ Page(offset) \subseteq Cells
    BY DEF Behind, Page
  <1> QED BY <1>1, <1>2

LEMMA SumInit == Init => SumInv
  <1> SUFFICES ASSUME Init PROVE SumInv
    OBVIOUS
  <1>1. PageInv
    BY PageInit
  <1>2. \A d \in Days, r \in Rows : pos[d][r] >= Unlisted
    <2> SUFFICES ASSUME NEW d \in Days, NEW r \in Rows PROVE pos[d][r] >= Unlisted
      OBVIOUS
    <2>1. Cardinality(Rows) \in Nat
      BY RowsAssumption, FS_CardinalityType
    <2>2. pos[d] \in [Rows -> Unlisted..(Cardinality(Rows) - 1)]
      BY DEF Init, Lists
    <2>3. pos[d][r] \in Unlisted..(Cardinality(Rows) - 1)
      BY <2>2
    <2> QED BY <2>1, <2>3 DEF Unlisted
  <1>3. TypeOK
    <2>1. pc = "fetch" /\ offset = 0 /\ out = NoUsage /\ read = {} /\ changed = FALSE
      BY DEF Init
    <2>2. 0 \in 0..0 /\ 0 = 0 * PageSize
      BY PageSizeAssumption
    <2> QED BY <1>1, <2>1, <2>2, NoUsageIsUsage DEF PageInv, TypeOK, IsUsage
  <1>4. out = Fold(NoUsage, Behind(pos, offset))
    <2>1. Behind(pos, offset) = {}
      BY DEF Init, Behind
    <2>2. \A k \in Keys : OfKey({}, k) = {}
      BY DEF OfKey
    <2>3. SumFunctionOnSet(UnitsOf, {}) = 0 /\ Cardinality({}) = 0
      BY SumEmpty, FS_EmptySet
    <2>4. Fold(NoUsage, {}) = NoUsage
      BY <2>2, <2>3 DEF Fold, NoUsage
    <2> QED BY <2>1, <2>4 DEF Init
  <1> QED BY <1>2, <1>3, <1>4 DEF SumInv

LEMMA SumStep == PageInv /\ SumInv /\ [Next]_vars => SumInv'
  <1> SUFFICES ASSUME PageInv, SumInv, [Next]_vars PROVE SumInv'
    OBVIOUS
  <1>1. PageInv'
    BY PageStep
  <1>2. ASSUME NEW d \in Days, NEW r \in Rows, NEW i \in 0..len[d], TakeIn(d, r, i)
        PROVE  SumInv'
    <2>1. UNCHANGED <<client, initial, read>> /\ changed' = TRUE
      BY <1>2 DEF TakeIn
    <2>2. ASSUME NEW e \in Days, NEW q \in Rows
          PROVE  pos'[e][q] >= Unlisted
      <3> DEFINE moved == [p \in Rows |-> IF p = r THEN i
                                          ELSE IF pos[d][p] >= i THEN pos[d][p] + 1
                                          ELSE pos[d][p]]
      <3>1. pos' = [pos EXCEPT ![d] = moved]
        BY <1>2 DEF TakeIn
      <3>2. \A p \in Rows : moved[p] >= Unlisted
        BY DEF SumInv, PageInv, Unlisted
      <3> HIDE DEF moved
      <3>3. pos'[e][q] = IF e = d THEN moved[q] ELSE pos[e][q]
        BY <3>1 DEF PageInv
      <3> QED BY <3>2, <3>3 DEF SumInv
    <2>3. TypeOK'
      BY <1>1, <2>1 DEF SumInv, TypeOK, PageInv, client
    <2> QED BY <2>1, <2>2, <2>3 DEF SumInv
  <1>3. CASE FetchPage
    <2>1. /\ out' = Fold(out, Page(offset)) /\ offset' = offset + PageSize
          /\ pc' \in {"fetch", "done"} /\ read' = read \cup Page(offset)
          /\ UNCHANGED <<pos, len, initial, changed>>
      BY <1>3 DEF FetchPage, NextOffset
    <2>2. Page(offset) \subseteq Cells /\ Behind(pos, offset) \subseteq Cells
      BY DEF Page, Behind
    <2>3. offset \in Nat /\ PageSize \in Nat \ {0}
      BY PageSizeAssumption DEF SumInv, TypeOK
    <2>4. offset' \in Nat /\ \E n \in 0..offset' : offset' = n * PageSize
      <3>1. PICK n \in 0..offset : offset = n * PageSize
        BY DEF SumInv, TypeOK
      <3>2. (n + 1) * PageSize = n * PageSize + PageSize
        BY <2>3
      <3>3. n + 1 \in 0..(offset + PageSize)
        BY <2>3
      <3> QED BY <2>1, <2>3, <3>1, <3>2, <3>3
    <2>5. DOMAIN out' = Keys /\ IsUsage(out')
      BY <2>1, <2>2, FoldIsUsage DEF SumInv, TypeOK, IsUsage
    <2>6. TypeOK'
      BY <2>1, <2>2, <2>4, <2>5 DEF SumInv, TypeOK, IsUsage
    <2>7. Behind(pos, offset') = Behind(pos, offset) \cup Page(offset) /\ Behind(pos, offset) \cap Page(offset) = {}
      <3>1. offset' = offset + PageSize
        BY <2>1
      <3> QED BY ONLY <3>1, NextBehind, PageInv
    <2>8. ASSUME ~changed
          PROVE  out' = Fold(NoUsage, Behind(pos, offset'))
      BY <2>1, <2>2, <2>7, <2>8, FoldTwice, NoUsageIsUsage DEF SumInv
    <2>9. pos' = pos /\ changed' = changed
      BY <2>1
    <2> QED BY <2>6, <2>8, <2>9 DEF SumInv
  <1>4. CASE FetchFails
    BY <1>4 DEF FetchFails, SumInv, TypeOK, Behind, history
  <1>5. CASE UNCHANGED vars
    BY <1>5 DEF vars, client, history, SumInv, TypeOK, Behind
  <1> QED BY <1>2, <1>3, <1>4, <1>5 DEF Next

LEMMA SumAlways == Spec => []SumInv
  <1>1. PageInv /\ PageInv' /\ SumInv /\ [Next]_vars => SumInv'
    BY SumStep
  <1> QED BY <1>1, SumInit, PageAlways, PTL DEF Spec

\* Every variable has its type, whatever the lists and the page size.
THEOREM Typed == Spec => []TypeOK
  <1>1. SumInv => TypeOK
    BY DEF SumInv
  <1> QED BY <1>1, SumAlways, PTL

\* Lists that do not change are summed up, each row of each day once.
THEOREM StillIsExact == Spec => []ExactIfStill
  <1>1. PageInv /\ SumInv => ExactIfStill
    <2> SUFFICES ASSUME PageInv, SumInv, pc = "done", ~changed
                 PROVE  out = Fold(NoUsage, {x \in Cells : Listed(x)})
      BY DEF ExactIfStill
    <2>1. \A x \in Cells : Listed(x) <=> x \in Behind(pos, offset)
      <3> SUFFICES ASSUME NEW d \in Days, NEW r \in Rows
                   PROVE  pos[d][r] # Unlisted <=> pos[d][r] \in 0..(offset - 1)
        BY DEF Listed, Behind, Cells
      <3>1. pos[d][r] \in Int /\ len[d] \in Nat /\ offset \in Nat
        BY DEF PageInv
      <3>2. pos[d][r] >= -1 /\ pos[d][r] < len[d] /\ offset >= len[d]
        BY DEF PageInv, SumInv, Unlisted
      <3> QED BY <3>1, <3>2 DEF Unlisted
    <2>2. {x \in Cells : Listed(x)} = Behind(pos, offset)
      BY <2>1 DEF Behind
    <2> QED BY <2>2 DEF SumInv
  <1> QED BY <1>1, PageAlways, SumAlways, PTL
-----------------------------------------------------------------------------
(* How much is added up if rows do move.                                   *)

\* A page adds to some of the keys as many rows as it has under these.
LEMMA CountFold ==
  ASSUME NEW sums, IsUsage(sums), NEW page, page \subseteq Cells
  PROVE  SumFunctionOnSet([k \in Keys |-> Fold(sums, page)[k].days], Keys) =
           SumFunctionOnSet([k \in Keys |-> sums[k].days], Keys) + Cardinality(page)
  <1> DEFINE f == [k \in Keys |-> sums[k].days]
             g == [k \in Keys |-> Fold(sums, page)[k].days]
             Of(K) == {x \in page : KeyOf[x[2]] \in K}
             B == {K \in SUBSET Keys :
                     SumFunctionOnSet(g, K) # SumFunctionOnSet(f, K) + Cardinality(Of(K))}
  <1>1. \A k \in Keys : g[k] = f[k] + Cardinality(OfKey(page, k))
    BY DEF Fold
  <1>2. \A k \in Keys : f[k] \in Nat
    BY DEF IsUsage
  <1>3. \A k \in Keys : Cardinality(OfKey(page, k)) \in Nat /\ IsFiniteSet(OfKey(page, k))
    BY SharesAreNat
  <1>4. \A k \in Keys : g[k] \in Nat
    BY <1>1, <1>2, <1>3
  <1>5. IsFiniteSet(page) /\ \A K : IsFiniteSet(Of(K))
    <2>1. \A K : Of(K) \subseteq Cells
      OBVIOUS
    <2> HIDE DEF Of
    <2> QED BY <2>1, CellsFinite, FS_Subset
  <1> HIDE DEF f, g
  <1>6. B = {}
    <2> SUFFICES ASSUME B # {} PROVE FALSE
      OBVIOUS
    <2>1. PICK K \in B : \A u \in B : u \subseteq K => u = K
      <3>1. B \subseteq SUBSET Keys
        OBVIOUS
      <3> HIDE DEF B
      <3> QED BY <3>1, KeysAssumption, Smallest
    <2>2. K \subseteq Keys /\ IsFiniteSet(K)
      BY <2>1, KeysAssumption, FS_Subset
    <2>3. SumFunctionOnSet(g, K) # SumFunctionOnSet(f, K) + Cardinality(Of(K))
      BY <2>1
    <2>4. K # {}
      <3>1. Of({}) = {} /\ Cardinality({}) = 0
        BY FS_EmptySet
      <3>2. SumFunctionOnSet(g, {}) = 0 /\ SumFunctionOnSet(f, {}) = 0
        BY SumEmpty
      <3> HIDE DEF Of
      <3> QED BY <2>3, <3>1, <3>2
    <2>5. PICK k \in K : TRUE
      BY <2>4
    <2> DEFINE u == K \ {k}
    <2>6. u \notin B /\ u \subseteq Keys /\ IsFiniteSet(u)
      BY <2>1, <2>2, <2>5, FS_Subset
    <2>7. SumFunctionOnSet(g, u) = SumFunctionOnSet(f, u) + Cardinality(Of(u))
      BY <2>6
    <2>8. SumFunctionOnSet(g, K) = g[k] + SumFunctionOnSet(g, u)
      BY <1>4, <2>2, <2>5, SumRemove
    <2>9. SumFunctionOnSet(f, K) = f[k] + SumFunctionOnSet(f, u)
      BY <1>2, <2>2, <2>5, SumRemove
    <2>10. Cardinality(Of(K)) = Cardinality(OfKey(page, k)) + Cardinality(Of(u))
      <3>1. Of(K) = OfKey(page, k) \cup Of(u) /\ OfKey(page, k) \cap Of(u) = {}
        BY <2>5 DEF OfKey
      <3>2. IsFiniteSet(OfKey(page, k)) /\ IsFiniteSet(Of(u))
        BY <1>3, <1>5, <2>2
      <3> HIDE DEF Of, u
      <3> QED BY <3>1, <3>2, CardinalityDisjoint
    <2>11. /\ SumFunctionOnSet(f, u) \in Nat /\ Cardinality(Of(u)) \in Nat
           /\ f[k] \in Nat /\ g[k] = f[k] + Cardinality(OfKey(page, k))
           /\ Cardinality(OfKey(page, k)) \in Nat
      <3>1. \A y \in u : f[y] \in Nat
        BY <1>2, <2>6
      <3>2. SumFunctionOnSet(f, u) \in Nat
        BY <2>6, <3>1, SumIsNat
      <3>3. Cardinality(Of(u)) \in Nat
        BY <1>5, FS_CardinalityType
      <3> QED BY <1>1, <1>2, <1>3, <2>2, <2>5, <3>2, <3>3
    <2> HIDE DEF Of, u, B
    <2> QED BY <2>3, <2>7, <2>8, <2>9, <2>10, <2>11
  <1>7. Of(Keys) = page
    BY KeyOfAssumption DEF Cells
  <1>8. SumFunctionOnSet(g, Keys) = SumFunctionOnSet(f, Keys) + Cardinality(Of(Keys))
    BY <1>6
  <1> HIDE DEF Of
  <1> QED BY <1>7, <1>8 DEF f, g

\* No two rows of a list have one place, and no more has been counted than lies
\* in front of offset.
CountInv ==
  /\ \A d \in Days : \A q, r \in Rows :
       q # r /\ pos[d][q] # Unlisted => pos[d][q] # pos[d][r]
  /\ Counted <= Cardinality(Behind(pos, offset))

LEMMA BehindFinite == \A p, o : IsFiniteSet(Behind(p, o)) /\ Cardinality(Behind(p, o)) \in Nat
  <1>1. \A p, o : Behind(p, o) \subseteq Cells
    BY DEF Behind
  <1> QED BY <1>1, CellsFinite, FS_Subset, FS_CardinalityType

LEMMA CountedIsNat ==
  ASSUME IsUsage(out)
  PROVE  Counted \in Nat
  BY KeysAssumption, SumIsNat DEF IsUsage, Counted

LEMMA CountInit == Init => CountInv
  <1> SUFFICES ASSUME Init PROVE CountInv
    OBVIOUS
  <1>1. ASSUME NEW d \in Days, NEW q \in Rows, NEW r \in Rows, q # r, pos[d][q] # Unlisted
        PROVE  pos[d][q] # pos[d][r]
    <2> DEFINE n == Cardinality({x \in Rows : pos[d][x] # Unlisted})
    <2>1. pos[d] \in [Rows -> Unlisted..(Cardinality(Rows) - 1)] /\ IsList(pos[d], n)
      BY DEF Init, Lists
    <2>2. Cardinality(Rows) \in Nat /\ n \in Nat
      BY RowsAssumption, FS_Subset, FS_CardinalityType
    <2>3. pos[d][q] \in Unlisted..(Cardinality(Rows) - 1) /\ pos[d][q] < n
      BY <2>1 DEF IsList
    <2> HIDE DEF n
    <2>4. pos[d][q] \in 0..(n - 1)
      BY <1>1, <2>2, <2>3 DEF Unlisted
    <2>5. PICK x \in Rows : pos[d][x] = pos[d][q] /\ \A y \in Rows \ {x} : pos[d][y] # pos[d][q]
      BY <2>1, <2>4 DEF IsList
    <2>6. x = q
      BY <2>5
    <2> QED BY <1>1, <2>5, <2>6
  <1>2. Counted = 0
    <2>1. \A k \in Keys : [l \in Keys |-> out[l].days][k] = 0
      BY DEF Init, NoUsage
    <2> DEFINE f == [l \in Keys |-> out[l].days]
    <2> HIDE DEF f
    <2>2. SumFunctionOnSet(f, Keys) = 0 * Cardinality(Keys)
      BY <2>1, KeysAssumption, SumConstant DEF f
    <2>3. Cardinality(Keys) \in Nat
      BY KeysAssumption, FS_CardinalityType
    <2> QED BY <2>2, <2>3 DEF Counted, f
  <1> QED BY <1>1, <1>2, BehindFinite DEF CountInv

\* A row that is put in front of offset pushes at most one other behind it.
LEMMA CountTakeIn ==
  ASSUME PageInv, SumInv, CountInv,
         NEW d \in Days, NEW r \in Rows, NEW i \in 0..len[d], TakeIn(d, r, i)
  PROVE  CountInv'
  <1> DEFINE moved == [q \in Rows |-> IF q = r THEN i
                                      ELSE IF pos[d][q] >= i THEN pos[d][q] + 1
                                      ELSE pos[d][q]]
             old == Behind(pos, offset)
             new == Behind(pos', offset)
  <1>1. pos' = [pos EXCEPT ![d] = moved] /\ UNCHANGED <<client, initial, read>>
    BY DEF TakeIn
  <1>2. \A q \in Rows : pos[d][q] \in Int /\ pos[d][q] >= -1
    BY DEF PageInv, SumInv, Unlisted
  <1>3. pos[d][r] = -1 /\ i \in Nat /\ offset \in Nat
    BY DEF TakeIn, PageInv, Unlisted
  <1>4. \A q, s \in Rows : q # s /\ pos[d][q] # -1 => pos[d][q] # pos[d][s]
    BY DEF CountInv, Unlisted
  <1>5. /\ \A q \in Rows : moved[q] \in Int
        /\ moved[r] = i
        /\ \A q \in Rows \ {r} : moved[q] = IF pos[d][q] >= i THEN pos[d][q] + 1 ELSE pos[d][q]
    BY <1>2, <1>3
  <1> HIDE DEF moved
  <1>6. \A q, s \in Rows : q # s /\ moved[q] # -1 => moved[q] # moved[s]
    BY <1>2, <1>3, <1>4, <1>5
  <1>7. \A e \in Days, q \in Rows : pos'[e][q] = IF e = d THEN moved[q] ELSE pos[e][q]
    BY <1>1 DEF PageInv
  <1>8. \A e \in Days : \A q, s \in Rows :
          q # s /\ pos'[e][q] # Unlisted => pos'[e][q] # pos'[e][s]
    BY <1>6, <1>7 DEF CountInv, Unlisted
  <1>9. /\ \A e \in Days, q \in Rows : <<e, q>> \in old <=> pos[e][q] \in 0..(offset - 1)
        /\ \A e \in Days, q \in Rows : <<e, q>> \in new <=> pos'[e][q] \in 0..(offset - 1)
        /\ old \subseteq Cells /\ new \subseteq Cells
    BY DEF Behind, Cells
  <1>10. /\ IsFiniteSet(old) /\ Cardinality(old) \in Nat
         /\ IsFiniteSet(new) /\ Cardinality(new) \in Nat
    BY BehindFinite
  <1> HIDE DEF old, new
  <1>11. \A e \in Days, q \in Rows :
           <<e, q>> \in old => <<e, q>> \in new \/ (e = d /\ i < offset /\ pos[d][q] = offset - 1)
    BY <1>2, <1>3, <1>5, <1>7, <1>9
  <1>12. Cardinality(old) <= Cardinality(new)
    <2>1. CASE old \subseteq new
      BY <1>10, <2>1, FS_Subset
    <2>2. CASE ~(old \subseteq new)
      <3>1. PICK y \in old : y \notin new
        BY <2>2
      <3>2. PICK q \in Rows : y = <<d, q>> /\ i < offset /\ pos[d][q] = offset - 1
        BY <1>9, <1>11, <3>1 DEF Cells
      <3>3. <<d, r>> \notin old /\ <<d, r>> \in new
        BY <1>3, <1>5, <1>7, <1>9, <3>2
      <3>4. \A x \in old \ {y} : x \in new
        <4> SUFFICES ASSUME NEW e \in Days, NEW s \in Rows, <<e, s>> \in old, <<e, s>> # y
                     PROVE  <<e, s>> \in new
          BY <1>9 DEF Cells
        <4>1. e # d \/ s # q
          BY <3>2
        <4>2. e = d => pos[d][s] # offset - 1
          BY <1>3, <1>4, <3>2, <4>1
        <4> QED BY <1>11, <4>2
      <3> DEFINE kept == old \ {y}
      <3>5. IsFiniteSet(kept) /\ Cardinality(kept) = Cardinality(old) - 1
        BY <1>10, <3>1, FS_RemoveElement
      <3>6. <<d, r>> \notin kept /\ kept \cup {<<d, r>>} \subseteq new
        BY <3>3, <3>4
      <3> HIDE DEF kept
      <3>7. Cardinality(kept \cup {<<d, r>>}) = Cardinality(kept) + 1
        BY <3>5, <3>6, FS_AddElement
      <3>8. Cardinality(kept \cup {<<d, r>>}) <= Cardinality(new)
        BY <1>10, <3>6, FS_Subset
      <3> QED BY <1>10, <3>5, <3>7, <3>8
    <2> QED BY <2>1, <2>2
  <1>13. Counted' = Counted /\ offset' = offset /\ Counted \in Nat
    <2>1. out' = out /\ offset' = offset
      BY <1>1 DEF client
    <2> QED BY <2>1, CountedIsNat DEF Counted, SumInv, TypeOK, IsUsage
  <1>14. Counted <= Cardinality(old)
    BY DEF CountInv, old
  <1>15. Counted <= Cardinality(new)
    BY <1>10, <1>12, <1>13, <1>14
  <1> QED BY <1>8, <1>13, <1>15 DEF CountInv, new

LEMMA CountStep == PageInv /\ SumInv /\ CountInv /\ [Next]_vars => CountInv'
  <1> SUFFICES ASSUME PageInv, SumInv, CountInv, [Next]_vars PROVE CountInv'
    OBVIOUS
  <1>1. ASSUME NEW d \in Days, NEW r \in Rows, NEW i \in 0..len[d], TakeIn(d, r, i)
        PROVE  CountInv'
    BY <1>1, CountTakeIn
  <1>2. CASE FetchPage
    <2>1. out' = Fold(out, Page(offset)) /\ offset' = offset + PageSize /\ pos' = pos
      BY <1>2 DEF FetchPage, NextOffset
    <2>2. IsUsage(out) /\ Page(offset) \subseteq Cells
      BY DEF SumInv, TypeOK, IsUsage, Page
    <2>3. Counted' = Counted + Cardinality(Page(offset))
      BY <2>1, <2>2, CountFold DEF Counted
    <2>4. IsFiniteSet(Page(offset)) /\ Cardinality(Page(offset)) \in Nat
      BY <2>2, CellsFinite, FS_Subset, FS_CardinalityType
    <2>5. Cardinality(Behind(pos, offset + PageSize)) =
            Cardinality(Behind(pos, offset)) + Cardinality(Page(offset))
      BY <2>4, NextBehind, BehindFinite, CardinalityDisjoint
    <2>6. Counted \in Nat
      BY <2>2, CountedIsNat
    <2>7. Counted' <= Cardinality(Behind(pos, offset + PageSize))
      BY <2>3, <2>4, <2>5, <2>6, BehindFinite DEF CountInv
    <2> QED BY <2>1, <2>7 DEF CountInv
  <1>3. CASE FetchFails \/ UNCHANGED vars
    <2>1. UNCHANGED <<pos, offset, out>>
      BY <1>3 DEF FetchFails, vars, client
    <2> QED BY <2>1 DEF CountInv, Counted
  <1> QED BY <1>1, <1>2, <1>3 DEF Next

LEMMA CountAlways == Spec => []CountInv
  BY CountInit, CountStep, PageAlways, SumAlways, PTL DEF Spec

\* However rows move, no more of them are added up than the lists have.
THEOREM RepetitionsBounded == Spec => []CountedWithinLists
  <1>1. PageInv /\ SumInv /\ CountInv => CountedWithinLists
    <2> SUFFICES ASSUME PageInv, SumInv, CountInv PROVE CountedWithinLists
      OBVIOUS
    <2> DEFINE listed == {x \in Cells : Listed(x)}
    <2>1. Behind(pos, offset) \subseteq listed
      BY DEF Behind, Listed, Unlisted
    <2>2. IsFiniteSet(listed) /\ Cardinality(listed) \in Nat
      BY CellsFinite, FS_Subset, FS_CardinalityType
    <2> HIDE DEF listed
    <2>3. Cardinality(Behind(pos, offset)) <= Cardinality(listed)
      BY <2>1, <2>2, FS_Subset
    <2>4. Counted \in Nat
      BY CountedIsNat DEF SumInv, TypeOK, IsUsage
    <2> QED BY <2>2, <2>3, <2>4, BehindFinite DEF CountInv, CountedWithinLists, listed
  <1> QED BY <1>1, PageAlways, SumAlways, CountAlways, PTL
=============================================================================
