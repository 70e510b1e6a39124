-------------------------- MODULE VariationPages --------------------------
(***************************************************************************)
(* FetchVariationUnits, internal/metricusage/client.go: the billing rows   *)
(* (variations) of one metric over a window of days, page by page, folded  *)
(* into one sum per set of label names.                                    *)
(*                                                                         *)
(* The billing service is external.  It lists the variations of each day   *)
(* separately and applies start_offset and length to each day's list.  A   *)
(* request sees one state of the lists.  Between two requests the service  *)
(* may take in a new variation, anywhere in the list of a day that is      *)
(* still open (today); it never takes one out nor reorders them.           *)
(***************************************************************************)
EXTENDS Integers, FiniteSets, Functions

CONSTANTS
  Days,      \* the days from startDay to endDay
  OpenDays,  \* those of which the service still takes in data
  Rows,      \* the variations that a day's list may have
  Units,     \* the usage of each
  Keys,      \* the sets of label names
  KeyOf,     \* VariationKey of each row: its label names without the values
  PageSize   \* variationPageSize

ASSUME DaysAssumption     == IsFiniteSet(Days)
ASSUME RowsAssumption     == IsFiniteSet(Rows)
ASSUME OpenDaysAssumption == OpenDays \subseteq Days
ASSUME UnitsAssumption    == Units \in [Rows -> Nat]
ASSUME KeysAssumption     == IsFiniteSet(Keys)
ASSUME KeyOfAssumption    == KeyOf \in [Rows -> Keys]
ASSUME PageSizeAssumption == PageSize \in Nat \ {0}

Unlisted == -1

VARIABLES
  pos,      \* the position of each row in each day's list
  len,      \* the length of each day's list: its matched_count
  pc,       \* "fetch", "done" or "failed"
  offset,   \* start_offset of the next request
  out,      \* the sums; a key is in the map if its days are not 0
  initial,  \* history: the <<day, row>> listed when the function was called
  read,     \* history: the <<day, row>> that some page had
  changed   \* history: the service took in a variation meanwhile

client  == <<pc, offset, out>>
history == <<initial, read, changed>>
vars    == <<pos, len, client, history>>

Cells == Days \X Rows

Listed(x) == pos[x[1]][x[2]] # Unlisted

\* A list: the rows listed have the positions 0, 1, ... in some order.
IsList(p, n) ==
  /\ \A r \in Rows : p[r] < n
  /\ \A i \in 0..(n - 1) : \E r \in Rows : p[r] = i /\ \A q \in Rows \ {r} : p[q] # i

Lists == {p \in [Rows -> Unlisted..(Cardinality(Rows) - 1)] :
            IsList(p, Cardinality({r \in Rows : p[r] # Unlisted}))}

NoUsage == [k \in Keys |-> [units |-> 0, days |-> 0]]

Init ==
  /\ pos \in [Days -> Lists]
  /\ len = [d \in Days |-> Cardinality({r \in Rows : pos[d][r] # Unlisted})]
  /\ pc = "fetch"
  /\ offset = 0
  /\ out = NoUsage
  /\ initial = {x \in Cells : Listed(x)}
  /\ read = {}
  /\ changed = FALSE

-----------------------------------------------------------------------------
(* The service.                                                            *)

TakeIn(d, r, i) ==
  /\ pc = "fetch"
  /\ d \in OpenDays
  /\ pos[d][r] = Unlisted
  /\ i \in 0..len[d]
  /\ pos' = [pos EXCEPT ![d] = [q \in Rows |-> IF q = r THEN i
                                               ELSE IF @[q] >= i THEN @[q] + 1
                                               ELSE @[q]]]
  /\ len' = [len EXCEPT ![d] = @ + 1]
  /\ changed' = TRUE
  /\ UNCHANGED <<client, initial, read>>

-----------------------------------------------------------------------------
(* The loop of FetchVariationUnits: one request and the fold of its page.  *)

\* What the service sends for start_offset o.
Page(o) == {x \in Cells : pos[x[1]][x[2]] \in o..(o + PageSize - 1)}

UnitsOf == [x \in Cells |-> Units[x[2]]]

OfKey(page, k) == {x \in page : KeyOf[x[2]] = k}

Fold(sums, page) ==
  [k \in Keys |->
     [units |-> sums[k].units + SumFunctionOnSet(UnitsOf, OfKey(page, k)),
      days  |-> sums[k].days + Cardinality(OfKey(page, k))]]

NextOffsetOverlaps(o) == o + PageSize - 1    \* mutant: one row twice
NextOffsetSkips(o)    == o + PageSize + 1    \* mutant: one row left out
NextOffset(o) == o + PageSize

\* offset >= maxMatched, the longest list of all days in this response.
ShortestExhausted(o) == \E d \in Days : o >= len[d]   \* mutant: the shortest
Exhausted(o) == \A d \in Days : o >= len[d]

FetchPage ==
  /\ pc = "fetch"
  /\ out' = Fold(out, Page(offset))
  /\ offset' = NextOffset(offset)
  /\ pc' = IF Exhausted(NextOffset(offset)) THEN "done" ELSE "fetch"
  /\ read' = read \cup Page(offset)
  /\ UNCHANGED <<pos, len, initial, changed>>

\* The request fails: the pages read so far are given up.
FetchFails ==
  /\ pc = "fetch"
  /\ pc' = "failed"
  /\ UNCHANGED <<pos, len, offset, out, history>>

Next ==
  \/ \E d \in Days, r \in Rows : \E i \in 0..len[d] : TakeIn(d, r, i)
  \/ FetchPage
  \/ FetchFails
  \/ pc # "fetch" /\ UNCHANGED vars

Spec == Init /\ [][Next]_vars

-----------------------------------------------------------------------------
(* Properties.                                                             *)

\* Every variable has its type; pages start at multiples of the page size.
TypeOK ==
  /\ pos \in [Days -> [Rows -> Int]]
  /\ len \in [Days -> Nat]
  /\ pc \in {"fetch", "done", "failed"}
  /\ offset \in Nat
  /\ \E n \in 0..offset : offset = n * PageSize
  /\ DOMAIN out = Keys
  /\ \A k \in Keys : out[k].units \in Nat /\ out[k].days \in Nat
  /\ initial \subseteq Cells
  /\ read \subseteq Cells
  /\ changed \in BOOLEAN

\* A variation that was listed when the function was called has been counted
\* when it returns, on whatever day it is and however many others the service
\* has put in front of it between the requests.
NoRowMissed == pc = "done" => initial \subseteq read

\* If the lists did not change, the result is their sum: each row of each day
\* once, under the set of its label names.
ExactIfStill ==
  pc = "done" /\ ~changed =>
    out = Fold(NoUsage, {x \in Cells : Listed(x)})

\* How many variations have been added up, one for each day and one more each
\* time that a row was met again on a later page.
Counted == SumFunctionOnSet([k \in Keys |-> out[k].days], Keys)

\* The function counts a row twice if others were put in front of it between two
\* requests, but never more than the lists have: each repetition stands in the
\* place of a row that came in too late to be counted itself.
CountedWithinLists == Counted <= Cardinality({x \in Cells : Listed(x)})

\* Only the first request may find nothing: a later one is for rows that some
\* day has, even if its list ends exactly where a page does.  The lists being
\* finite, the loop is too.
RequestsBounded ==
  offset > PageSize => \E d \in Days : offset - PageSize < len[d]
=============================================================================
