-------------------------- MODULE BillingWindow --------------------------
(***************************************************************************)
(* The days for which billing is asked: billingWindowUTC of                *)
(* internal/scan/scan.go, and the second computation of the same window in *)
(* runDebugBilling of the command line.                                    *)
(*                                                                         *)
(* The dates are those of Go's time package in UTC, which is external: a   *)
(* date is the same as the number of its day, and AddDate normalises.      *)
(***************************************************************************)
EXTENDS Integers, Sequences

Invalid == [start |-> 0, end |-> 0, days |-> 0]

MaxMonths == 240

-----------------------------------------------------------------------------
(* Package time.  A month has the index 12 * year + month - 1.             *)

Leap(y) == y % 4 = 0 /\ (y % 100 # 0 \/ y % 400 = 0)

DaysIn(i) == CASE i % 12 = 1             -> IF Leap(i \div 12) THEN 29 ELSE 28
               [] i % 12 \in {3, 5, 8, 10} -> 30
               [] OTHER                    -> 31

\* The days of a year before its months, the leap day apart.
DaysTo == <<0, 31, 59, 90, 120, 151, 181, 212, 243, 273, 304, 334>>

\* The number of the first day of a month; 1 January of year 0 is 0.
FirstOf(i) ==
  LET y == i \div 12
      m == i % 12
  IN  365 * y + (y + 3) \div 4 - (y + 99) \div 100 + (y + 399) \div 400
        + DaysTo[m + 1] + (IF m > 1 /\ Leap(y) THEN 1 ELSE 0)

\* The month of a day: months are 30.43 to 30.44 days long in the mean.
MonthOf(n) ==
  CHOOSE i \in ((n * 100) \div 3044 - 1)..((n * 100) \div 3043 + 1) :
    FirstOf(i) <= n /\ n < FirstOf(i + 1)

ToDate(n) == LET i == MonthOf(n)
             IN  [year |-> i \div 12, month |-> (i % 12) + 1, day |-> n - FirstOf(i) + 1]
ToDay(t)  == FirstOf(12 * t.year + t.month - 1) + t.day - 1

AddDate(n, months, days) ==
  FirstOf(MonthOf(n) + months) + (n - FirstOf(MonthOf(n))) + days

-----------------------------------------------------------------------------
(* The program.                                                            *)

\* today is the current day, the time of day having been cut off.
WindowMonthEarly(today, lookback, months) ==   \* mutant: a month too many
  LET first == FirstOf(MonthOf(today))
      start == AddDate(first, -months - 1, 0)
  IN  IF months > 0
      THEN [start |-> start, end |-> first - 1, days |-> first - start]
      ELSE [start |-> today - lookback, end |-> today, days |-> lookback]
BillingWindowUTC(today, lookback, months) ==
  IF months > 0
  THEN LET first == FirstOf(MonthOf(today))
           start == AddDate(first, -months, 0)
           end   == AddDate(first, 0, -1)
       IN  IF months > MaxMonths THEN Invalid
           ELSE [start |-> start, end |-> end, days |-> (end - start) + 1]
  ELSE IF lookback <= 0 THEN Invalid
       ELSE [start |-> AddDate(today, 0, -(lookback - 1)), end |-> today, days |-> lookback]

\* The days that --debug-billing-metric asks for.
DebugWindow(today, lookback, months) ==
  IF months > 0
  THEN LET first == FirstOf(MonthOf(today))
       IN  [start |-> AddDate(first, -months, 0), end |-> AddDate(first, 0, -1)]
  ELSE [start |-> AddDate(today, 0, -(lookback - 1)), end |-> today]

-----------------------------------------------------------------------------
(* A calendar to compare with: dates, one step back at a time.             *)

DayBefore(t) ==
  CASE t.day > 1 -> [t EXCEPT !.day = @ - 1]
    [] t.day = 1 /\ t.month > 1 ->
         [t EXCEPT !.month = @ - 1, !.day = DaysIn(12 * t.year + t.month - 2)]
    [] OTHER -> [year |-> t.year - 1, month |-> 12, day |-> 31]

DaysBefore(t, n) ==
  LET back[k \in 0..n] == IF k = 0 THEN t ELSE DayBefore(back[k - 1])
  IN  back[n]

\* The last n days, and the n months before that of t.
LastDays(t, n) == [start |-> DaysBefore(t, n - 1), end |-> t]
LastMonths(t, n) ==
  LET first[k \in 0..n] == IF k = 0 THEN [t EXCEPT !.day = 1]
                           ELSE [DayBefore(first[k - 1]) EXCEPT !.day = 1]
  IN  [start |-> first[n], end |-> DayBefore(first[0])]
=============================================================================
