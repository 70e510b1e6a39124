------------------------------- MODULE CliRun -------------------------------
(***************************************************************************)
(* The command line, cmd/coralogix-unused-metrics-finder/main.go: several  *)
(* invocations, one after the other or at the same time, that write their  *)
(* reports into one output directory while days begin.                     *)
(*                                                                         *)
(* What the parts of a scan do is in modules of their own: ScanRun gives a *)
(* report's used and unused series, and BillingFetch the usage of groups   *)
(* of series with the same label names.  Here a scan is the step at which  *)
(* it fails or has correlated some of the catalog, the request for billing *)
(* and its answer.  Once files are being written a report matters as the   *)
(* owner of the files, and its content is no longer kept.                  *)
(***************************************************************************)
EXTENDS BillingWindow, ReportRows, Regions

CONSTANTS
  Procs,        \* invocations
  Invocations,  \* the flags that each may have been given
  Catalog,      \* catalogSeries of each: ReportSeries without billing
  Shares,       \* what BillingFetch may give each series of a group
  Replies,      \* what ListTeams may answer: names as sequences of characters
  Files,        \* what Write writes, in its order: [name, csv]
  Unsafe,       \* the characters that a file name may not have
  Midnights,    \* the days at the end of which something is running
  CloseLies     \* whether the disk reports some write errors at close only

\* What an unsafe character becomes.
Underscore == "_"

ASSUME CatalogAssumption ==
  \A p \in Procs :
    /\ Catalog[p] \subseteq ReportSeries /\ IsFiniteSet(Catalog[p])
    /\ \A s, t \in Catalog[p] : s.billing = Nil /\ (s.series = t.series => s = t)
ASSUME SharesAssumption == Shares \subseteq SeriesBilling
ASSUME FilesAssumption  == Files \in Seq([name: STRING, csv: BOOLEAN])
ASSUME CloseAssumption  == CloseLies \in BOOLEAN
ASSUME RepliesAssumption ==
  \A r \in Replies : r.default \in Seq(STRING) /\ r.teams \in Seq(Seq(STRING))
ASSUME UnsafeAssumption == Underscore \notin Unsafe
ASSUME MidnightsAssumption == Midnights \subseteq Nat
\* No window reaches back behind 1 January of year 0, where the calendar of
\* BillingWindow begins.
ASSUME WindowAssumption ==
  \A d \in Midnights, p \in Procs : \A f \in Invocations[p] :
    f.days \in Int /\ f.months \in Int /\ f.days <= d /\ 31 * f.months <= d

Kinds == {"dashboards", "alerts", "slos"}

VARIABLES
  today,      \* the number of the current UTC day
  pc,         \* where run() is
  flags,      \* its flags
  exit,       \* its exit status
  rep,        \* the report, until it is written
  asked,      \* the request to the Metrics Usage API that is not answered
  prefix,     \* teamPrefix
  next,       \* the file that Write comes to
  disk,       \* the files in the output directory, by prefix
  disturbed   \* since p began to write, another has written under its prefix

vars == <<today, pc, flags, exit, rep, asked, prefix, next, disk, disturbed>>

Running == -1
Killed  == -9

-----------------------------------------------------------------------------
(* The file name prefix.                                                   *)

\* "" if ListTeams fails or names no team; the default team is preferred.
FetchTeamName(reply) ==
  LET names == <<reply.default>> \o reply.teams
      named == {i \in DOMAIN names : names[i] # <<>>}
  IN  IF named = {} THEN <<>> ELSE names[Min(named)]

Squeeze(name) ==
  FoldLeft(LAMBDA acc, c :
             LET d == IF c \in Unsafe THEN Underscore ELSE c
             IN  IF d = Underscore /\ acc # <<>> /\ Last(acc) = Underscore
                 THEN acc ELSE Append(acc, d),
           <<>>, name)

SanitizeUntrimmed(name) == Squeeze(name)     \* mutant: no strings.Trim
SanitizeForFilename(name) ==
  LET s == Squeeze(name)
      i == IF s # <<>> /\ Head(s) = Underscore THEN 2 ELSE 1
      j == IF s # <<>> /\ Last(s) = Underscore THEN Len(s) - 1 ELSE Len(s)
  IN  SubSeq(s, i, j)

\* Every failure, the ten seconds' deadline included, gives "".
TeamPrefixes == {<<>>} \cup {SanitizeForFilename(FetchTeamName(r)) : r \in Replies}

-----------------------------------------------------------------------------
Absent == [by |-> Nil, whole |-> FALSE]

Init ==
  /\ today \in Midnights
  /\ pc = [p \in Procs |-> "flags"]
  /\ flags \in {f \in [Procs -> UNION {Invocations[p] : p \in Procs}] :
                  \A p \in Procs : f[p] \in Invocations[p]}
  /\ exit = [p \in Procs |-> Running]
  /\ rep = [p \in Procs |-> Nil]
  /\ asked = [p \in Procs |-> Nil]
  /\ prefix = [p \in Procs |-> Nil]
  /\ next = [p \in Procs |-> 1]
  /\ disk = [x \in TeamPrefixes |-> [i \in DOMAIN Files |-> Absent]]
  /\ disturbed = [p \in Procs |-> FALSE]

\* A day begins.
Tick ==
  /\ today \in Midnights
  /\ today' = today + 1
  /\ UNCHANGED <<pc, flags, exit, rep, asked, prefix, next, disk, disturbed>>

Goto(p, from, to) == pc[p] = from /\ pc' = [pc EXCEPT ![p] = to]

Return(p, status) ==
  /\ pc' = [pc EXCEPT ![p] = "exited"]
  /\ exit' = [exit EXCEPT ![p] = status]
  /\ rep' = [rep EXCEPT ![p] = Nil]
  /\ asked' = [asked EXCEPT ![p] = Nil]

-----------------------------------------------------------------------------
(* Flags and clients.                                                      *)

FlagsAreGood(f) == f.days >= 0 /\ f.months >= 0 /\ f.key /\ ResolveAPIHost(f.region) # {}

\* billingClient # nil.  Creating it does not connect.
HasBilling(f) == ~f.skipBilling /\ (f.days > 0 \/ f.months > 0)

UsageError(p) ==
  /\ pc[p] = "flags"
  /\ ~FlagsAreGood(flags[p]) \/ (flags[p].debug /\ ~HasBilling(flags[p]))
  /\ Return(p, 2)
  /\ UNCHANGED <<today, flags, prefix, next, disk, disturbed>>

FlagsParsed(p) ==
  /\ Goto(p, "flags", IF flags[p].debug THEN "debug" ELSE "scan")
  /\ FlagsAreGood(flags[p])
  /\ flags[p].debug => HasBilling(flags[p])
  /\ UNCHANGED <<today, flags, exit, rep, asked, prefix, next, disk, disturbed>>

\* One of the clients cannot be made.
ClientFails(p) ==
  /\ pc[p] = "flags"
  /\ FlagsAreGood(flags[p]) /\ HasBilling(flags[p])
  /\ Return(p, 1)
  /\ UNCHANGED <<today, flags, prefix, next, disk, disturbed>>

-----------------------------------------------------------------------------
(* --debug-billing-metric: one request for the metric's first page.        *)

Ask(p, window) ==
  asked' = [asked EXCEPT ![p] = [on |-> today, start |-> window.start, end |-> window.end]]

DebugBilling(p) ==
  /\ Goto(p, "debug", "debugging")
  /\ Ask(p, DebugWindow(today, flags[p].days, flags[p].months))
  /\ UNCHANGED <<today, flags, exit, rep, prefix, next, disk, disturbed>>

DebugEnds(p) ==
  /\ pc[p] = "debugging"
  /\ \E status \in {0, 1} : Return(p, status)
  /\ UNCHANGED <<today, flags, prefix, next, disk, disturbed>>

-----------------------------------------------------------------------------
(* scan.Run.                                                               *)

ScanFails(p) ==
  /\ pc[p] = "scan"
  /\ Return(p, 1)
  /\ UNCHANGED <<today, flags, prefix, next, disk, disturbed>>

\* The series are fetched and correlated: some of them are used.
Correlated(p) ==
  /\ Goto(p, "scan", IF HasBilling(flags[p]) THEN "window" ELSE "team")
  /\ \E hit \in SUBSET Catalog[p] :
       /\ flags[p].skip = Kinds => hit = {}
       /\ rep' = [rep EXCEPT ![p] =
            [used   |-> hit,
             unused |-> Catalog[p] \ hit,
             split  |-> [k \in {} |-> 0],
             meta   |-> [days |-> flags[p].days, months |-> flags[p].months,
                         start |-> 0, end |-> 0, withBilling |-> 0, unusedWithBilling |-> 0]]]
  /\ UNCHANGED <<today, flags, exit, asked, prefix, next, disk, disturbed>>

\* The window is of the day on which the correlation has ended.  With more
\* months than the API accepts there is a warning and no billing.
AskBilling(p) ==
  LET w == BillingWindowUTC(today, flags[p].days, flags[p].months) IN
  /\ Goto(p, "window", IF w = Invalid THEN "team" ELSE "billing")
  /\ IF w = Invalid THEN UNCHANGED <<rep, asked>>
     ELSE /\ Ask(p, w)
          /\ rep' = [rep EXCEPT ![p].meta.days = w.days,
                                ![p].meta.start = w.start, ![p].meta.end = w.end]
  /\ UNCHANGED <<today, flags, exit, prefix, next, disk, disturbed>>

GroupOf(s) == <<s.name, LabelKeys(s)>>

Billed(ss, share) == {[s EXCEPT !.billing = share[GroupOf(s)]] : s \in ss}
WithBilling(ss)   == {s \in ss : s.billing # Nil}

\* EnrichCatalog returns: a group has billing or not, and the count of the
\* series that share it.  Series without a name have none.
BillingReturns(p) ==
  /\ Goto(p, "billing", "team")
  /\ asked' = [asked EXCEPT ![p] = Nil]
  /\ \E share \in [{GroupOf(s) : s \in Catalog[p]} -> Shares \cup {Nil}] :
       LET used   == Billed(rep[p].used, share)
           unused == Billed(rep[p].unused, share)
           billed == WithBilling(used \cup unused)
       IN  /\ \A g \in DOMAIN share : g[1] = NoName => share[g] = Nil
           /\ rep' = [rep EXCEPT
                ![p].used = used,
                ![p].unused = unused,
                ![p].split = [k \in {s.series : s \in billed} |->
                   Cardinality({s \in billed : \E t \in billed :
                                  t.series = k /\ GroupOf(s) = GroupOf(t)})],
                ![p].meta.withBilling = Cardinality(billed),
                ![p].meta.unusedWithBilling = Cardinality(WithBilling(unused))]
  /\ UNCHANGED <<today, flags, exit, prefix, next, disk, disturbed>>

-----------------------------------------------------------------------------
(* The files.                                                              *)

ResolveTeamFilenamePrefix(p) ==
  /\ Goto(p, "team", "mkdir")
  /\ \E x \in TeamPrefixes : prefix' = [prefix EXCEPT ![p] = x]
  /\ UNCHANGED <<today, flags, exit, rep, asked, next, disk, disturbed>>

MkdirAll(p) ==
  /\ Goto(p, "mkdir", "write")
  /\ rep' = [rep EXCEPT ![p] = Nil]
  /\ disturbed' = [disturbed EXCEPT ![p] = FALSE]
  /\ UNCHANGED <<today, flags, exit, asked, prefix, next, disk>>

MkdirFails(p) ==
  /\ pc[p] = "mkdir"
  /\ Return(p, 1)
  /\ UNCHANGED <<today, flags, prefix, next, disk, disturbed>>

\* The file that p comes to is opened, which truncates it, and written.
Put(p, whole) ==
  /\ disk' = [disk EXCEPT ![prefix[p]][next[p]] = [by |-> p, whole |-> whole]]
  /\ disturbed' = [q \in Procs |-> disturbed[q] \/ (q # p /\ prefix[q] = prefix[p])]

WriteFile(p) ==
  /\ pc[p] = "write" /\ next[p] <= Len(Files)
  /\ \E whole \in {TRUE} \cup IF Files[next[p]].csv /\ CloseLies THEN {FALSE} ELSE {} :
       Put(p, whole)
  /\ next' = [next EXCEPT ![p] = @ + 1]
  /\ UNCHANGED <<today, pc, flags, exit, rep, asked, prefix>>

\* It cannot be opened, or the disk is full.
WriteFailsGoesOn(p) ==                       \* mutant: the error is dropped
  /\ pc[p] = "write" /\ next[p] <= Len(Files)
  /\ next' = [next EXCEPT ![p] = @ + 1]
  /\ Put(p, FALSE) \/ UNCHANGED <<disk, disturbed>>
  /\ UNCHANGED <<today, pc, flags, exit, rep, asked, prefix>>
WriteFails(p) ==
  /\ pc[p] = "write" /\ next[p] <= Len(Files)
  /\ Return(p, 1)
  /\ Put(p, FALSE) \/ UNCHANGED <<disk, disturbed>>
  /\ UNCHANGED <<today, flags, prefix, next>>

Finish(p) ==
  /\ pc[p] = "write" /\ next[p] > Len(Files)
  /\ Return(p, 0)
  /\ UNCHANGED <<today, flags, prefix, next, disk, disturbed>>

\* A signal ends the program wherever it is.
Kill(p) ==
  /\ pc[p] # "exited"
  /\ Return(p, Killed)
  /\ \/ pc[p] = "write" /\ next[p] <= Len(Files) /\ Put(p, FALSE)
     \/ UNCHANGED <<disk, disturbed>>
  /\ UNCHANGED <<today, flags, prefix, next>>

Run(p) ==
  \/ UsageError(p) \/ FlagsParsed(p) \/ ClientFails(p)
  \/ DebugBilling(p) \/ DebugEnds(p)
  \/ ScanFails(p) \/ Correlated(p) \/ AskBilling(p) \/ BillingReturns(p)
  \/ ResolveTeamFilenamePrefix(p) \/ MkdirAll(p) \/ MkdirFails(p)
  \/ WriteFile(p) \/ WriteFails(p) \/ Finish(p) \/ Kill(p)

AllExited == \A p \in Procs : pc[p] = "exited"

Next ==
  \/ Tick
  \/ \E p \in Procs : Run(p)
  \/ AllExited /\ UNCHANGED vars

Spec == Init /\ [][Next]_vars

-----------------------------------------------------------------------------
(* Properties.                                                             *)

\* Neither end of a prefix is "_", nor are two neighbours.
IsTidy(x) ==
  /\ \A i \in DOMAIN x : x[i] \notin Unsafe
  /\ \A i \in DOMAIN x : x[i] = Underscore => i \notin {1, Len(x)} /\ x[i + 1] # Underscore

\* Every variable has its type; a prefix is what the comment on
\* SanitizeForFilename says.
TypeOK ==
  /\ today \in Midnights \cup {d + 1 : d \in Midnights}
  /\ pc \in [Procs -> {"flags", "debug", "debugging", "scan", "window", "billing", "team",
                       "mkdir", "write", "exited"}]
  /\ \A p \in Procs : flags[p] \in Invocations[p]
  /\ exit \in [Procs -> {Running, Killed, 0, 1, 2}]
  /\ \A p \in Procs : exit[p] = Running <=> pc[p] # "exited"
  /\ \A p \in Procs : rep[p] # Nil =>
       /\ rep[p].used \subseteq ReportSeries
       /\ {s.series : s \in rep[p].used \cup rep[p].unused} = {s.series : s \in Catalog[p]}
  /\ \A p \in Procs : asked[p] = Nil \/ asked[p].on <= today
  /\ \A p \in Procs : prefix[p] = Nil \/ (prefix[p] \in TeamPrefixes /\ IsTidy(prefix[p]))
  /\ next \in [Procs -> 1..(Len(Files) + 1)]
  /\ disk \in [TeamPrefixes -> [DOMAIN Files -> [by: Procs \cup {Nil}, whole: BOOLEAN]]]
  /\ disturbed \in [Procs -> BOOLEAN]

\* An invocation that ends with 0 has left all the files of its own report,
\* complete, whatever an earlier one that failed half-way or was killed had
\* left there; unless another has written under the same prefix since it
\* began, as nothing locks the directory.
LastSuccessStands ==
  \A p \in Procs : exit[p] = 0 /\ ~flags[p].debug /\ ~disturbed[p] =>
    \A i \in DOMAIN Files : disk[prefix[p]][i] = [by |-> p, whole |-> TRUE]

SectionOf(plan, x) == IF x \in DOMAIN plan THEN plan[x] ELSE {}

\* What the files that are written of the report r of p say of each other.
FilesAgree(p, r) ==
  LET c       == ContentOf(r)
      cost    == c.unused_by_cost
      byM     == c.unused_by_metric
      all     == c.all_by_metric
      drop    == SectionOf(c.otel_processors, "drop")
      strip   == SectionOf(c.otel_processors, "strip")
      rows(m) == {b \in ToSet(byM) : b.metric = m}
  IN  /\ \A i, j \in DOMAIN cost : i < j => cost[i].units >= cost[j].units
      /\ \A i, j \in DOMAIN byM : i < j => byM[i].bucket.units >= byM[j].bucket.units
      /\ SumFunction([i \in DOMAIN byM |-> byM[i].bucket.n]) = Len(cost)
      /\ SumFunction([i \in DOMAIN byM |-> byM[i].bucket.units])
           = SumFunction([i \in DOMAIN cost |-> cost[i].units])
      /\ SumFunction([i \in DOMAIN byM |-> byM[i].bucket.nb]) = r.meta.unusedWithBilling
      /\ SumFunction([i \in DOMAIN all |-> all[i].bucket.n]) = Cardinality(Catalog[p])
      /\ \A a \in ToSet(all) :
           /\ a.metric \in drop <=>
                a.metric # Unknown /\ \E b \in rows(a.metric) : b.bucket.n = a.bucket.n
           /\ \A b \in rows(a.metric) : b.bucket.units <= a.bucket.units
           /\ (\E k \in Keys : <<a.metric, k>> \in strip) =>
                \E b \in rows(a.metric) : b.bucket.n < a.bucket.n
      /\ \A x \in ToSet(cost) : x.splitN # 0 => x.present /\ x.splitN <= r.meta.withBilling

\* The files of a report agree.  The rows by cost are in descending order and
\* add up to the rollup by metric, its counts to those of meta; a metric is in
\* the drop list exactly if it has a name and the rollups count as many unused
\* series as series; a metric of which something is stripped has both kinds;
\* and a series shown as split shares its group with others.
RollupsAgree == \A p \in {q \in Procs : pc[q] = "team"} : FilesAgree(p, rep[p])

\* The window sent to the Metrics Usage API, by a scan or by the debug flag,
\* is the last days up to the day of the request, or the last complete months
\* before it, counted on the calendar; and the report says so.
WindowIsOfBillingDay ==
  \A p \in {q \in Procs : asked[q] # Nil} :
    LET t == ToDate(asked[p].on)
        w == IF flags[p].months > 0 THEN LastMonths(t, flags[p].months)
                                    ELSE LastDays(t, flags[p].days)
    IN  /\ ToDate(asked[p].start) = w.start
        /\ ToDate(asked[p].end) = w.end
        /\ pc[p] = "billing" =>
             /\ rep[p].meta.start = asked[p].start /\ rep[p].meta.end = asked[p].end
             /\ DaysBefore(w.end, rep[p].meta.days - 1) = w.start
=============================================================================
