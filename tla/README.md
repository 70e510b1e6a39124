# A verification model of coralogix-unused-metrics-finder

This directory holds TLA+ models of the program in `src/`, the TLC runs that
check them on small instances, and TLAPS proofs of what matters most for
instances of every size. `PROJECT.json` says for each definition which source
lines it stands for, which runs there are, and what each theorem establishes.

The program asks a Coralogix tenant for its dashboards, alerts, SLOs, metric
series and billing; finds the series that nothing refers to; and writes reports
with a fragment of OpenTelemetry configuration that would drop them. A command
line tool does it once; a small web server does it for a browser.

## 1. The system

| Part | State | Operations | Talks to |
|---|---|---|---|
| UI server, `webui/main.go` | `reg.jobs`; per job status, creation time, directory, file names; one directory on disk per job | `handleRun`, `runScan` (a goroutine per job), `prune` (a ticker), three GET handlers | the scan, the report writer, the disk |
| UI page, `webui/index.html` | `pollTimer` and its intervals, the button, the status line, the links, the fragment | click, poll, preview, each with an awaited request in it | the server |
| Series fetch, `internal/scan/scan.go` 178–232 | a semaphore, the shared catalog and counter, an errgroup | a goroutine per metric | the Prometheus API |
| Scan, the rest of `scan.go` | sources read, warnings, references, usage by series, lists of unmatched selectors | read the three sources, correlate, sort into used and unused | everything below |
| Extraction, `internal/promqlextract` | none | `ExtractFromJSON`, `MatchesSeries`, `CanonicalSeries` | – |
| OTEL plan, `internal/report/otel.go` | none | which metrics to drop, which labels to delete | – |
| Billing, `internal/metricusage` | the sums of one metric; the shared results, split counts and warnings | `FetchVariationUnits` (pages), `EnrichCatalog` (a goroutine per metric) | the gRPC usage service |
| Report files, `internal/report` | files in the output directory | `Write`, the aggregates, CSV | the disk |
| HTTP client, `internal/coralogix` | none between calls | one call per endpoint; alerts in pages; an error's text lets one repeat the request | the Coralogix API |
| Command line, `cmd/coralogix-unused-metrics-finder` | flags, exit status; files that stay when it is gone | `run`, `runDebugBilling` | the scan, the billing client, the team names, the report files |
| Billing window, `scan.go` 47–68 and 317–353 | none | `billingWindowUTC`, the billing block of `Run` | the clock, the billing client |
| Team names, `internal/cxteams` | none | `FetchTeamName`, `SanitizeForFilename` | the team service |
| Regions, `internal/region` | two tables | `ResolveAPIHost` | – |
| Status line, `internal/status` | the line on the terminal, one mutex | `Set`, `Done` | – |
| Generated protobuf code, `internal/gen` | – | – | – |

What is hard about each part, and what makes it correct:

- **UI server.** A job is touched by its own goroutine, by the pruner and by any
  number of handlers. Its fields are read and written in separate critical
  sections, the disk is outside of every lock, and the pruner does not ask
  whether the job has finished. Correct means: a link that is shown works for
  as long as `-job-ttl`, a verdict is reached, and directories are deleted.
- **UI page.** The interval fires whether or not the last answer is in, and all
  the answers write the same few variables. Correct means: the page is about
  the last scan, and the button comes back.
- **Series fetch.** Any of the requests may fail while others wait for a slot,
  are under way, or hold an answer. Correct means: the whole catalog, or the
  error that was the cause.
- **Scan and fragment.** References are found in three kinds of documents of
  which some cannot be read, and the outcome is a list of metrics to *drop*.
  Correct means: nothing in use is dropped, and the report lets one see what
  might have been missed.
- **Billing.** Pages are read while the service goes on counting. Correct
  means: nothing counted twice or left out, and one failure is not everyone's.
- **HTTP client.** An error may be of the transport, the status, the reading or the
  content, and in each place the request and the body are written into its text
  again. Correct means: what the user is given to try again is what was sent,
  without the key, and a body is not passed off as whole that is not.
- **Report files.** The same series are counted by series, by metric, in `meta`
  and in the fragment, each time by code of its own. Correct means: they agree.
- **Command line.** It writes eight files, one after the other, into a directory
  that may hold those of an earlier run, and takes the billing window from the
  clock hours after it was started. Correct means: exit status 0 stands for a
  whole report, and the window is the one the report names.

The full list of hazards, each at its line, is in `PROJECT.json`.

## 2. Modules

| Module | Models | Run with |
|---|---|---|
| `JobRegistry` | the registry, `runScan`, `prune`, the GET handlers, the report files on disk | `MCJobRegistry` |
| `JobRegistryProofs` | proofs about it, the refinement included | – |
| `JobStore` | what the registry promises a client, abstractly | as a property of `JobRegistry` |
| `Gather` | what the series fetch promises, abstractly | as a property of `SeriesFetch` |
| `SeriesFetch` | the goroutines of the series fetch | itself |
| `SeriesFetchProofs` | proofs about it, the refinement included | – |
| `Selectors` | series, selectors, documents, matching, the drop and strip decisions | through `ScanRun` |
| `ApiCalls` | what each call of the HTTP client makes of an answer | through `ScanRun` |
| `ScanRun` | one `scan.Run`, with the fetch as one step | `MCScanRun` |
| `ScanRunProofs` | proofs about it and about the calls it makes (`Replication`) | – |
| `VariationPages` | `FetchVariationUnits` against a service that changes | `MCVariationPages` |
| `VariationPagesProofs` | proofs about it | – |
| `BillingFetch` | `EnrichCatalog` and its progress line, with a call of the above as one step | `MCBillingFetch` |
| `BillingFetchProofs` | proofs about it | – |
| `BillingWindow` | the billing window, its copy for the debug flag, the calendar | through `CliRun` |
| `ReportRows` | the rows, lists and rollups of the report files | through `CliRun` |
| `Regions` | the lookup of an API host | through `CliRun` |
| `CliRun` | invocations of the command line, from flags to exit status, that share an output directory | `MCCliRun` |
| `CliRunProofs` | proofs about it | – |
| `Replication` | one GET of the HTTP client and the text of its error | `MCReplication` |
| `PollPage` | the page's script, with what a poll can tell of a job | itself |
| `PollPageProofs` | proofs about it | – |
| `FoldTheorems` | lemmas about sums, folds, lists in order and tallies over finite sets, for the other proofs | – |

They compose by abstraction: what is a module of its own is one step with the
same result in the module that calls it (`SeriesFetch` in `ScanRun`, both in
`JobRegistry`'s `ScanReturns`, `VariationPages` in `BillingFetch`, that and
`ScanRun` in `CliRun`, `JobRegistry` in `PollPage`). `Gather` and `JobStore` say
abstractly what two of them promise, and proofs say that it is kept. A definition with the comment `mutant` is a broken
variant of the one below it; no specification uses it, and `PROJECT.json` pairs it
with the property that notices the difference.

### How state and actions correspond to the code

**JobRegistry.** `status`, `created`, `dir`, `files` are the fields of `job`,
`jobs` the keys of `reg.jobs`. `dirs` and `content` are the disk: which
temporary directories exist and which complete files are in them. `pc` is where
`handleRun` and then `runScan` are; each access to the job, the disk or the API
is a step. Only `prune` holds `reg.mu` over several steps (`Locked`); every
other critical section is one field or map access and so one atomic step. `req`
is a GET request, and remembers what its handler has read so far. The job's
pointer outlives its map entry, so that fields stay readable after
`PruneDelete`. The team's name prefixes the file names; the handlers see it only
in the preview's fallback name (`BareName`). `late` is a history variable: the
jobs whose goroutine was still at work when they were older than the TTL.

**JobStore.** For a client a job is accepted, runs, and fails or has all its links
at once, until it is forgotten. `Public(id)` in `JobRegistry` reads that off the
registry: the status of a job that has an entry, "gone" when it has lost it, and
`Downloadable(id)`, the files that a GET would find now. `HandleRun` is `Accept`,
`Start` is `Begin`, `SetDone` is `Publish`, `Fail` is `GiveUp`, the pruner's
deletion of the directory (`PruneRemove`) is already `Forget`, as the links are dead
then although the entry is deleted later under the same lock, and every other
step but `Tick` stutters.

**SeriesFetch.** `pc[m]` follows the body of the goroutine through its `select`,
the call, the section under `mu`, the counter and the deferred release;
`Return` is what `errgroup` does with the returned value. `GiveUp` is the other
arm of the `select`, which Go may choose even with a free slot.

**ScanRun.** A matcher is the set of values it accepts and a label that a series
lacks has the value `Empty`, as in `MatchesSeries`. `names` of a selector is
what its matchers of `__name__` accept and `name` the one name the code sees, or
`NoName`. A document is a set of texts, each with or without one of the
characters that `extractFromValue` looks for, and each accepted or rejected by
the PromQL parser, which is external. `CanonicalSeries` is injective, so a
series is its own key. What a request can come to is read off `ApiCalls`: an
error, the items, or *nothing*, which is what `json.Unmarshal` makes of a 2xx
body that is an object without the expected field. A source that came back
like that, or a dashboard whose body holds nothing to walk, is remembered in the
history variable `garbled`, as the code keeps no trace of it. Alerts come in any
number of pages (`AlertPage`, `LastAlertPage`), SLOs in one list. `Load` leaves
out resources without an id; an alert without one has that of its version.

**VariationPages.** `pos[d][r]` is the place of a row in the list of a day and
`len[d]` the day's `matched_count`; both belong to the service, which is
external. A page is the rows with places from `offset` on; `Exhausted` is the
comparison of `offset` with the longest list *of this response*. The service
may put a new row anywhere into the list of a day that is still open; it is
assumed not to reorder rows nor to remove any, without which no use of offsets
could be right. `initial`, `read` and `changed` are history variables.

**BillingFetch.** As `SeriesFetch`, but no goroutine returns an error. Usage is
cut down to `bytes`, which is divided as an integer (as are samples and
cardinality), and `days`, which is not divided. `unit_usage` is a float and its
division exact but for rounding; it is left out. `onProgress` is two steps:
`Count` is `done.Add(1)`, `Show` is the call of `Line.Set`, which is atomic by
the mutex of the status line.

**CliRun.** Each invocation `p` has its place `pc[p]` in `run()`, its flags and
its exit status. `rep[p]` is the report from the end of the correlation until it
is written: `Correlated` splits the catalog into used and unused in every way,
`AskBilling` takes the window from `today`, and `BillingReturns` lays any answer
of `BillingFetch` onto the groups of series with the same label names. From
`MkdirAll` on what counts is only who owns which file: `disk[prefix][i]` says who
opened file `i` last and whether it was written to the end, and the content is
that of `ReportRows.ContentOf`. An invocation may end at every step by an error
or a signal (`Kill`), and its files stay. `disturbed[p]` is a history variable:
another invocation has written under the prefix of `p` since `p` began to write.
`Tick` is a midnight in UTC, which may fall between any two steps.

**ReportRows.** Pure operators: strings that the code sorts by are their ranks, a
sequence stands where the order is a matter of cost: `Sorted` is the listing of a
set that keeps an order, and both orders tell any two rows apart. `AddRow` and `AddSeries` are the bodies of the two aggregation
loops, folded over the rows.

**BillingWindow.** A day is its number in the proleptic Gregorian calendar, as
in Go's `time` package; `BillingWindowUTC` and `DebugWindow` are the two places
that compute a window. `DayBefore` and what follows are a second, naive calendar
of dates (one step back at a time), with which the property compares. Both begin
with year 0, and `WindowAssumption` says that no window reaches back behind it.

**Replication.** `req` is the `http.Request` of `get`; `ReplicaOf` is the second
place that builds it, for errors found in a body that was read. A body is the
number of bytes that arrive, and what is quoted of it is a number of its first
bytes with or without a note that it was cut; header fields and their order are
kept, as the command ends where a line is not continued. What the answer is comes
from `ApiCalls`, and `OutcomeIsApiCalls` says that the two agree.

**PollPage.** A click and its job share a name. `live` are the intervals that
have been set and not cleared, `pollTimer` the one the variable names; they may
differ. `overlap` is a history variable: some poll was sent, or the button
clicked, while an earlier poll or preview was still unanswered.

## 3. Runs

All bounds are in the `.cfg` files.

| Run | Instance | Properties and what they show |
|---|---|---|
| `registry_safety` | two jobs, one request, two files, TTL 1, clock to 2 | `ImplementsStore`: the registry is a `JobStore`; in particular a job that is done and not forgotten has all its files. `PromptLeavesNoDir`: a job that is not late never leaves a directory that nobody will delete. `DoneReplyIsComplete`: an answer "done" lists all files though status and list are read separately. `LinkLivesForTTL`: no 404 for a job younger than the TTL, wherever pruner and handler are. |
| `registry_live` | one job, one request, two files, clock to 3 | `VerdictReached`, `FailedLeavesNoDir`, `ExpiredIsReclaimed`, `RequestAnswered`. |
| `registry_orphan` | one job, clock to 3 | `NoOrphanDirs`, the same of late jobs: **violated** (section 6). |
| `fetch` | three metrics, two workers, two series, limit 2 | `ReportIsComplete`, `RootCauseReported`, `ImplementsGather`, `FetchEnds`. |
| `scan_report` | two dashboards, an alert with only a version id, an SLO and one without id; three documents of one to three texts, two tenants, every set of skipped sources | `UsageCountsReferrers`, `SelectorsAccounted`, `UsedSeriesSurvive`, `DropIsExplained`. |
| `scan_nameless` | one dashboard, whose one selector names no metric | `DroppedMetricsUnmatched`: a dropped metric has no series that a selector of a scanned resource matches: **violated** (section 6). |
| `pages` | two days, one of them open, lists of up to four rows, pages of two | `NoRowMissed`, `ExactIfStill`. `CountedWithinLists`: rows that are met again on a later page never bring the number of rows added up above that of the rows listed. |
| `billing` | four metrics (three series with two sets of names, two with one, one with none), two workers, three answers | `OneFailureLosesNothing`, `SharesAddUp`, `ProgressHonest`, `EnrichEnds`. |
| `billing_subset` | the same | `SubsetMatchIsBilled`: **violated** (section 6). |
| `cli` | two invocations, one with ten sets of flags; catalogs of four and two series, two shares, three team replies, three files; the end of 29 February 2024 and of the year 2023 | `LastSuccessStands`: an invocation that ends with 0 has left its files whole, over whatever a failed or killed one had left. `RollupsAgree`: rows, rollups, `meta`, fragment and split counts of a report fit together. `WindowIsOfBillingDay`: the window asked for is that of the calendar on the day of the request, and the report names it. |
| `replication` | a call of each of three kinds, every answer, bodies of 0 to 5 bytes with the limits 2 and 3, a response without header fields and one with a repeated one | `RequestReplayed`: the command in an error is the request that was sent, complete and without the key. `BodyNotMisquoted`: what an error quotes of a body is all of it or says that it is not. `OutcomeIsApiCalls`: the call ends as `ScanRun` assumes. |
| `poll` | two clicks, two polls under way | `LinksAreOfDoneJob`, `PageIsOfLatest`, `ButtonComesBack`, `VerdictShown`. |

Why the bounds are enough for the cases that matter:

- Two jobs let the pruner delete one while the other is at any step; two files
  are the least that has a half-written directory, one TTL below and above which
  a job may be. The eight files of the code differ only in number, except for
  the last one, which is the OTEL file here as well.
- Three metrics and two workers put a goroutine in each of the states "holds a
  slot", "waits for one" and "has failed" at once. Two series and the limit two
  have answers below and at the limit, and answers that overlap.
- The documents have every kind of selector: by name, with a value, with
  the empty value, matching nothing, of an internal metric, without a name, in
  a text without brackets, and in one that does not parse. The tenants have
  metrics whose series differ in a value and in whether they have the label.
- Four rows in pages of two have lists that end in the middle and at the end of
  a page, and rows that are pushed from one page to the next.
- Two invocations are the least of which one writes over the other; three of the
  eight files have a first, a middle and a last one, and a CSV file. Around the end
  of a leap day and of a year, windows of 7 and 90 days and of 2 and 25 months cross
  short and long months and several year ends; 241 months are over the limit. The
  catalog has metrics with
  used and unused series, a label that some of them lack, and, in the other
  invocation, a series without a name; the names the team service answers need
  each rule of `SanitizeForFilename`.
- Bodies of 0 to 5 bytes are below, at and above both limits, 2 and 3, and those that
  break off do so on either side of them.
- Two clicks are the least with which an old answer meets a newer scan.

Deadlock is checked in every run; terminated processes have explicit idle steps.
Symmetry is used in the safety run of the registry only; all its properties are about
single states and steps.

### Fairness

- Goroutines that can run do run: weak fairness of their steps.
- `reg.mu` is strongly fair (`InsertJob`, `Lookup`): a `sync.Mutex` goes into
  starvation mode after a waiter has waited 1 ms, and the pruner gives the lock
  back between two ticks.
- A series request has `http.Client`'s timeout, hence fairness of a worker
  step in `SeriesFetch`. A slot needs weak fairness only, as each goroutine takes
  it once and there are finitely many.
- Nothing is assumed of `scan.Run` as a whole in `JobRegistry`, nor of the billing
  calls in `BillingFetch`: their context has no deadline. `VerdictReached` starts
  where the scan has returned, and `EnrichEnds` has the premise that no call
  hangs.
- In `PollPage` requests are answered (if only with an error), intervals fire
  again and again, and the pruner takes a job away in the end.

## 4. Proofs

TLAPS checks these for every value of the constants that satisfies their named
assumptions (finite sets, a limit and a number of workers of at least one, and
the like; TLC evaluates each of them in the runs). Every safety property of a
passing run is a theorem.

**JobRegistryProofs.**
`TypeCorrect`, then `DoneDownloadable`. That property is not inductive: whether
the files of a done job are there depends on what `runScan` had done before.
`PublishInv` follows `pc`: nothing is
on disk before `rep.Write`; from `scan` on the job knows its directory; from
`write` on the files on disk are those counted by `written`, unless the job has
left the registry or the pruner is between deleting its directory and its entry;
and the list is set before the status.

`DoneReplyWhole`: `ReplyInv` adds to `PublishInv` that a request which has read
"done" finds the job done whenever it looks again, as no step takes a job out of
that status (`DoneStays`), and then the list it reads is whole. `LinksLive`: by
`PastInv` the cutoff lies a TTL in the past from the moment it is computed, so what
the pruner takes, while it waits for the lock or works under it, is older than
that, and a job that has started is in the registry or that old; by `LinkInv` a
request names a file of the report and a job that has started. Each step of a
handler that finds nothing is then about a job the pruner has taken
(`NotFoundIsOld`). `PromptLeavesNoOrphans` rests on `PromptInv`: a job with steps
left that is not late is within the TTL, so the pruner's victim, older than that,
is late or finished, and its directory is the one that the pruner deletes.

`RegistryImplementsStore` is the refinement of `JobStore`, step by step
(`RefinesInit`, `RefinesStep`). `SeenInv` says what `JobStore`'s states leave out:
that the status of an entry fits the place of its goroutine, which makes `Start`,
`Fail` and `SetDone` steps from the right state, and that a job that the pruner has
taken is seen as gone by all that its goroutine still does. The links of a job that
becomes done are all its files by `PublishInv`, and its links die only in
`PruneRemove`, of a job older than the TTL by `PastInv`.

**SeriesFetchProofs.** `SlotInv` says that `sem` is the number of goroutines
between `Acquire` and `Release`; `TypeCorrect` (the counter stays between 0 and
its capacity) and `Bounded` follow, by theorems on cardinalities. `ErrInv` says
that `gctx` is cancelled exactly when the errgroup has an error, and that only
then a goroutine can have a cancellation for its own error; so the first error to
reach the group is never a cancellation (`RootCause`). `Complete`: `CompleteInv` says that the
catalog is the union of the answers merged so far and that the two counters are
cardinalities of sets of goroutines; with nobody left and no error these are
all of them. `FetchImplementsGather` is the refinement, under the
mapping *pending = not merged, cause = first, verdict = main*: `Merge` is
`Collect`, the `Return` that leaves its error is `Blame`, `WaitReturns` is
`Finish`, every other step stutters. That `Finish` may say "ok" only with
nothing pending needs `ErrInv`.

**ScanRunProofs.** `Inv` has three parts. `SourcesInv`: of a source that is behind,
each resource has no id, was skipped, is in the warnings or `garbled`, or has had
its selectors extracted. `CorrelationInv`: each reference that has been taken
has its verdict in the lists and has credited every series it matches; what is in
`usage` is somebody's credit; and a series of a listed metric is in the catalog
or its metric counts as truncated. From these come `DropsExplained`,
`SelectorsAreAccounted` and `CountsAreReferrers`, the last by a bijection between
the credits of a series and the resources that refer to it, for which ids must be
distinct within a kind (`IdsAssumption`; of two alerts with one id the code keeps
the last). `UsedSurvive` needs of the correlation nothing at all: the plan is made
so that the drop and strip lists leave out what is used.

The second half of the module is about the calls of a scan (`CallSpec`, the
specification of `Replication`, in which `ScanRun` has no part). By
`CallInv` the request of a call is the one `get` built for it (`RebuiltIsSent`: so is
the one built again for the text), and a body is decoded only when it was read
whole. `CommandReplays`: `RequestLines` computes the lines of a header in both
orders, by way of what `FlattenSeq` is for five sequences (`FlattenFive`), and
`TextReplays` compares them, the key not being empty. `BodiesQuoted` is the case of
each kind of error (`BodyWell`, `TruncateWell`). `CallsAreApiCalls` says that a call
ends with an error exactly if `ApiCalls` makes one of the answer, which is what
`ScanRun` builds on. For each step that ends a call `EndsWell` has what is left to be
shown.

**VariationPagesProofs.** `AllRowsRead`: `PageInv` says that a row listed at the
call has been read or lies at or behind `offset`. It is kept since the service
moves rows towards the end only, and at the return no list reaches `offset`.
`NoEmptyRequest`: `offset > 0` only while some list goes on. `StillIsExact`: by
`SumInv` the sums are, as long as no row has moved, those of the rows that lie
before `offset`; a page adds the rows from `offset` up to the next one, a set
disjoint from these (`SumDisjoint`), and at the return no list is longer than
`offset`. `Typed` says with it that the sums are numbers. `RepetitionsBounded`, for
lists that do change: by `CountInv` no more rows have been added up than lie before
`offset`. A page adds as many to both (`CountFold`). A row put in before `offset`
pushes at most one other behind it, as no two rows of a list have one place
(`CountTakeIn`), so the number before `offset` does not fall, although one of them
may now be met again.

**BillingFetchProofs.** `CountInv`: the semaphore and the counter are the numbers of
goroutines in certain places, and no two were given the same count, since each new
one is larger than the last (`ProgressIsHonest`, `Typed`). `ResultInv`: a series
is in the result exactly if the goroutine of its metric is past its merge and the
answer had its label names (`NothingLost`). `NothingSharedTwice`: by `ShareInv`
each share is the integer quotient of its variation by the size of its group, so
that the shares of a group are a sum of equal numbers (`SumConstant`), and fall
short of the variation by the remainder.

**CliRunProofs.** `SuccessStands`, from `DiskInv`: an undisturbed invocation owns,
whole, every file before the one it has come to. It assumes `~CloseLies`, that a
disk reports a failed write at the write: the code ignores the error of `Close`.
`Typed` has two parts. `Tidy` is about `SanitizeForFilename`, for names of any
length: whatever is squeezed so far has no unsafe character and no two underscores
in a row (`Squeezed`), which a further character keeps (`Squeeze1Type`), and the
trimming takes at most one from each end. `TypeInv` then says that a report is of its
whole catalog, and until the answer about billing *is* the catalog, which is why
`BillingReturns` finds a share for the group of each series.

`WindowOfDay` compares two calendars, for all days from year 0 on. The months follow
each other without a gap (`FirstOfNext`), so each day is in one (`MonthExists`), and
`MonthOf`, which looks between two bounds, finds it (`MonthOfIs`, by rough bounds on
the day at which a month begins, `FirstOfBounds`). A day less is then a step back
from date to date (`DayBeforeIs`), and what follows is about windows: `DaysBeforeIs`
and `LastMonthsIs` for the naive calendar, `AddDays` and `AddMonths` for Go's
`AddDate` from the first of a month. `WindowInv` carries this to the program: the
flags are good and ask for a window wherever one is computed, and the request that is
open was made with them on its day.

`FilesOfAReportAgree` is `RollupsAgree` for any catalog and any answer of billing. The
lists are listings, in order and without repetition, of the report's sets
(`SortUnusedFacts`, `SortRollupFacts`). The aggregation loops are tallies by name
(`UnusedRollup`, `AllRollup`): whatever the order of the rows, a bucket ends with the
number and the sums of the series of its name. So the sums over the rollups are
sums over the rows, put together by name. `CountedInv` is the part about the run:
from the correlation to the files a report has each series of its catalog once, the
counts in `meta` are those of its sets, and so are the split counts, once billing has
answered (`CountsCorrelated`, `CountsAsked`, `CountsBilled`). `CountsAgree` puts the two
together. It needs of the catalog, by `CatalogAssumption`, that no series has billing
yet and that each has a key of its own, which `CanonicalSeries` gives it.

**PollPageProofs.** `Typed`. `AnswerInv`: an answer "done" that is still on its way
is of a job that was done, hence `LinksAreDone`. For `OnlyLatest`, `Alone` says what
the absence of overlapping requests means: every poll and preview under way is of the
latest run, and no interval but that of `pollTimer` is live.

**FoldTheorems.** The folds and sums of the community modules are defined by
recursion over the subsets of a finite set. Strict inclusion is well-founded on
these, so what holds for all of them is proved without an induction rule, by way of
a smallest counterexample (`Smallest`): that the recursion defines a function
(`SumExists`, `FoldExists`), that two such functions agree where both are defined,
and so that any element may be taken first (`SumRemove`). The fold over a sequence,
of `Squeeze`, is one that takes the largest index first. Upon these: a finite set has
a listing in any order that is total and transitive on it (`SortedListing`); a sum, or a count, over
the elements is that over their names (`SumNamed`, `CountNamed`); a loop that adds each
element to the bucket of its name ends with a bucket for each name, which has the count and
the sums of its elements (`TallyFacts`).

Only model-checked is all liveness, `FailedLeavesNoDir` and its like, which is out of
the provers' reach. The three properties that the code violates have, of course, no theorems.
The theorems about `BillingWindow` and `ReportRows` are in `CliRunProofs`; `Regions`, a
lookup that `CliRun` uses for one guard, has none.

## 5. Not modelled

- `os.RemoveAll` is one atomic step, and files appear complete in one step.
- A restart of the server: the registry is in memory and, as the UI's README has
  it, job output "lives in the tmpfs and dies with the container".
- The PromQL parser, the tenant's API and the usage service: external, by their
  results.
- Validation of the POST body and of file names: requests that fail it change
  nothing.
- Flags that change only amounts (the lookback of series, the limit, the number of
  workers, the time-out) in `CliRun`: they are constants of the modules of the scan.
- `isHostname`, trimming and lower-casing in `Regions` (parameters), the wording of
  errors and the layout of the status line (formatting), the
  region list and the visible check of the key in the page (layout), generated code.
- Float rounding of `unit_usage`; of the usage figures one that is added up and the
  days are modelled, the others take the same path.
- The order of lists in reports (sorted for reading), CSV and YAML layout.

## 6. Where code and words differ

- **A job that outlives the TTL is never cleaned up** (`registry_orphan`).
  `prune` goes by age only. If it removes a job during its scan, `rep.Write` makes
  the directory again and the run ends "done" on a job that is in no map; nothing
  will delete the files. If it reads `dir == ""` just before `setDir`, the
  directory outlives the entry. The flag's help says "how long to keep job dirs
  and download links" (`webui/main.go:36`).
- **Selectors without a metric name protect nothing** (`scan_nameless`).
  `{job="api"}` marks no series as used, and a metric that only such selectors
  read is dropped by the fragment, though "no scanned dashboard, alert, or SLO
  matched any series for that metric" (`README.md:97`) is not so. The report does
  list the selector.
- **Billing rows match by equal sets of label names** (`billing_subset`), not when
  "labels only subset-match" (`README.md:72`).

These differ in words only, or are cases that no document speaks of:

- `README.md:48` says that the tool "first calls `TeamService.ListTeams`"; `run` does so
  after the scan (`main.go:171`).
- `README.md:56` has "one row per unused `__name__`"; the rollup has a row for each name
  with an unused series, partly used metrics included.
- `meta.usage_lookback_days` is set though billing was skipped or the window was
  refused, while the dates of the window are then empty.
- A 2xx answer that is JSON but another object makes a source look empty, without a
  warning (`DropIsExplained` excepts just these); so does a dashboard whose body
  starts with white space, as `extractFromValue` looks at its first byte only.
- The error of closing a CSV file is ignored (`CloseLies`).
- Nothing locks the output directory: two invocations with one team's prefix mix
  their files (`LastSuccessStands` excepts an invocation that was disturbed).

Two more are worth knowing: texts without brackets
(`up == 0`) or which the parser rejects (`rate(x[$__rate_interval])`) yield no
selector; and late answers may end the polling of a newer scan (`PageIsOfLatest`
needs the premise that requests did not overlap).

## 7. State of the plan

Done, in this order: `JobRegistry` and its proofs, `SeriesFetch` with `Gather` and
proofs, `Selectors` and `ScanRun`, `VariationPages`, `BillingFetch`, `PollPage`;
then `BillingWindow`, `ReportRows`, `Regions` and `CliRun` over them, `ApiCalls` and
the pages of alerts in `ScanRun`, the progress line in `BillingFetch`, and the proofs
of `ScanRun`, `BillingFetch`, `CliRun` and `PollPage`; then `Replication`, `JobStore`
with the proof that the registry implements it, `FoldTheorems`, and over it the
proofs about sums, file names, the billing window and the files of a report; and
the proofs about the calls of the HTTP client.

Left: nothing of the plan. What could be added is in section 5, first of all what a
restart of the server and a `RemoveAll` of several steps leave on the disk.
