----------------------------- MODULE PollPage -----------------------------
(***************************************************************************)
(* The script of webui/index.html: a click posts a scan, and an interval   *)
(* polls its job until there is a verdict.                                 *)
(*                                                                         *)
(* The script is single-threaded; what interleaves are its requests.  An   *)
(* interval fires whether or not the last poll has been answered, so that  *)
(* answers may come late and in any order, and all of them share pollTimer,*)
(* the button and the status line.  A click and the job that it gets have  *)
(* one name here.  Of the server there is only what a poll can tell of a   *)
(* job; JobRegistry has the rest.                                          *)
(***************************************************************************)
EXTENDS Integers, FiniteSets

CONSTANTS
  Runs,    \* the clicks on "Run scan", and their jobs
  NoRun,   \* null
  Polls    \* bounds the polls under way at a time

ASSUME NoRunAssumption == NoRun \notin Runs

VARIABLES
  job,        \* what the server knows of each job
  pc,         \* each click's handler: "none", "posting", "polling" or "over"
  latest,     \* history: the last click
  pollTimer,  \* the run whose interval pollTimer has
  live,       \* the runs whose interval is still set
  poll,       \* the polls under way: [run, answer]
  disabled,   \* goBtn.disabled
  shown,      \* the status line: [text, run]
  links,      \* the run whose files are listed in dlEl
  yaml,       \* the run whose fragment otelYaml holds
  preview,    \* the runs whose otel-yaml request is under way
  overlap     \* history: a poll was sent, or the button clicked, while a poll
              \* or an otel-yaml request was under way

timers  == <<pollTimer, live>>
display == <<shown, links, yaml>>
vars == <<job, pc, latest, timers, poll, disabled, display, preview, overlap>>

NoPoll == [run |-> NoRun, answer |-> "none"]

Init ==
  /\ job = [r \in Runs |-> "none"]
  /\ pc = [r \in Runs |-> "none"]
  /\ latest = NoRun
  /\ pollTimer = NoRun
  /\ live = {}
  /\ poll = [p \in Polls |-> NoPoll]
  /\ disabled = FALSE
  /\ shown = [text |-> "", run |-> NoRun]
  /\ links = NoRun
  /\ yaml = NoRun
  /\ preview = {}
  /\ overlap = FALSE

Polling == \E p \in Polls : poll[p] # NoPoll

Show(text, r) == shown' = [text |-> text, run |-> r]

\* clearInterval(pollTimer)
ClearInterval == live' = live \ {pollTimer}

-----------------------------------------------------------------------------
(* The server's side.                                                      *)

JobEnds(r) ==
  /\ job[r] = "running"
  /\ \E verdict \in {"done", "error"} : job' = [job EXCEPT ![r] = verdict]
  /\ UNCHANGED <<pc, latest, timers, poll, disabled, display, preview, overlap>>

\* The pruner takes an old job away, whatever its status is.
JobPruned(r) ==
  /\ job[r] \in {"running", "done", "error"}
  /\ job' = [job EXCEPT ![r] = "404"]
  /\ UNCHANGED <<pc, latest, timers, poll, disabled, display, preview, overlap>>

\* handleJobStatus answers, or the connection breaks.
Answer(p) ==
  /\ poll[p] # NoPoll /\ poll[p].answer = "none"
  /\ \E answer \in {job[poll[p].run], "broken"} :
       poll' = [poll EXCEPT ![p].answer = answer]
  /\ UNCHANGED <<job, pc, latest, timers, disabled, display, preview, overlap>>

-----------------------------------------------------------------------------
(* The click handler up to its fetch, and from its answer on.              *)

\* With a key that looks valid.
Click(r) ==
  /\ ~disabled
  /\ pc[r] = "none"
  /\ pc' = [pc EXCEPT ![r] = "posting"]
  /\ latest' = r
  /\ links' = NoRun
  /\ yaml' = NoRun
  /\ disabled' = TRUE
  /\ Show("Starting", r)
  /\ ClearInterval
  /\ overlap' = (overlap \/ Polling \/ preview # {})
  /\ UNCHANGED <<job, pollTimer, poll, preview>>

\* With one that does not.
ClickRefused ==
  /\ ~disabled
  /\ links' = NoRun
  /\ yaml' = NoRun
  /\ Show("Invalid key", NoRun)
  /\ UNCHANGED <<job, pc, latest, timers, poll, disabled, preview, overlap>>

PostFails(r) ==
  /\ pc[r] = "posting"
  /\ pc' = [pc EXCEPT ![r] = "over"]
  /\ disabled' = FALSE
  /\ Show("Not started", r)
  /\ UNCHANGED <<job, latest, timers, poll, links, yaml, preview, overlap>>

\* fetch("/api/job/" + jobId)
Send(p, r) ==
  /\ poll[p] = NoPoll
  /\ poll' = [poll EXCEPT ![p].run = r]
  /\ overlap' = (overlap \/ Polling)

\* The job runs, its interval is set, and a first poll sent at once.
PostReturns(r) ==
  /\ pc[r] = "posting"
  /\ pc' = [pc EXCEPT ![r] = "polling"]
  /\ job' = [job EXCEPT ![r] = "running"]
  /\ Show("Scan running", r)
  /\ pollTimer' = r
  /\ live' = live \cup {r}
  /\ \E p \in Polls : Send(p, r)
  /\ UNCHANGED <<latest, disabled, links, yaml, preview>>

\* The interval of r fires.
Fire(r) ==
  /\ r \in live
  /\ \E p \in Polls : Send(p, r)
  /\ UNCHANGED <<job, pc, latest, timers, disabled, display, preview>>

-----------------------------------------------------------------------------
(* poll from its answer on.                                                *)

TakenHalf(p, r, answers) ==                  \* mutant: the answer is kept
  /\ poll[p].run = r
  /\ poll[p].answer \in answers
  /\ poll' = [poll EXCEPT ![p].run = NoRun]
Taken(p, r, answers) ==
  /\ poll[p].run = r
  /\ poll[p].answer \in answers
  /\ poll' = [poll EXCEPT ![p] = NoPoll]

\* clearInterval(pollTimer); pollTimer = null; goBtn.disabled = false
StopButtonOff == ClearInterval /\ pollTimer' = NoRun /\ UNCHANGED disabled
                                             \* mutant: the button stays off
StopKeepsTimer == pollTimer' = NoRun /\ disabled' = FALSE /\ UNCHANGED live
                                             \* mutant: no clearInterval
Stop == ClearInterval /\ pollTimer' = NoRun /\ disabled' = FALSE

\* Still queued or running.
HandleRunningStops(p, r) ==                  \* mutant: no early return
  /\ Taken(p, r, {"running"})
  /\ Show("Scan running", r)
  /\ Stop
  /\ UNCHANGED <<job, pc, latest, links, yaml, preview, overlap>>
HandleRunning(p, r) ==
  /\ Taken(p, r, {"running"})
  /\ Show("Scan running", r)
  /\ UNCHANGED <<job, pc, latest, timers, disabled, links, yaml, preview, overlap>>

\* Status "error", a 404, or an exception; the links are left alone.
HandleFailure(p, r) ==
  /\ Taken(p, r, {"error", "404", "broken"})
  /\ Show(IF poll[p].answer = "error" THEN "Scan failed" ELSE "Lost", r)
  /\ yaml' = NoRun
  /\ Stop
  /\ UNCHANGED <<job, pc, latest, links, preview, overlap>>

HandleAny(p, r) ==                           \* mutant: "running" is over, too
  /\ Taken(p, r, {"running", "done"})
  /\ Show("Done", r)
  /\ links' = r
  /\ yaml' = NoRun
  /\ preview' = preview \cup {r}
  /\ Stop
  /\ UNCHANGED <<job, pc, latest, overlap>>
HandleDone(p, r) ==
  /\ Taken(p, r, {"done"})
  /\ Show("Done", r)
  /\ links' = r
  /\ yaml' = NoRun
  /\ preview' = preview \cup {r}
  /\ Stop
  /\ UNCHANGED <<job, pc, latest, overlap>>

\* The answer to the otel-yaml request, or a text that says it failed.
PreviewReturns(r) ==
  /\ r \in preview
  /\ preview' = preview \ {r}
  /\ yaml' \in {r, NoRun}
  /\ UNCHANGED <<job, pc, latest, timers, poll, disabled, shown, links, overlap>>

Handle(p) ==
  \E r \in Runs : HandleRunning(p, r) \/ HandleFailure(p, r) \/ HandleDone(p, r)

Next ==
  \/ \E r \in Runs :
       JobEnds(r) \/ JobPruned(r) \/ Click(r) \/ PostReturns(r) \/ PostFails(r)
         \/ Fire(r) \/ PreviewReturns(r)
  \/ ClickRefused
  \/ \E p \in Polls : Answer(p) \/ Handle(p)

Spec == Init /\ [][Next]_vars

\* Requests are answered, answers handled, and intervals fire again and again;
\* a scan may take for ever, but the pruner takes its job away in the end.
Fairness ==
  /\ \A r \in Runs :
       /\ WF_vars(PostReturns(r) \/ PostFails(r))
       /\ SF_vars(Fire(r))
       /\ WF_vars(JobPruned(r))
  /\ \A p \in Polls : WF_vars(Answer(p)) /\ WF_vars(Handle(p))

FairSpec == Spec /\ Fairness

-----------------------------------------------------------------------------
(* Properties.                                                             *)

OrNoRun == Runs \cup {NoRun}

\* Every variable has its type; there is no answer without a poll.
TypeOK ==
  /\ job \in [Runs -> {"none", "running", "done", "error", "404"}]
  /\ pc \in [Runs -> {"none", "posting", "polling", "over"}]
  /\ {latest, pollTimer, links, yaml, shown.run} \subseteq OrNoRun
  /\ live \subseteq Runs
  /\ preview \subseteq Runs
  /\ poll \in [Polls -> [run: OrNoRun,
                         answer: {"none", "running", "done", "error", "404", "broken"}]]
  /\ \A p \in Polls : poll[p].run = NoRun => poll[p].answer = "none"
  /\ disabled \in BOOLEAN
  /\ overlap \in BOOLEAN

\* The files that the page lists are those of a job that has finished, even
\* if answers of several jobs come in late and in any order.
LinksAreOfDoneJob == links # NoRun => job[links] \in {"done", "404"}

\* As long as no request has overlapped, the page is about the last click
\* alone: no other interval is set, and the status, the files and the fragment
\* are its own.
PageIsOfLatest ==
  ~overlap =>
    /\ live = IF pollTimer = NoRun THEN {} ELSE {pollTimer}
    /\ {pollTimer, links, yaml, shown.run} \subseteq {latest, NoRun}
    /\ disabled <=> live # {} \/ \E r \in Runs : pc[r] = "posting"

\* The button comes back whatever happens to the requests and to the job: the
\* page never waits for a job that the server has forgotten.
ButtonComesBack == disabled ~> ~disabled

\* If no request overlaps, a job that ends while it is polled gets its verdict
\* shown, unless the page loses its connection or the job.
VerdictShown ==
  \A r \in Runs :
    r \in live /\ job[r] \in {"done", "error"} ~>
      shown = [text |-> "Done", run |-> r] \/ shown = [text |-> "Scan failed", run |-> r]
        \/ shown = [text |-> "Lost", run |-> r] \/ overlap
=============================================================================
