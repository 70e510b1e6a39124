---------------------------- MODULE JobRegistry ----------------------------
(***************************************************************************)
(* The job registry of the browser UI, webui/main.go.                      *)
(*                                                                         *)
(* POST /api/run puts a job in reg.jobs and starts a goroutine, runScan,   *)
(* that makes a temporary directory, scans, writes the reports into the    *)
(* directory and publishes their names.  Handlers of GET requests look the *)
(* job up and serve its status and its files.  A pruner removes jobs older *)
(* than the TTL, with their directories, whatever their status is.         *)
(*                                                                         *)
(* reg.mu is held over several steps only by prune, so it is "held" while  *)
(* prune is between its Lock and its Unlock; everybody else's section      *)
(* under reg.mu, and every section under a job's own mutex, is one map or  *)
(* field access and is one atomic step here.  No step acquires reg.mu      *)
(* while it holds a job's mutex, so the two locks cannot deadlock.         *)
(***************************************************************************)
EXTENDS Integers, FiniteSets

CONSTANTS
  Jobs,      \* the ids randomID can return
  NoJob,     \* no job
  Requests,  \* concurrent GET requests
  NFiles,    \* number of files rep.Write writes (8 in the code)
  TTL,       \* -job-ttl
  MaxTime    \* bound of the clock

ASSUME NoJobAssumption   == NoJob \notin Jobs
ASSUME NFilesAssumption  == NFiles \in Nat \ {0}
ASSUME TTLAssumption     == TTL \in Nat
ASSUME MaxTimeAssumption == MaxTime \in Nat

\* The report files, in the order rep.Write writes them; the last one is
\* metric_usage_otel_processors.yaml.
Files    == 1..NFiles
OtelFile == NFiles
\* Its name without the team's prefix, the preview's fallback: no such file.
BareName == 0

VARIABLES
  now,       \* the wall clock
  late,      \* history: the jobs whose goroutines have outlived the TTL
  jobs,      \* the keys of reg.jobs
  status,    \* j.status
  created,   \* j.created
  dir,       \* j.dir # "" (every job has a directory of its own)
  files,     \* j.files
  dirs,      \* the jobs whose temporary directory is on disk
  content,   \* the complete files in a job's directory
  pc,        \* where a job's handleRun / runScan is
  written,   \* how many files rep.Write has written
  prune,     \* the pruner: step, cutoff, ids left to visit, victim, its dir
  req        \* the GET requests

clock    == <<now, late>>
jobVars  == <<status, created, dir, files>>
diskVars == <<dirs, content>>
vars == <<clock, jobs, jobVars, diskVars, pc, written, prune, req>>

\* Some goroutine of the job still has steps to take.
Unfinished(id) == pc[id] \notin {"none", "exit"}

\* reg.mu is held by prune.
Locked == prune.pc \in {"visit", "remove", "delete"}

Age(id) == now - created[id]

Goto(id, from, to) == pc[id] = from /\ pc' = [pc EXCEPT ![id] = to]

SetStatus(id, s) == status' = [status EXCEPT ![id] = s]

\* os.RemoveAll of the directories of ids, one atomic step.
RemoveAll(ids) ==
  /\ dirs' = dirs \ ids
  /\ content' = [id \in Jobs |-> IF id \in ids THEN {} ELSE content[id]]

IdleRequest == [pc |-> "idle", kind |-> "status", id |-> NoJob, file |-> BareName,
                seen |-> "none", listed |-> {}, reply |-> "none"]

Init ==
  /\ now = 0
  /\ late = {}
  /\ jobs = {}
  /\ status  = [id \in Jobs |-> "none"]
  /\ created = [id \in Jobs |-> 0]
  /\ dir     = [id \in Jobs |-> FALSE]
  /\ files   = [id \in Jobs |-> {}]
  /\ dirs = {}
  /\ content = [id \in Jobs |-> {}]
  /\ pc = [id \in Jobs |-> "none"]
  /\ written = [id \in Jobs |-> 0]
  /\ prune = [pc |-> "idle", cutoff |-> 0, todo |-> {}, victim |-> NoJob,
              dir |-> FALSE]
  /\ req = [r \in Requests |-> IdleRequest]

-----------------------------------------------------------------------------
(* handleRun, for a request that passes its validation; one that does not  *)
(* is answered without a change of state.                                  *)

\* handleRun has an unused id and stamps the job.
HandleRun(id) ==
  /\ Goto(id, "none", "posted")
  /\ SetStatus(id, "queued")
  /\ created' = [created EXCEPT ![id] = now]
  /\ UNCHANGED <<clock, jobs, dir, files, diskVars, written, prune, req>>

\* It inserts the job under reg.mu, starts runScan and answers with the id.
InsertJob(id) ==
  /\ Goto(id, "posted", "queued")
  /\ ~Locked
  /\ jobs' = jobs \cup {id}
  /\ UNCHANGED <<clock, jobVars, diskVars, written, prune, req>>

-----------------------------------------------------------------------------
(* runScan: one action per access to the job, to the disk or to the API.   *)

\* j.setStatus("running").
Start(id) ==
  /\ Goto(id, "queued", "mkdir")
  /\ SetStatus(id, "running")
  /\ UNCHANGED <<clock, jobs, created, dir, files, diskVars, written, prune, req>>

MkdirTemp(id) ==
  /\ Goto(id, "mkdir", "setdir")
  /\ dirs' = dirs \cup {id}
  /\ UNCHANGED <<clock, jobs, jobVars, content, written, prune, req>>

SetDir(id) ==
  /\ Goto(id, "setdir", "scan")
  /\ dir' = [dir EXCEPT ![id] = TRUE]
  /\ UNCHANGED <<clock, jobs, status, created, files, diskVars, written, prune, req>>

\* scan.Run returns a report; the team name is resolved, or left empty.
ScanReturns(id) ==
  /\ Goto(id, "scan", "mkout")
  /\ UNCHANGED <<clock, jobs, jobVars, diskVars, written, prune, req>>

\* rep.Write starts with MkdirAll, which makes the directory anew if it has
\* gone in the meantime.
MkdirAll(id) ==
  /\ Goto(id, "mkout", "write")
  /\ dirs' = dirs \cup {id}
  /\ UNCHANGED <<clock, jobs, jobVars, content, written, prune, req>>

\* rep.Write has a file left to write.
MoreInclusive(id) == written[id] <= NFiles   \* mutant: one file too many
More(id) == written[id] < NFiles

\* rep.Write creates and fills the next file: that needs the directory.
WriteFile(id) ==
  LET f == written[id] + 1 IN
  /\ pc[id] = "write"
  /\ More(id)
  /\ id \in dirs
  /\ content' = [content EXCEPT ![id] = @ \cup {f}]
  /\ written' = [written EXCEPT ![id] = f]
  /\ UNCHANGED <<clock, jobs, jobVars, dirs, pc, prune, req>>

\* rep.Write returns the names of all its files.
WriteReturns(id) ==
  /\ Goto(id, "write", "setfiles")
  /\ ~More(id)
  /\ UNCHANGED <<clock, jobs, jobVars, diskVars, written, prune, req>>

\* MkdirTemp, the billing client, scan.Run or rep.Write fails: j.fail and
\* return, by way of os.RemoveAll when there is a directory.
FailSilently(id) ==                          \* mutant: no j.fail
  /\ Goto(id, "write", "cleanup") /\ More(id)
  /\ UNCHANGED <<clock, jobs, jobVars, diskVars, written, prune, req>>
Fail(id) ==
  /\ \/ Goto(id, "mkdir", "exit")
     \/ Goto(id, "scan", "cleanup")
     \/ Goto(id, "mkout", "cleanup")
     \/ Goto(id, "write", "cleanup") /\ More(id)
  /\ SetStatus(id, "error")
  /\ UNCHANGED <<clock, jobs, created, dir, files, diskVars, written, prune, req>>

\* os.RemoveAll(dir) and return.
CleanupSkipped(id) ==                        \* mutant: no os.RemoveAll
  /\ Goto(id, "cleanup", "exit")
  /\ UNCHANGED <<clock, jobs, jobVars, diskVars, written, prune, req>>
Cleanup(id) ==
  /\ Goto(id, "cleanup", "exit")
  /\ RemoveAll({id})
  /\ UNCHANGED <<clock, jobs, jobVars, written, prune, req>>

\* j.setFiles(written).
SetFilesSkipped(id) ==                       \* mutant: "done" comes first
  /\ Goto(id, "setfiles", "setdone")
  /\ SetStatus(id, "done")
  /\ UNCHANGED <<clock, jobs, created, dir, files, diskVars, written, prune, req>>
SetFiles(id) ==
  /\ Goto(id, "setfiles", "setdone")
  /\ files' = [files EXCEPT ![id] = 1..written[id]]
  /\ UNCHANGED <<clock, jobs, status, created, dir, diskVars, written, prune, req>>

\* j.setStatus("done").
SetDone(id) ==
  /\ Goto(id, "setdone", "exit")
  /\ SetStatus(id, "done")
  /\ UNCHANGED <<clock, jobs, created, dir, files, diskVars, written, prune, req>>

RunScan(id) ==
  \/ Start(id) \/ MkdirTemp(id) \/ SetDir(id) \/ ScanReturns(id)
  \/ MkdirAll(id) \/ WriteFile(id) \/ WriteReturns(id)
  \/ SetFiles(id) \/ SetDone(id) \/ Fail(id) \/ Cleanup(id)

-----------------------------------------------------------------------------
(* The pruner: a ticker calls prune.                                       *)

\* The cutoff is computed before the lock is taken.
PruneTick ==
  /\ prune.pc = "idle"
  /\ prune' = [prune EXCEPT !.pc = "lock", !.cutoff = now - TTL]
  /\ UNCHANGED <<clock, jobs, jobVars, diskVars, pc, written, req>>

PruneLock ==
  /\ prune.pc = "lock"
  /\ prune' = [prune EXCEPT !.pc = "visit", !.todo = jobs]
  /\ UNCHANGED <<clock, jobs, jobVars, diskVars, pc, written, req>>

\* j.created.Before(cutoff).
ExpiredInclusive(id) == created[id] <= prune.cutoff   \* mutant: not After
ExpiredReversed(id)  == created[id] > prune.cutoff    \* mutant: wrong way
Expired(id) == created[id] < prune.cutoff

\* created and dir are read together under the job's mutex; the status is not.
PruneVisit(id) ==
  /\ prune.pc = "visit"
  /\ id \in prune.todo
  /\ prune' = IF Expired(id)
                THEN [prune EXCEPT !.pc = "remove", !.todo = @ \ {id},
                                   !.victim = id, !.dir = dir[id]]
                ELSE [prune EXCEPT !.todo = @ \ {id}]
  /\ UNCHANGED <<clock, jobs, jobVars, diskVars, pc, written, req>>

\* The directory goes by the value of j.dir that was read.
PruneKeepsDir ==                             \* mutant: no os.RemoveAll
  /\ prune.pc = "remove"
  /\ prune' = [prune EXCEPT !.pc = "delete"]
  /\ UNCHANGED <<clock, jobs, jobVars, diskVars, pc, written, req>>
PruneRemove ==
  /\ prune.pc = "remove"
  /\ RemoveAll(IF prune.dir THEN {prune.victim} ELSE {})
  /\ prune' = [prune EXCEPT !.pc = "delete"]
  /\ UNCHANGED <<clock, jobs, jobVars, pc, written, req>>

PruneDelete ==
  /\ prune.pc = "delete"
  /\ jobs' = jobs \ {prune.victim}
  /\ prune' = [prune EXCEPT !.pc = "visit", !.victim = NoJob, !.dir = FALSE]
  /\ UNCHANGED <<clock, jobVars, diskVars, pc, written, req>>

\* The loop is over and the deferred Unlock runs.
PruneKeepsLock ==                            \* mutant: no Unlock
  /\ prune.pc = "visit" /\ prune.todo = {}
  /\ UNCHANGED vars
PruneEnd ==
  /\ prune.pc = "visit"
  /\ prune.todo = {}
  /\ prune' = [prune EXCEPT !.pc = "idle", !.cutoff = 0]
  /\ UNCHANGED <<clock, jobs, jobVars, diskVars, pc, written, req>>

Prune ==
  \/ PruneTick \/ PruneLock \/ PruneRemove \/ PruneDelete \/ PruneEnd
  \/ \E id \in Jobs : PruneVisit(id)

-----------------------------------------------------------------------------
(* The handlers of GET /api/job/{id} ("status"), /dl/{id}/{file}           *)
(* ("download") and /api/job/{id}/otel-yaml ("preview").  They keep a      *)
(* pointer to the job, which outlives its removal from the map.            *)

Step(r, from, change) ==
  /\ req[r].pc = from
  /\ req' = [req EXCEPT ![r] = change]
  /\ UNCHANGED <<clock, jobs, jobVars, diskVars, pc, written, prune>>

Replied(q, code) == [q EXCEPT !.pc = "replied", !.reply = code]

\* A client knows an id from the answer to POST /api/run; it downloads any of
\* the files, and previews the OTEL one.
Arrive(r, kind, id, f) ==
  /\ req[r].pc \in {"idle", "replied"}
  /\ pc[id] \notin {"none", "posted"}
  /\ kind # "download" => f = OtelFile
  /\ req' = [req EXCEPT ![r] = [IdleRequest EXCEPT !.pc = "lookup", !.kind = kind,
                                                   !.id = id, !.file = f]]
  /\ UNCHANGED <<clock, jobs, jobVars, diskVars, pc, written, prune>>

Lookup(r) == LET q == req[r] IN
  /\ ~Locked
  /\ Step(r, "lookup", IF q.id \in jobs THEN [q EXCEPT !.pc = "snapshot"]
                                        ELSE Replied(q, "404"))

\* j.snapshot: a status request is answered with what was seen unless that
\* is "done", the others with 409.
Snapshot(r) == LET q  == [req[r] EXCEPT !.seen = status[req[r].id]] IN
  Step(r, "snapshot",
       IF q.seen = "done"
         THEN [q EXCEPT !.pc = IF q.kind = "preview" THEN "dir" ELSE "files"]
         ELSE Replied(q, IF q.kind = "status" THEN "200" ELSE "409"))

GetFiles(r) == LET q == [req[r] EXCEPT !.listed = files[req[r].id]] IN
  Step(r, "files",
       CASE q.kind = "status"   -> Replied(q, "200")
         [] q.kind = "download" -> IF q.file \in q.listed
                                     THEN [q EXCEPT !.pc = "dir"]
                                     ELSE Replied(q, "404")
         [] q.kind = "preview"  ->
              [q EXCEPT !.pc = "read",
                        !.file = IF q.file \in q.listed THEN q.file ELSE BareName])

GetDir(r) == LET q == req[r] IN
  Step(r, "dir",
       IF ~dir[q.id] THEN Replied(q, "404")
       ELSE [q EXCEPT !.pc = IF q.kind = "preview" THEN "files" ELSE "stat"])

\* os.Stat finds the file, or not.
Stat(r) == LET q == req[r] IN
  Step(r, "stat", IF q.file \in content[q.id] THEN [q EXCEPT !.pc = "read"]
                                              ELSE Replied(q, "404"))

\* http.ServeFile or os.ReadFile.
ReadFile(r) == LET q == req[r] IN
  Step(r, "read", Replied(q, IF q.file \in content[q.id] THEN "200" ELSE "404"))

Serve(r) ==
  Lookup(r) \/ Snapshot(r) \/ GetFiles(r) \/ GetDir(r) \/ Stat(r) \/ ReadFile(r)

Kinds == {"status", "download", "preview"}

Request(r) == \E kind \in Kinds, id \in Jobs, f \in Files : Arrive(r, kind, id, f)

-----------------------------------------------------------------------------

Tick ==
  /\ now < MaxTime
  /\ now' = now + 1
  /\ late' = late \cup {id \in Jobs : Unfinished(id) /\ now' - created[id] > TTL}
  /\ UNCHANGED <<jobs, jobVars, diskVars, pc, written, prune, req>>

\* Everything but the passing of time.
Act ==
  \/ \E id \in Jobs : HandleRun(id) \/ InsertJob(id) \/ RunScan(id)
  \/ Prune
  \/ \E r \in Requests : Request(r) \/ Serve(r)

Next == Act \/ Tick

Spec == Init /\ [][Next]_vars

\* Every goroutine that can run does run, so each of its steps is weakly
\* fair; a sync.Mutex hands itself to the longest waiter once that has waited
\* 1 ms, so taking reg.mu is strongly fair.  scan.Run may take forever: the
\* billing calls have no deadline.
Fairness ==
  /\ \A id \in Jobs :
       /\ SF_vars(InsertJob(id))
       /\ WF_vars(RunScan(id) /\ pc[id] # "scan")
  /\ WF_vars(Prune)
  /\ \A r \in Requests :
       /\ SF_vars(Lookup(r))
       /\ WF_vars(Serve(r) /\ req[r].pc # "lookup")

FairSpec == Spec /\ Fairness

-----------------------------------------------------------------------------
(* Properties.                                                             *)

Steps == {"none", "posted", "queued", "mkdir", "setdir", "scan", "mkout",
          "write", "setfiles", "setdone", "cleanup", "exit"}

PruneState == [pc: {"idle", "lock", "visit", "remove", "delete"},
               cutoff: Int, todo: SUBSET Jobs, victim: Jobs \cup {NoJob},
               dir: BOOLEAN]

RequestState ==
  [pc: {"idle", "lookup", "snapshot", "files", "dir", "stat", "read", "replied"},
   kind: Kinds, id: Jobs \cup {NoJob}, file: Files \cup {BareName},
   seen: {"none", "queued", "running", "done", "error"}, listed: SUBSET Files,
   reply: {"none", "200", "404", "409"}]

\* Every variable has its type; a pruner with a victim, and a request under
\* way, name a job.
TypeOK ==
  /\ now \in Nat
  /\ late \subseteq Jobs
  /\ jobs \subseteq Jobs
  /\ status \in [Jobs -> {"none", "queued", "running", "done", "error"}]
  /\ created \in [Jobs -> Nat]
  /\ dir \in [Jobs -> BOOLEAN]
  /\ files \in [Jobs -> SUBSET Files]
  /\ dirs \subseteq Jobs
  /\ content \in [Jobs -> SUBSET Files]
  /\ pc \in [Jobs -> Steps]
  /\ written \in [Jobs -> 0..NFiles]
  /\ prune \in PruneState
  /\ prune.pc \in {"remove", "delete"} => prune.victim \in Jobs
  /\ req \in [Requests -> RequestState]
  /\ \A r \in Requests : req[r].pc # "idle" => req[r].id \in Jobs

\* prune has removed the directory of id and not yet its entry; it holds
\* reg.mu, so no request can find the entry.
HalfPruned(id) == prune.pc = "delete" /\ prune.victim = id

\* A job in the registry whose status is "done" has published every report
\* file, and each is complete on disk: whichever way runScan's last steps, the
\* pruner and the handlers interleave, a listed link leads to a file.
DoneIsDownloadable ==
  \A id \in jobs : status[id] = "done" /\ ~HalfPruned(id) =>
    files[id] = Files /\ dir[id] /\ content[id] = Files

\* A status answer "done" carries the whole list of files, though the status
\* and the list are read in two separate critical sections.
DoneReplyIsComplete ==
  \A r \in Requests :
    req[r].pc = "replied" /\ req[r].kind = "status" /\ req[r].seen = "done" =>
      req[r].listed = Files

\* "Not found" is never the answer for a job younger than the TTL, wherever
\* the request is when the pruner runs.
LinkLivesForTTL ==
  [][\A r \in Requests : req[r].reply # "404" /\ req'[r].reply = "404" =>
       Age(req[r].id) > TTL]_vars

\* What a client sees of a job: its status until it is gone, for which the
\* removal of its directory counts, as nobody can find the entry after it; and
\* the links that lead to a file.
Public(id) ==
  IF pc[id] \in {"none", "posted"} \/ (id \in jobs /\ ~HalfPruned(id)) THEN status[id]
  ELSE "gone"

Downloadable(id) ==
  {f \in files[id] : Public(id) = "done" /\ dir[id] /\ f \in content[id]}

Store == INSTANCE JobStore WITH
  state <- [id \in Jobs |-> Public(id)],
  born  <- created,
  links <- [id \in Jobs |-> Downloadable(id)]

\* The registry implements JobStore: of the many steps by which a job is run,
\* published and removed, a client sees no half-way one.
ImplementsStore == Store!Spec

\* A directory on disk belongs to a job that the pruner can still find, or to
\* a runScan that is still going: else nothing will ever delete it.
Reachable(id) == id \in jobs \/ Unfinished(id)

NoOrphanDirs == \A id \in dirs : Reachable(id)

\* So it is with every job that does not run for longer than the TTL (1 h
\* unless -job-ttl says otherwise), whatever the others do.
PromptLeavesNoDir == \A id \in dirs \ late : Reachable(id)

\* Once the API calls are over, runScan reaches a verdict.
VerdictReached ==
  \A id \in Jobs : pc[id] = "mkout" ~> status[id] \in {"done", "error"}

\* A failed job ends up without a directory, for good.
FailedLeavesNoDir ==
  \A id \in Jobs : status[id] = "error" ~> [](id \notin dirs)

\* A job older than the TTL leaves the registry.
ExpiredIsReclaimed ==
  \A id \in Jobs : id \in jobs /\ Age(id) > TTL ~> id \notin jobs

\* Every request is answered, though the pruner keeps taking reg.mu.
RequestAnswered ==
  \A r \in Requests : req[r].pc = "lookup" ~> req[r].pc = "replied"

=============================================================================
