------------------------- MODULE JobRegistryProofs -------------------------
(***************************************************************************)
(* Proofs about JobRegistry, for every number of jobs, requests and files, *)
(* every TTL and every bound of the clock.                                 *)
(***************************************************************************)
EXTENDS JobRegistry, TLAPS

-----------------------------------------------------------------------------
(* Type correctness.                                                       *)

LEMMA TypeInit == Init => TypeOK
  BY NFilesAssumption DEF Init, TypeOK, Steps, PruneState, RequestState, IdleRequest, Kinds,
             Files, BareName

\* handleRun and runScan keep the types.
LEMMA TypeRun ==
  ASSUME TypeOK, NEW id \in Jobs,
         HandleRun(id) \/ InsertJob(id) \/ RunScan(id)
  PROVE  TypeOK'
  <1> USE DEF TypeOK, Steps, Goto, SetStatus, clock, jobVars, diskVars
  <1>1. CASE HandleRun(id)       BY <1>1 DEF HandleRun
  <1>2. CASE InsertJob(id)       BY <1>2 DEF InsertJob
  <1>3. CASE Start(id)           BY <1>3 DEF Start
  <1>4. CASE MkdirTemp(id)       BY <1>4 DEF MkdirTemp
  <1>5. CASE SetDir(id)          BY <1>5 DEF SetDir
  <1>6. CASE ScanReturns(id)     BY <1>6 DEF ScanReturns
  <1>7. CASE MkdirAll(id)        BY <1>7 DEF MkdirAll
  <1>8. CASE WriteFile(id)       BY <1>8, NFilesAssumption DEF WriteFile, More, Files
  <1>9. CASE WriteReturns(id)    BY <1>9 DEF WriteReturns
  <1>10. CASE SetFiles(id)       BY <1>10, NFilesAssumption DEF SetFiles, Files
  <1>11. CASE SetDone(id)        BY <1>11 DEF SetDone
  <1>12. CASE Fail(id)           BY <1>12 DEF Fail
  <1>13. CASE Cleanup(id)        BY <1>13 DEF Cleanup, RemoveAll
  <1> QED
    BY <1>1, <1>2, <1>3, <1>4, <1>5, <1>6, <1>7, <1>8, <1>9, <1>10, <1>11,
       <1>12, <1>13 DEF RunScan

\* The pruner keeps the types.
LEMMA TypePrune == TypeOK /\ Prune => TypeOK'
  <1> SUFFICES ASSUME TypeOK, Prune PROVE TypeOK'
    OBVIOUS
  <1> USE DEF TypeOK, clock, jobVars, diskVars
  <1>1. CASE PruneTick
    <2>1. prune' = [pc |-> "lock", cutoff |-> now - TTL, todo |-> prune.todo,
                    victim |-> prune.victim, dir |-> prune.dir]
      BY <1>1 DEF PruneTick, PruneState
    <2>2. now - TTL \in Int
      BY TTLAssumption
    <2> QED BY <1>1, <2>1, <2>2 DEF PruneTick, PruneState
  <1>2. CASE PruneLock           BY <1>2 DEF PruneLock, PruneState
  <1>3. CASE PruneRemove         BY <1>3 DEF PruneRemove, RemoveAll, PruneState
  <1>4. CASE PruneDelete         BY <1>4 DEF PruneDelete, PruneState
  <1>5. CASE PruneEnd
    <2>1. prune' = [pc |-> "idle", cutoff |-> 0, todo |-> prune.todo,
                    victim |-> prune.victim, dir |-> prune.dir]
      BY <1>5 DEF PruneEnd, PruneState
    <2> QED BY <1>5, <2>1 DEF PruneEnd, PruneState
  <1>6. ASSUME NEW id \in Jobs, PruneVisit(id) PROVE TypeOK'
    BY <1>6 DEF PruneVisit, PruneState
  <1> QED BY <1>1, <1>2, <1>3, <1>4, <1>5, <1>6 DEF Prune

\* Step replaces a request's record and nothing else.
LEMMA StepType ==
  ASSUME TypeOK, NEW r \in Requests, NEW from, NEW change \in RequestState,
         change.id \in Jobs, Step(r, from, change)
  PROVE  TypeOK'
  <1>1. req' \in [Requests -> RequestState]
    BY DEF TypeOK, Step
  <1>2. \A s \in Requests : req'[s].pc # "idle" => req'[s].id \in Jobs
    BY DEF TypeOK, Step
  <1> QED BY <1>1, <1>2 DEF TypeOK, Step, clock, jobVars, diskVars

LEMMA RepliedType ==
  ASSUME NEW q \in RequestState, NEW code \in {"200", "404", "409"}
  PROVE  Replied(q, code) \in RequestState /\ Replied(q, code).id = q.id
  BY DEF Replied, RequestState

\* A handler's step keeps the types.
LEMMA TypeServe ==
  ASSUME TypeOK, NEW r \in Requests, Serve(r)
  PROVE  TypeOK'
  <1> DEFINE q == req[r]
  <1>1. q \in RequestState /\ q.id \in Jobs
    BY DEF TypeOK, Serve, Lookup, Snapshot, GetFiles, GetDir, Stat, ReadFile, Step
  <1>2. \A p \in {"snapshot", "files", "dir", "stat", "read"} :
          [q EXCEPT !.pc = p] \in RequestState /\ [q EXCEPT !.pc = p].id = q.id
    BY <1>1 DEF RequestState
  <1> HIDE DEF q
  <1>3. CASE Lookup(r)
    BY <1>1, <1>2, <1>3, RepliedType, StepType DEF Lookup, q
  <1>4. CASE Snapshot(r)
    <2> DEFINE s == [q EXCEPT !.seen = status[q.id]]
    <2>1. s \in RequestState /\ s.id = q.id
      BY <1>1 DEF RequestState, TypeOK
    <2>2. \A p \in {"dir", "files"} :
            [s EXCEPT !.pc = p] \in RequestState /\ [s EXCEPT !.pc = p].id = q.id
      BY <2>1 DEF RequestState
    <2>3. Step(r, "snapshot",
            IF s.seen = "done"
              THEN [s EXCEPT !.pc = IF s.kind = "preview" THEN "dir" ELSE "files"]
              ELSE Replied(s, IF s.kind = "status" THEN "200" ELSE "409"))
      BY <1>4 DEF Snapshot, q
    <2> HIDE DEF s
    <2> QED BY <1>1, <2>1, <2>2, <2>3, RepliedType, StepType
  <1>5. CASE GetFiles(r)
    <2> DEFINE s == [q EXCEPT !.listed = files[q.id]]
               change == CASE s.kind = "status"   -> Replied(s, "200")
                           [] s.kind = "download" -> IF s.file \in s.listed
                                                      THEN [s EXCEPT !.pc = "dir"]
                                                      ELSE Replied(s, "404")
                           [] s.kind = "preview"  ->
                                [s EXCEPT !.pc = "read",
                                          !.file = IF s.file \in s.listed THEN s.file
                                                                         ELSE BareName]
    <2>1. s \in RequestState /\ s.id = q.id
      BY <1>1 DEF RequestState, TypeOK
    <2>2. [s EXCEPT !.pc = "dir"] \in RequestState /\ [s EXCEPT !.pc = "dir"].id = q.id
      BY <2>1 DEF RequestState
    <2>3. \A f \in Files \cup {BareName} :
            /\ [s EXCEPT !.pc = "read", !.file = f] \in RequestState
            /\ [s EXCEPT !.pc = "read", !.file = f].id = q.id
      BY <2>1 DEF RequestState
    <2>4. s.kind \in {"status", "download", "preview"} /\ s.file \in Files \cup {BareName}
      BY <2>1 DEF RequestState, Kinds
    <2>5. Step(r, "files", change)
      BY <1>5 DEF GetFiles, q
    <2> HIDE DEF s
    <2>6. change \in RequestState /\ change.id = q.id
      BY <2>1, <2>2, <2>3, <2>4, RepliedType
    <2> QED BY <1>1, <2>5, <2>6, StepType
  <1>6. CASE GetDir(r)
    BY <1>1, <1>2, <1>6, RepliedType, StepType DEF GetDir, q
  <1>7. CASE Stat(r)
    BY <1>1, <1>2, <1>7, RepliedType, StepType DEF Stat, q
  <1>8. CASE ReadFile(r)
    BY <1>1, <1>8, RepliedType, StepType DEF ReadFile, q
  <1> QED BY <1>3, <1>4, <1>5, <1>6, <1>7, <1>8 DEF Serve

\* A new request keeps the types.
LEMMA TypeArrive ==
  ASSUME TypeOK, NEW r \in Requests, Request(r)
  PROVE  TypeOK'
  <1>1. PICK kind \in Kinds, id \in Jobs, f \in Files : Arrive(r, kind, id, f)
    BY DEF Request
  <1> DEFINE q == [IdleRequest EXCEPT !.pc = "lookup", !.kind = kind, !.id = id,
                                      !.file = f]
  <1>2. q \in RequestState /\ q.id \in Jobs
    BY DEF IdleRequest, RequestState
  <1>3. Step(r, req[r].pc, q)
    BY <1>1 DEF Arrive, Step
  <1> QED BY <1>2, <1>3, StepType

LEMMA TypeStep == TypeOK /\ [Next]_vars => TypeOK'
  <1> SUFFICES ASSUME TypeOK, [Next]_vars PROVE TypeOK'
    OBVIOUS
  <1>1. CASE Act
    BY <1>1, TypeRun, TypePrune, TypeServe, TypeArrive DEF Act
  <1>2. CASE Tick
    BY <1>2 DEF Tick, TypeOK, clock, jobVars, diskVars
  <1>3. CASE UNCHANGED vars
    BY <1>3 DEF TypeOK, vars, clock, jobVars, diskVars
  <1> QED BY <1>1, <1>2, <1>3 DEF Next

\* Every variable keeps its type in every behaviour.
THEOREM TypeCorrect == Spec => []TypeOK
  BY TypeInit, TypeStep, PTL DEF Spec

-----------------------------------------------------------------------------
(* What is published is on disk.                                           *)

\* Where runScan is tells what it has written and published: nothing is on
\* disk before rep.Write, each file it writes stays as long as the pruner has
\* not taken the job, and the status becomes "done" after the list is set.
Published(id) ==
  /\ id \in jobs => pc[id] \notin {"none", "posted"}
  /\ pc[id] \in {"none", "posted", "queued", "mkdir", "setdir", "scan", "mkout"}
       => written[id] = 0 /\ content[id] = {}
  /\ pc[id] \in {"scan", "mkout", "write", "setfiles", "setdone"} => dir[id]
  /\ pc[id] \in {"write", "setfiles", "setdone"} /\ id \in jobs /\ ~HalfPruned(id)
       => content[id] = 1..written[id]
  /\ pc[id] \in {"setfiles", "setdone"} => written[id] = NFiles
  /\ pc[id] = "setdone" => files[id] = Files
  /\ status[id] = "done" =>
       /\ pc[id] = "exit" /\ dir[id] /\ files[id] = Files
       /\ id \in jobs /\ ~HalfPruned(id) => content[id] = Files

PublishInv == TypeOK /\ \A id \in Jobs : Published(id)

LEMMA PublishInit == Init => PublishInv
  <1> SUFFICES ASSUME Init PROVE \A id \in Jobs : Published(id)
    BY TypeInit DEF PublishInv
  <1> QED BY DEF Init, Published

\* handleRun and runScan of one job keep the invariant of every job.
LEMMA PublishRun ==
  ASSUME PublishInv, TypeOK', NEW id \in Jobs,
         HandleRun(id) \/ InsertJob(id) \/ RunScan(id)
  PROVE  PublishInv'
  <1> SUFFICES ASSUME NEW x \in Jobs PROVE Published(x)'
    BY DEF PublishInv
  <1> USE DEF PublishInv, TypeOK, Steps, Published, HalfPruned, Goto, SetStatus,
              clock, jobVars, diskVars
  <1>1. CASE HandleRun(id)       BY <1>1 DEF HandleRun
  <1>2. CASE InsertJob(id)       BY <1>2 DEF InsertJob
  <1>3. CASE Start(id)           BY <1>3 DEF Start
  <1>4. CASE MkdirTemp(id)       BY <1>4 DEF MkdirTemp
  <1>5. CASE SetDir(id)          BY <1>5 DEF SetDir
  <1>6. CASE ScanReturns(id)     BY <1>6 DEF ScanReturns
  <1>7. CASE MkdirAll(id)
    <2>1. content[id] = 1..written[id]
      <3>1. content[id] = {} /\ written[id] = 0
        BY <1>7 DEF MkdirAll
      <3> QED BY <3>1
    <2> QED BY <1>7, <2>1 DEF MkdirAll
  <1>8. CASE WriteFile(id)
    <2>1. /\ written[id] \in Nat
          /\ content' = [content EXCEPT ![id] = @ \cup {written[id] + 1}]
          /\ written' = [written EXCEPT ![id] = written[id] + 1]
          /\ UNCHANGED <<jobs, jobVars, dirs, pc, prune>>
          /\ pc[id] = "write"
      BY <1>8 DEF WriteFile
    <2>2. content[id] = 1..written[id] => content'[id] = 1..written'[id]
      <3>1. (1..written[id]) \cup {written[id] + 1} = 1..(written[id] + 1)
        BY <2>1
      <3>2. /\ content'[id] = content[id] \cup {written[id] + 1}
            /\ written'[id] = written[id] + 1
        BY <2>1
      <3> QED BY <3>1, <3>2
    <2>3. x # id => content'[x] = content[x] /\ written'[x] = written[x]
      BY <2>1
    <2>4. CASE x = id
      <3>1. pc[x] = "write" /\ UNCHANGED <<jobs, pc, prune, dir, status, files>>
        BY <2>1, <2>4
      <3> QED BY <2>2, <2>4, <3>1
    <2>5. CASE x # id
      BY <2>1, <2>3, <2>5
    <2> QED BY <2>4, <2>5
  <1>9. CASE WriteReturns(id)    BY <1>9, NFilesAssumption DEF WriteReturns, More
  <1>10. CASE SetFiles(id)       BY <1>10 DEF SetFiles, Files
  <1>11. CASE SetDone(id)        BY <1>11 DEF SetDone, Files
  <1>12. CASE Fail(id)           BY <1>12 DEF Fail
  <1>13. CASE Cleanup(id)        BY <1>13 DEF Cleanup, RemoveAll
  <1> QED
    BY <1>1, <1>2, <1>3, <1>4, <1>5, <1>6, <1>7, <1>8, <1>9, <1>10, <1>11,
       <1>12, <1>13 DEF RunScan

\* The pruner takes the files of its victim only, which it then forgets.
LEMMA PublishPrune ==
  ASSUME PublishInv, TypeOK', Prune
  PROVE  PublishInv'
  <1> SUFFICES ASSUME NEW x \in Jobs PROVE Published(x)'
    BY DEF PublishInv
  <1> USE DEF PublishInv, TypeOK, Published, HalfPruned, PruneState, clock, jobVars, diskVars
  <1>1. CASE PruneTick           BY <1>1 DEF PruneTick
  <1>2. CASE PruneLock           BY <1>2 DEF PruneLock
  <1>3. CASE PruneRemove         BY <1>3 DEF PruneRemove, RemoveAll
  <1>4. CASE PruneDelete         BY <1>4 DEF PruneDelete
  <1>5. CASE PruneEnd            BY <1>5 DEF PruneEnd
  <1>6. ASSUME NEW id \in Jobs, PruneVisit(id) PROVE Published(x)'
    BY <1>6 DEF PruneVisit
  <1> QED BY <1>1, <1>2, <1>3, <1>4, <1>5, <1>6 DEF Prune

\* A handler changes its own request only.
LEMMA RequestFrame ==
  ASSUME NEW r \in Requests, Request(r) \/ Serve(r)
  PROVE  UNCHANGED <<clock, jobs, jobVars, diskVars, pc, written, prune>>
  BY DEF Request, Arrive, Serve, Lookup, Snapshot, GetFiles, GetDir, Stat,
         ReadFile, Step

LEMMA PublishStep == PublishInv /\ [Next]_vars => PublishInv'
  <1> SUFFICES ASSUME PublishInv, [Next]_vars PROVE PublishInv'
    OBVIOUS
  <1>1. TypeOK'
    BY TypeStep DEF PublishInv
  <1>2. CASE UNCHANGED <<jobs, jobVars, diskVars, pc, written, prune>>
    BY <1>1, <1>2 DEF PublishInv, Published, HalfPruned, clock, jobVars, diskVars
  <1>3. CASE Act
    BY <1>1, <1>2, <1>3, PublishRun, PublishPrune, RequestFrame DEF Act
  <1>4. CASE Tick
    BY <1>2, <1>4 DEF Tick
  <1>5. CASE UNCHANGED vars
    BY <1>2, <1>5 DEF vars
  <1> QED BY <1>3, <1>4, <1>5 DEF Next

\* A job in the registry whose status is "done" has all its files on disk, for
\* any interleaving of runScan, the pruner and the handlers.
THEOREM DoneDownloadable == Spec => []DoneIsDownloadable
  <1>1. PublishInv => DoneIsDownloadable
    BY DEF PublishInv, Published, DoneIsDownloadable, TypeOK
  <1> QED BY <1>1, PublishInit, PublishStep, PTL DEF Spec

-----------------------------------------------------------------------------
(* A status answer is whole.                                               *)

\* A job that is done stays done and its list of files stays whole, so that a
\* request that has read the status will read the whole list.
ReplyInv ==
  /\ PublishInv
  /\ \A r \in Requests : LET q == req[r] IN
       /\ q.pc \in {"files", "dir", "stat", "read"} => status[q.id] = "done"
       /\ q.pc = "replied" /\ q.kind = "status" /\ q.seen = "done" => q.listed = Files
       /\ q.pc \in {"lookup", "snapshot"} => q.seen = "none"
       /\ q.pc \in {"dir", "stat", "read"} => q.kind # "status"

\* No step takes a job out of "done".
LEMMA DoneStays ==
  ASSUME PublishInv, Act, NEW id \in Jobs, status[id] = "done"
  PROVE  status'[id] = "done"
  <1>1. pc[id] = "exit"
    BY DEF PublishInv, Published
  <1>2. ASSUME NEW x \in Jobs, HandleRun(x) \/ InsertJob(x) \/ RunScan(x)
        PROVE  status'[id] = "done"
    <2>1. x # id
      BY <1>1, <1>2 DEF HandleRun, InsertJob, RunScan, Start, MkdirTemp, SetDir, ScanReturns,
            MkdirAll, WriteFile, WriteReturns, SetFiles, SetDone, Fail, Cleanup, Goto
    <2> QED
      BY <1>2, <2>1 DEF PublishInv, TypeOK, HandleRun, InsertJob, RunScan, Start, MkdirTemp,
         SetDir, ScanReturns, MkdirAll, WriteFile, WriteReturns, SetFiles, SetDone, Fail,
         Cleanup, SetStatus, clock, jobVars
  <1>3. ASSUME Prune PROVE status'[id] = "done"
    BY <1>3 DEF Prune, PruneTick, PruneLock, PruneVisit, PruneRemove, PruneDelete, PruneEnd,
                clock, jobVars
  <1> QED BY <1>2, <1>3, RequestFrame DEF Act, clock, jobVars

LEMMA ReplyInit == Init => ReplyInv
  BY PublishInit DEF Init, ReplyInv, IdleRequest

\* The handlers' own steps.
LEMMA ReplyServe ==
  ASSUME ReplyInv, PublishInv', NEW r \in Requests, Request(r) \/ Serve(r)
  PROVE  ReplyInv'
  <1> DEFINE q == req[r]
             Good(p) == /\ p.pc \in {"files", "dir", "stat", "read"} => status[p.id] = "done"
                        /\ p.pc = "replied" /\ p.kind = "status" /\ p.seen = "done"
                             => p.listed = Files
                        /\ p.pc \in {"lookup", "snapshot"} => p.seen = "none"
                        /\ p.pc \in {"dir", "stat", "read"} => p.kind # "status"
  <1>1. q \in RequestState /\ Good(q) /\ (q.pc # "idle" => q.id \in Jobs)
    BY DEF ReplyInv, PublishInv, TypeOK
  <1>2. ASSUME NEW change, req' = [req EXCEPT ![r] = change], status' = status, Good(change)
        PROVE  ReplyInv'
    <2>1. \A x \in Requests : req'[x] = IF x = r THEN change ELSE req[x]
      BY <1>2 DEF ReplyInv, PublishInv, TypeOK
    <2>2. \A x \in Requests : Good(req[x])
      BY DEF ReplyInv
    <2>3. \A x \in Requests : Good(req'[x])
      <3> SUFFICES ASSUME NEW x \in Requests PROVE Good(req'[x])
        OBVIOUS
      <3>1. Good(change) /\ Good(req[x])
        BY <1>2, <2>2
      <3>2. req'[x] = change \/ req'[x] = req[x]
        BY <2>1
      <3> HIDE DEF Good
      <3>3. CASE req'[x] = change
        BY <3>1, <3>3
      <3>4. CASE req'[x] = req[x]
        BY <3>1, <3>4
      <3> QED
        BY <3>2, <3>3, <3>4
    <2> QED BY <1>2, <2>3 DEF ReplyInv
  <1>3. status' = status
    BY RequestFrame DEF clock, jobVars
  <1>4. \A code \in {"200", "404", "409"} : \A p \in RequestState :
          p.kind # "status" \/ p.seen # "done" \/ p.listed = Files => Good(Replied(p, code))
    BY DEF Replied, RequestState
  <1>5. CASE Request(r)
    <2>1. PICK kind \in Kinds, id \in Jobs, f \in Files : Arrive(r, kind, id, f)
      BY <1>5 DEF Request
    <2> DEFINE p == [IdleRequest EXCEPT !.pc = "lookup", !.kind = kind, !.id = id, !.file = f]
    <2>2. p.pc = "lookup" /\ p.seen = "none"
      BY DEF IdleRequest
    <2>3. req' = [req EXCEPT ![r] = p]
      BY <2>1 DEF Arrive
    <2>4. Good(p)
      BY <2>2
    <2> QED BY <1>2, <1>3, <2>3, <2>4
  <1>6. CASE Lookup(r)
    <2>1. q.pc = "lookup" /\ q.seen = "none" /\ q.kind \in Kinds
      BY <1>1, <1>6 DEF Lookup, Step, RequestState
    <2>2. Good([q EXCEPT !.pc = "snapshot"])
      BY <1>1, <2>1 DEF RequestState
    <2>3. Good(Replied(q, "404"))
      BY <1>1, <1>4, <2>1
    <2> QED BY <1>2, <1>3, <1>6, <2>2, <2>3 DEF Lookup, Step
  <1>7. CASE Snapshot(r)
    <2> DEFINE s == [q EXCEPT !.seen = status[q.id]]
    <2>1. q.pc = "snapshot" /\ q.id \in Jobs /\ status[q.id] \in {"none", "queued", "running", "done", "error"}
      BY <1>1, <1>7 DEF Snapshot, Step, ReplyInv, PublishInv, TypeOK
    <2>2. s \in RequestState /\ s.seen = status[q.id] /\ s.id = q.id /\ s.kind = q.kind
      BY <1>1, <2>1 DEF RequestState
    <2>3. s.seen = "done" => Good([s EXCEPT !.pc = IF s.kind = "preview" THEN "dir" ELSE "files"])
      BY <2>2 DEF RequestState
    <2>4. s.seen # "done" => Good(Replied(s, IF s.kind = "status" THEN "200" ELSE "409"))
      BY <1>4, <2>2
    <2>5. req' = [req EXCEPT ![r] =
                    IF s.seen = "done"
                      THEN [s EXCEPT !.pc = IF s.kind = "preview" THEN "dir" ELSE "files"]
                      ELSE Replied(s, IF s.kind = "status" THEN "200" ELSE "409")]
      BY <1>7 DEF Snapshot, Step
    <2> HIDE DEF s, Good
    <2>6. Good(IF s.seen = "done"
                 THEN [s EXCEPT !.pc = IF s.kind = "preview" THEN "dir" ELSE "files"]
                 ELSE Replied(s, IF s.kind = "status" THEN "200" ELSE "409"))
      BY <2>3, <2>4, Zenon
    <2> QED BY <1>2, <1>3, <2>5, <2>6, Zenon
  <1>8. CASE GetFiles(r)
    <2> DEFINE s == [q EXCEPT !.listed = files[q.id]]
               change == CASE s.kind = "status"   -> Replied(s, "200")
                           [] s.kind = "download" -> IF s.file \in s.listed
                                                      THEN [s EXCEPT !.pc = "dir"]
                                                      ELSE Replied(s, "404")
                           [] s.kind = "preview"  ->
                                [s EXCEPT !.pc = "read",
                                          !.file = IF s.file \in s.listed THEN s.file
                                                                         ELSE BareName]
    <2>1. q.pc = "files" /\ q.id \in Jobs /\ status[q.id] = "done"
      BY <1>1, <1>8 DEF GetFiles, Step
    <2>2. files[q.id] = Files
      BY <2>1 DEF ReplyInv, PublishInv, Published
    <2>3. /\ s \in RequestState /\ s.listed = Files /\ s.id = q.id /\ s.kind \in Kinds
      BY <1>1, <2>2 DEF RequestState
    <2>4. status[s.id] = "done"
      BY <2>1, <2>3
    <2>5. \A code \in {"200", "404"} : Good(Replied(s, code))
      <3> SUFFICES ASSUME NEW code \in {"200", "404"} PROVE Good(Replied(s, code))
        OBVIOUS
      <3> HIDE DEF Good, s
      <3>1. code \in {"200", "404", "409"} /\ s \in RequestState /\ s.listed = Files
        BY <2>3
      <3> QED BY <1>4, <3>1, Zenon
    <2>6. s.kind # "status" =>
            /\ Good([s EXCEPT !.pc = "dir"])
            /\ \A f \in Files \cup {BareName} : Good([s EXCEPT !.pc = "read", !.file = f])
      BY <2>3, <2>4 DEF RequestState
    <2>7. req' = [req EXCEPT ![r] = change]
      BY <1>8 DEF GetFiles, Step
    <2>8. s.file \in Files \cup {BareName}
      BY <2>3 DEF RequestState
    <2> HIDE DEF s
    <2>9. Good(change)
      BY <2>3, <2>5, <2>6, <2>8 DEF Kinds
    <2> QED BY <1>2, <1>3, <2>7, <2>9
  <1>9. CASE GetDir(r)
    <2>1. q.pc = "dir" /\ q.kind # "status" /\ status[q.id] = "done"
      BY <1>1, <1>9 DEF GetDir, Step
    <2>2. /\ Good([q EXCEPT !.pc = "files"]) /\ Good([q EXCEPT !.pc = "stat"])
          /\ Good(Replied(q, "404"))
      BY <1>1, <1>4, <2>1 DEF RequestState
    <2> QED BY <1>2, <1>3, <1>9, <2>2 DEF GetDir, Step
  <1>10. CASE Stat(r)
    <2>1. q.pc = "stat" /\ q.kind # "status" /\ status[q.id] = "done"
      BY <1>1, <1>10 DEF Stat, Step
    <2>2. Good([q EXCEPT !.pc = "read"]) /\ Good(Replied(q, "404"))
      BY <1>1, <1>4, <2>1 DEF RequestState
    <2> QED BY <1>2, <1>3, <1>10, <2>2 DEF Stat, Step
  <1>11. CASE ReadFile(r)
    <2>1. q.pc = "read" /\ q.kind # "status"
      BY <1>1, <1>11 DEF ReadFile, Step
    <2>2. Good(Replied(q, "404")) /\ Good(Replied(q, "200"))
      BY <1>1, <1>4, <2>1
    <2> QED BY <1>2, <1>3, <1>11, <2>2 DEF ReadFile, Step
  <1> QED BY <1>5, <1>6, <1>7, <1>8, <1>9, <1>10, <1>11 DEF Serve

LEMMA ReplyStep == ReplyInv /\ [Next]_vars => ReplyInv'
  <1> SUFFICES ASSUME ReplyInv, [Next]_vars PROVE ReplyInv'
    OBVIOUS
  <1>1. PublishInv'
    BY PublishStep DEF ReplyInv
  <1>2. ASSUME UNCHANGED req,
               \A id \in Jobs : status[id] = "done" => status'[id] = "done"
        PROVE  ReplyInv'
    BY <1>1, <1>2 DEF ReplyInv, PublishInv, TypeOK
  <1>3. ASSUME NEW id \in Jobs, HandleRun(id) \/ InsertJob(id) \/ RunScan(id)
        PROVE  ReplyInv'
    <2>1. UNCHANGED req
      BY <1>3 DEF HandleRun, InsertJob, RunScan, Start, MkdirTemp, SetDir, ScanReturns,
         MkdirAll, WriteFile, WriteReturns, SetFiles, SetDone, Fail, Cleanup
    <2>2. Act
      BY <1>3 DEF Act
    <2> QED BY <1>2, <2>1, <2>2, DoneStays DEF ReplyInv
  <1>4. CASE Prune
    <2>1. UNCHANGED <<req, status>>
      BY <1>4 DEF Prune, PruneTick, PruneLock, PruneVisit, PruneRemove, PruneDelete, PruneEnd,
                  clock, jobVars
    <2> QED BY <1>2, <2>1
  <1>5. CASE Tick
    BY <1>2, <1>5 DEF Tick, clock, jobVars
  <1>6. CASE UNCHANGED vars
    BY <1>2, <1>6 DEF vars, clock, jobVars
  <1> QED BY <1>1, <1>3, <1>4, <1>5, <1>6, ReplyServe DEF Next, Act

\* Whoever is told that a job is done is told of all its files.
THEOREM DoneReplyWhole == Spec => []DoneReplyIsComplete
  <1>1. ReplyInv => DoneReplyIsComplete
    BY DEF ReplyInv, DoneReplyIsComplete
  <1> QED BY <1>1, ReplyInit, ReplyStep, PTL DEF Spec

-----------------------------------------------------------------------------
(* A link lives as long as its job may.                                    *)

\* The registry has had the job.
Started(id) == pc[id] \notin {"none", "posted"}

\* The cutoff is a TTL in the past, so whatever the pruner takes out of the
\* registry or off the disk is older than that.
PastInv ==
  /\ PublishInv
  /\ prune.pc # "idle" => prune.cutoff <= now - TTL
  /\ Locked => \A id \in prune.todo : Started(id)
  /\ prune.pc \in {"remove", "delete"} =>
       Started(prune.victim) /\ Age(prune.victim) > TTL
  /\ \A id \in Jobs : Started(id) => id \in jobs \/ Age(id) > TTL

\* A job that has started never gets younger.
LEMMA StartedAges ==
  ASSUME TypeOK, TypeOK', [Next]_vars
  PROVE  /\ now' >= now
         /\ \A id \in Jobs : Started(id) => Started(id)' /\ Age(id)' >= Age(id)
  <1> USE DEF Started, Age
  <1>1. now' >= now
    <2>1. CASE Tick
      BY <2>1 DEF Tick, TypeOK
    <2>2. CASE UNCHANGED vars
      BY <2>2 DEF vars, clock, TypeOK
    <2>3. CASE Act
      <3>1. now' = now
        BY <2>3, RequestFrame DEF Act, HandleRun, InsertJob, RunScan, Start, MkdirTemp, SetDir,
           ScanReturns, MkdirAll, WriteFile, WriteReturns, SetFiles, SetDone, Fail, Cleanup,
           Prune, PruneTick, PruneLock, PruneVisit, PruneRemove, PruneDelete, PruneEnd, clock
      <3> QED BY <3>1 DEF TypeOK
    <2> QED BY <2>1, <2>2, <2>3 DEF Next
  <1>2. ASSUME NEW id \in Jobs, Started(id)
        PROVE  Started(id)' /\ created'[id] = created[id]
    <2>1. ASSUME NEW x \in Jobs, HandleRun(x) \/ InsertJob(x) \/ RunScan(x)
          PROVE  Started(id)' /\ created'[id] = created[id]
      <3> USE <1>2 DEF TypeOK, Goto, clock, jobVars
      <3>1. CASE HandleRun(x)
        BY <3>1 DEF HandleRun
      <3>2. CASE InsertJob(x)
        BY <3>2 DEF InsertJob
      <3>3. CASE RunScan(x)
        BY <3>3 DEF RunScan, Start, MkdirTemp, SetDir, ScanReturns, MkdirAll, WriteFile,
           WriteReturns, SetFiles, SetDone, Fail, Cleanup
      <3> QED BY <2>1, <3>1, <3>2, <3>3
    <2>2. CASE UNCHANGED <<pc, created>>
      BY <1>2, <2>2
    <2>3. Prune \/ Tick \/ UNCHANGED vars => UNCHANGED <<pc, created>>
      BY DEF Prune, PruneTick, PruneLock, PruneVisit, PruneRemove, PruneDelete, PruneEnd,
             Tick, vars, clock, jobVars
    <2>4. \A r \in Requests : Request(r) \/ Serve(r) => UNCHANGED <<pc, created>>
      BY RequestFrame DEF clock, jobVars
    <2> QED BY <2>1, <2>2, <2>3, <2>4 DEF Next, Act
  <1>3. ASSUME NEW id \in Jobs, created'[id] = created[id]
        PROVE  Age(id)' >= Age(id)
    BY <1>1, <1>3 DEF TypeOK
  <1> QED BY <1>1, <1>2, <1>3

LEMMA PastInit == Init => PastInv
  BY PublishInit DEF Init, PastInv, Locked, Started

\* While the pruner rests, its cutoff and its victim only get older.
LEMMA PastRest ==
  ASSUME PastInv, PublishInv', [Next]_vars, UNCHANGED prune,
         \A id \in Jobs : Started(id)' => Started(id) \/ id \in jobs',
         jobs \subseteq jobs'
  PROVE  PastInv'
  <1>1. TypeOK /\ TypeOK' /\ now \in Nat /\ now' \in Nat
    BY DEF PastInv, PublishInv, TypeOK
  <1>2. /\ now' >= now
        /\ \A id \in Jobs : Started(id) => Started(id)' /\ Age(id)' >= Age(id)
    BY <1>1, StartedAges
  <1>3. \A id \in Jobs : Age(id) \in Int /\ Age(id)' \in Int
    BY <1>1 DEF TypeOK, Age
  <1>4. \A id \in Jobs : Started(id) /\ Age(id) > TTL => Age(id)' > TTL
    BY <1>2, <1>3, TTLAssumption
  <1> HIDE DEF Started, Age
  <1>5. prune'.pc # "idle" => prune'.cutoff <= now' - TTL
    BY <1>1, <1>2, TTLAssumption DEF PastInv, TypeOK, PruneState
  <1>6. (Locked => \A id \in prune.todo : Started(id))'
    BY <1>1, <1>2 DEF PastInv, Locked, TypeOK, PruneState
  <1>7. (prune.pc \in {"remove", "delete"} =>
           Started(prune.victim) /\ Age(prune.victim) > TTL)'
    BY <1>1, <1>2, <1>4 DEF PastInv, TypeOK
  <1>8. \A id \in Jobs : Started(id)' => id \in jobs' \/ Age(id)' > TTL
    BY <1>2, <1>4 DEF PastInv
  <1> QED BY <1>5, <1>6, <1>7, <1>8 DEF PastInv

\* The pruner takes what is older than its cutoff.
LEMMA PastPrune ==
  ASSUME PastInv, PublishInv', Prune
  PROVE  PastInv'
  <1> USE TTLAssumption DEF PastInv, PublishInv, TypeOK, PruneState, Locked, Started, Age,
          clock, jobVars, diskVars
  <1>1. CASE PruneTick           BY <1>1 DEF PruneTick
  <1>2. CASE PruneLock           BY <1>2 DEF PruneLock, Published
  <1>3. CASE PruneRemove         BY <1>3 DEF PruneRemove, RemoveAll
  <1>4. CASE PruneDelete         BY <1>4 DEF PruneDelete
  <1>5. CASE PruneEnd            BY <1>5 DEF PruneEnd
  <1>6. ASSUME NEW id \in Jobs, PruneVisit(id) PROVE PastInv'
    BY <1>6 DEF PruneVisit, Expired
  <1> QED BY <1>1, <1>2, <1>3, <1>4, <1>5, <1>6 DEF Prune

LEMMA PastStep == PastInv /\ [Next]_vars => PastInv'
  <1> SUFFICES ASSUME PastInv, [Next]_vars PROVE PastInv'
    OBVIOUS
  <1>1. PublishInv'
    BY PublishStep DEF PastInv
  <1>2. ASSUME NEW id \in Jobs, HandleRun(id) \/ InsertJob(id) \/ RunScan(id)
        PROVE  PastInv'
    <2>1. /\ UNCHANGED prune
          /\ \A x \in Jobs : Started(x)' => Started(x) \/ x \in jobs'
          /\ jobs \subseteq jobs'
      <3> USE DEF PastInv, PublishInv, TypeOK, Started, Goto
      <3>1. CASE HandleRun(id)
        BY <3>1 DEF HandleRun
      <3>2. CASE InsertJob(id)
        BY <3>2 DEF InsertJob
      <3>3. CASE RunScan(id)
        BY <3>3 DEF RunScan, Start, MkdirTemp, SetDir, ScanReturns, MkdirAll, WriteFile,
           WriteReturns, SetFiles, SetDone, Fail, Cleanup
      <3> QED BY <1>2, <3>1, <3>2, <3>3
    <2> QED BY <1>1, <2>1, PastRest
  <1>3. CASE UNCHANGED <<jobs, pc, prune>>
    BY <1>1, <1>3, PastRest DEF Started
  <1>4. Tick \/ UNCHANGED vars => UNCHANGED <<jobs, pc, prune>>
    BY DEF Tick, vars
  <1>5. \A r \in Requests : Request(r) \/ Serve(r) => UNCHANGED <<jobs, pc, prune>>
    BY RequestFrame
  <1> QED BY <1>1, <1>2, <1>3, <1>4, <1>5, PastPrune DEF Next, Act

\* Nobody asks for a job that has not started, nor for a file outside the
\* report.
LinkInv ==
  /\ ReplyInv
  /\ PastInv
  /\ \A r \in Requests : req[r].pc \notin {"idle", "replied"} =>
       Started(req[r].id) /\ req[r].file \in Files

LEMMA LinkInit == Init => LinkInv
  BY ReplyInit, PastInit DEF Init, LinkInv, IdleRequest

LEMMA LinkStep == LinkInv /\ [Next]_vars => LinkInv'
  <1> DEFINE Good(q) == q.pc \notin {"idle", "replied"} => Started(q.id) /\ q.file \in Files
  <1> SUFFICES ASSUME LinkInv, [Next]_vars PROVE LinkInv'
    OBVIOUS
  <1>1. ReplyInv' /\ PastInv' /\ TypeOK /\ TypeOK'
    BY ReplyStep, PastStep DEF LinkInv, PastInv, PublishInv
  <1>2. \A id \in Jobs : Started(id) => Started(id)'
    BY <1>1, StartedAges
  <1>3. CASE UNCHANGED req
    BY <1>1, <1>2, <1>3 DEF LinkInv, TypeOK
  <1>4. (\E id \in Jobs : HandleRun(id) \/ InsertJob(id) \/ RunScan(id)) \/ Prune \/ Tick
          \/ UNCHANGED vars => UNCHANGED req
    BY DEF HandleRun, InsertJob, RunScan, Start, MkdirTemp, SetDir, ScanReturns, MkdirAll,
       WriteFile, WriteReturns, SetFiles, SetDone, Fail, Cleanup, Prune, PruneTick, PruneLock,
       PruneVisit, PruneRemove, PruneDelete, PruneEnd, Tick, vars
  <1>5. ASSUME NEW r \in Requests, Request(r) \/ Serve(r)
        PROVE  LinkInv'
    <2>1. UNCHANGED pc
      BY <1>5, RequestFrame
    <2>2. \A x \in Requests \ {r} : req'[x] = req[x]
      BY <1>1, <1>5 DEF Request, Arrive, Serve, Lookup, Snapshot, GetFiles, GetDir, Stat,
         ReadFile, Step, TypeOK
    <2>3. Good(req'[r])
      <3> DEFINE q == req[r]
      <3>a. q \in RequestState /\ Good(q) /\ (q.pc # "idle" => q.id \in Jobs)
        BY <1>1 DEF LinkInv, TypeOK
      <3>b. \A change : req' = [req EXCEPT ![r] = change] => req'[r] = change
        BY <1>1 DEF TypeOK
      <3>c. \A p \in RequestState, code \in {"200", "404", "409"} : Good(Replied(p, code))
        BY DEF Replied, RequestState
      <3>d. q.pc \notin {"idle", "replied"} =>
              \A p \in {"snapshot", "files", "dir", "stat", "read"} : Good([q EXCEPT !.pc = p])
        BY <3>a DEF RequestState
      <3>1. CASE Request(r)
        BY <3>1, <3>b DEF Request, Arrive, Started, IdleRequest
      <3>2. CASE Lookup(r)
        BY <3>2, <3>a, <3>b, <3>c, <3>d DEF Lookup, Step
      <3>3. CASE Snapshot(r)
        <4> DEFINE s == [q EXCEPT !.seen = status[q.id]]
                   change == IF s.seen = "done"
                               THEN [s EXCEPT !.pc = IF s.kind = "preview" THEN "dir" ELSE "files"]
                               ELSE Replied(s, IF s.kind = "status" THEN "200" ELSE "409")
        <4>1. q.pc = "snapshot" /\ req'[r] = change
          BY <3>3, <3>b DEF Snapshot, Step
        <4>2. s \in RequestState /\ s.id = q.id /\ s.file = q.file
          BY <1>1, <3>a, <4>1 DEF RequestState, TypeOK
        <4>3. Started(s.id) /\ s.file \in Files
          BY <3>a, <4>1, <4>2
        <4> HIDE DEF s
        <4>4. \A p \in {"dir", "files"} : Good([s EXCEPT !.pc = p])
          BY <4>2, <4>3 DEF RequestState
        <4>5. Good(change)
          BY <3>c, <4>2, <4>4
        <4> QED BY <4>1, <4>5, Zenon
      <3>4. CASE GetFiles(r)
        <4> DEFINE s == [q EXCEPT !.listed = files[q.id]]
                   change == CASE s.kind = "status"   -> Replied(s, "200")
                               [] s.kind = "download" -> IF s.file \in s.listed
                                                          THEN [s EXCEPT !.pc = "dir"]
                                                          ELSE Replied(s, "404")
                               [] s.kind = "preview"  ->
                                    [s EXCEPT !.pc = "read",
                                              !.file = IF s.file \in s.listed THEN s.file
                                                                             ELSE BareName]
        <4>1. q.pc = "files" /\ req'[r] = change
          BY <3>4, <3>b DEF GetFiles, Step
        <4>2. q.id \in Jobs /\ status[q.id] = "done"
          BY <3>a, <4>1 DEF LinkInv, ReplyInv
        <4>3. files[q.id] = Files
          BY <4>2 DEF LinkInv, ReplyInv, PublishInv, Published
        <4>4. /\ s \in RequestState /\ s.listed = Files /\ s.id = q.id
              /\ s.file = q.file /\ s.kind \in {"status", "download", "preview"}
          BY <3>a, <4>3 DEF RequestState, Kinds
        <4>5. Started(s.id) /\ s.file \in Files
          BY <3>a, <4>1, <4>4
        <4> HIDE DEF s
        <4>6. \A code \in {"200", "404"} : Good(Replied(s, code))
          BY <3>c, <4>4
        <4>7. Good([s EXCEPT !.pc = "dir"])
          BY <4>4, <4>5 DEF RequestState
        <4>8. Good([s EXCEPT !.pc = "read", !.file = s.file])
          BY <4>4, <4>5 DEF RequestState
        <4> HIDE DEF Good
        <4>9. Good(change)
          BY <4>4, <4>5, <4>6, <4>7, <4>8
        <4> QED BY <4>1, <4>9, Zenon
      <3>5. CASE GetDir(r)
        BY <3>5, <3>a, <3>b, <3>c, <3>d DEF GetDir, Step
      <3>6. CASE Stat(r)
        BY <3>6, <3>a, <3>b, <3>c, <3>d DEF Stat, Step
      <3>7. CASE ReadFile(r)
        BY <3>7, <3>a, <3>b, <3>c DEF ReadFile, Step
      <3> QED BY <1>5, <3>1, <3>2, <3>3, <3>4, <3>5, <3>6, <3>7 DEF Serve
    <2> QED BY <1>1, <2>1, <2>2, <2>3 DEF LinkInv, Started
  <1> QED BY <1>3, <1>4, <1>5 DEF Next, Act

\* A job with an answer "done" whose files are not there is one that the
\* pruner has taken.
LEMMA MissingIsOld ==
  ASSUME LinkInv, NEW id \in Jobs, Started(id),
         id \notin jobs \/ (status[id] = "done" /\ content[id] # Files)
  PROVE  Age(id) > TTL
  <1>1. CASE id \notin jobs
    BY <1>1 DEF LinkInv, PastInv
  <1>2. CASE HalfPruned(id)
    BY <1>2 DEF LinkInv, PastInv, HalfPruned
  <1> QED BY <1>1, <1>2 DEF LinkInv, PastInv, PublishInv, Published

\* Whatever step of a handler finds nothing, the job is older than the TTL.
LEMMA NotFoundIsOld ==
  ASSUME LinkInv, [Next]_vars, NEW r \in Requests,
         req[r].reply # "404", req'[r].reply = "404"
  PROVE  Age(req[r].id) > TTL
  <1> DEFINE q == req[r]
  <1>1. /\ q \in RequestState /\ (q.pc # "idle" => q.id \in Jobs)
        /\ q.pc \notin {"idle", "replied"} => Started(q.id) /\ q.file \in Files
        /\ q.pc \in {"files", "dir", "stat", "read"} => status[q.id] = "done"
    BY DEF LinkInv, ReplyInv, PublishInv, TypeOK
  <1>2. Serve(r)
    <2>1. req' # req
      OBVIOUS
    <2>2. ~Request(r)
      <3> SUFFICES ASSUME NEW kind \in Kinds, NEW id \in Jobs, NEW f \in Files,
                          Arrive(r, kind, id, f)
                   PROVE  FALSE
        BY DEF Request
      <3>1. req'[r] = [IdleRequest EXCEPT !.pc = "lookup", !.kind = kind, !.id = id, !.file = f]
        BY DEF Arrive, LinkInv, PastInv, PublishInv, TypeOK
      <3> QED BY <3>1 DEF IdleRequest
    <2>3. \A x \in Requests : Request(x) \/ Serve(x) => x = r
      BY DEF Request, Arrive, Serve, Lookup, Snapshot, GetFiles, GetDir, Stat, ReadFile, Step,
         LinkInv, PastInv, PublishInv, TypeOK
    <2> QED
      BY <2>1, <2>2, <2>3 DEF Next, Act, HandleRun, InsertJob, RunScan, Start, MkdirTemp,
         SetDir, ScanReturns, MkdirAll, WriteFile, WriteReturns, SetFiles, SetDone, Fail,
         Cleanup, Prune, PruneTick, PruneLock, PruneVisit, PruneRemove, PruneDelete, PruneEnd,
         Tick, vars
  <1>3. \A change : req' = [req EXCEPT ![r] = change] => change.reply = "404"
    BY DEF LinkInv, PastInv, PublishInv, TypeOK
  <1>4. q.pc \in {"files", "dir"} => files[q.id] = Files /\ dir[q.id]
    BY <1>1 DEF LinkInv, ReplyInv, PublishInv, Published
  <1>5. CASE Lookup(r)
    BY <1>1, <1>3, <1>5, MissingIsOld DEF Lookup, Step
  <1>6. CASE Stat(r) \/ ReadFile(r)
    <2>1. q.pc \in {"stat", "read"}
      BY <1>6 DEF Stat, ReadFile, Step
    <2>2. q.file \in content[q.id] =>
            \E change \in {[q EXCEPT !.pc = "read"], Replied(q, "200")} :
              req' = [req EXCEPT ![r] = change]
      BY <1>6 DEF Stat, ReadFile, Step
    <2>3. [q EXCEPT !.pc = "read"].reply # "404" /\ Replied(q, "200").reply # "404"
      BY <1>1 DEF Replied, RequestState
    <2>4. q.file \notin content[q.id]
      BY <1>3, <2>2, <2>3
    <2> QED BY <1>1, <2>1, <2>4, MissingIsOld
  <1>7. ~Snapshot(r)
    <2> DEFINE s == [q EXCEPT !.seen = status[q.id]]
               change == IF s.seen = "done"
                           THEN [s EXCEPT !.pc = IF s.kind = "preview" THEN "dir" ELSE "files"]
                           ELSE Replied(s, IF s.kind = "status" THEN "200" ELSE "409")
    <2>1. DOMAIN s = DOMAIN q /\ s.reply # "404" /\ "reply" \in DOMAIN s
      BY <1>1 DEF RequestState
    <2>2. Snapshot(r) => req' = [req EXCEPT ![r] = change]
      BY DEF Snapshot, Step
    <2> HIDE DEF s
    <2>3. change.reply # "404"
      BY <2>1 DEF Replied
    <2> HIDE DEF change
    <2> QED BY <1>3, <2>2, <2>3
  <1>8. ~GetFiles(r)
    <2> DEFINE s == [q EXCEPT !.listed = files[q.id]]
               change == CASE s.kind = "status"   -> Replied(s, "200")
                           [] s.kind = "download" -> IF s.file \in s.listed
                                                      THEN [s EXCEPT !.pc = "dir"]
                                                      ELSE Replied(s, "404")
                           [] s.kind = "preview"  ->
                                [s EXCEPT !.pc = "read",
                                          !.file = IF s.file \in s.listed THEN s.file
                                                                         ELSE BareName]
    <2>1. GetFiles(r) => q.pc = "files" /\ req' = [req EXCEPT ![r] = change]
      BY DEF GetFiles, Step
    <2>2. /\ s.reply # "404" /\ "reply" \in DOMAIN s /\ s.file = q.file
          /\ s.listed = files[q.id] /\ s.kind \in {"status", "download", "preview"}
      BY <1>1 DEF RequestState, Kinds
    <2> HIDE DEF s
    <2>3. s.file \in s.listed => change.reply # "404"
      BY <2>2 DEF Replied
    <2> HIDE DEF change
    <2> QED BY <1>1, <1>3, <1>4, <2>1, <2>2, <2>3
  <1>9. ~GetDir(r)
    <2>1. [q EXCEPT !.pc = IF q.kind = "preview" THEN "files" ELSE "stat"].reply # "404"
      BY <1>1 DEF RequestState
    <2>2. GetDir(r) => /\ q.pc = "dir"
                       /\ dir[q.id] => req' = [req EXCEPT ![r] = [q EXCEPT !.pc =
                                                 IF q.kind = "preview" THEN "files" ELSE "stat"]]
      BY DEF GetDir, Step
    <2> QED BY <1>3, <1>4, <2>1, <2>2
  <1> QED BY <1>2, <1>5, <1>6, <1>7, <1>8, <1>9 DEF Serve

\* "Not found" is the answer only for a job older than the TTL, whatever the
\* pruner has done since the handler's last step.
THEOREM LinksLive == Spec => LinkLivesForTTL
  <1>1. LinkInv /\ [Next]_vars =>
          [\A r \in Requests : req[r].reply # "404" /\ req'[r].reply = "404" =>
             Age(req[r].id) > TTL]_vars
    BY NotFoundIsOld
  <1> QED BY <1>1, LinkInit, LinkStep, PTL DEF Spec, LinkLivesForTTL

-----------------------------------------------------------------------------
(* A job that does not outlive the TTL leaves no directory.                *)

\* A job that has steps left and is not late is within the TTL, so the pruner's
\* victim, older than a cutoff at least a TTL in the past, is late or finished:
\* if finished, the directory that prune has read is still its directory.
PromptInv ==
  /\ TypeOK
  /\ \A id \in Jobs :
       /\ id \in jobs => pc[id] \notin {"none", "posted"}
       /\ pc[id] \in {"none", "posted", "queued", "mkdir"} => id \notin dirs
       /\ pc[id] \in {"scan", "mkout", "write", "setfiles", "setdone"} => dir[id]
       /\ pc[id] = "exit" /\ id \in dirs => dir[id]
       /\ Unfinished(id) /\ id \notin late =>
            Age(id) <= TTL /\ (pc[id] # "posted" => id \in jobs)
  /\ prune.pc # "idle" => prune.cutoff <= now - TTL
  /\ Locked => prune.todo \subseteq jobs
  /\ prune.pc \in {"remove", "delete"} =>
       /\ prune.victim \in jobs \ prune.todo
       /\ created[prune.victim] < prune.cutoff
  /\ prune.pc = "remove" /\ prune.victim \notin late => prune.dir = dir[prune.victim]
  /\ prune.pc = "delete" /\ prune.victim \notin late => prune.victim \notin dirs
  /\ PromptLeavesNoDir

LEMMA PromptInit == Init => PromptInv
  <1> SUFFICES ASSUME Init PROVE PromptInv
    OBVIOUS
  <1>1. TypeOK
    BY TypeInit
  <1> QED BY <1>1 DEF Init, PromptInv, Unfinished, Locked, PromptLeavesNoDir, Reachable

\* What the pruner relies on: unless it is late, its victim has no goroutine
\* left.
LEMMA VictimFinished ==
  ASSUME PromptInv, prune.pc \in {"remove", "delete"}, prune.victim \notin late
  PROVE  prune.victim \in Jobs /\ pc[prune.victim] = "exit"
  <1> DEFINE v == prune.victim
  <1>1. v \in Jobs /\ v \in jobs
    BY DEF PromptInv, TypeOK
  <1>2. created[v] \in Int /\ now \in Int /\ prune.cutoff \in Int
    BY <1>1 DEF PromptInv, TypeOK, PruneState
  <1>3. ~(Age(v) <= TTL)
    BY <1>1, <1>2, TTLAssumption DEF PromptInv, Age
  <1> QED BY <1>1, <1>3 DEF PromptInv, Unfinished

\* handleRun and runScan keep what is said of the jobs ...
LEMMA PromptRun ==
  ASSUME PromptInv, TypeOK', NEW id \in Jobs,
         HandleRun(id) \/ InsertJob(id) \/ RunScan(id)
  PROVE  PromptInv'
  <1>1. prune.pc \in {"remove", "delete"} /\ prune.victim \notin late => id # prune.victim
    <2>1. pc[id] # "exit"
      BY DEF HandleRun, InsertJob, RunScan, Start, MkdirTemp, SetDir, ScanReturns,
             MkdirAll, WriteFile, WriteReturns, SetFiles, SetDone, Fail, Cleanup, Goto
    <2> QED BY <2>1, VictimFinished
  <1>2. prune.pc \in {"remove", "delete"} => prune.victim \in Jobs
    BY DEF PromptInv, TypeOK
  <1> USE <1>1, <1>2 DEF PromptInv, TypeOK, Steps, Unfinished, Locked, Age, PromptLeavesNoDir,
              Reachable, Goto, SetStatus, clock, jobVars, diskVars
  <1>3. CASE HandleRun(id)       BY <1>3, TTLAssumption DEF HandleRun
  <1>4. CASE InsertJob(id)       BY <1>4 DEF InsertJob
  <1>5. CASE Start(id)           BY <1>5 DEF Start
  <1>6. CASE MkdirTemp(id)       BY <1>6 DEF MkdirTemp
  <1>7. CASE SetDir(id)
    <2>1. dir'[id] /\ \A x \in Jobs \ {id} : dir'[x] = dir[x]
      BY <1>7 DEF SetDir
    <2>2. prune.pc = "remove" /\ prune.victim \notin late =>
            dir'[prune.victim] = dir[prune.victim]
      <3>1. prune.pc = "remove" /\ prune.victim \notin late => prune.victim \in Jobs \ {id}
        OBVIOUS
      <3> QED BY <2>1, <3>1, Zenon
    <2>3. \A x \in Jobs : dir[x] => dir'[x]
      BY <2>1, Zenon
    <2>4. pc[id] = "setdir" /\ pc' = [pc EXCEPT ![id] = "scan"]
          /\ UNCHANGED <<clock, jobs, created, dirs, prune>>
      BY <1>7 DEF SetDir
    <2>5. /\ prune.pc = "remove" /\ prune.victim \notin late =>
               prune.dir = dir'[prune.victim]
          /\ \A x \in Jobs : pc'[x] = "exit" /\ x \in dirs => dir'[x]
          /\ \A x \in Jobs :
               pc'[x] \in {"scan", "mkout", "write", "setfiles", "setdone"} => dir'[x]
      <3>1. prune.pc = "remove" /\ prune.victim \notin late =>
              prune.dir = dir'[prune.victim]
        BY <2>2, Zenon
      <3>2. \A x \in Jobs \ {id} : pc'[x] = pc[x]
        BY <2>4
      <3>3. pc'[id] = "scan"
        BY <2>4
      <3>4. \A x \in Jobs : pc'[x] = "exit" /\ x \in dirs => dir'[x]
        BY <2>3, <3>2, <3>3
      <3> QED BY <2>1, <2>3, <3>1, <3>2, <3>3, <3>4
    <2>6. \A x \in Jobs :
            /\ Unfinished(x)' <=> Unfinished(x)
            /\ x \in jobs => pc'[x] \notin {"none", "posted"}
            /\ Unfinished(x) /\ x \notin late =>
                 Age(x) <= TTL /\ (pc'[x] # "posted" => x \in jobs)
            /\ pc'[x] \in {"none", "posted", "queued", "mkdir"} => x \notin dirs
      BY <2>4
    <2> QED BY <2>4, <2>5, <2>6
  <1>8. CASE ScanReturns(id)     BY <1>8 DEF ScanReturns
  <1>9. CASE MkdirAll(id)        BY <1>9 DEF MkdirAll
  <1>10. CASE WriteFile(id)      BY <1>10 DEF WriteFile
  <1>11. CASE WriteReturns(id)   BY <1>11 DEF WriteReturns
  <1>12. CASE SetFiles(id)       BY <1>12 DEF SetFiles
  <1>13. CASE SetDone(id)        BY <1>13 DEF SetDone
  <1>14. CASE Fail(id)           BY <1>14 DEF Fail
  <1>15. CASE Cleanup(id)        BY <1>15 DEF Cleanup, RemoveAll
  <1> QED
    BY <1>3, <1>4, <1>5, <1>6, <1>7, <1>8, <1>9, <1>10, <1>11, <1>12, <1>13,
       <1>14, <1>15 DEF RunScan

\* ... and so does the pruner, whose victim is finished.
LEMMA PromptPrune ==
  ASSUME PromptInv, TypeOK', Prune
  PROVE  PromptInv'
  <1> USE DEF PromptInv, TypeOK, PruneState, Unfinished, Locked, Age, PromptLeavesNoDir,
              Reachable, clock, jobVars, diskVars
  <1>1. CASE PruneTick           BY <1>1, TTLAssumption DEF PruneTick
  <1>2. CASE PruneLock           BY <1>2 DEF PruneLock
  <1>3. CASE PruneRemove         BY <1>3, VictimFinished DEF PruneRemove, RemoveAll
  <1>4. CASE PruneDelete         BY <1>4, VictimFinished DEF PruneDelete
  <1>5. CASE PruneEnd            BY <1>5 DEF PruneEnd
  <1>6. ASSUME NEW id \in Jobs, PruneVisit(id) PROVE PromptInv'
    BY <1>6 DEF PruneVisit, Expired
  <1> QED BY <1>1, <1>2, <1>3, <1>4, <1>5, <1>6 DEF Prune

LEMMA PromptStep == PromptInv /\ [Next]_vars => PromptInv'
  <1> SUFFICES ASSUME PromptInv, [Next]_vars PROVE PromptInv'
    OBVIOUS
  <1>1. TypeOK'
    BY TypeStep DEF PromptInv
  <1> USE DEF PromptInv, TypeOK, Unfinished, Locked, Age, PromptLeavesNoDir, Reachable,
              clock, jobVars, diskVars
  <1>2. CASE UNCHANGED <<clock, jobs, jobVars, diskVars, pc, written, prune>>
    BY <1>1, <1>2
  <1>3. CASE Act
    BY <1>1, <1>2, <1>3, PromptRun, PromptPrune, RequestFrame DEF Act
  <1>4. CASE Tick
    BY <1>1, <1>4, TTLAssumption DEF Tick, PruneState
  <1>5. CASE UNCHANGED vars
    BY <1>2, <1>5 DEF vars
  <1> QED BY <1>3, <1>4, <1>5 DEF Next

\* A job whose goroutine ends within the TTL leaves no directory behind that
\* neither the pruner nor a runScan can reach, whatever the other jobs do.
THEOREM PromptLeavesNoOrphans == Spec => []PromptLeavesNoDir
  BY PromptInit, PromptStep, PTL DEF Spec, PromptInv

-----------------------------------------------------------------------------
(* The registry implements JobStore.                                       *)

\* Where a job's goroutine is tells its status.
StatusFits(id) ==
  /\ pc[id] = "none" => status[id] = "none"
  /\ pc[id] \in {"posted", "queued"} => status[id] = "queued"
  /\ pc[id] \in {"mkdir", "setdir", "scan", "mkout", "write", "setfiles", "setdone"}
       => status[id] = "running"
  /\ pc[id] \in {"cleanup", "exit"} => status[id] \in {"done", "error"}

SeenInv == PastInv /\ \A id \in Jobs : StatusFits(id)

LEMMA SeenInit == Init => SeenInv
  BY PastInit DEF Init, SeenInv, StatusFits

LEMMA SeenStep == SeenInv /\ [Next]_vars => SeenInv'
  <1> SUFFICES ASSUME SeenInv, [Next]_vars PROVE \A id \in Jobs : StatusFits(id)'
    BY PastStep DEF SeenInv
  <1>1. CASE UNCHANGED <<pc, status>>
    BY <1>1 DEF SeenInv, StatusFits
  <1>2. ASSUME NEW id \in Jobs, HandleRun(id) \/ InsertJob(id) \/ RunScan(id)
        PROVE  \A x \in Jobs : StatusFits(x)'
    <2> USE DEF SeenInv, PastInv, PublishInv, TypeOK, StatusFits, Goto, SetStatus, clock, jobVars
    <2>1. CASE HandleRun(id)
      BY <2>1 DEF HandleRun
    <2>2. CASE InsertJob(id)
      BY <2>2 DEF InsertJob
    <2>3. CASE Start(id)
      BY <2>3 DEF Start
    <2>4. CASE Fail(id)
      BY <2>4 DEF Fail
    <2>5. CASE SetDone(id)
      BY <2>5 DEF SetDone
    <2>6. CASE Cleanup(id)
      BY <2>6 DEF Cleanup
    <2>7. CASE MkdirTemp(id) \/ SetDir(id) \/ ScanReturns(id) \/ MkdirAll(id)
      BY <2>7 DEF MkdirTemp, SetDir, ScanReturns, MkdirAll
    <2>8. CASE WriteFile(id) \/ WriteReturns(id) \/ SetFiles(id)
      BY <2>8 DEF WriteFile, WriteReturns, SetFiles
    <2> QED BY <1>2, <2>1, <2>2, <2>3, <2>4, <2>5, <2>6, <2>7, <2>8 DEF RunScan
  <1>3. Prune \/ Tick \/ UNCHANGED vars => UNCHANGED <<pc, status>>
    BY DEF Prune, PruneTick, PruneLock, PruneVisit, PruneRemove, PruneDelete, PruneEnd,
           Tick, vars, clock, jobVars
  <1>4. \A r \in Requests : Request(r) \/ Serve(r) => UNCHANGED <<pc, status>>
    BY RequestFrame DEF clock, jobVars
  <1> QED BY <1>1, <1>2, <1>3, <1>4 DEF Next, Act

\* What a client sees of the jobs.
Seen == [id \in Jobs |-> Public(id)]

\* The links of the jobs whose states are s.
LinksOf(s) == [id \in Jobs |-> IF s[id] = "done" THEN Files ELSE {}]

\* What a client sees of a job's links follows from the status that it sees:
\* all the files of a job that is done, and nothing of another.
LEMMA SeenLinks == PublishInv => [id \in Jobs |-> Downloadable(id)] = LinksOf(Seen)
  <1> SUFFICES ASSUME PublishInv, NEW id \in Jobs
               PROVE  Downloadable(id) = IF Public(id) = "done" THEN Files ELSE {}
    BY Zenon DEF LinksOf, Seen
  <1>1. CASE Public(id) = "done"
    <2>1. dir[id] /\ files[id] = Files /\ content[id] = Files
      BY <1>1 DEF PublishInv, Published, Public
    <2> QED BY <1>1, <2>1 DEF Downloadable
  <1>2. CASE Public(id) # "done"
    BY <1>2 DEF Downloadable
  <1> QED BY <1>1, <1>2

LEMMA SeenLinksNext ==
  PublishInv' => [id \in Jobs |-> Downloadable(id)]' = LinksOf(Seen')
  <1>1. (PublishInv => [id \in Jobs |-> Downloadable(id)] = LinksOf(Seen))'
    BY SeenLinks, PTL
  <1> QED BY <1>1 DEF LinksOf

\* All that JobStore sees of a step.
LEMMA StoreVars ==
  ASSUME PublishInv, PublishInv'
  PROVE  /\ Store!vars = <<now, Seen, created, LinksOf(Seen)>>
         /\ Store!vars' = <<now', Seen', created', LinksOf(Seen')>>
  <1>1. Store!vars = <<now, Seen, created, LinksOf(Seen)>>
    BY SeenLinks DEF Store!vars, Seen
  <1>2. Store!vars' = <<now', Seen', created', LinksOf(Seen')>>
    BY SeenLinksNext DEF Store!vars, Seen
  <1> QED BY <1>1, <1>2

\* A step that changes what is seen of one job at most.
LEMMA SeenMoves ==
  ASSUME NEW id \in Jobs, NEW s,
         \A x \in Jobs : Public(x)' = IF x = id THEN s ELSE Public(x)
  PROVE  Seen' = [Seen EXCEPT ![id] = s]
  <1>1. Seen' = [x \in Jobs |-> IF x = id THEN s ELSE Public(x)]
    BY Zenon DEF Seen
  <1> QED BY <1>1 DEF Seen

LEMMA SeenRests ==
  ASSUME \A x \in Jobs : Public(x)' = Public(x)
  PROVE  Seen' = Seen
  BY Zenon DEF Seen

\* Nothing can be seen of a step that changes nobody's public status.
LEMMA Unseen ==
  ASSUME PublishInv, PublishInv', UNCHANGED <<clock, created>>,
         \A x \in Jobs : Public(x)' = Public(x)
  PROVE  UNCHANGED Store!vars
  BY SeenRests, StoreVars DEF clock

\* What handleRun and runScan let a client see.
LEMMA RefinesRun ==
  ASSUME SeenInv, SeenInv', NEW id \in Jobs,
         HandleRun(id) \/ InsertJob(id) \/ RunScan(id)
  PROVE  [Store!Next]_(Store!vars)
  <1> USE DEF Goto, SetStatus, clock, jobVars
  <1>a. /\ PublishInv /\ PublishInv' /\ TypeOK /\ StatusFits(id)
        /\ prune.pc = "delete" => Started(prune.victim)
        /\ id \in jobs => Started(id)
    BY DEF SeenInv, PastInv, PublishInv, Published, Started
  <1>1. \A x \in Jobs \ {id} : Public(x)' = Public(x)
    <2>1. UNCHANGED prune
      BY DEF HandleRun, InsertJob, RunScan, Start, MkdirTemp, SetDir, ScanReturns, MkdirAll,
             WriteFile, WriteReturns, SetFiles, SetDone, Fail, Cleanup
    <2>2. \A x \in Jobs \ {id} :
            pc'[x] = pc[x] /\ status'[x] = status[x] /\ (x \in jobs' <=> x \in jobs)
      <3> USE <1>a DEF TypeOK
      <3>1. CASE HandleRun(id)
        BY <3>1 DEF HandleRun
      <3>2. CASE InsertJob(id)
        BY <3>2 DEF InsertJob
      <3>3. CASE RunScan(id)
        BY <3>3 DEF RunScan, Start, MkdirTemp, SetDir, ScanReturns, MkdirAll, WriteFile,
           WriteReturns, SetFiles, SetDone, Fail, Cleanup
      <3> QED BY <3>1, <3>2, <3>3
    <2> QED BY <2>1, <2>2 DEF Public, HalfPruned
  <1>2. Seen[id] = Public(id)
    BY DEF Seen
  <1>3. ASSUME NEW s, Public(id)' = s PROVE Seen' = [Seen EXCEPT ![id] = s]
    BY <1>1, <1>3, SeenMoves
  <1>4. ASSUME UNCHANGED <<clock, created>>, Public(id)' = Public(id)
        PROVE  UNCHANGED Store!vars
    BY <1>a, <1>1, <1>4, Unseen
  <1>5. ASSUME NEW s, Public(id)' = s, Public(id) # "done", s # "done"
        PROVE  LinksOf(Seen') = LinksOf(Seen)
    BY <1>2, <1>3, <1>5 DEF LinksOf, Seen
  <1> DEFINE Visible == id \in jobs /\ ~HalfPruned(id)
  <1>6. ASSUME UNCHANGED <<jobs, prune>>, Started(id), Started(id)'
        PROVE  /\ Public(id) = IF Visible THEN status[id] ELSE "gone"
               /\ Public(id)' = IF Visible THEN status'[id] ELSE "gone"
    BY <1>6 DEF Public, Started, HalfPruned
  <1>7. CASE HandleRun(id)
    <2>1. Public(id) = "none" /\ Public(id)' = "queued"
      BY <1>a, <1>7 DEF HandleRun, Public, StatusFits, TypeOK
    <2>2. Seen' = [Seen EXCEPT ![id] = "queued"] /\ LinksOf(Seen') = LinksOf(Seen)
      BY <1>3, <1>5, <2>1
    <2>3. Store!Accept(id)
      BY <1>a, <1>2, <1>7, <2>1, <2>2, SeenLinks, SeenLinksNext
         DEF HandleRun, Store!Accept, Store!Goto, Seen
    <2> QED BY <2>3 DEF Store!Next
  <1>8. CASE InsertJob(id)
    <2>1. Public(id)' = Public(id)
      BY <1>a, <1>8 DEF InsertJob, Public, HalfPruned, Locked, TypeOK
    <2> QED BY <1>4, <1>8, <2>1 DEF InsertJob
  <1>9. ASSUME UNCHANGED <<clock, jobs, prune, status, created>>, Started(id), Started(id)'
        PROVE  UNCHANGED Store!vars
    BY <1>4, <1>6, <1>9
  <1>10. CASE Start(id)
    <2>1. /\ UNCHANGED <<clock, created, jobs, prune>> /\ Started(id) /\ Started(id)'
          /\ status[id] = "queued" /\ status'[id] = "running"
      BY <1>a, <1>10 DEF Start, Started, StatusFits, TypeOK
    <2>2. CASE Visible
      <3>1. Public(id) = "queued" /\ Public(id)' = "running"
        BY <1>6, <2>1, <2>2
      <3>2. Seen' = [Seen EXCEPT ![id] = "running"] /\ LinksOf(Seen') = LinksOf(Seen)
        BY <1>3, <1>5, <3>1
      <3>3. Store!Begin(id)
        BY <1>a, <1>2, <2>1, <3>1, <3>2, SeenLinks, SeenLinksNext
           DEF Store!Begin, Store!Goto, Seen
      <3> QED BY <3>3 DEF Store!Next
    <2>3. CASE ~Visible
      BY <1>4, <1>6, <2>1, <2>3
    <2> QED BY <2>2, <2>3
  <1>11. CASE Fail(id)
    <2>1. /\ UNCHANGED <<clock, created, jobs, prune>> /\ Started(id) /\ Started(id)'
          /\ status[id] = "running" /\ status'[id] = "error"
      BY <1>a, <1>11 DEF Fail, Started, StatusFits, TypeOK
    <2>2. CASE Visible
      <3>1. Public(id) = "running" /\ Public(id)' = "error"
        BY <1>6, <2>1, <2>2
      <3>2. Seen' = [Seen EXCEPT ![id] = "error"] /\ LinksOf(Seen') = LinksOf(Seen)
        BY <1>3, <1>5, <3>1
      <3>3. Store!GiveUp(id)
        BY <1>a, <1>2, <2>1, <3>1, <3>2, SeenLinks, SeenLinksNext
           DEF Store!GiveUp, Store!Goto, Seen
      <3> QED BY <3>3 DEF Store!Next
    <2>3. CASE ~Visible
      BY <1>4, <1>6, <2>1, <2>3
    <2> QED BY <2>2, <2>3
  <1>12. CASE SetDone(id)
    <2>1. /\ UNCHANGED <<clock, created, jobs, prune>> /\ Started(id) /\ Started(id)'
          /\ status[id] = "running" /\ status'[id] = "done"
      BY <1>a, <1>12 DEF SetDone, Started, StatusFits, TypeOK
    <2>2. CASE Visible
      <3>1. Public(id) = "running" /\ Public(id)' = "done"
        BY <1>6, <2>1, <2>2
      <3>2. Seen' = [Seen EXCEPT ![id] = "done"]
        BY <1>3, <3>1
      <3>3. LinksOf(Seen') = [LinksOf(Seen) EXCEPT ![id] = Files]
        BY <3>2 DEF LinksOf, Seen
      <3>4. Store!Publish(id)
        BY <1>a, <1>2, <2>1, <3>1, <3>2, <3>3, SeenLinks, SeenLinksNext
           DEF Store!Publish, Store!Goto, Seen
      <3> QED BY <3>4 DEF Store!Next
    <2>3. CASE ~Visible
      BY <1>4, <1>6, <2>1, <2>3
    <2> QED BY <2>2, <2>3
  <1>13. CASE MkdirTemp(id) \/ SetDir(id) \/ ScanReturns(id) \/ MkdirAll(id) \/ Cleanup(id)
    BY <1>a, <1>9, <1>13 DEF MkdirTemp, SetDir, ScanReturns, MkdirAll, Cleanup, Started,
       TypeOK
  <1>14. CASE WriteFile(id) \/ WriteReturns(id) \/ SetFiles(id)
    BY <1>a, <1>9, <1>14 DEF WriteFile, WriteReturns, SetFiles, Started, TypeOK
  <1> QED BY <1>7, <1>8, <1>10, <1>11, <1>12, <1>13, <1>14 DEF RunScan

\* What the pruner lets a client see: its victim goes when its directory does.
LEMMA RefinesPrune ==
  ASSUME SeenInv, SeenInv', Prune
  PROVE  [Store!Next]_(Store!vars)
  <1> USE DEF clock, jobVars
  <1>a. PublishInv /\ PublishInv' /\ PastInv /\ TypeOK /\ \A x \in Jobs : StatusFits(x)
    BY DEF SeenInv, PastInv, PublishInv
  <1>1. UNCHANGED <<clock, created, pc, status>>
    BY DEF Prune, PruneTick, PruneLock, PruneVisit, PruneRemove, PruneDelete, PruneEnd
  <1>2. CASE PruneRemove
    <2> DEFINE v == prune.victim
    <2>1. /\ v \in Jobs /\ Started(v) /\ Age(v) > TTL /\ prune.pc = "remove"
          /\ prune'.pc = "delete" /\ prune'.victim = v /\ jobs' = jobs
      BY <1>a, <1>2 DEF PruneRemove, PastInv, TypeOK, PruneState
    <2>2. \A x \in Jobs : Public(x)' = IF x = v THEN "gone" ELSE Public(x)
      BY <1>1, <2>1 DEF Public, HalfPruned, Started
    <2>3. Public(v) = IF v \in jobs THEN status[v] ELSE "gone"
      BY <2>1 DEF Public, HalfPruned, Started
    <2>4. CASE v \in jobs
      <3>1. Seen' = [Seen EXCEPT ![v] = "gone"] /\ Seen[v] = status[v]
        BY <2>1, <2>2, <2>3, <2>4, SeenMoves DEF Seen
      <3>2. status[v] \in {"queued", "running", "done", "error"}
        BY <1>a, <2>1 DEF StatusFits, Started, TypeOK, Steps
      <3>3. LinksOf(Seen') = [LinksOf(Seen) EXCEPT ![v] = {}]
        BY <3>1 DEF LinksOf, Seen
      <3>4. Store!Forget(v)
        BY <1>a, <1>1, <2>1, <3>1, <3>2, <3>3, SeenLinks, SeenLinksNext
           DEF Store!Forget, Seen, Age
      <3> QED BY <2>1, <3>4 DEF Store!Next
    <2>5. CASE v \notin jobs
      BY <1>a, <1>1, <2>2, <2>3, <2>5, Unseen
    <2> QED BY <2>4, <2>5
  <1>3. CASE PruneDelete
    <2>1. /\ prune.victim \in Jobs /\ Started(prune.victim) /\ prune.pc = "delete"
          /\ prune'.pc = "visit" /\ jobs' = jobs \ {prune.victim}
      BY <1>a, <1>3 DEF PruneDelete, PastInv, TypeOK, PruneState
    <2>2. \A x \in Jobs : Public(x)' = Public(x)
      BY <1>1, <2>1 DEF Public, HalfPruned, Started
    <2> QED BY <1>a, <1>1, <2>2, Unseen
  <1>4. ASSUME UNCHANGED jobs, prune.pc # "delete", prune'.pc # "delete"
        PROVE  UNCHANGED Store!vars
    BY <1>a, <1>1, <1>4, Unseen DEF Public, HalfPruned
  <1>5. CASE PruneTick \/ PruneLock \/ PruneEnd
    BY <1>a, <1>4, <1>5 DEF PruneTick, PruneLock, PruneEnd, TypeOK, PruneState
  <1>6. ASSUME NEW id \in Jobs, PruneVisit(id) PROVE UNCHANGED Store!vars
    BY <1>a, <1>4, <1>6 DEF PruneVisit, TypeOK, PruneState
  <1> QED BY <1>2, <1>3, <1>5, <1>6 DEF Prune

LEMMA RefinesInit == Init => Store!Init
  BY DEF Init, Store!Init, Public, Downloadable

LEMMA RefinesStep ==
  SeenInv /\ SeenInv' /\ [Next]_vars => [Store!Next]_(Store!vars)
  <1> SUFFICES ASSUME SeenInv, SeenInv', [Next]_vars PROVE [Store!Next]_(Store!vars)
    OBVIOUS
  <1>a. PublishInv /\ PublishInv'
    BY DEF SeenInv, PastInv
  <1>1. CASE UNCHANGED <<clock, jobs, jobVars, diskVars, pc, written, prune>>
    BY <1>a, <1>1, Unseen DEF Public, HalfPruned, clock, jobVars
  <1>2. CASE Act
    BY <1>1, <1>2, RefinesRun, RefinesPrune, RequestFrame DEF Act
  <1>3. CASE Tick
    <2>1. UNCHANGED <<jobs, status, created, pc, prune>> /\ now' = now + 1
      BY <1>3 DEF Tick, clock, jobVars
    <2>2. Seen' = Seen
      BY <2>1, SeenRests DEF Public, HalfPruned
    <2>3. Store!Tick
      BY <1>a, <2>1, <2>2, SeenLinks, SeenLinksNext DEF Store!Tick, Seen
    <2> QED BY <2>3 DEF Store!Next
  <1>4. CASE UNCHANGED vars
    BY <1>1, <1>4 DEF vars
  <1> QED BY <1>2, <1>3, <1>4 DEF Next

\* A client that can only ask for statuses and files sees a JobStore: a job
\* publishes all its files at once, keeps them and its status until it is older
\* than the TTL, and then loses both at once, whatever the pruner overtakes.
THEOREM RegistryImplementsStore == Spec => ImplementsStore
  <1>1. Spec => Store!Init /\ [][Store!Next]_(Store!vars)
    BY RefinesInit, RefinesStep, SeenInit, SeenStep, PTL DEF Spec
  <1> QED BY <1>1 DEF ImplementsStore, Store!Spec
=============================================================================
