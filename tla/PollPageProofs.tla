--------------------------- MODULE PollPageProofs ---------------------------
(***************************************************************************)
(* Proofs about PollPage, for every number of clicks and of polls.         *)
(***************************************************************************)
EXTENDS PollPage, TLAPS

PollState == [run: OrNoRun, answer: {"none", "running", "done", "error", "404", "broken"}]

-----------------------------------------------------------------------------
(* Types, and what an answer "done" is worth.                              *)

\* A job is known to the server from the answer to its click on, and never
\* leaves "done" but for "404": whatever a poll or the links say of it stays
\* true.
AnswerInv ==
  /\ TypeOK
  /\ \A r \in Runs : pc[r] \in {"none", "posting"} => job[r] = "none"
  /\ \A p \in Polls : poll[p].answer = "done" => job[poll[p].run] \in {"done", "404"}
  /\ LinksAreOfDoneJob

LEMMA AnswerInit == Init => AnswerInv
  <1> SUFFICES ASSUME Init PROVE AnswerInv
    OBVIOUS
  <1>1. NoPoll.run = NoRun /\ NoPoll.answer = "none" /\ NoPoll \in PollState
    BY DEF NoPoll, PollState, OrNoRun
  <1>2. \A p \in Polls : poll[p] = NoPoll
    BY DEF Init
  <1>3. poll \in [Polls -> PollState]
    BY <1>1 DEF Init
  <1>4. /\ {latest, pollTimer, links, yaml, shown.run} \subseteq OrNoRun
        /\ links = NoRun
    BY DEF Init, OrNoRun
  <1>5. TypeOK
    BY <1>1, <1>2, <1>3, <1>4 DEF Init, TypeOK, PollState
  <1> QED BY <1>1, <1>2, <1>4, <1>5 DEF Init, AnswerInv, LinksAreOfDoneJob

\* A poll under way is one of a run.
LEMMA UnderWay ==
  ASSUME TypeOK, NEW p \in Polls, poll[p] # NoPoll
  PROVE  poll[p].run \in Runs
  <1>1. poll[p] \in PollState
    BY DEF TypeOK, PollState
  <1>2. poll[p] = [run |-> poll[p].run, answer |-> poll[p].answer]
    BY <1>1 DEF PollState
  <1>3. poll[p].run # NoRun
    BY <1>2 DEF TypeOK, NoPoll
  <1> QED BY <1>1, <1>3 DEF PollState, OrNoRun

\* Sending a poll puts one of r, without an answer, where there was none.
LEMMA SendFacts ==
  ASSUME TypeOK, NEW p \in Polls, NEW r \in Runs, Send(p, r)
  PROVE  /\ poll[p] = NoPoll
         /\ poll' \in [Polls -> PollState]
         /\ poll'[p] = [run |-> r, answer |-> "none"]
         /\ \A q \in Polls \ {p} : poll'[q] = poll[q]
  <1>1. poll[p] = NoPoll /\ poll' = [poll EXCEPT ![p] = [NoPoll EXCEPT !.run = r]]
    BY DEF Send
  <1>2. [NoPoll EXCEPT !.run = r] = [run |-> r, answer |-> "none"]
    BY DEF NoPoll
  <1>3. [run |-> r, answer |-> "none"] \in PollState
    BY DEF PollState, OrNoRun
  <1>4. poll \in [Polls -> PollState]
    BY DEF TypeOK, PollState
  <1>5. poll' = [poll EXCEPT ![p] = [run |-> r, answer |-> "none"]]
    BY <1>1, <1>2
  <1> HIDE DEF PollState
  <1> QED BY <1>1, <1>3, <1>4, <1>5

\* Handling an answer frees the poll.
LEMMA TakenFacts ==
  ASSUME TypeOK, NEW p \in Polls, NEW r \in Runs, NEW answers, Taken(p, r, answers)
  PROVE  /\ poll[p].run = r /\ poll[p].answer \in answers
         /\ poll' \in [Polls -> PollState]
         /\ poll'[p] = NoPoll
         /\ \A q \in Polls \ {p} : poll'[q] = poll[q]
  <1>1. NoPoll \in PollState
    BY DEF NoPoll, PollState, OrNoRun
  <1>2. poll \in [Polls -> PollState]
    BY DEF TypeOK, PollState
  <1> QED BY <1>1, <1>2 DEF Taken

\* The status line is about the run it is set for.
LEMMA ShownRun == ASSUME NEW text, NEW r \in Runs, Show(text, r) PROVE shown'.run = r
  BY DEF Show

LEMMA AnswerStep == AnswerInv /\ [Next]_vars => AnswerInv'
  <1> SUFFICES ASSUME AnswerInv, [Next]_vars PROVE AnswerInv'
    OBVIOUS
  <1> USE NoRunAssumption DEF AnswerInv, LinksAreOfDoneJob, timers, display
  <1>1. ASSUME NEW r \in Runs, JobEnds(r) PROVE AnswerInv'
    BY <1>1 DEF JobEnds, TypeOK, OrNoRun
  <1>2. ASSUME NEW r \in Runs, JobPruned(r) PROVE AnswerInv'
    BY <1>2 DEF JobPruned, TypeOK, OrNoRun
  <1>3. ASSUME NEW r \in Runs, Click(r) PROVE AnswerInv'
    BY <1>3 DEF Click, TypeOK, Show, ClearInterval, OrNoRun
  <1>4. ASSUME NEW r \in Runs, PostFails(r) PROVE AnswerInv'
    <2>1. job[r] = "none" /\ job' = job /\ poll' = poll /\ links' = links
      BY <1>4 DEF PostFails
    <2>2. TypeOK'
      <3>1. shown'.run = r
        BY <1>4 DEF PostFails, Show
      <3>2. pc' \in [Runs -> {"none", "posting", "polling", "over"}] /\ disabled' \in BOOLEAN
        BY <1>4 DEF PostFails, TypeOK
      <3>3. UNCHANGED <<job, latest, timers, poll, links, yaml, preview, overlap>>
        BY <1>4 DEF PostFails
      <3> QED BY <3>1, <3>2, <3>3 DEF TypeOK, OrNoRun
    <2> QED BY <1>4, <2>1, <2>2 DEF PostFails, TypeOK
  <1>5. ASSUME NEW r \in Runs, NEW p \in Polls, Send(p, r),
               \/ Fire(r)
               \/ PostReturns(r)
        PROVE  AnswerInv'
    <2>1. /\ poll[p] = NoPoll /\ poll' \in [Polls -> PollState]
          /\ poll'[p] = [run |-> r, answer |-> "none"]
          /\ \A q \in Polls \ {p} : poll'[q] = poll[q]
      BY <1>5, SendFacts
    <2>2. overlap' \in BOOLEAN
      BY <1>5 DEF Send, TypeOK, Polling
    <2>3. \A q \in Polls : poll'[q].run = NoRun => poll'[q].answer = "none"
      BY <2>1 DEF TypeOK
    <2>4. CASE Fire(r)
      <3>1. TypeOK'
        BY <2>1, <2>2, <2>3, <2>4 DEF Fire, TypeOK, PollState
      <3> QED BY <2>1, <2>4, <3>1 DEF Fire
    <2>5. CASE PostReturns(r)
      <3>1. job[r] = "none" /\ job' = [job EXCEPT ![r] = "running"]
        BY <2>5 DEF PostReturns
      <3>2. TypeOK'
        <4>1. shown'.run = r
          BY <2>5 DEF PostReturns, Show
        <4>2. /\ pc' \in [Runs -> {"none", "posting", "polling", "over"}]
              /\ job' \in [Runs -> {"none", "running", "done", "error", "404"}]
          BY <2>5 DEF PostReturns, TypeOK
        <4>3. pollTimer' = r /\ live' = live \cup {r}
          BY <2>5 DEF PostReturns
        <4>4. UNCHANGED <<latest, disabled, links, yaml, preview>>
          BY <2>5 DEF PostReturns
        <4> QED BY <2>1, <2>2, <2>3, <4>1, <4>2, <4>3, <4>4 DEF TypeOK, PollState, OrNoRun
      <3>3. \A x \in Runs : x # r => job'[x] = job[x]
        BY <3>1 DEF TypeOK
      <3>4. \A q \in Polls : poll'[q].answer = "done" => job'[poll'[q].run] \in {"done", "404"}
        <4> SUFFICES ASSUME NEW q \in Polls, poll'[q].answer = "done"
                     PROVE  job'[poll'[q].run] \in {"done", "404"}
          OBVIOUS
        <4>1. q # p /\ poll'[q] = poll[q]
          BY <2>1
        <4>2. poll[q].run \in Runs /\ job[poll[q].run] \in {"done", "404"}
          BY <4>1, UnderWay DEF NoPoll
        <4> QED BY <3>1, <3>3, <4>1, <4>2
      <3>5. links' = links /\ links \in OrNoRun
        BY <2>5 DEF PostReturns, TypeOK
      <3>6. links' # NoRun => job'[links'] \in {"done", "404"}
        BY <3>1, <3>3, <3>5 DEF OrNoRun
      <3>7. \A x \in Runs : pc'[x] \in {"none", "posting"} => job'[x] = "none"
        BY <2>5, <3>3 DEF PostReturns, TypeOK
      <3> QED BY <3>2, <3>4, <3>6, <3>7
    <2> QED BY <1>5, <2>4, <2>5
  <1>6. ASSUME NEW r \in Runs, PreviewReturns(r) PROVE AnswerInv'
    BY <1>6 DEF PreviewReturns, TypeOK, OrNoRun
  <1>7. CASE ClickRefused
    BY <1>7 DEF ClickRefused, TypeOK, Show, OrNoRun
  <1>8. ASSUME NEW p \in Polls, Answer(p) PROVE AnswerInv'
    <2>1. PICK answer \in {job[poll[p].run], "broken"} : poll' = [poll EXCEPT ![p].answer = answer]
      BY <1>8 DEF Answer
    <2>2. poll[p].run \in Runs /\ poll[p] \in PollState
      BY <1>8, UnderWay DEF Answer, TypeOK, PollState
    <2> DEFINE new == [run |-> poll[p].run, answer |-> answer]
    <2>3. [poll[p] EXCEPT !.answer = answer] = new
      BY <2>2 DEF PollState
    <2>4. new \in PollState
      BY <2>2 DEF PollState, OrNoRun, TypeOK
    <2>5. poll' = [poll EXCEPT ![p] = new] /\ poll \in [Polls -> PollState]
      BY <2>1, <2>3 DEF TypeOK, PollState
    <2>6. /\ poll' \in [Polls -> PollState] /\ poll'[p] = new
          /\ \A q \in Polls \ {p} : poll'[q] = poll[q]
      <3> HIDE DEF new, PollState
      <3> QED BY <2>4, <2>5
    <2>7. TypeOK'
      BY <1>8, <2>2, <2>6 DEF Answer, TypeOK, PollState
    <2>8. answer = "done" => job[poll[p].run] = "done"
      BY <2>1
    <2> QED BY <1>8, <2>6, <2>7, <2>8 DEF Answer
  <1>9. ASSUME NEW p \in Polls, Handle(p) PROVE AnswerInv'
    <2>1. PICK r \in Runs : HandleRunning(p, r) \/ HandleFailure(p, r) \/ HandleDone(p, r)
      BY <1>9 DEF Handle
    <2>2. PICK answers \in {{"running"}, {"error", "404", "broken"}, {"done"}} : Taken(p, r, answers)
      BY <2>1 DEF HandleRunning, HandleFailure, HandleDone
    <2>3. /\ poll[p].run = r
          /\ poll' \in [Polls -> PollState]
          /\ poll'[p] = NoPoll
          /\ \A q \in Polls \ {p} : poll'[q] = poll[q]
      BY <2>2, TakenFacts
    <2>4. /\ job' = job /\ pc' = pc
          /\ {pollTimer', links', yaml', shown'.run} \subseteq OrNoRun
          /\ live' \subseteq Runs /\ preview' \subseteq Runs /\ disabled' \in BOOLEAN
          /\ latest' = latest /\ overlap' = overlap
      <3>1. shown'.run = r
        BY <2>1, ShownRun DEF HandleRunning, HandleFailure, HandleDone
      <3>2. /\ job' = job /\ pc' = pc /\ latest' = latest /\ overlap' = overlap
            /\ links' \in {links, r} /\ yaml' \in {yaml, NoRun}
            /\ preview' \in {preview, preview \cup {r}}
        BY <2>1 DEF HandleRunning, HandleFailure, HandleDone
      <3>3. /\ pollTimer' \in {pollTimer, NoRun} /\ live' \subseteq live
        BY <2>1 DEF HandleRunning, HandleFailure, HandleDone, Stop, ClearInterval
      <3>4. disabled' = disabled \/ disabled' = FALSE
        BY <2>1 DEF HandleRunning, HandleFailure, HandleDone, Stop
      <3>5. disabled' \in BOOLEAN
        BY <3>4 DEF TypeOK
      <3>6. {pollTimer', links', yaml', shown'.run} \subseteq OrNoRun
        BY <3>1, <3>2, <3>3 DEF TypeOK, OrNoRun
      <3>7. live' \subseteq Runs /\ preview' \subseteq Runs
        BY <3>2, <3>3 DEF TypeOK
      <3> QED BY <3>2, <3>5, <3>6, <3>7
    <2>5. TypeOK'
      BY <2>3, <2>4 DEF TypeOK, PollState, NoPoll
    <2>6. links' # links => links' = r /\ poll[p].answer = "done"
      BY <2>1 DEF HandleRunning, HandleFailure, HandleDone, Taken
    <2>7. \A q \in Polls : poll'[q].answer = "done" => job'[poll'[q].run] \in {"done", "404"}
      BY <2>3, <2>4 DEF NoPoll
    <2>8. LinksAreOfDoneJob'
      BY <2>3, <2>4, <2>6
    <2> QED BY <2>4, <2>5, <2>7, <2>8
  <1>10. CASE UNCHANGED vars
    BY <1>10 DEF vars, TypeOK
  <1> QED
    BY <1>1, <1>2, <1>3, <1>4, <1>5, <1>6, <1>7, <1>8, <1>9, <1>10
       DEF Next, Fire, PostReturns

LEMMA AnswerAlways == Spec => []AnswerInv
  BY AnswerInit, AnswerStep, PTL DEF Spec

\* Every variable keeps its type; a poll without a run has no answer.
THEOREM Typed == Spec => []TypeOK
  <1>1. AnswerInv => TypeOK
    BY DEF AnswerInv
  <1> QED BY <1>1, AnswerAlways, PTL

\* However late the answers come in, the page lists the files of a job that
\* has finished.
THEOREM LinksAreDone == Spec => []LinksAreOfDoneJob
  <1>1. AnswerInv => LinksAreOfDoneJob
    BY DEF AnswerInv
  <1> QED BY <1>1, AnswerAlways, PTL

-----------------------------------------------------------------------------
(* The page without overlapping requests.                                  *)

\* There is one request at a time, and it is the last click's.
Alone ==
  /\ live = IF pollTimer = NoRun THEN {} ELSE {pollTimer}
  /\ {pollTimer, links, yaml, shown.run} \subseteq {latest, NoRun}
  /\ disabled <=> live # {} \/ \E r \in Runs : pc[r] = "posting"
  /\ \A r \in Runs : pc[r] = "posting" => r = latest /\ pollTimer = NoRun
  /\ \A p \in Polls : poll[p] # NoPoll => poll[p].run = pollTimer
  /\ \A p, q \in Polls : poll[p] # NoPoll /\ poll[q] # NoPoll => p = q
  /\ preview \subseteq {latest}

LatestInv == TypeOK /\ (~overlap => Alone)

LEMMA LatestInit == Init => LatestInv
  <1> SUFFICES ASSUME Init PROVE Alone
    BY AnswerInit DEF LatestInv, AnswerInv
  <1> QED BY DEF Init, Alone

LEMMA LatestStep == LatestInv /\ TypeOK' /\ [Next]_vars => LatestInv'
  <1> SUFFICES ASSUME LatestInv, TypeOK', [Next]_vars, ~overlap' PROVE Alone'
    BY DEF LatestInv
  <1>0. ~overlap /\ Alone /\ TypeOK
    <2>1. overlap => overlap'
      <3>1. CASE \E r \in Runs : JobEnds(r) \/ JobPruned(r) \/ PostFails(r) \/ PreviewReturns(r)
        BY <3>1 DEF JobEnds, JobPruned, PostFails, PreviewReturns
      <3>2. CASE \E r \in Runs : Click(r)
        BY <3>2 DEF Click
      <3>3. CASE \E r \in Runs : PostReturns(r) \/ Fire(r)
        BY <3>3 DEF PostReturns, Fire, Send
      <3>4. CASE \E p \in Polls : Answer(p) \/ Handle(p)
        BY <3>4 DEF Answer, Handle, HandleRunning, HandleFailure, HandleDone
      <3>5. CASE ClickRefused
        BY <3>5 DEF ClickRefused
      <3>6. CASE UNCHANGED vars
        BY <3>6 DEF vars
      <3> QED BY <3>1, <3>2, <3>3, <3>4, <3>5, <3>6 DEF Next
    <2> QED BY <2>1 DEF LatestInv
  <1> USE <1>0, NoRunAssumption DEF timers, display
  <1>1. ASSUME UNCHANGED <<pc, latest, timers, poll, disabled, display, preview>> PROVE Alone'
    BY <1>1 DEF Alone
  <1>2. ASSUME NEW r \in Runs, Click(r) PROVE Alone'
    <2>1. /\ live = {} /\ pollTimer = NoRun
          /\ \A x \in Runs : pc[x] # "posting"
      BY <1>2 DEF Click, Alone
    <2>2. /\ \A p \in Polls : poll[p] = NoPoll
          /\ preview = {}
      BY <1>2 DEF Click, Polling
    <2>3. /\ live' = {} /\ pollTimer' = NoRun /\ links' = NoRun /\ yaml' = NoRun
          /\ shown'.run = r /\ latest' = r /\ disabled' = TRUE /\ poll' = poll /\ preview' = preview
      BY <1>2, <2>1 DEF Click, ClearInterval, Show
    <2>4. \A x \in Runs : pc'[x] = "posting" <=> x = r
      BY <1>2, <2>1 DEF Click, TypeOK
    <2> QED BY <2>2, <2>3, <2>4 DEF Alone
  <1>3. ASSUME NEW r \in Runs, PostFails(r) PROVE Alone'
    <2>1. r = latest /\ pollTimer = NoRun /\ live = {} /\ \A x \in Runs : pc[x] = "posting" => x = r
      BY <1>3 DEF PostFails, Alone
    <2>2. \A x \in Runs : pc'[x] # "posting"
      BY <1>3, <2>1 DEF PostFails, TypeOK
    <2> QED BY <1>3, <2>1, <2>2 DEF PostFails, Alone, Show
  <1>4. ASSUME NEW r \in Runs, PostReturns(r) PROVE Alone'
    <2>1. r = latest /\ pollTimer = NoRun /\ live = {} /\ \A x \in Runs : pc[x] = "posting" => x = r
      BY <1>4 DEF PostReturns, Alone
    <2>2. disabled
      BY <1>4 DEF PostReturns, Alone
    <2>3. PICK p \in Polls : Send(p, r)
      BY <1>4 DEF PostReturns
    <2>4. \A q \in Polls : poll[q] = NoPoll
      BY <2>3 DEF Send, Polling
    <2>5. /\ poll'[p] = [run |-> r, answer |-> "none"]
          /\ \A q \in Polls \ {p} : poll'[q] = NoPoll
      BY <2>3, <2>4, SendFacts
    <2>6. /\ live' = {r} /\ pollTimer' = r /\ latest' = latest /\ disabled' = disabled
          /\ links' = links /\ yaml' = yaml /\ preview' = preview /\ shown'.run = r
      BY <1>4, <2>1 DEF PostReturns, Show
    <2>7. \A x \in Runs : pc'[x] # "posting"
      BY <1>4, <2>1 DEF PostReturns, TypeOK
    <2> QED BY <2>1, <2>2, <2>5, <2>6, <2>7 DEF Alone
  <1>5. ASSUME NEW r \in Runs, Fire(r) PROVE Alone'
    <2>1. r = pollTimer
      BY <1>5 DEF Fire, Alone
    <2>2. PICK p \in Polls : Send(p, r)
      BY <1>5 DEF Fire
    <2>3. \A q \in Polls : poll[q] = NoPoll
      BY <2>2 DEF Send, Polling
    <2>4. /\ poll'[p] = [run |-> r, answer |-> "none"]
          /\ \A q \in Polls \ {p} : poll'[q] = NoPoll
      BY <2>2, <2>3, SendFacts
    <2> QED BY <1>5, <2>1, <2>4 DEF Fire, Alone
  <1>6. ASSUME NEW r \in Runs, PreviewReturns(r) PROVE Alone'
    BY <1>6 DEF PreviewReturns, Alone
  <1>7. CASE ClickRefused
    BY <1>7 DEF ClickRefused, Alone, Show
  <1>8. ASSUME NEW p \in Polls, Answer(p) PROVE Alone'
    <2>1. PICK answer \in {job[poll[p].run], "broken"} : poll' = [poll EXCEPT ![p].answer = answer]
      BY <1>8 DEF Answer
    <2>2. poll[p] # NoPoll /\ poll[p] \in PollState
      BY <1>8 DEF Answer, TypeOK, PollState
    <2>3. /\ poll'[p].run = poll[p].run
          /\ \A q \in Polls \ {p} : poll'[q] = poll[q]
      BY <2>1, <2>2 DEF TypeOK, PollState
    <2>4. /\ \A q \in Polls : poll'[q] # NoPoll => poll'[q].run = pollTimer
          /\ \A q, x \in Polls : poll'[q] # NoPoll /\ poll'[x] # NoPoll => q = x
      BY <2>2, <2>3 DEF Alone
    <2> QED BY <1>8, <2>4 DEF Answer, Alone
  <1>9. ASSUME NEW p \in Polls, Handle(p) PROVE Alone'
    <2>1. PICK r \in Runs : HandleRunning(p, r) \/ HandleFailure(p, r) \/ HandleDone(p, r)
      BY <1>9 DEF Handle
    <2>2. PICK answers \in {{"running"}, {"error", "404", "broken"}, {"done"}} : Taken(p, r, answers)
      BY <2>1 DEF HandleRunning, HandleFailure, HandleDone
    <2>3. /\ poll[p].run = r /\ poll'[p] = NoPoll
          /\ \A q \in Polls \ {p} : poll'[q] = poll[q]
      BY <2>2, TakenFacts
    <2>4. poll[p] # NoPoll
      BY <2>3 DEF NoPoll
    <2>5. r = pollTimer /\ r = latest /\ live = {r} /\ \A x \in Runs : pc[x] # "posting"
      BY <2>3, <2>4 DEF Alone
    <2>6. \A q \in Polls : poll'[q] = NoPoll
      BY <2>3, <2>4 DEF Alone
    <2>7. CASE HandleRunning(p, r)
      BY <2>5, <2>6, <2>7 DEF HandleRunning, Show, Alone
    <2>8. CASE HandleFailure(p, r) \/ HandleDone(p, r)
      <3>1. /\ live' = {} /\ pollTimer' = NoRun /\ disabled' = FALSE /\ pc' = pc
            /\ latest' = latest /\ shown'.run = r
            /\ links' \in {links, r} /\ yaml' = NoRun /\ preview' \subseteq preview \cup {r}
        <4>1. shown'.run = r
          BY <2>8, ShownRun DEF HandleFailure, HandleDone
        <4>2. /\ pc' = pc /\ latest' = latest
              /\ links' \in {links, r} /\ yaml' = NoRun /\ preview' \subseteq preview \cup {r}
          BY <2>8 DEF HandleFailure, HandleDone
        <4>3. live' = live \ {pollTimer} /\ pollTimer' = NoRun /\ disabled' = FALSE
          BY <2>8 DEF HandleFailure, HandleDone, Stop, ClearInterval
        <4> QED BY <2>5, <4>1, <4>2, <4>3
      <3> QED BY <2>5, <2>6, <3>1 DEF Alone
    <2> QED BY <2>1, <2>7, <2>8
  <1> QED
    BY <1>1, <1>2, <1>3, <1>4, <1>5, <1>6, <1>7, <1>8, <1>9
       DEF Next, JobEnds, JobPruned, vars

\* As long as no requests overlap the page is about the last click alone.
THEOREM OnlyLatest == Spec => []PageIsOfLatest
  <1>1. LatestInv => PageIsOfLatest
    BY DEF LatestInv, Alone, PageIsOfLatest
  <1> QED BY <1>1, LatestInit, LatestStep, Typed, PTL DEF Spec
=============================================================================
