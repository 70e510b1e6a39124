------------------------------ MODULE JobStore ------------------------------
(***************************************************************************)
(* What the browser UI promises of a job, whatever its goroutine, the      *)
(* pruner and the handlers are doing: the job is accepted, runs, and fails *)
(* or publishes all its files at once; from then on each of the links      *)
(* leads to its file, until the job is forgotten with all of them, which   *)
(* is not before it is older than the TTL.                                 *)
(***************************************************************************)
EXTENDS Integers

CONSTANTS Jobs, Files, TTL

VARIABLES
  now,    \* the wall clock
  state,  \* "none", "queued", "running", "done", "error" or "gone"
  born,   \* when the job was accepted
  links   \* the files that its links lead to

vars == <<now, state, born, links>>

Init ==
  /\ now = 0
  /\ state = [id \in Jobs |-> "none"]
  /\ born  = [id \in Jobs |-> 0]
  /\ links = [id \in Jobs |-> {}]

Goto(id, from, to) == state[id] = from /\ state' = [state EXCEPT ![id] = to]

Accept(id) ==
  /\ Goto(id, "none", "queued")
  /\ born' = [born EXCEPT ![id] = now]
  /\ UNCHANGED <<now, links>>

Begin(id) ==
  /\ Goto(id, "queued", "running")
  /\ UNCHANGED <<now, born, links>>

GiveUp(id) ==
  /\ Goto(id, "running", "error")
  /\ UNCHANGED <<now, born, links>>

Publish(id) ==
  /\ Goto(id, "running", "done")
  /\ links' = [links EXCEPT ![id] = Files]
  /\ UNCHANGED <<now, born>>

Forget(id) ==
  /\ state[id] \in {"queued", "running", "done", "error"}
  /\ now - born[id] > TTL
  /\ state' = [state EXCEPT ![id] = "gone"]
  /\ links' = [links EXCEPT ![id] = {}]
  /\ UNCHANGED <<now, born>>

Tick ==
  /\ now' = now + 1
  /\ UNCHANGED <<state, born, links>>

Next ==
  \/ \E id \in Jobs : Accept(id) \/ Begin(id) \/ GiveUp(id) \/ Publish(id) \/ Forget(id)
  \/ Tick

Spec == Init /\ [][Next]_vars
=============================================================================
