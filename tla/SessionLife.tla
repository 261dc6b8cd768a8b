---------------------------- MODULE SessionLife ----------------------------
(***************************************************************************)
(* The life of one session, as little as its guild has to know of it: how  *)
(* far it is, whether the manager's map has it, how many tracks wait, and  *)
(* what its playback worker is about.                                      *)
(*                                                                         *)
(* It is the interface of two modules.  Session has the inside of one      *)
(* session and implements it; SessionManager has the sessions of a guild,  *)
(* each of which takes the steps below and no other.                       *)
(***************************************************************************)
EXTENDS Naturals

CONSTANT QueueCap \* queueCapacity

VARIABLES
  stage,      \* "none", "open", "closing", "left" or "gone"
  registered, \* the manager's map has the session
  waiting,    \* how many tracks wait
  worker      \* the playback worker

vars == <<stage, registered, waiting, worker>>

\* A session that is yet to be created, or has just been.
Init ==
  /\ stage \in {"none", "open"}
  /\ registered = (stage = "open")
  /\ waiting = 0
  /\ worker = "unborn"

----------------------------------------------------------------------------
\* The manager's map: a session enters it once.
Create ==
  /\ stage = "none"
  /\ stage' = "open"
  /\ registered' = TRUE
  /\ UNCHANGED <<waiting, worker>>

Detach ==
  /\ registered
  /\ registered' = FALSE
  /\ UNCHANGED <<stage, waiting, worker>>

----------------------------------------------------------------------------
\* The queue.
Enqueue ==
  /\ stage = "open" /\ waiting < QueueCap
  /\ waiting' = waiting + 1
  /\ UNCHANGED <<stage, registered, worker>>

Clear ==
  /\ waiting' = 0
  /\ UNCHANGED <<stage, registered, worker>>

----------------------------------------------------------------------------
\* The worker.
WorkerGoes(from, to) ==
  /\ worker = from
  /\ worker' = to
  /\ UNCHANGED <<stage, registered, waiting>>

\* Of an open session it leaves only an empty queue.
Check ==
  \/ stage # "open" /\ WorkerGoes("check", "exit")
  \/ stage = "open" /\ waiting = 0 /\ WorkerGoes("check", "destroy")
  \/ (stage = "open" => waiting > 0) /\ WorkerGoes("check", "dequeue")

Dequeue ==
  /\ worker = "dequeue"
  /\ \/ stage # "open" /\ worker' = "exit" /\ UNCHANGED waiting
     \/ /\ stage = "open" /\ waiting > 0
        /\ worker' = "play"
        /\ waiting' = waiting - 1
  /\ UNCHANGED <<stage, registered>>

\* Its Destroy returns when the session has left the map.
Destroyed == ~registered /\ WorkerGoes("destroy", "exit")

WorkerStep ==
  \/ WorkerGoes("unborn", "check")
  \/ Check \/ Dequeue \/ WorkerGoes("play", "check") \/ Destroyed

----------------------------------------------------------------------------
\* Close: whoever begins it drops the queue, and a track that is not being
\* sent is not sent any more; the connection is closed when none is.
BeginClose ==
  /\ stage = "open"
  /\ stage' = "closing"
  /\ waiting' = 0
  /\ worker' = worker \/ (worker = "play" /\ worker' = "check")
  /\ UNCHANGED registered

CloseConn ==
  /\ stage = "closing" /\ worker # "play"
  /\ stage' = "left"
  /\ UNCHANGED <<registered, waiting, worker>>

Remove ==
  /\ stage = "left"
  /\ stage' = "gone"
  /\ registered' = FALSE
  /\ UNCHANGED <<waiting, worker>>

Next ==
  \/ Create \/ Detach
  \/ Enqueue \/ Clear
  \/ WorkerStep
  \/ BeginClose \/ CloseConn \/ Remove

Spec == Init /\ [][Next]_vars
=============================================================================
